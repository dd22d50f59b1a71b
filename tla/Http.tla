----------------------------------- MODULE Http -----------------------------------
(***************************************************************************)
(* The components that speak HTTP, one of them at a time (kind), over what *)
(* they call: the base (common/transport/http/src/http.ts), which answers  *)
(* each request once, the authentication provider, the token credential,   *)
(* the agent string and the storage of blobs.                              *)
(***************************************************************************)
EXTENDS HttpReceiver, RestCalls

CONSTANTS
  MaxCalls,    \* bound: calls of the user
  MaxPolls,    \* bound: timers that fire
  MaxMessages  \* bound: messages that the hub has for the device

ASSUME HttpAssumption ==
  MaxCalls \in Nat \ {0} /\ MaxPolls \in Nat /\ MaxMessages \in Nat

VARIABLES
  kind, m,         \* the component, and its state
  agenda, thrown,  \* what is left of the turn; an exception nobody has caught
  asks,            \* what it waits for
  calls,           \* history: what the user has called, and has been told
  polls,           \* how many timers have fired
  hub              \* left: the messages of the device; blobs: the uploads that it
                   \* has stored; notified: those it was told have succeeded

vars == <<kind, m, agenda, thrown, asks, calls, polls, hub>>

\* A call stands for the operations of the provisioning service client that are one
\* request; complete, reject and abandon settle.
Ops == [receiver |-> Policies \cup {"enable", "disable", "disconnect", "send", "settle",
                                    "receive", "contradiction", "otherOptions"},
        service |-> {"call", "bulk", "next", "nextPromise"},
        upload |-> {"upload", "getSas", "notify"}, invoke |-> {"invoke"}]

Init ==
  /\ kind \in DOMAIN Ops
  /\ m = IF kind = "receiver" THEN ReceiverStart ELSE RestStart
  /\ agenda = <<>> /\ thrown = FALSE /\ asks = {} /\ calls = <<>> /\ polls = 0
  /\ hub = [left |-> MaxMessages, blobs |-> {}, notified |-> {}]

Waits(op) == \E a \in asks : a.cb.op = op

Handle(in) ==
  IF kind = "receiver" THEN ReceiverHandle(m, in, Waits("enable"))
  ELSE RestHandle(m, in, Waits("next") \/ Waits("nextPromise"))

Callback(in) ==
  CASE kind = "receiver" -> ReceiverCallback(m, in.cb, in.err, in.do = "found")
    [] kind = "service" -> RestCallback(m, in.cb, in.err)
    [] kind = "upload" -> UploadCallback(m, in.cb, in.err)
    [] kind = "invoke" -> InvokeCallback(m, in.cb, in.err)

Advance(r, rest) ==
  m' = r.m /\ agenda' = r.now \o rest /\ UNCHANGED <<thrown, asks, calls>>

Tell(id, how, rest) ==
  /\ calls' = IF id = 0 THEN calls ELSE [calls EXCEPT ![id][how] = @ + 1]
  /\ agenda' = rest
  /\ UNCHANGED <<m, thrown, asks>>

\* polls tells the requests of one poll from those of another.
Asked(in, rest) ==
  /\ asks' = asks \cup {[do |-> in.do, cb |-> in.cb, poll |-> IF in.cb.id = 0 THEN polls ELSE 0]}
  /\ agenda' = rest
  /\ UNCHANGED <<m, thrown, calls>>

Threw == thrown' = TRUE /\ agenda' = <<>> /\ UNCHANGED <<m, asks, calls>>

Run ==
  /\ agenda # <<>>
  /\ LET in == Head(agenda)
         rest == Tail(agenda)
     IN IF in.at = "throw" THEN Threw
        ELSE IF in.at = "ask" THEN Asked(in, rest)
        ELSE IF in.at = "machine" THEN Advance(Handle(in), rest)
        ELSE IF in.do = "drop" THEN Tell(in.cb.id, "dropped", rest)
        ELSE IF in.cb.fn = "user" THEN Tell(in.cb.id, IF in.err THEN "errors" ELSE "results", rest)
        ELSE Advance(Callback(in), rest)
  /\ UNCHANGED <<kind, polls, hub>>

Quiet == agenda = <<>> /\ ~thrown

-----------------------------------------------------------------------------
(* The user, and time.                                                     *)

\* A query is asked for its pages while there are more; notify tells the hub of an
\* upload that the user has made itself.  Bound: draining is given up together with
\* the choice of an interval.  A call of the device client is one attempt: it retries
\* none of the errors of an upload.
UserCalls(op, drain) ==
  /\ Quiet /\ op \in Ops[kind] /\ Len(calls) < MaxCalls
  /\ drain \/ op = "interval"
  /\ op \in {"next", "nextPromise"} => m.more
  /\ agenda' = <<Input("machine", op, Closure("user", Len(calls) + 1, op), ~drain)>>
  /\ calls' = Append(calls, [op |-> op, errors |-> 0, results |-> 0,
                             dropped |-> IF op = "receive" THEN 1 ELSE 0])
  /\ UNCHANGED <<kind, m, thrown, asks, polls, hub>>

\* receive is called: by the interval and by cron again and again.
TimerFires ==
  /\ Quiet /\ kind = "receiver" /\ m.timer # "none" /\ ~m.spent /\ polls < MaxPolls
  /\ m' = [m EXCEPT !.spent = m.timer = "at"]
  /\ polls' = polls + 1
  /\ agenda' = <<Input("machine", "receive", Closure("user", 0, "receive"), FALSE)>>
  /\ UNCHANGED <<kind, thrown, asks, calls, hub>>

\* The token comes close to its expiry.
TokenAges ==
  /\ Quiet /\ kind = "service" /\ m.token = "fresh"
  /\ m' = [m EXCEPT !.token = "old"]
  /\ UNCHANGED <<kind, agenda, thrown, asks, calls, polls, hub>>

-----------------------------------------------------------------------------
(* What is called answers.                                                 *)

\* The hub has got the notification, and may have stored the blob, even if the
\* answer is an error.
Answers(a, err, got) ==
  /\ Quiet /\ a \in asks
  /\ a.do = "agent" => ~err
  /\ (got /\ a.cb.op = "receive") => hub.left > 0
  /\ LET found == got /\ a.do = "request" /\ a.cb.op = "receive" /\ ~err
         stored == a.do = "stream" /\ (~err \/ got)
         noted == a.do = "notification" /\ ~a.cb.err /\ (~err \/ got)
     IN /\ agenda' = <<Input("callback", IF found THEN "found" ELSE "call", a.cb, err)>>
        /\ hub' = [left |-> IF found THEN hub.left - 1 ELSE hub.left,
                   blobs |-> IF stored THEN hub.blobs \cup {a.cb.id} ELSE hub.blobs,
                   notified |-> IF noted THEN hub.notified \cup {a.cb.id} ELSE hub.notified]
  /\ asks' = asks \ {a}
  /\ UNCHANGED <<kind, m, thrown, calls, polls>>

Users == \E op \in UNION {Ops[k] : k \in DOMAIN Ops}, drain \in BOOLEAN : UserCalls(op, drain)
Below(i) == \E a \in asks, err \in BOOLEAN, got \in BOOLEAN : a.cb.id = i /\ Answers(a, err, got)

Next == Run \/ Users \/ TimerFires \/ TokenAges \/ (\E i \in 0..MaxCalls : Below(i))

\* The process runs, and what is called answers.
Spec == Init /\ [][Next]_vars /\ WF_vars(Run) /\ \A i \in 0..MaxCalls : SF_vars(Below(i))

-----------------------------------------------------------------------------
(* Properties.                                                             *)

TypeOK ==
  /\ Len(calls) <= MaxCalls /\ polls \in 0..MaxPolls /\ hub.left \in 0..MaxMessages
  /\ IF kind = "receiver" THEN m.policy \in Policies /\ m.timer \in Timers \cup {"none"}
     ELSE m.token \in {"none", "fresh", "old"} /\ m.at \in 0..Pages

\* Between turns, what the transport believes of its receiver (_receiverStarted) is
\* what the timers do, whatever options are set in which order: it is started with
\* the timer of its policy or with manual polling; and once the user has stopped it,
\* with no start under way, it does not poll (http.ts:502, http.ts:531, http.ts:763).
ReceiverStops ==
  TypeOK /\ (kind = "receiver" /\ Quiet =>
    /\ m.timer # "none" => m.started /\ m.timer = m.policy
    /\ m.started /\ m.timer = "none" => m.policy = "manual"
    /\ ~m.wanted => ~m.started)

\* An upload is told to be done only if the storage has the blob and the hub knows;
\* the hub is told of no success without a blob (blob_upload_client.ts:69).
UploadsAreTold ==
  kind = "upload" =>
    \A i \in DOMAIN calls : calls[i].op = "upload" =>
      /\ calls[i].results > 0 => i \in hub.blobs \cap hub.notified
      /\ i \in hub.notified => i \in hub.blobs

\* A query asked with a callback, for one page at a time, gives each once, in
\* order, also when a request fails in between (query.ts:59).
PagesInOrder ==
  kind = "service" /\ ~m.overlap /\ (\A i \in DOMAIN calls : calls[i].op # "nextPromise") =>
    \A i \in DOMAIN m.pages : m.pages[i] = i

\* What the callers are told of the service is what it has.
ToldWhatIs == UploadsAreTold /\ PagesInOrder

\* Every call is told once, but for those that the code forgets: setOptions with
\* options not for the receiver (http.ts:368), and a bulk operation that returns a
\* promise; and unless credentials that fail had the process throw.
EveryCallAnswered ==
  \A i \in 1..MaxCalls :
    (i \in DOMAIN calls /\ calls[i].op \notin {"receive", "bulk", "otherOptions"})
      ~> (thrown \/ (i \in DOMAIN calls /\ calls[i].errors + calls[i].results = 1))

=============================================================================
