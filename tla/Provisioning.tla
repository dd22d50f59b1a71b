------------------------------- MODULE Provisioning -------------------------------
(***************************************************************************)
(* The components that provision a device, one of them at a time (kind),   *)
(* over what it calls: the transports over MQTT, AMQP and HTTP on a base   *)
(* connection, the security client and the provider on a TPM, and the      *)
(* registrations on the security clients, the transport and the polling    *)
(* machine (PollingStateMachine.tla).                                      *)
(***************************************************************************)
EXTENDS ProvisioningAmqp, TpmSecurity, Registrations

CONSTANTS
  Kinds,       \* the components that are checked
  MaxCalls,    \* bound: calls of the user
  MaxLosses,   \* bound: connections that end by themselves
  MaxTimers    \* bound: timers of the provider at once

ASSUME ProvisioningAssumption ==
  MaxCalls \in Nat \ {0} /\ MaxLosses \in Nat /\ MaxTimers \in Nat \ {0}

VARIABLES
  kind, m,         \* the component, and its machine
  agenda, thrown,  \* what is left of the turn; a handler threw
  below,           \* the connection or the TPM
  asks,            \* what they have to answer
  calls,           \* history: what the user has called, and has been told
  losses           \* how many connections have ended by themselves

vars == <<kind, m, agenda, thrown, below, asks, calls, losses>>

Start == [mqtt |-> MqttStart, amqp |-> AmqpStart, http |-> PlainStart, tpm |-> TpmStart,
          provider |-> ProviderStart, registration |-> TpmRegistrationStart, plain |-> PlainStart]

\* What the user of each calls.  registerDevice and queryOperationStatus go
\* the same way, and so do the two public keys: one stands for both.
Ops == [mqtt |-> {"register", "cancel", "disconnect"},
        amqp |-> {"register", "cancel", "disconnect", "challenge", "respond"},
        http |-> {"register", "cancel", "disconnect", "challenge", "respond"},
        tpm |-> {"srk", "regId", "sign", "signLong", "activate"},
        provider |-> {"credentials", "stop"}, registration |-> {"register", "cancel"},
        plain |-> {"registerX509", "registerKey", "cancel"}]

\* Of the connection: state, deferred (what its machine has put off), sent (the
\* requests the service has got on it) and the stage of the handshake; history: left,
\* those it had got on connections before.
\* Of the TPM: key, the activation whose key it has; history: stale, it was given or
\* lost a key behind the client's back.
Init ==
  /\ kind \in Kinds /\ m = Start[kind]
  /\ agenda = <<>> /\ thrown = FALSE
  /\ below = [state |-> "down", deferred |-> <<>>, sent |-> {}, left |-> {}, sasl |-> "-", key |-> 0, stale |-> FALSE]
  /\ asks = {} /\ calls = <<>> /\ losses = 0

-----------------------------------------------------------------------------
(* The transport over HTTP has no state: it does not stop what it has sent. *)

HttpHandle(h, in) ==
  Done(h, CASE in.do \in Exchanges -> Ask("request", [in.cb EXCEPT !.fn = "responded"])
            [] in.do = "challenge" -> Ask("request", [in.cb EXCEPT !.fn = "unauthorized"])
            [] in.do \in {"respond", "cancel", "disconnect"} -> Call(in.cb, FALSE))

\* 429 and above is a result too.  A challenge is what a 401 brings with it.
HttpCallback(h, cb, err) ==
  CASE cb.fn = "throttled" -> Done(h, Call(ToUser(cb), cb.op \notin Exchanges))
    [] cb.fn = "responded" -> Done(h, Call(ToUser(cb), err))
    [] cb.fn = "unauthorized" -> Done(h, Call(ToUser(cb), ~err))

-----------------------------------------------------------------------------
(* The turn.                                                               *)

Enter(cb, err) ==
  CASE kind = "mqtt" -> MqttEnter(m, cb, err)
    [] kind = "amqp" -> AmqpEnter(m, cb, err)
    [] kind = "tpm" -> TpmEnter(m, cb, err)
    [] kind = "provider" -> ProviderEnter(m, cb, err)
    [] kind = "registration" -> RegistrationEnter(m, cb, err)

Handle(in) ==
  CASE kind = "mqtt" -> MqttHandle(m, in)
    [] kind = "amqp" -> AmqpHandle(m, in)
    [] kind = "http" -> HttpHandle(m, in)
    [] kind = "tpm" -> TpmHandle(m, in)
    [] kind = "provider" -> ProviderHandle(m, in)
    [] kind = "registration" -> RegistrationHandle(m, in)
    [] kind = "plain" -> PlainRegistration(m, in)

Callback(cb, err) ==
  CASE kind = "mqtt" -> MqttCallback(m, cb, err)
    [] kind = "amqp" -> AmqpCallback(m, cb, err)
    [] kind = "http" -> HttpCallback(m, cb, err)
    [] kind = "tpm" -> TpmCallback(m, cb, err, below.key)
    [] kind = "provider" -> ProviderCallback(m, cb, err)
    [] kind = "registration" -> RegistrationCallback(m, cb, err)
    [] kind = "plain" -> PlainCallback(m, cb, err)

States == {"disconnected", "connecting", "connectingTpm", "attaching", "connected",
           "disconnecting", "inactive", "activating", "active", "notStarted", "authenticating",
           "responding", "inProgress", "storing", "completed"}

Step(in) == CASE in.do = "enter" -> Enter(in.cb, in.err)
              [] in.do \in States -> Replay(m, in.do)
              [] OTHER -> Handle(in)

\* What process.nextTick has been given, if it has, comes after the rest of the turn.
Advance(r, rest) ==
  LET Tick(in) == in.at = "tick"
      ticks == SelectSeq(r.now, Tick)
  IN /\ m' = r.m
     /\ agenda' = IF \A i \in DOMAIN r.now : ~Tick(r.now[i]) THEN r.now \o rest
                  ELSE SelectSeq(r.now, LAMBDA in : ~Tick(in)) \o rest
                       \o [i \in DOMAIN ticks |-> [ticks[i] EXCEPT !.at = "callback"]]
     /\ UNCHANGED <<thrown, below, asks, calls>>

\* The user's callback is called, or is lost.
Tell(id, how, rest) ==
  /\ calls' = IF id = 0 THEN calls ELSE [calls EXCEPT ![id][how] = @ + 1]
  /\ agenda' = rest
  /\ UNCHANGED <<m, thrown, below, asks>>

OfBase == {"subscribe", "unsubscribe", "publish", "attach", "detach", "send", "disconnect"}
Connects == {"connect", "handshake"}
Refusal(a) == Call(a.cb, a.do \notin {"disconnect", "detach"})[1]
Refusals(as) == LET s == SetToSeq({a \in as : a.do \in OfBase})
                IN [i \in DOMAIN s |-> Refusal(s[i])]

\* The base puts off what it is asked while it opens or closes a connection, until
\* the next transition.
PutOff(in, rest) ==
  /\ below' = [below EXCEPT !.deferred = Append(@, in)]
  /\ agenda' = rest /\ UNCHANGED asks

\* Without a connection it answers at once, or opens one.
AskedDown(in, a, rest) ==
  IF in.do \in Connects
  THEN /\ below' = [below EXCEPT !.state = "opening",
                               !.sasl = IF in.do = "handshake" THEN "started" ELSE @]
       /\ asks' = asks \cup {a} /\ agenda' = rest
  ELSE agenda' = <<Refusal(a)>> \o rest /\ UNCHANGED <<asks, below>>

\* With one there is nothing to open, and no challenge comes.
AskedUp(in, a, rest) ==
  IF in.do \in Connects
  THEN /\ agenda' = (IF in.do = "handshake" THEN Dropped(in.cb) ELSE <<>>) \o Call(in.cb, FALSE) \o rest
       /\ UNCHANGED <<asks, below>>
  ELSE /\ below' = CASE in.do = "disconnect" -> [below EXCEPT !.state = "closing"]
                     [] in.do \in {"publish", "send"} -> [below EXCEPT !.sent = @ \cup {ToUser(in.cb)}]
                     [] OTHER -> below
       /\ asks' = asks \cup {a} /\ agenda' = rest

\* Over MQTT a disconnect overtakes a connection that is being opened, whose
\* callback is lost, but not one that is failing.
Overtakes(in, a, rest) ==
  \/ /\ below' = [below EXCEPT !.state = "closing"]
     /\ asks' = {a} /\ \E o \in asks : agenda' = Dropped(o.cb) \o rest
  \/ /\ below' = [below EXCEPT !.state = "failing", !.deferred = Append(@, in)]
     /\ agenda' = rest /\ UNCHANGED asks

\* The other requests are for the TPM or the service, which answer in any order.
Asked(in, rest) ==
  LET a == [do |-> in.do, cb |-> in.cb, pub |-> IF kind = "tpm" THEN m.pub ELSE 0]
  IN /\ IF in.do = "sas"
        THEN /\ below' = IF below.sasl = "asked" THEN [below EXCEPT !.sasl = "given"] ELSE below
             /\ agenda' = rest /\ UNCHANGED asks
        ELSE IF in.do \notin OfBase \cup Connects
        THEN asks' = asks \cup {a} /\ agenda' = rest /\ UNCHANGED below
        ELSE IF below.state = "down" THEN AskedDown(in, a, rest)
        ELSE IF below.state = "up" THEN AskedUp(in, a, rest)
        ELSE IF kind = "mqtt" /\ in.do = "disconnect" /\ below.state = "opening"
        THEN Overtakes(in, a, rest)
        ELSE PutOff(in, rest)
     /\ UNCHANGED <<m, thrown, calls>>

\* A callback is lost, is the user's, or is a function of the component.
CalledBack(in, rest) ==
  IF in.do = "drop" THEN Tell(in.cb.id, "dropped", rest)
  ELSE IF in.cb.fn = "user" THEN Tell(in.cb.id, IF in.err THEN "errors" ELSE "results", rest)
  ELSE Advance(Callback(in.cb, in.err), rest)

Threw == thrown' = TRUE /\ agenda' = <<>> /\ UNCHANGED <<m, below, asks, calls>>

Run ==
  /\ agenda # <<>>
  /\ LET in == Head(agenda)
         rest == Tail(agenda)
     IN CASE in.at = "throw" -> Threw
          [] in.at = "ask" -> Asked(in, rest)
          [] in.at = "machine" -> Advance(Step(in), rest)
          [] OTHER -> CalledBack(in, rest)
  /\ UNCHANGED <<kind, losses>>

Quiet == agenda = <<>> /\ ~thrown

-----------------------------------------------------------------------------
(* The user, and the timers of the provider.  The key of a TPM is activated *)
(* by one caller at a time, as TpmRegistration does.                       *)

Told(i) == calls[i].errors + calls[i].results + calls[i].dropped

UserCalls(op, err) ==
  /\ Quiet /\ op \in Ops[kind] /\ Len(calls) < MaxCalls
  /\ op = "activate" => \A i \in DOMAIN calls : calls[i].op = op => Told(i) > 0
  /\ err => op = "activate"
  /\ LET cb == Closure("user", Len(calls) + 1, op) IN
     agenda' = CASE op = "regId" -> Call([cb EXCEPT !.fn = "regId"], FALSE)
                 [] op = "stop" -> <<Input("machine", "stop", Nobody, FALSE)>>
                 [] OTHER -> <<Input("machine", op, cb, err)>>
  /\ calls' = Append(calls, [op |-> op, errors |-> 0, results |-> 0,
                             dropped |-> IF op = "stop" THEN 1 ELSE 0])
  /\ UNCHANGED <<kind, m, thrown, below, asks, losses>>

TimerFires(own) ==
  /\ Quiet /\ kind = "provider"
  /\ IF own THEN m.timer ELSE m.others > 0
  /\ m.others < MaxTimers
  /\ Advance(Renew(m, own), <<>>)
  /\ UNCHANGED <<kind, losses>>

-----------------------------------------------------------------------------
(* The connection.                                                         *)

\* The TPM has the key imported and loaded only with its own public part.
MayAnswer(a, how) ==
  CASE a.do \in OfBase ->
         a.do # "disconnect" /\ (how = "throttled" => a.do = "send" /\ ToUser(a.cb) \in below.sent)
    [] a.do = "connect" -> how = "err" \/ (how = "ok" /\ below.state = "opening")
    [] a.do = "handshake" -> how = "err" \/ (how = "ok" /\ below.sasl = "given")
    [] a.do = "request" -> TRUE
    [] how = "ok" -> /\ a.do \in {"Import", "Load"} => a.pub = a.cb.id
                     /\ a.do \in {"HMAC", "HMAC_Start", "SequenceComplete", "ReadIdentity"} => below.key # 0
    [] OTHER -> how = "err"

\* What the answer does to the connection and to the TPM.
Effect(a, how) ==
  CASE a.do \in Connects ->
         [below EXCEPT !.state = IF how = "ok" THEN "up" ELSE "down", !.deferred = <<>>,
                       !.sent = {}, !.left = @ \cup below.sent]
    [] a.do = "EvictOld" /\ how = "ok" ->
         [below EXCEPT !.key = 0, !.stale = m.pub # a.cb.id]
    [] a.do = "Persist" /\ how = "ok" ->
         [below EXCEPT !.key = a.cb.id, !.stale = m.pub # a.cb.id]
    [] a.do = "ReadIdentity" -> [below EXCEPT !.stale = FALSE]
    [] OTHER -> below

\* A connection is open, or failed to: the base goes on with what it has put off.  The
\* callback of the challenge is lost if it has not come.
Answers(a, how) ==
  LET lost == a.do = "handshake" /\ how = "err" /\ below.sasl = "started"
      cb == IF how = "throttled" THEN [a.cb EXCEPT !.fn = how] ELSE a.cb
  IN /\ Quiet /\ MayAnswer(a, how)
     /\ below' = Effect(a, how)
     /\ asks' = asks \ {a}
     /\ agenda' = (IF lost THEN Dropped(a.cb) ELSE <<>>) \o Call(cb, how = "err")
                  \o (IF a.do \in Connects THEN below.deferred ELSE <<>>)
     /\ UNCHANGED <<kind, m, thrown, calls, losses>>

\* The polling machine and the transport may never call back once a registration
\* is cancelled, and no challenge comes when the connection fails first.
NeverAnswers(a) ==
  /\ Quiet /\ kind = "registration" /\ a.do \in {"challenge", "respond", "poll"}
  /\ asks' = asks \ {a} /\ agenda' = Dropped(a.cb)
  /\ UNCHANGED <<kind, m, thrown, below, calls, losses>>

\* The last segment of the challenge.
Challenge(a) ==
  /\ Quiet /\ a.do = "handshake" /\ below.sasl = "started"
  /\ below' = [below EXCEPT !.sasl = "asked"]
  /\ agenda' = Call([a.cb EXCEPT !.fn = "challenged"], FALSE)
  /\ UNCHANGED <<kind, m, thrown, asks, calls, losses>>

\* The base has disconnected: what is left is refused.
Closed(a, err) ==
  /\ Quiet /\ a.do = "disconnect"
  /\ below' = [below EXCEPT !.state = "down", !.deferred = <<>>]
  /\ asks' = {o \in asks : o.do \notin OfBase}
  /\ agenda' = Refusals(asks \ {a}) \o Call(a.cb, err) \o below.deferred
  /\ UNCHANGED <<kind, m, thrown, calls, losses>>

\* The connection ends by itself: what was under way is refused, and the machine
\* is told, by the base or by its links.
Lost ==
  LET link == <<Input("machine", "amqpError", Nobody, TRUE)>>
      told == IF kind = "mqtt" THEN <<Input("machine", "disconnect", Nobody, TRUE)>>
              ELSE (IF m.receiver THEN link ELSE <<>>) \o (IF m.sender THEN link ELSE <<>>)
  IN /\ Quiet /\ below.state = "up" /\ losses < MaxLosses
     /\ below' = [below EXCEPT !.state = "down"]
     /\ losses' = losses + 1
     /\ asks' = {a \in asks : a.do \notin OfBase}
     /\ agenda' = Refusals(asks) \o told
     /\ UNCHANGED <<kind, m, thrown, calls>>

\* A response is published at least once; a message that is responded to is not
\* rejected.
Responds(cb, err) ==
  /\ Quiet /\ below.state = "up" /\ cb \in m.held
  /\ below' = IF kind = "amqp" THEN [below EXCEPT !.sent = @ \ {cb}] ELSE below
  /\ agenda' = Call([cb EXCEPT !.fn = "response"], err)
  /\ UNCHANGED <<kind, m, thrown, asks, calls, losses>>

Users == \E op \in UNION {Ops[k] : k \in Kinds}, err \in BOOLEAN : UserCalls(op, err)
Timers == \E own \in BOOLEAN : TimerFires(own)
Below(i) == \E a \in asks : /\ a.cb.id = i
                            /\ \/ \E how \in {"ok", "err", "throttled"} : Answers(a, how)
                               \/ NeverAnswers(a)
Handshakes == \E a \in asks : Challenge(a)
Closes == \E a \in asks, err \in BOOLEAN : Closed(a, err)
Service == \E cb \in below.sent, err \in BOOLEAN : Responds(cb, err)

Next == Run \/ Users \/ Timers \/ (\E i \in 0..MaxCalls : Below(i)) \/ Handshakes \/ Closes \/ Lost \/ Service

\* The process runs; what is below and the service answer.
Spec == /\ Init /\ [][Next]_vars
        /\ WF_vars(Run) /\ (\A i \in 0..MaxCalls : SF_vars(Below(i)))
        /\ WF_vars(Closes) /\ WF_vars(Service)

-----------------------------------------------------------------------------
(* Properties.                                                             *)

\* Whatever happens to it, an operation is told one result at most, and three
\* errors (a cancelled one also when its request fails afterwards, or when the links
\* it has had attached do, mqtt.ts:402, amqp.ts:575): the components implement
\* Operations.tla.
Calls == 1..MaxCalls
Abstract == INSTANCE Operations WITH
  Ids <- Calls, MaxErrors <- 3, begun <- DOMAIN calls,
  results <- [i \in Calls |-> IF i \in DOMAIN calls THEN calls[i].results ELSE 0],
  errors <- [i \in Calls |-> IF i \in DOMAIN calls THEN calls[i].errors ELSE 0]
ImplementsOperations == Abstract!Spec

TypeOK ==
  /\ m.state \in States \cup {"-"} /\ below.state \in {"down", "opening", "failing", "up", "closing"}
  /\ below.key \in 0..MaxCalls /\ Len(calls) <= MaxCalls

\* Between turns, a security client that is connected and activates no key has in
\* _idKeyPub the key that the TPM signs with, or none when it could not be read
\* (tpm.ts:432): a failure between taking the public part and persisting the key
\* has the client read it again.
\* Not so when an activation outlives the connection it was started on.
KeyIsKnown ==
  TypeOK /\ (kind = "tpm" /\ Quiet /\ m.state = "connected" /\ ~below.stale
             /\ (\A a \in asks : a.do \notin Range(Activation)) => m.pub \in {0, below.key})

\* A request on a connection that is gone waits for a cancel, the response to a
\* challenge for a handshake that is over, and a registration for the one before it
\* whose answer never comes.
Stranded(i) ==
  \/ /\ kind \in {"mqtt", "amqp"}
     /\ \E cb \in m.held \cap (below.left \cup IF below.state = "down" THEN below.sent ELSE {}) :
          cb.id = i
  \/ /\ kind = "amqp" /\ \A a \in asks \cup Range(below.deferred) : a.do # "handshake"
     /\ \E cb \in m.awaits : cb.id = i
  \/ /\ kind = "registration" /\ asks = {}
     /\ \E d \in Range(m.deferred) : d.input.cb.id = i

\* Every call is answered, or its callback is among those that the code loses; an
\* error of the connection after disconnect has the process throw (mqtt.ts:150),
\* and a transport over AMQP stays in the handshake of a TPM until its challenge
\* is responded to.
EveryCallAnswered ==
  \A i \in Calls :
    (i \in DOMAIN calls /\ Told(i) = 0)
      ~> (thrown \/ m.state = "connectingTpm"
          \/ (i \in DOMAIN calls /\ (Told(i) > 0 \/ Stranded(i))))

=============================================================================
