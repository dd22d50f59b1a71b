------------------------------ MODULE Http_proofs ------------------------------
(***************************************************************************)
(* Proofs about the components that speak HTTP, for every number of calls, *)
(* polls, messages and pages.                                              *)
(*                                                                         *)
(* A turn of these components is one item long: what a handler runs at     *)
(* once is one request or one callback, or nothing.  So the callback of a  *)
(* call is at one place at a time, the item of the turn (agenda) or what   *)
(* waits for an answer (asks), and what the invariants say of it follows   *)
(* it from one to the other: Polling that an enableC2D under way is one    *)
(* that the user wants; Uploading what the storage and the hub have when   *)
(* an upload has come that far; Paging that the one page under way is the  *)
(* one that the query is at.                                               *)
(***************************************************************************)
EXTENDS Http, SequenceTheorems, TLAPS

-----------------------------------------------------------------------------
(* Types.                                                                  *)

FunctionNames == {"-", "user", "agent", "credentials", "answered", "token", "gotSas", "uploaded",
              "notified", "notifyCredentials", "invokeCredentials", "clientMade", "invoked"}
OperationNames == {"-", "interval", "at", "cron", "manual", "none", "enable", "disable",
               "disconnect", "send", "settle", "receive", "contradiction", "otherOptions",
               "call", "bulk", "next", "nextPromise", "upload", "getSas", "notify", "invoke"}
Wants == {"agent", "credentials", "token", "request", "sas", "notification", "stream"}

Closures == [fn : FunctionNames, id : Nat, op : OperationNames, then : {"-"}, err : BOOLEAN]
PageClosures ==
  [fn : FunctionNames, id : Nat, op : OperationNames, then : {"-"}, err : BOOLEAN, page : 0..Pages]
Callbacks == Closures \cup PageClosures

Items == [at : {"machine", "ask", "callback", "throw"},
          do : OperationNames \cup Wants \cup {"call", "found", "drop", "throw"},
          cb : Callbacks, err : BOOLEAN]
Requests == [do : Wants, cb : Callbacks, poll : Nat]
Callings == [op : OperationNames, errors : Nat, results : Nat, dropped : Nat]

Receivers == [agent : BOOLEAN, policy : Policies, drain : BOOLEAN, timer : Timers \cup {"none"},
              spent : BOOLEAN, started : BOOLEAN, wanted : BOOLEAN]
Rests == [token : {"none", "fresh", "old"}, at : 0..Pages, more : BOOLEAN, client : BOOLEAN,
          pages : Seq(Nat), overlap : BOOLEAN]

\* A callback closes over a call of the user, or over a poll.
Owned(cb) ==
  /\ cb.id \in 0..Len(calls)
  /\ cb.id # 0 => cb.op = calls[cb.id].op
  /\ kind = "service" => cb.id # 0

\* A turn is one item long.
Single(s, x) == s = <<x>>
Brief(s) == s = <<>> \/ \E x \in Items : Single(s, x)

\* The item of a turn.
InTurn(x) == Single(agenda, x)

\* A call is one of the component's operations; a request is for something.
Calling(x) ==
  /\ x.at = "machine" =>
       x.do \in Ops[kind] /\ x.cb \in Closures /\ x.cb.op = x.do /\ x.cb.fn = "user"
  /\ x.at = "ask" => x.do \in Wants

Typed ==
  /\ kind \in DOMAIN Ops
  /\ m \in IF kind = "receiver" THEN Receivers ELSE Rests
  /\ Brief(agenda)
  /\ \A x \in Items : InTurn(x) => Owned(x.cb) /\ Calling(x)
  /\ thrown \in BOOLEAN
  /\ asks \in SUBSET Requests
  /\ \A a \in asks : Owned(a.cb)
  /\ calls \in Seq(Callings) /\ Len(calls) <= MaxCalls
  /\ polls \in 0..MaxPolls
  /\ hub \in [left : 0..MaxMessages, blobs : SUBSET (0..Len(calls)),
              notified : SUBSET (0..Len(calls))]

-----------------------------------------------------------------------------
(* The receiver.                                                           *)

\* The receiver is started with the timer of its policy, or polled by hand; and
\* only if the user has wanted it.
Consistent(r) ==
  /\ r.timer # "none" => r.started /\ r.timer = r.policy
  /\ r.started /\ r.timer = "none" => r.policy = "manual"
  /\ ~r.wanted => ~r.started

\* An enableC2D under way is one that the user wants.
Polling ==
  kind = "receiver" =>
    /\ Consistent(m)
    /\ \A a \in asks : a.cb.op = "enable" => m.wanted
    /\ \A x \in Items :
         /\ InTurn(x) /\ x.cb.op = "enable" /\ x.at # "machine"
         /\ x.at = "ask" \/ x.cb.fn # "user"
         => m.wanted

-----------------------------------------------------------------------------
(* The upload of a blob.                                                   *)

\* What is asked for, and the callback that gets the answer; once the hub is to be
\* told of a success, the storage has the blob.
Saying(do, cb) ==
  /\ do = "stream" <=> cb.fn = "uploaded"
  /\ do = "notification" <=> cb.fn = "notified"
  /\ cb.op = "upload" /\ cb.fn \in {"notifyCredentials", "notified"} /\ ~cb.err
       => cb.id \in hub.blobs

\* What has come back.
Heard(cb, err) ==
  cb.op = "upload" =>
    /\ cb.fn \in {"notifyCredentials", "notified"} /\ ~cb.err => cb.id \in hub.blobs
    /\ cb.fn = "uploaded" /\ ~err => cb.id \in hub.blobs
    /\ cb.fn = "notified" /\ ~cb.err /\ ~err => cb.id \in hub.notified
    /\ cb.fn = "user" /\ ~err => cb.id \in hub.blobs \cap hub.notified

UploadFns == {"credentials", "notifyCredentials", "gotSas", "uploaded", "notified"}

\* What is in the turn: what is asked for, or has come back.
Onward(x) ==
  /\ x.at = "ask" => Saying(x.do, x.cb) /\ x.cb.fn \in UploadFns
  /\ x.at = "callback" => Heard(x.cb, x.err) /\ x.cb.fn \in UploadFns \cup {"user"}

Uploading ==
  kind = "upload" =>
    /\ UploadsAreTold
    /\ \A a \in asks : Saying(a.do, a.cb) /\ a.cb.fn \in UploadFns
    /\ \A x \in Items : InTurn(x) => Onward(x)

-----------------------------------------------------------------------------
(* The pages of a query.                                                   *)

AskedFor == {calls[i].op : i \in DOMAIN calls}
ForAPage(cb) == cb.op \in {"next", "nextPromise"} /\ cb.fn # "user"

\* The page that a callback waits for is the one the query is at.
RightPage(cb) ==
  ForAPage(cb) =>
    /\ cb \in PageClosures
    /\ ~m.overlap =>
         /\ cb.op = "next" => cb.page = m.at
         /\ "nextPromise" \notin AskedFor => m.more

\* The pages that the user has got, and where that leaves the query.
InOrder ==
  "nextPromise" \notin AskedFor =>
    /\ \A i \in DOMAIN m.pages : m.pages[i] = i
    /\ m.more => /\ Len(m.pages) < Pages
                 /\ m.at = IF m.pages = <<>> THEN 0 ELSE Len(m.pages) + 1

Paging ==
  kind = "service" =>
    /\ \A a \in asks : RightPage(a.cb)
    /\ \A x \in Items : InTurn(x) =>
         /\ x.at # "machine" => RightPage(x.cb)
         /\ x.at # "machine" /\ ForAPage(x.cb) /\ ~m.overlap => \A a \in asks : ~ForAPage(a.cb)
         /\ x.at = "machine" /\ x.do \in {"next", "nextPromise"} => m.more
    /\ ~m.overlap => /\ InOrder
                     /\ \A a, b \in asks : ForAPage(a.cb) /\ ForAPage(b.cb) => a = b

HttpInv == Typed /\ Polling /\ Uploading /\ Paging

-----------------------------------------------------------------------------
(* Callbacks and items.                                                    *)

\* A callback goes on as another function of the same call.
LEMMA GoesOn ==
  ASSUME NEW cb \in Callbacks, NEW f \in FunctionNames
  PROVE  /\ [cb EXCEPT !.fn = f] \in Callbacks
         /\ [cb EXCEPT !.fn = f].fn = f
         /\ [cb EXCEPT !.fn = f].id = cb.id /\ [cb EXCEPT !.fn = f].op = cb.op
         /\ [cb EXCEPT !.fn = f].err = cb.err
         /\ cb \in PageClosures =>
              [cb EXCEPT !.fn = f] \in PageClosures /\ [cb EXCEPT !.fn = f].page = cb.page
<1>1. CASE cb \in Closures
  <2>1. cb \notin PageClosures \/ cb \in PageClosures
    OBVIOUS
  <2>2. [cb EXCEPT !.fn = f] \in Closures
    BY <1>1 DEF Closures
  <2>3. /\ [cb EXCEPT !.fn = f].fn = f
        /\ [cb EXCEPT !.fn = f].id = cb.id /\ [cb EXCEPT !.fn = f].op = cb.op
        /\ [cb EXCEPT !.fn = f].err = cb.err
    BY <1>1 DEF Closures
  <2>4. cb \in PageClosures =>
          [cb EXCEPT !.fn = f] \in PageClosures /\ [cb EXCEPT !.fn = f].page = cb.page
    BY DEF PageClosures
  <2>5. QED
    BY <2>2, <2>3, <2>4 DEF Callbacks
<1>2. CASE cb \in PageClosures
  BY <1>2 DEF PageClosures, Callbacks
<1>3. QED
  BY <1>1, <1>2 DEF Callbacks

\* The callback of the user is the last one.
LEMMA GoesToUser ==
  ASSUME NEW cb \in Callbacks
  PROVE  /\ ToUser(cb) \in Callbacks /\ ToUser(cb).fn = "user"
         /\ ToUser(cb).id = cb.id /\ ToUser(cb).op = cb.op
<1>1. PICK f \in FunctionNames, g \in {"-"}, e \in BOOLEAN : f = "user" /\ g = "-" /\ e = FALSE
  BY DEF FunctionNames
<1>2. ToUser(cb) = [cb EXCEPT !.fn = f, !.then = g, !.err = e]
  BY <1>1 DEF ToUser
<1> DEFINE u == [cb EXCEPT !.fn = f, !.then = g, !.err = e]
<1>3. CASE cb \in Closures
  <2>1. u \in Closures /\ u.fn = f /\ u.id = cb.id /\ u.op = cb.op
    BY <1>3 DEF Closures
  <2>2. QED
    BY <1>1, <1>2, <2>1 DEF Callbacks
<1>4. CASE cb \in PageClosures
  <2>1. u \in PageClosures /\ u.fn = f /\ u.id = cb.id /\ u.op = cb.op
    BY <1>4 DEF PageClosures
  <2>2. QED
    BY <1>1, <1>2, <2>1 DEF Callbacks
<1>5. QED
  BY <1>3, <1>4 DEF Callbacks

\* What an item says.
LEMMA InputFacts ==
  ASSUME NEW at \in {"machine", "ask", "callback", "throw"},
         NEW do \in OperationNames \cup Wants \cup {"call", "found", "drop", "throw"},
         NEW cb \in Callbacks, NEW err \in BOOLEAN
  PROVE  /\ Input(at, do, cb, err) \in Items
         /\ Input(at, do, cb, err).at = at /\ Input(at, do, cb, err).do = do
         /\ Input(at, do, cb, err).cb = cb /\ Input(at, do, cb, err).err = err
BY DEF Input, Items

\* A turn with one item is brief, and has no other.
LEMMA OneItem ==
  ASSUME NEW x \in Items
  PROVE  /\ Brief(<<x>>) /\ Single(<<x>>, x)
         /\ \A s : \A y \in Items : Single(s, x) /\ Single(s, y) => y = x
         /\ \A y \in Items : Single(<<x>>, y) => y = x
BY DEF Brief, Single

\* What a handler gives back.
LEMMA DoneFacts ==
  ASSUME NEW r, NEW s
  PROVE  Done(r, s).m = r /\ Done(r, s).now = s
BY DEF Done

\* The end of the turn leaves what a handler runs at once.
LEMMA RestOfTurn ==
  ASSUME NEW s, Brief(s)
  PROVE  s \o <<>> = s
<1>1. s \in Seq(Items)
  <2>1. CASE s = <<>>
    BY <2>1
  <2>2. ASSUME NEW y \in Items, Single(s, y)
        PROVE  s \in Seq(Items)
    BY <2>2 DEF Single
  <2>3. QED
    BY <2>1, <2>2 DEF Brief
<1>2. QED
  BY <1>1, ConcatEmptySeq

-----------------------------------------------------------------------------
(* The receiver: what each handler keeps.                                  *)

\* enableC2D has the receiver poll as its policy says.
LEMMA EnabledFacts ==
  ASSUME NEW r \in Receivers, Consistent(r), r.wanted
  PROVE  Enabled(r) \in Receivers /\ Consistent(Enabled(r)) /\ Enabled(r).wanted
<1>1. CASE r.timer # "none"
  BY <1>1 DEF Enabled
<1>2. CASE r.timer = "none"
  <2> DEFINE t == IF r.policy \in Timers THEN r.policy ELSE "none"
  <2> DEFINE s == r.started \/ r.policy # "none"
  <2>1. Enabled(r) = [r EXCEPT !.timer = t, !.spent = FALSE, !.started = s]
    BY <1>2 DEF Enabled
  <2>2. t \in Timers \cup {"none"} /\ s \in BOOLEAN
    OBVIOUS
  <2>3. /\ Enabled(r) \in Receivers
        /\ Enabled(r).timer = t /\ Enabled(r).started = s
        /\ Enabled(r).policy = r.policy /\ Enabled(r).wanted = r.wanted
    BY <2>1, <2>2 DEF Receivers
  <2>4. r.policy \in Timers \cup {"manual", "none"} /\ "none" \notin Timers
    BY DEF Receivers, Policies, Timers
  <2>5. t # "none" => s /\ t = r.policy
    BY <2>4
  <2>6. s /\ t = "none" => r.policy = "manual"
    BY <2>4, <1>2 DEF Consistent
  <2>7. QED
    BY <2>3, <2>5, <2>6 DEF Consistent
<1>3. QED
  BY <1>1, <1>2

\* disableC2D stops it.
LEMMA DisabledFacts ==
  ASSUME NEW r \in Receivers, Consistent(r)
  PROVE  /\ Disabled(r) \in Receivers /\ Consistent(Disabled(r))
         /\ Disabled(r).timer = "none" /\ ~Disabled(r).started
         /\ Disabled(r).wanted = r.wanted
<1> DEFINE s == r.started /\ r.timer = "none" /\ r.policy # "manual"
<1>1. s = FALSE
  BY DEF Consistent
<1>2. Disabled(r) = [r EXCEPT !.timer = "none", !.spent = FALSE, !.started = s]
  BY DEF Disabled
<1>3. /\ Disabled(r) \in Receivers
      /\ Disabled(r).timer = "none" /\ Disabled(r).started = FALSE
      /\ Disabled(r).wanted = r.wanted
  BY <1>1, <1>2 DEF Receivers
<1>4. QED
  BY <1>3 DEF Consistent

\* New options have a receiver that is started poll as they say.
LEMMA ReconfiguredFacts ==
  ASSUME NEW r \in Receivers, Consistent(r), NEW policy, NEW drain \in BOOLEAN
  PROVE  /\ Reconfigured(r, policy, drain) \in Receivers
         /\ Consistent(Reconfigured(r, policy, drain))
         /\ Reconfigured(r, policy, drain).wanted = r.wanted
<1> DEFINE stopped == IF r.started THEN Disabled(r) ELSE r
<1> DEFINE set == [stopped EXCEPT !.policy = policy, !.drain = drain]
<1>1. /\ stopped \in Receivers /\ Consistent(stopped) /\ stopped.wanted = r.wanted
      /\ stopped.timer = "none" /\ ~stopped.started
  BY DisabledFacts DEF Consistent
<1>2. CASE policy \notin Policies
  BY <1>1, <1>2 DEF Reconfigured
<1>3. CASE policy \in Policies
  <2>1. /\ set \in Receivers /\ set.timer = "none" /\ set.started = stopped.started
        /\ set.wanted = r.wanted
    BY <1>1, <1>3 DEF Receivers
  <2>2. Consistent(set)
    BY <1>1, <2>1 DEF Consistent
  <2>3. CASE r.started
    <3>1. r.wanted
      BY <2>3 DEF Consistent
    <3>2. /\ Enabled(set) \in Receivers /\ Consistent(Enabled(set)) /\ Enabled(set).wanted
      BY <2>1, <2>2, <3>1, EnabledFacts
    <3>3. r.wanted = TRUE /\ Enabled(set).wanted = TRUE
      BY <3>1, <3>2 DEF Receivers
    <3>4. Reconfigured(r, policy, drain) = Enabled(set)
      BY <1>3, <2>3 DEF Reconfigured
    <3>5. QED
      BY <3>2, <3>3, <3>4
  <2>4. CASE ~r.started
    <3>1. Reconfigured(r, policy, drain) = set
      BY <1>3, <2>4 DEF Reconfigured
    <3>2. QED
      BY <2>1, <2>2, <3>1
  <2>5. QED
    BY <2>3, <2>4
<1>4. QED
  BY <1>2, <1>3

\* A request is one item.
LEMMA AskBrief ==
  ASSUME NEW what \in Wants, NEW cb \in Callbacks
  PROVE  Brief(Ask(what, cb))
<1>1. Input("ask", what, cb, FALSE) \in Items
  BY InputFacts
<1>2. QED
  BY <1>1, OneItem DEF Ask

\* What the item says.
LEMMA AskFacts ==
  ASSUME NEW what \in Wants, NEW cb \in Callbacks,
         NEW y \in Items, Single(Ask(what, cb), y)
  PROVE  y.at = "ask" /\ y.cb = cb
<1>1. Input("ask", what, cb, FALSE) \in Items
  BY InputFacts
<1>2. y = Input("ask", what, cb, FALSE)
  BY <1>1, OneItem DEF Ask
<1>3. QED
  BY <1>2 DEF Input

\* And what it asks for.
LEMMA AskWhat ==
  ASSUME NEW what \in Wants, NEW cb \in Callbacks,
         NEW y \in Items, Single(Ask(what, cb), y)
  PROVE  y.do = what
<1>1. Input("ask", what, cb, FALSE) \in Items
  BY InputFacts
<1>2. y = Input("ask", what, cb, FALSE)
  BY <1>1, OneItem DEF Ask
<1>3. QED
  BY <1>2 DEF Input

\* So is a callback that is called.
LEMMA CallBrief ==
  ASSUME NEW cb \in Callbacks, NEW err \in BOOLEAN
  PROVE  Brief(Call(cb, err))
<1>1. Input("callback", "call", cb, err) \in Items
  BY InputFacts
<1>2. QED
  BY <1>1, OneItem DEF Call

\* What the item says.
LEMMA CallFacts ==
  ASSUME NEW cb \in Callbacks, NEW err \in BOOLEAN,
         NEW y \in Items, Single(Call(cb, err), y)
  PROVE  y.at = "callback" /\ y.do = "call" /\ y.cb = cb /\ y.err = err
<1>1. Input("callback", "call", cb, err) \in Items
  BY InputFacts
<1>2. y = Input("callback", "call", cb, err)
  BY <1>1, OneItem DEF Call
<1>3. QED
  BY <1>2 DEF Input

\* So is one that is lost.
LEMMA DroppedBrief ==
  ASSUME NEW cb \in Callbacks
  PROVE  Brief(Dropped(cb))
<1>1. Input("callback", "drop", cb, FALSE) \in Items
  BY InputFacts
<1>2. QED
  BY <1>1, OneItem DEF Dropped

\* What the item says.
LEMMA DroppedFacts ==
  ASSUME NEW cb \in Callbacks,
         NEW y \in Items, Single(Dropped(cb), y)
  PROVE  y.at = "callback" /\ y.do = "drop" /\ y.cb = cb /\ y.err = FALSE
<1>1. Input("callback", "drop", cb, FALSE) \in Items
  BY InputFacts
<1>2. y = Input("callback", "drop", cb, FALSE)
  BY <1>1, OneItem DEF Dropped
<1>3. QED
  BY <1>2 DEF Input

\* So is an exception, which is nobody's.
LEMMA ThrowFacts ==
  /\ Brief(Throw)
  /\ \A y \in Items : Single(Throw, y) =>
       y.at = "throw" /\ y.cb.id = 0 /\ y.cb.op = "-" /\ y.cb.fn = "-"
<1>1. Nobody \in Callbacks /\ Nobody.id = 0 /\ Nobody.op = "-" /\ Nobody.fn = "-"
  BY DEF Nobody, Closure, Callbacks, Closures, FunctionNames, OperationNames
<1>2. Input("throw", "throw", Nobody, TRUE) \in Items
  BY <1>1 DEF Input, Items
<1>3. PICK x \in Items : x = Input("throw", "throw", Nobody, TRUE) /\ Throw = <<x>>
  BY <1>2 DEF Throw
<1>4. x.at = "throw" /\ x.cb = Nobody
  BY <1>3 DEF Input
<1>5. QED
  BY <1>1, <1>3, <1>4, OneItem

\* And nothing is none.
LEMMA NothingFacts == Brief(<<>>) /\ \A y \in Items : ~Single(<<>>, y)
BY DEF Brief, Single

\* What a handler runs at once is for the call that it was given.
Follows(s, cb) ==
  /\ Brief(s)
  /\ \A y \in Items : Single(s, y) =>
       /\ y.at \in {"ask", "callback"} /\ y.cb.id = cb.id /\ y.cb.op = cb.op
       /\ y.at = "ask" => y.do \in Wants

\* A request for the same call follows.
LEMMA FollowsAsk ==
  ASSUME NEW what \in Wants, NEW cb \in Callbacks, NEW c \in Callbacks,
         c.id = cb.id, c.op = cb.op
  PROVE  Follows(Ask(what, c), cb)
<1>1. ASSUME NEW y \in Items, Single(Ask(what, c), y)
      PROVE  y.at = "ask" /\ y.cb.id = cb.id /\ y.cb.op = cb.op /\ y.do \in Wants
  <2>1. y.at = "ask" /\ y.cb = c
    BY <1>1, AskFacts
  <2>2. y.do = what
    BY <1>1, AskWhat
  <2>3. QED
    BY <2>1, <2>2
<1>2. QED
  BY <1>1, AskBrief DEF Follows

\* So does its callback, called or lost, and so does nothing.
LEMMA FollowsCall ==
  ASSUME NEW err \in BOOLEAN, NEW cb \in Callbacks, NEW c \in Callbacks,
         c.id = cb.id, c.op = cb.op
  PROVE  Follows(Call(c, err), cb) /\ Follows(Dropped(c), cb) /\ Follows(<<>>, cb)
<1>1. ASSUME NEW y \in Items, Single(Call(c, err), y)
      PROVE  y.at = "callback" /\ y.cb.id = cb.id /\ y.cb.op = cb.op
  BY <1>1, CallFacts
<1>2. ASSUME NEW y \in Items, Single(Dropped(c), y)
      PROVE  y.at = "callback" /\ y.cb.id = cb.id /\ y.cb.op = cb.op
  BY <1>2, DroppedFacts
<1>3. QED
  BY <1>1, <1>2, CallBrief, DroppedBrief, NothingFacts DEF Follows

\* An enableC2D that goes on is one that the user wants.
Wanted(s, r) ==
  \A y \in Items :
    Single(s, y) /\ y.cb.op = "enable" /\ (y.at = "ask" \/ y.cb.fn # "user") => r.wanted

\* The calls of the user keep the receiver consistent.
LEMMA ReceiverHandleFacts ==
  ASSUME NEW r \in Receivers, Consistent(r), NEW x \in Items, x.cb.op = x.do,
         x.cb.fn = "user", NEW starting \in BOOLEAN, starting => r.wanted,
         NEW s, s = ReceiverHandle(r, x, starting)
  PROVE  /\ s.m \in Receivers /\ Consistent(s.m) /\ (starting => s.m.wanted)
         /\ Follows(s.now, x.cb) /\ Wanted(s.now, s.m)
<1>1. x.cb \in Callbacks /\ x.err \in BOOLEAN
  BY DEF Items
<1>2. PICK next \in Callbacks : /\ next = [x.cb EXCEPT !.fn = "agent"]
                              /\ next.id = x.cb.id /\ next.op = x.cb.op
  <2>1. "agent" \in FunctionNames
    BY DEF FunctionNames
  <2>2. QED
    BY <1>1, <2>1, GoesOn
<1>3. ASSUME NEW q \in Receivers
      PROVE  /\ WithAgent(q, x.cb).m = q /\ Follows(WithAgent(q, x.cb).now, x.cb)
  <2>1. WithAgent(q, x.cb) = Done(q, IF q.agent THEN Call(next, FALSE) ELSE Ask("agent", next))
    BY <1>2 DEF WithAgent
  <2>2. /\ WithAgent(q, x.cb).m = q
        /\ WithAgent(q, x.cb).now \in {Call(next, FALSE), Ask("agent", next)}
    <3>1. CASE q.agent
      BY <2>1, <3>1 DEF Done
    <3>2. CASE ~q.agent
      BY <2>1, <3>2 DEF Done
    <3>3. QED
      BY <3>1, <3>2
  <2>3. "agent" \in Wants
    BY DEF Wants
  <2>4. QED
    BY <1>1, <1>2, <2>2, <2>3, FollowsAsk, FollowsCall
<1>4. CASE x.do = "enable"
  <2> DEFINE q == [r EXCEPT !.wanted = TRUE]
  <2>1. q \in Receivers /\ q.wanted /\ Consistent(q)
    BY DEF Receivers, Consistent
  <2>2. s = WithAgent(q, x.cb)
    BY <1>4 DEF ReceiverHandle
  <2>3. s.m = q /\ Follows(s.now, x.cb)
    BY <1>3, <2>1, <2>2
  <2>4. QED
    BY <2>1, <2>3 DEF Wanted
<1>5. CASE x.do \in {"receive", "send"}
  <2>1. s = WithAgent(r, x.cb)
    BY <1>5 DEF ReceiverHandle
  <2>2. s.m = r /\ Follows(s.now, x.cb)
    BY <1>3, <2>1
  <2>3. QED
    BY <1>5, <2>2 DEF Wanted, Follows
<1>6. CASE x.do = "settle"
  <2>1. PICK c \in Callbacks : /\ c = [x.cb EXCEPT !.fn = "credentials"]
                             /\ c.id = x.cb.id /\ c.op = x.cb.op
    <3>1. "credentials" \in FunctionNames
      BY DEF FunctionNames
    <3>2. QED
      BY <1>1, <3>1, GoesOn, ZenonT(60)
  <2>2. s = Done(r, Ask("credentials", c))
    BY <1>6, <2>1 DEF ReceiverHandle, Credentials
  <2>3. "credentials" \in Wants
    BY DEF Wants
  <2>4. s.m = r /\ s.now = Ask("credentials", c)
    BY <2>2 DEF Done
  <2>5. Follows(s.now, x.cb)
    BY <1>1, <2>1, <2>3, <2>4, FollowsAsk
  <2>6. QED
    BY <1>6, <2>4, <2>5 DEF Wanted, Follows
<1>7. CASE x.do \in {"disable", "disconnect"}
  <2> DEFINE p == IF x.do = "disable" \/ r.started THEN Disabled(r) ELSE r
  <2> DEFINE q == [p EXCEPT !.wanted = starting]
  <2>1. p \in Receivers /\ Consistent(p) /\ ~p.started
    BY DisabledFacts
  <2>2. q \in Receivers /\ q.wanted = starting /\ q.started = p.started /\ q.timer = p.timer
        /\ q.policy = p.policy
    BY <2>1 DEF Receivers
  <2>3. Consistent(q)
    BY <2>1, <2>2 DEF Consistent
  <2>4. s = Done(q, Call(x.cb, FALSE))
    BY <1>7 DEF ReceiverHandle
  <2> HIDE DEF q
  <2>5. s.m = q /\ s.now = Call(x.cb, FALSE)
    BY <2>4 DEF Done
  <2>7. Follows(s.now, x.cb)
    BY <1>1, <2>5, FollowsCall
  <2>6. QED
    BY <1>7, <2>2, <2>3, <2>5, <2>7 DEF Wanted, Follows
<1>8. CASE x.do = "otherOptions"
  <2>1. s = Done(r, Dropped(x.cb))
    BY <1>8 DEF ReceiverHandle
  <2>2. s.m = r /\ Follows(s.now, x.cb)
    BY <1>1, <2>1, FollowsCall DEF Done
  <2>3. QED
    BY <1>8, <2>2 DEF Wanted, Follows
<1>9. CASE x.do \notin {"enable", "receive", "send", "settle", "disable", "disconnect", "otherOptions"}
  <2> DEFINE q == Reconfigured(r, x.do, ~x.err)
  <2> DEFINE e == (x.do = "contradiction")
  <2>1. s = Done(q, Call(x.cb, e))
    BY <1>9 DEF ReceiverHandle
  <2>2. q \in Receivers /\ Consistent(q) /\ q.wanted = r.wanted
    BY <1>1, ReconfiguredFacts
  <2>3. e \in BOOLEAN
    OBVIOUS
  <2> HIDE DEF e, q
  <2>4. s.m = q /\ Follows(s.now, x.cb)
    BY <1>1, <2>1, <2>3, FollowsCall DEF Done
  <2>5. QED
    BY <1>9, <2>2, <2>4 DEF Wanted, Follows
<1>10. QED
  BY <1>4, <1>5, <1>6, <1>7, <1>8, <1>9

\* So do the callbacks; what goes on is for the same call.
LEMMA ReceiverCallbackFacts ==
  ASSUME NEW r \in Receivers, Consistent(r), NEW cb \in Callbacks, cb.fn # "user",
         cb.op = "enable" => r.wanted, NEW err \in BOOLEAN, NEW found \in BOOLEAN,
         NEW s, s = ReceiverCallback(r, cb, err, found)
  PROVE  /\ s.m \in Receivers /\ Consistent(s.m) /\ s.m.wanted = r.wanted
         /\ Follows(s.now, cb)
<1> DEFINE a == [r EXCEPT !.agent = TRUE]
<1>1. a \in Receivers /\ Consistent(a) /\ a.wanted = r.wanted
  BY DEF Receivers, Consistent
<1>9. PICK q \in Receivers : q = a /\ Consistent(q) /\ q.wanted = r.wanted
  BY <1>1
<1>2. ToUser(cb) \in Callbacks /\ ToUser(cb).id = cb.id /\ ToUser(cb).op = cb.op
  BY GoesToUser
<1>3. ASSUME NEW f \in {"credentials", "answered"}
      PROVE  /\ [cb EXCEPT !.fn = f] \in Callbacks
             /\ [cb EXCEPT !.fn = f].id = cb.id /\ [cb EXCEPT !.fn = f].op = cb.op
  <2>1. f \in FunctionNames
    BY DEF FunctionNames
  <2>2. QED
    BY <2>1, GoesOn
<1>4. "credentials" \in Wants /\ "request" \in Wants
  BY DEF Wants
<1>5. CASE cb.fn = "agent" /\ cb.op = "enable"
  <2>1. s = Done(Enabled(q), Call(ToUser(cb), FALSE))
    BY <1>9, <1>5 DEF ReceiverCallback
  <2>2. Enabled(q) \in Receivers /\ Consistent(Enabled(q)) /\ Enabled(q).wanted
    BY <1>9, <1>5, EnabledFacts
  <2>3. Enabled(q).wanted = TRUE /\ r.wanted = TRUE
    BY <1>5, <2>2 DEF Receivers
  <2>4. s.m = Enabled(q) /\ s.now = Call(ToUser(cb), FALSE)
    BY <2>1 DEF Done
  <2>5. Follows(s.now, cb)
    BY <1>2, <2>4, FollowsCall
  <2>6. QED
    BY <2>2, <2>3, <2>4, <2>5
<1>6. CASE cb.fn = "agent" /\ cb.op # "enable"
  <2>1. s = Done(q, Ask("credentials", [cb EXCEPT !.fn = "credentials"]))
    BY <1>9, <1>6 DEF ReceiverCallback, Credentials
  <2>2. s.m = q /\ s.now = Ask("credentials", [cb EXCEPT !.fn = "credentials"])
    BY <2>1 DEF Done
  <2>3. Follows(s.now, cb)
    BY <1>3, <1>4, <2>2, FollowsAsk
  <2>4. QED
    BY <1>9, <2>2, <2>3
<1>7. CASE cb.fn # "agent"
  <2>1. \/ s = Done(r, Ask("request", [cb EXCEPT !.fn = "answered"]))
        \/ s = Done(r, Call(ToUser(cb), err))
        \/ s = Done(r, Ask("request", cb))
        \/ s = Done(r, <<>>)
    BY <1>7 DEF ReceiverCallback
  <2>2. /\ s.m = r
        /\ s.now \in {Ask("request", [cb EXCEPT !.fn = "answered"]), Call(ToUser(cb), err),
                      Ask("request", cb), <<>>}
    BY <2>1 DEF Done
  <2>3. Follows(s.now, cb)
    <3>1. Follows(Ask("request", [cb EXCEPT !.fn = "answered"]), cb)
      BY <1>3, <1>4, FollowsAsk
    <3>2. Follows(Call(ToUser(cb), err), cb) /\ Follows(<<>>, cb)
      BY <1>2, FollowsCall
    <3>3. Follows(Ask("request", cb), cb)
      BY <1>4, FollowsAsk
    <3>4. QED
      BY <2>2, <3>1, <3>2, <3>3
  <2>4. QED
    BY <2>2, <2>3
<1>8. QED
  BY <1>5, <1>6, <1>7

-----------------------------------------------------------------------------
(* The upload of a blob and the methods: what each handler keeps.          *)

\* A call asks for the credentials.
LEMMA RestAsks ==
  ASSUME NEW r, NEW x \in Items, NEW paging,
         x.do \in {"upload", "getSas", "notify", "invoke"}, x.cb.op = x.do,
         NEW s, s = RestHandle(r, x, paging)
  PROVE  /\ s.m = r /\ Follows(s.now, x.cb)
         /\ kind = "upload" /\ x.do # "invoke" =>
              \A y \in Items : Single(s.now, y) => Onward(y)
<1>1. PICK f \in FunctionNames :
        /\ f = CASE x.do \in {"upload", "getSas"} -> "credentials"
                 [] x.do = "notify" -> "notifyCredentials"
                 [] x.do = "invoke" -> "invokeCredentials"
  BY DEF FunctionNames
<1>2. s = Done(r, Ask("credentials", [x.cb EXCEPT !.fn = f]))
  <2>1. CASE x.do \in {"upload", "getSas"}
    BY <1>1, <2>1 DEF RestHandle
  <2>2. CASE x.do = "notify"
    BY <1>1, <2>2 DEF RestHandle
  <2>3. CASE x.do = "invoke"
    BY <1>1, <2>3 DEF RestHandle
  <2>4. QED
    BY <2>1, <2>2, <2>3
<1>3. PICK c \in Callbacks : /\ c = [x.cb EXCEPT !.fn = f] /\ c.fn = f
                             /\ c.id = x.cb.id /\ c.op = x.cb.op
  <2>1. x.cb \in Callbacks
    BY DEF Items
  <2>2. QED
    BY <2>1, GoesOn
<1>4. s.m = r /\ s.now = Ask("credentials", c)
  BY <1>2, <1>3 DEF Done
<1>5. "credentials" \in Wants /\ x.cb \in Callbacks
  BY DEF Wants, Items
<1>6. Follows(s.now, x.cb)
  BY <1>3, <1>4, <1>5, FollowsAsk
<1>7. ASSUME NEW y \in Items, Single(s.now, y), x.do # "invoke"
      PROVE  Onward(y)
  <2>1. y.at = "ask" /\ y.cb = c
    BY <1>4, <1>5, <1>7, AskFacts
  <2>2. y.do = "credentials"
    BY <1>4, <1>5, <1>7, AskWhat
  <2>3. c.fn \in {"credentials", "notifyCredentials"} /\ (c.fn = "notifyCredentials" => c.op = "notify")
    BY <1>1, <1>3, <1>7
  <2>4. Saying(y.do, y.cb) /\ y.cb.fn \in UploadFns
    BY <2>1, <2>2, <2>3 DEF Saying, UploadFns
  <2>5. QED
    BY <2>1, <2>4 DEF Onward
<1>8. QED
  BY <1>4, <1>6, <1>7

\* A request of an upload says what has come so far.
LEMMA UploadAsks ==
  ASSUME NEW what \in Wants, NEW cb \in Callbacks, NEW c \in Callbacks,
         c.id = cb.id, c.op = cb.op, Saying(what, c), c.fn \in UploadFns
  PROVE  /\ Follows(Ask(what, c), cb)
         /\ \A y \in Items : Single(Ask(what, c), y) => Onward(y)
<1>1. ASSUME NEW y \in Items, Single(Ask(what, c), y)
      PROVE  Onward(y)
  <2>1. y.at = "ask" /\ y.cb = c
    BY <1>1, AskFacts
  <2>2. y.do = what
    BY <1>1, AskWhat
  <2>3. QED
    BY <2>1, <2>2 DEF Onward
<1>2. QED
  BY <1>1, FollowsAsk

\* What comes back is passed on, and an upload is told to be done when the storage
\* and the hub have it.
LEMMA UploadCallbackFacts ==
  ASSUME NEW r, NEW cb \in Callbacks, NEW err \in BOOLEAN, Heard(cb, err),
         cb.fn \in UploadFns, NEW s, s = UploadCallback(r, cb, err)
  PROVE  /\ s.m = r /\ (s.now = Throw \/ Follows(s.now, cb))
         /\ \A y \in Items : Single(s.now, y) => Onward(y)
<1>1. "sas" \in Wants /\ "notification" \in Wants /\ "stream" \in Wants /\ "credentials" \in Wants
  BY DEF Wants
<1>2. CASE cb.fn \in {"credentials", "notifyCredentials"}
  <2>1. s = FileUpload(r, cb, err)
    BY <1>2 DEF UploadCallback
  <2>2. CASE err
    <3>1. s.m = r /\ s.now = Throw
      BY <2>1, <2>2 DEF FileUpload, Done
    <3>2. QED
      BY <3>1, ThrowFacts DEF Onward
  <2>3. CASE ~err /\ cb.fn = "credentials"
    <3>1. PICK c \in Callbacks : /\ c = [cb EXCEPT !.fn = "gotSas"] /\ c.fn = "gotSas"
                                 /\ c.id = cb.id /\ c.op = cb.op
      <4>1. "gotSas" \in FunctionNames
        BY DEF FunctionNames
      <4>2. QED
        BY <4>1, GoesOn
    <3>2. s.m = r /\ s.now = Ask("sas", c)
      BY <2>1, <2>3, <3>1 DEF FileUpload, Done
    <3>3. Saying("sas", c) /\ c.fn \in UploadFns
      BY <3>1 DEF Saying, UploadFns
    <3>4. QED
      BY <1>1, <3>1, <3>2, <3>3, UploadAsks
  <2>4. CASE ~err /\ cb.fn = "notifyCredentials"
    <3>1. PICK c \in Callbacks : /\ c = [cb EXCEPT !.fn = "notified"] /\ c.fn = "notified"
                                 /\ c.id = cb.id /\ c.op = cb.op /\ c.err = cb.err
      <4>1. "notified" \in FunctionNames
        BY DEF FunctionNames
      <4>2. QED
        BY <4>1, GoesOn
    <3>2. s.m = r /\ s.now = Ask("notification", c)
      BY <2>1, <2>4, <3>1 DEF FileUpload, Done
    <3>3. Saying("notification", c) /\ c.fn \in UploadFns
      BY <2>4, <3>1 DEF Saying, UploadFns, Heard
    <3>4. QED
      BY <1>1, <3>1, <3>2, <3>3, UploadAsks
  <2>5. QED
    BY <1>2, <2>2, <2>3, <2>4
<1>3. CASE cb.fn = "gotSas" /\ cb.op = "upload" /\ ~err
  <2>1. PICK c \in Callbacks : /\ c = [cb EXCEPT !.fn = "uploaded"] /\ c.fn = "uploaded"
                               /\ c.id = cb.id /\ c.op = cb.op
    <3>1. "uploaded" \in FunctionNames
      BY DEF FunctionNames
    <3>2. QED
      BY <3>1, GoesOn
  <2>2. s = Done(r, Ask("stream", c))
    BY <1>3, <2>1 DEF UploadCallback
  <2>3. s.m = r /\ s.now = Ask("stream", c)
    BY <2>2 DEF Done
  <2>4. Saying("stream", c) /\ c.fn \in UploadFns
    BY <2>1 DEF Saying, UploadFns
  <2>5. QED
    BY <1>1, <2>1, <2>3, <2>4, UploadAsks
<1>4. CASE cb.fn = "uploaded"
  <2> DEFINE c == [cb EXCEPT !.fn = "notifyCredentials", !.err = err]
  <2>1. /\ c \in Callbacks /\ c.fn = "notifyCredentials"
        /\ c.id = cb.id /\ c.op = cb.op /\ c.err = err
    <3>1. "notifyCredentials" \in FunctionNames
      BY DEF FunctionNames
    <3>2. CASE cb \in Closures
      BY <3>1, <3>2 DEF Closures, Callbacks
    <3>3. CASE cb \in PageClosures
      BY <3>1, <3>3 DEF PageClosures, Callbacks
    <3>4. QED
      BY <3>2, <3>3 DEF Callbacks
  <2> HIDE DEF c
  <2>2. s = Done(r, Ask("credentials", c))
    BY <1>4 DEF UploadCallback, c
  <2>3. s.m = r /\ s.now = Ask("credentials", c)
    BY <2>2 DEF Done
  <2>4. Saying("credentials", c) /\ c.fn \in UploadFns
    BY <1>4, <2>1 DEF Saying, UploadFns, Heard
  <2>5. QED
    BY <1>1, <2>1, <2>3, <2>4, UploadAsks
<1>5. CASE cb.fn = "notified" \/ (cb.fn = "gotSas" /\ ~(cb.op = "upload" /\ ~err))
  <2>1. PICK c \in Callbacks : c = ToUser(cb) /\ c.fn = "user" /\ c.id = cb.id /\ c.op = cb.op
    BY GoesToUser
  <2>2. cb.err \in BOOLEAN
    BY DEF Callbacks, Closures, PageClosures
  <2>3. PICK e \in BOOLEAN : e = (err \/ cb.err)
    OBVIOUS
  <2>4. s = Done(r, Call(c, e))
    BY <1>5, <2>1, <2>3 DEF UploadCallback
  <2>5. s.m = r /\ s.now = Call(c, e)
    BY <2>4 DEF Done
  <2>6. ASSUME NEW y \in Items, Single(s.now, y)
        PROVE  Onward(y)
    <3>1. y.at = "callback" /\ y.cb = c /\ y.err = e
      BY <2>5, <2>6, CallFacts
    <3>2. cb.op = "upload" /\ ~e => cb.id \in hub.blobs \cap hub.notified
      BY <1>5, <2>2, <2>3 DEF Heard
    <3>3. Heard(c, e)
      BY <2>1, <3>2 DEF Heard
    <3>4. QED
      BY <2>1, <3>1, <3>3 DEF Onward
  <2>7. QED
    BY <2>1, <2>5, <2>6, FollowsCall
<1>6. QED
  BY <1>2, <1>3, <1>4, <1>5 DEF UploadFns

\* A method is invoked with a client that is made once.
LEMMA InvokeCallbackFacts ==
  ASSUME NEW r \in Rests, NEW cb \in Callbacks, NEW err \in BOOLEAN,
         NEW s, s = InvokeCallback(r, cb, err)
  PROVE  s.m \in Rests /\ Follows(s.now, cb)
<1>1. "agent" \in Wants /\ "request" \in Wants
      /\ "clientMade" \in FunctionNames /\ "invoked" \in FunctionNames
  BY DEF Wants, FunctionNames
<1>2. PICK q \in Rests : q = [r EXCEPT !.client = TRUE]
  BY DEF Rests
<1>3. PICK c \in Callbacks : c = [cb EXCEPT !.fn = "clientMade"] /\ c.id = cb.id /\ c.op = cb.op
  BY <1>1, GoesOn
<1>4. PICK d \in Callbacks : d = [cb EXCEPT !.fn = "invoked"] /\ d.id = cb.id /\ d.op = cb.op
  BY <1>1, GoesOn
<1>5. PICK u \in Callbacks : u = ToUser(cb) /\ u.id = cb.id /\ u.op = cb.op
  BY GoesToUser
<1>6. \/ s = Done(r, Call(u, TRUE)) \/ s = Done(r, Ask("agent", c))
      \/ s = Done(q, Ask("request", d)) \/ s = Done(r, Call(u, FALSE))
  BY <1>2, <1>3, <1>4, <1>5 DEF InvokeCallback
<1>7. /\ s.m \in Rests
      /\ s.now \in {Call(u, TRUE), Ask("agent", c), Ask("request", d), Call(u, FALSE)}
  <2>1. CASE s = Done(r, Call(u, TRUE))
    BY <2>1 DEF Done
  <2>2. CASE s = Done(r, Ask("agent", c))
    BY <2>2 DEF Done
  <2>3. CASE s = Done(q, Ask("request", d))
    BY <2>3 DEF Done
  <2>4. CASE s = Done(r, Call(u, FALSE))
    BY <2>4 DEF Done
  <2>5. QED
    BY <1>6, <2>1, <2>2, <2>3, <2>4
<1>8. Follows(Call(u, TRUE), cb) /\ Follows(Call(u, FALSE), cb)
  BY <1>5, FollowsCall
<1>9. Follows(Ask("agent", c), cb) /\ Follows(Ask("request", d), cb)
  BY <1>1, <1>3, <1>4, FollowsAsk
<1>10. QED
  BY <1>7, <1>8, <1>9

-----------------------------------------------------------------------------
(* The queries: what each handler keeps.                                   *)

\* The token of a request is there, or is asked for, on behalf of its callback.
LEMMA ExecuteFacts ==
  ASSUME NEW q \in Rests, NEW cb \in Callbacks, NEW s, s = Execute(q, cb)
  PROVE  /\ s.m = q /\ Follows(s.now, cb)
         /\ \A y \in Items : Single(s.now, y) =>
              /\ y.cb.id = cb.id /\ y.cb.op = cb.op
              /\ cb \in PageClosures => y.cb \in PageClosures /\ y.cb.page = cb.page
<1>1. "token" \in FunctionNames /\ "token" \in Wants
  BY DEF FunctionNames, Wants
<1>2. PICK c \in Callbacks :
        /\ c = [cb EXCEPT !.fn = "token"] /\ c.id = cb.id /\ c.op = cb.op
        /\ cb \in PageClosures => c \in PageClosures /\ c.page = cb.page
  BY <1>1, GoesOn
<1>3. CASE q.token = "fresh"
  <2>1. s.m = q /\ s.now = Call(c, FALSE)
    BY <1>2, <1>3 DEF Execute, Done
  <2>2. Follows(s.now, cb)
    BY <1>2, <2>1, FollowsCall
  <2>3. ASSUME NEW y \in Items, Single(s.now, y)
        PROVE  y.cb = c
    <3>1. PICK e \in BOOLEAN : e = FALSE
      OBVIOUS
    <3>2. Single(Call(c, e), y)
      BY <2>1, <2>3, <3>1
    <3>3. QED
      BY <3>2, CallFacts
  <2>4. QED
    BY <1>2, <2>1, <2>2, <2>3
<1>4. CASE q.token # "fresh"
  <2>1. s.m = q /\ s.now = Ask("token", c)
    BY <1>2, <1>4 DEF Execute, Done
  <2>2. Follows(s.now, cb)
    BY <1>1, <1>2, <2>1, FollowsAsk
  <2>3. ASSUME NEW y \in Items, Single(s.now, y)
        PROVE  y.cb = c
    BY <1>1, <2>1, <2>3, AskFacts
  <2>4. QED
    BY <1>2, <2>1, <2>2, <2>3
<1>5. QED
  BY <1>3, <1>4

\* The page of a query is the one at the time of the call.
LEMMA RestHandleFacts ==
  ASSUME NEW r \in Rests, NEW x \in Items, NEW paging \in BOOLEAN, x.cb \in Closures,
         x.do \in Ops.service, x.cb.op = x.do,
         NEW s, s = RestHandle(r, x, paging)
  PROVE  /\ s.m \in Rests /\ Follows(s.now, x.cb)
         /\ s.m.at = r.at /\ s.m.more = r.more /\ s.m.pages = r.pages
         /\ x.do \notin {"next", "nextPromise"} => s.m = r
         /\ ~s.m.overlap => ~r.overlap
         /\ ~s.m.overlap /\ x.do \in {"next", "nextPromise"} => ~paging
         /\ \A y \in Items : Single(s.now, y) /\ ForAPage(y.cb) =>
              y.cb \in PageClosures /\ y.cb.page = IF y.cb.op = "next" THEN r.at ELSE 0
<1>1. x.cb \in Callbacks
  BY DEF Items
<1>2. CASE x.do \in {"call", "bulk"}
  <2>1. s = Execute(r, x.cb)
    BY <1>2 DEF RestHandle
  <2>2. s.m = r /\ Follows(s.now, x.cb) /\ \A y \in Items : Single(s.now, y) => y.cb.op = x.cb.op
    BY <1>1, <2>1, ExecuteFacts
  <2>3. QED
    BY <1>2, <2>2 DEF ForAPage
<1>3. CASE x.do \in {"next", "nextPromise"}
  <2>1. PICK o \in BOOLEAN : o = (r.overlap \/ paging)
    OBVIOUS
  <2> DEFINE marked == [r EXCEPT !.overlap = o]
  <2>12. /\ marked \in Rests /\ marked.overlap = o
         /\ marked.at = r.at /\ marked.more = r.more /\ marked.pages = r.pages
    BY DEF Rests
  <2>2. PICK q \in Rests : /\ q = marked /\ q.overlap = o
                           /\ q.at = r.at /\ q.more = r.more /\ q.pages = r.pages
    BY <2>12
  <2>13. r.at \in 0..Pages /\ 0 \in 0..Pages
    BY PagesAssumption DEF Rests
  <2>3. PICK page \in 0..Pages : page = IF x.do = "next" THEN r.at ELSE 0
    BY <2>13
  <2>14. /\ ForPage(x.cb, page) \in PageClosures /\ ForPage(x.cb, page).page = page
         /\ ForPage(x.cb, page).id = x.cb.id /\ ForPage(x.cb, page).op = x.cb.op
    BY DEF ForPage, Closures, PageClosures
  <2>4. PICK cb \in PageClosures : /\ cb = ForPage(x.cb, page) /\ cb.page = page
                                   /\ cb.id = x.cb.id /\ cb.op = x.cb.op
    BY <2>14
  <2>5. s = Execute(q, cb)
    BY <1>3, <2>1, <2>2, <2>3, <2>4 DEF RestHandle
  <2>6. cb \in Callbacks
    BY DEF Callbacks
  <2>7. s.m = q /\ Follows(s.now, cb)
    BY <2>5, <2>6, ExecuteFacts
  <2>8. \A y \in Items : Single(s.now, y) =>
          y.cb \in PageClosures /\ y.cb.page = page /\ y.cb.op = x.do
    BY <2>4, <2>5, <2>6, ExecuteFacts
  <2>9. Follows(s.now, x.cb)
    BY <2>4, <2>7 DEF Follows
  <2>10. s.m \in Rests /\ (~s.m.overlap => ~r.overlap /\ ~paging)
    BY <2>1, <2>2, <2>7
  <2>11. QED
    BY <1>3, <2>2, <2>3, <2>7, <2>8, <2>9, <2>10
<1>4. QED
  BY <1>2, <1>3 DEF Ops

\* A page under way goes on, or is got; or it is told that it is not.
LEMMA RestCallbackFacts ==
  ASSUME NEW r \in Rests, NEW cb \in Callbacks, cb.fn # "user", NEW err \in BOOLEAN,
         ForAPage(cb) => cb \in PageClosures,
         NEW s, s = RestCallback(r, cb, err)
  PROVE  /\ Follows(s.now, cb)
         /\ \/ /\ s.m \in Rests
               /\ s.m.at = r.at /\ s.m.more = r.more /\ s.m.pages = r.pages
               /\ s.m.overlap = r.overlap
               /\ \A y \in Items : Single(s.now, y) /\ ForAPage(y.cb) =>
                    y.cb \in PageClosures /\ y.cb.page = cb.page
            \/ /\ ForAPage(cb) /\ s.m = Paged(r, cb.page)
               /\ \A y \in Items : Single(s.now, y) => ~ForAPage(y.cb)
<1>1. "answered" \in FunctionNames /\ "request" \in Wants
  BY DEF FunctionNames, Wants
<1>2. PICK u \in Callbacks : u = ToUser(cb) /\ u.fn = "user" /\ u.id = cb.id /\ u.op = cb.op
  BY GoesToUser
<1>3. ASSUME NEW e \in BOOLEAN
      PROVE  /\ Follows(Answer(cb, e), cb)
             /\ \A y \in Items : Single(Answer(cb, e), y) => ~ForAPage(y.cb)
  <2>1. CASE cb.op = "bulk"
    <3>1. Answer(cb, e) = Dropped(cb)
      BY <2>1 DEF Answer
    <3>2. Follows(Dropped(cb), cb)
      BY FollowsCall
    <3>3. QED
      BY <2>1, <3>1, <3>2 DEF Follows, ForAPage
  <2>2. CASE cb.op # "bulk"
    <3>1. Answer(cb, e) = Call(u, e)
      BY <1>2, <2>2 DEF Answer
    <3>2. Follows(Call(u, e), cb)
      BY <1>2, FollowsCall
    <3>3. \A y \in Items : Single(Call(u, e), y) => y.cb = u
      BY CallFacts
    <3>4. QED
      BY <1>2, <3>1, <3>2, <3>3 DEF ForAPage
  <2>3. QED
    BY <2>1, <2>2
<1>4. CASE err \/ (cb.fn # "token" /\ cb.op \notin {"next", "nextPromise"})
  <2>1. PICK e \in BOOLEAN : s = Done(r, Answer(cb, e))
    BY <1>4 DEF RestCallback
  <2>2. s.m = r /\ s.now = Answer(cb, e)
    BY <2>1 DEF Done
  <2>3. QED
    BY <1>3, <2>2
<1>5. CASE ~err /\ cb.fn = "token"
  <2> DEFINE signed == [r EXCEPT !.token = "fresh"]
  <2>8. /\ signed \in Rests /\ signed.overlap = r.overlap
        /\ signed.at = r.at /\ signed.more = r.more /\ signed.pages = r.pages
    BY DEF Rests
  <2>1. PICK q \in Rests : /\ q = signed
                           /\ q.at = r.at /\ q.more = r.more /\ q.pages = r.pages
                           /\ q.overlap = r.overlap
    BY <2>8
  <2>2. PICK c \in Callbacks :
          /\ c = [cb EXCEPT !.fn = "answered"] /\ c.id = cb.id /\ c.op = cb.op
          /\ cb \in PageClosures => c \in PageClosures /\ c.page = cb.page
    BY <1>1, GoesOn
  <2>3. s = Done(q, Ask("request", c))
    BY <1>5, <2>1, <2>2 DEF RestCallback
  <2>4. s.m = q /\ s.now = Ask("request", c)
    BY <2>3 DEF Done
  <2>5. Follows(s.now, cb)
    BY <1>1, <2>2, <2>4, FollowsAsk
  <2>6. ASSUME NEW y \in Items, Single(s.now, y), ForAPage(y.cb)
        PROVE  y.cb \in PageClosures /\ y.cb.page = cb.page
    <3>1. y.cb = c
      BY <1>1, <2>4, <2>6, AskFacts
    <3>2. ForAPage(cb)
      BY <2>2, <2>6, <3>1 DEF ForAPage
    <3>3. QED
      BY <2>2, <3>1, <3>2
  <2>7. QED
    BY <2>1, <2>4, <2>5, <2>6
<1>6. CASE ~err /\ cb.fn # "token" /\ cb.op \in {"next", "nextPromise"}
  <2>1. PICK c \in Callbacks : /\ c = Closure("user", cb.id, cb.op) /\ c.fn = "user"
                               /\ c.id = cb.id /\ c.op = cb.op
    <3>1. cb.id \in Nat /\ cb.op \in OperationNames /\ "user" \in FunctionNames
      BY DEF Callbacks, Closures, PageClosures, FunctionNames
    <3>2. [fn |-> "user", id |-> cb.id, op |-> cb.op, then |-> "-", err |-> FALSE] \in Closures
      BY <3>1 DEF Closures
    <3>3. Closure("user", cb.id, cb.op) \in Callbacks
      BY <3>2 DEF Callbacks, Closure
    <3>4. /\ Closure("user", cb.id, cb.op).fn = "user" /\ Closure("user", cb.id, cb.op).id = cb.id
          /\ Closure("user", cb.id, cb.op).op = cb.op
      BY DEF Closure
    <3>5. QED
      BY <3>3, <3>4
  <2>2. Answer(c, FALSE) = Call(ToUser(c), FALSE)
    BY <1>6, <2>1 DEF Answer
  <2>3. PICK d \in Callbacks : d = ToUser(c) /\ d.fn = "user" /\ d.id = cb.id /\ d.op = cb.op
    BY <2>1, GoesToUser
  <2>4. s = Done(Paged(r, cb.page), Answer(c, FALSE))
    BY <1>6, <2>1 DEF RestCallback
  <2>10. s.m = Paged(r, cb.page) /\ s.now = Answer(c, FALSE)
    BY <2>4 DEF Done
  <2>5. s.m = Paged(r, cb.page) /\ s.now = Call(d, FALSE)
    BY <2>2, <2>3, <2>10
  <2>6. Follows(s.now, cb)
    BY <2>3, <2>5, FollowsCall
  <2>7. ASSUME NEW y \in Items, Single(s.now, y)
        PROVE  y.cb = d
    <3>1. PICK e \in BOOLEAN : e = FALSE
      OBVIOUS
    <3>2. Single(Call(d, e), y)
      BY <2>5, <2>7, <3>1
    <3>3. QED
      BY <3>2, CallFacts
  <2>8. ForAPage(cb)
    BY <1>6 DEF ForAPage
  <2>9. QED
    BY <2>3, <2>5, <2>6, <2>7, <2>8 DEF ForAPage
<1>7. QED
  BY <1>4, <1>5, <1>6

\* Getting the page that the query is at keeps the pages in order.
LEMMA PagedFacts ==
  ASSUME NEW r \in Rests, NEW page \in 0..Pages
  PROVE  /\ Paged(r, page) \in Rests /\ Paged(r, page).overlap = r.overlap
         /\ Paged(r, page).pages = Append(r.pages, IF page = 0 THEN 1 ELSE page)
         /\ Paged(r, page).more = ((IF page = 0 THEN 1 ELSE page) # Pages)
         /\ Paged(r, page).at = IF (IF page = 0 THEN 1 ELSE page) = Pages THEN 0
                                ELSE (IF page = 0 THEN 1 ELSE page) + 1
<1>1. PICK got \in 1..Pages : got = IF page = 0 THEN 1 ELSE page
  BY PagesAssumption
<1> DEFINE at == IF got = Pages THEN 0 ELSE got + 1
<1> DEFINE more == got # Pages
<1>2. Paged(r, page) = [r EXCEPT !.at = at, !.more = more, !.pages = Append(@, got)]
  BY <1>1 DEF Paged
<1>3. at \in 0..Pages /\ more \in BOOLEAN
  BY PagesAssumption
<1>4. r.pages \in Seq(Nat) /\ got \in Nat
  BY DEF Rests
<1>5. Append(r.pages, got) \in Seq(Nat)
  BY <1>4
<1> HIDE DEF at, more
<1>6. /\ Paged(r, page) \in Rests /\ Paged(r, page).overlap = r.overlap
      /\ Paged(r, page).pages = Append(r.pages, got)
      /\ Paged(r, page).more = more /\ Paged(r, page).at = at
  BY <1>2, <1>3, <1>5 DEF Rests
<1>7. QED
  BY <1>1, <1>6 DEF at, more

\* And the query asks for the next one.
LEMMA PagedInOrder ==
  ASSUME m \in Rests, InOrder, NEW page \in 0..Pages, m' = Paged(m, page), calls' = calls,
         "nextPromise" \notin AskedFor => m.more /\ page = m.at
  PROVE  InOrder'
<1>1. PICK got \in 1..Pages : got = IF page = 0 THEN 1 ELSE page
  BY PagesAssumption
<1>2. /\ m'.pages = Append(m.pages, got) /\ m'.more = (got # Pages)
      /\ m'.at = IF got = Pages THEN 0 ELSE got + 1
  BY <1>1, PagedFacts
<1>3. m.pages \in Seq(Nat) /\ got \in Nat /\ Pages \in Nat \ {0}
  BY PagesAssumption DEF Rests
<1>4. /\ Len(m'.pages) = Len(m.pages) + 1 /\ m'.pages # <<>>
      /\ DOMAIN m.pages = 1..Len(m.pages) /\ DOMAIN m'.pages = 1..Len(m.pages) + 1
      /\ Len(m.pages) \in Nat
      /\ \A i \in 1..Len(m.pages) : m'.pages[i] = m.pages[i]
      /\ m'.pages[Len(m.pages) + 1] = got
  BY <1>2, <1>3
<1>5. AskedFor' = AskedFor
  BY DEF AskedFor
<1>6. ASSUME "nextPromise" \notin AskedFor
      PROVE  /\ \A i \in DOMAIN m'.pages : m'.pages[i] = i
             /\ m'.more => Len(m'.pages) < Pages /\ m'.at = Len(m'.pages) + 1
  <2>1. /\ \A i \in DOMAIN m.pages : m.pages[i] = i
        /\ Len(m.pages) < Pages
        /\ m.at = IF m.pages = <<>> THEN 0 ELSE Len(m.pages) + 1
    BY <1>6 DEF InOrder
  <2>2. got = Len(m.pages) + 1
    <3>1. CASE m.pages = <<>>
      BY <1>1, <1>6, <2>1, <3>1
    <3>2. CASE m.pages # <<>>
      BY <1>1, <1>4, <1>6, <2>1, <3>2
    <3>3. QED
      BY <3>1, <3>2
  <2>3. \A i \in DOMAIN m'.pages : m'.pages[i] = i
    BY <1>4, <2>1, <2>2
  <2>4. m'.more => Len(m'.pages) < Pages /\ m'.at = Len(m'.pages) + 1
    <3>1. SUFFICES ASSUME m'.more
                   PROVE  Len(m'.pages) < Pages /\ m'.at = Len(m'.pages) + 1
      OBVIOUS
    <3>2. got # Pages
      BY <1>2, <3>1, Zenon
    <3>3. m'.at = got + 1 /\ got < Pages
      BY <1>2, <1>3, <3>2
    <3>4. QED
      BY <1>4, <2>2, <3>3
  <2>5. QED
    BY <2>3, <2>4
<1>7. "nextPromise" \notin AskedFor =>
        /\ \A i \in DOMAIN m'.pages : m'.pages[i] = i
        /\ m'.more => /\ Len(m'.pages) < Pages
                      /\ m'.at = IF m'.pages = <<>> THEN 0 ELSE Len(m'.pages) + 1
  BY <1>4, <1>6
<1>8. QED
  BY <1>5, <1>7 DEF InOrder
-----------------------------------------------------------------------------
(* The steps.                                                              *)

\* The turn has an item, which is its first and its only one.
LEMMA TheItem ==
  ASSUME Typed, agenda # <<>>
  PROVE  \E x \in Items : /\ InTurn(x) /\ Head(agenda) = x /\ Tail(agenda) = <<>>
                          /\ Owned(x.cb) /\ Calling(x)
<1>1. PICK x \in Items : Single(agenda, x)
  BY DEF Typed, Brief
<1>2. agenda = <<x>>
  BY <1>1 DEF Single
<1>3. Head(agenda) = x /\ Tail(agenda) = <<>>
  BY <1>2
<1>4. QED
  BY <1>1, <1>3 DEF Typed, InTurn

\* What a turn does next.
LEMMA RunCases ==
  ASSUME Run, Typed
  PROVE  \E x \in Items :
           /\ InTurn(x) /\ Owned(x.cb) /\ Calling(x) /\ UNCHANGED <<kind, polls, hub>>
           /\ \/ x.at = "throw" /\ Threw
              \/ x.at = "ask" /\ Asked(x, <<>>)
              \/ x.at = "machine" /\ Advance(Handle(x), <<>>)
              \/ x.at = "callback" /\ x.do = "drop" /\ Tell(x.cb.id, "dropped", <<>>)
              \/ /\ x.at = "callback" /\ x.do # "drop" /\ x.cb.fn = "user"
                 /\ Tell(x.cb.id, IF x.err THEN "errors" ELSE "results", <<>>)
              \/ /\ x.at = "callback" /\ x.do # "drop" /\ x.cb.fn # "user"
                 /\ Advance(Callback(x), <<>>)
<1>1. agenda # <<>>
  BY DEF Run
<1>2. PICK x \in Items : /\ InTurn(x) /\ Head(agenda) = x /\ Tail(agenda) = <<>>
                         /\ Owned(x.cb) /\ Calling(x)
  BY <1>1, TheItem
<1>3. x.at \in {"machine", "ask", "callback", "throw"}
  BY DEF Items
<1>4. /\ IF x.at = "throw" THEN Threw
         ELSE IF x.at = "ask" THEN Asked(x, <<>>)
         ELSE IF x.at = "machine" THEN Advance(Handle(x), <<>>)
         ELSE IF x.do = "drop" THEN Tell(x.cb.id, "dropped", <<>>)
         ELSE IF x.cb.fn = "user" THEN Tell(x.cb.id, IF x.err THEN "errors" ELSE "results", <<>>)
         ELSE Advance(Callback(x), <<>>)
      /\ UNCHANGED <<kind, polls, hub>>
  BY <1>2 DEF Run
<1>5. QED
  BY <1>2, <1>3, <1>4

\* A turn that goes on for the same call keeps the types.
LEMMA GoesOnTyped ==
  ASSUME Typed, NEW x \in Items, Owned(x.cb), NEW s, Advance(s, <<>>),
         UNCHANGED <<kind, polls, hub>>,
         m' \in IF kind = "receiver" THEN Receivers ELSE Rests,
         Follows(s.now, x.cb) \/ (s.now = Throw /\ kind # "service")
  PROVE  Typed' /\ agenda' = s.now /\ m' = s.m /\ UNCHANGED <<thrown, asks, calls>>
<1>1. Brief(s.now)
  BY ThrowFacts DEF Follows
<1>3. s.now \o <<>> = s.now
  BY <1>1, RestOfTurn
<1>4. agenda' = s.now /\ m' = s.m /\ UNCHANGED <<thrown, asks, calls>>
  BY <1>3 DEF Advance
<1>5. ASSUME NEW y \in Items, Single(s.now, y)
      PROVE  Owned(y.cb) /\ Calling(y)
  <2>1. CASE s.now = Throw /\ kind # "service"
    <3>1. y.at = "throw" /\ y.cb.id = 0
      BY <1>5, <2>1, ThrowFacts
    <3>2. Len(calls) \in Nat
      BY DEF Typed
    <3>3. QED
      BY <2>1, <3>1, <3>2 DEF Owned, Calling
  <2>2. CASE Follows(s.now, x.cb)
    <3>1. /\ y.at \in {"ask", "callback"} /\ y.cb.id = x.cb.id /\ y.cb.op = x.cb.op
          /\ y.at = "ask" => y.do \in Wants
      BY <1>5, <2>2 DEF Follows
    <3>2. QED
      BY <3>1 DEF Owned, Calling
  <2>3. QED
    BY <2>1, <2>2
<1>6. \A y : Owned(y)' <=> Owned(y)
  BY <1>4 DEF Owned
<1>7. \A y \in Items : InTurn(y)' => Owned(y.cb)' /\ Calling(y)'
  BY <1>4, <1>5, <1>6 DEF InTurn, Calling
<1>8. Brief(agenda')
  BY <1>1, <1>4
<1>9. Typed'
  BY <1>4, <1>6, <1>7, <1>8 DEF Typed
<1>10. QED
  BY <1>4, <1>9
\* Nothing else has changed: what is asked for is as it was.
LEMMA CallsKept ==
  ASSUME UNCHANGED <<kind, calls, hub>>
  PROVE  /\ AskedFor' = AskedFor /\ (UploadsAreTold <=> UploadsAreTold')
         /\ \A do, cb : Saying(do, cb)' <=> Saying(do, cb)
         /\ \A x : Onward(x)' <=> Onward(x)
BY DEF AskedFor, UploadsAreTold, Saying, Onward, Heard

\* A call of the receiver.
LEMMA ReceiverMachine ==
  ASSUME HttpInv, kind = "receiver", NEW x \in Items, InTurn(x), Owned(x.cb), Calling(x),
         x.at = "machine", Advance(Handle(x), <<>>), UNCHANGED <<kind, polls, hub>>
  PROVE  HttpInv'
<1>1. Typed /\ Polling
  BY DEF HttpInv
<1>2. m \in Receivers /\ Consistent(m)
  BY <1>1 DEF Typed, Polling
<1>3. PICK s : s = Handle(x)
  OBVIOUS
<1>4. PICK starting \in BOOLEAN : starting = Waits("enable")
  BY DEF Waits
<1>5. s = ReceiverHandle(m, x, starting)
  BY <1>3, <1>4 DEF Handle
<1>6. starting => m.wanted
  BY <1>1, <1>4 DEF Polling, Waits
<1>7. x.cb.op = x.do /\ x.cb.fn = "user"
  BY DEF Calling
<1>8. /\ s.m \in Receivers /\ Consistent(s.m) /\ (starting => s.m.wanted)
      /\ Follows(s.now, x.cb) /\ Wanted(s.now, s.m)
  BY <1>2, <1>5, <1>6, <1>7, ReceiverHandleFacts
<1>9. m' = s.m
  BY <1>3 DEF Advance
<1>10. Typed' /\ agenda' = s.now /\ UNCHANGED <<thrown, asks, calls>>
  BY <1>1, <1>3, <1>8, <1>9, GoesOnTyped
<1>11. Consistent(m)' /\ Consistent(m')
  BY <1>8, <1>9 DEF Consistent
<1>12. \A a \in asks' : a.cb.op = "enable" => m'.wanted
  BY <1>4, <1>8, <1>9, <1>10 DEF Waits
<1>13. \A y \in Items : /\ Single(agenda', y) /\ y.cb.op = "enable"
                        /\ y.at = "ask" \/ y.cb.fn # "user"
                        => m'.wanted
  BY <1>8, <1>9, <1>10 DEF Wanted
<1>14. Polling'
  BY <1>11, <1>12, <1>13 DEF Polling, InTurn
<1>15. QED
  BY <1>10, <1>14 DEF HttpInv, Uploading, Paging

\* The callback of one.
LEMMA ReceiverCallbacks ==
  ASSUME HttpInv, kind = "receiver", NEW x \in Items, InTurn(x), Owned(x.cb),
         x.at = "callback", x.cb.fn # "user", Advance(Callback(x), <<>>),
         UNCHANGED <<kind, polls, hub>>
  PROVE  HttpInv'
<1>1. Typed /\ Polling
  BY DEF HttpInv
<1>2. m \in Receivers /\ Consistent(m) /\ x.cb \in Callbacks /\ x.err \in BOOLEAN
  BY <1>1 DEF Typed, Polling, Items
<1>3. PICK s : s = Callback(x)
  OBVIOUS
<1>4. PICK found \in BOOLEAN : found = (x.do = "found")
  OBVIOUS
<1>5. s = ReceiverCallback(m, x.cb, x.err, found)
  BY <1>3, <1>4 DEF Callback
<1>6. x.cb.op = "enable" => m.wanted
  BY <1>1 DEF Polling
<1>7. /\ s.m \in Receivers /\ Consistent(s.m) /\ s.m.wanted = m.wanted /\ Follows(s.now, x.cb)
  BY <1>2, <1>5, <1>6, ReceiverCallbackFacts
<1>8. m' = s.m
  BY <1>3 DEF Advance
<1>9. Typed' /\ agenda' = s.now /\ UNCHANGED <<thrown, asks, calls>>
  BY <1>1, <1>3, <1>7, <1>8, GoesOnTyped
<1>10. Consistent(m)'
  BY <1>7, <1>8 DEF Consistent
<1>11. \A a \in asks' : a.cb.op = "enable" => m'.wanted
  BY <1>1, <1>7, <1>8, <1>9 DEF Polling
<1>12. \A y \in Items : Single(agenda', y) /\ y.cb.op = "enable" => m'.wanted
  BY <1>6, <1>7, <1>8, <1>9 DEF Follows
<1>13. Polling'
  BY <1>10, <1>11, <1>12 DEF Polling, InTurn
<1>14. QED
  BY <1>9, <1>13 DEF HttpInv, Uploading, Paging

\* A call of the upload of a blob, or of a method.
LEMMA UploadMachine ==
  ASSUME HttpInv, kind \in {"upload", "invoke"}, NEW x \in Items, InTurn(x), Owned(x.cb),
         Calling(x), x.at = "machine", Advance(Handle(x), <<>>), UNCHANGED <<kind, polls, hub>>
  PROVE  HttpInv'
<1>1. Typed /\ Uploading
  BY DEF HttpInv
<1>2. PICK s : s = Handle(x)
  OBVIOUS
<1>3. PICK paging : s = RestHandle(m, x, paging)
  BY <1>2 DEF Handle
<1>4. /\ x.do \in {"upload", "getSas", "notify", "invoke"} /\ x.cb.op = x.do
      /\ kind = "upload" => x.do # "invoke"
  BY DEF Calling, Ops
<1>5. /\ s.m = m /\ Follows(s.now, x.cb)
      /\ kind = "upload" => \A y \in Items : Single(s.now, y) => Onward(y)
  BY <1>3, <1>4, RestAsks
<1>6. m' = m /\ m \in Rests
  BY <1>1, <1>2, <1>5 DEF Advance, Typed
<1>7. Typed' /\ agenda' = s.now /\ UNCHANGED <<thrown, asks, calls>>
  BY <1>1, <1>2, <1>5, <1>6, GoesOnTyped
<1>8. Uploading'
  BY <1>1, <1>5, <1>7, CallsKept DEF Uploading, InTurn
<1>9. QED
  BY <1>7, <1>8 DEF HttpInv, Polling, Paging

\* The callback of an upload.
LEMMA UploadCallbacks ==
  ASSUME HttpInv, kind = "upload", NEW x \in Items, InTurn(x), Owned(x.cb),
         x.at = "callback", x.cb.fn # "user", Advance(Callback(x), <<>>),
         UNCHANGED <<kind, polls, hub>>
  PROVE  HttpInv'
<1>1. Typed /\ Uploading
  BY DEF HttpInv
<1>2. m \in Rests /\ x.cb \in Callbacks /\ x.err \in BOOLEAN
  BY <1>1 DEF Typed, Items
<1>3. PICK s : s = Callback(x)
  OBVIOUS
<1>4. s = UploadCallback(m, x.cb, x.err)
  BY <1>3 DEF Callback
<1>5. Heard(x.cb, x.err) /\ x.cb.fn \in UploadFns
  BY <1>1 DEF Uploading, Onward
<1>6. /\ s.m = m /\ (s.now = Throw \/ Follows(s.now, x.cb))
      /\ \A y \in Items : Single(s.now, y) => Onward(y)
  <2>1. PICK cb \in Callbacks, err \in BOOLEAN : cb = x.cb /\ err = x.err
    BY <1>2
  <2>2. s = UploadCallback(m, cb, err) /\ Heard(cb, err) /\ cb.fn \in UploadFns
    BY <1>4, <1>5, <2>1
  <2>3. s.m = m /\ (s.now = Throw \/ Follows(s.now, cb))
    BY <2>2, UploadCallbackFacts
  <2>4. \A y \in Items : Single(s.now, y) => Onward(y)
    BY <2>2, UploadCallbackFacts
  <2>5. QED
    BY <2>1, <2>3, <2>4
<1>7. m' = m
  BY <1>3, <1>6 DEF Advance
<1>8. Typed' /\ agenda' = s.now /\ UNCHANGED <<thrown, asks, calls>>
  BY <1>1, <1>2, <1>3, <1>6, <1>7, GoesOnTyped
<1>9. Uploading'
  BY <1>1, <1>6, <1>8, CallsKept DEF Uploading, InTurn
<1>10. QED
  BY <1>8, <1>9 DEF HttpInv, Polling, Paging

\* The callback of a method.
LEMMA InvokeCallbacks ==
  ASSUME HttpInv, kind = "invoke", NEW x \in Items, InTurn(x), Owned(x.cb),
         x.at = "callback", x.cb.fn # "user", Advance(Callback(x), <<>>),
         UNCHANGED <<kind, polls, hub>>
  PROVE  HttpInv'
<1>1. Typed /\ m \in Rests /\ x.cb \in Callbacks /\ x.err \in BOOLEAN
  BY DEF HttpInv, Typed, Items
<1>2. PICK s : s = Callback(x)
  OBVIOUS
<1>3. s = InvokeCallback(m, x.cb, x.err)
  BY <1>2 DEF Callback
<1>4. s.m \in Rests /\ Follows(s.now, x.cb)
  BY <1>1, <1>3, InvokeCallbackFacts
<1>5. m' = s.m
  BY <1>2 DEF Advance
<1>6. Typed'
  BY <1>1, <1>2, <1>4, <1>5, GoesOnTyped
<1>7. QED
  BY <1>6 DEF HttpInv, Polling, Uploading, Paging
\* What waits for a page is as right after a step that keeps the place of the query.
LEMMA RightPageKept ==
  ASSUME Typed, kind = "service", m' \in Rests, UNCHANGED calls,
         m'.at = m.at, m'.more = m.more, ~m'.overlap => ~m.overlap
  PROVE  \A cb : RightPage(cb) => RightPage(cb)'
<1>1. AskedFor' = AskedFor
  BY DEF AskedFor
<1>2. QED
  BY <1>1 DEF RightPage, ForAPage

\* A call of the service client.
LEMMA ServiceMachine ==
  ASSUME HttpInv, kind = "service", NEW x \in Items, InTurn(x), Owned(x.cb), Calling(x),
         x.at = "machine", Advance(Handle(x), <<>>), UNCHANGED <<kind, polls, hub>>
  PROVE  HttpInv'
<1>1. Typed /\ Paging /\ m \in Rests
  BY DEF HttpInv, Typed
<1>2. PICK s : s = Handle(x)
  OBVIOUS
<1>3. PICK paging \in BOOLEAN : paging = (Waits("next") \/ Waits("nextPromise"))
  BY DEF Waits
<1>4. s = RestHandle(m, x, paging)
  BY <1>2, <1>3 DEF Handle
<1>5. x.cb \in Closures /\ x.do \in Ops.service /\ x.cb.op = x.do
  BY DEF Calling
<1>6. /\ s.m \in Rests /\ Follows(s.now, x.cb)
      /\ s.m.at = m.at /\ s.m.more = m.more /\ s.m.pages = m.pages
      /\ ~s.m.overlap => ~m.overlap
      /\ ~s.m.overlap /\ x.do \in {"next", "nextPromise"} => ~paging
  BY <1>1, <1>4, <1>5, RestHandleFacts
<1>7. \A y \in Items : Single(s.now, y) /\ ForAPage(y.cb) =>
        y.cb \in PageClosures /\ y.cb.page = IF y.cb.op = "next" THEN m.at ELSE 0
  BY <1>1, <1>4, <1>5, RestHandleFacts
<1>8. m' = s.m
  BY <1>2 DEF Advance
<1>9. Typed' /\ agenda' = s.now /\ UNCHANGED <<thrown, asks, calls>>
  BY <1>1, <1>2, <1>6, <1>8, GoesOnTyped
<1>10. AskedFor' = AskedFor
  BY <1>9 DEF AskedFor
<1>11. \A a \in asks' : RightPage(a.cb)'
  <2>1. \A a \in asks : RightPage(a.cb)
    BY <1>1 DEF Paging
  <2>2. QED
    BY <1>1, <1>6, <1>8, <1>9, <2>1, RightPageKept
<1>12. ASSUME NEW y \in Items, Single(agenda', y)
       PROVE  /\ y.at # "machine" /\ RightPage(y.cb)'
              /\ ForAPage(y.cb) /\ ~m'.overlap => \A a \in asks' : ~ForAPage(a.cb)
  <2>1. y.at # "machine" /\ y.cb.op = x.do
    BY <1>5, <1>6, <1>9, <1>12 DEF Follows
  <2>2. CASE ~ForAPage(y.cb)
    BY <2>1, <2>2 DEF RightPage, ForAPage
  <2>3. CASE ForAPage(y.cb)
    <3>1. x.do \in {"next", "nextPromise"} /\ m.more
      BY <1>1, <2>1, <2>3 DEF ForAPage, Paging
    <3>2. y.cb \in PageClosures /\ y.cb.page = IF y.cb.op = "next" THEN m.at ELSE 0
      BY <1>7, <1>9, <1>12, <2>3
    <3>3. RightPage(y.cb)'
      BY <1>6, <1>8, <3>1, <3>2 DEF RightPage, ForAPage
    <3>4. ~m'.overlap => \A a \in asks' : ~ForAPage(a.cb)
      BY <1>3, <1>6, <1>8, <1>9, <3>1 DEF Waits, ForAPage
    <3>5. QED
      BY <2>1, <3>3, <3>4
  <2>4. QED
    BY <2>2, <2>3
<1>13. ~m'.overlap => /\ InOrder'
                      /\ \A a, b \in asks' : ForAPage(a.cb) /\ ForAPage(b.cb) => a = b
  <2>1. SUFFICES ASSUME ~m'.overlap
                 PROVE  InOrder' /\ \A a, b \in asks' : ForAPage(a.cb) /\ ForAPage(b.cb) => a = b
    OBVIOUS
  <2>2. InOrder /\ \A a, b \in asks : ForAPage(a.cb) /\ ForAPage(b.cb) => a = b
    BY <1>1, <1>6, <1>8, <2>1 DEF Paging
  <2>3. InOrder'
    BY <1>6, <1>8, <1>10, <2>2 DEF InOrder
  <2>4. QED
    BY <1>9, <2>2, <2>3
<1>14. Paging'
  BY <1>11, <1>12, <1>13 DEF Paging, InTurn, ForAPage
<1>15. QED
  BY <1>9, <1>14 DEF HttpInv, Polling, Uploading

\* The callback of one.
LEMMA ServiceCallbacks ==
  ASSUME HttpInv, kind = "service", NEW x \in Items, InTurn(x), Owned(x.cb),
         x.at = "callback", x.cb.fn # "user", Advance(Callback(x), <<>>),
         UNCHANGED <<kind, polls, hub>>
  PROVE  HttpInv'
<1>1. Typed /\ Paging /\ m \in Rests /\ x.err \in BOOLEAN
  BY DEF HttpInv, Typed, Items
<1>2. PICK s : s = Callback(x)
  OBVIOUS
<1>3. PICK cb \in Callbacks : cb = x.cb
  BY DEF Items
<1>4. s = RestCallback(m, cb, x.err)
  BY <1>2, <1>3 DEF Callback
<1>5. RightPage(cb) /\ (ForAPage(cb) => cb \in PageClosures)
  BY <1>1, <1>3 DEF Paging, RightPage
<1>6. /\ Follows(s.now, cb)
      /\ \/ /\ s.m \in Rests
            /\ s.m.at = m.at /\ s.m.more = m.more /\ s.m.pages = m.pages
            /\ s.m.overlap = m.overlap
            /\ \A y \in Items : Single(s.now, y) /\ ForAPage(y.cb) =>
                 y.cb \in PageClosures /\ y.cb.page = cb.page
         \/ /\ ForAPage(cb) /\ s.m = Paged(m, cb.page)
            /\ \A y \in Items : Single(s.now, y) => ~ForAPage(y.cb)
  BY <1>1, <1>3, <1>4, <1>5, RestCallbackFacts
<1>7. m' = s.m
  BY <1>2 DEF Advance
<1>8. ForAPage(cb) => cb.page \in 0..Pages
  BY <1>5 DEF PageClosures
<1>9. s.m \in Rests /\ s.m.overlap = m.overlap
  BY <1>1, <1>6, <1>8, PagedFacts
<1>10. Typed' /\ agenda' = s.now /\ UNCHANGED <<thrown, asks, calls>>
  BY <1>1, <1>2, <1>3, <1>6, <1>7, <1>9, GoesOnTyped
<1>11. AskedFor' = AskedFor
  BY <1>10 DEF AskedFor
<1>12. /\ ~m.overlap => /\ InOrder
                        /\ \A a, b \in asks : ForAPage(a.cb) /\ ForAPage(b.cb) => a = b
                        /\ ForAPage(cb) => \A a \in asks : ~ForAPage(a.cb)
       /\ \A a \in asks : RightPage(a.cb)
  BY <1>1, <1>3 DEF Paging
<1>13. \A y \in Items : Single(agenda', y) => y.at # "machine" /\ y.cb.op = cb.op
  BY <1>6, <1>10 DEF Follows
<1>14. CASE /\ s.m.at = m.at /\ s.m.more = m.more /\ s.m.pages = m.pages
            /\ \A y \in Items : Single(s.now, y) /\ ForAPage(y.cb) =>
                 y.cb \in PageClosures /\ y.cb.page = cb.page
  <2>1. \A c : RightPage(c) => RightPage(c)'
    BY <1>1, <1>7, <1>9, <1>10, <1>14, RightPageKept
  <2>2. \A a \in asks' : RightPage(a.cb)'
    BY <1>10, <1>12, <2>1
  <2>3. ASSUME NEW y \in Items, Single(agenda', y), ForAPage(y.cb)
        PROVE  RightPage(y.cb)' /\ ForAPage(cb)
    <3>1. y.cb.op = cb.op /\ y.cb \in PageClosures /\ y.cb.page = cb.page
      BY <1>10, <1>13, <1>14, <2>3
    <3>2. ForAPage(cb)
      BY <1>3, <2>3, <3>1 DEF ForAPage
    <3>3. RightPage(y.cb)
      BY <1>5, <3>1, <3>2 DEF RightPage
    <3>4. QED
      BY <2>1, <3>2, <3>3
  <2>4. ~m'.overlap => InOrder'
    BY <1>7, <1>9, <1>11, <1>12, <1>14 DEF InOrder
  <2>5. \A y \in Items : Single(agenda', y) => RightPage(y.cb)'
    BY <2>3 DEF RightPage, ForAPage
  <2>6. \A y \in Items : Single(agenda', y) /\ ForAPage(y.cb) /\ ~m'.overlap =>
          \A a \in asks' : ~ForAPage(a.cb)
    BY <1>7, <1>9, <1>10, <1>12, <2>3
  <2>7. QED
    BY <1>7, <1>9, <1>10, <1>12, <1>13, <2>2, <2>4, <2>5, <2>6
       DEF Paging, InTurn, ForAPage, HttpInv, Polling, Uploading
<1>15. CASE /\ ForAPage(cb) /\ s.m = Paged(m, cb.page)
            /\ \A y \in Items : Single(s.now, y) => ~ForAPage(y.cb)
  <2>1. \A a \in asks' : RightPage(a.cb)'
    <3>1. SUFFICES ASSUME NEW a \in asks
                   PROVE  RightPage(a.cb)'
      BY <1>10
    <3>2. RightPage(a.cb) /\ (~m.overlap => ~ForAPage(a.cb))
      BY <1>12, <1>15
    <3>3. QED
      BY <1>7, <1>9, <3>2 DEF RightPage, ForAPage
  <2>2. \A y \in Items : Single(agenda', y) => ~ForAPage(y.cb) /\ RightPage(y.cb)'
    BY <1>10, <1>15 DEF RightPage, ForAPage
  <2>3. ~m'.overlap => InOrder'
    <3>1. SUFFICES ASSUME ~m.overlap
                   PROVE  InOrder'
      BY <1>7, <1>9
    <3>2. cb.op \in AskedFor
      <4>1. cb.id \in 1..Len(calls) /\ cb.op = calls[cb.id].op
        BY <1>1, <1>3 DEF Owned, Typed
      <4>2. cb.id \in DOMAIN calls
        BY <1>1, <4>1 DEF Typed
      <4>3. QED
        BY <4>1, <4>2 DEF AskedFor
    <3>3. "nextPromise" \notin AskedFor => m.more /\ cb.page = m.at
      BY <1>5, <1>15, <3>1, <3>2 DEF RightPage, ForAPage
    <3>4. QED
      BY <1>1, <1>7, <1>8, <1>10, <1>12, <1>15, <3>1, <3>3, PagedInOrder
  <2>4. QED
    BY <1>7, <1>9, <1>10, <1>12, <1>13, <2>1, <2>2, <2>3
       DEF Paging, InTurn, ForAPage, HttpInv, Polling, Uploading
<1>16. QED
  BY <1>6, <1>14, <1>15
\* A request is made.
LEMMA AskedKeeps ==
  ASSUME HttpInv, NEW x \in Items, InTurn(x), Owned(x.cb), Calling(x), x.at = "ask",
         Asked(x, <<>>), UNCHANGED <<kind, polls, hub>>
  PROVE  HttpInv'
<1>1. PICK r : r = [do |-> x.do, cb |-> x.cb, poll |-> IF x.cb.id = 0 THEN polls ELSE 0]
  OBVIOUS
<1>2. r.do = x.do /\ r.cb = x.cb
  BY <1>1
<1>3. /\ asks' = asks \cup {r} /\ agenda' = <<>> /\ UNCHANGED <<m, thrown, calls, kind, polls, hub>>
  BY <1>1 DEF Asked
<1>4. Brief(agenda') /\ \A y \in Items : ~Single(agenda', y)
  BY <1>3, NothingFacts
<1>5. Typed'
  <2>1. Typed
    BY DEF HttpInv
  <2>2. r \in Requests
    <3>1. x.do \in Wants /\ x.cb \in Callbacks /\ polls \in Nat
      BY <2>1 DEF Calling, Items, Typed
    <3>2. QED
      BY <1>1, <3>1 DEF Requests
  <2>3. \A c : Owned(c)' <=> Owned(c)
    BY <1>3 DEF Owned
  <2>4. QED
    BY <1>2, <1>3, <1>4, <2>1, <2>2, <2>3 DEF Typed, InTurn
<1>6. Polling'
  <2>1. Polling
    BY DEF HttpInv
  <2>2. SUFFICES ASSUME kind = "receiver"
                 PROVE  Polling'
    BY <1>3 DEF Polling
  <2>3. /\ Consistent(m) /\ \A a \in asks : a.cb.op = "enable" => m.wanted
    BY <2>1, <2>2 DEF Polling
  <2>4. x.cb.op = "enable" => m.wanted
    BY <2>1, <2>2 DEF Polling, HttpInv
  <2>5. QED
    BY <1>2, <1>3, <1>4, <2>3, <2>4 DEF Polling, InTurn
<1>7. Uploading'
  <2>1. Uploading
    BY DEF HttpInv
  <2>2. QED
    BY <1>2, <1>3, <1>4, <2>1, CallsKept DEF Uploading, InTurn, Onward
<1>8. Paging'
  <2>1. Paging
    BY DEF HttpInv
  <2>2. \A c : RightPage(c)' <=> RightPage(c)
    BY <1>3 DEF RightPage, ForAPage, AskedFor
  <2>3. InOrder' <=> InOrder
    BY <1>3 DEF InOrder, AskedFor
  <2>4. SUFFICES ASSUME kind = "service"
                 PROVE  Paging'
    BY <1>3 DEF Paging
  <2>5. RightPage(x.cb) /\ (ForAPage(x.cb) /\ ~m.overlap => \A a \in asks : ~ForAPage(a.cb))
    BY <2>1, <2>4 DEF Paging
  <2>6. \A a \in asks' : RightPage(a.cb)'
    BY <1>2, <1>3, <2>1, <2>2, <2>4, <2>5 DEF Paging
  <2>7. ~m'.overlap => InOrder' /\ \A a, b \in asks' : ForAPage(a.cb) /\ ForAPage(b.cb) => a = b
    BY <1>2, <1>3, <2>1, <2>3, <2>4, <2>5 DEF Paging
  <2>8. QED
    BY <1>4, <2>6, <2>7 DEF Paging, InTurn, ForAPage
<1>9. QED
  BY <1>5, <1>6, <1>7, <1>8 DEF HttpInv

\* The turn ends, with an exception or not, and no call has been told.
LEMMA TurnEnds ==
  ASSUME HttpInv, agenda' = <<>>, thrown' \in BOOLEAN, UNCHANGED <<kind, m, asks, calls, polls, hub>>
  PROVE  HttpInv'
<1>1. Brief(agenda') /\ \A y \in Items : ~Single(agenda', y)
  BY NothingFacts
<1>2. Typed'
  <2>1. \A c : Owned(c)' <=> Owned(c)
    BY DEF Owned
  <2>2. QED
    BY <1>1, <2>1 DEF HttpInv, Typed, InTurn
<1>3. Polling'
  BY <1>1 DEF HttpInv, Polling, InTurn, Consistent
<1>4. Uploading'
  BY <1>1, CallsKept DEF HttpInv, Uploading, InTurn
<1>5. Paging'
  <2>1. \A c : RightPage(c)' <=> RightPage(c)
    BY DEF RightPage, ForAPage, AskedFor
  <2>2. InOrder' <=> InOrder
    BY DEF InOrder, AskedFor
  <2>3. QED
    BY <1>1, <2>1, <2>2 DEF HttpInv, Paging, InTurn, ForAPage
<1>6. QED
  BY <1>2, <1>3, <1>4, <1>5 DEF HttpInv

\* A call that is told is the call that it was.
LEMMA Counted ==
  ASSUME calls \in Seq(Callings), NEW id \in 1..Len(calls),
         NEW how \in {"errors", "results", "dropped"},
         calls' = [calls EXCEPT ![id][how] = @ + 1]
  PROVE  /\ calls' \in Seq(Callings) /\ Len(calls') = Len(calls) /\ DOMAIN calls' = DOMAIN calls
         /\ \A i \in DOMAIN calls : calls'[i].op = calls[i].op
         /\ \A i \in DOMAIN calls : calls'[i].results > 0 =>
              calls[i].results > 0 \/ (i = id /\ how = "results")
<1>1. DOMAIN calls = 1..Len(calls) /\ Len(calls) \in Nat
      /\ \A i \in DOMAIN calls : calls[i] \in Callings
  OBVIOUS
<1>2. PICK told : told = [calls[id] EXCEPT ![how] = @ + 1]
  OBVIOUS
<1>3. /\ told \in Callings /\ told.op = calls[id].op
      /\ how # "results" => told.results = calls[id].results
  <2>1. PICK c \in Callings : c = calls[id]
    BY <1>1
  <2>2. CASE how = "errors"
    <3>1. told = [c EXCEPT !.errors = c.errors + 1]
      BY <1>2, <2>1, <2>2
    <3>2. c.errors + 1 \in Nat
      BY DEF Callings
    <3>3. told \in Callings /\ told.op = c.op /\ told.results = c.results
      BY <3>1, <3>2 DEF Callings
    <3>4. QED
      BY <2>1, <2>2, <3>3
  <2>3. CASE how = "results"
    <3>1. told = [c EXCEPT !.results = c.results + 1]
      BY <1>2, <2>1, <2>3
    <3>2. c.results + 1 \in Nat
      BY DEF Callings
    <3>3. told \in Callings /\ told.op = c.op
      BY <3>1, <3>2 DEF Callings
    <3>4. QED
      BY <2>1, <2>3, <3>3
  <2>4. CASE how = "dropped"
    <3>1. told = [c EXCEPT !.dropped = c.dropped + 1]
      BY <1>2, <2>1, <2>4
    <3>2. c.dropped + 1 \in Nat
      BY DEF Callings
    <3>3. told \in Callings /\ told.op = c.op /\ told.results = c.results
      BY <3>1, <3>2 DEF Callings
    <3>4. QED
      BY <2>1, <2>4, <3>3
  <2>5. QED
    BY <2>2, <2>3, <2>4
<1>4. calls' = [calls EXCEPT ![id] = told]
  BY <1>2
<1>5. /\ calls' \in Seq(Callings) /\ Len(calls') = Len(calls)
      /\ \A i \in 1..Len(calls) : calls'[i] = IF i = id THEN told ELSE calls[i]
  BY <1>3, <1>4
<1>6. QED
  BY <1>1, <1>3, <1>5

\* A call is told.
LEMMA ToldKeeps ==
  ASSUME HttpInv, NEW x \in Items, InTurn(x), Owned(x.cb), x.at = "callback",
         NEW how \in {"errors", "results", "dropped"}, Tell(x.cb.id, how, <<>>),
         how = "results" => x.cb.fn = "user" /\ ~x.err,
         UNCHANGED <<kind, polls, hub>>
  PROVE  HttpInv'
<1>1. /\ agenda' = <<>> /\ UNCHANGED <<m, thrown, asks, kind, polls, hub>>
      /\ calls' = IF x.cb.id = 0 THEN calls ELSE [calls EXCEPT ![x.cb.id][how] = @ + 1]
  BY DEF Tell
<1>2. Typed /\ Uploading /\ Paging /\ Polling
  BY DEF HttpInv
<1>3. CASE x.cb.id = 0
  <2>1. UNCHANGED calls
    BY <1>1, <1>3
  <2>2. thrown' \in BOOLEAN
    BY <1>1, <1>2 DEF Typed
  <2>3. QED
    BY <1>1, <2>1, <2>2, TurnEnds
<1>4. CASE x.cb.id # 0
  <2> DEFINE id == x.cb.id
  <2>1. id \in 1..Len(calls) /\ x.cb.op = calls[id].op
    BY <1>2, <1>4 DEF Owned, Typed
  <2>2. calls \in Seq(Callings)
    BY <1>2 DEF Typed
  <2>3. calls' = [calls EXCEPT ![id][how] = @ + 1]
    BY <1>1, <1>4
  <2> HIDE DEF id
  <2>4. /\ calls' \in Seq(Callings) /\ Len(calls') = Len(calls) /\ DOMAIN calls' = DOMAIN calls
        /\ \A i \in DOMAIN calls : calls'[i].op = calls[i].op
        /\ \A i \in DOMAIN calls : calls'[i].results > 0 =>
             calls[i].results > 0 \/ (i = id /\ how = "results")
    BY <2>1, <2>2, <2>3, Counted
  <2>5. Brief(agenda') /\ \A y \in Items : ~Single(agenda', y)
    BY <1>1, NothingFacts
  <2>6. AskedFor' = AskedFor
    BY <2>4 DEF AskedFor
  <2>7. DOMAIN calls = 1..Len(calls) /\ Len(calls) \in Nat
    BY <2>2
  <2>8. Typed'
    <3>1. \A c : Owned(c) => Owned(c)'
      <4>1. SUFFICES ASSUME NEW c, Owned(c)
                     PROVE  Owned(c)'
        OBVIOUS
      <4>2. c.id \in 0..Len(calls) /\ (c.id # 0 => c.op = calls[c.id].op)
        BY <4>1 DEF Owned
      <4>3. c.id # 0 => c.id \in DOMAIN calls
        BY <2>7, <4>2
      <4>4. QED
        BY <1>1, <2>4, <4>1, <4>2, <4>3 DEF Owned
    <3>2. QED
      BY <1>1, <1>2, <2>4, <2>5, <3>1 DEF Typed, InTurn
  <2>9. Polling'
    BY <1>1, <1>2, <2>5 DEF Polling, InTurn, Consistent
  <2>10. Uploading'
    <3>1. SUFFICES ASSUME kind = "upload"
                   PROVE  Uploading'
      BY <1>1 DEF Uploading
    <3>2. UploadsAreTold'
      <4>1. SUFFICES ASSUME NEW i \in DOMAIN calls, calls[i].op = "upload"
                     PROVE  /\ calls'[i].results > 0 => i \in hub.blobs \cap hub.notified
                            /\ i \in hub.notified => i \in hub.blobs
        BY <1>1, <2>4 DEF UploadsAreTold
      <4>2. /\ calls[i].results > 0 => i \in hub.blobs \cap hub.notified
            /\ i \in hub.notified => i \in hub.blobs
        BY <1>2, <3>1, <4>1 DEF Uploading, UploadsAreTold
      <4>3. i = id /\ how = "results" => i \in hub.blobs \cap hub.notified
        BY <1>2, <2>1, <3>1, <4>1 DEF Uploading, Onward, Heard, id
      <4>4. QED
        BY <2>4, <4>2, <4>3
    <3>3. \A do, cb : Saying(do, cb)' <=> Saying(do, cb)
      BY <1>1 DEF Saying
    <3>4. QED
      BY <1>1, <1>2, <2>5, <3>1, <3>2, <3>3 DEF Uploading, InTurn
  <2>11. Paging'
    <3>1. \A c : RightPage(c)' <=> RightPage(c)
      BY <1>1, <2>6 DEF RightPage, ForAPage
    <3>2. InOrder' <=> InOrder
      BY <1>1, <2>6 DEF InOrder
    <3>3. QED
      BY <1>1, <1>2, <2>5, <3>1, <3>2 DEF Paging, InTurn, ForAPage
  <2>12. QED
    BY <2>8, <2>9, <2>10, <2>11 DEF HttpInv
<1>5. QED
  BY <1>3, <1>4

\* The turn goes on.
LEMMA RunKeeps ==
  ASSUME HttpInv, Run
  PROVE  HttpInv'
<1>1. PICK x \in Items :
        /\ InTurn(x) /\ Owned(x.cb) /\ Calling(x) /\ UNCHANGED <<kind, polls, hub>>
        /\ \/ x.at = "throw" /\ Threw
           \/ x.at = "ask" /\ Asked(x, <<>>)
           \/ x.at = "machine" /\ Advance(Handle(x), <<>>)
           \/ x.at = "callback" /\ x.do = "drop" /\ Tell(x.cb.id, "dropped", <<>>)
           \/ /\ x.at = "callback" /\ x.do # "drop" /\ x.cb.fn = "user"
              /\ Tell(x.cb.id, IF x.err THEN "errors" ELSE "results", <<>>)
           \/ /\ x.at = "callback" /\ x.do # "drop" /\ x.cb.fn # "user"
              /\ Advance(Callback(x), <<>>)
  BY RunCases DEF HttpInv
<1>2. kind \in {"receiver", "service", "upload", "invoke"}
  BY DEF HttpInv, Typed, Ops
<1>3. CASE x.at = "throw" /\ Threw
  <2>1. agenda' = <<>> /\ thrown' \in BOOLEAN /\ UNCHANGED <<kind, m, asks, calls, polls, hub>>
    BY <1>1, <1>3 DEF Threw
  <2>2. QED
    BY <2>1, TurnEnds
<1>4. CASE x.at = "ask" /\ Asked(x, <<>>)
  BY <1>1, <1>4, AskedKeeps
<1>5. CASE x.at = "machine" /\ Advance(Handle(x), <<>>)
  <2>1. CASE kind = "receiver"
    BY <1>1, <1>5, <2>1, ReceiverMachine
  <2>2. CASE kind = "service"
    BY <1>1, <1>5, <2>2, ServiceMachine
  <2>3. CASE kind \in {"upload", "invoke"}
    BY <1>1, <1>5, <2>3, UploadMachine
  <2>4. QED
    BY <1>2, <2>1, <2>2, <2>3
<1>6. CASE x.at = "callback" /\ x.do = "drop" /\ Tell(x.cb.id, "dropped", <<>>)
  <2>1. PICK how \in {"errors", "results", "dropped"} : how = "dropped"
    OBVIOUS
  <2>2. QED
    BY <1>1, <1>6, <2>1, ToldKeeps
<1>7. CASE /\ x.at = "callback" /\ x.do # "drop" /\ x.cb.fn = "user"
           /\ Tell(x.cb.id, IF x.err THEN "errors" ELSE "results", <<>>)
  <2>1. PICK how \in {"errors", "results", "dropped"} : how = IF x.err THEN "errors" ELSE "results"
    OBVIOUS
  <2>2. Tell(x.cb.id, how, <<>>) /\ (how = "results" => ~x.err)
    BY <1>7, <2>1
  <2>3. QED
    BY <1>1, <1>7, <2>2, ToldKeeps
<1>8. CASE /\ x.at = "callback" /\ x.do # "drop" /\ x.cb.fn # "user"
           /\ Advance(Callback(x), <<>>)
  <2>1. CASE kind = "receiver"
    BY <1>1, <1>8, <2>1, ReceiverCallbacks
  <2>2. CASE kind = "service"
    BY <1>1, <1>8, <2>2, ServiceCallbacks
  <2>3. CASE kind = "upload"
    BY <1>1, <1>8, <2>3, UploadCallbacks
  <2>4. CASE kind = "invoke"
    BY <1>1, <1>8, <2>4, InvokeCallbacks
  <2>5. QED
    BY <1>2, <2>1, <2>2, <2>3, <2>4
<1>9. QED
  BY <1>1, <1>3, <1>4, <1>5, <1>6, <1>7, <1>8
\* The user calls.
LEMMA UserCallsKeeps ==
  ASSUME HttpInv, NEW op \in UNION {Ops[k] : k \in DOMAIN Ops}, NEW drain \in BOOLEAN,
         UserCalls(op, drain)
  PROVE  HttpInv'
<1>1. Typed /\ Polling /\ Uploading /\ Paging
  BY DEF HttpInv
<1>2. /\ op \in Ops[kind] /\ Len(calls) < MaxCalls /\ Len(calls) \in Nat
      /\ calls \in Seq(Callings)
  BY <1>1 DEF UserCalls, Typed
<1>3. PICK id \in Nat : id = Len(calls) + 1
  BY <1>2
<1>4. PICK call \in Callings :
        call.op = op /\ call.results = 0 /\ calls' = Append(calls, call)
  <2>1. op \in OperationNames
    BY DEF Ops, OperationNames, Policies, Timers
  <2>2. PICK d \in Nat : d = IF op = "receive" THEN 1 ELSE 0
    OBVIOUS
  <2> DEFINE call == [op |-> op, errors |-> 0, results |-> 0, dropped |-> d]
  <2>3. call \in Callings /\ call.op = op /\ call.results = 0
    BY <2>1 DEF Callings
  <2>4. calls' = Append(calls, call)
    BY <2>2 DEF UserCalls
  <2>5. QED
    BY <2>3, <2>4
<1>5. /\ calls' \in Seq(Callings) /\ Len(calls') = id /\ calls'[id].op = op
      /\ calls'[id].results = 0
      /\ DOMAIN calls = 1..Len(calls) /\ DOMAIN calls' = 1..id
      /\ \A i \in 1..Len(calls) : calls'[i] = calls[i]
  BY <1>2, <1>3, <1>4
<1>6. PICK c \in Closures : /\ c = Closure("user", id, op)
                            /\ c.fn = "user" /\ c.id = id /\ c.op = op
  <2>1. op \in OperationNames
    BY DEF Ops, OperationNames, Policies, Timers
  <2>2. "user" \in FunctionNames
    BY DEF FunctionNames
  <2>3. [fn |-> "user", id |-> id, op |-> op, then |-> "-", err |-> FALSE] \in Closures
    BY <2>1, <2>2 DEF Closures
  <2>4. Closure("user", id, op) \in Closures
    BY <2>3 DEF Closure
  <2>5. /\ Closure("user", id, op).fn = "user" /\ Closure("user", id, op).id = id
        /\ Closure("user", id, op).op = op
    BY DEF Closure
  <2>6. QED
    BY <2>4, <2>5
<1>7. PICK x \in Items : /\ x = Input("machine", op, c, ~drain)
                         /\ x.at = "machine" /\ x.do = op /\ x.cb = c
  <2>1. op \in OperationNames /\ c \in Callbacks
    BY DEF Ops, OperationNames, Policies, Timers, Callbacks
  <2>2. PICK e \in BOOLEAN : e = ~drain
    OBVIOUS
  <2> DEFINE x == [at |-> "machine", do |-> op, cb |-> c, err |-> e]
  <2>3. x \in Items /\ x.at = "machine" /\ x.do = op /\ x.cb = c
    BY <2>1 DEF Items
  <2>4. x = Input("machine", op, c, ~drain)
    BY <2>2 DEF Input
  <2>5. QED
    BY <2>3, <2>4
<1>8. /\ agenda' = <<x>> /\ UNCHANGED <<kind, m, thrown, asks, polls, hub>>
      /\ op \in {"next", "nextPromise"} => m.more
  BY <1>3, <1>6, <1>7 DEF UserCalls
<1>9. Brief(agenda') /\ Single(agenda', x) /\ \A y \in Items : Single(agenda', y) => y = x
  BY <1>8, OneItem
<1>10. \A cb : Owned(cb) => Owned(cb)'
  <2>1. SUFFICES ASSUME NEW cb, Owned(cb)
                 PROVE  Owned(cb)'
    OBVIOUS
  <2>2. cb.id \in 0..Len(calls) /\ (cb.id # 0 => cb.op = calls[cb.id].op)
    BY <2>1 DEF Owned
  <2>3. cb.id \in 0..Len(calls') /\ (cb.id # 0 => cb.op = calls'[cb.id].op)
    BY <1>2, <1>3, <1>5, <2>2
  <2>4. QED
    BY <1>8, <2>1, <2>3 DEF Owned
<1>11. Owned(c)' /\ Calling(x)'
  <2>1. id \in 0..Len(calls') /\ id # 0
    BY <1>2, <1>3, <1>5
  <2>2. QED
    BY <1>2, <1>5, <1>6, <1>7, <1>8, <2>1 DEF Owned, Calling
<1>12. Typed'
  <2>1. Len(calls') <= MaxCalls /\ 0..Len(calls) \subseteq 0..Len(calls')
    BY <1>2, <1>3, <1>5, HttpAssumption
  <2>2. hub' \in [left : 0..MaxMessages, blobs : SUBSET (0..Len(calls')),
                  notified : SUBSET (0..Len(calls'))]
    BY <1>1, <1>8, <2>1 DEF Typed
  <2>3. \A y \in Items : InTurn(y)' => Owned(y.cb)' /\ Calling(y)'
    BY <1>7, <1>9, <1>11 DEF InTurn
  <2>4. \A a \in asks' : Owned(a.cb)'
    BY <1>1, <1>8, <1>10 DEF Typed
  <2>5. QED
    BY <1>1, <1>5, <1>8, <1>9, <2>1, <2>2, <2>3, <2>4 DEF Typed
<1>13. Polling'
  BY <1>1, <1>7, <1>8, <1>9 DEF Polling, InTurn, Consistent
<1>14. Uploading'
  <2>1. SUFFICES ASSUME kind = "upload"
                 PROVE  Uploading'
    BY <1>8 DEF Uploading
  <2>2. UploadsAreTold'
    <3>1. SUFFICES ASSUME NEW i \in DOMAIN calls', calls'[i].op = "upload"
                   PROVE  /\ calls'[i].results > 0 => i \in hub.blobs \cap hub.notified
                          /\ i \in hub.notified => i \in hub.blobs
      BY <1>8 DEF UploadsAreTold
    <3>2. CASE i \in DOMAIN calls
      BY <1>1, <1>5, <2>1, <3>1, <3>2 DEF Uploading, UploadsAreTold
    <3>3. CASE i = id
      <4>1. i \notin hub.notified
        BY <1>1, <1>2, <1>3, <3>3 DEF Typed
      <4>2. QED
        BY <1>5, <3>3, <4>1
    <3>4. QED
      BY <1>2, <1>3, <1>5, <3>2, <3>3
  <2>3. \A do, cb : Saying(do, cb)' <=> Saying(do, cb)
    BY <1>8 DEF Saying
  <2>4. QED
    BY <1>1, <1>7, <1>8, <1>9, <2>1, <2>2, <2>3 DEF Uploading, InTurn, Onward
<1>15. Paging'
  <2>1. AskedFor \subseteq AskedFor'
    BY <1>2, <1>3, <1>5 DEF AskedFor
  <2>2. \A cb : RightPage(cb) => RightPage(cb)'
    BY <1>8, <2>1 DEF RightPage, ForAPage
  <2>3. InOrder => InOrder'
    BY <1>8, <2>1 DEF InOrder
  <2>4. QED
    BY <1>1, <1>7, <1>8, <1>9, <2>2, <2>3 DEF Paging, InTurn, ForAPage
<1>16. QED
  BY <1>12, <1>13, <1>14, <1>15 DEF HttpInv

\* A timer fires.
LEMMA TimerFiresKeeps ==
  ASSUME HttpInv, TimerFires
  PROVE  HttpInv'
<1>1. Typed /\ Polling /\ kind = "receiver" /\ m \in Receivers /\ Consistent(m)
  BY DEF HttpInv, TimerFires, Typed, Polling
<1>2. PICK spent \in BOOLEAN : spent = (m.timer = "at")
  OBVIOUS
<1>3. /\ m' = [m EXCEPT !.spent = spent] /\ polls' = polls + 1 /\ polls < MaxPolls
      /\ UNCHANGED <<kind, thrown, asks, calls, hub>>
  BY <1>2 DEF TimerFires
<1>4. m' \in Receivers /\ Consistent(m') /\ m'.wanted = m.wanted
  BY <1>1, <1>3 DEF Receivers, Consistent
<1>5. PICK c \in Closures : /\ c = Closure("user", 0, "receive")
                            /\ c.fn = "user" /\ c.id = 0 /\ c.op = "receive"
  <2>1. [fn |-> "user", id |-> 0, op |-> "receive", then |-> "-", err |-> FALSE] \in Closures
    BY DEF Closures, FunctionNames, OperationNames
  <2>2. Closure("user", 0, "receive") \in Closures
    BY <2>1 DEF Closure
  <2>3. /\ Closure("user", 0, "receive").fn = "user" /\ Closure("user", 0, "receive").id = 0
        /\ Closure("user", 0, "receive").op = "receive"
    BY DEF Closure
  <2>4. QED
    BY <2>2, <2>3
<1>6. PICK x \in Items : /\ x = Input("machine", "receive", c, FALSE)
                         /\ x.at = "machine" /\ x.do = "receive" /\ x.cb = c
  <2>1. [at |-> "machine", do |-> "receive", cb |-> c, err |-> FALSE] \in Items
    BY DEF Items, OperationNames, Callbacks
  <2>2. Input("machine", "receive", c, FALSE) \in Items
    BY <2>1 DEF Input
  <2>3. /\ Input("machine", "receive", c, FALSE).at = "machine"
        /\ Input("machine", "receive", c, FALSE).do = "receive"
        /\ Input("machine", "receive", c, FALSE).cb = c
    BY DEF Input
  <2>4. QED
    BY <2>2, <2>3
<1>7. agenda' = <<x>>
  BY <1>5, <1>6 DEF TimerFires
<1>8. Brief(agenda') /\ \A y \in Items : Single(agenda', y) => y = x
  BY <1>7, OneItem
<1>9. Typed'
  <2>1. \A cb : Owned(cb)' <=> Owned(cb)
    BY <1>3 DEF Owned
  <2>2. Owned(c) /\ Calling(x)'
    <3>1. "receive" \in Ops.receiver /\ 0 \in 0..Len(calls)
      BY <1>1 DEF Ops, Typed
    <3>2. QED
      BY <1>1, <1>3, <1>5, <1>6, <3>1 DEF Owned, Calling
  <2>3. polls' \in 0..MaxPolls
    BY <1>1, <1>3, HttpAssumption DEF Typed
  <2>4. \A y \in Items : InTurn(y)' => Owned(y.cb)' /\ Calling(y)'
    BY <1>6, <1>8, <2>1, <2>2 DEF InTurn
  <2>5. QED
    BY <1>1, <1>3, <1>4, <1>8, <2>1, <2>3, <2>4 DEF Typed
<1>10. Polling'
  <2>1. Consistent(m)'
    BY <1>4 DEF Consistent
  <2>2. QED
    BY <1>1, <1>3, <1>4, <1>6, <1>8, <2>1 DEF Polling, InTurn
<1>11. QED
  BY <1>1, <1>3, <1>9, <1>10 DEF HttpInv, Uploading, Paging

\* The token comes close to its expiry.
LEMMA TokenAgesKeeps ==
  ASSUME HttpInv, TokenAges
  PROVE  HttpInv'
<1>1. Typed /\ Paging /\ kind = "service" /\ m \in Rests /\ agenda = <<>>
  BY DEF HttpInv, TokenAges, Typed, Quiet
<1>2. /\ m' = [m EXCEPT !.token = "old"]
      /\ UNCHANGED <<kind, agenda, thrown, asks, calls, polls, hub>>
  BY DEF TokenAges
<1>3. /\ m' \in Rests /\ m'.at = m.at /\ m'.more = m.more /\ m'.pages = m.pages
      /\ m'.overlap = m.overlap
  BY <1>1, <1>2 DEF Rests
<1>4. \A y \in Items : ~Single(agenda, y)
  BY <1>1, NothingFacts
<1>5. Typed'
  <2>1. \A c : Owned(c)' <=> Owned(c)
    BY <1>2 DEF Owned
  <2>2. QED
    BY <1>1, <1>2, <1>3, <1>4, <2>1 DEF Typed, InTurn
<1>6. Paging'
  <2>1. \A c : RightPage(c) => RightPage(c)'
    BY <1>1, <1>2, <1>3, RightPageKept
  <2>2. InOrder' <=> InOrder
    BY <1>2, <1>3 DEF InOrder, AskedFor
  <2>3. QED
    BY <1>1, <1>2, <1>3, <1>4, <2>1, <2>2 DEF Paging, InTurn, ForAPage
<1>7. QED
  BY <1>1, <1>2, <1>5, <1>6 DEF HttpInv, Polling, Uploading

\* What is called answers.
LEMMA AnswersKeeps ==
  ASSUME HttpInv, NEW a \in asks, NEW err \in BOOLEAN, NEW got \in BOOLEAN, Answers(a, err, got)
  PROVE  HttpInv'
<1>1. Typed /\ Polling /\ Uploading /\ Paging /\ a \in Requests /\ a.cb \in Callbacks /\ Owned(a.cb)
  BY DEF HttpInv, Typed, Requests
<1>2. PICK found \in BOOLEAN :
        found = (got /\ a.do = "request" /\ a.cb.op = "receive" /\ ~err)
  OBVIOUS
<1>3. PICK stored \in BOOLEAN : stored = (a.do = "stream" /\ (~err \/ got))
  OBVIOUS
<1>4. PICK noted \in BOOLEAN : noted = (a.do = "notification" /\ ~a.cb.err /\ (~err \/ got))
  OBVIOUS
<1>5. PICK x \in Items : /\ x = Input("callback", IF found THEN "found" ELSE "call", a.cb, err)
                         /\ x.at = "callback" /\ x.cb = a.cb /\ x.err = err
  <2>1. PICK do \in {"call", "found"} : do = IF found THEN "found" ELSE "call"
    OBVIOUS
  <2>2. /\ Input("callback", do, a.cb, err) \in Items
        /\ Input("callback", do, a.cb, err).at = "callback"
        /\ Input("callback", do, a.cb, err).cb = a.cb
        /\ Input("callback", do, a.cb, err).err = err
    BY <1>1 DEF Input, Items
  <2>3. QED
    BY <2>1, <2>2
<1>6. /\ agenda' = <<x>> /\ asks' = asks \ {a}
      /\ UNCHANGED <<kind, m, thrown, calls, polls>>
      /\ hub' = [left |-> IF found THEN hub.left - 1 ELSE hub.left,
                 blobs |-> IF stored THEN hub.blobs \cup {a.cb.id} ELSE hub.blobs,
                 notified |-> IF noted THEN hub.notified \cup {a.cb.id} ELSE hub.notified]
  BY <1>2, <1>3, <1>4, <1>5 DEF Answers
<1>7. /\ hub'.left = IF found THEN hub.left - 1 ELSE hub.left
      /\ hub'.blobs = IF stored THEN hub.blobs \cup {a.cb.id} ELSE hub.blobs
      /\ hub'.notified = IF noted THEN hub.notified \cup {a.cb.id} ELSE hub.notified
  BY <1>6
<1>8. Brief(agenda') /\ \A y \in Items : Single(agenda', y) => y = x
  BY <1>6, OneItem
<1>9. Typed'
  <2>1. \A c : Owned(c)' <=> Owned(c)
    BY <1>6 DEF Owned
  <2>2. found => hub.left > 0
    BY <1>2 DEF Answers
  <2>3. hub'.left \in 0..MaxMessages
    BY <1>1, <1>7, <2>2, HttpAssumption DEF Typed
  <2>4. hub'.blobs \subseteq 0..Len(calls) /\ hub'.notified \subseteq 0..Len(calls)
    BY <1>1, <1>7 DEF Typed, Owned
  <2>5. hub' \in [left : 0..MaxMessages, blobs : SUBSET (0..Len(calls)),
                  notified : SUBSET (0..Len(calls))]
    BY <1>6, <1>7, <2>3, <2>4
  <2>6. \A y \in Items : InTurn(y)' => Owned(y.cb)' /\ Calling(y)'
    BY <1>1, <1>5, <1>8, <2>1 DEF InTurn, Calling
  <2>7. QED
    BY <1>1, <1>6, <1>8, <2>1, <2>5, <2>6 DEF Typed
<1>10. Polling'
  BY <1>1, <1>5, <1>6, <1>8 DEF Polling, InTurn, Consistent
<1>11. Uploading'
  <2>1. SUFFICES ASSUME kind = "upload"
                 PROVE  Uploading'
    BY <1>6 DEF Uploading
  <2>2. hub.blobs \subseteq hub'.blobs /\ hub.notified \subseteq hub'.notified
    BY <1>7
  <2>3. \A do, cb : Saying(do, cb) => Saying(do, cb)'
    BY <2>2 DEF Saying
  <2>4. Saying(a.do, a.cb) /\ a.cb.fn \in UploadFns
    BY <1>1, <2>1 DEF Uploading
  <2>5. UploadsAreTold'
    <3>1. SUFFICES ASSUME NEW i \in DOMAIN calls, calls[i].op = "upload"
                   PROVE  /\ calls[i].results > 0 => i \in hub'.blobs \cap hub'.notified
                          /\ i \in hub'.notified => i \in hub'.blobs
      BY <1>6 DEF UploadsAreTold
    <3>2. /\ calls[i].results > 0 => i \in hub.blobs \cap hub.notified
          /\ i \in hub.notified => i \in hub.blobs
      BY <1>1, <2>1, <3>1 DEF Uploading, UploadsAreTold
    <3>3. noted /\ i = a.cb.id => i \in hub.blobs
      <4>1. SUFFICES ASSUME noted, i = a.cb.id
                     PROVE  i \in hub.blobs
        OBVIOUS
      <4>2. a.do = "notification" /\ ~a.cb.err
        BY <1>4, <4>1
      <4>3. a.cb.fn = "notified"
        BY <2>4, <4>2 DEF Saying
      <4>4. i # 0 /\ a.cb.op = "upload"
        BY <1>1, <3>1, <4>1 DEF Owned, Typed
      <4>5. QED
        BY <2>4, <4>1, <4>2, <4>3, <4>4 DEF Saying
    <3>4. QED
      BY <1>7, <2>2, <3>2, <3>3
  <2>6. Onward(x)'
    <3>1. SUFFICES ASSUME a.cb.op = "upload"
                   PROVE  Heard(a.cb, err)'
      BY <1>5, <2>4 DEF Onward, Heard
    <3>2. a.cb.fn = "uploaded" /\ ~err => a.cb.id \in hub'.blobs
      BY <1>3, <1>7, <2>4 DEF Saying
    <3>3. a.cb.fn = "notified" /\ ~a.cb.err /\ ~err => a.cb.id \in hub'.notified
      BY <1>4, <1>7, <2>4 DEF Saying
    <3>4. a.cb.fn \in {"notifyCredentials", "notified"} /\ ~a.cb.err => a.cb.id \in hub'.blobs
      BY <2>2, <2>4, <3>1 DEF Saying
    <3>5. a.cb.fn # "user"
      BY <2>4 DEF UploadFns
    <3>6. QED
      BY <3>2, <3>3, <3>4, <3>5 DEF Heard
  <2>7. QED
    BY <1>1, <1>6, <1>8, <2>1, <2>3, <2>5, <2>6 DEF Uploading, InTurn
<1>12. Paging'
  <2>1. \A c : RightPage(c)' <=> RightPage(c)
    BY <1>6 DEF RightPage, ForAPage, AskedFor
  <2>2. InOrder' <=> InOrder
    BY <1>6 DEF InOrder, AskedFor
  <2>3. QED
    BY <1>1, <1>5, <1>6, <1>8, <2>1, <2>2 DEF Paging, InTurn, ForAPage
<1>13. QED
  BY <1>9, <1>10, <1>11, <1>12 DEF HttpInv

-----------------------------------------------------------------------------
(* The theorems.                                                           *)

\* Nothing is under way at first.
LEMMA HttpStarts ==
  ASSUME Init
  PROVE  HttpInv
<1>1. /\ kind \in DOMAIN Ops /\ agenda = <<>> /\ thrown = FALSE /\ asks = {} /\ calls = <<>>
      /\ polls = 0 /\ hub = [left |-> MaxMessages, blobs |-> {}, notified |-> {}]
      /\ m = IF kind = "receiver" THEN ReceiverStart ELSE RestStart
  BY DEF Init
<1>2. Brief(agenda) /\ \A y \in Items : ~Single(agenda, y)
  BY <1>1, NothingFacts
<1>3. ReceiverStart \in Receivers /\ Consistent(ReceiverStart)
  BY DEF ReceiverStart, Receivers, Consistent, Policies, Timers
<1>4. RestStart \in Rests /\ RestStart.pages = <<>> /\ RestStart.at = 0
  <2>1. <<>> \in Seq(Nat) /\ 0 \in 0..Pages
    BY PagesAssumption
  <2>2. QED
    BY <2>1 DEF RestStart, Rests
<1>5. Typed
  <2>1. calls \in Seq(Callings) /\ Len(calls) = 0
    BY <1>1
  <2>2. hub \in [left : 0..MaxMessages, blobs : SUBSET (0..Len(calls)),
                 notified : SUBSET (0..Len(calls))]
    BY <1>1, HttpAssumption
  <2>3. 0 <= MaxCalls /\ 0 \in 0..MaxPolls
    BY HttpAssumption
  <2>4. m \in IF kind = "receiver" THEN Receivers ELSE Rests
    BY <1>1, <1>3, <1>4
  <2>5. QED
    BY <1>1, <1>2, <2>1, <2>2, <2>3, <2>4 DEF Typed, InTurn
<1>6. Polling
  BY <1>1, <1>2, <1>3 DEF Polling, InTurn
<1>7. Uploading
  <2>1. UploadsAreTold
    BY <1>1 DEF UploadsAreTold
  <2>2. QED
    BY <1>1, <1>2, <2>1 DEF Uploading, InTurn
<1>8. Paging
  <2>1. kind = "service" => m.pages = <<>> /\ m.at = 0
    BY <1>1, <1>4
  <2>2. kind = "service" => InOrder
    <3>1. SUFFICES ASSUME m.pages = <<>>, m.at = 0
                   PROVE  InOrder
      BY <2>1
    <3>2. Len(m.pages) = 0 /\ DOMAIN m.pages = {}
      BY <3>1
    <3>3. QED
      BY <3>1, <3>2, PagesAssumption DEF InOrder
  <2>3. QED
    BY <1>1, <1>2, <2>2 DEF Paging, InTurn
<1>9. QED
  BY <1>5, <1>6, <1>7, <1>8 DEF HttpInv

\* No step leaves it.
LEMMA HttpStays ==
  ASSUME HttpInv, [Next]_vars
  PROVE  HttpInv'
<1>1. CASE Run
  BY <1>1, RunKeeps
<1>2. ASSUME NEW op \in UNION {Ops[k] : k \in DOMAIN Ops}, NEW drain \in BOOLEAN,
             UserCalls(op, drain)
      PROVE  HttpInv'
  BY <1>2, UserCallsKeeps
<1>3. CASE TimerFires
  BY <1>3, TimerFiresKeeps
<1>4. CASE TokenAges
  BY <1>4, TokenAgesKeeps
<1>5. ASSUME NEW a \in asks, NEW err \in BOOLEAN, NEW got \in BOOLEAN, Answers(a, err, got)
      PROVE  HttpInv'
  BY <1>5, AnswersKeeps
<1>6. CASE UNCHANGED vars
  <2>1. UNCHANGED <<kind, m, agenda, thrown, asks, calls, polls, hub>>
    BY <1>6 DEF vars
  <2>2. Typed'
    BY <2>1 DEF HttpInv, Typed, InTurn, Owned, Calling
  <2>3. Polling'
    BY <2>1 DEF HttpInv, Polling, InTurn, Consistent
  <2>4. Uploading'
    BY <2>1, CallsKept DEF HttpInv, Uploading, InTurn
  <2>5. Paging'
    BY <2>1 DEF HttpInv, Paging, InTurn, RightPage, ForAPage, InOrder, AskedFor
  <2>6. QED
    BY <2>2, <2>3, <2>4, <2>5 DEF HttpInv
<1>7. QED
  BY <1>1, <1>2, <1>3, <1>4, <1>5, <1>6 DEF Next, Users, Below

\* The inductive invariant: types, the receiver as its user wants it, an upload as
\* far as it has come, and the page under way.
THEOREM HttpCorrect == Spec => []HttpInv
<1>1. Init => HttpInv
  BY HttpStarts
<1>2. HttpInv /\ [Next]_vars => HttpInv'
  BY HttpStays
<1>3. QED
  BY <1>1, <1>2, PTL DEF Spec

\* However options, starts and stops follow each other, and whatever is under way,
\* the receiver polls as the transport believes it does, and not once the user has
\* stopped it (http.ts:502, http.ts:531, http.ts:763).
THEOREM ReceiverIsStopped == Spec => []ReceiverStops
<1>1. HttpInv => ReceiverStops
  <2>1. SUFFICES ASSUME HttpInv
                 PROVE  ReceiverStops
    OBVIOUS
  <2>2. TypeOK
    <3>1. /\ Len(calls) <= MaxCalls /\ polls \in 0..MaxPolls /\ hub.left \in 0..MaxMessages
      BY <2>1 DEF HttpInv, Typed
    <3>2. kind = "receiver" => m.policy \in Policies /\ m.timer \in Timers \cup {"none"}
      BY <2>1 DEF HttpInv, Typed, Receivers
    <3>3. kind # "receiver" => m.token \in {"none", "fresh", "old"} /\ m.at \in 0..Pages
      BY <2>1 DEF HttpInv, Typed, Rests
    <3>4. QED
      BY <3>1, <3>2, <3>3 DEF TypeOK
  <2>3. QED
    BY <2>1, <2>2 DEF ReceiverStops, HttpInv, Polling, Consistent
<1>2. QED
  BY <1>1, HttpCorrect, PTL

\* An upload is told to be done when the storage has the blob and the hub knows of
\* it; a query asked with a callback, a page at a time, gives its pages in order
\* (blob_upload_client.ts:69, query.ts:59).
THEOREM UsersAreToldWhatIs == Spec => []ToldWhatIs
<1>1. HttpInv => ToldWhatIs
  <2>1. SUFFICES ASSUME HttpInv
                 PROVE  ToldWhatIs
    OBVIOUS
  <2>2. UploadsAreTold
    BY <2>1 DEF HttpInv, Uploading, UploadsAreTold
  <2>3. PagesInOrder
    <3>1. SUFFICES ASSUME kind = "service", ~m.overlap,
                          \A i \in DOMAIN calls : calls[i].op # "nextPromise"
                   PROVE  \A i \in DOMAIN m.pages : m.pages[i] = i
      BY DEF PagesInOrder
    <3>2. "nextPromise" \notin AskedFor
      BY <3>1 DEF AskedFor
    <3>3. QED
      BY <2>1, <3>1, <3>2 DEF HttpInv, Paging, InOrder
  <2>4. QED
    BY <2>2, <2>3 DEF ToldWhatIs
<1>2. QED
  BY <1>1, HttpCorrect, PTL

=============================================================================
