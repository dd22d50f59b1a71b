------------------------------- MODULE Cbs_proofs -------------------------------
(***************************************************************************)
(* Proofs about the agent of claims based security (Cbs.tla): a timer runs *)
(* while a token is outstanding, no callback is called twice, and a token  *)
(* is taken for accepted only if it was.                                   *)
(*                                                                         *)
(* A callback of the owner travels: from the agenda or the deferred inputs *)
(* to the links, back through their callbacks, into the async.each, the    *)
(* lists of tokens or those that expired.  Chain, Waiting and Out count    *)
(* where it is, and the invariant says that it is in one place until it is *)
(* called.                                                                 *)
(***************************************************************************)
EXTENDS Cbs, CountingLemmas

LinkNames == {"sender", "receiver"}
LinkStates == {"detached", "attaching", "attached", "detaching"}
Requests == {"attach", "detach", "forceDetach", "putToken"}
Moves == {"attach", "detach", "enter", "toAttached", "toDetached", "failQueued"}
\* Items of the agent that carry no callback which is yet to be called.
Others == {"answered", "replay", "putQueued", "failKey"}

LinkInputs == {"attach", "detach", "forceDetach", "open", "close", "accept", "toDetached",
               "replay", "failSends", "emitError", "send"}
Dos == Requests \cup Moves \cup Others \cup LinkInputs \cup {"call"}

Callbacks == [fn : {"-", "owner", "sender", "receiver", "each", "auto"}, id : Nat]
Inputs == [at : {"cbs", "sender", "receiver", "callback"}, do : Dos, cb : Callbacks,
           err : BOOLEAN, about : Nat]

OfAgent == {x \in Inputs : /\ x.at = "cbs"
                           /\ x.do \in Requests \cup Moves \cup Others
                           /\ x.do = "putToken" => x.cb.id \in Ids}
OfOwner == {x \in OfAgent : x.do \in Requests}
OfLink == {x \in Inputs : x.at \in LinkNames}
OfLinks == OfLink \cup {x \in Inputs : x.at = "callback"}
Items == OfAgent \cup OfLinks

Links == [kind : LinkNames, state : LinkStates, attaching : Callbacks, detaching : Callbacks,
          err : BOOLEAN, closed : BOOLEAN, undisposed : SUBSET Nat, deferred : Seq(OfLink)]

Timers == [known : BOOLEAN, strays : Nat, doubled : BOOLEAN]

CallRecords == [kind : Requests, answer : {"none", "ok", "err", "dropped"}, put : BOOLEAN,
                answered : Nat]

\* A callback that the links, or the items, carry for the call i.
Carries(cb, i) == cb.fn \in LinkNames /\ cb.id = i

\* The items with the callback of a call that attaches or detaches, those with that of
\* a token to put, and those that say the service has accepted it.
C(i) == {x \in Items : \/ x.at = "cbs" /\ x.do \in Moves /\ x.cb.id = i
                       \/ x.at # "cbs" /\ Carries(x.cb, i)}
T(i) == {x \in Items : x.at = "cbs" /\ x.do = "putToken" /\ x.cb.id = i}
A(i) == {x \in Items : x.at = "cbs" /\ x.do = "answered" /\ x.cb.id = i /\ ~x.err}

One(b) == IF b THEN 1 ELSE 0

\* The callbacks of the call i that a link keeps, and those in what a handler has done.
Holds(l, i) == One(Carries(l.attaching, i)) + One(Carries(l.detaching, i))
                 + Count(l.deferred, C(i))
Gives(d, i) == Holds(d.link, i) + Count(d.now, C(i)) + Count(d.next, C(i))
WellDone(d) == /\ d.link \in Links /\ d.now \in Seq(OfLinks) /\ d.next \in Seq(OfLinks)
               /\ d.throws \in BOOLEAN

\* The places of the callback of the call i.
Elsewhere(i) == Count(deferred, C(i)) + One(each.left > 0 /\ each.id = i)
                  + Holds(links["sender"], i) + Holds(links["receiver"], i)
Chain(i) == Count(agenda, C(i)) + Elsewhere(i)
Later(i) == Count(deferred, T(i)) + Count(notYetSent, {i})
Waiting(i) == Count(agenda, T(i)) + Later(i)
Out(i) == Count(outstanding, {i}) + Count(expired, {i})
ToldOf(i) == IF i \in DOMAIN calls THEN calls[i].answered ELSE 0

-----------------------------------------------------------------------------
(* The invariant.                                                          *)

Typed ==
  /\ state \in LinkStates /\ deferred \in Seq(OfOwner)
  /\ each \in [gen : Nat, left : 0..2, id : Nat, err : BOOLEAN]
  /\ links \in [LinkNames -> Links]
  /\ unsent \in Seq(Ids) /\ pending \in SUBSET Ids
  /\ notYetSent \in Seq(Ids) /\ outstanding \in Seq(Ids) /\ expired \in Seq(Ids)
  /\ timer \in Timers /\ examining \in BOOLEAN /\ agenda \in Seq(Items)
  /\ calls \in Seq(CallRecords) /\ Len(calls) <= MaxCalls
  /\ events \in Nat /\ events <= MaxEvents

\* The callback of a call is in one place at most, and in none once it is called.
Accounted ==
  \A i \in Ids : /\ Chain(i) + Waiting(i) + Out(i) + ToldOf(i) <= One(i \in DOMAIN calls)
                 /\ i \in DOMAIN calls /\ calls[i].kind = "putToken" => Chain(i) = 0

\* A token that was put waits no more; one that is taken for accepted is, or was
\* never put; and what was handed to the sender was put.
Granted ==
  /\ \A i \in DOMAIN calls :
       /\ calls[i].put => Waiting(i) = 0
       /\ calls[i].answer = "ok" => /\ calls[i].answered > 0
                                    /\ calls[i].kind = "putToken" => i \in granted \/ ~calls[i].put
  /\ \A i \in Ids : Has(agenda, A(i)) => i \in granted
  /\ \A i \in ToSet(unsent) \cup pending : i \in DOMAIN calls /\ calls[i].put
  /\ ToSet(unsent) \cap pending = {}

\* The agent knows of a timer while a token is outstanding, or is about to look at the
\* tokens, but if it detached with one; and of one for none, unless there were two.
Watched ==
  /\ left = {} => (outstanding # <<>> => timer.known \/ examining)
  /\ ~timer.doubled => timer.strays = 0 /\ (timer.known => outstanding # <<>>)

IInv == Typed /\ Accounted /\ Granted /\ Watched
-----------------------------------------------------------------------------
(* The links.                                                              *)

\* A number that says whether.
LEMMA OneFacts ==
  /\ \A b : One(b) \in {0, 1}
  /\ \A b \in BOOLEAN : (b <=> One(b) = 1) /\ (~b <=> One(b) = 0)
BY DEF One

\* What a link and a handler keep of a call is a number.
LEMMA HoldsNat ==
  ASSUME NEW i \in Ids
  PROVE  /\ \A l \in Links : Count(l.deferred, C(i)) \in Nat /\ Holds(l, i) \in Nat
         /\ \A s \in Seq(OfLinks) : Count(s, C(i)) \in Nat
<1>1. ASSUME NEW l \in Links
      PROVE  Count(l.deferred, C(i)) \in Nat
  <2>1. l.deferred \in Seq(OfLink)
    BY DEF Links
  <2>2. QED
    BY <2>1, CountNat
<1>2. ASSUME NEW l \in Links
      PROVE  Holds(l, i) \in Nat
  <2>1. /\ One(Carries(l.attaching, i)) \in Nat /\ One(Carries(l.detaching, i)) \in Nat
    BY OneFacts
  <2>2. QED
    BY <1>1, <2>1 DEF Holds
<1>3. \A s \in Seq(OfLinks) : Count(s, C(i)) \in Nat
  BY CountNat
<1>4. QED
  BY <1>1, <1>2, <1>3

\* An input of a link, or a callback that is called, counts with its callback.
LEMMA InputFacts ==
  ASSUME NEW at \in LinkNames \cup {"callback"}, NEW do \in Dos, NEW cb \in Callbacks,
         NEW err \in BOOLEAN, NEW i \in Ids
  PROVE  /\ Input(at, do, cb, err) \in OfLinks
         /\ at \in LinkNames => Input(at, do, cb, err) \in OfLink
         /\ Input(at, do, cb, err) \in C(i) <=> Carries(cb, i)
<1>1. Input(at, do, cb, err) \in Inputs
  BY DEF Input, Inputs, LinkNames
<1>2. /\ Input(at, do, cb, err).at = at /\ Input(at, do, cb, err).cb = cb
      /\ at # "cbs"
  BY DEF Input, LinkNames
<1>3. QED
  BY <1>1, <1>2 DEF OfLinks, OfLink, C, Items

\* NoCallback is a callback that carries no call.
LEMMA NoCallbackFacts ==
  ASSUME NEW i \in Ids
  PROVE  NoCallback \in Callbacks /\ ~Carries(NoCallback, i)
<1>1. NoCallback = [fn |-> "-", id |-> 0]
  BY DEF NoCallback, Callback
<1>2. NoCallback \in Callbacks
  BY <1>1 DEF Callbacks
<1>3. "-" \notin LinkNames
  BY DEF LinkNames
<1>4. QED
  BY <1>1, <1>2, <1>3 DEF Carries

\* A sequence of one item.
LEMMA SingleFacts ==
  ASSUME NEW U, NEW x \in U, NEW S
  PROVE  <<x>> \in Seq(U) /\ Count(<<x>>, S) = One(x \in S)
BY CountOne DEF One

\* A callback that is called, unless there is none.
LEMMA CallOfFacts ==
  ASSUME NEW cb \in Callbacks, NEW err \in BOOLEAN, NEW i \in Ids
  PROVE  CallOf(cb, err) \in Seq(OfLinks) /\ Count(CallOf(cb, err), C(i)) = One(Carries(cb, i))
<1>1. CASE cb = NoCallback
  <2>1. CallOf(cb, err) = <<>> /\ ~Carries(cb, i)
    BY <1>1, NoCallbackFacts DEF CallOf
  <2>2. QED
    BY <2>1, CountEmpty DEF One
<1>2. CASE cb # NoCallback
  <2>1. CallOf(cb, err) = <<Input("callback", "call", cb, err)>>
    BY <1>2 DEF CallOf
  <2> "call" \in Dos
    BY DEF Dos
  <2>2. /\ Input("callback", "call", cb, err) \in OfLinks
        /\ Input("callback", "call", cb, err) \in C(i) <=> Carries(cb, i)
    BY InputFacts
  <2>3. One(Input("callback", "call", cb, err) \in C(i)) = One(Carries(cb, i))
    BY <2>2 DEF One
  <2>4. QED
    BY <2>1, <2>2, <2>3, SingleFacts
<1>3. QED
  BY <1>1, <1>2

\* What has been called, one part after the other.
LEMMA JoinFacts ==
  ASSUME NEW s \in Seq(OfLinks), NEW t \in Seq(OfLinks), NEW i \in Ids
  PROVE  s \o t \in Seq(OfLinks) /\ Count(s \o t, C(i)) = Count(s, C(i)) + Count(t, C(i))
BY CountConcat

\* _safeCallback.
LEMMA ToldFacts ==
  ASSUME NEW l \in Links, NEW cb \in Callbacks, NEW err \in BOOLEAN, NEW i \in Ids
  PROVE  /\ WellDone(Told(l, cb, err)) /\ Told(l, cb, err).link = l
         /\ Gives(Told(l, cb, err), i) = Holds(l, i) + One(Carries(cb, i))
         /\ Count(Told(l, cb, err).now, C(i)) + Count(Told(l, cb, err).next, C(i))
              = One(Carries(cb, i))
<1> DEFINE n == CallOf(cb, err)
<1>1. n \in Seq(OfLinks) /\ Count(n, C(i)) = One(Carries(cb, i))
  BY CallOfFacts
<1>2. <<>> \in Seq(OfLinks) /\ Count(<<>>, C(i)) = 0
  BY CountEmpty
<1>3. One(Carries(cb, i)) \in Nat /\ Holds(l, i) \in Nat
  BY HoldsNat, OneFacts
<1>4. CASE l.kind = "receiver"
  <2>1. Told(l, cb, err) = [link |-> l, now |-> <<>>, next |-> n, throws |-> FALSE]
    BY <1>4 DEF Told, Done
  <2> HIDE DEF n
  <2>2. QED
    BY <1>1, <1>2, <1>3, <2>1 DEF Gives, WellDone
<1>5. CASE l.kind # "receiver"
  <2>1. Told(l, cb, err) = [link |-> l, now |-> n, next |-> <<>>, throws |-> FALSE]
    BY <1>5 DEF Told, Done
  <2> HIDE DEF n
  <2>2. QED
    BY <1>1, <1>2, <1>3, <2>1 DEF Gives, WellDone
<1>6. QED
  BY <1>4, <1>5

\* A link without its callbacks.
LEMMA ClearedFacts ==
  ASSUME NEW l \in Links, NEW i \in Ids,
         NEW k \in Links, k.deferred = l.deferred, k.attaching = NoCallback,
         k.detaching = NoCallback
  PROVE  Holds(k, i) = Count(l.deferred, C(i))
<1>1. One(Carries(NoCallback, i)) = 0
  BY NoCallbackFacts DEF One
<1>2. Count(l.deferred, C(i)) \in Nat
  BY HoldsNat
<1>3. QED
  BY <1>1, <1>2 DEF Holds

\* So is what a handler has done.
LEMMA GivesNat ==
  ASSUME NEW i \in Ids, NEW d, WellDone(d)
  PROVE  Gives(d, i) \in Nat
<1>1. d.link \in Links /\ d.now \in Seq(OfLinks) /\ d.next \in Seq(OfLinks)
  BY DEF WellDone
<1>2. /\ Holds(d.link, i) \in Nat /\ Count(d.now, C(i)) \in Nat /\ Count(d.next, C(i)) \in Nat
  BY <1>1, HoldsNat
<1>3. QED
  BY <1>2 DEF Gives

\* What a handler has done, by its parts.
LEMMA DoneFacts ==
  ASSUME NEW k \in Links, NEW s \in Seq(OfLinks), NEW t \in Seq(OfLinks), NEW i \in Ids
  PROVE  /\ WellDone(Done(k, s, t))
         /\ Gives(Done(k, s, t), i) = Holds(k, i) + Count(s, C(i)) + Count(t, C(i))
BY DEF Done, WellDone, Gives

\* _onEnter of detached: what the link keeps is called, or was called before.
LEMMA EnteredFacts ==
  ASSUME NEW l \in Links, NEW cb \in Callbacks, NEW err \in BOOLEAN, NEW i \in Ids
  PROVE  /\ WellDone(Entered(l, cb, err))
         /\ Gives(Entered(l, cb, err), i) = Count(l.deferred, C(i)) + One(Carries(cb, i))
<1> DEFINE k == [l EXCEPT !.state = "detached", !.attaching = NoCallback,
                          !.detaching = NoCallback, !.err = FALSE]
           t == Told(k, cb, err)
           a == <<Input(k.kind, "failSends", NoCallback, err)>>
           e == <<Input(k.kind, "emitError", NoCallback, TRUE)>>
           o == IF cb = NoCallback /\ err THEN e ELSE <<>>
           z == <<Input(k.kind, "replay", NoCallback, FALSE)>>
<1>0. NoCallback \in Callbacks /\ ~Carries(NoCallback, i)
  BY NoCallbackFacts
<1>1. /\ k \in Links /\ k.deferred = l.deferred /\ k.kind = l.kind
      /\ k.attaching = NoCallback /\ k.detaching = NoCallback /\ k.kind \in LinkNames
  BY <1>0 DEF Links, LinkStates
<1>2. Holds(k, i) = Count(l.deferred, C(i))
  <2> HIDE DEF k
  <2>1. QED
    BY <1>1, ClearedFacts
<1>3. Entered(l, cb, err) = Done(k, a \o t.now \o o \o z, t.next)
  <2>1. Entered(l, cb, err) =
          Done(k, <<Input(l.kind, "failSends", NoCallback, err)>> \o t.now
             \o (IF cb = NoCallback /\ err
                 THEN <<Input(l.kind, "emitError", NoCallback, TRUE)>> ELSE <<>>)
             \o <<Input(l.kind, "replay", NoCallback, FALSE)>>, t.next)
    BY Zenon DEF Entered
  <2> HIDE DEF k, t
  <2>2. QED
    BY <1>1, <2>1, Zenon
<1> HIDE DEF k
<1>4. /\ WellDone(t) /\ Count(t.now, C(i)) + Count(t.next, C(i)) = One(Carries(cb, i))
  BY <1>1, ToldFacts
<1>5. ASSUME NEW do \in {"failSends", "emitError", "replay"}, NEW b \in BOOLEAN
      PROVE  /\ <<Input(k.kind, do, NoCallback, b)>> \in Seq(OfLinks)
             /\ Count(<<Input(k.kind, do, NoCallback, b)>>, C(i)) = 0
  <2>0. do \in Dos
    BY DEF Dos, LinkInputs
  <2>1. /\ Input(k.kind, do, NoCallback, b) \in OfLinks
        /\ ~(Input(k.kind, do, NoCallback, b) \in C(i))
    BY <1>0, <1>1, <2>0, InputFacts
  <2>2. One(Input(k.kind, do, NoCallback, b) \in C(i)) = 0
    BY <2>1 DEF One
  <2>3. QED
    BY <2>1, <2>2, SingleFacts
<1>6. /\ a \in Seq(OfLinks) /\ Count(a, C(i)) = 0
      /\ e \in Seq(OfLinks) /\ Count(e, C(i)) = 0
      /\ z \in Seq(OfLinks) /\ Count(z, C(i)) = 0
  BY <1>5
<1>7. o \in Seq(OfLinks) /\ Count(o, C(i)) = 0
  <2> HIDE DEF e
  <2>1. <<>> \in Seq(OfLinks) /\ Count(<<>>, C(i)) = 0
    BY CountEmpty
  <2>2. CASE cb = NoCallback /\ err
    BY <1>6, <2>2
  <2>3. CASE ~(cb = NoCallback /\ err)
    <3>1. o = <<>>
      BY <2>3
    <3>2. QED
      BY <2>1, <3>1
  <2>4. QED
    BY <2>2, <2>3
<1> HIDE DEF t, a, e, o, z
<1>8. t.now \in Seq(OfLinks) /\ t.next \in Seq(OfLinks)
  BY <1>4 DEF WellDone
<1>9. /\ a \o t.now \in Seq(OfLinks)
      /\ Count(a \o t.now, C(i)) = Count(a, C(i)) + Count(t.now, C(i))
  BY <1>6, <1>8, JoinFacts
<1>10. /\ a \o t.now \o o \in Seq(OfLinks)
       /\ Count(a \o t.now \o o, C(i)) = Count(a \o t.now, C(i)) + Count(o, C(i))
  BY <1>7, <1>9, JoinFacts
<1>11. /\ a \o t.now \o o \o z \in Seq(OfLinks)
       /\ Count(a \o t.now \o o \o z, C(i)) = Count(a \o t.now \o o, C(i)) + Count(z, C(i))
  BY <1>6, <1>10, JoinFacts
<1>12. /\ Count(t.now, C(i)) \in Nat /\ Count(t.next, C(i)) \in Nat
       /\ Count(l.deferred, C(i)) \in Nat /\ One(Carries(cb, i)) \in Nat
  BY <1>8, HoldsNat, OneFacts
<1>13. Count(a \o t.now \o o \o z, C(i)) = Count(t.now, C(i))
  BY <1>6, <1>7, <1>9, <1>10, <1>11, <1>12
<1>14. /\ WellDone(Done(k, a \o t.now \o o \o z, t.next))
       /\ Gives(Done(k, a \o t.now \o o \o z, t.next), i)
            = Holds(k, i) + Count(a \o t.now \o o \o z, C(i)) + Count(t.next, C(i))
  BY <1>1, <1>8, <1>11, DoneFacts, ZenonT(60)
<1>15. QED
  BY <1>2, <1>3, <1>4, <1>12, <1>13, <1>14

\* The callbacks that are called before the transition to detached.
LEMMA CallThenDetachedFacts ==
  ASSUME NEW l \in Links, NEW s \in Seq(OfLinks), NEW cb \in Callbacks, NEW err \in BOOLEAN,
         NEW i \in Ids
  PROVE  /\ WellDone(CallThenDetached(l, s, cb, err))
         /\ Gives(CallThenDetached(l, s, cb, err), i)
              = Count(l.deferred, C(i)) + Count(s, C(i)) + One(Carries(cb, i))
<1> DEFINE k == [l EXCEPT !.attaching = NoCallback, !.detaching = NoCallback, !.err = FALSE]
           z == <<Input(l.kind, "toDetached", cb, err)>>
<1>1. /\ k \in Links /\ k.deferred = l.deferred
      /\ k.attaching = NoCallback /\ k.detaching = NoCallback /\ l.kind \in LinkNames
  BY NoCallbackFacts DEF Links
<1>2. CallThenDetached(l, s, cb, err) = Done(k, s \o z, <<>>)
  BY Zenon DEF CallThenDetached
<1> HIDE DEF k
<1>3. Holds(k, i) = Count(l.deferred, C(i))
  BY <1>1, ClearedFacts
<1>4. z \in Seq(OfLinks) /\ Count(z, C(i)) = One(Carries(cb, i))
  <2>0. "toDetached" \in Dos
    BY DEF Dos, LinkInputs
  <2>1. /\ Input(l.kind, "toDetached", cb, err) \in OfLinks
        /\ Input(l.kind, "toDetached", cb, err) \in C(i) <=> Carries(cb, i)
    BY <1>1, <2>0, InputFacts
  <2>2. One(Input(l.kind, "toDetached", cb, err) \in C(i)) = One(Carries(cb, i))
    BY <2>1 DEF One
  <2>3. QED
    BY <2>1, <2>2, SingleFacts
<1> HIDE DEF z
<1>5. s \o z \in Seq(OfLinks) /\ Count(s \o z, C(i)) = Count(s, C(i)) + Count(z, C(i))
  BY <1>4, JoinFacts
<1>6. <<>> \in Seq(OfLinks) /\ Count(<<>>, C(i)) = 0
  BY CountEmpty
<1>7. /\ WellDone(Done(k, s \o z, <<>>))
      /\ Gives(Done(k, s \o z, <<>>), i) = Holds(k, i) + Count(s \o z, C(i)) + Count(<<>>, C(i))
  BY <1>1, <1>5, <1>6, DoneFacts
<1>8. Count(l.deferred, C(i)) \in Nat /\ Count(s, C(i)) \in Nat /\ One(Carries(cb, i)) \in Nat
  BY HoldsNat, OneFacts
<1>9. QED
  BY <1>2, <1>3, <1>4, <1>5, <1>6, <1>7, <1>8

\* attaching._onEnter.
LEMMA AttachFacts ==
  ASSUME NEW l \in Links, NEW cb \in Callbacks, NEW i \in Ids
  PROVE  /\ WellDone(Attach(l, cb))
         /\ Gives(Attach(l, cb), i) <= Holds(l, i) + One(Carries(cb, i))
<1> DEFINE k == [l EXCEPT !.state = "attaching", !.attaching = cb, !.err = FALSE,
                          !.closed = FALSE]
<1>1. /\ k \in Links /\ k.deferred = l.deferred /\ k.attaching = cb /\ k.detaching = l.detaching
  BY DEF Links, LinkStates
<1>2. Attach(l, cb) = Done(k, <<>>, <<>>)
  BY Zenon DEF Attach
<1> HIDE DEF k
<1>3. <<>> \in Seq(OfLinks) /\ Count(<<>>, C(i)) = 0
  BY CountEmpty
<1>4. /\ WellDone(Done(k, <<>>, <<>>))
      /\ Gives(Done(k, <<>>, <<>>), i) = Holds(k, i) + Count(<<>>, C(i)) + Count(<<>>, C(i))
  BY <1>1, <1>3, DoneFacts
<1>5. /\ Count(l.deferred, C(i)) \in Nat /\ One(Carries(cb, i)) \in {0, 1}
      /\ One(Carries(l.attaching, i)) \in {0, 1} /\ One(Carries(l.detaching, i)) \in {0, 1}
  BY HoldsNat, OneFacts
<1>6. QED
  BY <1>1, <1>2, <1>3, <1>4, <1>5 DEF Holds

\* detaching._onEnter.
LEMMA DetachFacts ==
  ASSUME NEW l \in Links, NEW cb \in Callbacks, NEW err \in BOOLEAN, NEW i \in Ids
  PROVE  /\ WellDone(Detach(l, cb, err))
         /\ Gives(Detach(l, cb, err), i) <= Holds(l, i) + One(Carries(cb, i))
<1>1. /\ Count(l.deferred, C(i)) \in Nat /\ One(Carries(cb, i)) \in {0, 1}
      /\ One(Carries(l.attaching, i)) \in {0, 1} /\ One(Carries(l.detaching, i)) \in {0, 1}
  BY HoldsNat, OneFacts
<1>2. CASE l.closed
  <2>1. Detach(l, cb, err) = Entered(l, cb, err)
    BY <1>2 DEF Detach
  <2>2. /\ WellDone(Entered(l, cb, err))
        /\ Gives(Entered(l, cb, err), i) = Count(l.deferred, C(i)) + One(Carries(cb, i))
    BY EnteredFacts
  <2>3. QED
    BY <1>1, <2>1, <2>2 DEF Holds
<1>3. CASE ~l.closed
  <2> DEFINE k == [l EXCEPT !.state = "detaching", !.detaching = cb, !.err = err]
  <2>1. /\ k \in Links /\ k.deferred = l.deferred /\ k.attaching = l.attaching
        /\ k.detaching = cb
    BY DEF Links, LinkStates
  <2>2. Detach(l, cb, err) = Done(k, <<>>, <<>>)
    BY <1>3, Zenon DEF Detach
  <2> HIDE DEF k
  <2>3. <<>> \in Seq(OfLinks) /\ Count(<<>>, C(i)) = 0
    BY CountEmpty
  <2>4. /\ WellDone(Done(k, <<>>, <<>>))
        /\ Gives(Done(k, <<>>, <<>>), i) = Holds(k, i) + Count(<<>>, C(i)) + Count(<<>>, C(i))
    BY <2>1, <2>3, DoneFacts
  <2>5. QED
    BY <1>1, <2>1, <2>2, <2>3, <2>4 DEF Holds
<1>4. QED
  BY <1>2, <1>3

\* What a handler has done has no callback that the link or its input had not.
Linear(d, l, x, i) == WellDone(d) /\ Gives(d, i) <= Holds(l, i) + One(x \in C(i))

\* An input of a link.
LEMMA OfLinkFacts ==
  ASSUME NEW x \in OfLink, NEW i \in Ids
  PROVE  /\ x.cb \in Callbacks /\ x.err \in BOOLEAN /\ x.at \in LinkNames /\ x \in Inputs
         /\ x \in C(i) <=> Carries(x.cb, i)
         /\ One(x \in C(i)) = One(Carries(x.cb, i))
<1>1. x.cb \in Callbacks /\ x.err \in BOOLEAN /\ x.at \in LinkNames /\ x \in Inputs
  BY DEF OfLink, Inputs
<1>2. x.at # "cbs"
  BY <1>1 DEF LinkNames
<1>3. x \in C(i) <=> Carries(x.cb, i)
  BY <1>2 DEF C, Items, OfLinks
<1>4. QED
  BY <1>1, <1>3 DEF One

\* A handler that changes nothing the link keeps.
LEMMA SameFacts ==
  ASSUME NEW l \in Links, NEW x \in OfLink, NEW i \in Ids,
         NEW k \in Links, Holds(k, i) = Holds(l, i)
  PROVE  Linear(Done(k, <<>>, <<>>), l, x, i)
<1>1. <<>> \in Seq(OfLinks) /\ Count(<<>>, C(i)) = 0
  BY CountEmpty
<1>2. /\ WellDone(Done(k, <<>>, <<>>))
      /\ Gives(Done(k, <<>>, <<>>), i) = Holds(k, i) + Count(<<>>, C(i)) + Count(<<>>, C(i))
  BY <1>1, DoneFacts
<1>3. Holds(l, i) \in Nat /\ One(x \in C(i)) \in {0, 1}
  BY HoldsNat, OneFacts
<1>4. QED
  BY <1>1, <1>2, <1>3 DEF Linear

\* A handler that puts its input off.
LEMMA PutOffFacts ==
  ASSUME NEW l \in Links, NEW x \in OfLink, NEW i \in Ids
  PROVE  Linear(Done([l EXCEPT !.deferred = Append(@, x)], <<>>, <<>>), l, x, i)
<1> DEFINE k == [l EXCEPT !.deferred = Append(@, x)]
<1>1. l.deferred \in Seq(OfLink)
  BY DEF Links
<1>2. Append(l.deferred, x) \in Seq(OfLink)
  BY <1>1
<1>3. /\ k \in Links /\ k.deferred = Append(l.deferred, x)
      /\ k.attaching = l.attaching /\ k.detaching = l.detaching
  BY <1>2 DEF Links
<1> HIDE DEF k
<1>4. Count(k.deferred, C(i)) = Count(l.deferred, C(i)) + One(x \in C(i))
  <2>1. CASE x \in C(i)
    <3>1. Count(Append(l.deferred, x), C(i)) = Count(l.deferred, C(i)) + 1
      BY <1>1, <2>1, CountAppend
    <3>2. QED
      BY <1>3, <2>1, <3>1 DEF One
  <2>2. CASE x \notin C(i)
    <3>1. Count(Append(l.deferred, x), C(i)) = Count(l.deferred, C(i))
      BY <1>1, <2>2, CountAppend
    <3>2. Count(l.deferred, C(i)) \in Nat
      BY HoldsNat
    <3>3. QED
      BY <1>3, <2>2, <3>1, <3>2 DEF One
  <2>3. QED
    BY <2>1, <2>2
<1>5. /\ Count(l.deferred, C(i)) \in Nat /\ One(x \in C(i)) \in {0, 1}
      /\ One(Carries(l.attaching, i)) \in {0, 1} /\ One(Carries(l.detaching, i)) \in {0, 1}
  BY HoldsNat, OneFacts
<1>6. <<>> \in Seq(OfLinks) /\ Count(<<>>, C(i)) = 0
  BY CountEmpty
<1>7. /\ WellDone(Done(k, <<>>, <<>>))
      /\ Gives(Done(k, <<>>, <<>>), i) = Holds(k, i) + Count(<<>>, C(i)) + Count(<<>>, C(i))
  BY <1>3, <1>6, DoneFacts
<1>8. Holds(k, i) = Holds(l, i) + One(x \in C(i))
  BY <1>3, <1>4, <1>5 DEF Holds
<1>9. Holds(l, i) \in Nat
  BY HoldsNat
<1>10. Linear(Done(k, <<>>, <<>>), l, x, i)
  BY <1>5, <1>6, <1>7, <1>8, <1>9 DEF Linear
<1>11. QED
  BY <1>10 DEF k

\* accept.
LEMMA DisposeFacts ==
  ASSUME NEW l \in Links, NEW x \in OfLink, NEW i \in Ids
  PROVE  Linear(Dispose(l, x), l, x, i)
<1>1. /\ x.cb \in Callbacks /\ x.err \in BOOLEAN /\ One(x \in C(i)) = One(Carries(x.cb, i))
      /\ x.about \in Nat
  BY OfLinkFacts DEF OfLink, Inputs
<1>2. CASE l.state = "attached"
  <2> DEFINE k == [l EXCEPT !.undisposed = @ \ {x.about}]
             b == ~(x.about \in l.undisposed)
  <2>1. /\ k \in Links /\ k.deferred = l.deferred
        /\ k.attaching = l.attaching /\ k.detaching = l.detaching
    BY <1>1 DEF Links
  <2>2. Dispose(l, x) = Told(k, x.cb, b)
    BY <1>2, Zenon DEF Dispose
  <2>3. b \in BOOLEAN
    OBVIOUS
  <2> HIDE DEF k, b
  <2>4. /\ WellDone(Told(k, x.cb, b))
        /\ Gives(Told(k, x.cb, b), i) = Holds(k, i) + One(Carries(x.cb, i))
    BY <1>1, <2>1, <2>3, ToldFacts
  <2>5. Holds(k, i) = Holds(l, i)
    BY <2>1 DEF Holds
  <2>6. Holds(l, i) \in Nat /\ One(Carries(x.cb, i)) \in {0, 1}
    BY HoldsNat, OneFacts
  <2>7. QED
    BY <1>1, <2>2, <2>4, <2>5, <2>6 DEF Linear
<1>3. CASE l.state = "detaching"
  <2>1. Dispose(l, x) = Done([l EXCEPT !.deferred = Append(@, x)], <<>>, <<>>)
    BY <1>3, Zenon DEF Dispose
  <2>2. QED
    BY <2>1, PutOffFacts
<1>4. CASE l.state \notin {"attached", "detaching"}
  <2> DEFINE n == CallOf(x.cb, TRUE)
             d == Done(l, n, <<>>)
             b == (x.cb = NoCallback)
  <2>1. Dispose(l, x) = [d EXCEPT !.throws = b]
    BY <1>4, Zenon DEF Dispose
  <2>2. n \in Seq(OfLinks) /\ Count(n, C(i)) = One(Carries(x.cb, i))
    BY <1>1, CallOfFacts
  <2>3. <<>> \in Seq(OfLinks) /\ Count(<<>>, C(i)) = 0
    BY CountEmpty
  <2> HIDE DEF n
  <2>4. WellDone(d) /\ Gives(d, i) = Holds(l, i) + Count(n, C(i)) + Count(<<>>, C(i))
    BY <2>2, <2>3, DoneFacts
  <2>5. b \in BOOLEAN
    OBVIOUS
  <2> HIDE DEF b
  <2>6. /\ [d EXCEPT !.throws = b].link = d.link /\ [d EXCEPT !.throws = b].now = d.now
        /\ [d EXCEPT !.throws = b].next = d.next /\ [d EXCEPT !.throws = b].throws = b
    BY DEF Done
  <2> HIDE DEF d
  <2>7. WellDone([d EXCEPT !.throws = b]) /\ Gives([d EXCEPT !.throws = b], i) = Gives(d, i)
    BY <2>4, <2>5, <2>6 DEF WellDone, Gives
  <2>8. Holds(l, i) \in Nat /\ One(Carries(x.cb, i)) \in {0, 1}
    BY HoldsNat, OneFacts
  <2>9. QED
    BY <1>1, <2>1, <2>2, <2>3, <2>4, <2>7, <2>8 DEF Linear
<1>5. QED
  BY <1>2, <1>3, <1>4

\* A handler that calls its callback.
LEMMA TellFacts ==
  ASSUME NEW l \in Links, NEW x \in OfLink, NEW i \in Ids, NEW err \in BOOLEAN
  PROVE  Linear(Told(l, x.cb, err), l, x, i)
<1>1. x.cb \in Callbacks /\ One(x \in C(i)) = One(Carries(x.cb, i))
  BY OfLinkFacts
<1>2. Holds(l, i) \in Nat /\ One(Carries(x.cb, i)) \in {0, 1}
  BY HoldsNat, OneFacts
<1>3. /\ WellDone(Told(l, x.cb, err))
      /\ Gives(Told(l, x.cb, err), i) = Holds(l, i) + One(Carries(x.cb, i))
  BY <1>1, ToldFacts
<1>4. QED
  BY <1>1, <1>2, <1>3 DEF Linear

\* A link that is detached.
LEMMA LinkDetachedFacts ==
  ASSUME NEW l \in Links, NEW x \in OfLink, NEW i \in Ids
  PROVE  Linear(LinkDetached(l, x), l, x, i)
<1>1. /\ x.cb \in Callbacks /\ x.err \in BOOLEAN /\ One(x \in C(i)) = One(Carries(x.cb, i))
  BY OfLinkFacts
<1>2. Holds(l, i) \in Nat /\ One(Carries(x.cb, i)) \in {0, 1}
  BY HoldsNat, OneFacts
<1>3. CASE x.do = "attach"
  <2>1. LinkDetached(l, x) = Attach(l, x.cb)
    BY <1>3, Zenon DEF LinkDetached
  <2>2. QED
    BY <1>1, <2>1, AttachFacts DEF Linear
<1>4. CASE x.do = "detach"
  <2>1. LinkDetached(l, x) = Told(l, x.cb, x.err)
    BY <1>4, Zenon DEF LinkDetached
  <2>2. QED
    BY <1>1, <2>1, TellFacts
<1>5. CASE x.do = "replay"
  <2> DEFINE k == [l EXCEPT !.deferred = <<>>]
  <2>1. LinkDetached(l, x) = Done(k, l.deferred, <<>>)
    BY <1>5, Zenon DEF LinkDetached
  <2>2. /\ k \in Links /\ k.deferred = <<>> /\ l.deferred \in Seq(OfLinks)
        /\ k.attaching = l.attaching /\ k.detaching = l.detaching
    <3>1. <<>> \in Seq(OfLink) /\ l.deferred \in Seq(OfLink)
      BY DEF Links
    <3>2. l.deferred \in Seq(OfLinks)
      BY <3>1, SeqWiden DEF OfLinks
    <3>3. QED
      BY <3>1, <3>2 DEF Links
  <2> HIDE DEF k
  <2>3. <<>> \in Seq(OfLinks) /\ Count(<<>>, C(i)) = 0
    BY CountEmpty
  <2>4. /\ WellDone(Done(k, l.deferred, <<>>))
        /\ Gives(Done(k, l.deferred, <<>>), i)
             = Holds(k, i) + Count(l.deferred, C(i)) + Count(<<>>, C(i))
    BY <2>2, <2>3, DoneFacts
  <2>5. /\ Count(l.deferred, C(i)) \in Nat
        /\ One(Carries(l.attaching, i)) \in {0, 1} /\ One(Carries(l.detaching, i)) \in {0, 1}
    BY HoldsNat, OneFacts
  <2>6. Holds(k, i) + Count(l.deferred, C(i)) = Holds(l, i)
    BY <2>2, <2>3, <2>5 DEF Holds
  <2>7. Gives(Done(k, l.deferred, <<>>), i) = Holds(l, i)
    BY <1>2, <2>3, <2>4, <2>6
  <2>8. QED
    BY <1>1, <1>2, <2>1, <2>4, <2>7 DEF Linear
<1>6. CASE x.do \notin {"attach", "detach", "replay"}
  <2>1. LinkDetached(l, x) = Done(l, <<>>, <<>>)
    BY <1>6, Zenon DEF LinkDetached
  <2>2. QED
    BY <2>1, SameFacts
<1>7. QED
  BY <1>3, <1>4, <1>5, <1>6

\* A handler that throws has done what it had.
LEMMA ThrowsFacts ==
  ASSUME NEW k, NEW s, NEW t, NEW b \in BOOLEAN, NEW i \in Ids, WellDone(Done(k, s, t))
  PROVE  /\ WellDone([Done(k, s, t) EXCEPT !.throws = b])
         /\ Gives([Done(k, s, t) EXCEPT !.throws = b], i) = Gives(Done(k, s, t), i)
<1>1. [Done(k, s, t) EXCEPT !.throws = b] = [link |-> k, now |-> s, next |-> t, throws |-> b]
  BY DEF Done
<1>2. Done(k, s, t) = [link |-> k, now |-> s, next |-> t, throws |-> FALSE]
  BY DEF Done
<1>3. QED
  BY <1>1, <1>2 DEF WellDone, Gives

\* A forced detach calls one of the callbacks the link has, and forgets both.
LEMMA CallOneFacts ==
  ASSUME NEW l \in Links, NEW x \in OfLink, NEW i \in Ids,
         NEW cb \in Callbacks, cb \in {l.attaching, l.detaching},
         NEW own \in Callbacks, One(Carries(own, i)) <= One(x \in C(i)),
         NEW err \in BOOLEAN, NEW e \in BOOLEAN
  PROVE  Linear(CallThenDetached(l, CallOf(cb, err), own, e), l, x, i)
<1> DEFINE n == CallOf(cb, err)
<1>1. n \in Seq(OfLinks) /\ Count(n, C(i)) = One(Carries(cb, i))
  BY CallOfFacts
<1> HIDE DEF n
<1>2. /\ WellDone(CallThenDetached(l, n, own, e))
      /\ Gives(CallThenDetached(l, n, own, e), i)
           = Count(l.deferred, C(i)) + Count(n, C(i)) + One(Carries(own, i))
  BY <1>1, CallThenDetachedFacts
<1>3. /\ Count(l.deferred, C(i)) \in Nat /\ One(Carries(own, i)) \in {0, 1}
      /\ One(x \in C(i)) \in {0, 1} /\ One(Carries(cb, i)) \in {0, 1}
      /\ One(Carries(l.attaching, i)) \in {0, 1} /\ One(Carries(l.detaching, i)) \in {0, 1}
  BY HoldsNat, OneFacts
<1>4. One(Carries(cb, i)) <= One(Carries(l.attaching, i)) + One(Carries(l.detaching, i))
  <2>1. One(Carries(cb, i)) \in {One(Carries(l.attaching, i)), One(Carries(l.detaching, i))}
    OBVIOUS
  <2>2. QED
    BY <1>3, <2>1
<1>5. Gives(CallThenDetached(l, n, own, e), i) <= Holds(l, i) + One(x \in C(i))
  BY <1>1, <1>2, <1>3, <1>4 DEF Holds
<1>6. Linear(CallThenDetached(l, n, own, e), l, x, i)
  BY <1>2, <1>5 DEF Linear
<1>7. QED
  BY <1>6 DEF n

\* The same, if it throws.
LEMMA CallOneThrowsFacts ==
  ASSUME NEW l \in Links, NEW x \in OfLink, NEW i \in Ids, NEW b \in BOOLEAN,
         NEW s, NEW cb, NEW e, Linear(CallThenDetached(l, s, cb, e), l, x, i)
  PROVE  Linear([CallThenDetached(l, s, cb, e) EXCEPT !.throws = b], l, x, i)
<1> DEFINE k == [l EXCEPT !.attaching = NoCallback, !.detaching = NoCallback, !.err = FALSE]
           n == s \o <<Input(l.kind, "toDetached", cb, e)>>
<1>1. CallThenDetached(l, s, cb, e) = Done(k, n, <<>>)
  BY Zenon DEF CallThenDetached
<1> HIDE DEF k, n
<1>2. WellDone(Done(k, n, <<>>))
  BY <1>1 DEF Linear
<1>3. /\ WellDone([Done(k, n, <<>>) EXCEPT !.throws = b])
      /\ Gives([Done(k, n, <<>>) EXCEPT !.throws = b], i) = Gives(Done(k, n, <<>>), i)
  BY <1>2, ThrowsFacts
<1>4. QED
  BY <1>1, <1>3, Zenon DEF Linear

\* detached._onEnter with the callback the link has.
LEMMA EnteredOwnFacts ==
  ASSUME NEW l \in Links, NEW x \in OfLink, NEW i \in Ids, NEW k \in Links,
         k.deferred = l.deferred, NEW cb \in Callbacks,
         One(Carries(cb, i)) <= One(Carries(l.attaching, i)) + One(Carries(l.detaching, i))
                                  + One(x \in C(i)),
         NEW err \in BOOLEAN
  PROVE  Linear(Entered(k, cb, err), l, x, i)
<1>1. /\ WellDone(Entered(k, cb, err))
      /\ Gives(Entered(k, cb, err), i) = Count(k.deferred, C(i)) + One(Carries(cb, i))
  BY EnteredFacts
<1>2. /\ Count(l.deferred, C(i)) \in Nat /\ One(x \in C(i)) \in {0, 1}
      /\ One(Carries(cb, i)) \in {0, 1}
      /\ One(Carries(l.attaching, i)) \in {0, 1} /\ One(Carries(l.detaching, i)) \in {0, 1}
  BY HoldsNat, OneFacts
<1>3. Gives(Entered(k, cb, err), i) <= Holds(l, i) + One(x \in C(i))
  BY <1>1, <1>2 DEF Holds
<1>4. QED
  BY <1>1, <1>3 DEF Linear

\* A link that is attaching.
LEMMA LinkAttachingFacts ==
  ASSUME NEW l \in Links, NEW x \in OfLink, NEW i \in Ids
  PROVE  Linear(LinkAttaching(l, x), l, x, i)
<1>1. /\ x.cb \in Callbacks /\ x.err \in BOOLEAN /\ One(x \in C(i)) = One(Carries(x.cb, i))
      /\ l.attaching \in Callbacks /\ l.detaching \in Callbacks /\ l.kind \in LinkNames
  BY OfLinkFacts DEF Links
<1>2. /\ One(x \in C(i)) \in {0, 1} /\ Count(l.deferred, C(i)) \in Nat
      /\ One(Carries(l.attaching, i)) \in {0, 1} /\ One(Carries(l.detaching, i)) \in {0, 1}
  BY HoldsNat, OneFacts
<1>3. NoCallback \in Callbacks /\ One(Carries(NoCallback, i)) = 0
  BY NoCallbackFacts DEF One
<1>4. CASE x.do = "open"
  <2> DEFINE k == [l EXCEPT !.state = "attached", !.attaching = NoCallback]
             n == CallOf(l.attaching, FALSE)
  <2>1. LinkAttaching(l, x) = Done(k, n, <<>>)
    BY <1>4, Zenon DEF LinkAttaching
  <2>2. /\ k \in Links /\ k.deferred = l.deferred
        /\ k.attaching = NoCallback /\ k.detaching = l.detaching
    BY <1>3 DEF Links, LinkStates
  <2>3. n \in Seq(OfLinks) /\ Count(n, C(i)) = One(Carries(l.attaching, i))
    BY <1>1, CallOfFacts
  <2> HIDE DEF k, n
  <2>4. <<>> \in Seq(OfLinks) /\ Count(<<>>, C(i)) = 0
    BY CountEmpty
  <2>5. /\ WellDone(Done(k, n, <<>>))
        /\ Gives(Done(k, n, <<>>), i) = Holds(k, i) + Count(n, C(i)) + Count(<<>>, C(i))
    BY <2>2, <2>3, <2>4, DoneFacts
  <2>6. Holds(k, i) + Count(n, C(i)) = Holds(l, i)
    BY <1>2, <1>3, <2>2, <2>3 DEF Holds
  <2>7. Holds(l, i) \in Nat /\ Holds(k, i) \in Nat /\ Count(n, C(i)) \in Nat
    BY <2>2, <2>3, HoldsNat
  <2>8. Gives(Done(k, n, <<>>), i) <= Holds(l, i) + One(x \in C(i))
    BY <1>2, <2>4, <2>5, <2>6, <2>7
  <2>9. QED
    BY <2>1, <2>5, <2>8 DEF Linear
<1>5. CASE x.do = "close"
  <2> DEFINE k == [l EXCEPT !.closed = TRUE]
  <2>1. LinkAttaching(l, x) = Entered(k, l.attaching, x.err)
    BY <1>5, Zenon DEF LinkAttaching
  <2>2. k \in Links /\ k.deferred = l.deferred
    BY DEF Links
  <2> HIDE DEF k
  <2>3. One(Carries(l.attaching, i)) <= One(Carries(l.attaching, i))
          + One(Carries(l.detaching, i)) + One(x \in C(i))
    BY <1>2
  <2>4. QED
    BY <1>1, <2>1, <2>2, <2>3, EnteredOwnFacts
<1>6. CASE x.do = "detach"
  <2>1. LinkAttaching(l, x) = CallThenDetached(l, CallOf(l.attaching, TRUE), x.cb, TRUE)
    BY <1>6, Zenon DEF LinkAttaching
  <2>2. One(Carries(x.cb, i)) <= One(x \in C(i))
    BY <1>1, <1>2
  <2>3. QED
    BY <1>1, <2>1, <2>2, CallOneFacts
<1>7. CASE x.do = "forceDetach"
  <2> DEFINE b == (l.attaching = NoCallback)
  <2>1. LinkAttaching(l, x)
          = [CallThenDetached(l, CallOf(l.attaching, x.err), NoCallback, x.err)
               EXCEPT !.throws = b]
    BY <1>7, Zenon DEF LinkAttaching
  <2>2. One(Carries(NoCallback, i)) <= One(x \in C(i))
    BY <1>2, <1>3
  <2>3. Linear(CallThenDetached(l, CallOf(l.attaching, x.err), NoCallback, x.err), l, x, i)
    BY <1>1, <1>3, <2>2, CallOneFacts
  <2>4. b \in BOOLEAN
    OBVIOUS
  <2> HIDE DEF b
  <2>5. QED
    BY <2>1, <2>3, <2>4, CallOneThrowsFacts
<1>8. CASE x.do \notin {"open", "close", "detach", "forceDetach"}
  <2>1. LinkAttaching(l, x) = Done(l, <<>>, <<>>)
    BY <1>8, Zenon DEF LinkAttaching
  <2>2. QED
    BY <2>1, SameFacts
<1>9. QED
  BY <1>4, <1>5, <1>6, <1>7, <1>8

\* A link that is attached.
LEMMA LinkAttachedFacts ==
  ASSUME NEW l \in Links, NEW x \in OfLink, NEW i \in Ids
  PROVE  Linear(LinkAttached(l, x), l, x, i)
<1>1. /\ x.cb \in Callbacks /\ x.err \in BOOLEAN /\ One(x \in C(i)) = One(Carries(x.cb, i))
      /\ l.attaching \in Callbacks /\ l.detaching \in Callbacks /\ l.kind \in LinkNames
  BY OfLinkFacts DEF Links
<1>2. /\ One(x \in C(i)) \in {0, 1} /\ Count(l.deferred, C(i)) \in Nat
      /\ One(Carries(l.attaching, i)) \in {0, 1} /\ One(Carries(l.detaching, i)) \in {0, 1}
      /\ Holds(l, i) \in Nat
  BY HoldsNat, OneFacts
<1>3. NoCallback \in Callbacks /\ One(Carries(NoCallback, i)) = 0
  BY NoCallbackFacts DEF One
<1>4. CASE x.do = "close"
  <2> DEFINE k == [l EXCEPT !.closed = TRUE]
  <2>1. /\ k \in Links /\ k.deferred = l.deferred /\ k.attaching = l.attaching
        /\ k.detaching = l.detaching
    BY DEF Links
  <2>2. LinkAttached(l, x) = IF x.err \/ l.kind = "sender" THEN Done(k, <<>>, <<>>)
                             ELSE Detach(k, NoCallback, FALSE)
    BY <1>4, Zenon DEF LinkAttached
  <2> HIDE DEF k
  <2>3. Holds(k, i) = Holds(l, i)
    BY <2>1 DEF Holds
  <2>4. Linear(Done(k, <<>>, <<>>), l, x, i)
    BY <2>1, <2>3, SameFacts
  <2>5. /\ WellDone(Detach(k, NoCallback, FALSE))
        /\ Gives(Detach(k, NoCallback, FALSE), i) <= Holds(k, i) + One(Carries(NoCallback, i))
    BY <1>3, <2>1, DetachFacts
  <2>6. Gives(Detach(k, NoCallback, FALSE), i) \in Nat
    BY <2>5, GivesNat
  <2>7. Gives(Detach(k, NoCallback, FALSE), i) <= Holds(l, i) + One(x \in C(i))
    <3>1. ASSUME NEW g \in Nat, NEW h \in Nat, NEW o \in {0, 1}, g <= h + 0
          PROVE  g <= h + o
      BY <3>1
    <3>2. Gives(Detach(k, NoCallback, FALSE), i) <= Holds(l, i) + 0
      BY <1>3, <2>3, <2>5
    <3>3. QED
      BY <1>2, <2>6, <3>1, <3>2, Zenon
  <2>8. QED
    BY <2>2, <2>4, <2>5, <2>7 DEF Linear
<1>5. CASE x.do = "attach"
  <2>1. LinkAttached(l, x) = Told(l, x.cb, FALSE)
    BY <1>5, Zenon DEF LinkAttached
  <2>2. QED
    BY <1>1, <2>1, TellFacts
<1>6. CASE x.do = "detach"
  <2>1. LinkAttached(l, x) = Detach(l, x.cb, x.err)
    BY <1>6, Zenon DEF LinkAttached
  <2>2. QED
    BY <1>1, <2>1, DetachFacts DEF Linear
<1>7. CASE x.do = "forceDetach"
  <2>1. LinkAttached(l, x) = Entered(l, NoCallback, x.err)
    BY <1>7, Zenon DEF LinkAttached
  <2>2. One(Carries(NoCallback, i)) <= One(Carries(l.attaching, i))
          + One(Carries(l.detaching, i)) + One(x \in C(i))
    BY <1>2, <1>3
  <2>3. QED
    BY <1>1, <1>3, <2>1, <2>2, EnteredOwnFacts
<1>8. CASE x.do \notin {"close", "attach", "detach", "forceDetach"}
  <2>1. LinkAttached(l, x) = Done(l, <<>>, <<>>)
    BY <1>8, Zenon DEF LinkAttached
  <2>2. QED
    BY <2>1, SameFacts
<1>9. QED
  BY <1>4, <1>5, <1>6, <1>7, <1>8

\* A link that is detaching.
LEMMA LinkDetachingFacts ==
  ASSUME NEW l \in Links, NEW x \in OfLink, NEW i \in Ids
  PROVE  Linear(LinkDetaching(l, x), l, x, i)
<1>1. /\ x.cb \in Callbacks /\ x.err \in BOOLEAN /\ One(x \in C(i)) = One(Carries(x.cb, i))
      /\ l.attaching \in Callbacks /\ l.detaching \in Callbacks /\ l.err \in BOOLEAN
  BY OfLinkFacts DEF Links
<1>2. /\ One(x \in C(i)) \in {0, 1} /\ Holds(l, i) \in Nat
      /\ One(Carries(l.attaching, i)) \in {0, 1} /\ One(Carries(l.detaching, i)) \in {0, 1}
  BY HoldsNat, OneFacts
<1>3. NoCallback \in Callbacks /\ One(Carries(NoCallback, i)) = 0
  BY NoCallbackFacts DEF One
<1>4. CASE x.do = "close"
  <2> DEFINE e == l.err \/ x.err
  <2>1. LinkDetaching(l, x) = Entered(l, l.detaching, e)
    BY <1>4, Zenon DEF LinkDetaching
  <2>2. e \in BOOLEAN
    OBVIOUS
  <2> HIDE DEF e
  <2>3. One(Carries(l.detaching, i)) <= One(Carries(l.attaching, i))
          + One(Carries(l.detaching, i)) + One(x \in C(i))
    BY <1>2
  <2>4. QED
    BY <1>1, <2>1, <2>2, <2>3, EnteredOwnFacts
<1>5. CASE x.do = "detach"
  <2>1. LinkDetaching(l, x) = Told(l, x.cb, TRUE)
    BY <1>5, Zenon DEF LinkDetaching
  <2>2. QED
    BY <1>1, <2>1, TellFacts
<1>6. CASE x.do = "forceDetach"
  <2>1. LinkDetaching(l, x) = CallThenDetached(l, CallOf(l.detaching, TRUE), NoCallback, x.err)
    BY <1>6, Zenon DEF LinkDetaching
  <2>2. One(Carries(NoCallback, i)) <= One(x \in C(i))
    BY <1>2, <1>3
  <2>3. QED
    BY <1>1, <1>3, <2>1, <2>2, CallOneFacts
<1>7. CASE x.do = "replay"
  <2>1. LinkDetaching(l, x) = Done(l, <<>>, <<>>)
    BY <1>7, Zenon DEF LinkDetaching
  <2>2. QED
    BY <2>1, SameFacts
<1>8. CASE x.do \notin {"close", "detach", "forceDetach", "replay"}
  <2>1. LinkDetaching(l, x) = Done([l EXCEPT !.deferred = Append(@, x)], <<>>, <<>>)
    BY <1>8, Zenon DEF LinkDetaching
  <2>2. QED
    BY <2>1, PutOffFacts
<1>9. QED
  BY <1>4, <1>5, <1>6, <1>7, <1>8

\* The machine of a link keeps and calls no callback that it was not given.
LEMMA LinkStepFacts ==
  ASSUME NEW l \in Links, NEW x \in OfLink, NEW i \in Ids
  PROVE  Linear(LinkStep(l, x), l, x, i)
<1>1. /\ x.cb \in Callbacks /\ x.err \in BOOLEAN /\ One(x \in C(i)) = One(Carries(x.cb, i))
      /\ l.state \in LinkStates
  BY OfLinkFacts DEF Links
<1>2. /\ One(x \in C(i)) \in {0, 1}
      /\ One(Carries(l.attaching, i)) \in {0, 1} /\ One(Carries(l.detaching, i)) \in {0, 1}
  BY OneFacts
<1>3. CASE x.do = "accept"
  <2>1. LinkStep(l, x) = Dispose(l, x)
    BY <1>3 DEF LinkStep
  <2>2. QED
    BY <2>1, DisposeFacts
<1>4. CASE x.do = "toDetached" /\ l.state = "detached"
  <2>1. LinkStep(l, x) = Done(l, <<>>, <<>>)
    BY <1>4 DEF LinkStep
  <2>2. QED
    BY <2>1, SameFacts
<1>5. CASE x.do = "toDetached" /\ l.state # "detached"
  <2>1. LinkStep(l, x) = Entered(l, x.cb, x.err)
    BY <1>5 DEF LinkStep
  <2>2. One(Carries(x.cb, i)) <= One(Carries(l.attaching, i))
          + One(Carries(l.detaching, i)) + One(x \in C(i))
    BY <1>1, <1>2
  <2>3. QED
    BY <1>1, <2>1, <2>2, EnteredOwnFacts
<1>6. CASE x.do \notin {"accept", "toDetached"}
  <2>1. \/ l.state = "detached" /\ LinkStep(l, x) = LinkDetached(l, x)
        \/ l.state = "attaching" /\ LinkStep(l, x) = LinkAttaching(l, x)
        \/ l.state = "attached" /\ LinkStep(l, x) = LinkAttached(l, x)
        \/ l.state = "detaching" /\ LinkStep(l, x) = LinkDetaching(l, x)
    BY <1>1, <1>6 DEF LinkStep, LinkStates
  <2>2. QED
    BY <2>1, LinkDetachedFacts, LinkAttachingFacts, LinkAttachedFacts, LinkDetachingFacts
<1>7. QED
  BY <1>3, <1>4, <1>5, <1>6
-----------------------------------------------------------------------------
(* Steps.                                                                  *)

\* No call is forgotten or becomes another one.
CallsKept ==
  /\ calls' \in Seq(CallRecords) /\ Len(calls') = Len(calls) /\ DOMAIN calls' = DOMAIN calls
  /\ \A i \in DOMAIN calls : calls'[i].kind = calls[i].kind

\* A callback that is called is no longer where it was.
Lawful ==
  \A i \in Ids : /\ Chain(i)' <= Chain(i) /\ Waiting(i)' <= Waiting(i)
                 /\ Chain(i)' + Waiting(i)' + Out(i)' + ToldOf(i)'
                      <= Chain(i) + Waiting(i) + Out(i) + ToldOf(i)

\* A token is told that it is accepted only if it is, or was not put.
Truthful ==
  \A i \in DOMAIN calls :
    /\ calls'[i].put = calls[i].put
    /\ \/ calls'[i].answer # "ok"
       \/ calls'[i].answer = calls[i].answer /\ calls'[i].answered = calls[i].answered
       \/ /\ calls'[i].answered > 0
          /\ calls[i].kind = "putToken" => i \in granted \/ ~calls[i].put

\* What the sender has comes from what it had.
HandsOn == /\ ToSet(unsent') \cup pending' \subseteq ToSet(unsent) \cup pending
           /\ ToSet(unsent') \cap pending' = {}

\* What a step does that is neither a new call nor the putting of a token.
Sound ==
  /\ Typed' /\ CallsKept /\ Lawful /\ Truthful /\ HandsOn /\ Watched'
  /\ granted \subseteq granted'
  /\ \A i \in Ids : Has(agenda', A(i)) => Has(agenda, A(i)) \/ i \in granted'

\* The places are counted with naturals.
LEMMA PlacesNat ==
  ASSUME Typed, NEW i \in Ids
  PROVE  /\ Count(agenda, C(i)) \in Nat /\ Count(agenda, T(i)) \in Nat
         /\ Count(deferred, C(i)) \in Nat /\ Count(deferred, T(i)) \in Nat
         /\ One(each.left > 0 /\ each.id = i) \in Nat
         /\ Holds(links["sender"], i) \in Nat /\ Holds(links["receiver"], i) \in Nat
         /\ Count(notYetSent, {i}) \in Nat /\ Out(i) \in Nat /\ ToldOf(i) \in Nat
         /\ Elsewhere(i) \in Nat /\ Later(i) \in Nat
         /\ Chain(i) \in Nat /\ Waiting(i) \in Nat
<1>1. /\ agenda \in Seq(Items) /\ deferred \in Seq(OfOwner) /\ notYetSent \in Seq(Ids)
      /\ outstanding \in Seq(Ids) /\ expired \in Seq(Ids)
  BY DEF Typed
<1>2. /\ Count(agenda, C(i)) \in Nat /\ Count(agenda, T(i)) \in Nat
      /\ Count(deferred, C(i)) \in Nat /\ Count(deferred, T(i)) \in Nat
      /\ Count(notYetSent, {i}) \in Nat /\ Count(outstanding, {i}) \in Nat
      /\ Count(expired, {i}) \in Nat
  BY <1>1, CountNat
<1>3. links["sender"] \in Links /\ links["receiver"] \in Links
  BY DEF Typed, LinkNames
<1>4. Holds(links["sender"], i) \in Nat /\ Holds(links["receiver"], i) \in Nat
  BY <1>3, HoldsNat
<1>5. One(each.left > 0 /\ each.id = i) \in Nat
  BY OneFacts
<1>6. ToldOf(i) \in Nat
  <2>1. CASE i \in DOMAIN calls
    <3>1. calls[i] \in CallRecords
      BY <2>1 DEF Typed
    <3>2. QED
      BY <2>1, <3>1 DEF ToldOf, CallRecords
  <2>2. CASE i \notin DOMAIN calls
    BY <2>2 DEF ToldOf
  <2>3. QED
    BY <2>1, <2>2
<1>7. Elsewhere(i) \in Nat /\ Chain(i) \in Nat
  BY <1>2, <1>4, <1>5 DEF Chain, Elsewhere
<1>8. Later(i) \in Nat /\ Waiting(i) \in Nat
  BY <1>2 DEF Waiting, Later
<1>9. QED
  BY <1>2, <1>4, <1>5, <1>6, <1>7, <1>8 DEF Out

\* So they are after a step.
LEMMA PlacesNatNext ==
  ASSUME Typed', NEW i \in Ids
  PROVE  /\ Chain(i)' \in Nat /\ Waiting(i)' \in Nat /\ Out(i)' \in Nat /\ ToldOf(i)' \in Nat
         /\ Elsewhere(i)' \in Nat /\ Later(i)' \in Nat
<1>1. /\ agenda' \in Seq(Items) /\ deferred' \in Seq(OfOwner) /\ notYetSent' \in Seq(Ids)
      /\ outstanding' \in Seq(Ids) /\ expired' \in Seq(Ids)
  BY DEF Typed
<1>2. /\ Count(agenda', C(i)) \in Nat /\ Count(agenda', T(i)) \in Nat
      /\ Count(deferred', C(i)) \in Nat /\ Count(deferred', T(i)) \in Nat
      /\ Count(notYetSent', {i}) \in Nat /\ Count(outstanding', {i}) \in Nat
      /\ Count(expired', {i}) \in Nat
  BY <1>1, CountNat
<1>3. links'["sender"] \in Links /\ links'["receiver"] \in Links
  BY DEF Typed, LinkNames
<1>4. Holds(links'["sender"], i) \in Nat /\ Holds(links'["receiver"], i) \in Nat
  BY <1>3, HoldsNat
<1>5. One(each'.left > 0 /\ each'.id = i) \in Nat
  BY OneFacts
<1>6. ToldOf(i)' \in Nat
  <2>1. CASE i \in DOMAIN calls'
    <3>1. calls'[i] \in CallRecords
      BY <2>1 DEF Typed
    <3>2. QED
      BY <2>1, <3>1 DEF ToldOf, CallRecords
  <2>2. CASE i \notin DOMAIN calls'
    BY <2>2 DEF ToldOf
  <2>3. QED
    BY <2>1, <2>2
<1>7. Chain(i)' \in Nat /\ Elsewhere(i)' \in Nat
  BY <1>2, <1>4, <1>5 DEF Chain, Elsewhere
<1>8. Waiting(i)' \in Nat /\ Later(i)' \in Nat
  BY <1>2 DEF Waiting, Later
<1>9. QED
  BY <1>2, <1>6, <1>7, <1>8 DEF Out

\* The timer, started and stopped.
LEMMA TimerFacts ==
  ASSUME timer \in Timers
  PROVE  /\ Armed \in Timers /\ Armed.known /\ Armed.doubled = timer.doubled
         /\ ~timer.known => Armed.strays = timer.strays
         /\ Cleared \in Timers /\ ~Cleared.known /\ Cleared.doubled = timer.doubled
         /\ Cleared.strays = timer.strays
<1> DEFINE n == timer.strays + IF timer.known THEN 1 ELSE 0
<1>1. n \in Nat /\ (~timer.known => n = timer.strays)
  BY DEF Timers
<1>2. Armed = [timer EXCEPT !.known = TRUE, !.strays = n]
  BY DEF Armed
<1> HIDE DEF n
<1>3. /\ Armed \in Timers /\ Armed.known /\ Armed.doubled = timer.doubled /\ Armed.strays = n
  BY <1>1, <1>2 DEF Timers
<1>4. /\ Cleared \in Timers /\ ~Cleared.known /\ Cleared.doubled = timer.doubled
      /\ Cleared.strays = timer.strays
  BY DEF Cleared, Timers
<1>5. QED
  BY <1>1, <1>3, <1>4

\* Such a step keeps the invariant.
LEMMA SoundKeeps ==
  ASSUME IInv, Sound
  PROVE  IInv'
<1>1. Typed /\ Accounted /\ Granted /\ Typed' /\ CallsKept /\ Lawful
  BY DEF IInv, Sound
<1>2. Accounted'
  <2>1. SUFFICES ASSUME NEW i \in Ids
                 PROVE  /\ Chain(i)' + Waiting(i)' + Out(i)' + ToldOf(i)'
                             <= One(i \in DOMAIN calls')
                        /\ i \in DOMAIN calls' /\ calls'[i].kind = "putToken" => Chain(i)' = 0
    BY DEF Accounted
  <2>2. /\ Chain(i) \in Nat /\ Waiting(i) \in Nat /\ Out(i) \in Nat /\ ToldOf(i) \in Nat
        /\ Chain(i)' \in Nat /\ Waiting(i)' \in Nat /\ Out(i)' \in Nat /\ ToldOf(i)' \in Nat
    BY <1>1, PlacesNat, PlacesNatNext
  <2>3. DOMAIN calls' = DOMAIN calls /\ \A j \in DOMAIN calls : calls'[j].kind = calls[j].kind
    BY <1>1 DEF CallsKept
  <2>4. /\ Chain(i) + Waiting(i) + Out(i) + ToldOf(i) <= One(i \in DOMAIN calls)
        /\ i \in DOMAIN calls /\ calls[i].kind = "putToken" => Chain(i) = 0
    BY <1>1 DEF Accounted
  <2>5. /\ Chain(i)' <= Chain(i)
        /\ Chain(i)' + Waiting(i)' + Out(i)' + ToldOf(i)'
             <= Chain(i) + Waiting(i) + Out(i) + ToldOf(i)
    BY <1>1 DEF Lawful
  <2>6. One(i \in DOMAIN calls) \in {0, 1} /\ One(i \in DOMAIN calls') = One(i \in DOMAIN calls)
    BY <2>3, OneFacts
  <2>7. ASSUME NEW a \in Nat, NEW b \in Nat, NEW o \in {0, 1}, a <= b, b <= o
        PROVE  a <= o
    BY <2>7
  <2>8. /\ Chain(i)' + Waiting(i)' + Out(i)' + ToldOf(i)' \in Nat
        /\ Chain(i) + Waiting(i) + Out(i) + ToldOf(i) \in Nat
    BY <2>2
  <2>9. Chain(i)' + Waiting(i)' + Out(i)' + ToldOf(i)' <= One(i \in DOMAIN calls')
    BY <2>4, <2>5, <2>6, <2>7, <2>8
  <2>10. ASSUME i \in DOMAIN calls', calls'[i].kind = "putToken"
         PROVE  Chain(i)' = 0
    <3>1. Chain(i) = 0
      BY <2>3, <2>4, <2>10
    <3>2. QED
      BY <2>2, <2>5, <3>1
  <2>11. QED
    BY <2>9, <2>10
<1>3. ASSUME NEW i \in DOMAIN calls'
      PROVE  /\ calls'[i].put => Waiting(i)' = 0
             /\ calls'[i].answer = "ok" =>
                  /\ calls'[i].answered > 0
                  /\ calls'[i].kind = "putToken" => i \in granted' \/ ~calls'[i].put
  <2>1. i \in DOMAIN calls /\ calls'[i].kind = calls[i].kind
    BY <1>1 DEF CallsKept
  <2>2. i \in Ids
    <3>1. DOMAIN calls = 1..Len(calls) /\ Len(calls) <= MaxCalls /\ Len(calls) \in Nat
      BY <1>1, LenProperties DEF Typed
    <3>2. QED
      BY <2>1, <3>1, CbsAssumption DEF Ids
  <2>3. /\ calls'[i].put = calls[i].put
        /\ \/ calls'[i].answer # "ok"
           \/ calls'[i].answer = calls[i].answer /\ calls'[i].answered = calls[i].answered
           \/ /\ calls'[i].answered > 0
              /\ calls[i].kind = "putToken" => i \in granted \/ ~calls[i].put
    BY <2>1 DEF Sound, Truthful
  <2>4. /\ calls[i].put => Waiting(i) = 0
        /\ calls[i].answer = "ok" =>
             /\ calls[i].answered > 0
             /\ calls[i].kind = "putToken" => i \in granted \/ ~calls[i].put
    BY <1>1, <2>1 DEF Granted
  <2>5. Waiting(i)' <= Waiting(i) /\ Waiting(i)' \in Nat /\ Waiting(i) \in Nat
    BY <1>1, <2>2, PlacesNat, PlacesNatNext DEF Lawful
  <2>6. calls'[i].put => Waiting(i)' = 0
    BY <2>3, <2>4, <2>5
  <2>7. granted \subseteq granted'
    BY DEF Sound
  <2>8. QED
    BY <2>1, <2>3, <2>4, <2>6, <2>7
<1>4. \A i \in Ids : Has(agenda', A(i)) => i \in granted'
  BY <1>1 DEF Sound, Granted
<1>5. ASSUME NEW i \in ToSet(unsent') \cup pending'
      PROVE  i \in DOMAIN calls' /\ calls'[i].put
  <2>1. i \in ToSet(unsent) \cup pending
    BY DEF Sound, HandsOn
  <2>2. i \in DOMAIN calls /\ calls[i].put
    BY <1>1, <2>1 DEF Granted
  <2>3. QED
    BY <1>1, <2>2 DEF Sound, Truthful, CallsKept
<1>6. ToSet(unsent') \cap pending' = {}
  BY DEF Sound, HandsOn
<1>7. Granted'
  BY <1>3, <1>4, <1>5, <1>6 DEF Granted
<1>8. Watched'
  BY DEF Sound
<1>9. QED
  BY <1>1, <1>2, <1>7, <1>8 DEF IInv
-----------------------------------------------------------------------------
(* What the steps are made of.                                             *)

\* An item of the agent.
LEMMA AgentFacts ==
  ASSUME NEW do \in Requests \cup Moves \cup Others, NEW id \in Nat, NEW err \in BOOLEAN,
         do = "putToken" => id \in Ids
  PROVE  /\ Agent(do, id, err) \in OfAgent /\ Agent(do, id, err) \in Items
         /\ \A i \in Ids :
              /\ Agent(do, id, err) \in C(i) <=> do \in Moves /\ id = i
              /\ Agent(do, id, err) \in T(i) <=> do = "putToken" /\ id = i
              /\ Agent(do, id, err) \in A(i) <=> do = "answered" /\ id = i /\ ~err
<1> DEFINE x == Agent(do, id, err)
<1>1. /\ x.at = "cbs" /\ x.do = do /\ x.cb.id = id /\ x.err = err
      /\ x = [at |-> "cbs", do |-> do, cb |-> [fn |-> "owner", id |-> id], err |-> err,
              about |-> 0]
  BY DEF Agent, Input, Callback
<1>2. x \in Inputs
  BY <1>1 DEF Inputs, Callbacks, Dos, Others
<1> HIDE DEF x
<1>3. x \in OfAgent /\ x \in Items
  BY <1>1, <1>2 DEF OfAgent, Items
<1>4. ASSUME NEW i \in Ids
      PROVE  /\ x \in C(i) <=> do \in Moves /\ id = i
             /\ x \in T(i) <=> do = "putToken" /\ id = i
             /\ x \in A(i) <=> do = "answered" /\ id = i /\ ~err
  BY <1>1, <1>3 DEF C, T, A
<1>5. QED
  BY <1>3, <1>4 DEF x

\* Items of the links put no token, and say of none that it is accepted.
LEMMA OfLinksFacts ==
  ASSUME NEW s \in Seq(OfLinks), NEW i \in Ids
  PROVE  s \in Seq(Items) /\ Count(s, T(i)) = 0 /\ ~Has(s, A(i))
<1>1. \A x \in OfLinks : x.at # "cbs"
  BY DEF OfLinks, OfLink, LinkNames
<1>2. T(i) \cap OfLinks = {} /\ A(i) \cap OfLinks = {}
  BY <1>1 DEF T, A
<1>3. s \in Seq(Items)
  BY SeqWiden DEF Items
<1>4. Count(s, T(i)) = 0 /\ Count(s, A(i)) = 0
  BY <1>2, CountNone
<1>5. QED
  BY <1>3, <1>4, CountHas

\* A step of a turn: the head of the agenda makes way for what it has the turn do.
GoesOn(new) == new \in Seq(Items) /\ agenda' = new \o Tail(agenda)

\* What such a step counts.
LEMMA TurnFacts ==
  ASSUME Typed, agenda # <<>>, NEW new, GoesOn(new)
  PROVE  /\ Head(agenda) \in Items /\ Tail(agenda) \in Seq(Items) /\ agenda' \in Seq(Items)
         /\ \A S : /\ Count(agenda', S) \in Nat /\ Count(agenda, S) \in Nat
                   /\ Count(new, S) \in Nat
                   /\ Count(agenda', S) + One(Head(agenda) \in S) = Count(agenda, S) + Count(new, S)
                   /\ Has(agenda', S) => Has(new, S) \/ Has(agenda, S)
<1>1. agenda \in Seq(Items) /\ new \in Seq(Items) /\ agenda' = new \o Tail(agenda)
  BY DEF Typed, GoesOn
<1>2. Head(agenda) \in Items /\ Tail(agenda) \in Seq(Items)
  BY <1>1, HeadTailProperties
<1>3. agenda' \in Seq(Items)
  BY <1>1, <1>2, ConcatProperties
<1>4. ASSUME NEW S
      PROVE  /\ Count(agenda', S) \in Nat /\ Count(agenda, S) \in Nat
             /\ Count(new, S) \in Nat
             /\ Count(agenda', S) + One(Head(agenda) \in S) = Count(agenda, S) + Count(new, S)
             /\ Has(agenda', S) => Has(new, S) \/ Has(agenda, S)
  <2>1. /\ Count(agenda', S) \in Nat /\ Count(agenda, S) \in Nat
        /\ Count(new, S) \in Nat /\ Count(Tail(agenda), S) \in Nat
    BY <1>1, <1>2, <1>3, CountNat
  <2>2. Count(agenda', S) = Count(new, S) + Count(Tail(agenda), S)
    BY <1>1, <1>2, CountConcat
  <2>3. Count(agenda, S) = One(Head(agenda) \in S) + Count(Tail(agenda), S)
    BY <1>1, CountHeadTail DEF One
  <2>4. One(Head(agenda) \in S) \in {0, 1}
    BY OneFacts
  <2>5. Has(agenda', S) => Has(new, S) \/ Has(agenda, S)
    <3>1. Has(agenda', S) => Has(new, S) \/ Has(Tail(agenda), S)
      BY <1>1, <1>2, HasConcat
    <3>2. Has(Tail(agenda), S) => Has(agenda, S)
      BY <1>1, HasHeadTail
    <3>3. QED
      BY <3>1, <3>2
  <2>6. QED
    BY <2>1, <2>2, <2>3, <2>4, <2>5
<1>5. QED
  BY <1>2, <1>3, <1>4

\* The callbacks of the calls ids are called.
LEMMA AnswerFacts ==
  ASSUME Typed, NEW ids, NEW err \in BOOLEAN, AnswerAll(ids, err)
  PROVE  /\ CallsKept
         /\ \A i \in DOMAIN calls :
              /\ calls'[i].put = calls[i].put
              /\ i \in ids => /\ calls'[i].answered > 0
                              /\ calls'[i].answer = IF err THEN "err" ELSE "ok"
              /\ i \notin ids => calls'[i] = calls[i]
         /\ \A i \in Ids : /\ ToldOf(i)' = ToldOf(i) + One(i \in ids /\ i \in DOMAIN calls)
                           /\ ToldOf(i)' <= ToldOf(i) + One(i \in ids)
<1>1. calls \in Seq(CallRecords) /\ DOMAIN calls = 1..Len(calls) /\ Len(calls) \in Nat
  BY LenProperties DEF Typed
<1>2. ASSUME NEW i \in DOMAIN calls
      PROVE  /\ calls'[i] \in CallRecords /\ calls[i] \in CallRecords
             /\ calls'[i].kind = calls[i].kind /\ calls'[i].put = calls[i].put
             /\ i \in ids => /\ calls'[i].answered = calls[i].answered + 1
                             /\ calls'[i].answer = IF err THEN "err" ELSE "ok"
             /\ i \notin ids => calls'[i] = calls[i]
  <2>1. calls[i] \in CallRecords
    BY <1>1, <1>2
  <2>2. CASE i \in ids
    <3> DEFINE v == IF err THEN "err" ELSE "ok"
    <3>1. calls'[i] = [calls[i] EXCEPT !.answer = v, !.answered = @ + 1]
      BY <1>2, <2>2 DEF AnswerAll
    <3>2. v \in {"none", "ok", "err", "dropped"}
      OBVIOUS
    <3> HIDE DEF v
    <3>3. /\ calls'[i] \in CallRecords /\ calls'[i].kind = calls[i].kind
          /\ calls'[i].put = calls[i].put /\ calls'[i].answer = v
          /\ calls'[i].answered = calls[i].answered + 1
      <4>1. ASSUME NEW c \in CallRecords
            PROVE  c.answered \in Nat /\ c.answered + 1 \in Nat
        BY <4>1 DEF CallRecords
      <4>2. ASSUME NEW c \in CallRecords, NEW n \in Nat
            PROVE  /\ [c EXCEPT !.answer = v, !.answered = n] \in CallRecords
                   /\ [c EXCEPT !.answer = v, !.answered = n].kind = c.kind
                   /\ [c EXCEPT !.answer = v, !.answered = n].put = c.put
                   /\ [c EXCEPT !.answer = v, !.answered = n].answer = v
                   /\ [c EXCEPT !.answer = v, !.answered = n].answered = n
        BY <3>2, <4>2 DEF CallRecords
      <4>3. calls'[i] = [calls[i] EXCEPT !.answer = v, !.answered = calls[i].answered + 1]
        BY <3>1
      <4> DEFINE c == calls[i]
                 n == calls[i].answered + 1
                 w == [c EXCEPT !.answer = v, !.answered = n]
      <4>4. calls'[i] = w /\ c \in CallRecords /\ n \in Nat
        BY <2>1, <4>1, <4>3
      <4> HIDE DEF c, n
      <4>5. w \in CallRecords /\ w.kind = c.kind /\ w.put = c.put /\ w.answer = v /\ w.answered = n
        BY <4>2, <4>4
      <4> HIDE DEF w
      <4>6. QED
        BY <4>4, <4>5 DEF c, n
    <3>4. QED
      BY <2>1, <2>2, <3>3 DEF v
  <2>3. CASE i \notin ids
    <3>1. calls'[i] = calls[i]
      BY <1>2, <2>3 DEF AnswerAll
    <3>2. QED
      BY <2>1, <2>3, <3>1
  <2>4. QED
    BY <2>2, <2>3
<1>3. /\ DOMAIN calls' = DOMAIN calls
      /\ calls' = [i \in 1..Len(calls) |-> calls'[i]]
  BY <1>1 DEF AnswerAll
<1>4. calls' \in Seq(CallRecords) /\ Len(calls') = Len(calls)
  BY <1>1, <1>2, <1>3
<1>5. CallsKept
  BY <1>2, <1>3, <1>4 DEF CallsKept
<1>6. ASSUME NEW i \in Ids
      PROVE  /\ ToldOf(i)' = ToldOf(i) + One(i \in ids /\ i \in DOMAIN calls)
             /\ ToldOf(i)' <= ToldOf(i) + One(i \in ids)
  <2>1. CASE i \in DOMAIN calls /\ i \in ids
    <3>1. ToldOf(i)' = calls[i].answered + 1 /\ ToldOf(i) = calls[i].answered
      BY <1>2, <1>3, <2>1 DEF ToldOf
    <3>2. calls[i].answered \in Nat
      BY <1>2, <2>1 DEF CallRecords
    <3>3. One(i \in ids /\ i \in DOMAIN calls) = 1 /\ One(i \in ids) = 1
      BY <2>1 DEF One
    <3>4. QED
      BY <3>1, <3>2, <3>3
  <2>2. CASE ~(i \in DOMAIN calls /\ i \in ids)
    <3>1. ToldOf(i)' = ToldOf(i)
      BY <1>2, <1>3, <2>2 DEF ToldOf
    <3>2. One(i \in ids /\ i \in DOMAIN calls) = 0
      BY <2>2 DEF One
    <3>3. One(i \in ids) \in {0, 1} /\ ToldOf(i) \in Nat
      BY OneFacts, PlacesNat
    <3>4. QED
      BY <3>1, <3>2, <3>3
  <2>3. QED
    BY <2>1, <2>2
<1>7. ASSUME NEW i \in DOMAIN calls, i \in ids
      PROVE  calls'[i].answered > 0
  <2>1. calls'[i].answered = calls[i].answered + 1 /\ calls[i].answered \in Nat
    BY <1>2, <1>7 DEF CallRecords
  <2>2. QED
    BY <2>1
<1>8. QED
  BY <1>2, <1>5, <1>6, <1>7

\* A callback that is lost.
LEMMA DropFacts ==
  ASSUME Typed, NEW id, Drop(id)
  PROVE  CallsKept /\ Truthful /\ \A i \in Ids : ToldOf(i)' = ToldOf(i)
<1>1. calls \in Seq(CallRecords) /\ DOMAIN calls = 1..Len(calls) /\ Len(calls) \in Nat
  BY LenProperties DEF Typed
<1>2. ASSUME NEW i \in DOMAIN calls
      PROVE  /\ calls'[i] \in CallRecords /\ calls'[i].kind = calls[i].kind
             /\ calls'[i].put = calls[i].put /\ calls'[i].answered = calls[i].answered
             /\ calls'[i].answer = "dropped" \/ calls'[i] = calls[i]
  <2>1. calls[i] \in CallRecords
    BY <1>1, <1>2
  <2>2. CASE i = id
    <3>1. calls'[i] = [calls[i] EXCEPT !.answer = "dropped"]
      BY <1>2, <2>2 DEF Drop
    <3>2. QED
      BY <2>1, <3>1 DEF CallRecords
  <2>3. CASE i # id
    <3>1. calls'[i] = calls[i]
      BY <1>2, <2>3 DEF Drop
    <3>2. QED
      BY <2>1, <3>1
  <2>4. QED
    BY <2>2, <2>3
<1>3. /\ DOMAIN calls' = DOMAIN calls
      /\ calls' = [i \in 1..Len(calls) |-> calls'[i]]
  BY <1>1 DEF Drop
<1>4. calls' \in Seq(CallRecords) /\ Len(calls') = Len(calls)
  BY <1>1, <1>2, <1>3
<1>5. CallsKept
  BY <1>2, <1>3, <1>4 DEF CallsKept
<1>6. Truthful
  BY <1>2 DEF Truthful
<1>7. \A i \in Ids : ToldOf(i)' = ToldOf(i)
  BY <1>2, <1>3 DEF ToldOf
<1>8. QED
  BY <1>5, <1>6, <1>7

\* No callback is called.
LEMMA NoAnswerFacts ==
  ASSUME Typed, calls' = calls
  PROVE  CallsKept /\ Truthful /\ \A i \in Ids : ToldOf(i)' = ToldOf(i)
BY DEF Typed, CallsKept, Truthful, ToldOf

\* The calls have numbers among Ids.
LEMMA CallsInIds ==
  ASSUME Typed
  PROVE  DOMAIN calls \subseteq Ids
<1>1. DOMAIN calls = 1..Len(calls) /\ Len(calls) <= MaxCalls /\ Len(calls) \in Nat
  BY LenProperties DEF Typed
<1>2. QED
  BY <1>1, CbsAssumption DEF Ids
-----------------------------------------------------------------------------
(* The steps of the machine.                                               *)

Still == UNCHANGED <<deferred, each, links, unsent, pending, notYetSent, outstanding, timer,
                     granted, left, events, examining, expired>>

\* What the turn goes on with has the callbacks that its head had, but those that were
\* called.
Onward(new) ==
  \A i \in Ids : /\ Count(new, C(i)) + ToldOf(i)' <= One(Head(agenda) \in C(i)) + ToldOf(i)
                 /\ Count(new, C(i)) <= One(Head(agenda) \in C(i))
                 /\ Count(new, T(i)) <= One(Head(agenda) \in T(i))
                 /\ ~Has(new, A(i))

\* A head h makes way for n: what there is after it is less than before.
LEMMA Cancel ==
  ASSUME NEW a \in Nat, NEW b \in Nat, NEW n \in Nat, NEW h \in {0, 1}, b + h = a + n, n <= h
  PROVE  /\ b <= a
         /\ \A t \in Nat, u \in Nat : n + u <= h + t => b + u <= a + t
OBVIOUS

\* A step that leaves all but the state, the agenda and the calls is sound.
LEMMA MachineSound ==
  ASSUME IInv, agenda # <<>>, Still, state' \in LinkStates, CallsKept, Truthful,
         NEW new, GoesOn(new), Onward(new)
  PROVE  Sound
<1>1. Typed /\ Granted /\ Watched
  BY DEF IInv
<1>2. /\ agenda' \in Seq(Items)
      /\ \A S : /\ Count(agenda', S) \in Nat /\ Count(agenda, S) \in Nat
                /\ Count(new, S) \in Nat
                /\ Count(agenda', S) + One(Head(agenda) \in S) = Count(agenda, S) + Count(new, S)
                /\ Has(agenda', S) => Has(new, S) \/ Has(agenda, S)
  BY <1>1, TurnFacts
<1>3. Typed'
  BY <1>1, <1>2 DEF Typed, Still, CallsKept
<1>4. Lawful
  <2>1. SUFFICES ASSUME NEW i \in Ids
                 PROVE  /\ Chain(i)' <= Chain(i) /\ Waiting(i)' <= Waiting(i)
                        /\ Chain(i)' + Waiting(i)' + Out(i)' + ToldOf(i)'
                             <= Chain(i) + Waiting(i) + Out(i) + ToldOf(i)
    BY DEF Lawful
  <2>0. /\ Chain(i) = Count(agenda, C(i)) + Elsewhere(i) /\ Waiting(i) = Count(agenda, T(i)) + Later(i)
        /\ Chain(i)' = Count(agenda', C(i)) + Elsewhere(i)
        /\ Waiting(i)' = Count(agenda', T(i)) + Later(i)
        /\ Out(i)' = Out(i)
    BY DEF Chain, Waiting, Elsewhere, Later, Out, Still
  <2>2. /\ Elsewhere(i) \in Nat /\ Later(i) \in Nat
        /\ Out(i) \in Nat /\ ToldOf(i) \in Nat /\ ToldOf(i)' \in Nat
    BY <1>1, <1>3, PlacesNat, PlacesNatNext
  <2>3. /\ Count(agenda', C(i)) \in Nat /\ Count(agenda, C(i)) \in Nat /\ Count(new, C(i)) \in Nat
        /\ Count(agenda', C(i)) + One(Head(agenda) \in C(i)) = Count(agenda, C(i)) + Count(new, C(i))
    BY <1>2
  <2>4. /\ Count(agenda', T(i)) \in Nat /\ Count(agenda, T(i)) \in Nat /\ Count(new, T(i)) \in Nat
        /\ Count(agenda', T(i)) + One(Head(agenda) \in T(i)) = Count(agenda, T(i)) + Count(new, T(i))
    BY <1>2
  <2>5. One(Head(agenda) \in C(i)) \in {0, 1} /\ One(Head(agenda) \in T(i)) \in {0, 1}
    BY OneFacts
  <2>6. /\ Count(new, C(i)) + ToldOf(i)' <= One(Head(agenda) \in C(i)) + ToldOf(i)
        /\ Count(new, C(i)) <= One(Head(agenda) \in C(i))
        /\ Count(new, T(i)) <= One(Head(agenda) \in T(i))
    BY DEF Onward
  <2>7. /\ Count(agenda', C(i)) <= Count(agenda, C(i))
        /\ Count(agenda', C(i)) + ToldOf(i)' <= Count(agenda, C(i)) + ToldOf(i)
    BY <2>2, <2>3, <2>5, <2>6, Cancel
  <2>8. Count(agenda', T(i)) <= Count(agenda, T(i))
    BY <2>4, <2>5, <2>6, Cancel
  <2>9. /\ Chain(i)' \in Nat /\ Chain(i) \in Nat /\ Waiting(i)' \in Nat /\ Waiting(i) \in Nat
    BY <1>1, <1>3, PlacesNat, PlacesNatNext
  <2>10. Chain(i)' <= Chain(i)
    BY <2>0, <2>2, <2>3, <2>7
  <2>11. Chain(i)' + ToldOf(i)' <= Chain(i) + ToldOf(i)
    BY <2>0, <2>2, <2>3, <2>7
  <2>12. Waiting(i)' <= Waiting(i)
    BY <2>0, <2>2, <2>4, <2>8
  <2>13. QED
    BY <2>0, <2>2, <2>9, <2>10, <2>11, <2>12
<1>5. HandsOn
  BY <1>1 DEF HandsOn, Still, Granted
<1>6. Watched'
  BY <1>1 DEF Watched, Still
<1>7. granted \subseteq granted'
  BY DEF Still
<1>8. \A i \in Ids : Has(agenda', A(i)) => Has(agenda, A(i)) \/ i \in granted'
  BY <1>2 DEF Onward
<1>9. QED
  BY <1>3, <1>4, <1>5, <1>6, <1>7, <1>8 DEF Sound

\* How often a call was answered is a natural.
LEMMA ToldNext ==
  ASSUME CallsKept, NEW i \in Ids
  PROVE  ToldOf(i)' \in Nat
<1>1. CASE i \in DOMAIN calls'
  <2>1. calls'[i] \in CallRecords
    BY <1>1 DEF CallsKept
  <2>2. QED
    BY <1>1, <2>1 DEF ToldOf, CallRecords
<1>2. CASE i \notin DOMAIN calls'
  BY <1>2 DEF ToldOf
<1>3. QED
  BY <1>1, <1>2

\* The turn goes on with nothing new.
LEMMA OnwardNone ==
  ASSUME Typed, CallsKept,
         \A i \in Ids : ToldOf(i)' <= ToldOf(i) + One(Head(agenda) \in C(i))
  PROVE  Onward(<<>>) /\ <<>> \in Seq(Items)
<1>1. ASSUME NEW i \in Ids
      PROVE  /\ Count(<<>>, C(i)) + ToldOf(i)' <= One(Head(agenda) \in C(i)) + ToldOf(i)
             /\ Count(<<>>, C(i)) <= One(Head(agenda) \in C(i))
             /\ Count(<<>>, T(i)) <= One(Head(agenda) \in T(i))
             /\ ~Has(<<>>, A(i))
  <2>1. Count(<<>>, C(i)) = 0 /\ Count(<<>>, T(i)) = 0 /\ ~Has(<<>>, A(i))
    BY CountEmpty, HasOne
  <2>2. One(Head(agenda) \in C(i)) \in {0, 1} /\ One(Head(agenda) \in T(i)) \in {0, 1}
    BY OneFacts
  <2>3. ToldOf(i)' \in Nat /\ ToldOf(i) \in Nat
    BY ToldNext, PlacesNat
  <2>4. QED
    BY <2>1, <2>2, <2>3
<1>2. QED
  BY <1>1 DEF Onward

\* The turn goes on with one item, which has the callback that the head had.
LEMMA OnwardOne ==
  ASSUME Typed, CallsKept, NEW x \in Items,
         \A i \in Ids : /\ ToldOf(i)' = ToldOf(i)
                        /\ x \in C(i) => Head(agenda) \in C(i)
                        /\ x \notin T(i) /\ x \notin A(i)
  PROVE  Onward(<<x>>) /\ <<x>> \in Seq(Items)
<1>1. ASSUME NEW i \in Ids
      PROVE  /\ Count(<<x>>, C(i)) + ToldOf(i)' <= One(Head(agenda) \in C(i)) + ToldOf(i)
             /\ Count(<<x>>, C(i)) <= One(Head(agenda) \in C(i))
             /\ Count(<<x>>, T(i)) <= One(Head(agenda) \in T(i))
             /\ ~Has(<<x>>, A(i))
  <2>1. /\ Count(<<x>>, C(i)) = One(x \in C(i)) /\ Count(<<x>>, T(i)) = One(x \in T(i))
        /\ ~Has(<<x>>, A(i))
    BY CountOne, HasOne DEF One
  <2>2. One(Head(agenda) \in C(i)) \in {0, 1} /\ One(Head(agenda) \in T(i)) \in {0, 1}
    BY OneFacts
  <2>3. One(x \in T(i)) = 0 /\ One(x \in C(i)) <= One(Head(agenda) \in C(i))
        /\ One(x \in C(i)) \in {0, 1}
    <3>1. One(x \in T(i)) = 0
      BY DEF One
    <3>2. CASE x \in C(i)
      <4>1. One(x \in C(i)) = 1 /\ One(Head(agenda) \in C(i)) = 1
        BY <3>2 DEF One
      <4>2. QED
        BY <3>1, <4>1
    <3>3. CASE x \notin C(i)
      <4>1. One(x \in C(i)) = 0
        BY <3>3 DEF One
      <4>2. QED
        BY <2>2, <3>1, <4>1
    <3>4. QED
      BY <3>2, <3>3
  <2>4. ToldOf(i)' = ToldOf(i) /\ ToldOf(i) \in Nat
    BY PlacesNat
  <2>5. QED
    BY <2>1, <2>2, <2>3, <2>4
<1>2. <<x>> \in Seq(Items)
  OBVIOUS
<1>3. QED
  BY <1>1, <1>2 DEF Onward

\* Two items, the second without a callback.
LEMMA OnwardTwo ==
  ASSUME Typed, CallsKept, NEW x \in Items, NEW y \in Items,
         \A i \in Ids : /\ ToldOf(i)' = ToldOf(i)
                        /\ x \in C(i) => Head(agenda) \in C(i)
                        /\ x \notin T(i) /\ x \notin A(i)
                        /\ y \notin C(i) /\ y \notin T(i) /\ y \notin A(i)
  PROVE  /\ Onward(<<x>> \o <<y>>) /\ <<x>> \o <<y>> \in Seq(Items)
         /\ Onward(<<y>> \o <<x>>) /\ <<y>> \o <<x>> \in Seq(Items)
<1>1. Onward(<<x>>) /\ <<x>> \in Seq(Items) /\ <<y>> \in Seq(Items)
  BY OnwardOne
<1>2. <<x>> \o <<y>> \in Seq(Items) /\ <<y>> \o <<x>> \in Seq(Items)
  BY <1>1, ConcatProperties
<1>3. ASSUME NEW i \in Ids
      PROVE  /\ Count(<<x>> \o <<y>>, C(i)) = Count(<<x>>, C(i))
             /\ Count(<<x>> \o <<y>>, T(i)) = Count(<<x>>, T(i))
             /\ ~Has(<<x>> \o <<y>>, A(i))
             /\ Count(<<y>> \o <<x>>, C(i)) = Count(<<x>>, C(i))
             /\ Count(<<y>> \o <<x>>, T(i)) = Count(<<x>>, T(i))
             /\ ~Has(<<y>> \o <<x>>, A(i))
  <2>1. Count(<<y>>, C(i)) = 0 /\ Count(<<y>>, T(i)) = 0 /\ ~Has(<<y>>, A(i)) /\ ~Has(<<x>>, A(i))
    BY CountOne, HasOne
  <2>2. /\ Count(<<x>> \o <<y>>, C(i)) = Count(<<x>>, C(i)) + Count(<<y>>, C(i))
        /\ Count(<<x>> \o <<y>>, T(i)) = Count(<<x>>, T(i)) + Count(<<y>>, T(i))
        /\ Count(<<y>> \o <<x>>, C(i)) = Count(<<y>>, C(i)) + Count(<<x>>, C(i))
        /\ Count(<<y>> \o <<x>>, T(i)) = Count(<<y>>, T(i)) + Count(<<x>>, T(i))
    BY <1>1, CountConcat, ZenonT(60)
  <2>3. Count(<<x>>, C(i)) \in Nat /\ Count(<<x>>, T(i)) \in Nat
    BY <1>1, CountNat
  <2>4. ~Has(<<x>> \o <<y>>, A(i)) /\ ~Has(<<y>> \o <<x>>, A(i))
    BY <1>1, <2>1, HasConcat
  <2>5. QED
    BY <2>1, <2>2, <2>3, <2>4
<1>4. QED
  BY <1>1, <1>2, <1>3 DEF Onward

\* The head of the agenda.
LEMMA HeadFacts ==
  ASSUME Typed, agenda # <<>>, NEW h, h = Head(agenda)
  PROVE  /\ h \in Items /\ h.at \in {"cbs", "callback", "sender", "receiver"}
         /\ h.cb \in Callbacks /\ h.cb.id \in Nat /\ h.err \in BOOLEAN
         /\ h.at = "cbs" => /\ h \in OfAgent /\ h.do \in Requests \cup Moves \cup Others
                            /\ h.do = "putToken" => h.cb.id \in Ids
         /\ h.at \in LinkNames => h \in OfLink
         /\ \A i \in Ids :
              /\ h \in C(i) <=> \/ h.at = "cbs" /\ h.do \in Moves /\ h.cb.id = i
                                \/ h.at # "cbs" /\ Carries(h.cb, i)
              /\ h \in T(i) <=> h.at = "cbs" /\ h.do = "putToken" /\ h.cb.id = i
              /\ h \in A(i) <=> h.at = "cbs" /\ h.do = "answered" /\ h.cb.id = i /\ ~h.err
<1>1. h \in Items
  BY HeadTailProperties DEF Typed
<1>2. h \in Inputs
  BY <1>1 DEF Items, OfAgent, OfLinks, OfLink
<1>3. /\ h.at \in {"cbs", "callback", "sender", "receiver"}
      /\ h.cb \in Callbacks /\ h.err \in BOOLEAN
  BY <1>2 DEF Inputs
<1>4. h.cb.id \in Nat
  BY <1>3 DEF Callbacks
<1>5. h.at = "cbs" => /\ h \in OfAgent /\ h.do \in Requests \cup Moves \cup Others
                      /\ h.do = "putToken" => h.cb.id \in Ids
  BY <1>1 DEF Items, OfAgent, OfLinks, OfLink, LinkNames
<1>6. h.at \in LinkNames => h \in OfLink
  BY <1>2 DEF OfLink
<1>7. ASSUME NEW i \in Ids
      PROVE  /\ h \in C(i) <=> \/ h.at = "cbs" /\ h.do \in Moves /\ h.cb.id = i
                               \/ h.at # "cbs" /\ Carries(h.cb, i)
             /\ h \in T(i) <=> h.at = "cbs" /\ h.do = "putToken" /\ h.cb.id = i
             /\ h \in A(i) <=> h.at = "cbs" /\ h.do = "answered" /\ h.cb.id = i /\ ~h.err
  BY <1>1 DEF C, T, A
<1>8. QED
  BY <1>1, <1>3, <1>4, <1>5, <1>6, <1>7

\* A callback in the chain is that of a call which puts no token; one that waits is of a
\* token that was not put, and is nowhere else.
LEMMA PlaceMeans ==
  ASSUME IInv, NEW i \in Ids
  PROVE  /\ Chain(i) > 0 => i \in DOMAIN calls /\ calls[i].kind # "putToken"
         /\ Waiting(i) > 0 => /\ i \in DOMAIN calls /\ ~calls[i].put /\ Chain(i) = 0
                              /\ Waiting(i) = 1 /\ Out(i) = 0 /\ ToldOf(i) = 0
<1>1. /\ Chain(i) \in Nat /\ Waiting(i) \in Nat /\ Out(i) \in Nat /\ ToldOf(i) \in Nat
  BY PlacesNat DEF IInv
<1>2. /\ Chain(i) + Waiting(i) + Out(i) + ToldOf(i) <= One(i \in DOMAIN calls)
      /\ i \in DOMAIN calls /\ calls[i].kind = "putToken" => Chain(i) = 0
  BY DEF IInv, Accounted
<1>3. One(i \in DOMAIN calls) = IF i \in DOMAIN calls THEN 1 ELSE 0
  BY DEF One
<1>4. i \in DOMAIN calls /\ calls[i].put => Waiting(i) = 0
  BY DEF IInv, Granted
<1>5. CASE i \in DOMAIN calls
  <2>1. Chain(i) + Waiting(i) + Out(i) + ToldOf(i) <= 1
    BY <1>2, <1>3, <1>5
  <2>2. Waiting(i) > 0 => Chain(i) = 0 /\ Waiting(i) = 1 /\ Out(i) = 0 /\ ToldOf(i) = 0
    BY <1>1, <2>1
  <2>3. QED
    BY <1>1, <1>2, <1>4, <1>5, <2>2
<1>6. CASE i \notin DOMAIN calls
  <2>1. Chain(i) + Waiting(i) + Out(i) + ToldOf(i) <= 0
    BY <1>2, <1>3, <1>6
  <2>2. QED
    BY <1>1, <2>1
<1>7. QED
  BY <1>5, <1>6

\* So it is of the head of the agenda.
LEMMA HeadMeans ==
  ASSUME IInv, agenda # <<>>, NEW i \in Ids
  PROVE  /\ Head(agenda) \in C(i) => i \in DOMAIN calls /\ calls[i].kind # "putToken"
         /\ Head(agenda) \in T(i) =>
              /\ i \in DOMAIN calls /\ ~calls[i].put /\ Chain(i) = 0 /\ Waiting(i) = 1
              /\ Out(i) = 0 /\ ToldOf(i) = 0
<1>1. Typed /\ agenda \in Seq(Items)
  BY DEF IInv, Typed
<1>2. /\ Count(agenda, C(i)) \in Nat /\ Count(agenda, T(i)) \in Nat
      /\ Elsewhere(i) \in Nat /\ Later(i) \in Nat
  BY <1>1, PlacesNat
<1>3. \A S : Head(agenda) \in S => Count(agenda, S) # 0
  <2>1. ASSUME NEW S, Head(agenda) \in S
        PROVE  Count(agenda, S) # 0
    <3>1. Has(agenda, S)
      BY <1>1, <2>1, HasHeadTail
    <3>2. QED
      BY <1>1, <3>1, CountHas
  <2>2. QED
    BY <2>1
<1>4. Head(agenda) \in C(i) => Chain(i) > 0
  BY <1>2, <1>3 DEF Chain
<1>5. Head(agenda) \in T(i) => Waiting(i) > 0
  BY <1>2, <1>3 DEF Waiting
<1>6. QED
  BY <1>4, <1>5, PlaceMeans

\* Who may be told that all is well.
LEMMA TruthfulFacts ==
  ASSUME Typed, NEW ids, NEW err \in BOOLEAN, AnswerAll(ids, err),
         \A i \in DOMAIN calls : i \in ids =>
            err \/ calls[i].kind # "putToken" \/ i \in granted \/ ~calls[i].put
  PROVE  Truthful
<1>1. \A i \in DOMAIN calls :
        /\ calls'[i].put = calls[i].put
        /\ i \in ids => /\ calls'[i].answered > 0
                        /\ calls'[i].answer = IF err THEN "err" ELSE "ok"
        /\ i \notin ids => calls'[i] = calls[i]
  BY AnswerFacts
<1>2. ASSUME NEW i \in DOMAIN calls
      PROVE  /\ calls'[i].put = calls[i].put
             /\ \/ calls'[i].answer # "ok"
                \/ calls'[i].answer = calls[i].answer /\ calls'[i].answered = calls[i].answered
                \/ /\ calls'[i].answered > 0
                   /\ calls[i].kind = "putToken" => i \in granted \/ ~calls[i].put
  <2>1. CASE i \in ids /\ err
    BY <1>1, <2>1
  <2>2. CASE i \in ids /\ ~err
    BY <1>1, <2>2
  <2>3. CASE i \notin ids
    BY <1>1, <2>3
  <2>4. QED
    BY <2>1, <2>2, <2>3
<1>3. QED
  BY <1>2 DEF Truthful

-----------------------------------------------------------------------------
(* The steps that leave all but the machine.                               *)

\* What such a step leaves.
LEMMA StillFacts ==
  ASSUME OnlyMachine, UNCHANGED <<events, examining, expired>>
  PROVE  Still
BY DEF OnlyMachine, Still, sends, tokens, peer

\* A step that calls no callback.
LEMMA ToldSame ==
  ASSUME Typed, \A i \in Ids : ToldOf(i)' = ToldOf(i)
  PROVE  \A i \in Ids : ToldOf(i)' <= ToldOf(i) + One(Head(agenda) \in C(i))
<1>1. ASSUME NEW a \in Nat, NEW b, NEW o \in {0, 1}, b = a
      PROVE  b <= a + o
  BY <1>1
<1>2. ASSUME NEW i \in Ids
      PROVE  ToldOf(i)' <= ToldOf(i) + One(Head(agenda) \in C(i))
  <2>1. ToldOf(i) \in Nat
    BY PlacesNat
  <2>2. One(Head(agenda) \in C(i)) \in {0, 1}
    BY OneFacts
  <2>3. ToldOf(i)' = ToldOf(i)
    OBVIOUS
  <2>4. QED
    BY <1>1, <2>1, <2>2, <2>3
<1>3. QED
  BY <1>2

\* An item is left out.
LEMMA IgnoreSound ==
  ASSUME IInv, agenda # <<>>, UNCHANGED <<events, examining, expired>>, Ignore(Tail(agenda))
  PROVE  Sound
<1>1. /\ Typed /\ Still /\ calls' = calls /\ state' = state /\ agenda' = Tail(agenda)
  BY StillFacts DEF IInv, Ignore
<1>2. CallsKept /\ Truthful /\ \A i \in Ids : ToldOf(i)' = ToldOf(i)
  BY <1>1, NoAnswerFacts
<1>3. \A i \in Ids : ToldOf(i)' <= ToldOf(i) + One(Head(agenda) \in C(i))
  BY <1>1, <1>2, ToldSame
<1>4. Onward(<<>>) /\ GoesOn(<<>>)
  <2>1. Tail(agenda) \in Seq(Items)
    BY <1>1, HeadTailProperties DEF Typed
  <2>2. QED
    BY <1>1, <1>2, <1>3, <2>1, OnwardNone DEF GoesOn
<1>5. state' \in LinkStates
  BY <1>1 DEF Typed
<1>6. QED
  BY <1>1, <1>2, <1>4, <1>5, MachineSound

\* The turn goes on with the rest only, and the callback of the head may be called.
LEMMA RestSound ==
  ASSUME IInv, agenda # <<>>, Still, state' \in LinkStates, agenda' = Tail(agenda),
         CallsKept, Truthful,
         \A i \in Ids : ToldOf(i)' <= ToldOf(i) + One(Head(agenda) \in C(i))
  PROVE  Sound
<1>1. Typed
  BY DEF IInv
<1>2. Onward(<<>>)
  BY <1>1, OnwardNone
<1>3. GoesOn(<<>>)
  <2>1. Tail(agenda) \in Seq(Items)
    BY <1>1, HeadTailProperties DEF Typed
  <2>2. QED
    BY <2>1 DEF GoesOn
<1>4. QED
  BY <1>2, <1>3, MachineSound

\* So it may when the turn goes on with items that have none.
LEMMA AnswersSound ==
  ASSUME IInv, agenda # <<>>, Still, state' \in LinkStates, NEW new \in Seq(Items),
         agenda' = new \o Tail(agenda), CallsKept, Truthful,
         \A i \in Ids : /\ ToldOf(i)' <= ToldOf(i) + One(Head(agenda) \in C(i))
                        /\ Count(new, C(i)) = 0 /\ Count(new, T(i)) = 0 /\ ~Has(new, A(i))
  PROVE  Sound
<1>1. Typed
  BY DEF IInv
<1>2. ASSUME NEW i \in Ids
      PROVE  /\ Count(new, C(i)) + ToldOf(i)' <= One(Head(agenda) \in C(i)) + ToldOf(i)
             /\ Count(new, C(i)) <= One(Head(agenda) \in C(i))
             /\ Count(new, T(i)) <= One(Head(agenda) \in T(i))
             /\ ~Has(new, A(i))
  <2>1. One(Head(agenda) \in C(i)) \in {0, 1} /\ One(Head(agenda) \in T(i)) \in {0, 1}
    BY OneFacts
  <2>2. ToldOf(i)' \in Nat /\ ToldOf(i) \in Nat
    BY <1>1, ToldNext, PlacesNat
  <2>3. QED
    BY <2>1, <2>2
<1>3. Onward(new)
  BY <1>2 DEF Onward
<1>4. GoesOn(new)
  BY DEF GoesOn
<1>5. QED
  BY <1>3, <1>4, MachineSound

\* A transition carries the callback of the head, or loses it.
LEMMA TransitionSound ==
  ASSUME IInv, agenda # <<>>, Still, NEW to \in LinkStates, NEW id \in Nat, NEW err \in BOOLEAN,
         Transition(to, id, err, Tail(agenda)),
         \A i \in Ids : id = i => Head(agenda) \in C(i)
  PROVE  Sound
<1>1. Typed
  BY DEF IInv
<1>2. CASE to = state
  <2>1. state' = state /\ agenda' = Tail(agenda) /\ Drop(id)
    BY <1>2 DEF Transition
  <2>2. CallsKept /\ Truthful /\ \A i \in Ids : ToldOf(i)' = ToldOf(i)
    BY <1>1, <2>1, DropFacts
  <2>3. \A i \in Ids : ToldOf(i)' <= ToldOf(i) + One(Head(agenda) \in C(i))
    BY <1>1, <2>2, ToldSame
  <2>4. QED
    BY <1>2, <2>1, <2>2, <2>3, RestSound
<1>3. CASE to # state
  <2> DEFINE x == Agent("enter", id, err)
  <2>1. state' = to /\ agenda' = <<x>> \o Tail(agenda) /\ calls' = calls
    BY <1>3 DEF Transition
  <2>2. CallsKept /\ Truthful /\ \A i \in Ids : ToldOf(i)' = ToldOf(i)
    BY <1>1, <2>1, NoAnswerFacts
  <2>3. /\ x \in Items
        /\ \A i \in Ids : (x \in C(i) => id = i) /\ x \notin T(i) /\ x \notin A(i)
    BY AgentFacts DEF Moves
  <2> HIDE DEF x
  <2>4. Onward(<<x>>) /\ <<x>> \in Seq(Items)
    BY <1>1, <2>2, <2>3, OnwardOne
  <2>5. GoesOn(<<x>>)
    BY <2>1, <2>4 DEF GoesOn
  <2>6. QED
    BY <2>1, <2>2, <2>4, <2>5, MachineSound
<1>4. QED
  BY <1>2, <1>3

\* The callback of the head is called.
LEMMA AnswerNowSound ==
  ASSUME IInv, agenda # <<>>, UNCHANGED <<events, examining, expired>>,
         NEW id \in Nat, AnswerNow(id, Tail(agenda)),
         \A i \in Ids : id = i => Head(agenda) \in C(i)
  PROVE  Sound
<1>1. /\ Typed /\ Still /\ AnswerAll({id}, FALSE) /\ state' = state /\ agenda' = Tail(agenda)
  BY StillFacts DEF IInv, AnswerNow
<1>2. /\ CallsKept /\ \A i \in Ids : ToldOf(i)' <= ToldOf(i) + One(i \in {id})
  BY <1>1, AnswerFacts
<1>3. Truthful
  <2>1. \A i \in DOMAIN calls : i \in {id} => calls[i].kind # "putToken"
    BY <1>1, CallsInIds, HeadMeans
  <2>2. QED
    BY <1>1, <2>1, TruthfulFacts
<1>4. ASSUME NEW i \in Ids
      PROVE  ToldOf(i)' <= ToldOf(i) + One(Head(agenda) \in C(i))
  <2>1. CASE i = id
    <3>1. One(i \in {id}) = 1 /\ One(Head(agenda) \in C(i)) = 1
      BY <2>1 DEF One
    <3>2. QED
      BY <1>2, <3>1
  <2>2. CASE i # id
    <3>1. One(i \in {id}) = 0 /\ One(Head(agenda) \in C(i)) \in {0, 1}
      BY <2>2, OneFacts DEF One
    <3>2. ToldOf(i) \in Nat /\ ToldOf(i)' \in Nat
      BY <1>1, <1>2, PlacesNat, ToldNext
    <3>3. QED
      BY <1>2, <3>1, <3>2
  <2>3. QED
    BY <2>1, <2>2
<1>5. state' \in LinkStates
  BY <1>1 DEF Typed
<1>6. QED
  BY <1>1, <1>2, <1>3, <1>4, <1>5, RestSound

\* Nothing handles the item: its callback is lost.
LEMMA DropSound ==
  ASSUME IInv, agenda # <<>>, Still, NEW id, Drop(id), agenda' = Tail(agenda), state' = state
  PROVE  Sound
<1>1. Typed
  BY DEF IInv
<1>2. CallsKept /\ Truthful /\ \A i \in Ids : ToldOf(i)' = ToldOf(i)
  BY <1>1, DropFacts
<1>3. \A i \in Ids : ToldOf(i)' <= ToldOf(i) + One(Head(agenda) \in C(i))
  BY <1>1, <1>2, ToldSame
<1>4. state' \in LinkStates
  BY <1>1 DEF Typed
<1>5. QED
  BY <1>2, <1>3, <1>4, RestSound

\* The turn goes on with one item, with the callback that the head had.
LEMMA NextOneSound ==
  ASSUME IInv, agenda # <<>>, Still, state' \in LinkStates, calls' = calls,
         NEW x \in Items, agenda' = <<x>> \o Tail(agenda),
         \A i \in Ids : /\ x \in C(i) => Head(agenda) \in C(i)
                        /\ x \notin T(i) /\ x \notin A(i)
  PROVE  Sound
<1>1. Typed
  BY DEF IInv
<1>2. CallsKept /\ Truthful /\ \A i \in Ids : ToldOf(i)' = ToldOf(i)
  BY <1>1, NoAnswerFacts
<1>3. Onward(<<x>>) /\ <<x>> \in Seq(Items)
  BY <1>1, <1>2, OnwardOne
<1>4. GoesOn(<<x>>)
  BY <1>3 DEF GoesOn
<1>5. QED
  BY <1>2, <1>3, <1>4, MachineSound
-----------------------------------------------------------------------------
(* The steps of the turn that leave more than the machine.                 *)

\* The callbacks that a step of the turn takes from the head of the agenda are where
\* it puts them, or were called.
Fits(new) ==
  \A i \in Ids :
    /\ Count(new, C(i)) + Elsewhere(i)' <= One(Head(agenda) \in C(i)) + Elsewhere(i)
    /\ Count(new, T(i)) + Later(i)' <= One(Head(agenda) \in T(i)) + Later(i)
    /\ (Count(new, C(i)) + Elsewhere(i)') + (Count(new, T(i)) + Later(i)') + (Out(i)' + ToldOf(i)')
         <= (One(Head(agenda) \in C(i)) + Elsewhere(i)) + (One(Head(agenda) \in T(i)) + Later(i))
              + (Out(i) + ToldOf(i))

\* The sums of Fits, with the rest of the agenda.
LEMMA FitSums ==
  ASSUME NEW ac \in Nat, NEW bc \in Nat, NEW nc \in Nat, NEW hc \in {0, 1},
         NEW at \in Nat, NEW bt \in Nat, NEW nt \in Nat, NEW ht \in {0, 1},
         NEW e \in Nat, NEW f \in Nat, NEW l \in Nat, NEW m \in Nat, NEW u \in Nat, NEW v \in Nat,
         bc + hc = ac + nc, bt + ht = at + nt,
         nc + f <= hc + e, nt + m <= ht + l,
         (nc + f) + (nt + m) + v <= (hc + e) + (ht + l) + u
  PROVE  /\ bc + f <= ac + e /\ bt + m <= at + l
         /\ (bc + f) + (bt + m) + v <= (ac + e) + (at + l) + u
OBVIOUS

\* Such a step is sound.
LEMMA TurnSound ==
  ASSUME IInv, agenda # <<>>, NEW new, GoesOn(new), Fits(new), Typed', CallsKept, Truthful,
         HandsOn, Watched', granted' = granted, \A i \in Ids : ~Has(new, A(i))
  PROVE  Sound
<1>1. Typed
  BY DEF IInv
<1>2. \A S : /\ Count(agenda', S) \in Nat /\ Count(agenda, S) \in Nat
             /\ Count(new, S) \in Nat
             /\ Count(agenda', S) + One(Head(agenda) \in S) = Count(agenda, S) + Count(new, S)
             /\ Has(agenda', S) => Has(new, S) \/ Has(agenda, S)
  BY <1>1, TurnFacts
<1>3. Lawful
  <2>1. SUFFICES ASSUME NEW i \in Ids
                 PROVE  /\ Chain(i)' <= Chain(i) /\ Waiting(i)' <= Waiting(i)
                        /\ Chain(i)' + Waiting(i)' + Out(i)' + ToldOf(i)'
                             <= Chain(i) + Waiting(i) + Out(i) + ToldOf(i)
    BY DEF Lawful
  <2>2. /\ Chain(i) = Count(agenda, C(i)) + Elsewhere(i)
        /\ Waiting(i) = Count(agenda, T(i)) + Later(i)
        /\ Chain(i)' = Count(agenda', C(i)) + Elsewhere(i)'
        /\ Waiting(i)' = Count(agenda', T(i)) + Later(i)'
    BY DEF Chain, Waiting
  <2>3. /\ Elsewhere(i) \in Nat /\ Later(i) \in Nat /\ Out(i) \in Nat /\ ToldOf(i) \in Nat
        /\ Elsewhere(i)' \in Nat /\ Later(i)' \in Nat /\ Out(i)' \in Nat /\ ToldOf(i)' \in Nat
    BY <1>1, PlacesNat, PlacesNatNext
  <2>4. /\ Count(agenda', C(i)) \in Nat /\ Count(agenda, C(i)) \in Nat /\ Count(new, C(i)) \in Nat
        /\ Count(agenda', C(i)) + One(Head(agenda) \in C(i)) = Count(agenda, C(i)) + Count(new, C(i))
    BY <1>2
  <2>5. /\ Count(agenda', T(i)) \in Nat /\ Count(agenda, T(i)) \in Nat /\ Count(new, T(i)) \in Nat
        /\ Count(agenda', T(i)) + One(Head(agenda) \in T(i)) = Count(agenda, T(i)) + Count(new, T(i))
    BY <1>2
  <2>6. One(Head(agenda) \in C(i)) \in {0, 1} /\ One(Head(agenda) \in T(i)) \in {0, 1}
    BY OneFacts
  <2>7. /\ Count(new, C(i)) + Elsewhere(i)' <= One(Head(agenda) \in C(i)) + Elsewhere(i)
        /\ Count(new, T(i)) + Later(i)' <= One(Head(agenda) \in T(i)) + Later(i)
        /\ (Count(new, C(i)) + Elsewhere(i)') + (Count(new, T(i)) + Later(i)')
               + (Out(i)' + ToldOf(i)')
             <= (One(Head(agenda) \in C(i)) + Elsewhere(i)) + (One(Head(agenda) \in T(i)) + Later(i))
                  + (Out(i) + ToldOf(i))
    BY DEF Fits
  <2>8. Out(i) + ToldOf(i) \in Nat /\ Out(i)' + ToldOf(i)' \in Nat
    BY <2>3
  <2>9. /\ Count(agenda', C(i)) + Elsewhere(i)' <= Count(agenda, C(i)) + Elsewhere(i)
        /\ Count(agenda', T(i)) + Later(i)' <= Count(agenda, T(i)) + Later(i)
        /\ (Count(agenda', C(i)) + Elsewhere(i)') + (Count(agenda', T(i)) + Later(i)')
               + (Out(i)' + ToldOf(i)')
             <= (Count(agenda, C(i)) + Elsewhere(i)) + (Count(agenda, T(i)) + Later(i))
                  + (Out(i) + ToldOf(i))
    <3> DEFINE ac == Count(agenda, C(i))
               bc == Count(agenda', C(i))
               nc == Count(new, C(i))
               hc == One(Head(agenda) \in C(i))
               at == Count(agenda, T(i))
               bt == Count(agenda', T(i))
               nt == Count(new, T(i))
               ht == One(Head(agenda) \in T(i))
               e == Elsewhere(i)
               f == Elsewhere(i)'
               l == Later(i)
               m == Later(i)'
               u == Out(i) + ToldOf(i)
               v == Out(i)' + ToldOf(i)'
    <3>1. /\ ac \in Nat /\ bc \in Nat /\ nc \in Nat /\ hc \in {0, 1}
          /\ at \in Nat /\ bt \in Nat /\ nt \in Nat /\ ht \in {0, 1}
          /\ e \in Nat /\ f \in Nat /\ l \in Nat /\ m \in Nat /\ u \in Nat /\ v \in Nat
          /\ bc + hc = ac + nc /\ bt + ht = at + nt
          /\ nc + f <= hc + e /\ nt + m <= ht + l
          /\ (nc + f) + (nt + m) + v <= (hc + e) + (ht + l) + u
      BY <2>3, <2>4, <2>5, <2>6, <2>7, <2>8
    <3> HIDE DEF ac, bc, nc, hc, at, bt, nt, ht, e, f, l, m, u, v
    <3>2. /\ bc + f <= ac + e /\ bt + m <= at + l
          /\ (bc + f) + (bt + m) + v <= (ac + e) + (at + l) + u
      BY <3>1, FitSums
    <3>3. QED
      BY <3>2 DEF ac, bc, at, bt, e, f, l, m, u, v
  <2>10. /\ Chain(i)' <= Chain(i) /\ Waiting(i)' <= Waiting(i)
         /\ Chain(i)' + Waiting(i)' + (Out(i)' + ToldOf(i)')
              <= Chain(i) + Waiting(i) + (Out(i) + ToldOf(i))
    BY <2>2, <2>9
  <2>11. /\ Chain(i) \in Nat /\ Waiting(i) \in Nat /\ Chain(i)' \in Nat /\ Waiting(i)' \in Nat
    BY <1>1, PlacesNat, PlacesNatNext
  <2>12. QED
    BY <2>3, <2>10, <2>11
<1>4. \A i \in Ids : Has(agenda', A(i)) => Has(agenda, A(i)) \/ i \in granted'
  BY <1>2
<1>5. QED
  BY <1>3, <1>4 DEF Sound
-----------------------------------------------------------------------------
(* The agent with its links.                                               *)

\* A callback that the agent gives to a link.
LEMMA CallbackFacts ==
  ASSUME NEW fn \in {"-", "owner", "sender", "receiver", "each", "auto"}, NEW id \in Nat
  PROVE  /\ Callback(fn, id) \in Callbacks
         /\ \A i : Carries(Callback(fn, id), i) <=> fn \in LinkNames /\ id = i
BY DEF Callback, Callbacks, Carries

\* An input of a link, as an item of the agenda.
LEMMA LinkItemFacts ==
  ASSUME NEW at \in LinkNames, NEW do \in LinkInputs, NEW cb \in Callbacks, NEW err \in BOOLEAN
  PROVE  /\ Input(at, do, cb, err) \in Items /\ Input(at, do, cb, err) \in OfLink
         /\ \A i \in Ids : /\ Input(at, do, cb, err) \in C(i) <=> Carries(cb, i)
                           /\ Input(at, do, cb, err) \notin T(i)
                           /\ Input(at, do, cb, err) \notin A(i)
<1> DEFINE x == Input(at, do, cb, err)
<1>1. /\ x.at = at /\ x.cb = cb /\ at # "cbs"
      /\ x = [at |-> at, do |-> do, cb |-> cb, err |-> err, about |-> 0]
  BY DEF Input, LinkNames
<1>2. do \in Dos
  BY DEF Dos
<1>3. x \in Inputs
  BY <1>1, <1>2 DEF Inputs, LinkNames
<1> HIDE DEF x
<1>4. x \in OfLink /\ x \in Items
  BY <1>1, <1>3 DEF OfLink, OfLinks, Items
<1>5. ASSUME NEW i \in Ids
      PROVE  (x \in C(i) <=> Carries(cb, i)) /\ x \notin T(i) /\ x \notin A(i)
  BY <1>1, <1>4 DEF C, T, A
<1>6. QED
  BY <1>4, <1>5 DEF x

\* An element at the end.
LEMMA AppendFacts ==
  ASSUME NEW U, NEW s \in Seq(U), NEW y \in U
  PROVE  /\ Append(s, y) \in Seq(U) /\ Len(Append(s, y)) = Len(s) + 1
         /\ \A i \in 1..Len(s) : Append(s, y)[i] = s[i]
         /\ Append(s, y)[Len(s) + 1] = y
BY AppendProperties

\* Two sequences of two elements.
LEMMA PairEqual ==
  ASSUME NEW U, NEW q \in Seq(U), NEW p \in Seq(U), Len(q) = 2, Len(p) = 2,
         q[1] = p[1], q[2] = p[2]
  PROVE  q = p
<1>1. \A i \in 1..2 : q[i] = p[i]
  OBVIOUS
<1>2. QED
  BY <1>1, SeqEqual

\* Two items one after the other.
LEMMA PairFacts ==
  ASSUME NEW x, NEW y
  PROVE  <<x, y>> = <<x>> \o <<y>>
<1>1. <<x>> \in Seq({x, y}) /\ y \in {x, y}
  OBVIOUS
<1>2. /\ <<x, y>> \in Seq({x, y}) /\ Len(<<x>>) = 1 /\ Len(<<x, y>>) = 2
      /\ <<x>>[1] = x /\ <<x, y>>[1] = x /\ <<x, y>>[2] = y
  OBVIOUS
<1>3. /\ Append(<<x>>, y) \in Seq({x, y}) /\ Len(Append(<<x>>, y)) = Len(<<x>>) + 1
      /\ \A i \in 1..Len(<<x>>) : Append(<<x>>, y)[i] = <<x>>[i]
      /\ Append(<<x>>, y)[Len(<<x>>) + 1] = y
  BY <1>1, AppendFacts, Zenon
<1>4. Len(<<x>>) + 1 = 2 /\ 1 \in 1..Len(<<x>>)
  BY <1>2
<1>5. Len(Append(<<x>>, y)) = 2 /\ Append(<<x>>, y)[1] = x /\ Append(<<x>>, y)[2] = y
  BY <1>2, <1>3, <1>4, Zenon
<1>6. <<x, y>> = Append(<<x>>, y)
  BY <1>2, <1>3, <1>5, PairEqual, Zenon
<1>7. QED
  BY <1>1, <1>6, AppendIsConcat, Zenon

\* attaching._onEnter.
LEMMA EnterAttachingSound ==
  ASSUME IInv, agenda # <<>>, UNCHANGED <<events, examining, expired>>, NEW id \in Nat,
         EnterAttaching(id, Tail(agenda)), \A i \in Ids : id = i => Head(agenda) \in C(i)
  PROVE  Sound
<1> DEFINE cb == Callback("sender", id)
           x == Input("sender", "attach", cb, FALSE)
<1>1. Typed /\ Still /\ calls' = calls /\ state' = state /\ agenda' = <<x>> \o Tail(agenda)
  BY StillFacts DEF EnterAttaching, IInv
<1>2. cb \in Callbacks /\ \A i : Carries(cb, i) => id = i
  BY CallbackFacts
<1> HIDE DEF cb
<1>3. x \in Items /\ \A i \in Ids : (x \in C(i) => id = i) /\ x \notin T(i) /\ x \notin A(i)
  <2>1. "sender" \in LinkNames /\ "attach" \in LinkInputs
    BY DEF LinkNames, LinkInputs
  <2>2. QED
    BY <1>2, <2>1, LinkItemFacts
<1>4. state' \in LinkStates
  BY <1>1 DEF Typed
<1> HIDE DEF x
<1>5. QED
  BY <1>1, <1>3, <1>4, NextOneSound

\* The callback of the sender's attach.
LEMMA SenderAttachedSound ==
  ASSUME IInv, agenda # <<>>, UNCHANGED <<events, examining, expired>>,
         NEW id \in Nat, NEW err \in BOOLEAN,
         SenderAttached(id, err, Tail(agenda)), \A i \in Ids : id = i => Head(agenda) \in C(i)
  PROVE  Sound
<1>1. Typed /\ Still
  BY StillFacts DEF SenderAttached, IInv
<1>2. CASE err
  <2>1. Transition("detaching", id, TRUE, Tail(agenda)) /\ "detaching" \in LinkStates
    BY <1>2 DEF SenderAttached, LinkStates
  <2>2. QED
    BY <1>1, <2>1, TransitionSound
<1>3. CASE ~err
  <2> DEFINE cb == Callback("receiver", id)
             x == Input("receiver", "attach", cb, FALSE)
  <2>1. agenda' = <<x>> \o Tail(agenda) /\ state' = state /\ calls' = calls
    BY <1>3 DEF SenderAttached
  <2>2. cb \in Callbacks /\ \A i : Carries(cb, i) => id = i
    BY CallbackFacts
  <2> HIDE DEF cb
  <2>3. x \in Items /\ \A i \in Ids : (x \in C(i) => id = i) /\ x \notin T(i) /\ x \notin A(i)
    <3>1. "receiver" \in LinkNames /\ "attach" \in LinkInputs
      BY DEF LinkNames, LinkInputs
    <3>2. QED
      BY <2>2, <3>1, LinkItemFacts
  <2>4. state' \in LinkStates
    BY <1>1, <2>1 DEF Typed
  <2> HIDE DEF x
  <2>5. QED
    BY <1>1, <2>1, <2>3, <2>4, NextOneSound
<1>4. QED
  BY <1>2, <1>3

\* The callback of the receiver's attach: a listener, then the transition.
LEMMA ReceiverAttachedSound ==
  ASSUME IInv, agenda # <<>>, UNCHANGED <<events, examining, expired>>,
         NEW id \in Nat, NEW err \in BOOLEAN,
         ReceiverAttached(id, err, Tail(agenda)), \A i \in Ids : id = i => Head(agenda) \in C(i)
  PROVE  Sound
<1>1. Typed
  BY DEF IInv
<1>2. CASE err
  <2>1. /\ Transition("detaching", id, TRUE, Tail(agenda)) /\ Still
        /\ "detaching" \in LinkStates
    BY <1>2, StillFacts DEF ReceiverAttached, LinkStates
  <2>2. QED
    BY <2>1, TransitionSound
<1>3. CASE ~err
  <2> DEFINE y == Input("receiver", "attach", NoCallback, FALSE)
             x == Agent("toAttached", id, FALSE)
  <2>1. agenda' = <<y, x>> \o Tail(agenda) /\ state' = state /\ calls' = calls /\ Still
    BY <1>3 DEF ReceiverAttached, Still, sends, tokens, peer
  <2>2. y \in Items /\ \A i \in Ids : y \notin C(i) /\ y \notin T(i) /\ y \notin A(i)
    <3>1. "receiver" \in LinkNames /\ "attach" \in LinkInputs
      BY DEF LinkNames, LinkInputs
    <3>2. \A i \in Ids : NoCallback \in Callbacks /\ ~Carries(NoCallback, i)
      BY NoCallbackFacts
    <3>3. NoCallback \in Callbacks
      BY CallbackFacts DEF NoCallback
    <3>4. QED
      BY <3>1, <3>2, <3>3, LinkItemFacts
  <2>3. /\ x \in Items
        /\ \A i \in Ids : (x \in C(i) => id = i) /\ x \notin T(i) /\ x \notin A(i)
    BY AgentFacts DEF Moves
  <2>4. CallsKept /\ Truthful /\ \A i \in Ids : ToldOf(i)' = ToldOf(i)
    BY <1>1, <2>1, NoAnswerFacts
  <2>5. state' \in LinkStates
    BY <1>1, <2>1 DEF Typed
  <2> HIDE DEF x, y
  <2>6. <<y, x>> = <<y>> \o <<x>>
    BY PairFacts
  <2>7. Onward(<<y>> \o <<x>>) /\ <<y>> \o <<x>> \in Seq(Items)
    BY <1>1, <2>2, <2>3, <2>4, OnwardTwo
  <2>8. GoesOn(<<y>> \o <<x>>)
    BY <2>1, <2>6, <2>7 DEF GoesOn
  <2>9. QED
    BY <2>1, <2>4, <2>5, <2>7, <2>8, MachineSound
<1>4. QED
  BY <1>2, <1>3
-----------------------------------------------------------------------------
(* Items without a callback.                                               *)

Blank == {x \in Items : \A i \in Ids : x \notin C(i) /\ x \notin T(i) /\ x \notin A(i)}

\* They count for nothing.
LEMMA BlankFacts ==
  ASSUME NEW s \in Seq(Blank)
  PROVE  /\ s \in Seq(Items)
         /\ \A i \in Ids : Count(s, C(i)) = 0 /\ Count(s, T(i)) = 0 /\ ~Has(s, A(i))
<1>1. s \in Seq(Items)
  BY SeqWiden DEF Blank
<1>2. ASSUME NEW i \in Ids
      PROVE  Count(s, C(i)) = 0 /\ Count(s, T(i)) = 0 /\ ~Has(s, A(i))
  <2>1. C(i) \cap Blank = {} /\ T(i) \cap Blank = {} /\ A(i) \cap Blank = {}
    BY DEF Blank
  <2>2. Count(s, C(i)) = 0 /\ Count(s, T(i)) = 0 /\ Count(s, A(i)) = 0
    BY <2>1, CountNone
  <2>3. QED
    BY <2>2, CountHas
<1>3. QED
  BY <1>1, <1>2

\* The turn goes on with such items.
LEMMA BlankSound ==
  ASSUME IInv, agenda # <<>>, Still, state' \in LinkStates, calls' = calls,
         NEW new \in Seq(Blank), agenda' = new \o Tail(agenda)
  PROVE  Sound
<1>1. Typed
  BY DEF IInv
<1>2. CallsKept /\ Truthful /\ \A i \in Ids : ToldOf(i)' = ToldOf(i)
  BY <1>1, NoAnswerFacts
<1>3. GoesOn(new)
  BY BlankFacts DEF GoesOn
<1>4. ASSUME NEW i \in Ids
      PROVE  /\ Count(new, C(i)) + ToldOf(i)' <= One(Head(agenda) \in C(i)) + ToldOf(i)
             /\ Count(new, C(i)) <= One(Head(agenda) \in C(i))
             /\ Count(new, T(i)) <= One(Head(agenda) \in T(i))
             /\ ~Has(new, A(i))
  <2>1. Count(new, C(i)) = 0 /\ Count(new, T(i)) = 0 /\ ~Has(new, A(i))
    BY BlankFacts
  <2>2. One(Head(agenda) \in C(i)) \in {0, 1} /\ One(Head(agenda) \in T(i)) \in {0, 1}
    BY OneFacts
  <2>3. ToldOf(i)' = ToldOf(i) /\ ToldOf(i) \in Nat
    BY <1>1, <1>2, PlacesNat
  <2>4. QED
    BY <2>1, <2>2, <2>3
<1>5. Onward(new)
  BY <1>4 DEF Onward
<1>6. QED
  BY <1>2, <1>3, <1>5, MachineSound

\* An input of a link without a callback of a call, and an item of the agent without one.
LEMMA BlankItems ==
  /\ \A at \in LinkNames, do \in LinkInputs, err \in BOOLEAN :
       Input(at, do, NoCallback, err) \in Blank
  /\ \A at \in LinkNames, do \in LinkInputs, fn \in {"each", "auto"}, id \in Nat, err \in BOOLEAN :
       Input(at, do, Callback(fn, id), err) \in Blank
  /\ \A do \in Moves, err \in BOOLEAN : Agent(do, 0, err) \in Blank
  /\ \A id \in Ids : /\ Agent("answered", id, TRUE) \in Blank
                       /\ Agent("failKey", id, TRUE) \in Blank
  /\ Agent("replay", 0, FALSE) \in Blank /\ Agent("putQueued", 0, FALSE) \in Blank
<1>1. ASSUME NEW at \in LinkNames, NEW do \in LinkInputs, NEW fn \in {"-", "each", "auto"},
             NEW id \in Nat, NEW err \in BOOLEAN
      PROVE  Input(at, do, Callback(fn, id), err) \in Blank
  <2> DEFINE cb == Callback(fn, id)
  <2>1. cb \in Callbacks /\ \A i : ~Carries(cb, i)
    BY CallbackFacts DEF LinkNames
  <2> HIDE DEF cb
  <2>2. Input(at, do, cb, err) \in Blank
    BY <2>1, LinkItemFacts DEF Blank
  <2>3. QED
    BY <2>2 DEF cb
<1>2. \A at \in LinkNames, do \in LinkInputs, err \in BOOLEAN :
        Input(at, do, NoCallback, err) \in Blank
  BY <1>1 DEF NoCallback
<1>3. ASSUME NEW do \in Moves, NEW err \in BOOLEAN
      PROVE  Agent(do, 0, err) \in Blank
  <2>1. do \in Requests \cup Moves \cup Others /\ do # "putToken" /\ do # "answered"
    BY DEF Moves, Others
  <2>2. \A i \in Ids : i # 0
    BY CbsAssumption DEF Ids
  <2>3. QED
    BY <2>1, <2>2, AgentFacts DEF Blank
<1>4. /\ \A do \in Others : do \notin Moves /\ do # "putToken"
      /\ "answered" \in Others /\ "failKey" \in Others /\ "replay" \in Others
      /\ "putQueued" \in Others
  BY DEF Moves, Others
<1>5. ASSUME NEW do \in Others, NEW id \in Nat, NEW err \in BOOLEAN, do # "answered" \/ err
      PROVE  Agent(do, id, err) \in Blank
  BY <1>4, <1>5, AgentFacts DEF Blank
<1>6. \A id \in Ids : id \in Nat
  BY CbsAssumption DEF Ids
<1>7. QED
  BY <1>1, <1>2, <1>3, <1>4, <1>5, <1>6

\* A sequence, by its elements.
LEMMA SeqByElements ==
  ASSUME NEW U, NEW n \in Nat, NEW f, f = [i \in 1..n |-> f[i]], \A i \in 1..n : f[i] \in U
  PROVE  f \in Seq(U) /\ Len(f) = n /\ DOMAIN f = 1..n
OBVIOUS

\* forceDetach: both links are told, then the agent goes to detached.
LEMMA ForceDetachSound ==
  ASSUME IInv, agenda # <<>>, UNCHANGED <<events, examining, expired>>, NEW order,
         order \in {<<"sender", "receiver">>, <<"receiver", "sender">>},
         ForceDetach(order, Tail(agenda))
  PROVE  Sound
<1> DEFINE f == [i \in 1..2 |-> Input(order[i], "forceDetach", NoCallback, FALSE)]
           z == Agent("toDetached", 0, FALSE)
<1>1. Typed /\ Still /\ calls' = calls /\ state' = state
  BY StillFacts DEF ForceDetach, IInv
<1>2. agenda' = f \o <<z>> \o Tail(agenda)
  BY DEF ForceDetach
<1>3. \A i \in 1..2 : order[i] \in LinkNames
  BY DEF LinkNames
<1>4. "forceDetach" \in LinkInputs /\ "toDetached" \in Moves
  BY DEF LinkInputs, Moves
<1>5. z \in Blank
  BY <1>4, BlankItems
<1>6. \A i \in 1..2 : Input(order[i], "forceDetach", NoCallback, FALSE) \in Blank
  BY <1>3, <1>4, BlankItems
<1>7. f \in Seq(Blank)
  <2>1. f = [i \in 1..2 |-> f[i]] /\ \A i \in 1..2 : f[i] \in Blank
    BY <1>6
  <2> HIDE DEF f
  <2>2. QED
    BY <2>1, SeqByElements
<1> HIDE DEF f, z
<1>8. <<z>> \in Seq(Blank) /\ f \o <<z>> \in Seq(Blank)
  BY <1>5, <1>7, ConcatProperties
<1>9. state' \in LinkStates
  BY <1>1 DEF Typed
<1>10. QED
  BY <1>1, <1>2, <1>8, <1>9, BlankSound
-----------------------------------------------------------------------------
(* The sends and the links.                                                *)

\* The numbers of the calls that the sender has handed over, in some order.
LEMMA PendingSeq ==
  ASSUME NEW S \in SUBSET Ids
  PROVE  SetToSeq(S) \in Seq(Ids)
<1> DEFINE n == Cardinality(S)
<1>1. Ids = 1..MaxCalls /\ MaxCalls \in Nat
  BY CbsAssumption DEF Ids
<1>2. IsFiniteSet(Ids)
  BY <1>1, FS_Interval
<1>3. IsFiniteSet(S)
  BY <1>2, FS_Subset
<1>4. n \in Nat /\ ExistsBijection(1..n, S)
  BY <1>3, FS_CardinalityType
<1>5. PICK f : f \in Bijection(1..n, S)
  BY <1>4 DEF ExistsBijection
<1>6. f \in [1..n -> S] /\ IsInjective(f)
  BY <1>5 DEF Bijection, Injection
<1>7. \E g \in [1..n -> S] : IsInjective(g)
  BY <1>6
<1>8. SetToSeq(S) \in [1..n -> S]
  BY <1>7 DEF SetToSeq
<1>9. SetToSeq(S) = [i \in 1..n |-> SetToSeq(S)[i]] /\ \A i \in 1..n : SetToSeq(S)[i] \in Ids
  BY <1>8
<1>10. QED
  BY <1>4, <1>9, SeqByElements

\* A step of the turn that goes on with blank items, and leaves the callbacks.
LEMMA FitsBlank ==
  ASSUME Typed, agenda # <<>>, NEW new \in Seq(Blank),
         \A i \in Ids : /\ Elsewhere(i)' = Elsewhere(i) /\ Later(i)' = Later(i)
                        /\ Out(i)' = Out(i) /\ ToldOf(i)' = ToldOf(i)
  PROVE  Fits(new)
<1>1. ASSUME NEW e \in Nat, NEW l \in Nat, NEW o \in Nat, NEW t \in Nat, NEW hc \in {0, 1},
             NEW ht \in {0, 1}
      PROVE  /\ 0 + e <= hc + e /\ 0 + l <= ht + l
             /\ (0 + e) + (0 + l) + (o + t) <= (hc + e) + (ht + l) + (o + t)
  OBVIOUS
<1>2. ASSUME NEW i \in Ids
      PROVE  /\ Count(new, C(i)) + Elsewhere(i)' <= One(Head(agenda) \in C(i)) + Elsewhere(i)
             /\ Count(new, T(i)) + Later(i)' <= One(Head(agenda) \in T(i)) + Later(i)
             /\ (Count(new, C(i)) + Elsewhere(i)') + (Count(new, T(i)) + Later(i)')
                    + (Out(i)' + ToldOf(i)')
                  <= (One(Head(agenda) \in C(i)) + Elsewhere(i))
                       + (One(Head(agenda) \in T(i)) + Later(i)) + (Out(i) + ToldOf(i))
  <2>1. Count(new, C(i)) = 0 /\ Count(new, T(i)) = 0
    BY BlankFacts
  <2>2. One(Head(agenda) \in C(i)) \in {0, 1} /\ One(Head(agenda) \in T(i)) \in {0, 1}
    BY OneFacts
  <2>3. /\ Elsewhere(i) \in Nat /\ Later(i) \in Nat /\ Out(i) \in Nat /\ ToldOf(i) \in Nat
    BY PlacesNat
  <2>4. /\ Elsewhere(i)' = Elsewhere(i) /\ Later(i)' = Later(i)
        /\ Out(i)' = Out(i) /\ ToldOf(i)' = ToldOf(i)
    OBVIOUS
  <2>5. QED
    BY <1>1, <2>1, <2>2, <2>3, <2>4
<1>3. QED
  BY <1>2 DEF Fits

\* A step of the turn that leaves the callbacks, the tokens and the calls.
LEMMA AsideSound ==
  ASSUME IInv, agenda # <<>>, NEW new \in Seq(Blank), agenda' = new \o Tail(agenda),
         UNCHANGED <<state, deferred, each, notYetSent, outstanding, timer, granted, left, calls,
                     events, examining, expired>>,
         links' \in [LinkNames -> Links],
         \A i \in Ids : /\ Holds(links'["sender"], i) = Holds(links["sender"], i)
                        /\ Holds(links'["receiver"], i) = Holds(links["receiver"], i),
         unsent' \in Seq(Ids), pending' \in SUBSET Ids, HandsOn
  PROVE  Sound
<1>1. Typed /\ Watched
  BY DEF IInv
<1>2. GoesOn(new) /\ \A i \in Ids : ~Has(new, A(i))
  BY BlankFacts DEF GoesOn
<1>3. CallsKept /\ Truthful /\ \A i \in Ids : ToldOf(i)' = ToldOf(i)
  BY <1>1, NoAnswerFacts
<1>4. agenda' \in Seq(Items)
  BY <1>1, <1>2, TurnFacts
<1>5. Typed'
  BY <1>1, <1>3, <1>4 DEF Typed, CallsKept
<1>6. \A i \in Ids : /\ Elsewhere(i)' = Elsewhere(i) /\ Later(i)' = Later(i)
                     /\ Out(i)' = Out(i) /\ ToldOf(i)' = ToldOf(i)
  BY <1>3 DEF Elsewhere, Later, Out
<1>7. Fits(new)
  BY <1>1, <1>6, FitsBlank
<1>8. Watched'
  BY <1>1 DEF Watched
<1>9. QED
  BY <1>2, <1>3, <1>5, <1>7, <1>8, TurnSound

\* A step of the turn that leaves the links, the async.each and what is outstanding.
LEMMA MovesOn ==
  ASSUME IInv, agenda # <<>>, NEW new, GoesOn(new),
         UNCHANGED <<deferred, each, links, outstanding, granted, events, examining, expired>>,
         state' \in LinkStates, notYetSent' \in Seq(Ids), timer' \in Timers,
         unsent' \in Seq(Ids), pending' \in SUBSET Ids,
         CallsKept, Truthful, HandsOn, Watched',
         \A i \in Ids :
           /\ Count(new, C(i)) <= One(Head(agenda) \in C(i))
           /\ Count(new, T(i)) + Count(notYetSent', {i})
                <= One(Head(agenda) \in T(i)) + Count(notYetSent, {i})
           /\ Count(new, C(i)) + (Count(new, T(i)) + Count(notYetSent', {i})) + ToldOf(i)'
                <= One(Head(agenda) \in C(i))
                     + (One(Head(agenda) \in T(i)) + Count(notYetSent, {i})) + ToldOf(i)
           /\ ~Has(new, A(i))
  PROVE  Sound
<1>1. Typed
  BY DEF IInv
<1>2. /\ agenda' \in Seq(Items)
      /\ \A S : Count(new, S) \in Nat
  BY <1>1, TurnFacts
<1>3. Typed'
  BY <1>1, <1>2 DEF Typed, CallsKept
<1>4. ASSUME NEW i \in Ids
      PROVE  /\ Count(new, C(i)) + Elsewhere(i)' <= One(Head(agenda) \in C(i)) + Elsewhere(i)
             /\ Count(new, T(i)) + Later(i)' <= One(Head(agenda) \in T(i)) + Later(i)
             /\ (Count(new, C(i)) + Elsewhere(i)') + (Count(new, T(i)) + Later(i)')
                    + (Out(i)' + ToldOf(i)')
                  <= (One(Head(agenda) \in C(i)) + Elsewhere(i))
                       + (One(Head(agenda) \in T(i)) + Later(i)) + (Out(i) + ToldOf(i))
  <2> DEFINE nc == Count(new, C(i))
             nt == Count(new, T(i))
             hc == One(Head(agenda) \in C(i))
             ht == One(Head(agenda) \in T(i))
             n == Count(notYetSent, {i})
             m == Count(notYetSent', {i})
             d == Count(deferred, T(i))
             e == Elsewhere(i)
             o == Out(i)
             t == ToldOf(i)
             v == ToldOf(i)'
  <2>1. /\ nc \in Nat /\ nt \in Nat
    BY <1>2
  <2>2. hc \in {0, 1} /\ ht \in {0, 1}
    BY OneFacts
  <2>3. /\ n \in Nat /\ d \in Nat /\ e \in Nat /\ o \in Nat /\ t \in Nat
    BY <1>1, PlacesNat
  <2>4. m \in Nat /\ v \in Nat
    BY <1>3, PlacesNatNext, CountNat
  <2>5. /\ Elsewhere(i)' = e /\ Out(i)' = o /\ Later(i) = d + n /\ Later(i)' = d + m
    BY DEF Elsewhere, Out, Later
  <2>6. nc <= hc /\ nt + m <= ht + n /\ nc + (nt + m) + v <= hc + (ht + n) + t
    OBVIOUS
  <2> HIDE DEF nc, nt, hc, ht, n, m, d, e, o, t, v
  <2>7. /\ nc + e <= hc + e /\ nt + (d + m) <= ht + (d + n)
        /\ (nc + e) + (nt + (d + m)) + (o + v) <= (hc + e) + (ht + (d + n)) + (o + t)
    BY <2>1, <2>2, <2>3, <2>4, <2>6
  <2>8. QED
    BY <2>5, <2>7 DEF nc, nt, hc, ht, n, m, d, e, o, t, v
<1>5. Fits(new)
  BY <1>4 DEF Fits
<1>6. \A i \in Ids : ~Has(new, A(i))
  OBVIOUS
<1>7. QED
  BY <1>3, <1>5, <1>6, TurnSound

\* What a turn that leaves the tokens never sent counts.
LEMMA OnwardCounts ==
  ASSUME Typed, CallsKept, NEW new \in Seq(Items), Onward(new), notYetSent' = notYetSent
  PROVE  \A i \in Ids :
           /\ Count(new, C(i)) <= One(Head(agenda) \in C(i))
           /\ Count(new, T(i)) + Count(notYetSent', {i})
                <= One(Head(agenda) \in T(i)) + Count(notYetSent, {i})
           /\ Count(new, C(i)) + (Count(new, T(i)) + Count(notYetSent', {i})) + ToldOf(i)'
                <= One(Head(agenda) \in C(i))
                     + (One(Head(agenda) \in T(i)) + Count(notYetSent, {i})) + ToldOf(i)
           /\ ~Has(new, A(i))
<1>1. ASSUME NEW i \in Ids
      PROVE  /\ Count(new, C(i)) <= One(Head(agenda) \in C(i))
             /\ Count(new, T(i)) + Count(notYetSent', {i})
                  <= One(Head(agenda) \in T(i)) + Count(notYetSent, {i})
             /\ Count(new, C(i)) + (Count(new, T(i)) + Count(notYetSent', {i})) + ToldOf(i)'
                  <= One(Head(agenda) \in C(i))
                       + (One(Head(agenda) \in T(i)) + Count(notYetSent, {i})) + ToldOf(i)
             /\ ~Has(new, A(i))
  <2> DEFINE nc == Count(new, C(i))
             nt == Count(new, T(i))
             hc == One(Head(agenda) \in C(i))
             ht == One(Head(agenda) \in T(i))
             n == Count(notYetSent, {i})
             t == ToldOf(i)
             v == ToldOf(i)'
  <2>1. nc + v <= hc + t /\ nc <= hc /\ nt <= ht /\ ~Has(new, A(i))
    BY DEF Onward
  <2>2. nc \in Nat /\ nt \in Nat /\ n \in Nat /\ t \in Nat /\ v \in Nat
    BY CountNat, PlacesNat, ToldNext
  <2>3. hc \in {0, 1} /\ ht \in {0, 1}
    BY OneFacts
  <2>4. Count(notYetSent', {i}) = n
    OBVIOUS
  <2> HIDE DEF nc, nt, hc, ht, n, t, v
  <2>5. /\ nt + n <= ht + n /\ nc + (nt + n) + v <= hc + (ht + n) + t
    BY <2>1, <2>2, <2>3
  <2>6. QED
    BY <2>1, <2>4, <2>5 DEF nc, nt, hc, ht, n, t, v
<1>2. QED
  BY <1>1

\* The callback of the head is called, and the turn goes on with an item without one.
LEMMA AnswerThenSound ==
  ASSUME IInv, agenda # <<>>, Still, state' = state, NEW id \in Nat, NEW err \in BOOLEAN,
         AnswerAll({id}, err), NEW x \in Blank, agenda' = <<x>> \o Tail(agenda),
         \A i \in Ids : id = i => Head(agenda) \in C(i)
  PROVE  Sound
<1>1. Typed
  BY DEF IInv
<1>2. /\ CallsKept /\ \A i \in Ids : ToldOf(i)' <= ToldOf(i) + One(i \in {id})
  BY <1>1, AnswerFacts
<1>3. Truthful
  <2>1. \A i \in DOMAIN calls : i \in {id} => calls[i].kind # "putToken"
    BY <1>1, CallsInIds, HeadMeans
  <2>2. QED
    BY <1>1, <2>1, TruthfulFacts
<1>4. ASSUME NEW i \in Ids
      PROVE  ToldOf(i)' <= ToldOf(i) + One(Head(agenda) \in C(i))
  <2>1. CASE i = id
    <3>1. One(i \in {id}) = 1 /\ One(Head(agenda) \in C(i)) = 1
      BY <2>1 DEF One
    <3>2. QED
      BY <1>2, <3>1
  <2>2. CASE i # id
    <3>1. One(i \in {id}) = 0 /\ One(Head(agenda) \in C(i)) \in {0, 1}
      BY <2>2, OneFacts DEF One
    <3>2. ToldOf(i) \in Nat /\ ToldOf(i)' \in Nat
      BY <1>1, <1>2, PlacesNat, ToldNext
    <3>3. QED
      BY <1>2, <3>1, <3>2
  <2>3. QED
    BY <2>1, <2>2
<1>5. state' \in LinkStates
  BY <1>1 DEF Typed
<1>6. <<x>> \in Seq(Blank)
  OBVIOUS
<1> DEFINE new == <<x>>
<1>7. new \in Seq(Blank) /\ agenda' = new \o Tail(agenda)
  BY <1>6
<1> HIDE DEF new
<1>8. new \in Seq(Items) /\ \A i \in Ids : Count(new, C(i)) = 0 /\ Count(new, T(i)) = 0
                                             /\ ~Has(new, A(i))
  BY <1>7, BlankFacts
<1>9. QED
  BY <1>2, <1>3, <1>4, <1>5, <1>7, <1>8, AnswersSound

\* detached._onEnter of the sender: a message is failed, and then the others.
LEMMA FailSendsSound ==
  ASSUME IInv, agenda # <<>>, UNCHANGED <<events, examining, expired>>,
         Head(agenda) \in OfLink, FailSends(Head(agenda), Tail(agenda))
  PROVE  Sound
<1> DEFINE item == Head(agenda)
<1>1. Typed /\ Granted /\ Watched
  BY DEF IInv
<1>2. UNCHANGED <<state, deferred, each, links, pending, notYetSent, outstanding, timer, granted,
                  left, calls, events, examining, expired>>
  BY DEF FailSends, tokens, peer
<1>3. CASE unsent = <<>>
  <2> DEFINE keys == SetToSeq(pending)
             new == [i \in DOMAIN keys |-> Agent("failKey", keys[i], TRUE)]
  <2>1. agenda' = new \o Tail(agenda) /\ unsent' = <<>>
    BY <1>3 DEF FailSends
  <2>2. keys \in Seq(Ids)
    BY <1>1, PendingSeq DEF Typed
  <2> HIDE DEF keys
  <2>3. new \in Seq(Blank)
    <3>1. DOMAIN keys = 1..Len(keys) /\ Len(keys) \in Nat
      BY <2>2, LenProperties
    <3>2. \A i \in 1..Len(keys) : keys[i] \in Ids
      BY <2>2, ElementOfSeq
    <3>3. \A i \in 1..Len(keys) : Agent("failKey", keys[i], TRUE) \in Blank
      BY <3>2, BlankItems
    <3>4. new = [i \in 1..Len(keys) |-> new[i]] /\ \A i \in 1..Len(keys) : new[i] \in Blank
      BY <3>1, <3>3
    <3> HIDE DEF new
    <3>5. QED
      BY <3>1, <3>4, SeqByElements
  <2> HIDE DEF new
  <2>4. unsent' \in Seq(Ids) /\ pending' \in SUBSET Ids
    BY <1>1, <1>2, <2>1 DEF Typed
  <2>5. HandsOn
    BY <1>2, <2>1 DEF HandsOn, ToSet
  <2>6. links' \in [LinkNames -> Links]
    BY <1>1, <1>2 DEF Typed
  <2>7. QED
    BY <1>2, <2>1, <2>3, <2>4, <2>5, <2>6, AsideSound
<1>4. CASE unsent # <<>>
  <2> DEFINE y == Agent("answered", Head(unsent), TRUE)
  <2>1. agenda' = <<y, item>> \o Tail(agenda) /\ unsent' = Tail(unsent)
    BY <1>4 DEF FailSends
  <2>2. unsent \in Seq(Ids) /\ Head(unsent) \in Ids /\ Tail(unsent) \in Seq(Ids)
    BY <1>1, <1>4, HeadTailProperties DEF Typed
  <2>3. y \in Items /\ \A i \in Ids : y \notin C(i) /\ y \notin T(i) /\ y \notin A(i)
    BY <2>2, BlankItems DEF Blank
  <2> HIDE DEF y
  <2>4. item \in Items /\ \A i \in Ids : item \notin T(i) /\ item \notin A(i)
    BY DEF OfLink, OfLinks, Items, LinkNames, T, A
  <2>5. CallsKept /\ Truthful /\ \A i \in Ids : ToldOf(i)' = ToldOf(i)
    BY <1>1, <1>2, NoAnswerFacts
  <2> DEFINE new == <<y>> \o <<item>>
  <2>6. new \in Seq(Items) /\ Onward(new)
    <3>1. \A i \in Ids : /\ ToldOf(i)' = ToldOf(i)
                         /\ item \in C(i) => Head(agenda) \in C(i)
                         /\ item \notin T(i) /\ item \notin A(i)
                         /\ y \notin C(i) /\ y \notin T(i) /\ y \notin A(i)
      BY <2>3, <2>4, <2>5
    <3> HIDE DEF item
    <3>2. QED
      BY <1>1, <2>3, <2>4, <2>5, <3>1, OnwardTwo
  <2>7. agenda' = new \o Tail(agenda)
    BY <2>1, PairFacts
  <2> HIDE DEF new
  <2>8. GoesOn(new)
    BY <2>6, <2>7 DEF GoesOn
  <2>9. unsent' \in Seq(Ids) /\ pending' \in SUBSET Ids /\ state' \in LinkStates
        /\ notYetSent' \in Seq(Ids) /\ timer' \in Timers
    BY <1>1, <1>2, <2>1, <2>2 DEF Typed
  <2>10. HandsOn
    <3>1. ToSet(Tail(unsent)) \subseteq ToSet(unsent)
      <4>1. ASSUME NEW j \in ToSet(Tail(unsent))
            PROVE  j \in ToSet(unsent)
        <5>1. PICK p \in 1..Len(Tail(unsent)) : Tail(unsent)[p] = j
          BY <2>2, LenProperties DEF ToSet
        <5>2. /\ Len(Tail(unsent)) = Len(unsent) - 1 /\ Len(unsent) \in Nat
              /\ Tail(unsent)[p] = unsent[p + 1]
          BY <1>4, <2>2, <5>1, HeadTailProperties, LenProperties
        <5>3. p + 1 \in DOMAIN unsent /\ unsent[p + 1] = j
          BY <2>2, <5>1, <5>2, LenProperties
        <5>4. QED
          BY <5>3 DEF ToSet
      <4>2. QED
        BY <4>1
    <3>2. QED
      BY <1>1, <1>2, <2>1, <3>1 DEF HandsOn, Granted
  <2>11. Watched'
    BY <1>1, <1>2 DEF Watched
  <2>12. notYetSent' = notYetSent
    BY <1>2
  <2>13. QED
    BY <1>1, <1>2, <2>5, <2>6, <2>8, <2>9, <2>10, <2>11, <2>12, OnwardCounts, MovesOn
<1>5. QED
  BY <1>3, <1>4

\* A step that moves callbacks between the agenda and the links is sound.
LEMMA PlacesSound ==
  ASSUME IInv,
         UNCHANGED <<state, deferred, each, notYetSent, outstanding, timer, left, calls,
                     examining, expired>>,
         events' \in Nat, events' <= MaxEvents, granted \subseteq granted',
         agenda' \in Seq(Items), links' \in [LinkNames -> Links],
         unsent' \in Seq(Ids), pending' \in SUBSET Ids, HandsOn,
         \A i \in Ids : /\ Chain(i)' <= Chain(i)
                        /\ Count(agenda', T(i)) <= Count(agenda, T(i))
                        /\ Has(agenda', A(i)) => Has(agenda, A(i)) \/ i \in granted'
  PROVE  Sound
<1>1. Typed /\ Watched
  BY DEF IInv
<1>2. CallsKept /\ Truthful /\ \A i \in Ids : ToldOf(i)' = ToldOf(i)
  BY <1>1, NoAnswerFacts
<1>3. Typed'
  BY <1>1, <1>2 DEF Typed, CallsKept
<1>4. Watched'
  BY <1>1 DEF Watched
<1>5. Lawful
  <2>1. ASSUME NEW i \in Ids
        PROVE  /\ Chain(i)' <= Chain(i) /\ Waiting(i)' <= Waiting(i)
               /\ Chain(i)' + Waiting(i)' + Out(i)' + ToldOf(i)'
                    <= Chain(i) + Waiting(i) + Out(i) + ToldOf(i)
    <3>1. Later(i)' = Later(i) /\ Out(i)' = Out(i) /\ ToldOf(i)' = ToldOf(i)
      BY <1>2 DEF Later, Out
    <3>2. /\ Count(agenda, T(i)) \in Nat /\ Chain(i) \in Nat /\ Later(i) \in Nat
          /\ Out(i) \in Nat /\ ToldOf(i) \in Nat /\ Waiting(i) \in Nat
      BY <1>1, PlacesNat
    <3>3. Chain(i)' \in Nat /\ Waiting(i)' \in Nat
      BY <1>3, PlacesNatNext
    <3>4. Waiting(i) = Count(agenda, T(i)) + Later(i) /\ Waiting(i)' = Count(agenda', T(i)) + Later(i)
      BY <3>1 DEF Waiting
    <3>5. Count(agenda', T(i)) \in Nat
      BY CountNat
    <3>6. Waiting(i)' <= Waiting(i)
      BY <3>2, <3>4, <3>5
    <3>7. Chain(i)' <= Chain(i)
      BY <1>1
    <3>8. Chain(i)' + Waiting(i)' + Out(i) + ToldOf(i)
            <= Chain(i) + Waiting(i) + Out(i) + ToldOf(i)
      BY <3>2, <3>3, <3>6, <3>7
    <3>9. QED
      BY <3>1, <3>6, <3>7, <3>8
  <2>2. QED
    BY <2>1 DEF Lawful
<1>6. QED
  BY <1>2, <1>3, <1>4, <1>5 DEF Sound

\* What is handed on when nothing is.
LEMMA HandsOnSame ==
  ASSUME IInv, unsent' = unsent, pending' = pending
  PROVE  HandsOn /\ unsent' \in Seq(Ids) /\ pending' \in SUBSET Ids
BY DEF HandsOn, IInv, Granted, Typed

\* A turn that ends where it is, for what a handler throws, leaves its callbacks behind.
LEMMA StopsSound ==
  ASSUME IInv, agenda' = <<>>, pending' \subseteq pending,
         UNCHANGED <<state, deferred, each, notYetSent, outstanding, timer, left, calls, granted,
                     links, unsent, events, examining, expired>>
  PROVE  Sound
<1>1. Typed /\ Granted
  BY DEF IInv
<1>2. ASSUME NEW i \in Ids
      PROVE  /\ Chain(i)' <= Chain(i)
             /\ Count(agenda', T(i)) <= Count(agenda, T(i))
             /\ Has(agenda', A(i)) => Has(agenda, A(i)) \/ i \in granted'
  <2>1. /\ Elsewhere(i) \in Nat /\ Count(agenda, C(i)) \in Nat /\ Count(agenda, T(i)) \in Nat
    BY <1>1, PlacesNat
  <2>2. Count(agenda', C(i)) = 0 /\ Count(agenda', T(i)) = 0 /\ ~Has(agenda', A(i))
    BY CountEmpty, HasOne
  <2>3. Elsewhere(i)' = Elsewhere(i)
    BY DEF Elsewhere
  <2>4. Chain(i)' = 0 + Elsewhere(i) /\ Chain(i) = Count(agenda, C(i)) + Elsewhere(i)
    BY <2>2, <2>3 DEF Chain
  <2>5. QED
    BY <2>1, <2>2, <2>4
<1>3. HandsOn /\ unsent' \in Seq(Ids) /\ pending' \in SUBSET Ids
  BY <1>1 DEF HandsOn, Granted, Typed
<1>4. /\ agenda' \in Seq(Items) /\ links' \in [LinkNames -> Links]
      /\ events' \in Nat /\ events' <= MaxEvents /\ granted \subseteq granted'
  BY <1>1 DEF Typed
<1>5. QED
  BY <1>2, <1>3, <1>4, PlacesSound

\* An error that nobody listens to ends the turn, and with it what was left of it.
LEMMA EmitErrorSound ==
  ASSUME IInv, UNCHANGED <<events, examining, expired>>, EmitError
  PROVE  Sound
<1>1. /\ UNCHANGED <<state, deferred, each, notYetSent, outstanding, timer, left, calls, granted,
                     links, unsent, pending>>
      /\ agenda' = <<>>
  BY DEF EmitError, sends, tokens, peer
<1>2. QED
  BY <1>1, StopsSound

\* A key of the sender's is failed.
LEMMA FailKeySound ==
  ASSUME IInv, agenda # <<>>, UNCHANGED <<events, examining, expired>>,
         NEW id, FailKey(id, Tail(agenda))
  PROVE  Sound
<1>1. Typed /\ Granted
  BY DEF IInv
<1>2. /\ UNCHANGED <<state, deferred, each, notYetSent, outstanding, timer, left, calls, granted,
                     links, unsent, events, examining, expired>>
      /\ pending' = pending \ {id}
  BY DEF FailKey, tokens, peer
<1>3. CASE id \in pending
  <2> DEFINE x == Agent("answered", id, TRUE)
             new == <<x>>
  <2>1. agenda' = new \o Tail(agenda)
    BY <1>3 DEF FailKey
  <2>2. id \in Ids
    BY <1>1, <1>3 DEF Typed
  <2>3. x \in Blank
    BY <2>2, BlankItems
  <2> HIDE DEF x
  <2>4. new \in Seq(Blank)
    BY <2>3
  <2> HIDE DEF new
  <2>5. unsent' \in Seq(Ids) /\ pending' \in SUBSET Ids /\ HandsOn
        /\ links' \in [LinkNames -> Links]
    BY <1>1, <1>2 DEF Typed, HandsOn, Granted
  <2>6. QED
    BY <1>2, <2>1, <2>4, <2>5, AsideSound
<1>4. CASE id \notin pending
  <2>1. agenda' = <<>> /\ pending' \subseteq pending
    BY <1>2, <1>4 DEF FailKey
  <2>2. QED
    BY <1>2, <2>1, StopsSound
<1>5. QED
  BY <1>3, <1>4

\* What is put off, and has no callback, counts for nothing.
LEMMA DeferBlankFacts ==
  ASSUME NEW l \in Links, NEW x \in OfLink, x \in Blank
  PROVE  /\ [l EXCEPT !.deferred = Append(l.deferred, x)] \in Links
         /\ \A i \in Ids : Holds([l EXCEPT !.deferred = Append(l.deferred, x)], i) = Holds(l, i)
<1> DEFINE d == Append(l.deferred, x)
           k == [l EXCEPT !.deferred = d]
<1>1. l.deferred \in Seq(OfLink)
  BY DEF Links
<1>2. d \in Seq(OfLink)
  BY <1>1, AppendProperties
<1>3. \A i \in Ids : Count(d, C(i)) = Count(l.deferred, C(i))
  BY <1>1, CountAppend DEF Blank
<1> HIDE DEF d
<1>4. /\ k \in Links /\ k.attaching = l.attaching /\ k.detaching = l.detaching /\ k.deferred = d
  BY <1>2 DEF Links
<1> HIDE DEF k
<1>5. \A i \in Ids : Holds(k, i) = Holds(l, i)
  BY <1>3, <1>4 DEF Holds
<1>6. QED
  BY <1>4, <1>5 DEF k, d

\* send of the sender.
LEMMA SendSound ==
  ASSUME IInv, agenda # <<>>, UNCHANGED <<events, examining, expired>>, Send(Tail(agenda))
  PROVE  Sound
<1> DEFINE sender == links["sender"]
           x == Input("sender", "send", NoCallback, FALSE)
           y == Input("sender", "attach", Callback("auto", 0), FALSE)
<1>1. Typed
  BY DEF IInv
<1>2. /\ sender \in Links /\ links \in [LinkNames -> Links] /\ "sender" \in LinkNames
      /\ "send" \in LinkInputs /\ "attach" \in LinkInputs
  BY <1>1 DEF Typed, LinkNames, LinkInputs
<1>3. x \in Blank /\ y \in Blank /\ x \in OfLink
  <2>1. "auto" \in {"each", "auto"} /\ 0 \in Nat
    OBVIOUS
  <2>2. NoCallback \in Callbacks
    BY CallbackFacts DEF NoCallback
  <2>3. QED
    BY <1>2, <2>1, <2>2, BlankItems, LinkItemFacts
<1> HIDE DEF x, y
<1>4. /\ <<>> \in Seq(Blank) /\ <<y>> \in Seq(Blank) /\ <<>> \o Tail(agenda) = Tail(agenda)
  <2>1. Tail(agenda) \in Seq(Items)
    BY HeadTailProperties DEF IInv, Typed
  <2>2. QED
    BY <1>3, <2>1
<1>5. CASE sender.state = "attached"
  <2>1. /\ unsent' = <<>> /\ pending' = pending \cup ToSet(unsent) /\ agenda' = Tail(agenda)
        /\ UNCHANGED <<state, deferred, each, notYetSent, outstanding, timer, granted, left, calls,
                       events, examining, expired, links>>
    BY <1>5 DEF Send, tokens
  <2>2. ToSet(unsent) \subseteq Ids
    BY <1>1, ElementOfSeq, LenProperties DEF Typed, ToSet
  <2>3. unsent' \in Seq(Ids) /\ pending' \in SUBSET Ids
    BY <1>1, <2>1, <2>2 DEF Typed
  <2>4. HandsOn
    BY <2>1 DEF HandsOn, ToSet
  <2>5. links' \in [LinkNames -> Links]
    BY <1>2, <2>1
  <2>6. agenda' = <<>> \o Tail(agenda)
    BY <1>4, <2>1
  <2>7. QED
    BY <1>4, <2>1, <2>3, <2>4, <2>5, <2>6, AsideSound
<1>6. CASE sender.state = "detached" /\ unsent # <<>>
  <2>1. agenda' = <<y>> \o Tail(agenda) /\ state' = state /\ calls' = calls /\ Still
    BY <1>6, StillFacts DEF Send, y
  <2>2. state' \in LinkStates
    BY <1>1, <2>1 DEF Typed
  <2>3. QED
    BY <1>4, <2>1, <2>2, BlankSound
<1>7. CASE sender.state = "detaching"
  <2> DEFINE k == [sender EXCEPT !.deferred = Append(sender.deferred, x)]
  <2>1. /\ links' = [links EXCEPT !["sender"] = k]
        /\ agenda' = Tail(agenda)
        /\ UNCHANGED <<state, deferred, each, notYetSent, outstanding, timer, granted, left, calls,
                       events, examining, expired, unsent, pending>>
    BY <1>7 DEF Send, tokens, sends, peer, x
  <2>2. k \in Links /\ \A i \in Ids : Holds(k, i) = Holds(sender, i)
    BY <1>2, <1>3, DeferBlankFacts
  <2> HIDE DEF k
  <2>3. links' \in [LinkNames -> Links] /\ links'["sender"] = k /\ links'["receiver"] = links["receiver"]
    BY <1>2, <2>1, <2>2
  <2>4. \A i \in Ids : /\ Holds(links'["sender"], i) = Holds(links["sender"], i)
                       /\ Holds(links'["receiver"], i) = Holds(links["receiver"], i)
    BY <2>2, <2>3
  <2>5. unsent' \in Seq(Ids) /\ pending' \in SUBSET Ids
    BY <1>1, <2>1 DEF Typed
  <2>6. HandsOn
    BY <2>1 DEF HandsOn, IInv, Granted
  <2>7. agenda' = <<>> \o Tail(agenda)
    BY <1>4, <2>1
  <2>8. QED
    BY <1>4, <2>1, <2>3, <2>4, <2>5, <2>6, <2>7, AsideSound
<1>8. CASE /\ sender.state # "attached" /\ sender.state # "detaching"
           /\ ~(sender.state = "detached" /\ unsent # <<>>)
  <2>1. Ignore(Tail(agenda))
    BY <1>8, Zenon DEF Send
  <2>2. QED
    BY <2>1, IgnoreSound
<1>9. QED
  BY <1>5, <1>6, <1>7, <1>8
-----------------------------------------------------------------------------
(* The steps that move a callback.                                         *)

\* putToken of an agent that is not attached.
LEMMA QueueSound ==
  ASSUME IInv, agenda # <<>>, UNCHANGED <<events, examining, expired>>,
         NEW id \in Ids, Queue(id, Tail(agenda)),
         \A i \in Ids : Head(agenda) \in T(i) <=> i = id
  PROVE  Sound
<1> DEFINE y == Agent("enter", 0, FALSE)
           new == IF state = "detached" THEN <<y>> ELSE <<>>
<1>1. Typed /\ Granted /\ Watched
  BY DEF IInv
<1>2. Tail(agenda) \in Seq(Items)
  BY <1>1, HeadTailProperties DEF Typed
<1>3. y \in Blank
  BY BlankItems DEF Moves
<1> HIDE DEF y
<1>4. new \in Seq(Blank)
  BY <1>3
<1>5. agenda' = new \o Tail(agenda) /\ state' \in LinkStates
  <2>1. <<>> \o Tail(agenda) = Tail(agenda)
    BY <1>2
  <2>2. "attaching" \in LinkStates /\ state \in LinkStates
    BY <1>1 DEF LinkStates, Typed
  <2>3. QED
    BY <2>1, <2>2 DEF Queue, y
<1>6. /\ notYetSent' = Append(notYetSent, id)
      /\ UNCHANGED <<deferred, each, links, unsent, pending, outstanding, timer, granted, left,
                     calls, events, examining, expired>>
  BY DEF Queue, sends, peer
<1> HIDE DEF new
<1>7. GoesOn(new) /\ \A i \in Ids : ~Has(new, A(i))
  BY <1>4, <1>5, BlankFacts DEF GoesOn
<1>8. CallsKept /\ Truthful /\ \A i \in Ids : ToldOf(i)' = ToldOf(i)
  BY <1>1, <1>6, NoAnswerFacts
<1>9. Typed'
  <2>1. agenda' \in Seq(Items)
    BY <1>1, <1>7, TurnFacts
  <2>2. notYetSent' \in Seq(Ids)
    BY <1>1, <1>6, AppendProperties DEF Typed
  <2>3. QED
    BY <1>1, <1>5, <1>6, <1>8, <2>1, <2>2 DEF Typed, CallsKept
<1>10. Fits(new)
  <2>1. SUFFICES ASSUME NEW i \in Ids
        PROVE  /\ Count(new, C(i)) + Elsewhere(i)' <= One(Head(agenda) \in C(i)) + Elsewhere(i)
               /\ Count(new, T(i)) + Later(i)' <= One(Head(agenda) \in T(i)) + Later(i)
               /\ (Count(new, C(i)) + Elsewhere(i)') + (Count(new, T(i)) + Later(i)')
                      + (Out(i)' + ToldOf(i)')
                    <= (One(Head(agenda) \in C(i)) + Elsewhere(i))
                         + (One(Head(agenda) \in T(i)) + Later(i)) + (Out(i) + ToldOf(i))
    BY DEF Fits
  <2>2. Count(new, C(i)) = 0 /\ Count(new, T(i)) = 0
    BY <1>4, BlankFacts
  <2>3. /\ One(Head(agenda) \in C(i)) \in {0, 1} /\ One(i = id) \in {0, 1}
        /\ One(Head(agenda) \in T(i)) = One(i = id)
    BY OneFacts DEF One
  <2>4. /\ Elsewhere(i) \in Nat /\ Later(i) \in Nat /\ Out(i) \in Nat /\ ToldOf(i) \in Nat
        /\ Count(deferred, T(i)) \in Nat /\ Count(notYetSent, {i}) \in Nat
    BY <1>1, PlacesNat
  <2>5. Elsewhere(i)' = Elsewhere(i) /\ Out(i)' = Out(i) /\ ToldOf(i)' = ToldOf(i)
    BY <1>6, <1>8 DEF Elsewhere, Out
  <2>6. Count(notYetSent', {i}) = Count(notYetSent, {i}) + One(i = id)
    <3>1. notYetSent \in Seq(Ids) /\ (id \in {i} <=> i = id)
      BY <1>1 DEF Typed
    <3>2. /\ id \in {i} => Count(Append(notYetSent, id), {i}) = Count(notYetSent, {i}) + 1
          /\ id \notin {i} => Count(Append(notYetSent, id), {i}) = Count(notYetSent, {i})
      BY <3>1, CountAppend
    <3>3. QED
      BY <1>6, <2>4, <3>1, <3>2 DEF One
  <2>7. Later(i) = Count(deferred, T(i)) + Count(notYetSent, {i})
        /\ Later(i)' = Count(deferred, T(i)) + Count(notYetSent', {i})
    BY <1>6 DEF Later
  <2>8. Later(i)' = One(i = id) + Later(i)
    BY <2>3, <2>4, <2>6, <2>7
  <2>9. ASSUME NEW e \in Nat, NEW l \in Nat, NEW o \in Nat, NEW t \in Nat, NEW hc \in {0, 1},
               NEW ht \in {0, 1}
        PROVE  /\ 0 + e <= hc + e /\ 0 + (ht + l) <= ht + l
               /\ (0 + e) + (0 + (ht + l)) + (o + t) <= (hc + e) + (ht + l) + (o + t)
    OBVIOUS
  <2>10. QED
    BY <2>2, <2>3, <2>4, <2>5, <2>8, <2>9
<1>11. HandsOn
  BY <1>1, <1>6 DEF HandsOn, Granted
<1>12. Watched'
  BY <1>1, <1>6 DEF Watched
<1>13. QED
  BY <1>6, <1>7, <1>8, <1>9, <1>10, <1>11, <1>12, TurnSound

\* An async.each of its own, or the end of one: the agent's callback goes into it, or comes
\* out of it.
LEMMA EachFits ==
  ASSUME Typed, Typed', agenda # <<>>, NEW new \in Seq(Items),
         UNCHANGED <<deferred, links, notYetSent, outstanding, expired>>,
         \A i \in Ids : /\ ToldOf(i)' = ToldOf(i)
                        /\ Count(new, C(i)) + One(each'.left > 0 /\ each'.id = i)
                             <= One(Head(agenda) \in C(i)) + One(each.left > 0 /\ each.id = i)
                        /\ Count(new, T(i)) = 0
  PROVE  Fits(new)
<1>1. SUFFICES ASSUME NEW i \in Ids
      PROVE  /\ Count(new, C(i)) + Elsewhere(i)' <= One(Head(agenda) \in C(i)) + Elsewhere(i)
             /\ Count(new, T(i)) + Later(i)' <= One(Head(agenda) \in T(i)) + Later(i)
             /\ (Count(new, C(i)) + Elsewhere(i)') + (Count(new, T(i)) + Later(i)')
                    + (Out(i)' + ToldOf(i)')
                  <= (One(Head(agenda) \in C(i)) + Elsewhere(i))
                       + (One(Head(agenda) \in T(i)) + Later(i)) + (Out(i) + ToldOf(i))
  BY DEF Fits
<1> DEFINE n == Count(new, C(i))
           u == One(each.left > 0 /\ each.id = i)
           v == One(each'.left > 0 /\ each'.id = i)
           h == One(Head(agenda) \in C(i))
           g == One(Head(agenda) \in T(i))
           d == Count(deferred, C(i))
           s == Holds(links["sender"], i)
           r == Holds(links["receiver"], i)
<1>2. Elsewhere(i) = d + u + s + r /\ Elsewhere(i)' = d + v + s + r
  BY DEF Elsewhere
<1>3. /\ d \in Nat /\ s \in Nat /\ r \in Nat /\ u \in {0, 1} /\ v \in {0, 1} /\ h \in {0, 1}
      /\ g \in {0, 1} /\ n \in Nat
  BY PlacesNat, OneFacts, CountNat
<1>4. /\ Later(i) \in Nat /\ Out(i) \in Nat /\ ToldOf(i) \in Nat /\ Elsewhere(i) \in Nat
      /\ Elsewhere(i)' \in Nat
  BY PlacesNat, PlacesNatNext
<1>5. Later(i)' = Later(i) /\ Out(i)' = Out(i) /\ ToldOf(i)' = ToldOf(i) /\ Count(new, T(i)) = 0
  BY DEF Later, Out
<1>6. n + v <= h + u
  OBVIOUS
<1>7. ASSUME NEW e \in Nat, NEW f \in Nat, NEW l \in Nat, NEW o \in Nat, NEW t \in Nat,
             NEW a \in Nat, NEW b \in {0, 1}, NEW c \in {0, 1}, a + f <= b + e
      PROVE  /\ 0 + l <= c + l
             /\ (a + f) + (0 + l) + (o + t) <= (b + e) + (c + l) + (o + t)
  BY <1>7
<1> HIDE DEF n, u, v, h, g, d, s, r
<1>8. n + Elsewhere(i)' <= h + Elsewhere(i)
  BY <1>2, <1>3, <1>6
<1>9. /\ 0 + Later(i) <= g + Later(i)
      /\ (n + Elsewhere(i)') + (0 + Later(i)) + (Out(i) + ToldOf(i))
           <= (h + Elsewhere(i)) + (g + Later(i)) + (Out(i) + ToldOf(i))
  BY <1>3, <1>4, <1>7, <1>8
<1>10. QED
  BY <1>5, <1>8, <1>9 DEF n, h, g

\* detaching._onEnter.
LEMMA EnterDetachingSound ==
  ASSUME IInv, agenda # <<>>, UNCHANGED <<events, examining, expired>>,
         NEW id \in Nat, NEW err \in BOOLEAN,
         EnterDetaching(id, err, Tail(agenda)), \A i \in Ids : id = i => Head(agenda) \in C(i)
  PROVE  Sound
<1> DEFINE cb == Callback("each", each.gen + 1)
           x == Input("sender", "detach", cb, err)
           y == Input("receiver", "detach", cb, err)
<1>1. Typed /\ Granted /\ Watched
  BY DEF IInv
<1>2. /\ each' = [gen |-> each.gen + 1, left |-> 2, id |-> id, err |-> err]
      /\ agenda' = <<x, y>> \o Tail(agenda)
      /\ UNCHANGED <<state, deferred, links, unsent, pending, notYetSent, outstanding, timer,
                     granted, left, calls, events, examining, expired>>
  BY DEF EnterDetaching, sends, tokens, peer
<1>3. each.gen + 1 \in Nat
  BY <1>1 DEF Typed
<1>4. x \in Blank /\ y \in Blank
  BY <1>3, BlankItems DEF LinkNames, LinkInputs
<1> HIDE DEF x, y
<1>5. <<x, y>> \in Seq(Blank)
  BY <1>4
<1> DEFINE new == <<x, y>>
<1>6. agenda' = new \o Tail(agenda) /\ new \in Seq(Blank)
  BY <1>2, <1>5
<1> HIDE DEF new
<1>7. GoesOn(new) /\ \A i \in Ids : ~Has(new, A(i))
  BY <1>6, BlankFacts DEF GoesOn
<1>8. CallsKept /\ Truthful /\ \A i \in Ids : ToldOf(i)' = ToldOf(i)
  BY <1>1, <1>2, NoAnswerFacts
<1>9. Typed'
  <2>1. agenda' \in Seq(Items)
    BY <1>1, <1>7, TurnFacts
  <2>2. each' \in [gen : Nat, left : 0..2, id : Nat, err : BOOLEAN]
    BY <1>2, <1>3
  <2>3. QED
    BY <1>1, <1>2, <1>8, <2>1, <2>2 DEF Typed, CallsKept
<1>10. Fits(new)
  <2>1. ASSUME NEW i \in Ids
        PROVE  /\ Count(new, C(i)) + One(each'.left > 0 /\ each'.id = i)
                    <= One(Head(agenda) \in C(i)) + One(each.left > 0 /\ each.id = i)
               /\ Count(new, T(i)) = 0
    <3>1. Count(new, C(i)) = 0 /\ Count(new, T(i)) = 0
      BY <1>6, BlankFacts
    <3>2. each'.id = id /\ each'.left = 2
      BY <1>2
    <3>3. /\ One(each'.left > 0 /\ each'.id = i) \in {0, 1}
          /\ One(Head(agenda) \in C(i)) \in {0, 1}
          /\ One(each.left > 0 /\ each.id = i) \in {0, 1}
      BY OneFacts
    <3>4. CASE id = i
      <4>1. One(Head(agenda) \in C(i)) = 1
        BY <3>4 DEF One
      <4>2. QED
        BY <3>1, <3>3, <4>1
    <3>5. CASE id # i
      <4>1. One(each'.left > 0 /\ each'.id = i) = 0
        BY <3>2, <3>5 DEF One
      <4>2. QED
        BY <3>1, <3>3, <4>1
    <3>6. QED
      BY <3>4, <3>5
  <2>2. new \in Seq(Items)
    BY <1>6, BlankFacts
  <2>3. QED
    BY <1>1, <1>2, <1>8, <1>9, <2>1, <2>2, EachFits
<1>11. HandsOn
  BY <1>1, <1>2 DEF HandsOn, Granted
<1>12. Watched'
  BY <1>1, <1>2 DEF Watched
<1>13. QED
  BY <1>2, <1>7, <1>8, <1>9, <1>10, <1>11, <1>12, TurnSound

\* A step that only the async.each, the machine and the calls take part in.
LEMMA EachTurn ==
  ASSUME IInv, agenda # <<>>, NEW new \in Seq(Items), agenda' = new \o Tail(agenda),
         UNCHANGED <<deferred, links, unsent, pending, notYetSent, outstanding, timer, granted,
                     left, events, examining, expired>>,
         each' \in [gen : Nat, left : 0..2, id : Nat, err : BOOLEAN], state' \in LinkStates,
         CallsKept, Truthful,
         \A i \in Ids : /\ ToldOf(i)' = ToldOf(i)
                        /\ Count(new, C(i)) + One(each'.left > 0 /\ each'.id = i)
                             <= One(Head(agenda) \in C(i)) + One(each.left > 0 /\ each.id = i)
                        /\ Count(new, T(i)) = 0 /\ ~Has(new, A(i))
  PROVE  Sound
<1>1. Typed /\ Granted /\ Watched
  BY DEF IInv
<1>2. GoesOn(new)
  BY DEF GoesOn
<1>3. Typed'
  <2>1. agenda' \in Seq(Items)
    BY <1>1, <1>2, TurnFacts
  <2>2. QED
    BY <1>1, <2>1 DEF Typed, CallsKept
<1>4. Fits(new)
  BY <1>1, <1>3, EachFits
<1>5. HandsOn
  BY <1>1 DEF HandsOn, Granted
<1>6. Watched'
  BY <1>1 DEF Watched
<1>7. QED
  BY <1>2, <1>3, <1>4, <1>5, <1>6, TurnSound

\* A transition's item.
LEMMA EnterFacts ==
  ASSUME NEW id \in Nat, NEW err \in BOOLEAN
  PROVE  /\ Agent("enter", id, err) \in Items
         /\ \A i \in Ids : /\ Agent("enter", id, err) \in C(i) <=> id = i
                           /\ Agent("enter", id, err) \notin T(i)
                           /\ Agent("enter", id, err) \notin A(i)
BY AgentFacts DEF Moves

\* The callback of the async.each.
LEMMA EachSound ==
  ASSUME IInv, agenda # <<>>, UNCHANGED <<events, examining, expired>>,
         NEW gen \in Nat, NEW err \in BOOLEAN,
         Each(gen, err, Tail(agenda))
  PROVE  Sound
<1>1. Typed /\ each \in [gen : Nat, left : 0..2, id : Nat, err : BOOLEAN]
  BY DEF IInv, Typed
<1>2. CASE gen # each.gen \/ each.left = 0
  <2>1. Ignore(Tail(agenda))
    BY <1>2 DEF Each
  <2>2. QED
    BY <2>1, IgnoreSound
<1>3. CASE ~(gen # each.gen \/ each.left = 0)
  <2> DEFINE n == IF err THEN 0 ELSE each.left - 1
  <2>1. /\ each' = [each EXCEPT !.left = n]
        /\ UNCHANGED <<deferred, links, unsent, pending, notYetSent, outstanding, timer, granted,
                       left, events, examining, expired>>
    BY <1>3 DEF Each, sends, tokens, peer
  <2>2. each.left > 0 /\ n \in 0..2
    BY <1>1, <1>3
  <2>3. (err \/ each.left = 1 => n = 0) /\ (~(err \/ each.left = 1) => n > 0)
    BY <1>1, <2>2
  <2> HIDE DEF n
  <2>4. /\ each' \in [gen : Nat, left : 0..2, id : Nat, err : BOOLEAN]
        /\ each'.left = n /\ each'.id = each.id /\ each.id \in Nat /\ each.err \in BOOLEAN
    BY <1>1, <2>1, <2>2
  <2>5. ASSUME NEW i \in Ids
        PROVE  /\ One(each.left > 0 /\ each.id = i) = One(each.id = i)
               /\ n = 0 => One(each'.left > 0 /\ each'.id = i) = 0
               /\ n > 0 => One(each'.left > 0 /\ each'.id = i) = One(each.id = i)
               /\ One(each.id = i) \in {0, 1} /\ One(Head(agenda) \in C(i)) \in {0, 1}
               /\ Count(<<>>, C(i)) = 0 /\ Count(<<>>, T(i)) = 0 /\ ~Has(<<>>, A(i))
    <3>1. n \in {0, 1, 2}
      BY <2>2
    <3>2. n = 0 => One(each'.left > 0 /\ each'.id = i) = 0
      BY <2>4 DEF One
    <3>3. n > 0 => One(each'.left > 0 /\ each'.id = i) = One(each.id = i)
      BY <2>4 DEF One
    <3>4. One(each.left > 0 /\ each.id = i) = One(each.id = i)
      BY <2>2 DEF One
    <3>5. One(each.id = i) \in {0, 1} /\ One(Head(agenda) \in C(i)) \in {0, 1}
      BY OneFacts
    <3>6. Count(<<>>, C(i)) = 0 /\ Count(<<>>, T(i)) = 0 /\ ~Has(<<>>, A(i))
      BY CountEmpty, HasOne
    <3>7. QED
      BY <3>2, <3>3, <3>4, <3>5, <3>6
  <2>6. <<>> \in Seq(Items) /\ <<>> \o Tail(agenda) = Tail(agenda)
    <3>1. Tail(agenda) \in Seq(Items)
      BY <1>1, HeadTailProperties DEF Typed
    <3>2. QED
      BY <3>1
  <2>7. CASE ~(err \/ each.left = 1)
    <3>1. agenda' = Tail(agenda) /\ state' = state /\ calls' = calls
      BY <1>3, <2>7 DEF Each
    <3>2. CallsKept /\ Truthful /\ \A i \in Ids : ToldOf(i)' = ToldOf(i)
      BY <1>1, <3>1, NoAnswerFacts
    <3>3. state' \in LinkStates /\ agenda' = <<>> \o Tail(agenda)
      BY <1>1, <2>6, <3>1 DEF Typed
    <3>4. \A i \in Ids : Count(<<>>, C(i)) + One(each'.left > 0 /\ each'.id = i)
                           <= One(Head(agenda) \in C(i)) + One(each.left > 0 /\ each.id = i)
      BY <2>3, <2>5, <2>7
    <3>5. QED
      BY <2>1, <2>4, <2>5, <2>6, <3>2, <3>3, <3>4, EachTurn
  <2>8. CASE (err \/ each.left = 1) /\ state = "detached"
    <3>1. Transition("detached", each.id, each.err, Tail(agenda))
      BY <1>3, <2>8 DEF Each
    <3>2. agenda' = Tail(agenda) /\ state' = state /\ Drop(each.id)
      BY <2>8, <3>1 DEF Transition
    <3>3. CallsKept /\ Truthful /\ \A i \in Ids : ToldOf(i)' = ToldOf(i)
      BY <1>1, <3>2, DropFacts
    <3>4. state' \in LinkStates /\ agenda' = <<>> \o Tail(agenda)
      BY <1>1, <2>6, <3>2 DEF Typed
    <3>5. \A i \in Ids : Count(<<>>, C(i)) + One(each'.left > 0 /\ each'.id = i)
                           <= One(Head(agenda) \in C(i)) + One(each.left > 0 /\ each.id = i)
      BY <2>3, <2>5, <2>8
    <3>6. QED
      BY <2>1, <2>4, <2>5, <2>6, <3>3, <3>4, <3>5, EachTurn
  <2>9. CASE (err \/ each.left = 1) /\ state # "detached"
    <3> DEFINE x == Agent("enter", each.id, each.err)
    <3>1. Transition("detached", each.id, each.err, Tail(agenda))
      BY <1>3, <2>9 DEF Each
    <3>2. agenda' = <<x>> \o Tail(agenda) /\ state' = "detached" /\ calls' = calls
      BY <2>9, <3>1 DEF Transition
    <3>3. CallsKept /\ Truthful /\ \A i \in Ids : ToldOf(i)' = ToldOf(i)
      BY <1>1, <3>2, NoAnswerFacts
    <3>4. /\ x \in Items
          /\ \A i \in Ids : (x \in C(i) <=> each.id = i) /\ x \notin T(i) /\ x \notin A(i)
      BY <2>4, EnterFacts
    <3> HIDE DEF x
    <3>5. <<x>> \in Seq(Items) /\ state' \in LinkStates
      BY <3>2, <3>4 DEF LinkStates
    <3>6. ASSUME NEW i \in Ids
          PROVE  /\ Count(<<x>>, C(i)) + One(each'.left > 0 /\ each'.id = i)
                      <= One(Head(agenda) \in C(i)) + One(each.left > 0 /\ each.id = i)
                 /\ Count(<<x>>, T(i)) = 0 /\ ~Has(<<x>>, A(i))
      <4>1. Count(<<x>>, C(i)) = One(each.id = i) /\ Count(<<x>>, T(i)) = 0 /\ ~Has(<<x>>, A(i))
        BY <3>4, CountOne, HasOne DEF One
      <4>2. QED
        BY <2>3, <2>5, <2>9, <4>1
    <3>7. QED
      BY <2>1, <2>4, <3>2, <3>3, <3>5, <3>6, EachTurn
  <2>10. QED
    BY <2>7, <2>8, <2>9
<1>4. QED
  BY <1>2, <1>3

\* What a detaching agent is asked is put off.
LEMMA PutOffSound ==
  ASSUME IInv, agenda # <<>>, UNCHANGED <<events, examining, expired>>,
         NEW h, h = Head(agenda), h \in OfOwner,
         HandleDetaching(h, Tail(agenda))
  PROVE  Sound
<1>1. Typed /\ Granted /\ Watched /\ deferred \in Seq(OfOwner)
  BY DEF IInv, Typed
<1>2. /\ deferred' = Append(deferred, h) /\ agenda' = Tail(agenda)
      /\ UNCHANGED <<state, each, links, unsent, pending, notYetSent, outstanding, timer, granted,
                     left, calls, events, examining, expired>>
  BY DEF HandleDetaching, sends, tokens, peer
<1>3. <<>> \in Seq(Items) /\ agenda' = <<>> \o Tail(agenda)
  <2>1. Tail(agenda) \in Seq(Items)
    BY <1>1, HeadTailProperties DEF Typed
  <2>2. QED
    BY <1>2, <2>1
<1>4. GoesOn(<<>>) /\ \A i \in Ids : ~Has(<<>>, A(i))
  BY <1>3, HasOne DEF GoesOn
<1>5. CallsKept /\ Truthful /\ \A i \in Ids : ToldOf(i)' = ToldOf(i)
  BY <1>1, <1>2, NoAnswerFacts
<1>6. Typed'
  <2>1. agenda' \in Seq(Items)
    BY <1>1, <1>4, TurnFacts
  <2>2. deferred' \in Seq(OfOwner)
    BY <1>1, <1>2, AppendProperties
  <2>3. QED
    BY <1>1, <1>2, <1>5, <2>1, <2>2 DEF Typed, CallsKept
<1>7. Fits(<<>>)
  <2>1. SUFFICES ASSUME NEW i \in Ids
        PROVE  /\ Count(<<>>, C(i)) + Elsewhere(i)' <= One(Head(agenda) \in C(i)) + Elsewhere(i)
               /\ Count(<<>>, T(i)) + Later(i)' <= One(Head(agenda) \in T(i)) + Later(i)
               /\ (Count(<<>>, C(i)) + Elsewhere(i)') + (Count(<<>>, T(i)) + Later(i)')
                      + (Out(i)' + ToldOf(i)')
                    <= (One(Head(agenda) \in C(i)) + Elsewhere(i))
                         + (One(Head(agenda) \in T(i)) + Later(i)) + (Out(i) + ToldOf(i))
    BY DEF Fits
  <2>2. Count(<<>>, C(i)) = 0 /\ Count(<<>>, T(i)) = 0
    BY CountEmpty
  <2>3. /\ One(h \in C(i)) \in {0, 1} /\ One(h \in T(i)) \in {0, 1}
    BY OneFacts
  <2>4. /\ Elsewhere(i) \in Nat /\ Later(i) \in Nat /\ Out(i) \in Nat /\ ToldOf(i) \in Nat
        /\ Count(deferred, C(i)) \in Nat /\ Count(deferred, T(i)) \in Nat
        /\ Count(notYetSent, {i}) \in Nat
        /\ One(each.left > 0 /\ each.id = i) \in Nat
        /\ Holds(links["sender"], i) \in Nat /\ Holds(links["receiver"], i) \in Nat
    BY <1>1, PlacesNat
  <2>5. /\ Count(deferred', C(i)) = Count(deferred, C(i)) + One(h \in C(i))
        /\ Count(deferred', T(i)) = Count(deferred, T(i)) + One(h \in T(i))
    <3>1. ASSUME NEW S
          PROVE  Count(deferred', S) = Count(deferred, S) + One(h \in S)
      <4>1. /\ h \in S => Count(Append(deferred, h), S) = Count(deferred, S) + 1
            /\ h \notin S => Count(Append(deferred, h), S) = Count(deferred, S)
        BY <1>1, CountAppend
      <4>2. Count(deferred, S) \in Nat
        BY <1>1, CountNat
      <4>3. QED
        BY <1>2, <4>1, <4>2 DEF One
    <3>2. QED
      BY <3>1
  <2>6. Out(i)' = Out(i) /\ ToldOf(i)' = ToldOf(i)
    BY <1>2, <1>5 DEF Out
  <2>7. Elsewhere(i)' = One(h \in C(i)) + Elsewhere(i)
    <3>1. /\ Elsewhere(i) = Count(deferred, C(i)) + One(each.left > 0 /\ each.id = i)
                              + Holds(links["sender"], i) + Holds(links["receiver"], i)
          /\ Elsewhere(i)' = Count(deferred', C(i)) + One(each.left > 0 /\ each.id = i)
                              + Holds(links["sender"], i) + Holds(links["receiver"], i)
      BY <1>2 DEF Elsewhere
    <3>2. QED
      BY <2>3, <2>4, <2>5, <3>1, SMTT(60)
  <2>8. Later(i)' = One(h \in T(i)) + Later(i)
    <3>1. /\ Later(i) = Count(deferred, T(i)) + Count(notYetSent, {i})
          /\ Later(i)' = Count(deferred', T(i)) + Count(notYetSent, {i})
      BY <1>2 DEF Later
    <3>2. QED
      BY <2>3, <2>4, <2>5, <3>1
  <2>9. ASSUME NEW e \in Nat, NEW l \in Nat, NEW o \in Nat, NEW t \in Nat, NEW hc \in {0, 1},
               NEW ht \in {0, 1}
        PROVE  /\ 0 + (hc + e) <= hc + e /\ 0 + (ht + l) <= ht + l
               /\ (0 + (hc + e)) + (0 + (ht + l)) + (o + t) <= (hc + e) + (ht + l) + (o + t)
    OBVIOUS
  <2>10. QED
    BY <2>2, <2>3, <2>4, <2>6, <2>7, <2>8, <2>9
<1>8. HandsOn
  BY <1>1, <1>2 DEF HandsOn, Granted
<1>9. Watched'
  BY <1>1, <1>2 DEF Watched
<1>10. QED
  BY <1>2, <1>4, <1>5, <1>6, <1>7, <1>8, <1>9, TurnSound
-----------------------------------------------------------------------------
(* The tokens that are outstanding.                                        *)

\* What a list of tokens has, counted.
LEMMA ToSetCount ==
  ASSUME NEW s \in Seq(Ids), NEW i
  PROVE  /\ Count(s, {i}) \in Nat /\ (i \in ToSet(s) <=> Count(s, {i}) # 0)
         /\ ToSet(s) \subseteq Ids
<1>1. Count(s, {i}) \in Nat
  BY CountNat
<1>2. i \in ToSet(s) <=> Has(s, {i})
  BY DEF ToSet, Has
<1>3. Count(s, {i}) = 0 <=> ~Has(s, {i})
  BY CountHas
<1>4. ToSet(s) \subseteq Ids
  BY ElementOfSeq, LenProperties DEF ToSet
<1>5. QED
  BY <1>1, <1>2, <1>3, <1>4

\* A list in two parts.
LEMMA SplitSeq ==
  ASSUME NEW s \in Seq(Ids), NEW n \in 0..Len(s)
  PROVE  /\ SubSeq(s, 1, n) \in Seq(Ids) /\ SubSeq(s, n + 1, Len(s)) \in Seq(Ids)
         /\ SubSeq(s, 1, n) \o SubSeq(s, n + 1, Len(s)) = s
<1>1. /\ Len(s) \in Nat /\ n \in Nat /\ n <= Len(s)
      /\ 1 \in 1..Len(s) + 1 /\ n \in (1 - 1)..Len(s) /\ Len(s) \in n..Len(s)
  BY LenProperties
<1>2. SubSeq(s, 1, n) \in Seq(Ids) /\ SubSeq(s, n + 1, Len(s)) \in Seq(Ids)
  BY <1>1
<1>3. SubSeq(s, 1, n) \o SubSeq(s, n + 1, Len(s)) = SubSeq(s, 1, Len(s))
  BY <1>1, ConcatAdjacentSubSeq, Zenon
<1>4. SubSeq(s, 1, Len(s)) = s
  BY SubSeqFull
<1>5. QED
  BY <1>2, <1>3, <1>4, Zenon

\* A list without one of its elements.
LEMMA RemovedCount ==
  ASSUME NEW s \in Seq(Ids), NEW p \in DOMAIN s, NEW i
  PROVE  /\ RemoveAt(s, p) \in Seq(Ids)
         /\ Count(RemoveAt(s, p), {i}) <= Count(s, {i})
         /\ i # s[p] => Count(RemoveAt(s, p), {i}) = Count(s, {i})
         /\ i = s[p] => Count(RemoveAt(s, p), {i}) + 1 = Count(s, {i})
<1> DEFINE a == SubSeq(s, 1, p - 1)
           b == SubSeq(s, p, Len(s))
           c == SubSeq(s, p + 1, Len(s))
           e == <<s[p]>>
<1>1. /\ p \in 1..Len(s) /\ p \in 0..Len(s) /\ p - 1 \in 0..Len(s) /\ (p - 1) + 1 = p
      /\ Len(s) \in p..Len(s) /\ s[p] \in Ids
  BY LenProperties, ElementOfSeq
<1>2. a \in Seq(Ids) /\ b \in Seq(Ids) /\ a \o b = s
  <2>1. /\ SubSeq(s, 1, p - 1) \in Seq(Ids) /\ SubSeq(s, (p - 1) + 1, Len(s)) \in Seq(Ids)
        /\ SubSeq(s, 1, p - 1) \o SubSeq(s, (p - 1) + 1, Len(s)) = s
    BY <1>1, SplitSeq, Zenon
  <2>2. QED
    BY <1>1, <2>1, Zenon
<1>3. c \in Seq(Ids) /\ e \in Seq(Ids)
  BY <1>1, SplitSeq
<1>4. b = e \o c
  BY <1>1, SubSeqRecursiveFirst, Zenon
<1>5. RemoveAt(s, p) = a \o c
  BY DEF RemoveAt
<1>6. Count(e, {i}) = One(s[p] = i)
  <2>1. Count(<<s[p]>>, {i}) = IF s[p] \in {i} THEN 1 ELSE 0
    BY CountOne
  <2>2. QED
    BY <2>1 DEF One
<1> HIDE DEF a, b, c, e
<1>7. Count(e \o c, {i}) = Count(e, {i}) + Count(c, {i})
  BY <1>3, CountConcat
<1>8. Count(a \o b, {i}) = Count(a, {i}) + Count(b, {i})
  <2>1. a \in Seq(Ids) /\ b \in Seq(Ids)
    BY <1>2, Zenon
  <2>2. \A S : Count(a \o b, S) = Count(a, S) + Count(b, S)
    BY <2>1, CountConcat
  <2>3. QED
    BY <2>2, Zenon
<1>9. Count(a \o c, {i}) = Count(a, {i}) + Count(c, {i}) /\ a \o c \in Seq(Ids)
  BY <1>2, <1>3, CountConcat, ConcatProperties
<1>10. Count(a, {i}) \in Nat /\ Count(c, {i}) \in Nat /\ One(s[p] = i) \in {0, 1}
  BY <1>2, <1>3, CountNat, OneFacts
<1>11. /\ i # s[p] => One(s[p] = i) = 0
       /\ i = s[p] => One(s[p] = i) = 1
  BY DEF One
<1>12. Count(b, {i}) = One(s[p] = i) + Count(c, {i})
  BY <1>4, <1>6, <1>7, Zenon
<1>13. Count(s, {i}) = Count(a, {i}) + (One(s[p] = i) + Count(c, {i}))
  BY <1>2, <1>8, <1>12, Zenon
<1>14. QED
  BY <1>5, <1>9, <1>10, <1>11, <1>13

\* The outstanding tokens without one.
LEMMA WithoutCount ==
  ASSUME NEW s \in Seq(Ids), NEW id, NEW i
  PROVE  /\ Without(s, id) \in Seq(Ids)
         /\ Count(Without(s, id), {i}) <= Count(s, {i})
         /\ i # id => Count(Without(s, id), {i}) = Count(s, {i})
         /\ i = id /\ id \in ToSet(s) => Count(Without(s, id), {i}) + 1 = Count(s, {i})
<1>1. CASE id \in ToSet(s)
  <2> DEFINE p == CHOOSE q \in DOMAIN s : s[q] = id
  <2>1. \E q \in DOMAIN s : s[q] = id
    BY <1>1 DEF ToSet
  <2>2. p \in DOMAIN s /\ s[p] = id
    BY <2>1
  <2>3. Without(s, id) = RemoveAt(s, p)
    BY <1>1 DEF Without
  <2> HIDE DEF p
  <2>4. QED
    BY <2>2, <2>3, RemovedCount
<1>2. CASE id \notin ToSet(s)
  <2>1. Without(s, id) = s /\ Count(s, {i}) \in Nat
    BY <1>2, CountNat DEF Without
  <2>2. QED
    BY <1>2, <2>1
<1>3. QED
  BY <1>1, <1>2

\* The listener of the receiver's messages, and the callback of a send.
LEMMA AnsweredSound ==
  ASSUME IInv, agenda # <<>>, UNCHANGED <<events, examining, expired>>,
         NEW id, NEW err \in BOOLEAN,
         Answered(id, err, Tail(agenda)), \A i \in Ids : i = id => err \/ i \in granted
  PROVE  Sound
<1> DEFINE kept == Without(outstanding, id)
           ids == {id} \cap ToSet(outstanding)
<1>1. /\ Typed /\ Granted /\ Watched /\ outstanding \in Seq(Ids) /\ timer \in Timers
      /\ expired \in Seq(Ids)
  BY DEF IInv, Typed
<1>2. /\ outstanding' = kept /\ AnswerAll(ids, err) /\ agenda' = Tail(agenda)
      /\ timer' = IF outstanding # <<>> /\ kept = <<>> THEN Cleared ELSE timer
      /\ UNCHANGED <<state, deferred, each, links, unsent, pending, notYetSent, granted, left,
                     events, examining, expired>>
  BY DEF Answered, sends, peer
<1>3. /\ kept \in Seq(Ids)
      /\ \A i \in Ids : /\ Count(kept, {i}) <= Count(outstanding, {i})
                        /\ i \in ids => Count(kept, {i}) + 1 = Count(outstanding, {i})
  <2>1. ASSUME NEW i
        PROVE  /\ kept \in Seq(Ids)
               /\ Count(kept, {i}) <= Count(outstanding, {i})
               /\ i = id /\ id \in ToSet(outstanding) =>
                    Count(kept, {i}) + 1 = Count(outstanding, {i})
    <3>1. outstanding \in Seq(Ids)
      BY <1>1
    <3>2. QED
      BY <3>1, WithoutCount, Zenon
  <2>2. \A i : i \in ids <=> i = id /\ id \in ToSet(outstanding)
    OBVIOUS
  <2> HIDE DEF kept, ids
  <2>3. QED
    BY <2>1, <2>2
<1>4. \A i \in ids : i = id
  OBVIOUS
<1> HIDE DEF kept, ids
<1>5. CallsKept /\ \A i \in Ids : ToldOf(i)' <= ToldOf(i) + One(i \in ids)
  BY <1>1, <1>2, AnswerFacts
<1>6. Truthful
  <2>1. \A i \in DOMAIN calls : i \in ids => err \/ i \in granted
    BY <1>1, <1>4, CallsInIds
  <2>2. QED
    BY <1>1, <1>2, <2>1, TruthfulFacts
<1>7. ASSUME NEW i \in Ids
      PROVE  Out(i)' + ToldOf(i)' <= Out(i) + ToldOf(i)
  <2>1. Count(kept, {i}) \in Nat /\ Count(outstanding, {i}) \in Nat /\ Count(expired, {i}) \in Nat
    BY <1>1, <1>3, CountNat
  <2>2. /\ Out(i)' = Count(kept, {i}) + Count(expired, {i})
        /\ Out(i) = Count(outstanding, {i}) + Count(expired, {i})
    BY <1>2 DEF Out
  <2>3. ToldOf(i)' <= ToldOf(i) + One(i \in ids)
    BY <1>5
  <2>4. ToldOf(i) \in Nat /\ ToldOf(i)' \in Nat
    BY <1>1, <1>5, PlacesNat, ToldNext
  <2>5. CASE i \in ids
    <3>1. One(i \in ids) = 1 /\ Count(kept, {i}) + 1 = Count(outstanding, {i})
      BY <1>3, <2>5 DEF One
    <3>2. QED
      BY <2>1, <2>2, <2>3, <2>4, <3>1
  <2>6. CASE i \notin ids
    <3>1. One(i \in ids) = 0 /\ Count(kept, {i}) <= Count(outstanding, {i})
      BY <1>3, <2>6 DEF One
    <3>2. QED
      BY <2>1, <2>2, <2>3, <2>4, <3>1
  <2>7. QED
    BY <2>5, <2>6
<1>8. kept # <<>> => outstanding # <<>>
  <2>1. ASSUME kept # <<>>, outstanding = <<>>
        PROVE  FALSE
    <3>1. Head(kept) \in Ids /\ Has(kept, {Head(kept)})
      BY <1>3, <2>1, HasHeadTail, HeadTailProperties
    <3>2. Count(kept, {Head(kept)}) # 0 /\ Count(kept, {Head(kept)}) \in Nat
      BY <1>3, <3>1, CountHas, CountNat
    <3>3. Count(outstanding, {Head(kept)}) = 0
      BY <2>1, CountEmpty
    <3>4. QED
      BY <1>3, <3>1, <3>2, <3>3
  <2>2. QED
    BY <2>1
<1>9. timer' \in Timers /\ Watched'
  <2>1. CASE outstanding # <<>> /\ kept = <<>>
    <3>1. timer' = Cleared
      BY <1>2, <2>1
    <3>2. /\ timer' \in Timers /\ ~timer'.known /\ timer'.doubled = timer.doubled
          /\ timer'.strays = timer.strays
      BY <1>1, <3>1, TimerFacts, Zenon
    <3>3. QED
      BY <1>1, <1>2, <2>1, <3>2 DEF Watched
  <2>2. CASE ~(outstanding # <<>> /\ kept = <<>>)
    <3>1. timer' = timer /\ (kept = <<>> <=> outstanding = <<>>)
      BY <1>2, <1>8, <2>2
    <3>2. QED
      BY <1>1, <1>2, <3>1 DEF Watched
  <2>3. QED
    BY <2>1, <2>2
<1>10. <<>> \in Seq(Items) /\ agenda' = <<>> \o Tail(agenda)
  <2>1. Tail(agenda) \in Seq(Items)
    BY <1>1, HeadTailProperties DEF Typed
  <2>2. QED
    BY <1>2, <2>1
<1>11. GoesOn(<<>>) /\ \A i \in Ids : ~Has(<<>>, A(i))
  BY <1>10, HasOne DEF GoesOn
<1>12. Typed'
  <2>1. agenda' \in Seq(Items)
    BY <1>1, <1>11, TurnFacts
  <2>2. QED
    BY <1>1, <1>2, <1>3, <1>5, <1>9, <2>1 DEF Typed, CallsKept
<1>13. Fits(<<>>)
  <2>1. SUFFICES ASSUME NEW i \in Ids
        PROVE  /\ Count(<<>>, C(i)) + Elsewhere(i)' <= One(Head(agenda) \in C(i)) + Elsewhere(i)
               /\ Count(<<>>, T(i)) + Later(i)' <= One(Head(agenda) \in T(i)) + Later(i)
               /\ (Count(<<>>, C(i)) + Elsewhere(i)') + (Count(<<>>, T(i)) + Later(i)')
                      + (Out(i)' + ToldOf(i)')
                    <= (One(Head(agenda) \in C(i)) + Elsewhere(i))
                         + (One(Head(agenda) \in T(i)) + Later(i)) + (Out(i) + ToldOf(i))
    BY DEF Fits
  <2>2. Count(<<>>, C(i)) = 0 /\ Count(<<>>, T(i)) = 0
    BY CountEmpty
  <2>3. One(Head(agenda) \in C(i)) \in {0, 1} /\ One(Head(agenda) \in T(i)) \in {0, 1}
    BY OneFacts
  <2>4. /\ Elsewhere(i) \in Nat /\ Later(i) \in Nat /\ Out(i) \in Nat /\ ToldOf(i) \in Nat
        /\ Out(i)' \in Nat /\ ToldOf(i)' \in Nat
    BY <1>1, <1>12, PlacesNat, PlacesNatNext
  <2>5. Elsewhere(i)' = Elsewhere(i) /\ Later(i)' = Later(i)
    BY <1>2 DEF Elsewhere, Later
  <2>6. Out(i)' + ToldOf(i)' <= Out(i) + ToldOf(i)
    BY <1>7
  <2>7. Out(i)' + ToldOf(i)' \in Nat /\ Out(i) + ToldOf(i) \in Nat
    BY <2>4
  <2> DEFINE e == Elsewhere(i)
             l == Later(i)
             u == Out(i) + ToldOf(i)
             v == Out(i)' + ToldOf(i)'
             hc == One(Head(agenda) \in C(i))
             ht == One(Head(agenda) \in T(i))
  <2>8. /\ 0 + e <= hc + e /\ 0 + l <= ht + l
        /\ (0 + e) + (0 + l) + v <= (hc + e) + (ht + l) + u
    <3>1. /\ e \in Nat /\ l \in Nat /\ u \in Nat /\ v \in Nat /\ hc \in {0, 1} /\ ht \in {0, 1}
          /\ v <= u
      BY <2>3, <2>4, <2>6, <2>7
    <3> HIDE DEF e, l, u, v, hc, ht
    <3>2. QED
      BY <3>1
  <2>9. /\ 0 + Elsewhere(i) <= One(Head(agenda) \in C(i)) + Elsewhere(i)
        /\ 0 + Later(i) <= One(Head(agenda) \in T(i)) + Later(i)
        /\ (0 + Elsewhere(i)) + (0 + Later(i)) + (Out(i)' + ToldOf(i)')
             <= (One(Head(agenda) \in C(i)) + Elsewhere(i))
                  + (One(Head(agenda) \in T(i)) + Later(i)) + (Out(i) + ToldOf(i))
    BY <2>8
  <2>10. QED
    BY <2>2, <2>5, <2>9, Zenon
<1>14. HandsOn
  BY <1>1, <1>2 DEF HandsOn, Granted
<1>15. QED
  BY <1>2, <1>5, <1>6, <1>9, <1>11, <1>12, <1>13, <1>14, TurnSound

\* detached._onEnter: the timer is stopped, and the tokens never sent are looked at.
LEMMA EnterDetachedSound ==
  ASSUME IInv, agenda # <<>>, UNCHANGED <<events, examining, expired>>,
         NEW id \in Nat, NEW err \in BOOLEAN,
         EnterDetached(id, err, Tail(agenda)), \A i \in Ids : id = i => Head(agenda) \in C(i)
  PROVE  Sound
<1> DEFINE x == Agent("failQueued", id, err)
<1>1. /\ Typed /\ Granted /\ Watched /\ outstanding \in Seq(Ids) /\ timer \in Timers
  BY DEF IInv, Typed
<1>2. /\ timer' = Cleared /\ left' = left \cup ToSet(outstanding) /\ agenda' = <<x>> \o Tail(agenda)
      /\ UNCHANGED <<state, deferred, each, links, unsent, pending, notYetSent, outstanding, granted,
                     events, examining, expired, calls>>
  BY DEF EnterDetached, sends, peer
<1>3. x \in Items /\ \A i \in Ids : (x \in C(i) => id = i) /\ x \notin T(i) /\ x \notin A(i)
  BY AgentFacts DEF Moves
<1> HIDE DEF x
<1>4. CallsKept /\ Truthful /\ \A i \in Ids : ToldOf(i)' = ToldOf(i)
  BY <1>1, <1>2, NoAnswerFacts
<1> DEFINE new == <<x>>
<1>5. Onward(new) /\ new \in Seq(Items)
  BY <1>1, <1>3, <1>4, OnwardOne
<1>6. agenda' = new \o Tail(agenda)
  BY <1>2
<1> HIDE DEF new
<1>7. GoesOn(new)
  BY <1>5, <1>6 DEF GoesOn
<1>8. /\ timer' \in Timers /\ ~timer'.known /\ timer'.doubled = timer.doubled
      /\ timer'.strays = timer.strays
  BY <1>1, <1>2, TimerFacts, Zenon
<1>9. Watched'
  <2>1. ToSet(outstanding) = {} => outstanding = <<>>
    <3>1. outstanding # <<>> => outstanding[1] \in ToSet(outstanding)
      BY <1>1, LenProperties DEF ToSet
    <3>2. QED
      BY <3>1
  <2>2. QED
    BY <1>1, <1>2, <1>8, <2>1 DEF Watched
<1>10. HandsOn /\ unsent' \in Seq(Ids) /\ pending' \in SUBSET Ids
  BY <1>1, <1>2 DEF HandsOn, Granted, Typed
<1>11. state' \in LinkStates /\ notYetSent' \in Seq(Ids)
  BY <1>1, <1>2 DEF Typed
<1>12. QED
  BY <1>1, <1>2, <1>4, <1>5, <1>7, <1>8, <1>9, <1>10, <1>11, OnwardCounts, MovesOn

\* The tokens never sent are told, one by one, and then the callback.
LEMMA FailQueuedSound ==
  ASSUME IInv, agenda # <<>>, UNCHANGED <<events, examining, expired>>,
         NEW id \in Nat, NEW err \in BOOLEAN,
         FailQueued(id, err, Tail(agenda)), \A i \in Ids : id = i => Head(agenda) \in C(i)
  PROVE  Sound
<1>1. Typed /\ Granted /\ Watched /\ notYetSent \in Seq(Ids)
  BY DEF IInv, Typed
<1>2. CASE notYetSent = <<>>
  <2> DEFINE x == Agent("replay", 0, FALSE)
  <2>1. AnswerAll({id}, err) /\ agenda' = <<x>> \o Tail(agenda) /\ state' = state /\ OnlyMachine
    BY <1>2 DEF FailQueued
  <2>2. x \in Blank
    BY BlankItems
  <2>3. Still
    BY <2>1, StillFacts
  <2> HIDE DEF x
  <2>4. QED
    BY <2>1, <2>2, <2>3, AnswerThenSound
<1>3. CASE notYetSent # <<>>
  <2> DEFINE x == Agent("failQueued", id, err)
             j == Head(notYetSent)
             new == <<x>>
  <2>1. /\ AnswerAll({j}, err) /\ notYetSent' = Tail(notYetSent) /\ agenda' = new \o Tail(agenda)
        /\ UNCHANGED <<state, deferred, each, links, unsent, pending, outstanding, timer, left,
                       granted, events, examining, expired>>
    BY <1>3 DEF FailQueued, sends, peer
  <2>2. j \in Ids /\ Tail(notYetSent) \in Seq(Ids)
    BY <1>1, <1>3, HeadTailProperties
  <2>3. /\ x \in Items /\ \A i \in Ids : (x \in C(i) => id = i) /\ x \notin T(i) /\ x \notin A(i)
    BY AgentFacts DEF Moves
  <2>4. \A i \in Ids : Count(notYetSent, {i}) = One(j \in {i}) + Count(Tail(notYetSent), {i})
    BY <1>1, <1>3, CountHeadTail DEF One
  <2> HIDE DEF x, j
  <2>5. new \in Seq(Items)
    BY <2>3
  <2>6. \A i \in Ids : /\ Count(new, C(i)) = One(x \in C(i)) /\ Count(new, T(i)) = 0
                       /\ ~Has(new, A(i))
    BY <2>3, CountOne, HasOne DEF One
  <2> HIDE DEF new
  <2>7. GoesOn(new)
    BY <2>1, <2>5 DEF GoesOn
  <2>8. CallsKept /\ \A i \in Ids : ToldOf(i)' <= ToldOf(i) + One(i \in {j})
    BY <1>1, <2>1, AnswerFacts
  <2>9. Truthful
    <3>1. ASSUME NEW i \in DOMAIN calls, i \in {j}
          PROVE  ~calls[i].put
      <4>1. i \in Ids /\ One(j \in {i}) = 1
        BY <1>1, <3>1, CallsInIds DEF One
      <4>2. /\ Count(notYetSent, {i}) = 1 + Count(Tail(notYetSent), {i})
            /\ Count(Tail(notYetSent), {i}) \in Nat
        BY <2>2, <2>4, <4>1, CountNat
      <4>3. Count(agenda, T(i)) \in Nat /\ Count(deferred, T(i)) \in Nat
        BY <1>1, <4>1, PlacesNat
      <4>4. Waiting(i) > 0
        BY <4>2, <4>3 DEF Waiting, Later
      <4>5. QED
        BY <4>1, <4>4, PlaceMeans
    <3>2. QED
      BY <1>1, <2>1, <3>1, TruthfulFacts
  <2>10. ASSUME NEW i \in Ids
         PROVE  /\ Count(new, C(i)) <= One(Head(agenda) \in C(i))
                /\ Count(new, T(i)) + Count(notYetSent', {i})
                     <= One(Head(agenda) \in T(i)) + Count(notYetSent, {i})
                /\ Count(new, C(i)) + (Count(new, T(i)) + Count(notYetSent', {i})) + ToldOf(i)'
                     <= One(Head(agenda) \in C(i))
                          + (One(Head(agenda) \in T(i)) + Count(notYetSent, {i})) + ToldOf(i)
                /\ ~Has(new, A(i))
    <3>1. /\ Count(notYetSent, {i}) = One(j \in {i}) + Count(notYetSent', {i})
          /\ Count(notYetSent', {i}) \in Nat /\ One(j \in {i}) \in {0, 1}
          /\ One(i \in {j}) = One(j \in {i})
      BY <2>1, <2>2, <2>4, CountNat, OneFacts DEF One
    <3>2. /\ One(Head(agenda) \in C(i)) \in {0, 1} /\ One(Head(agenda) \in T(i)) \in {0, 1}
          /\ One(x \in C(i)) \in {0, 1} /\ One(x \in C(i)) <= One(Head(agenda) \in C(i))
      <4>1. x \in C(i) => Head(agenda) \in C(i)
        BY <2>3
      <4>2. QED
        BY <4>1, OneFacts DEF One
    <3>3. ToldOf(i) \in Nat /\ ToldOf(i)' \in Nat /\ ToldOf(i)' <= ToldOf(i) + One(i \in {j})
      BY <1>1, <2>8, PlacesNat, ToldNext
    <3>4. Count(new, C(i)) = One(x \in C(i)) /\ Count(new, T(i)) = 0 /\ ~Has(new, A(i))
      BY <2>6
    <3> DEFINE n == Count(notYetSent, {i})
               m == Count(notYetSent', {i})
               o == One(j \in {i})
               t == ToldOf(i)
               v == ToldOf(i)'
               hc == One(Head(agenda) \in C(i))
               ht == One(Head(agenda) \in T(i))
               nc == One(x \in C(i))
    <3>5. /\ n = o + m /\ m \in Nat /\ o \in {0, 1} /\ hc \in {0, 1} /\ ht \in {0, 1}
          /\ nc \in {0, 1} /\ nc <= hc /\ t \in Nat /\ v \in Nat /\ v <= t + o
      BY <3>1, <3>2, <3>3
    <3> HIDE DEF n, m, o, t, v, hc, ht, nc
    <3>6. /\ nc <= hc /\ 0 + m <= ht + n /\ nc + (0 + m) + v <= hc + (ht + n) + t
      BY <3>5
    <3>7. QED
      BY <3>4, <3>6 DEF n, m, o, t, v, hc, ht, nc
  <2>11. Watched'
    BY <1>1, <2>1 DEF Watched
  <2>12. HandsOn /\ unsent' \in Seq(Ids) /\ pending' \in SUBSET Ids
    BY <1>1, <2>1 DEF HandsOn, Granted, Typed
  <2>13. state' \in LinkStates /\ notYetSent' \in Seq(Ids) /\ timer' \in Timers
    BY <1>1, <2>1, <2>2 DEF Typed
  <2>14. QED
    BY <2>1, <2>7, <2>8, <2>9, <2>10, <2>11, <2>12, <2>13, MovesOn
<1>4. QED
  BY <1>2, <1>3

\* What was put off is handled, if the agent is still detached.
LEMMA ReplaySound ==
  ASSUME IInv, agenda # <<>>, UNCHANGED <<events, examining, expired>>, Replay(Tail(agenda))
  PROVE  Sound
<1>1. Typed /\ Granted /\ Watched /\ deferred \in Seq(OfOwner)
  BY DEF IInv, Typed
<1>2. CASE state # "detached"
  BY <1>2, IgnoreSound DEF Replay
<1>3. CASE state = "detached"
  <2>1. /\ agenda' = deferred \o Tail(agenda) /\ deferred' = <<>>
        /\ UNCHANGED <<state, each, links, unsent, pending, notYetSent, outstanding, timer, left,
                       granted, events, examining, expired, calls>>
    BY <1>3 DEF Replay, sends, tokens, peer
  <2>2. deferred \in Seq(Items) /\ \A i \in Ids : ~Has(deferred, A(i))
    <3>1. OfOwner \subseteq Items /\ \A i \in Ids : A(i) \cap OfOwner = {}
      BY DEF OfOwner, Items, A, Requests
    <3>2. deferred \in Seq(Items)
      BY <1>1, <3>1, SeqWiden
    <3>3. \A i \in Ids : Count(deferred, A(i)) = 0
      BY <1>1, <3>1, CountNone
    <3>4. QED
      BY <3>2, <3>3, CountHas
  <2>3. GoesOn(deferred)
    BY <2>1, <2>2 DEF GoesOn
  <2>4. CallsKept /\ Truthful /\ \A i \in Ids : ToldOf(i)' = ToldOf(i)
    BY <1>1, <2>1, NoAnswerFacts
  <2>5. Typed'
    <3>1. agenda' \in Seq(Items)
      BY <1>1, <2>3, TurnFacts
    <3>2. deferred' \in Seq(OfOwner)
      BY <2>1
    <3>3. QED
      BY <1>1, <2>1, <2>4, <3>1, <3>2 DEF Typed, CallsKept
  <2>6. ASSUME NEW i \in Ids
        PROVE  /\ Count(deferred, C(i)) + Elsewhere(i)' <= One(Head(agenda) \in C(i)) + Elsewhere(i)
               /\ Count(deferred, T(i)) + Later(i)' <= One(Head(agenda) \in T(i)) + Later(i)
               /\ (Count(deferred, C(i)) + Elsewhere(i)') + (Count(deferred, T(i)) + Later(i)')
                      + (Out(i)' + ToldOf(i)')
                    <= (One(Head(agenda) \in C(i)) + Elsewhere(i))
                         + (One(Head(agenda) \in T(i)) + Later(i)) + (Out(i) + ToldOf(i))
    <3> DEFINE e == Elsewhere(i)
               l == Later(i)
               h == One(Head(agenda) \in C(i))
               g == One(Head(agenda) \in T(i))
               o == Out(i)
               t == ToldOf(i)
    <3>1. /\ h \in {0, 1} /\ g \in {0, 1} /\ e \in Nat /\ l \in Nat /\ o \in Nat /\ t \in Nat
      BY <1>1, OneFacts, PlacesNat
    <3>2. Count(deferred, C(i)) + Elsewhere(i)' = e
      <4>1. /\ Elsewhere(i) = Count(deferred, C(i)) + One(each.left > 0 /\ each.id = i)
                                + Holds(links["sender"], i) + Holds(links["receiver"], i)
            /\ Elsewhere(i)' = Count(<<>>, C(i)) + One(each.left > 0 /\ each.id = i)
                                + Holds(links["sender"], i) + Holds(links["receiver"], i)
        BY <2>1 DEF Elsewhere
      <4>2. Count(<<>>, C(i)) = 0
        BY CountEmpty
      <4>3. /\ Count(deferred, C(i)) \in Nat /\ One(each.left > 0 /\ each.id = i) \in Nat
            /\ Holds(links["sender"], i) \in Nat /\ Holds(links["receiver"], i) \in Nat
        BY <1>1, PlacesNat
      <4>4. QED
        BY <4>1, <4>2, <4>3
    <3>3. Count(deferred, T(i)) + Later(i)' = l
      <4>1. Count(<<>>, T(i)) = 0
        BY CountEmpty
      <4>2. /\ Later(i)' = Count(<<>>, T(i)) + Count(notYetSent, {i})
            /\ Later(i) = Count(deferred, T(i)) + Count(notYetSent, {i})
        BY <2>1 DEF Later
      <4>3. Count(deferred, T(i)) \in Nat /\ Count(notYetSent, {i}) \in Nat
        BY <1>1, PlacesNat
      <4>4. QED
        BY <4>1, <4>2, <4>3
    <3>4. Out(i)' = o /\ ToldOf(i)' = t
      BY <2>1, <2>4 DEF Out
    <3> HIDE DEF e, l, h, g, o, t
    <3>5. e <= h + e /\ l <= g + l /\ e + l + (o + t) <= (h + e) + (g + l) + (o + t)
      BY <3>1
    <3>6. QED
      BY <3>2, <3>3, <3>4, <3>5 DEF e, l, h, g, o, t
  <2>7. Fits(deferred)
    BY <2>6 DEF Fits
  <2>8. HandsOn
    BY <1>1, <2>1 DEF HandsOn, Granted
  <2>9. Watched'
    BY <1>1, <2>1 DEF Watched
  <2>10. QED
    BY <2>1, <2>2, <2>3, <2>4, <2>5, <2>7, <2>8, <2>9, TurnSound
<1>4. QED
  BY <1>2, <1>3

\* attached._onEnter: the callback is called, and the tokens that wait are looked at.
LEMMA EnterAttachedSound ==
  ASSUME IInv, agenda # <<>>, UNCHANGED <<events, examining, expired>>, NEW id \in Nat,
         EnterAttached(id, Tail(agenda)), \A i \in Ids : id = i => Head(agenda) \in C(i)
  PROVE  Sound
<1> DEFINE x == Agent("putQueued", 0, FALSE)
<1>1. AnswerAll({id}, FALSE) /\ agenda' = <<x>> \o Tail(agenda) /\ state' = state /\ OnlyMachine
  BY DEF EnterAttached
<1>2. x \in Blank /\ FALSE \in BOOLEAN
  BY BlankItems
<1>3. Still
  BY <1>1, StillFacts
<1> HIDE DEF x
<1>4. QED
  BY <1>1, <1>2, <1>3, AnswerThenSound

\* A token that waits is put, and then the others.
LEMMA PutQueuedSound ==
  ASSUME IInv, agenda # <<>>, UNCHANGED <<events, examining, expired>>, PutQueued(Tail(agenda))
  PROVE  Sound
<1>1. Typed /\ Granted /\ Watched /\ notYetSent \in Seq(Ids)
  BY DEF IInv, Typed
<1>2. CASE notYetSent = <<>>
  BY <1>2, IgnoreSound DEF PutQueued
<1>3. CASE notYetSent # <<>>
  <2> DEFINE j == Head(notYetSent)
             x == Agent("putToken", j, FALSE)
             y == Agent("putQueued", 0, FALSE)
             new == <<x>> \o <<y>>
  <2>1. /\ notYetSent' = Tail(notYetSent) /\ agenda' = <<x, y>> \o Tail(agenda)
        /\ UNCHANGED <<state, deferred, each, links, unsent, pending, outstanding, timer, left,
                       granted, events, examining, expired, calls>>
    BY <1>3 DEF PutQueued, sends, peer
  <2>2. j \in Ids /\ j \in Nat /\ Tail(notYetSent) \in Seq(Ids)
    BY <1>1, <1>3, HeadTailProperties, CbsAssumption DEF Ids
  <2>3. x \in Items /\ \A i \in Ids : (x \in T(i) <=> j = i) /\ x \notin C(i) /\ x \notin A(i)
    <3>1. "putToken" \in Requests /\ "putToken" \notin Moves
      BY DEF Requests, Moves
    <3>2. QED
      BY <2>2, <3>1, AgentFacts
  <2>4. y \in Items /\ \A i \in Ids : y \notin C(i) /\ y \notin T(i) /\ y \notin A(i)
    BY BlankItems DEF Blank
  <2>5. \A i \in Ids : Count(notYetSent, {i}) = One(j \in {i}) + Count(Tail(notYetSent), {i})
    BY <1>1, <1>3, CountHeadTail DEF One
  <2> HIDE DEF x, y, j
  <2>6. <<x>> \in Seq(Items) /\ <<y>> \in Seq(Items) /\ new \in Seq(Items)
    BY <2>3, <2>4, ConcatProperties
  <2>7. agenda' = new \o Tail(agenda)
    BY <2>1, PairFacts
  <2>8. ASSUME NEW i \in Ids
        PROVE  Count(new, C(i)) = 0 /\ Count(new, T(i)) = One(j = i) /\ ~Has(new, A(i))
    <3>1. /\ Count(<<y>>, C(i)) = 0 /\ Count(<<y>>, T(i)) = 0 /\ ~Has(<<y>>, A(i))
          /\ Count(<<x>>, C(i)) = 0 /\ Count(<<x>>, T(i)) = One(j = i) /\ ~Has(<<x>>, A(i))
      BY <2>3, <2>4, CountOne, HasOne DEF One
    <3>2. /\ Count(new, C(i)) = Count(<<x>>, C(i)) + Count(<<y>>, C(i))
          /\ Count(new, T(i)) = Count(<<x>>, T(i)) + Count(<<y>>, T(i))
      BY <2>6, CountConcat, ZenonT(60)
    <3>3. ~Has(new, A(i))
      BY <2>6, <3>1, HasConcat
    <3>4. One(j = i) \in {0, 1}
      BY OneFacts
    <3>5. QED
      BY <3>1, <3>2, <3>3, <3>4
  <2> HIDE DEF new
  <2>9. GoesOn(new)
    BY <2>6, <2>7 DEF GoesOn
  <2>10. CallsKept /\ Truthful /\ \A i \in Ids : ToldOf(i)' = ToldOf(i)
    BY <1>1, <2>1, NoAnswerFacts
  <2>11. ASSUME NEW i \in Ids
         PROVE  /\ Count(new, C(i)) <= One(Head(agenda) \in C(i))
                /\ Count(new, T(i)) + Count(notYetSent', {i})
                     <= One(Head(agenda) \in T(i)) + Count(notYetSent, {i})
                /\ Count(new, C(i)) + (Count(new, T(i)) + Count(notYetSent', {i})) + ToldOf(i)'
                     <= One(Head(agenda) \in C(i))
                          + (One(Head(agenda) \in T(i)) + Count(notYetSent, {i})) + ToldOf(i)
                /\ ~Has(new, A(i))
    <3> DEFINE n == Count(notYetSent, {i})
               m == Count(notYetSent', {i})
               o == One(j = i)
               t == ToldOf(i)
               hc == One(Head(agenda) \in C(i))
               ht == One(Head(agenda) \in T(i))
    <3>1. n = o + m /\ m \in Nat /\ o \in {0, 1}
      BY <2>1, <2>2, <2>5, CountNat, OneFacts DEF One
    <3>2. hc \in {0, 1} /\ ht \in {0, 1} /\ t \in Nat /\ ToldOf(i)' = t
      BY <1>1, <2>10, OneFacts, PlacesNat
    <3>3. Count(new, C(i)) = 0 /\ Count(new, T(i)) = o /\ ~Has(new, A(i))
      BY <2>8
    <3> HIDE DEF n, m, o, t, hc, ht
    <3>4. 0 <= hc /\ o + m <= ht + n /\ 0 + (o + m) + t <= hc + (ht + n) + t
      BY <3>1, <3>2
    <3>5. QED
      BY <3>2, <3>3, <3>4 DEF n, m, o, t, hc, ht
  <2>12. Watched'
    BY <1>1, <2>1 DEF Watched
  <2>13. HandsOn /\ unsent' \in Seq(Ids) /\ pending' \in SUBSET Ids
    BY <1>1, <2>1 DEF HandsOn, Granted, Typed
  <2>14. state' \in LinkStates /\ notYetSent' \in Seq(Ids) /\ timer' \in Timers
    BY <1>1, <2>1, <2>2 DEF Typed
  <2>15. QED
    BY <2>1, <2>9, <2>10, <2>11, <2>12, <2>13, <2>14, MovesOn
<1>4. QED
  BY <1>2, <1>3

\* The first entry of the four states.
LEMMA EnterSound ==
  ASSUME IInv, agenda # <<>>, UNCHANGED <<events, examining, expired>>,
         NEW id \in Nat, NEW err \in BOOLEAN,
         Enter(id, err, Tail(agenda)), \A i \in Ids : id = i => Head(agenda) \in C(i)
  PROVE  Sound
<1>1. state \in LinkStates
  BY DEF IInv, Typed
<1>2. CASE state = "detached"
  <2>1. EnterDetached(id, err, Tail(agenda))
    BY <1>2, SMT DEF Enter
  <2>2. QED
    BY <2>1, EnterDetachedSound
<1>3. CASE state = "attaching"
  <2>1. EnterAttaching(id, Tail(agenda))
    BY <1>3, SMT DEF Enter
  <2>2. QED
    BY <2>1, EnterAttachingSound
<1>4. CASE state = "attached"
  <2>1. EnterAttached(id, Tail(agenda))
    BY <1>4, SMT DEF Enter
  <2>2. QED
    BY <2>1, EnterAttachedSound
<1>5. CASE state = "detaching"
  <2>1. EnterDetaching(id, err, Tail(agenda))
    BY <1>5, SMT DEF Enter
  <2>2. QED
    BY <2>1, EnterDetachingSound
<1>6. QED
  BY <1>1, <1>2, <1>3, <1>4, <1>5 DEF LinkStates

\* A list with one more token.
LEMMA ToSetAppend ==
  ASSUME NEW s \in Seq(Ids), NEW id \in Ids
  PROVE  ToSet(Append(s, id)) = ToSet(s) \cup {id}
<1>1. Append(s, id) \in Seq(Ids)
  BY AppendProperties
<1>2. ASSUME NEW i
      PROVE  i \in ToSet(Append(s, id)) <=> i \in ToSet(s) \/ i = id
  <2>1. /\ Count(s, {i}) \in Nat /\ (i \in ToSet(s) <=> Count(s, {i}) # 0)
        /\ (i \in ToSet(Append(s, id)) <=> Count(Append(s, id), {i}) # 0)
    BY <1>1, ToSetCount
  <2>2. /\ id \in {i} => Count(Append(s, id), {i}) = Count(s, {i}) + 1
        /\ id \notin {i} => Count(Append(s, id), {i}) = Count(s, {i})
    BY CountAppend
  <2>3. QED
    BY <2>1, <2>2
<1>3. QED
  BY <1>2

\* putToken of attached: the token moves from those that wait to those that are outstanding.
LEMMA PutTokenKeeps ==
  ASSUME IInv, agenda # <<>>, UNCHANGED <<events, examining, expired>>,
         NEW id \in Ids, PutToken(id, Tail(agenda)),
         Head(agenda) \in T(id),
         \A i \in Ids : /\ Head(agenda) \in T(i) <=> i = id
                        /\ Head(agenda) \notin C(i)
  PROVE  IInv'
<1> DEFINE x == Input("sender", "send", NoCallback, FALSE)
<1>1. /\ Typed /\ Accounted /\ Granted /\ Watched /\ outstanding \in Seq(Ids)
      /\ unsent \in Seq(Ids) /\ calls \in Seq(CallRecords) /\ pending \in SUBSET Ids
  BY DEF IInv, Typed
<1>2. /\ outstanding' = Append(outstanding, id) /\ timer' = (IF outstanding = <<>> THEN Armed ELSE timer)
      /\ unsent' = Append(unsent, id) /\ agenda' = <<x>> \o Tail(agenda)
      /\ calls' = [calls EXCEPT ![id].put = TRUE]
      /\ UNCHANGED <<state, deferred, each, links, pending, notYetSent, granted, left,
                     events, examining, expired>>
  BY DEF PutToken, peer
<1>3. /\ id \in DOMAIN calls /\ ~calls[id].put /\ Waiting(id) = 1 /\ Out(id) = 0 /\ ToldOf(id) = 0
  BY HeadMeans
<1>4. x \in Blank
  BY BlankItems DEF LinkNames, LinkInputs
<1> HIDE DEF x
<1>5. <<x>> \in Seq(Blank)
  BY <1>4
<1>6. GoesOn(<<x>>) /\ \A i \in Ids : /\ Count(<<x>>, C(i)) = 0 /\ Count(<<x>>, T(i)) = 0
                                      /\ ~Has(<<x>>, A(i))
  BY <1>2, <1>5, BlankFacts DEF GoesOn
<1>7. /\ calls' \in Seq(CallRecords) /\ Len(calls') = Len(calls) /\ DOMAIN calls' = DOMAIN calls
      /\ calls'[id].put /\ \A i \in DOMAIN calls : /\ calls'[i].kind = calls[i].kind
                                                   /\ calls'[i].answer = calls[i].answer
                                                   /\ calls'[i].answered = calls[i].answered
                                                   /\ i # id => calls'[i].put = calls[i].put
  <2> DEFINE w == [calls[id] EXCEPT !.put = TRUE]
  <2>1. calls' = [calls EXCEPT ![id] = w]
    BY <1>2
  <2>2. calls[id] \in CallRecords /\ DOMAIN calls = 1..Len(calls)
    BY <1>1, <1>3, ElementOfSeq, LenProperties
  <2>3. /\ w \in CallRecords /\ w.put /\ w.kind = calls[id].kind /\ w.answer = calls[id].answer
        /\ w.answered = calls[id].answered
    <3>1. ASSUME NEW c \in CallRecords
          PROVE  /\ [c EXCEPT !.put = TRUE] \in CallRecords /\ [c EXCEPT !.put = TRUE].put
                 /\ [c EXCEPT !.put = TRUE].kind = c.kind
                 /\ [c EXCEPT !.put = TRUE].answer = c.answer
                 /\ [c EXCEPT !.put = TRUE].answered = c.answered
      BY DEF CallRecords
    <3>2. QED
      BY <2>2, <3>1, Zenon
  <2> HIDE DEF w
  <2>4. calls' \in Seq(CallRecords) /\ Len(calls') = Len(calls)
    BY <1>1, <1>3, <2>1, <2>2, <2>3
  <2>5. DOMAIN calls' = DOMAIN calls /\ calls'[id] = w
        /\ \A i \in DOMAIN calls : i # id => calls'[i] = calls[i]
    BY <1>3, <2>1
  <2>6. QED
    BY <2>3, <2>4, <2>5
<1>8. /\ agenda' \in Seq(Items)
      /\ \A S : /\ Count(agenda', S) \in Nat /\ Count(agenda, S) \in Nat
                /\ Count(agenda', S) + One(Head(agenda) \in S) = Count(agenda, S) + Count(<<x>>, S)
                /\ Has(agenda', S) => Has(<<x>>, S) \/ Has(agenda, S)
  BY <1>1, <1>6, TurnFacts
<1>9. Typed'
  <2>1. /\ outstanding' \in Seq(Ids) /\ unsent' \in Seq(Ids)
    BY <1>1, <1>2, AppendProperties
  <2>2. timer' \in Timers
    BY <1>1, <1>2, TimerFacts DEF Typed
  <2>3. QED
    BY <1>1, <1>2, <1>7, <1>8, <2>1, <2>2 DEF Typed
<1>10. ASSUME NEW i \in Ids
       PROVE  /\ Chain(i)' = Chain(i) /\ Waiting(i)' + One(i = id) = Waiting(i)
              /\ Out(i)' = Out(i) + One(i = id) /\ ToldOf(i)' = ToldOf(i)
  <2>1. /\ One(Head(agenda) \in C(i)) = 0 /\ One(Head(agenda) \in T(i)) = One(i = id)
        /\ One(i = id) \in {0, 1}
    BY OneFacts DEF One
  <2>2. /\ Elsewhere(i) \in Nat /\ Later(i) \in Nat
        /\ Count(outstanding, {i}) \in Nat /\ Count(expired, {i}) \in Nat
    BY <1>1, PlacesNat, CountNat DEF Typed
  <2>3. /\ Count(agenda', C(i)) = Count(agenda, C(i))
        /\ Count(agenda', T(i)) + One(i = id) = Count(agenda, T(i))
        /\ Count(agenda', T(i)) \in Nat /\ Count(agenda, T(i)) \in Nat
    <3>1. /\ Count(agenda', C(i)) + One(Head(agenda) \in C(i)) = Count(agenda, C(i)) + Count(<<x>>, C(i))
          /\ Count(agenda', T(i)) + One(Head(agenda) \in T(i)) = Count(agenda, T(i)) + Count(<<x>>, T(i))
          /\ Count(agenda', C(i)) \in Nat /\ Count(agenda, C(i)) \in Nat
          /\ Count(agenda', T(i)) \in Nat /\ Count(agenda, T(i)) \in Nat
      BY <1>8
    <3>2. QED
      BY <1>6, <2>1, <3>1
  <2>4. Chain(i)' = Chain(i)
    BY <1>2, <2>3 DEF Chain, Elsewhere
  <2>5. Waiting(i)' + One(i = id) = Waiting(i)
    <3>1. Waiting(i) = Count(agenda, T(i)) + Later(i) /\ Waiting(i)' = Count(agenda', T(i)) + Later(i)
      BY <1>2 DEF Waiting, Later
    <3>2. QED
      BY <2>1, <2>2, <2>3, <3>1
  <2>6. Out(i)' = Out(i) + One(i = id)
    <3>1. /\ id \in {i} => Count(Append(outstanding, id), {i}) = Count(outstanding, {i}) + 1
          /\ id \notin {i} => Count(Append(outstanding, id), {i}) = Count(outstanding, {i})
      BY <1>1, CountAppend
    <3>2. QED
      BY <1>2, <2>2, <3>1 DEF Out, One
  <2>7. ToldOf(i)' = ToldOf(i)
    BY <1>7 DEF ToldOf
  <2>8. QED
    BY <2>4, <2>5, <2>6, <2>7
<1>11. Accounted'
  <2>1. ASSUME NEW i \in Ids
        PROVE  /\ Chain(i)' + Waiting(i)' + Out(i)' + ToldOf(i)' <= One(i \in DOMAIN calls')
               /\ i \in DOMAIN calls' /\ calls'[i].kind = "putToken" => Chain(i)' = 0
    <3>1. /\ Chain(i) + Waiting(i) + Out(i) + ToldOf(i) <= One(i \in DOMAIN calls)
          /\ i \in DOMAIN calls /\ calls[i].kind = "putToken" => Chain(i) = 0
      BY <1>1 DEF Accounted
    <3>2. /\ Chain(i) \in Nat /\ Waiting(i) \in Nat /\ Out(i) \in Nat /\ ToldOf(i) \in Nat
          /\ Waiting(i)' \in Nat /\ One(i = id) \in {0, 1}
      BY <1>1, <1>9, PlacesNat, PlacesNatNext, OneFacts
    <3>3. Chain(i)' + Waiting(i)' + Out(i)' + ToldOf(i)' = Chain(i) + Waiting(i) + Out(i) + ToldOf(i)
      BY <1>10, <3>2
    <3>4. i \in DOMAIN calls' /\ calls'[i].kind = "putToken" => Chain(i)' = 0
      BY <1>7, <1>10, <3>1
    <3>5. QED
      BY <1>7, <3>1, <3>3, <3>4
  <2>2. QED
    BY <2>1 DEF Accounted
<1>12. Granted'
  <2>1. ASSUME NEW i \in DOMAIN calls'
        PROVE  /\ calls'[i].put => Waiting(i)' = 0
               /\ calls'[i].answer = "ok" =>
                    /\ calls'[i].answered > 0
                    /\ calls'[i].kind = "putToken" => i \in granted' \/ ~calls'[i].put
    <3>1. i \in DOMAIN calls /\ i \in Ids
      BY <1>1, <1>7, CallsInIds
    <3>2. /\ calls[i].put => Waiting(i) = 0
          /\ calls[i].answer = "ok" =>
               /\ calls[i].answered > 0
               /\ calls[i].kind = "putToken" => i \in granted \/ ~calls[i].put
      BY <1>1, <3>1 DEF Granted
    <3>3. Waiting(i)' \in Nat /\ Waiting(i) \in Nat
      BY <1>1, <1>9, <3>1, PlacesNat, PlacesNatNext
    <3>4. CASE i = id
      <4>1. One(i = id) = 1
        BY <3>4 DEF One
      <4>2. Waiting(i)' = 0
        BY <1>3, <1>10, <3>1, <3>3, <3>4, <4>1
      <4>3. calls[i].answered = 0
        BY <1>3, <3>4 DEF ToldOf
      <4>4. calls'[i].answer # "ok"
        BY <1>7, <3>1, <3>2, <4>3
      <4>5. QED
        BY <4>2, <4>4
    <3>5. CASE i # id
      <4>1. One(i = id) = 0
        BY <3>5 DEF One
      <4>2. Waiting(i)' = Waiting(i)
        BY <1>10, <3>1, <3>3, <4>1
      <4>3. QED
        BY <1>2, <1>7, <3>1, <3>2, <3>5, <4>2
    <3>6. QED
      BY <3>4, <3>5
  <2>2. \A i \in Ids : Has(agenda', A(i)) => i \in granted'
    BY <1>1, <1>2, <1>6, <1>8 DEF Granted
  <2>3. ToSet(unsent') = ToSet(unsent) \cup {id}
    BY <1>1, <1>2, ToSetAppend
  <2>4. \A i \in ToSet(unsent) \cup pending : i \in DOMAIN calls /\ calls[i].put
    BY <1>1 DEF Granted
  <2>5. \A i \in ToSet(unsent') \cup pending' : i \in DOMAIN calls' /\ calls'[i].put
    BY <1>2, <1>3, <1>7, <2>3, <2>4
  <2>6. ToSet(unsent') \cap pending' = {}
    BY <1>1, <1>2, <1>3, <2>3, <2>4 DEF Granted
  <2>7. QED
    BY <2>1, <2>2, <2>5, <2>6 DEF Granted
<1>13. Watched'
  <2>1. outstanding' # <<>>
    BY <1>1, <1>2, AppendProperties
  <2>2. timer \in Timers
    BY <1>1 DEF Typed
  <2>3. CASE outstanding = <<>>
    <3>1. timer' = Armed
      BY <1>2, <2>3
    <3>2. /\ timer'.known /\ timer'.doubled = timer.doubled
          /\ ~timer.known => timer'.strays = timer.strays
      BY <2>2, <3>1, TimerFacts, Zenon
    <3>3. QED
      BY <1>1, <1>2, <2>1, <2>3, <3>2 DEF Watched
  <2>4. CASE outstanding # <<>>
    BY <1>1, <1>2, <2>1, <2>4 DEF Watched
  <2>5. QED
    BY <2>3, <2>4
<1>14. QED
  BY <1>9, <1>11, <1>12, <1>13 DEF IInv
-----------------------------------------------------------------------------
(* The handlers.                                                           *)

\* What the handlers of the four states have in common: the head is a request with its
\* callback.
LEMMA RequestFacts ==
  ASSUME IInv, agenda # <<>>, NEW h, h = Head(agenda), h.at = "cbs", h.do \in Requests
  PROVE  /\ h.cb.id \in Nat /\ h.err \in BOOLEAN /\ h \in OfOwner
         /\ h.do \in {"attach", "detach", "forceDetach", "putToken"}
         /\ h.do \in {"attach", "detach"} => \A i \in Ids : h.cb.id = i => h \in C(i)
         /\ h.do = "putToken" => /\ h.cb.id \in Ids /\ h \in T(h.cb.id)
                                 /\ \A i \in Ids : (h \in T(i) <=> i = h.cb.id) /\ h \notin C(i)
<1>1. /\ h.cb.id \in Nat /\ h.err \in BOOLEAN /\ h \in OfAgent
      /\ h.do = "putToken" => h.cb.id \in Ids
      /\ \A i \in Ids : /\ h \in C(i) <=> \/ h.at = "cbs" /\ h.do \in Moves /\ h.cb.id = i
                                          \/ h.at # "cbs" /\ Carries(h.cb, i)
                        /\ h \in T(i) <=> h.at = "cbs" /\ h.do = "putToken" /\ h.cb.id = i
  BY HeadFacts DEF IInv
<1>2. h \in OfOwner /\ h.do \in {"attach", "detach", "forceDetach", "putToken"}
  BY <1>1 DEF OfOwner, Requests
<1>3. h.do \in {"attach", "detach"} => \A i \in Ids : h.cb.id = i => h \in C(i)
  BY <1>1 DEF Moves
<1>4. h.do = "putToken" => /\ h.cb.id \in Ids /\ h \in T(h.cb.id)
                           /\ \A i \in Ids : (h \in T(i) <=> i = h.cb.id) /\ h \notin C(i)
  BY <1>1 DEF Moves
<1>5. QED
  BY <1>1, <1>2, <1>3, <1>4

\* The handlers of detached.
LEMMA HandleDetachedSound ==
  ASSUME IInv, agenda # <<>>, UNCHANGED <<events, examining, expired>>,
         NEW h, h = Head(agenda), h.at = "cbs",
         h.do \in Requests, HandleDetached(h, Tail(agenda))
  PROVE  Sound
<1> DEFINE id == h.cb.id
<1>1. /\ id \in Nat /\ h.do \in {"attach", "detach", "forceDetach", "putToken"}
      /\ h.do \in {"attach", "detach"} => \A i \in Ids : id = i => Head(agenda) \in C(i)
      /\ h.do = "putToken" => id \in Ids /\ \A i \in Ids : Head(agenda) \in T(i) <=> i = id
  BY RequestFacts
<1>2. CASE h.do = "attach"
  <2>1. Transition("attaching", id, FALSE, Tail(agenda)) /\ Still
    <3>1. Transition("attaching", id, FALSE, Tail(agenda)) /\ OnlyMachine
      BY <1>2, Zenon DEF HandleDetached
    <3>2. QED
      BY <3>1, StillFacts
  <2> HIDE DEF id
  <2>2. "attaching" \in LinkStates /\ FALSE \in BOOLEAN
    BY DEF LinkStates
  <2>3. \A i \in Ids : id = i => Head(agenda) \in C(i)
    BY <1>1, <1>2
  <2>4. QED
    BY <1>1, <2>1, <2>2, <2>3, TransitionSound
<1>3. CASE h.do = "detach"
  <2>1. AnswerNow(id, Tail(agenda))
    BY <1>3, SMT DEF HandleDetached
  <2> HIDE DEF id
  <2>2. QED
    BY <1>1, <1>3, <2>1, AnswerNowSound
<1>4. CASE h.do = "putToken"
  <2>1. Queue(id, Tail(agenda))
    BY <1>4, SMT DEF HandleDetached
  <2> HIDE DEF id
  <2>2. QED
    BY <1>1, <1>4, <2>1, QueueSound
<1>5. CASE h.do = "forceDetach"
  <2>1. Ignore(Tail(agenda))
    BY <1>5, Zenon DEF HandleDetached
  <2>2. QED
    BY <2>1, IgnoreSound
<1>6. QED
  BY <1>1, <1>2, <1>3, <1>4, <1>5

\* The handlers of attaching.
LEMMA HandleAttachingSound ==
  ASSUME IInv, agenda # <<>>, UNCHANGED <<events, examining, expired>>,
         NEW h, h = Head(agenda), h.at = "cbs",
         h.do \in Requests, HandleAttaching(h, Tail(agenda))
  PROVE  Sound
<1> DEFINE id == h.cb.id
<1>1. /\ id \in Nat /\ h.do \in {"attach", "detach", "forceDetach", "putToken"}
      /\ h.err \in BOOLEAN
      /\ h.do \in {"attach", "detach"} => \A i \in Ids : id = i => Head(agenda) \in C(i)
      /\ h.do = "putToken" => id \in Ids /\ \A i \in Ids : Head(agenda) \in T(i) <=> i = id
  BY RequestFacts
<1>2. CASE h.do = "attach"
  <2>1. Drop(id) /\ agenda' = Tail(agenda) /\ state' = state /\ Still
    BY <1>2, StillFacts, SMT DEF HandleAttaching
  <2> HIDE DEF id
  <2>2. QED
    BY <2>1, DropSound
<1>3. CASE h.do = "detach"
  <2>1. Transition("detaching", id, h.err, Tail(agenda)) /\ Still
    BY <1>3, StillFacts, SMT DEF HandleAttaching
  <2> HIDE DEF id
  <2>2. "detaching" \in LinkStates
    BY DEF LinkStates
  <2>3. \A i \in Ids : id = i => Head(agenda) \in C(i)
    BY <1>1, <1>3
  <2>4. QED
    BY <1>1, <2>1, <2>2, <2>3, TransitionSound
<1>4. CASE h.do = "putToken"
  <2>1. Queue(id, Tail(agenda))
    BY <1>4, SMT DEF HandleAttaching
  <2> HIDE DEF id
  <2>2. QED
    BY <1>1, <1>4, <2>1, QueueSound
<1>5. CASE h.do = "forceDetach"
  <2>1. ForceDetach(<<"sender", "receiver">>, Tail(agenda))
    BY <1>5, SMT DEF HandleAttaching
  <2>2. QED
    BY <2>1, ForceDetachSound
<1>6. QED
  BY <1>1, <1>2, <1>3, <1>4, <1>5

\* The handlers of attached.
LEMMA HandleAttachedKeeps ==
  ASSUME IInv, agenda # <<>>, UNCHANGED <<events, examining, expired>>,
         NEW h, h = Head(agenda), h.at = "cbs",
         h.do \in Requests, HandleAttached(h, Tail(agenda))
  PROVE  IInv'
<1> DEFINE id == h.cb.id
<1>1. /\ id \in Nat /\ h.do \in {"attach", "detach", "forceDetach", "putToken"}
      /\ h.err \in BOOLEAN
      /\ h.do \in {"attach", "detach"} => \A i \in Ids : id = i => Head(agenda) \in C(i)
      /\ h.do = "putToken" =>
           /\ id \in Ids /\ Head(agenda) \in T(id)
           /\ \A i \in Ids : (Head(agenda) \in T(i) <=> i = id) /\ Head(agenda) \notin C(i)
  BY RequestFacts
<1>2. CASE h.do = "attach"
  <2>1. AnswerNow(id, Tail(agenda))
    BY <1>2, Zenon DEF HandleAttached
  <2> HIDE DEF id
  <2>2. Sound
    BY <1>1, <1>2, <2>1, AnswerNowSound
  <2>3. QED
    BY <2>2, SoundKeeps
<1>3. CASE h.do = "detach"
  <2>1. Transition("detaching", id, h.err, Tail(agenda)) /\ Still
    <3>1. Transition("detaching", id, h.err, Tail(agenda)) /\ OnlyMachine
      BY <1>3, Zenon DEF HandleAttached
    <3>2. QED
      BY <3>1, StillFacts
  <2> HIDE DEF id
  <2>2. "detaching" \in LinkStates
    BY DEF LinkStates
  <2>3. \A i \in Ids : id = i => Head(agenda) \in C(i)
    BY <1>1, <1>3
  <2>4. Sound
    BY <1>1, <2>1, <2>2, <2>3, TransitionSound
  <2>5. QED
    BY <2>4, SoundKeeps
<1>4. CASE h.do = "putToken"
  <2>1. PutToken(id, Tail(agenda))
    BY <1>4, Zenon DEF HandleAttached
  <2> HIDE DEF id
  <2>2. QED
    BY <1>1, <1>4, <2>1, PutTokenKeeps
<1>5. CASE h.do = "forceDetach"
  <2>1. ForceDetach(<<"receiver", "sender">>, Tail(agenda))
    BY <1>5, Zenon DEF HandleAttached
  <2>2. Sound
    BY <2>1, ForceDetachSound
  <2>3. QED
    BY <2>2, SoundKeeps
<1>6. QED
  BY <1>1, <1>2, <1>3, <1>4, <1>5

\* What the owner asks of the agent.
LEMMA HandleKeeps ==
  ASSUME IInv, agenda # <<>>, UNCHANGED <<events, examining, expired>>,
         NEW h, h = Head(agenda), h.at = "cbs",
         h.do \in Requests, Handle(h, Tail(agenda))
  PROVE  IInv'
<1>1. state \in LinkStates
  BY DEF IInv, Typed
<1>2. CASE state = "detached"
  <2>1. HandleDetached(h, Tail(agenda))
    BY <1>2, SMT DEF Handle
  <2>2. QED
    BY <2>1, HandleDetachedSound, SoundKeeps
<1>3. CASE state = "attaching"
  <2>1. HandleAttaching(h, Tail(agenda))
    BY <1>3, SMT DEF Handle
  <2>2. QED
    BY <2>1, HandleAttachingSound, SoundKeeps
<1>4. CASE state = "attached"
  <2>1. HandleAttached(h, Tail(agenda))
    BY <1>4, SMT DEF Handle
  <2>2. QED
    BY <2>1, HandleAttachedKeeps
<1>5. CASE state = "detaching"
  <2>1. HandleDetaching(h, Tail(agenda))
    BY <1>5, SMT DEF Handle
  <2>2. h \in OfOwner
    BY RequestFacts
  <2>3. QED
    BY <2>1, <2>2, PutOffSound, SoundKeeps
<1>6. QED
  BY <1>1, <1>2, <1>3, <1>4, <1>5 DEF LinkStates

-----------------------------------------------------------------------------
(* The steps of a turn.                                                    *)

\* The service has accepted a token that is said to be accepted.
LEMMA AcceptedFacts ==
  ASSUME IInv, agenda # <<>>, NEW i \in Ids, Head(agenda) \in A(i)
  PROVE  i \in granted
<1>1. agenda \in Seq(Items)
  BY DEF IInv, Typed
<1>2. Has(agenda, A(i))
  BY <1>1, HasHeadTail
<1>3. QED
  BY <1>2 DEF IInv, Granted

\* An input of the agent.
LEMMA RunAgentKeeps ==
  ASSUME IInv, agenda # <<>>, UNCHANGED <<events, examining, expired>>,
         NEW h, h = Head(agenda), h.at = "cbs",
         RunAgent(h, Tail(agenda))
  PROVE  IInv'
<1> DEFINE id == h.cb.id
<1>1. /\ id \in Nat /\ h.err \in BOOLEAN /\ h.do \in Requests \cup Moves \cup Others
      /\ \A i \in Ids : /\ h \in C(i) <=> \/ h.at = "cbs" /\ h.do \in Moves /\ h.cb.id = i
                                          \/ h.at # "cbs" /\ Carries(h.cb, i)
                        /\ h \in A(i) <=> h.at = "cbs" /\ h.do = "answered" /\ h.cb.id = i /\ ~h.err
  BY HeadFacts DEF IInv
<1>2. ASSUME h.do \in {"enter", "toAttached", "toDetached", "failQueued"}
      PROVE  \A i \in Ids : id = i => Head(agenda) \in C(i)
  BY <1>1, <1>2 DEF Moves
<1>3. CASE h.do = "enter"
  <2>1. Enter(id, h.err, Tail(agenda))
    BY <1>3, Zenon DEF RunAgent
  <2>2. \A i \in Ids : id = i => Head(agenda) \in C(i)
    BY <1>2, <1>3
  <2> HIDE DEF id
  <2>3. QED
    BY <1>1, <2>1, <2>2, EnterSound, SoundKeeps
<1>4. ASSUME NEW to \in {"attached", "detached"}, Transition(to, id, FALSE, Tail(agenda)),
             OnlyMachine, h.do \in {"toAttached", "toDetached"}
      PROVE  Sound
  <2>1. to \in LinkStates /\ FALSE \in BOOLEAN
    BY DEF LinkStates
  <2>2. \A i \in Ids : id = i => Head(agenda) \in C(i)
    BY <1>2, <1>4
  <2>3. Still
    BY <1>4, StillFacts
  <2> HIDE DEF id
  <2>4. QED
    BY <1>1, <1>4, <2>1, <2>2, <2>3, TransitionSound
<1>5. CASE h.do = "toAttached"
  <2>1. Transition("attached", id, FALSE, Tail(agenda)) /\ OnlyMachine
    BY <1>5, Zenon DEF RunAgent
  <2> HIDE DEF id
  <2>2. QED
    BY <1>4, <1>5, <2>1, SoundKeeps
<1>6. CASE h.do = "toDetached"
  <2>1. Transition("detached", id, FALSE, Tail(agenda)) /\ OnlyMachine
    BY <1>6, Zenon DEF RunAgent
  <2> HIDE DEF id
  <2>2. QED
    BY <1>4, <1>6, <2>1, SoundKeeps
<1>7. CASE h.do = "answered"
  <2>1. Answered(id, h.err, Tail(agenda))
    BY <1>7, Zenon DEF RunAgent
  <2>2. \A i \in Ids : i = id => h.err \/ i \in granted
    BY <1>1, <1>7, AcceptedFacts
  <2> HIDE DEF id
  <2>3. QED
    BY <1>1, <2>1, <2>2, AnsweredSound, SoundKeeps
<1>8. CASE h.do \in Requests
  <2>1. h.do \notin {"enter", "toAttached", "toDetached", "answered", "failQueued", "replay",
                     "putQueued", "failKey"}
    BY <1>8 DEF Requests
  <2>2. Handle(h, Tail(agenda))
    BY <2>1, Zenon DEF RunAgent
  <2>3. QED
    BY <1>8, <2>2, HandleKeeps
<1>9. CASE h.do = "failQueued"
  <2>1. FailQueued(id, h.err, Tail(agenda))
    BY <1>9, Zenon DEF RunAgent
  <2>2. \A i \in Ids : id = i => Head(agenda) \in C(i)
    BY <1>2, <1>9
  <2> HIDE DEF id
  <2>3. QED
    BY <1>1, <2>1, <2>2, FailQueuedSound, SoundKeeps
<1>10. CASE h.do = "replay"
  <2>1. Replay(Tail(agenda))
    BY <1>10, Zenon DEF RunAgent
  <2>2. QED
    BY <2>1, ReplaySound, SoundKeeps
<1>11. CASE h.do = "putQueued"
  <2>1. PutQueued(Tail(agenda))
    BY <1>11, Zenon DEF RunAgent
  <2>2. QED
    BY <2>1, PutQueuedSound, SoundKeeps
<1>12. CASE h.do = "failKey"
  <2>1. FailKey(id, Tail(agenda))
    BY <1>12, Zenon DEF RunAgent
  <2> HIDE DEF id
  <2>2. QED
    BY <2>1, FailKeySound, SoundKeeps
<1>13. QED
  BY <1>1, <1>3, <1>5, <1>6, <1>7, <1>8, <1>9, <1>10, <1>11, <1>12 DEF Requests, Moves, Others

\* A callback that was given to a link.
LEMMA CallbackCalledSound ==
  ASSUME IInv, agenda # <<>>, UNCHANGED <<events, examining, expired>>,
         NEW h, h = Head(agenda), h.at = "callback",
         CallbackCalled(h.cb, h.err, Tail(agenda))
  PROVE  Sound
<1> DEFINE cb == h.cb
           id == h.cb.id
           err == h.err
<1>1. /\ cb \in Callbacks /\ id \in Nat /\ err \in BOOLEAN
      /\ \A i \in Ids : h \in C(i) <=> \/ h.at = "cbs" /\ h.do \in Moves /\ h.cb.id = i
                                       \/ h.at # "cbs" /\ Carries(h.cb, i)
  BY HeadFacts DEF IInv
<1>2. ASSUME cb.fn \in LinkNames
      PROVE  \A i \in Ids : id = i => Head(agenda) \in C(i)
  BY <1>1, <1>2 DEF Carries
<1>3. CASE cb.fn = "sender"
  <2>1. SenderAttached(id, err, Tail(agenda))
    BY <1>3, Zenon DEF CallbackCalled
  <2>2. \A i \in Ids : id = i => Head(agenda) \in C(i)
    BY <1>2, <1>3 DEF LinkNames
  <2> HIDE DEF id, err
  <2>3. QED
    BY <1>1, <2>1, <2>2, SenderAttachedSound
<1>4. CASE cb.fn = "receiver"
  <2>1. ReceiverAttached(id, err, Tail(agenda))
    BY <1>4, SMT DEF CallbackCalled
  <2>2. \A i \in Ids : id = i => Head(agenda) \in C(i)
    BY <1>2, <1>4 DEF LinkNames
  <2> HIDE DEF id, err
  <2>3. QED
    BY <1>1, <2>1, <2>2, ReceiverAttachedSound
<1>5. CASE cb.fn = "each"
  <2>1. Each(id, err, Tail(agenda))
    BY <1>5, SMT DEF CallbackCalled
  <2> HIDE DEF id, err
  <2>3. QED
    BY <1>1, <2>1, EachSound
<1>6. CASE cb.fn \notin {"sender", "receiver", "each"}
  <2>1. Ignore(Tail(agenda))
    BY <1>6, SMT DEF CallbackCalled
  <2>2. QED
    BY <2>1, IgnoreSound
<1>7. QED
  BY <1>3, <1>4, <1>5, <1>6

\* The links after one of them has changed.
LEMMA LinksAfter ==
  ASSUME Typed, NEW k \in LinkNames, NEW l \in Links, links' = [links EXCEPT ![k] = l],
         UNCHANGED <<deferred, each>>, NEW i \in Ids
  PROVE  /\ links' \in [LinkNames -> Links]
         /\ Elsewhere(i)' + Holds(links[k], i) = Elsewhere(i) + Holds(l, i)
<1>1. links \in [LinkNames -> Links]
  BY DEF Typed
<1>2. links' \in [LinkNames -> Links]
  BY <1>1
<1>3. /\ Holds(links["sender"], i) \in Nat /\ Holds(links["receiver"], i) \in Nat
      /\ Holds(l, i) \in Nat /\ Count(deferred, C(i)) \in Nat
      /\ One(each.left > 0 /\ each.id = i) \in Nat
  BY PlacesNat, HoldsNat
<1>4. /\ Elsewhere(i) = Count(deferred, C(i)) + One(each.left > 0 /\ each.id = i)
                          + Holds(links["sender"], i) + Holds(links["receiver"], i)
      /\ Elsewhere(i)' = Count(deferred, C(i)) + One(each.left > 0 /\ each.id = i)
                          + Holds(links'["sender"], i) + Holds(links'["receiver"], i)
  BY DEF Elsewhere
<1>5. CASE k = "sender"
  <2>1. links'["sender"] = l /\ links'["receiver"] = links["receiver"]
    BY <1>1, <1>5 DEF LinkNames
  <2>2. QED
    BY <1>2, <1>3, <1>4, <1>5, <2>1
<1>6. CASE k = "receiver"
  <2>1. links'["receiver"] = l /\ links'["sender"] = links["sender"]
    BY <1>1, <1>6 DEF LinkNames
  <2>2. QED
    BY <1>2, <1>3, <1>4, <1>6, <2>1
<1>7. QED
  BY <1>5, <1>6 DEF LinkNames

\* What a turn goes on with, in four parts.
LEMMA FourParts ==
  ASSUME NEW a \in Seq(Items), NEW b \in Seq(Items), NEW c \in Seq(Items), NEW d \in Seq(Items)
  PROVE  /\ a \o b \o c \o d \in Seq(Items)
         /\ \A S : /\ Count(a \o b \o c \o d, S)
                        = Count(a, S) + Count(b, S) + Count(c, S) + Count(d, S)
                   /\ Has(a \o b \o c \o d, S)
                        <=> Has(a, S) \/ Has(b, S) \/ Has(c, S) \/ Has(d, S)
<1>1. a \o b \in Seq(Items) /\ a \o b \o c \in Seq(Items) /\ a \o b \o c \o d \in Seq(Items)
  BY ConcatProperties
<1>2. ASSUME NEW S
      PROVE  /\ Count(a \o b, S) = Count(a, S) + Count(b, S)
             /\ Has(a \o b, S) <=> Has(a, S) \/ Has(b, S)
  BY CountConcat, HasConcat
<1>3. ASSUME NEW S
      PROVE  /\ Count(a \o b \o c, S) = Count(a \o b, S) + Count(c, S)
             /\ Has(a \o b \o c, S) <=> Has(a \o b, S) \/ Has(c, S)
  BY <1>1, CountConcat, HasConcat
<1> DEFINE t == a \o b \o c
<1>4. ASSUME NEW S
      PROVE  /\ Count(t \o d, S) = Count(t, S) + Count(d, S)
             /\ Has(t \o d, S) <=> Has(t, S) \/ Has(d, S)
  <2>1. t \in Seq(Items)
    BY <1>1
  <2> HIDE DEF t
  <2>2. QED
    BY <2>1, CountConcat, HasConcat
<1>5. QED
  BY <1>1, <1>2, <1>3, <1>4

\* The callbacks after a handler of a link: those of the rest of the turn, those that the
\* handler gives, and those that are elsewhere.
LEMMA LinkSums ==
  ASSUME NEW h \in {0, 1}, NEW rest \in Nat, NEW now \in Nat, NEW next \in Nat,
         NEW old \in Nat, NEW new \in Nat, NEW e \in Nat, NEW f \in Nat,
         (new + now) + next <= old + h, f + old = e + new
  PROVE  (((now + 0) + rest) + next) + f <= (h + rest) + e
OBVIOUS

\* An input of a link.
LEMMA RunLinkSound ==
  ASSUME IInv, agenda # <<>>, UNCHANGED <<events, examining, expired>>,
         NEW h, h = Head(agenda), NEW k \in LinkNames,
         h \in OfLink, RunLink(k, h, Tail(agenda))
  PROVE  Sound
<1> DEFINE done == LinkStep(links[k], h)
           rest == Tail(agenda)
           sending == k = "sender" /\ h.do = "open" /\ links[k].state = "attaching"
           s == IF sending THEN <<Input(k, "send", NoCallback, FALSE)>> ELSE <<>>
<1>1. Typed /\ links[k] \in Links /\ rest \in Seq(Items) /\ agenda \in Seq(Items)
  BY HeadTailProperties DEF IInv, Typed
<1>2. /\ links' = [links EXCEPT ![k] = done.link]
      /\ agenda' = IF done.throws THEN <<>> ELSE done.now \o s \o rest \o done.next
      /\ UNCHANGED <<state, deferred, each, notYetSent, outstanding, timer, left, calls, granted,
                     unsent, pending>>
  BY Zenon DEF RunLink, sends, tokens, peer
<1>3. s \in Seq(Blank)
  <2>1. Input(k, "send", NoCallback, FALSE) \in Blank
    BY BlankItems DEF LinkInputs
  <2> DEFINE x == Input(k, "send", NoCallback, FALSE)
  <2>2. s = IF sending THEN <<x>> ELSE <<>>
    OBVIOUS
  <2> HIDE DEF x, sending, s
  <2>3. x \in Blank
    BY <2>1 DEF x
  <2>4. QED
    BY <2>2, <2>3
<1>4. s \in Seq(Items) /\ \A i \in Ids : Count(s, C(i)) = 0 /\ Count(s, T(i)) = 0 /\ ~Has(s, A(i))
  BY <1>3, BlankFacts
<1> HIDE DEF s
<1>5. \A i \in Ids : WellDone(done) /\ Gives(done, i) <= Holds(links[k], i) + One(h \in C(i))
  <2>1. \A i \in Ids : Linear(LinkStep(links[k], h), links[k], h, i)
    BY <1>1, LinkStepFacts
  <2>2. QED
    BY <2>1, Zenon DEF Linear
<1> HIDE DEF done
<1>6. /\ done.link \in Links /\ done.now \in Seq(OfLinks) /\ done.next \in Seq(OfLinks)
  <2>1. 1 \in Ids
    BY CbsAssumption DEF Ids
  <2>2. QED
    BY <1>5, <2>1 DEF WellDone
<1>7. done.now \in Seq(Items) /\ done.next \in Seq(Items)
  BY <1>6, SeqWiden DEF Items
<1> HIDE DEF rest
<1>8. \A i \in Ids : /\ Count(done.now, T(i)) = 0 /\ ~Has(done.now, A(i))
                     /\ Count(done.next, T(i)) = 0 /\ ~Has(done.next, A(i))
  BY <1>6, OfLinksFacts
<1>9. \A S : /\ Count(agenda, S) = One(h \in S) + Count(rest, S)
             /\ Has(agenda, S) <=> h \in S \/ Has(rest, S)
  BY <1>1, CountHeadTail, HasHeadTail DEF One, rest
<1>10. ASSUME NEW i \in Ids
       PROVE  /\ links' \in [LinkNames -> Links]
              /\ Elsewhere(i)' + Holds(links[k], i) = Elsewhere(i) + Holds(done.link, i)
  BY <1>1, <1>2, <1>6, LinksAfter
<1>11. ASSUME NEW i \in Ids
       PROVE  /\ Elsewhere(i)' \in Nat /\ Elsewhere(i) \in Nat
              /\ Holds(links[k], i) \in Nat /\ Holds(done.link, i) \in Nat
              /\ Count(done.now, C(i)) \in Nat /\ Count(done.next, C(i)) \in Nat
              /\ Count(rest, C(i)) \in Nat /\ Count(rest, T(i)) \in Nat
              /\ One(h \in C(i)) \in {0, 1} /\ One(h \in T(i)) \in {0, 1}
              /\ (Holds(done.link, i) + Count(done.now, C(i))) + Count(done.next, C(i))
                   <= Holds(links[k], i) + One(h \in C(i))
  <2>1. /\ Holds(links[k], i) \in Nat /\ Holds(done.link, i) \in Nat
        /\ Count(done.now, C(i)) \in Nat /\ Count(done.next, C(i)) \in Nat
    BY <1>1, <1>6, HoldsNat
  <2>2. Count(rest, C(i)) \in Nat /\ Count(rest, T(i)) \in Nat
    BY <1>1, CountNat
  <2>3. One(h \in C(i)) \in {0, 1} /\ One(h \in T(i)) \in {0, 1}
    BY OneFacts
  <2>4. Gives(done, i) = (Holds(done.link, i) + Count(done.now, C(i))) + Count(done.next, C(i))
    BY DEF Gives
  <2>5. Elsewhere(i) \in Nat
    BY <1>1, PlacesNat
  <2>6. links' \in [LinkNames -> Links]
    BY <1>10
  <2>7. Elsewhere(i)' \in Nat
    <3>1. links'["sender"] \in Links /\ links'["receiver"] \in Links
      BY <2>6 DEF LinkNames
    <3>2. Holds(links'["sender"], i) \in Nat /\ Holds(links'["receiver"], i) \in Nat
      BY <3>1, HoldsNat
    <3>3. Count(deferred, C(i)) \in Nat /\ One(each.left > 0 /\ each.id = i) \in Nat
      BY <1>1, PlacesNat
    <3>4. Elsewhere(i)' = Count(deferred, C(i)) + One(each.left > 0 /\ each.id = i)
                            + Holds(links'["sender"], i) + Holds(links'["receiver"], i)
      BY <1>2 DEF Elsewhere
    <3>5. QED
      BY <3>2, <3>3, <3>4
  <2>8. QED
    BY <1>5, <2>1, <2>2, <2>3, <2>4, <2>5, <2>7
<1>12. agenda' \in Seq(Items)
  <2>1. done.now \o s \o rest \o done.next \in Seq(Items)
    BY <1>1, <1>4, <1>7, FourParts
  <2>2. QED
    BY <1>2, <2>1
<1>13. ASSUME NEW i \in Ids
       PROVE  /\ Chain(i)' <= Chain(i)
              /\ Count(agenda', T(i)) <= Count(agenda, T(i))
              /\ Has(agenda', A(i)) => Has(agenda, A(i)) \/ i \in granted'
  <2>1. /\ Chain(i)' = Count(agenda', C(i)) + Elsewhere(i)'
        /\ Chain(i) = (One(h \in C(i)) + Count(rest, C(i))) + Elsewhere(i)
        /\ Count(agenda, T(i)) = One(h \in T(i)) + Count(rest, T(i))
    BY <1>9 DEF Chain
  <2>2. (((Count(done.now, C(i)) + 0) + Count(rest, C(i))) + Count(done.next, C(i))) + Elsewhere(i)'
           <= (One(h \in C(i)) + Count(rest, C(i))) + Elsewhere(i)
    BY <1>10, <1>11, LinkSums
  <2>3. CASE done.throws
    <3>1. agenda' = <<>>
      BY <1>2, <2>3
    <3>2. Count(agenda', C(i)) = 0 /\ Count(agenda', T(i)) = 0 /\ ~Has(agenda', A(i))
      BY <3>1, CountEmpty, HasOne
    <3>3. Chain(i)' = 0 + Elsewhere(i)'
      BY <2>1, <3>2
    <3>4. Chain(i)' <= Chain(i) /\ 0 <= Count(agenda, T(i))
      BY <1>11, <2>1, <2>2, <3>3, SMTT(60)
    <3>5. QED
      BY <3>2, <3>4
  <2>4. CASE ~done.throws
    <3>1. agenda' = done.now \o s \o rest \o done.next
      BY <1>2, <2>4
    <3>2. \A S : /\ Count(agenda', S)
                      = Count(done.now, S) + Count(s, S) + Count(rest, S) + Count(done.next, S)
                 /\ Has(agenda', S)
                      <=> Has(done.now, S) \/ Has(s, S) \/ Has(rest, S) \/ Has(done.next, S)
      BY <1>1, <1>4, <1>7, <3>1, FourParts
    <3>3. Count(agenda', C(i))
            = ((Count(done.now, C(i)) + 0) + Count(rest, C(i))) + Count(done.next, C(i))
      BY <1>4, <3>2
    <3>4. Count(agenda', T(i)) = ((0 + 0) + Count(rest, T(i))) + 0
      BY <1>4, <1>8, <3>2
    <3>5. Has(agenda', A(i)) => Has(agenda, A(i))
      BY <1>4, <1>8, <1>9, <3>2
    <3>6. Chain(i)' <= Chain(i)
      BY <2>1, <2>2, <3>3
    <3>7. Count(agenda', T(i)) <= Count(agenda, T(i))
      BY <1>11, <2>1, <3>4
    <3>8. QED
      BY <3>5, <3>6, <3>7
  <2>5. QED
    BY <2>3, <2>4
<1>14. HandsOn /\ unsent' \in Seq(Ids) /\ pending' \in SUBSET Ids
  BY <1>2, HandsOnSame
<1>15. links' \in [LinkNames -> Links]
  <2>1. 1 \in Ids
    BY CbsAssumption DEF Ids
  <2>2. QED
    BY <1>10, <2>1
<1>16. events' \in Nat /\ events' <= MaxEvents /\ granted \subseteq granted'
  BY <1>1, <1>2 DEF Typed
<1>17. QED
  BY <1>2, <1>12, <1>13, <1>14, <1>15, <1>16, PlacesSound

\* A step of a turn keeps the invariant.
LEMMA RunKeeps ==
  ASSUME IInv, Run
  PROVE  IInv'
<1> DEFINE h == Head(agenda)
           rest == Tail(agenda)
<1>1. agenda # <<>> /\ UNCHANGED <<events, examining, expired>>
  BY DEF Run
<1>2. /\ h \in Items /\ h.at \in {"cbs", "callback", "sender", "receiver"}
      /\ h.at \in LinkNames => h \in OfLink
  BY <1>1, HeadFacts DEF IInv
<1>3. CASE h.at = "cbs"
  <2>1. RunAgent(h, rest)
    BY <1>3, Zenon DEF Run
  <2>2. QED
    BY <1>1, <1>3, <2>1, RunAgentKeeps
<1>4. CASE h.at = "callback"
  <2>1. CallbackCalled(h.cb, h.err, rest)
    BY <1>4, Zenon DEF Run
  <2>2. QED
    BY <1>1, <1>4, <2>1, CallbackCalledSound, SoundKeeps
<1>5. CASE h.at \in LinkNames
  <2>0. h.at # "cbs" /\ h.at # "callback"
    BY <1>5 DEF LinkNames
  <2>1. CASE h.do = "failSends"
    <3>1. IF h.at = "sender" THEN FailSends(h, rest) ELSE Ignore(rest)
      BY <2>0, <2>1, Zenon DEF Run
    <3>2. QED
      BY <1>1, <1>2, <1>5, <3>1, FailSendsSound, IgnoreSound, SoundKeeps
  <2>2. CASE h.do = "emitError"
    <3>0. h.do # "failSends"
      BY <2>2
    <3>1. EmitError
      BY <2>0, <2>2, <3>0, Zenon DEF Run
    <3>2. QED
      BY <1>1, <3>1, EmitErrorSound, SoundKeeps
  <2>3. CASE h.do = "send"
    <3>0. h.do # "failSends" /\ h.do # "emitError"
      BY <2>3
    <3>1. Send(rest)
      BY <2>0, <2>3, <3>0, Zenon DEF Run
    <3>2. QED
      BY <1>1, <3>1, SendSound, SoundKeeps
  <2>4. CASE h.do # "failSends" /\ h.do # "emitError" /\ h.do # "send"
    <3>1. RunLink(h.at, h, rest)
      BY <2>0, <2>4, Zenon DEF Run
    <3>2. QED
      BY <1>1, <1>2, <1>5, <3>1, RunLinkSound, SoundKeeps
  <2>5. QED
    BY <2>1, <2>2, <2>3, <2>4
<1>6. QED
  BY <1>2, <1>3, <1>4, <1>5 DEF LinkNames
-----------------------------------------------------------------------------
(* The owner, the clock and the service.                                   *)

\* An event.
LEMMA EventFacts ==
  ASSUME IInv, NEW b, Event(b)
  PROVE  /\ events' \in Nat /\ events' <= MaxEvents /\ agenda = <<>>
         /\ examining' = examining /\ expired' = expired
<1>1. events \in Nat /\ events <= MaxEvents /\ MaxEvents \in Nat
  BY CbsAssumption DEF IInv, Typed
<1>2. /\ agenda = <<>> /\ (events' = events \/ (events < MaxEvents /\ events' = events + 1))
      /\ examining' = examining /\ expired' = expired
  BY DEF Event, Quiet
<1>3. QED
  BY <1>1, <1>2

\* A turn that begins with what carries no callback.
LEMMA BeginsSound ==
  ASSUME IInv, agenda = <<>>, agenda' \in Seq(Items),
         UNCHANGED <<state, deferred, each, notYetSent, outstanding, timer, left, calls,
                     examining, expired>>,
         events' \in Nat, events' <= MaxEvents, granted \subseteq granted',
         links' \in [LinkNames -> Links],
         unsent' \in Seq(Ids), pending' \in SUBSET Ids, HandsOn,
         \A i \in Ids : /\ Count(agenda', C(i)) = 0 /\ Count(agenda', T(i)) = 0
                        /\ Has(agenda', A(i)) => i \in granted'
                        /\ Holds(links'["sender"], i) = Holds(links["sender"], i)
                        /\ Holds(links'["receiver"], i) = Holds(links["receiver"], i)
  PROVE  Sound
<1>1. ASSUME NEW i \in Ids
      PROVE  /\ Chain(i)' <= Chain(i)
             /\ Count(agenda', T(i)) <= Count(agenda, T(i))
             /\ Has(agenda', A(i)) => Has(agenda, A(i)) \/ i \in granted'
  <2>1. Count(agenda, C(i)) = 0 /\ Count(agenda, T(i)) = 0
    BY CountEmpty
  <2>2. Elsewhere(i)' = Elsewhere(i)
    BY DEF Elsewhere
  <2>3. Chain(i)' = Chain(i) /\ Chain(i) \in Nat
    BY <2>1, <2>2, PlacesNat DEF Chain, IInv
  <2>4. Count(agenda', T(i)) = Count(agenda, T(i))
    BY <2>1
  <2>5. QED
    BY <2>1, <2>3, <2>4
<1>2. QED
  BY <1>1, PlacesSound

\* What the links hear.
LEMMA HearsSound ==
  ASSUME IInv, agenda = <<>>, NEW k \in LinkNames, NEW do \in {"open", "close"}, NEW err \in BOOLEAN,
         Hears(<<Input(k, do, NoCallback, err)>>),
         UNCHANGED <<links, asked, granted, examining, expired>>,
         events' \in Nat, events' <= MaxEvents
  PROVE  Sound
<1> DEFINE x == Input(k, do, NoCallback, err)
<1>1. x \in Blank
  BY BlankItems DEF LinkInputs
<1>2. /\ agenda' = <<x>>
      /\ UNCHANGED <<state, deferred, each, notYetSent, outstanding, timer, left, calls, unsent,
                     pending, links, granted>>
  BY DEF Hears, sends, tokens
<1> HIDE DEF x
<1>3. <<x>> \in Seq(Blank)
  BY <1>1
<1>4. /\ agenda' \in Seq(Items)
      /\ \A i \in Ids : Count(agenda', C(i)) = 0 /\ Count(agenda', T(i)) = 0 /\ ~Has(agenda', A(i))
  BY <1>2, <1>3, BlankFacts
<1>5. HandsOn /\ unsent' \in Seq(Ids) /\ pending' \in SUBSET Ids
  BY <1>2, HandsOnSame
<1>6. links' \in [LinkNames -> Links] /\ granted \subseteq granted'
  BY <1>2 DEF IInv, Typed
<1>7. \A i \in Ids : /\ Holds(links'["sender"], i) = Holds(links["sender"], i)
                     /\ Holds(links'["receiver"], i) = Holds(links["receiver"], i)
  BY <1>2
<1>8. QED
  BY <1>2, <1>4, <1>5, <1>6, <1>7, BeginsSound

\* The peer opens and closes links.
LEMMA PeerSound ==
  ASSUME IInv, NEW k \in DOMAIN links, NEW err \in BOOLEAN, PeerOpens(k) \/ PeerCloses(k, err)
  PROVE  Sound
<1>1. k \in LinkNames
  BY DEF IInv, Typed
<1>2. CASE PeerOpens(k)
  <2>1. /\ events' \in Nat /\ events' <= MaxEvents /\ agenda = <<>>
        /\ examining' = examining /\ expired' = expired
    BY <1>2, EventFacts DEF PeerOpens
  <2>2. Hears(<<Input(k, "open", NoCallback, FALSE)>>) /\ UNCHANGED <<links, asked, granted>>
    BY <1>2 DEF PeerOpens
  <2>3. QED
    BY <1>1, <2>1, <2>2, HearsSound
<1>3. CASE PeerCloses(k, err)
  <2>1. /\ events' \in Nat /\ events' <= MaxEvents /\ agenda = <<>>
        /\ examining' = examining /\ expired' = expired
    BY <1>3, EventFacts DEF PeerCloses
  <2>2. Hears(<<Input(k, "close", NoCallback, err)>>) /\ UNCHANGED <<links, asked, granted>>
    BY <1>3 DEF PeerCloses
  <2>3. QED
    BY <1>1, <2>1, <2>2, HearsSound
<1>4. QED
  BY <1>2, <1>3

\* The disposition of a message.
LEMMA PeerSettlesSound ==
  ASSUME IInv, NEW i \in Ids, NEW err \in BOOLEAN, PeerSettles(i, err)
  PROVE  Sound
<1> DEFINE x == Agent("answered", i, TRUE)
           new == IF err THEN <<x>> ELSE <<>>
<1>1. /\ events' \in Nat /\ events' <= MaxEvents /\ agenda = <<>>
      /\ examining' = examining /\ expired' = expired
  BY EventFacts DEF PeerSettles
<1>2. /\ agenda' = new /\ pending' = pending \ {i}
      /\ UNCHANGED <<state, deferred, each, notYetSent, outstanding, timer, left, calls, unsent,
                     links, granted>>
  BY DEF PeerSettles, tokens
<1>3. x \in Blank
  BY BlankItems
<1> HIDE DEF x
<1>4. new \in Seq(Blank)
  BY <1>3
<1> HIDE DEF new
<1>5. /\ agenda' \in Seq(Items)
      /\ \A j \in Ids : Count(agenda', C(j)) = 0 /\ Count(agenda', T(j)) = 0 /\ ~Has(agenda', A(j))
  BY <1>2, <1>4, BlankFacts
<1>6. HandsOn /\ unsent' \in Seq(Ids) /\ pending' \in SUBSET Ids
  BY <1>2 DEF HandsOn, IInv, Granted, Typed
<1>7. links' \in [LinkNames -> Links] /\ granted \subseteq granted'
  BY <1>2 DEF IInv, Typed
<1>8. \A j \in Ids : /\ Holds(links'["sender"], j) = Holds(links["sender"], j)
                     /\ Holds(links'["receiver"], j) = Holds(links["receiver"], j)
  BY <1>2
<1>9. QED
  BY <1>1, <1>2, <1>5, <1>6, <1>7, <1>8, BeginsSound

\* A message that is kept is no callback.
LEMMA ReceivedFacts ==
  ASSUME NEW l \in Links, NEW message \in Ids
  PROVE  Received(l, message) \in Links /\ \A i \in Ids : Holds(Received(l, message), i) = Holds(l, i)
<1>1. Received(l, message) = [l EXCEPT !.undisposed = l.undisposed \cup {message}]
  BY DEF Received
<1>2. message \in Nat
  BY DEF Ids
<1>3. l.undisposed \cup {message} \in SUBSET Nat
  BY <1>2 DEF Links
<1>4. Received(l, message) \in Links
  BY <1>1, <1>3 DEF Links
<1>5. /\ Received(l, message).attaching = l.attaching /\ Received(l, message).detaching = l.detaching
      /\ Received(l, message).deferred = l.deferred
  BY <1>1 DEF Links
<1>6. QED
  BY <1>4, <1>5 DEF Holds

\* A response: what it says is accepted, the service has accepted.
LEMMA ServiceAnswersSound ==
  ASSUME IInv, NEW i \in Ids, NEW err \in BOOLEAN, ServiceAnswers(i, err)
  PROVE  Sound
<1> DEFINE x == [Input("receiver", "accept", NoCallback, FALSE) EXCEPT !.about = i]
           y == Agent("answered", i, err)
           l == Received(links["receiver"], i)
<1>1. /\ events' \in Nat /\ events' <= MaxEvents /\ agenda = <<>>
      /\ examining' = examining /\ expired' = expired
  BY EventFacts DEF ServiceAnswers
<1>2. /\ agenda' = <<x, y>>
      /\ links' = [links EXCEPT !["receiver"] = l]
      /\ granted' = IF err THEN granted ELSE granted \cup {i}
      /\ UNCHANGED <<state, deferred, each, notYetSent, outstanding, timer, left, calls, unsent,
                     pending>>
  BY DEF ServiceAnswers, Response, Hears, sends, tokens
<1>3. x \in Blank
  <2>1. NoCallback \in Callbacks /\ \A j \in Ids : ~Carries(NoCallback, j)
    BY CallbackFacts, NoCallbackFacts DEF NoCallback
  <2> DEFINE z == Input("receiver", "accept", NoCallback, FALSE)
  <2>2. z \in Inputs /\ z.at = "receiver" /\ z.cb = NoCallback
    BY <2>1 DEF Input, Inputs, Dos, LinkInputs
  <2>3. i \in Nat
    BY DEF Ids
  <2> HIDE DEF z
  <2>4. x = [z EXCEPT !.about = i]
    BY DEF z
  <2>5. x \in Inputs /\ x.at = "receiver" /\ x.cb = NoCallback
    BY <2>2, <2>3, <2>4 DEF Inputs
  <2> HIDE DEF x
  <2>6. x \in Items
    BY <2>5 DEF Items, OfLinks, OfLink, LinkNames
  <2>7. QED
    BY <2>1, <2>5, <2>6 DEF Blank, C, T, A
<1>4. /\ y \in Items
      /\ \A j \in Ids : /\ y \notin C(j) /\ y \notin T(j)
                        /\ y \in A(j) => j = i /\ ~err
  <2>1. /\ i \in Nat /\ "answered" \in Others /\ "answered" \notin Moves
        /\ "answered" # "putToken"
    BY DEF Ids, Moves, Others
  <2>2. QED
    BY <2>1, AgentFacts
<1>5. l \in Links /\ \A j \in Ids : Holds(l, j) = Holds(links["receiver"], j)
  BY ReceivedFacts DEF IInv, Typed, LinkNames
<1> HIDE DEF x, y, l
<1>6. <<x, y>> = <<x>> \o <<y>>
  BY PairFacts
<1>7. /\ <<x>> \in Seq(Items) /\ <<y>> \in Seq(Items)
      /\ \A j \in Ids : /\ Count(<<x>>, C(j)) = 0 /\ Count(<<x>>, T(j)) = 0 /\ ~Has(<<x>>, A(j))
                        /\ Count(<<y>>, C(j)) = 0 /\ Count(<<y>>, T(j)) = 0
                        /\ Has(<<y>>, A(j)) <=> y \in A(j)
  <2>1. <<x>> \in Seq(Blank) /\ <<y>> \in Seq(Items)
    BY <1>3, <1>4
  <2>2. \A j \in Ids : /\ Count(<<y>>, C(j)) = 0 /\ Count(<<y>>, T(j)) = 0
                       /\ Has(<<y>>, A(j)) <=> y \in A(j)
    BY <1>4, CountOne, HasOne
  <2>3. QED
    BY <2>1, <2>2, BlankFacts
<1>8. /\ agenda' \in Seq(Items)
      /\ \A j \in Ids : /\ Count(agenda', C(j)) = 0 /\ Count(agenda', T(j)) = 0
                        /\ Has(agenda', A(j)) => j \in granted'
  <2> DEFINE p == <<x>>
             q == <<y>>
  <2>0. /\ p \in Seq(Items) /\ q \in Seq(Items)
        /\ \A j \in Ids : /\ Count(p, C(j)) = 0 /\ Count(p, T(j)) = 0 /\ ~Has(p, A(j))
                          /\ Count(q, C(j)) = 0 /\ Count(q, T(j)) = 0
                          /\ Has(q, A(j)) <=> y \in A(j)
    BY <1>7
  <2>1. agenda' = p \o q
    BY <1>2, <1>6
  <2> HIDE DEF p, q
  <2>2. \A S : /\ Count(agenda', S) = Count(p, S) + Count(q, S)
               /\ Has(agenda', S) <=> Has(p, S) \/ Has(q, S)
    BY <2>0, <2>1, CountConcat, HasConcat
  <2>3. agenda' \in Seq(Items)
    BY <2>0, <2>1, ConcatProperties
  <2>4. \A j \in Ids : Count(agenda', C(j)) = 0 /\ Count(agenda', T(j)) = 0
    BY <2>0, <2>2
  <2>5. \A j \in Ids : Has(agenda', A(j)) => j \in granted'
    BY <1>2, <1>4, <2>0, <2>2
  <2>6. QED
    BY <2>3, <2>4, <2>5
<1>9. HandsOn /\ unsent' \in Seq(Ids) /\ pending' \in SUBSET Ids
  BY <1>2, HandsOnSame
<1>10. /\ links' \in [LinkNames -> Links] /\ links'["receiver"] = l
       /\ links'["sender"] = links["sender"]
  BY <1>2, <1>5 DEF IInv, Typed, LinkNames
<1>11. \A j \in Ids : /\ Holds(links'["sender"], j) = Holds(links["sender"], j)
                      /\ Holds(links'["receiver"], j) = Holds(links["receiver"], j)
  BY <1>5, <1>10
<1>12. granted \subseteq granted'
  BY <1>2
<1>13. QED
  BY <1>1, <1>2, <1>8, <1>9, <1>10, <1>11, <1>12, BeginsSound

\* Nothing happens to what the invariant is about.
LEMMA NothingSound ==
  ASSUME IInv, UNCHANGED <<state, deferred, each, links, unsent, pending, notYetSent, outstanding,
                           timer, agenda, calls, granted, left, examining,
                           expired>>,
         events' \in Nat, events' <= MaxEvents
  PROVE  Sound
<1>1. Typed
  BY DEF IInv
<1>2. HandsOn /\ unsent' \in Seq(Ids) /\ pending' \in SUBSET Ids
  BY HandsOnSame
<1>3. /\ agenda' \in Seq(Items) /\ links' \in [LinkNames -> Links] /\ granted \subseteq granted'
  BY <1>1 DEF Typed
<1>4. ASSUME NEW i \in Ids
      PROVE  /\ Chain(i)' <= Chain(i)
             /\ Count(agenda', T(i)) <= Count(agenda, T(i))
             /\ Has(agenda', A(i)) => Has(agenda, A(i)) \/ i \in granted'
  <2>1. Chain(i)' = Chain(i) /\ Chain(i) \in Nat /\ Count(agenda, T(i)) \in Nat
    BY <1>1, PlacesNat DEF Chain, Elsewhere
  <2>2. Count(agenda', T(i)) = Count(agenda, T(i)) /\ Has(agenda', A(i)) = Has(agenda, A(i))
    OBVIOUS
  <2>3. QED
    BY <2>1, <2>2
<1>5. QED
  BY <1>2, <1>3, <1>4, PlacesSound

\* The clock, and the callbacks of the tokens that expired.
LEMMA CalmSound ==
  ASSUME IInv, UNCHANGED <<state, deferred, each, links, unsent, pending, notYetSent, agenda,
                           granted, left, events>>,
         outstanding' \in Seq(Ids), expired' \in Seq(Ids), timer' \in Timers,
         examining' \in BOOLEAN, CallsKept, Truthful, Watched',
         \A i \in Ids : Out(i)' + ToldOf(i)' <= Out(i) + ToldOf(i)
  PROVE  Sound
<1>1. Typed
  BY DEF IInv
<1>2. Typed'
  BY <1>1 DEF Typed, CallsKept
<1>3. Lawful
  <2>1. ASSUME NEW i \in Ids
        PROVE  /\ Chain(i)' <= Chain(i) /\ Waiting(i)' <= Waiting(i)
               /\ Chain(i)' + Waiting(i)' + Out(i)' + ToldOf(i)'
                    <= Chain(i) + Waiting(i) + Out(i) + ToldOf(i)
    <3>1. Chain(i)' = Chain(i) /\ Waiting(i)' = Waiting(i)
      BY DEF Chain, Elsewhere, Waiting, Later
    <3>2. Chain(i) \in Nat /\ Waiting(i) \in Nat /\ Out(i) \in Nat /\ ToldOf(i) \in Nat
      BY <1>1, PlacesNat
    <3>3. Out(i)' \in Nat /\ ToldOf(i)' \in Nat
      BY <1>2, PlacesNatNext
    <3>4. Out(i)' + ToldOf(i)' <= Out(i) + ToldOf(i)
      OBVIOUS
    <3>5. QED
      BY <3>1, <3>2, <3>3, <3>4
  <2>2. QED
    BY <2>1 DEF Lawful
<1>4. HandsOn
  BY HandsOnSame
<1>5. granted \subseteq granted' /\ \A i \in Ids : Has(agenda', A(i)) => Has(agenda, A(i))
  OBVIOUS
<1>6. QED
  BY <1>2, <1>3, <1>4, <1>5 DEF Sound

\* _removeExpiredPutTokens: the tokens that expired are outstanding no more.
LEMMA TimerFiresSound ==
  ASSUME IInv, NEW n \in 0..Len(outstanding), TimerFires(n)
  PROVE  Sound
<1> DEFINE old == SubSeq(outstanding, 1, n)
           kept == SubSeq(outstanding, n + 1, Len(outstanding))
<1>1. /\ Typed /\ Watched /\ outstanding \in Seq(Ids) /\ timer \in Timers
  BY DEF IInv, Typed
<1>2. /\ outstanding' = kept /\ expired' = old /\ examining' = TRUE /\ calls' = calls
      /\ UNCHANGED <<state, deferred, each, links, unsent, pending, notYetSent, agenda, granted,
                     left, events>>
  BY DEF TimerFires, sends, peer
<1>3. /\ timer' \in Timers /\ timer'.doubled = timer.doubled
      /\ \/ timer.known /\ ~timer'.known /\ timer'.strays = timer.strays
         \/ timer.strays > 0
  <2>1. CASE timer.known /\ timer' = Cleared
    BY <1>1, <2>1, TimerFacts
  <2>2. CASE timer.strays > 0 /\ timer' = [timer EXCEPT !.strays = @ - 1]
    <3> DEFINE m == timer.strays - 1
    <3>1. m \in Nat
      BY <1>1, <2>2 DEF Timers
    <3>2. timer' = [timer EXCEPT !.strays = m]
      BY <2>2
    <3> HIDE DEF m
    <3>3. QED
      BY <1>1, <2>2, <3>1, <3>2 DEF Timers
  <2>3. QED
    BY <2>1, <2>2 DEF TimerFires
<1>4. old \in Seq(Ids) /\ kept \in Seq(Ids) /\ old \o kept = outstanding
  BY <1>1, SplitSeq
<1> HIDE DEF old, kept
<1>5. CallsKept /\ Truthful /\ \A i \in Ids : ToldOf(i)' = ToldOf(i)
  BY <1>1, <1>2, NoAnswerFacts
<1>6. ASSUME NEW i \in Ids
      PROVE  Out(i)' + ToldOf(i)' <= Out(i) + ToldOf(i)
  <2>1. Count(old \o kept, {i}) = Count(old, {i}) + Count(kept, {i})
    <3>1. \A S : Count(old \o kept, S) = Count(old, S) + Count(kept, S)
      BY <1>4, CountConcat
    <3>2. QED
      BY <3>1, Zenon
  <2>2. Count(outstanding, {i}) = Count(old, {i}) + Count(kept, {i})
    BY <1>4, <2>1, Zenon
  <2>3. Out(i)' = Count(kept, {i}) + Count(old, {i})
    BY <1>2 DEF Out
  <2>4. Out(i) = Count(outstanding, {i}) + Count(expired, {i})
    BY DEF Out
  <2>5. /\ Count(old, {i}) \in Nat /\ Count(kept, {i}) \in Nat /\ Count(expired, {i}) \in Nat
        /\ ToldOf(i) \in Nat
    <3>1. expired \in Seq(Ids)
      BY <1>1 DEF Typed
    <3>2. QED
      BY <1>1, <1>4, <3>1, CountNat, PlacesNat
  <2>6. ToldOf(i)' = ToldOf(i)
    BY <1>5
  <2>7. QED
    BY <2>2, <2>3, <2>4, <2>5, <2>6
<1>7. Watched'
  <2>1. ~timer'.doubled => timer'.strays = 0 /\ ~timer'.known
    <3>1. ~timer.doubled => timer.strays = 0
      BY <1>1 DEF Watched
    <3>2. QED
      BY <1>3, <3>1
  <2>2. QED
    BY <1>2, <2>1 DEF Watched
<1>8. QED
  BY <1>2, <1>3, <1>4, <1>5, <1>6, <1>7, CalmSound

\* The callbacks of the tokens that expired, and then the timer.
LEMMA ExamineSound ==
  ASSUME IInv, Examine
  PROVE  Sound
<1>1. /\ Typed /\ Watched /\ outstanding \in Seq(Ids) /\ expired \in Seq(Ids) /\ timer \in Timers
      /\ examining
  BY DEF IInv, Typed, Examine
<1>2. UNCHANGED <<state, deferred, each, links, unsent, pending, notYetSent, agenda, granted,
                  left, events, outstanding>>
  BY DEF Examine, sends, peer
<1>3. CASE expired = <<>>
  <2>1. Rearm
    BY <1>3 DEF Examine
  <2>2. /\ calls' = calls /\ expired' = expired /\ examining' = FALSE
        /\ timer' = IF outstanding = <<>> THEN timer
                    ELSE [Armed EXCEPT !.doubled = @ \/ timer.known]
    BY <2>1 DEF Rearm
  <2>3. CallsKept /\ Truthful /\ \A i \in Ids : ToldOf(i)' = ToldOf(i)
    BY <1>1, <2>2, NoAnswerFacts
  <2>4. ASSUME NEW i \in Ids
        PROVE  Out(i)' + ToldOf(i)' <= Out(i) + ToldOf(i)
    <3>1. Out(i)' = Out(i) /\ ToldOf(i)' = ToldOf(i)
      BY <1>2, <2>2, <2>3 DEF Out
    <3>2. Out(i) \in Nat /\ ToldOf(i) \in Nat
      BY <1>1, PlacesNat
    <3>3. QED
      BY <3>1, <3>2
  <2>5. timer' \in Timers /\ Watched'
    <3>1. CASE outstanding = <<>>
      BY <1>1, <1>2, <2>2, <3>1 DEF Watched
    <3>2. CASE outstanding # <<>>
      <4> DEFINE both == timer.doubled \/ timer.known
      <4>1. /\ Armed \in Timers /\ Armed.known /\ Armed.doubled = timer.doubled
            /\ ~timer.known => Armed.strays = timer.strays
        BY <1>1, TimerFacts
      <4>2. timer.known \in BOOLEAN /\ timer.doubled \in BOOLEAN
        BY <1>1 DEF Timers
      <4>3. timer' = [Armed EXCEPT !.doubled = both]
        BY <2>2, <3>2, <4>1
      <4>4. both \in BOOLEAN
        BY <4>2
      <4> HIDE DEF both
      <4>5. timer' \in Timers /\ timer'.known /\ timer'.doubled = both /\ timer'.strays = Armed.strays
        BY <4>1, <4>3, <4>4 DEF Timers
      <4>6. ~timer'.doubled => timer'.strays = 0
        BY <1>1, <4>1, <4>5 DEF Watched, both
      <4>7. QED
        BY <1>2, <3>2, <4>5, <4>6 DEF Watched
    <3>3. QED
      BY <3>1, <3>2
  <2>6. outstanding' \in Seq(Ids) /\ expired' \in Seq(Ids) /\ examining' \in BOOLEAN
    BY <1>1, <1>2, <2>2
  <2>7. QED
    BY <1>2, <2>3, <2>4, <2>5, <2>6, CalmSound
<1>4. CASE expired # <<>>
  <2> DEFINE id == Head(expired)
  <2>1. /\ AnswerAll({id}, TRUE) /\ expired' = Tail(expired) /\ timer' = timer
        /\ examining' = examining
    BY <1>4 DEF Examine
  <2>2. Tail(expired) \in Seq(Ids)
    BY <1>1, <1>4, HeadTailProperties
  <2> HIDE DEF id
  <2>3. CallsKept /\ \A i \in Ids : ToldOf(i)' <= ToldOf(i) + One(i \in {id})
    BY <1>1, <2>1, AnswerFacts
  <2>4. Truthful
    BY <1>1, <2>1, TruthfulFacts
  <2>5. ASSUME NEW i \in Ids
        PROVE  Out(i)' + ToldOf(i)' <= Out(i) + ToldOf(i)
    <3>1. Count(expired, {i}) = One(i \in {id}) + Count(Tail(expired), {i})
      <4>1. Count(expired, {i}) = (IF Head(expired) \in {i} THEN 1 ELSE 0) + Count(Tail(expired), {i})
        BY <1>1, <1>4, CountHeadTail
      <4>2. Head(expired) \in {i} <=> i \in {id}
        BY DEF id
      <4>3. QED
        BY <4>1, <4>2 DEF One
    <3>2. Out(i)' = Count(outstanding, {i}) + Count(Tail(expired), {i})
      BY <1>2, <2>1 DEF Out
    <3>3. Out(i) = Count(outstanding, {i}) + Count(expired, {i})
      BY DEF Out
    <3>4. /\ Count(outstanding, {i}) \in Nat /\ Count(Tail(expired), {i}) \in Nat
          /\ One(i \in {id}) \in {0, 1}
      BY <1>1, <2>2, CountNat, OneFacts
    <3>5. ToldOf(i)' \in Nat /\ ToldOf(i) \in Nat
      BY <1>1, <2>3, ToldNext, PlacesNat
    <3>6. ToldOf(i)' <= ToldOf(i) + One(i \in {id})
      BY <2>3
    <3>7. QED
      BY <3>1, <3>2, <3>3, <3>4, <3>5, <3>6
  <2>6. Watched'
    BY <1>1, <1>2, <2>1 DEF Watched
  <2>7. /\ outstanding' \in Seq(Ids) /\ expired' \in Seq(Ids) /\ examining' \in BOOLEAN
        /\ timer' \in Timers
    BY <1>1, <1>2, <2>1, <2>2
  <2>8. QED
    BY <1>2, <2>3, <2>4, <2>5, <2>6, <2>7, CalmSound
<1>5. QED
  BY <1>3, <1>4

\* A call of the owner, which may be inside a callback of its own: its callback is in
\* the turn, and nowhere else.
LEMMA OwnerCallsKeeps ==
  ASSUME IInv, OwnerCalls
  PROVE  IInv'
<1> DEFINE n == Len(calls) + 1
<1>1. Typed /\ Accounted /\ Granted /\ Watched
  BY DEF IInv
<1>2. PICK kind \in {"attach", "detach", "forceDetach", "putToken"}, err \in BOOLEAN :
        /\ calls' = Append(calls, [kind |-> kind, answer |-> "none", put |-> FALSE,
                                   answered |-> IF kind = "forceDetach" THEN 1 ELSE 0])
        /\ agenda' = <<Agent(kind, n, err)>> \o agenda
  BY DEF OwnerCalls
<1>3. /\ Len(calls) < MaxCalls
      /\ UNCHANGED <<state, deferred, each, links, unsent, pending, notYetSent, outstanding, timer,
                     granted, left, events, examining, expired>>
  BY DEF OwnerCalls, OnlyMachine, sends, tokens, peer
<1> DEFINE told == IF kind = "forceDetach" THEN 1 ELSE 0
           r == [kind |-> kind, answer |-> "none", put |-> FALSE, answered |-> told]
           x == Agent(kind, n, err)
<1>4. calls \in Seq(CallRecords) /\ Len(calls) \in Nat /\ MaxCalls \in Nat /\ n \in Nat /\ n \in Ids
  <2>1. calls \in Seq(CallRecords) /\ Len(calls) \in Nat /\ MaxCalls \in Nat
    BY <1>1, CbsAssumption, LenProperties DEF Typed
  <2>2. QED
    BY <1>3, <2>1 DEF Ids
<1>5. r \in CallRecords /\ r.kind = kind /\ r.answer = "none" /\ r.put = FALSE /\ r.answered = told
  BY DEF CallRecords, Requests
<1>6. told \in {0, 1} /\ (told = 1 <=> kind = "forceDetach")
  OBVIOUS
<1>7. /\ x \in Items
      /\ \A i \in Ids : /\ x \in C(i) <=> kind \in Moves /\ n = i
                        /\ x \in T(i) <=> kind = "putToken" /\ n = i
                        /\ x \notin A(i)
  <2>1. kind \in Requests \cup Moves \cup Others /\ kind # "answered"
    BY DEF Requests
  <2>2. QED
    BY <1>4, <2>1, AgentFacts
<1> HIDE DEF r, x, told
<1>8. calls' = Append(calls, r) /\ agenda' = <<x>> \o agenda
  BY <1>2 DEF r, x, told
<1> HIDE DEF n
<1>9. /\ calls' \in Seq(CallRecords) /\ Len(calls') = n /\ DOMAIN calls = 1..Len(calls)
      /\ DOMAIN calls' = 1..n /\ calls'[n] = r
      /\ \A i \in DOMAIN calls : calls'[i] = calls[i]
  <2>1. /\ Append(calls, r) \in Seq(CallRecords) /\ Len(Append(calls, r)) = Len(calls) + 1
        /\ \A i \in 1..Len(calls) : Append(calls, r)[i] = calls[i]
        /\ Append(calls, r)[Len(calls) + 1] = r
    BY <1>4, <1>5, AppendFacts
  <2>2. QED
    BY <1>4, <1>8, <2>1, LenProperties DEF n
<1>10. \A i : i \in DOMAIN calls' <=> i \in DOMAIN calls \/ i = n
  BY <1>4, <1>9 DEF n
<1>11. n \notin DOMAIN calls
  BY <1>4, <1>9 DEF n
<1> DEFINE new == <<x>>
<1>12. new \in Seq(Items) /\ \A S : Count(new, S) = One(x \in S) /\ (Has(new, S) <=> x \in S)
  BY <1>7, SingleFacts, HasOne
<1>13. agenda' = new \o agenda /\ agenda \in Seq(Items)
  BY <1>1, <1>8 DEF Typed
<1> HIDE DEF new
<1>14. /\ agenda' \in Seq(Items)
       /\ \A S : /\ Count(agenda', S) = One(x \in S) + Count(agenda, S)
                 /\ Has(agenda', S) <=> x \in S \/ Has(agenda, S)
  <2>1. \A S : /\ Count(new \o agenda, S) = Count(new, S) + Count(agenda, S)
               /\ Has(new \o agenda, S) <=> Has(new, S) \/ Has(agenda, S)
    BY <1>12, <1>13, CountConcat, HasConcat
  <2>2. new \o agenda \in Seq(Items)
    BY <1>12, <1>13, ConcatProperties
  <2>3. QED
    BY <1>12, <1>13, <2>1, <2>2
<1>15. Typed'
  <2>1. agenda' \in Seq(Items) /\ Len(calls') <= MaxCalls
    BY <1>3, <1>4, <1>9, <1>14 DEF n
  <2>2. QED
    BY <1>1, <1>3, <1>9, <2>1 DEF Typed
<1>16. ASSUME NEW i \in Ids
       PROVE  /\ Chain(i)' = One(kind \in Moves /\ n = i) + Chain(i)
              /\ Waiting(i)' = One(kind = "putToken" /\ n = i) + Waiting(i)
              /\ Out(i)' = Out(i)
  <2>1. /\ Count(agenda, C(i)) \in Nat /\ Count(agenda, T(i)) \in Nat
        /\ Elsewhere(i) \in Nat /\ Later(i) \in Nat
    BY <1>1, PlacesNat
  <2>2. Elsewhere(i)' = Elsewhere(i) /\ Later(i)' = Later(i) /\ Out(i)' = Out(i)
    BY <1>3 DEF Elsewhere, Later, Out
  <2>3. /\ Count(agenda', C(i)) = One(x \in C(i)) + Count(agenda, C(i))
        /\ Count(agenda', T(i)) = One(x \in T(i)) + Count(agenda, T(i))
    BY <1>14
  <2>4. /\ One(x \in C(i)) = One(kind \in Moves /\ n = i)
        /\ One(x \in T(i)) = One(kind = "putToken" /\ n = i)
    BY <1>7 DEF One
  <2>5. One(kind \in Moves /\ n = i) \in Nat /\ One(kind = "putToken" /\ n = i) \in Nat
    BY OneFacts
  <2>6. /\ Chain(i)' = Count(agenda', C(i)) + Elsewhere(i)
        /\ Waiting(i)' = Count(agenda', T(i)) + Later(i)
    BY <2>2 DEF Chain, Waiting
  <2>7. /\ Chain(i) = Count(agenda, C(i)) + Elsewhere(i)
        /\ Waiting(i) = Count(agenda, T(i)) + Later(i)
    BY DEF Chain, Waiting
  <2>8. QED
    BY <2>1, <2>2, <2>3, <2>4, <2>5, <2>6, <2>7
<1>17. Accounted'
  <2>1. ASSUME NEW i \in Ids
        PROVE  /\ Chain(i)' + Waiting(i)' + Out(i)' + ToldOf(i)' <= One(i \in DOMAIN calls')
               /\ i \in DOMAIN calls' /\ calls'[i].kind = "putToken" => Chain(i)' = 0
    <3>1. /\ Chain(i) \in Nat /\ Waiting(i) \in Nat /\ Out(i) \in Nat /\ ToldOf(i) \in Nat
      BY <1>1, PlacesNat
    <3>2. /\ Chain(i) + Waiting(i) + Out(i) + ToldOf(i) <= One(i \in DOMAIN calls)
          /\ i \in DOMAIN calls /\ calls[i].kind = "putToken" => Chain(i) = 0
      BY <1>1 DEF Accounted
    <3>3. CASE i # n
      <4>1. One(kind \in Moves /\ n = i) = 0 /\ One(kind = "putToken" /\ n = i) = 0
        BY <3>3 DEF One
      <4>2. Chain(i)' = Chain(i) /\ Waiting(i)' = Waiting(i) /\ Out(i)' = Out(i)
        BY <1>16, <3>1, <4>1
      <4>3. ToldOf(i)' = ToldOf(i) /\ One(i \in DOMAIN calls') = One(i \in DOMAIN calls)
        BY <1>9, <1>10, <3>3 DEF ToldOf, One
      <4>4. QED
        BY <1>9, <1>10, <3>2, <3>3, <4>2, <4>3
    <3>4. CASE i = n
      <4>1. One(i \in DOMAIN calls) = 0
        BY <1>11, <3>4 DEF One
      <4>2. Chain(i) = 0 /\ Waiting(i) = 0 /\ Out(i) = 0
        BY <3>1, <3>2, <4>1
      <4>3. One(i \in DOMAIN calls') = 1 /\ ToldOf(i)' = told
        BY <1>5, <1>9, <1>10, <3>4 DEF One, ToldOf
      <4>4. Chain(i)' = One(kind \in Moves) /\ Waiting(i)' = One(kind = "putToken") /\ Out(i)' = 0
        <5>1. /\ One(kind \in Moves /\ n = i) = One(kind \in Moves)
              /\ One(kind = "putToken" /\ n = i) = One(kind = "putToken")
          BY <3>4 DEF One
        <5>2. One(kind \in Moves) \in Nat /\ One(kind = "putToken") \in Nat
          BY OneFacts
        <5>3. QED
          BY <1>16, <4>2, <5>1, <5>2
      <4>5. /\ kind = "putToken" => kind \notin Moves
            /\ kind = "forceDetach" => kind \notin Moves /\ kind # "putToken"
        BY DEF Moves
      <4>6. One(kind \in Moves) + One(kind = "putToken") + 0 + told <= 1
        BY <1>6, <4>5 DEF One
      <4>7. calls'[i].kind = "putToken" => Chain(i)' = 0
        BY <1>5, <1>9, <3>4, <4>4, <4>5 DEF One
      <4>8. QED
        BY <4>3, <4>4, <4>6, <4>7
    <3>5. QED
      BY <3>3, <3>4
  <2>2. QED
    BY <2>1 DEF Accounted
<1>18. Granted'
  <2>1. ASSUME NEW i \in DOMAIN calls'
        PROVE  /\ calls'[i].put => Waiting(i)' = 0
               /\ calls'[i].answer = "ok" =>
                    /\ calls'[i].answered > 0
                    /\ calls'[i].kind = "putToken" => i \in granted' \/ ~calls'[i].put
    <3>1. CASE i = n
      BY <1>5, <1>9, <3>1
    <3>2. CASE i # n
      <4>1. i \in DOMAIN calls /\ i \in Ids /\ calls'[i] = calls[i]
        BY <1>1, <1>9, <1>10, <3>2, CallsInIds
      <4>2. One(kind = "putToken" /\ n = i) = 0
        BY <3>2 DEF One
      <4>3. Waiting(i)' = Waiting(i)
        <5>1. Waiting(i)' = 0 + Waiting(i)
          BY <1>16, <4>1, <4>2
        <5>2. Waiting(i) \in Nat
          BY <1>1, <4>1, PlacesNat
        <5>3. QED
          BY <5>1, <5>2
      <4>4. QED
        BY <1>1, <1>3, <4>1, <4>3 DEF Granted
    <3>3. QED
      BY <3>1, <3>2
  <2>2. \A i \in Ids : Has(agenda', A(i)) => i \in granted'
    BY <1>1, <1>3, <1>7, <1>14 DEF Granted
  <2>3. \A i \in ToSet(unsent') \cup pending' : i \in DOMAIN calls' /\ calls'[i].put
    BY <1>1, <1>3, <1>9, <1>10 DEF Granted
  <2>4. ToSet(unsent') \cap pending' = {}
    BY <1>1, <1>3 DEF Granted
  <2>5. QED
    BY <2>1, <2>2, <2>3, <2>4 DEF Granted
<1>19. Watched'
  BY <1>1, <1>3 DEF Watched
<1>20. QED
  BY <1>15, <1>17, <1>18, <1>19 DEF IInv
-----------------------------------------------------------------------------
(* The theorems.                                                           *)

\* At first no callback is anywhere.
LEMMA InitSound ==
  ASSUME Init
  PROVE  IInv
<1>1. /\ state = "detached" /\ deferred = <<>>
      /\ each = [gen |-> 0, left |-> 0, id |-> 0, err |-> FALSE]
      /\ links = [k \in LinkNames |-> NewLink(k)]
      /\ unsent = <<>> /\ pending = {} /\ notYetSent = <<>> /\ outstanding = <<>>
      /\ timer = NoTimer /\ agenda = <<>> /\ calls = <<>> /\ left = {} /\ events = 0
      /\ expired = <<>> /\ examining = FALSE
  BY DEF Init, LinkNames
<1>2. ASSUME NEW k \in LinkNames
      PROVE  /\ NewLink(k) \in Links /\ NewLink(k).attaching = NoCallback
             /\ NewLink(k).detaching = NoCallback /\ NewLink(k).deferred = <<>>
  <2>1. NoCallback \in Callbacks
    BY CallbackFacts DEF NoCallback
  <2>2. QED
    BY <2>1 DEF NewLink, Links, LinkStates
<1>3. "sender" \in LinkNames /\ "receiver" \in LinkNames
  BY DEF LinkNames
<1>4. links \in [LinkNames -> Links] /\ \A k \in LinkNames : links[k] = NewLink(k)
  BY <1>1, <1>2
<1>5. Typed
  <2>1. NoTimer \in Timers /\ FALSE \in BOOLEAN
    BY DEF NoTimer, Timers
  <2>2. timer \in Timers /\ examining \in BOOLEAN
    BY <1>1, <2>1, Zenon
  <2>3. /\ "detached" \in LinkStates /\ Len(<<>>) = 0
        /\ \A S : <<>> \in Seq(S)
    BY DEF LinkStates
  <2>4. /\ state \in LinkStates /\ deferred \in Seq(OfOwner)
        /\ unsent \in Seq(Ids) /\ pending \in SUBSET Ids
        /\ notYetSent \in Seq(Ids) /\ outstanding \in Seq(Ids) /\ expired \in Seq(Ids)
        /\ agenda \in Seq(Items) /\ calls \in Seq(CallRecords)
        /\ Len(calls) = 0 /\ events = 0
    BY <1>1, <2>3, Zenon
  <2>5. each \in [gen : Nat, left : 0..2, id : Nat, err : BOOLEAN]
    BY <1>1
  <2>6. MaxCalls \in Nat /\ MaxEvents \in Nat
    BY CbsAssumption
  <2>7. QED
    BY <1>4, <2>4, <2>5, <2>6, <2>2 DEF Typed
<1>6. \A S : Count(<<>>, S) = 0
  BY CountEmpty
<1>7. ASSUME NEW i \in Ids
      PROVE  Chain(i) = 0 /\ Waiting(i) = 0 /\ Out(i) = 0 /\ ToldOf(i) = 0
  <2>1. ASSUME NEW k \in LinkNames
        PROVE  Holds(links[k], i) = 0
    <3>1. /\ links[k].attaching = NoCallback /\ links[k].detaching = NoCallback
          /\ links[k].deferred = <<>>
      BY <1>2, <1>4
    <3>2. One(Carries(NoCallback, i)) = 0
      BY NoCallbackFacts DEF One
    <3>3. QED
      BY <1>6, <3>1, <3>2 DEF Holds
  <2>2. Holds(links["sender"], i) = 0 /\ Holds(links["receiver"], i) = 0
    BY <1>3, <2>1
  <2>3. One(each.left > 0 /\ each.id = i) = 0
    BY <1>1 DEF One
  <2>4. Elsewhere(i) = 0 /\ Later(i) = 0 /\ Out(i) = 0
    BY <1>1, <1>6, <2>2, <2>3 DEF Elsewhere, Later, Out
  <2>5. Chain(i) = 0 /\ Waiting(i) = 0
    BY <1>1, <1>6, <2>4 DEF Chain, Waiting
  <2>6. ToldOf(i) = 0
    BY <1>1 DEF ToldOf
  <2>7. QED
    BY <2>4, <2>5, <2>6
<1>8. DOMAIN calls = {}
  BY <1>1
<1>9. Accounted
  <2>1. \A i \in Ids : One(i \in DOMAIN calls) = 0
    BY <1>8 DEF One
  <2>2. QED
    BY <1>7, <1>8, <2>1 DEF Accounted
<1>10. Granted
  <2>1. ToSet(unsent) = {}
    BY <1>1 DEF ToSet
  <2>2. \A i : ~Has(agenda, A(i))
    BY <1>1, HasOne
  <2>3. QED
    BY <1>1, <1>8, <2>1, <2>2 DEF Granted
<1>11. Watched
  BY <1>1 DEF Watched, NoTimer
<1>12. QED
  BY <1>5, <1>9, <1>10, <1>11 DEF IInv

\* Every step keeps the invariant.
LEMMA NextKeeps ==
  ASSUME IInv, [Next]_vars
  PROVE  IInv'
<1>1. DOMAIN links = LinkNames
  BY DEF IInv, Typed
<1>2. CASE Run
  BY <1>2, RunKeeps
<1>3. CASE Examine
  BY <1>3, ExamineSound, SoundKeeps
<1>4. CASE OwnerCalls
  BY <1>4, OwnerCallsKeeps
<1>5. CASE PeerAnswers
  <2>1. FALSE \in BOOLEAN
    OBVIOUS
  <2>2. PICK k \in DOMAIN links : PeerOpens(k) \/ PeerCloses(k, FALSE)
    BY <1>5 DEF PeerAnswers
  <2>3. QED
    BY <2>1, <2>2, PeerSound, SoundKeeps
<1>6. CASE Trouble
  <2>1. CASE \E k \in DOMAIN links, err \in BOOLEAN : PeerCloses(k, err)
    BY <2>1, PeerSound, SoundKeeps
  <2>2. CASE \E i \in Ids, err \in BOOLEAN : PeerSettles(i, err) \/ ServiceAnswers(i, err)
    BY <2>2, PeerSettlesSound, ServiceAnswersSound, SoundKeeps
  <2>3. CASE ConnectionLost
    <3>1. /\ events' \in Nat /\ events' <= MaxEvents
          /\ examining' = examining /\ expired' = expired
      BY <2>3, EventFacts DEF ConnectionLost
    <3>2. UNCHANGED <<state, deferred, each, links, unsent, pending, notYetSent, outstanding,
                      timer, agenda, calls, granted, left, examining,
                      expired>>
      BY <2>3, <3>1 DEF ConnectionLost, sends, tokens
    <3>3. QED
      BY <3>1, <3>2, NothingSound, SoundKeeps
  <2>4. QED
    BY <1>6, <2>1, <2>2, <2>3 DEF Trouble
<1>7. CASE \E n \in 0..Len(outstanding) : TimerFires(n)
  BY <1>7, TimerFiresSound, SoundKeeps
<1>8. CASE UNCHANGED vars
  <2>1. UNCHANGED <<state, deferred, each, links, unsent, pending, notYetSent, outstanding,
                    timer, agenda, calls, granted, left, events, examining, expired>>
    BY <1>8 DEF vars
  <2>2. events' \in Nat /\ events' <= MaxEvents
    BY <2>1 DEF IInv, Typed
  <2>3. QED
    BY <2>1, <2>2, NothingSound, SoundKeeps
<1>9. QED
  BY <1>2, <1>4, <1>5, <1>6, <1>7, <1>8, <1>3 DEF Next

\* The invariant holds whatever is called, answered, refused or lost.
LEMMA Kept == Spec => []IInv
<1>1. Init => IInv
  BY InitSound
<1>2. IInv /\ [Next]_vars => IInv'
  BY NextKeeps
<1>3. QED
  BY <1>1, <1>2, PTL DEF Spec

\* A token is in the lists of the agent once.
LEMMA TokensOnce ==
  ASSUME IInv
  PROVE  IsInjective(notYetSent \o outstanding)
<1> DEFINE s == notYetSent \o outstanding
<1>1. Typed /\ notYetSent \in Seq(Ids) /\ outstanding \in Seq(Ids)
  BY DEF IInv, Typed
<1>2. s \in Seq(Ids) /\ \A S : Count(s, S) = Count(notYetSent, S) + Count(outstanding, S)
  BY <1>1, CountConcat, ConcatProperties
<1> HIDE DEF s
<1>3. ASSUME NEW i \in Ids
      PROVE  Count(s, {i}) \in Nat /\ Count(s, {i}) <= 1
  <2>1. /\ Count(notYetSent, {i}) \in Nat /\ Count(deferred, T(i)) \in Nat
        /\ Count(agenda, T(i)) \in Nat /\ Chain(i) \in Nat /\ ToldOf(i) \in Nat /\ Out(i) \in Nat
    BY <1>1, PlacesNat
  <2>2. Waiting(i) = Count(agenda, T(i)) + (Count(deferred, T(i)) + Count(notYetSent, {i}))
    BY DEF Waiting, Later
  <2>3. Chain(i) + Waiting(i) + Out(i) + ToldOf(i) <= One(i \in DOMAIN calls)
    BY DEF IInv, Accounted
  <2>4. One(i \in DOMAIN calls) \in {0, 1}
    BY OneFacts
  <2>5. /\ Count(s, {i}) = Count(notYetSent, {i}) + Count(outstanding, {i})
        /\ Out(i) = Count(outstanding, {i}) + Count(expired, {i})
    BY <1>2 DEF Out
  <2>6. Count(outstanding, {i}) \in Nat /\ Count(expired, {i}) \in Nat
    <3>1. expired \in Seq(Ids)
      BY <1>1 DEF Typed
    <3>2. QED
      BY <1>1, <3>1, CountNat
  <2>7. QED
    BY <2>1, <2>2, <2>3, <2>4, <2>5, <2>6
<1>4. ASSUME NEW a \in DOMAIN s, NEW b \in DOMAIN s, s[a] = s[b]
      PROVE  a = b
  <2>1. s[a] \in Ids
    BY <1>2, ElementOfSeq, LenProperties
  <2>2. Has(s, {s[a]})
    BY DEF Has
  <2>3. Count(s, {s[a]}) = 1
    BY <1>2, <1>3, <2>1, <2>2, CountHas
  <2>4. QED
    BY <1>2, <1>4, <2>3, CountHas
<1>5. QED
  BY <1>4 DEF IsInjective, s

\* _putToken: between two turns the agent knows of a timer while a token is outstanding,
\* but if it detached with one; a timer runs only then, and alone, until an examination of
\* the tokens finds one armed beside it; and a token is in one list, once.
THEOREM TimerKept == Spec => []TimerWatchesTokens
<1>1. IInv => TimerWatchesTokens
  <2> SUFFICES ASSUME IInv
               PROVE  TimerWatchesTokens
    OBVIOUS
  <2>1. TypeOK
    <3>1. /\ state \in LinkStates /\ links \in [LinkNames -> Links] /\ pending \in SUBSET Ids
          /\ unsent \in Seq(Ids) /\ notYetSent \in Seq(Ids) /\ outstanding \in Seq(Ids)
          /\ each \in [gen : Nat, left : 0..2, id : Nat, err : BOOLEAN]
          /\ expired \in Seq(Ids) /\ timer \in [known : BOOLEAN, strays : Nat, doubled : BOOLEAN]
          /\ Len(calls) <= MaxCalls /\ events <= MaxEvents
      BY DEF IInv, Typed, Timers
    <3>2. \A k \in DOMAIN links : links[k].state \in LinkStates
      BY <3>1 DEF Links
    <3>3. QED
      BY <3>1, <3>2 DEF TypeOK, LinkStates
  <2>2. /\ Quiet /\ ~Leftover => (outstanding # <<>> => timer.known)
        /\ ~timer.doubled => timer.strays = 0 /\ (timer.known => outstanding # <<>>)
    BY DEF IInv, Watched, Leftover, Quiet
  <2>3. ToSet(unsent) \cap pending = {}
    BY DEF IInv, Granted
  <2>4. QED
    BY <2>1, <2>2, <2>3, TokensOnce DEF TimerWatchesTokens
<1>2. QED
  BY <1>1, Kept, PTL

\* The callbacks of ClaimsBasedSecurityAgent: none is called twice, and a token is taken
\* for accepted only if the service said so, or if it was never sent and the agent
\* detached without an error.
THEOREM TokensToldRightly == Spec => []TokenAnsweredRightly
<1>1. IInv => TokenAnsweredRightly
  <2> SUFFICES ASSUME IInv, NEW i \in DOMAIN calls
               PROVE  /\ calls[i].answered <= 1
                      /\ calls[i].kind = "putToken" /\ calls[i].answer = "ok" =>
                           i \in granted \/ ~calls[i].put
    BY DEF TokenAnsweredRightly
  <2>1. Typed /\ i \in Ids
    BY CallsInIds DEF IInv
  <2>2. Chain(i) + Waiting(i) + Out(i) + ToldOf(i) <= One(i \in DOMAIN calls)
    BY <2>1 DEF IInv, Accounted
  <2>3. /\ Chain(i) \in Nat /\ Waiting(i) \in Nat /\ Out(i) \in Nat /\ ToldOf(i) \in Nat
        /\ One(i \in DOMAIN calls) \in {0, 1}
    BY <2>1, PlacesNat, OneFacts
  <2>4. ToldOf(i) <= 1
    BY <2>2, <2>3
  <2>5. calls[i].answered <= 1
    BY <2>4 DEF ToldOf
  <2>6. QED
    BY <2>5 DEF IInv, Granted
<1>2. QED
  BY <1>1, Kept, PTL

=============================================================================
