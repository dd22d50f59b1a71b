------------------------- MODULE AmqpConnection_proofs -------------------------
(***************************************************************************)
(* Proofs about the AMQP connection, its session and its links, for every  *)
(* number of calls, connections and unsolicited events, and methods called *)
(* in any combination.                                                     *)
(*                                                                         *)
(* The inductive invariant is Inv of AmqpInvariant, which also describes   *)
(* the kinds of steps there are: quiet ones, transitions, and the steps of *)
(* a rundown.  A handler is first shown to be a step of such a kind, and   *)
(* each kind to keep the types, the budget, Control and Accounted.         *)
(***************************************************************************)
EXTENDS AmqpInvariant

-----------------------------------------------------------------------------
(* Facts about the items of a turn.                                        *)

\* The constants are numbers.
LEMMA Bounds ==
  /\ MaxRequests \in Nat \ {0} /\ MaxConns \in Nat \ {0} /\ MaxConns <= MaxRequests
  /\ MaxTroubles \in Nat /\ None = 0
  /\ \A c : c \in Conns <=> c \in Nat /\ 1 <= c /\ c <= MaxConns
  /\ \A i : i \in Owner <=> i \in Int /\ -MaxConns <= i /\ i <= MaxRequests
BY AmqpConnectionAssumption DEF Conns, Owner, None

\* An item that is made in a turn.
LEMMA ItemIn ==
  ASSUME NEW n \in 0..MaxConns, NEW do, NEW id \in Owner, NEW err \in BOOLEAN,
         \/ do \in Steps /\ id \in 1..n
         \/ do = "enter" /\ -id <= n
         \/ do \in PeerEvents \cup Tellings /\ id >= 0
         \/ do \in {"connect", "disconnect", "initializeCBS", "putToken"} /\ id >= 0
  PROVE  /\ Item(do, id, err) \in Items(n)
         /\ Item(do, id, err).do = do /\ Item(do, id, err).id = id
         /\ do \notin LeadingSteps \cup {"enter"} => Item(do, id, err) \in Later(n)
BY Bounds DEF Item, Items, Later, Acts, LeadingSteps, Steps, PeerEvents, Tellings, OwnerMethods

\* A replay.
LEMMA ReplayIn ==
  ASSUME NEW n \in 0..MaxConns, NEW to \in ConnectionStates
  PROVE  /\ Replaying(to) \in Later(n) /\ Replaying(to) \in Items(n)
         /\ Replaying(to).do = "replay" /\ Replaying(to).id = 0 /\ Replaying(to).to = to
BY Bounds DEF Replaying, Items, Later, Acts, LeadingSteps, Steps, PeerEvents, Tellings,
              OwnerMethods

\* The fields of an item.
LEMMA ItemFields ==
  ASSUME NEW n \in 0..MaxConns, NEW x \in Items(n)
  PROVE  /\ x.do \in Acts /\ x.id \in Owner /\ x.err \in BOOLEAN
         /\ x.do \in Steps => x.id \in 1..n
         /\ x.do = "enter" => -x.id <= n
         /\ x.do \notin Steps \cup {"enter"} => x.id >= 0
         /\ x.do = "replay" => x.to \in ConnectionStates
         /\ x.do \in {"attach", "detach", "send"} => x.to \in TwoLinks
         /\ x.do \in OwnerMethods \cup PeerEvents => x \in Kept
BY Bounds DEF Items, Kept, Acts, Steps, OwnerMethods, PeerEvents, Tellings

\* More rundowns, more items.
LEMMA Widened ==
  ASSUME NEW n \in 0..MaxConns, NEW m \in n..MaxConns
  PROVE  /\ Items(n) \subseteq Items(m) /\ Later(n) \subseteq Later(m)
         /\ Rundowns(n) \subseteq Rundowns(m)
         /\ Kept \subseteq Later(n) /\ Later(n) \subseteq Items(n)
<1>1. Items(n) \subseteq Items(m)
  BY Bounds DEF Items
<1>2. Later(n) \subseteq Later(m)
  BY <1>1 DEF Later
<1>3. Rundowns(n) \subseteq Rundowns(m)
  BY Bounds DEF Rundowns, Owner
<1>4. Kept \subseteq Later(n)
  BY Bounds DEF Kept, Later, Items, LeadingSteps, Steps, PeerEvents, OwnerMethods
<1>5. QED
  BY <1>1, <1>2, <1>3, <1>4 DEF Later

-----------------------------------------------------------------------------
(* Facts about turns.                                                      *)

\* In a turn numbers are counted.
LEMMA TurnNumbers ==
  ASSUME NEW n \in 0..MaxConns, NEW s \in Seq(Items(n))
  PROVE  Numbers(s)
BY CountNat DEF Numbers, Connects, LinkSteps, SessionSteps, Closings

\* Nothing is counted in a turn that is over.
LEMMA NoTurn ==
  /\ Connects(<<>>) = 0 /\ LinkSteps(<<>>) = 0 /\ SessionSteps(<<>>) = 0 /\ Closings(<<>>) = 0
  /\ \A i : Count(<<>>, Of(i)) = 0
  /\ HeadDo(<<>>) = "-" /\ \A n : <<>> \in Turns(n)
<1>1. \A S : Count(<<>>, S) = 0
  BY CountEmpty
<1>2. QED
  BY <1>1 DEF Connects, LinkSteps, SessionSteps, Closings, HeadDo, Turns

\* One turn after the other.
LEMMA Joined ==
  ASSUME NEW n \in 0..MaxConns, NEW s \in Seq(Items(n)), NEW t \in Seq(Items(n))
  PROVE  s \o t \in Seq(Items(n)) /\ Sums(s \o t, s, t)
<1>1. \A S : Count(s \o t, S) = Count(s, S) + Count(t, S)
  BY CountConcat
<1>2. QED
  BY <1>1 DEF Sums, Connects, LinkSteps, SessionSteps, Closings

\* A count of a sequence that goes on after an item.
LEMMA BeginsCount ==
  ASSUME NEW n \in 0..MaxConns, NEW x \in Items(n), NEW s \in Seq(Items(n)), NEW S
  PROVE  Count(<<x>> \o s, S) = One(x \in S) + Count(s, S)
BY CountExtended DEF One

\* An item, and what goes on after it.
LEMMA Begun ==
  ASSUME NEW n \in 0..MaxConns, NEW x \in Items(n), NEW s \in Seq(Items(n))
  PROVE  <<x>> \o s \in Seq(Items(n)) /\ Begins(<<x>> \o s, x, s)
<1>1. /\ <<x>> \o s \in Seq(Items(n)) /\ <<x>> \o s # <<>>
      /\ Head(<<x>> \o s) = x /\ Tail(<<x>> \o s) = s
  BY ExtendedHeadTail
<1>2. x \in Items(MaxConns)
  BY Widened, Bounds
<1>3. \A S : x \in Do(S) <=> x.do \in S
  BY <1>2 DEF Do
<1>4. \A i : x \in Of(i) <=> x.id = i /\ x.do \notin Steps
  BY <1>2 DEF Of
<1>5. Connects(<<x>> \o s) = One(x.do = "connect") + Connects(s)
  <2>1. One(x \in Do({"connect"})) = One(x.do = "connect")
    BY <1>3
  <2>2. QED
    BY <2>1, BeginsCount DEF Connects
<1>6. LinkSteps(<<x>> \o s) = One(x.do = "links") + LinkSteps(s)
  <2>1. One(x \in Do({"links"})) = One(x.do = "links")
    BY <1>3
  <2>2. QED
    BY <2>1, BeginsCount DEF LinkSteps
<1>7. SessionSteps(<<x>> \o s) = One(x.do = "session") + SessionSteps(s)
  <2>1. One(x \in Do({"session"})) = One(x.do = "session")
    BY <1>3
  <2>2. QED
    BY <2>1, BeginsCount DEF SessionSteps
<1>8. Closings(<<x>> \o s) = One(x.do \in {"session_close", "replay"}) + Closings(s)
  <2>1. One(x \in Do({"session_close", "replay"})) = One(x.do \in {"session_close", "replay"})
    BY <1>3
  <2>2. QED
    BY <2>1, BeginsCount DEF Closings
<1>9. ASSUME NEW i
      PROVE  Count(<<x>> \o s, Of(i)) = One(x.id = i /\ x.do \notin Steps) + Count(s, Of(i))
  <2>1. One(x \in Of(i)) = One(x.id = i /\ x.do \notin Steps)
    BY <1>4
  <2>2. QED
    BY <2>1, BeginsCount
<1>10. QED
  BY <1>1, <1>5, <1>6, <1>7, <1>8, <1>9 DEF Begins, HeadDo

\* Later items alone are such a rest.
LEMMA RestFacts ==
  ASSUME NEW n \in 0..MaxConns, NEW s \in Seq(Later(n))
  PROVE  Rest(s, n)
<1>1. s \in Seq(Items(n))
  BY SeqWiden, Widened
<1>2. s # <<>> => Head(s) \in Later(n) /\ Tail(s) \in Seq(Later(n))
  BY HeadTailProperties
<1>3. HeadDo(s) \notin LeadingSteps \cup {"enter"}
  BY <1>2 DEF HeadDo, Later, LeadingSteps
<1>4. Numbers(s)
  BY <1>1, TurnNumbers
<1>5. QED
  BY <1>1, <1>2, <1>3, <1>4 DEF Rest, Turns

\* A turn that begins with an item.
LEMMA Pushed ==
  ASSUME NEW n \in 0..MaxConns, NEW e \in Items(n), NEW s \in Seq(Later(n))
  PROVE  /\ <<e>> \o s \in Turns(n) /\ Begins(<<e>> \o s, e, s)
         /\ e \in Later(n) => <<e>> \o s \in Seq(Later(n))
<1>1. Rest(s, n)
  BY RestFacts
<1>2. <<e>> \o s \in Seq(Items(n)) /\ Begins(<<e>> \o s, e, s)
  BY <1>1, Begun DEF Rest
<1>3. e \in Later(n) => <<e>> \o s \in Seq(Later(n))
  BY ExtendedHeadTail
<1>4. Tail(<<e>> \o s) = s
  BY <1>2 DEF Begins
<1>5. QED
  BY <1>2, <1>3, <1>4 DEF Turns

\* Two items, one after the other.
LEMMA TwoFirst ==
  ASSUME NEW T, NEW e \in T, NEW f \in T, NEW s \in Seq(T)
  PROVE  <<e, f>> \o s = <<e>> \o (<<f>> \o s)
<1>1. <<e>> \in Seq(T) /\ <<f>> \in Seq(T) /\ <<e, f>> = <<e>> \o <<f>>
  <2>1. <<e>> \in Seq(T) /\ <<f>> \in Seq(T) /\ <<e, f>> \in Seq(T)
    OBVIOUS
  <2>2. <<e, f>> = Append(<<e>>, f)
    OBVIOUS
  <2>3. QED
    BY <2>1, <2>2, AppendIsConcat
<1>2. (<<e>> \o <<f>>) \o s = <<e>> \o (<<f>> \o s)
  BY <1>1, ConcatAssociative
<1>3. QED
  BY <1>1, <1>2

\* A turn of one item.
LEMMA OneItem ==
  ASSUME NEW n \in 0..MaxConns, NEW e \in Items(n)
  PROVE  <<e>> \in Turns(n) /\ Begins(<<e>>, e, <<>>)
<1>1. <<>> \in Seq(Later(n)) /\ <<e>> \o <<>> = <<e>>
  OBVIOUS
<1>2. QED
  BY <1>1, Pushed

\* A later item may be in a turn over more rundowns.
LEMMA MoreLater ==
  ASSUME NEW n \in 0..MaxConns, NEW m \in n..MaxConns
  PROVE  Seq(Later(n)) \subseteq Seq(Later(m))
BY SeqWiden, Widened

-----------------------------------------------------------------------------
(* A step of a turn.                                                       *)

\* The number of rundowns is bounded.
LEMMA NewestBound ==
  ASSUME Typed, Budget
  PROVE  Newest \in 0..MaxConns
<1>1. Newest \in Nat /\ conn \in 0..MaxConns
  BY LenProperties DEF Typed, Newest
<1>2. One(Underway) \in {0, 1} /\ Newest + One(Underway) <= conn
  BY DEF One, Budget
<1>3. Newest <= MaxConns
  BY <1>1, <1>2, Bounds
<1>4. QED
  BY <1>1, <1>3, Bounds

\* The item that is run, and the rest of the turn.
LEMMA TurnFacts ==
  ASSUME Typed, Budget, NEW x, NEW rest, Takes(x, rest)
  PROVE  /\ Newest \in 0..MaxConns /\ x \in Items(Newest) /\ Rest(rest, Newest)
         /\ Begins(agenda, x, rest)
<1>1. Newest \in 0..MaxConns
  BY NewestBound
<1>2. agenda \in Seq(Items(Newest)) /\ rest \in Seq(Later(Newest))
  BY DEF Typed, Turns, Takes
<1>3. x \in Items(Newest) /\ agenda = <<x>> \o rest
  BY <1>2, HeadTailProperties DEF Takes
<1>4. QED
  BY <1>1, <1>2, <1>3, RestFacts, Pushed

\* A transition to another state enters it, and then replays what waits for it.
LEMMA Moved ==
  ASSUME NEW n \in 0..MaxConns, NEW rest, Rest(rest, n), NEW to \in ConnectionStates,
         NEW id \in Owner, -id <= n, NEW err \in BOOLEAN,
         to # state, Transition(to, id, err, rest)
  PROVE  state' = to /\ Enters(agenda', id, err, to, rest, n)
<1> DEFINE e == Item("enter", id, err)
           f == Replaying(to)
           t == <<Replaying(to)>> \o rest
<1>1. e \in Items(n) /\ e.do = "enter" /\ e.id = id
  BY ItemIn
<1>2. f \in Later(n) /\ f \in Items(n) /\ f.do = "replay" /\ f.id = 0
  BY ReplayIn
<1>3. rest \in Seq(Later(n)) /\ Numbers(rest)
  BY DEF Rest
<1>4. t \in Seq(Later(n)) /\ Begins(t, f, rest)
  BY <1>2, <1>3, Pushed
<1>5. state' = to /\ agenda' = <<e, f>> \o rest
  BY DEF Transition
<1>6. agenda' = <<e>> \o t
  <2>1. rest \in Seq(Items(n))
    BY DEF Rest
  <2> HIDE DEF e, f
  <2>2. <<e, f>> \o rest = <<e>> \o (<<f>> \o rest)
    BY <1>1, <1>2, <2>1, TwoFirst
  <2>3. QED
    BY <1>5, <2>2 DEF f
<1>7. agenda' \in Turns(n) /\ Begins(agenda', e, t)
  BY <1>1, <1>4, <1>6, Pushed
<1> HIDE DEF e, f, t
<1>8. ASSUME NEW i \in Nat \ {0}
      PROVE  Count(agenda', Of(i)) = One(id = i) + Count(rest, Of(i))
  <2>1. Count(agenda', Of(i)) = One(id = i) + Count(t, Of(i))
    BY <1>1, <1>7 DEF Begins, Steps
  <2>2. Count(t, Of(i)) = Count(rest, Of(i))
    BY <1>2, <1>3, <1>4 DEF Begins, One, Numbers
  <2>3. QED
    BY <2>1, <2>2
<1>9. /\ Connects(agenda') = Connects(rest) /\ LinkSteps(agenda') = LinkSteps(rest)
      /\ SessionSteps(agenda') = SessionSteps(rest)
  BY <1>1, <1>2, <1>3, <1>4, <1>7 DEF Begins, One, Numbers
<1>10. QED
  BY <1>1, <1>5, <1>7, <1>8, <1>9 DEF Enters, Begins, e, f, t

\* The fields of a call.
LEMMA RequestedFields ==
  ASSUME requests \in Seq(Requested), NEW i \in DOMAIN requests
  PROVE  /\ requests[i] \in Requested /\ requests[i].kind \in OwnerMethods
         /\ requests[i].to \in TwoLinks
         /\ requests[i].answered \in Nat /\ requests[i].again \in Nat
         /\ 2 * requests[i].again <= requests[i].answered
         /\ requests[i].answered - requests[i].again \in Nat
         /\ i \in 1..Len(requests) /\ Len(requests) \in Nat
<1>1. DOMAIN requests = 1..Len(requests) /\ Len(requests) \in Nat
  BY LenProperties
<1>2. requests[i] \in Requested
  BY <1>1, ElementOfSeq
<1>3. \A r \in Requested :
        /\ r.kind \in OwnerMethods /\ r.to \in TwoLinks
        /\ r.answered \in Nat /\ r.again \in Nat /\ 2 * r.again <= r.answered
  BY DEF Requested
<1>4. \A m, n \in Nat : 2 * n <= m => m - n \in Nat
  OBVIOUS
<1>5. QED
  BY <1>1, <1>2, <1>3, <1>4

\* An answered call is a call that was told once more.
LEMMA AnsweredCall ==
  ASSUME NEW r \in Requested, NEW how \in {"ok", "err", "twice", "dropped", "disconnected"}
  PROVE  LET e == [r EXCEPT !.answer = how, !.answered = @ + 1 + Again(how),
                            !.again = @ + Again(how)] IN
         /\ e \in Requested /\ e.kind = r.kind
         /\ e.answered - e.again = r.answered - r.again + 1
<1> DEFINE e == [r EXCEPT !.answer = how, !.answered = @ + 1 + Again(how),
                          !.again = @ + Again(how)]
<1>1. Again(how) \in {0, 1}
  BY DEF Again
<1>2. r \in [kind : OwnerMethods, to : TwoLinks,
             answer : {"none", "ok", "err", "twice", "dropped", "disconnected"},
             answered : Nat, again : Nat] /\ 2 * r.again <= r.answered
  BY DEF Requested
<1>5. r.answered \in Nat /\ r.again \in Nat
  BY <1>2
<1> DEFINE n == r.answered + 1 + Again(how)
           m == r.again + Again(how)
<1>n. n \in Nat /\ m \in Nat
  BY <1>1, <1>5
<1>e. e = [r EXCEPT !.answer = how, !.answered = n, !.again = m]
  OBVIOUS
<1> HIDE DEF n, m, e
<1>3. /\ e \in [kind : OwnerMethods, to : TwoLinks,
                answer : {"none", "ok", "err", "twice", "dropped", "disconnected"},
                answered : Nat, again : Nat]
      /\ e.kind = r.kind /\ e.answered = n /\ e.again = m
  BY <1>2, <1>n, <1>e
<1>4. e.answered = r.answered + 1 + Again(how) /\ e.again = r.again + Again(how)
  BY <1>3 DEF n, m
<1>6. 2 * e.again <= e.answered /\ e.answered - e.again = r.answered - r.again + 1
  BY <1>1, <1>2, <1>4, <1>5
<1>7. e \in Requested /\ e.kind = r.kind /\ e.answered - e.again = r.answered - r.again + 1
  BY <1>3, <1>4, <1>6 DEF Requested
<1>8. QED
  BY <1>7 DEF e

\* An answer is one more of its call.
LEMMA Answered ==
  ASSUME requests \in Seq(Requested), NEW id \in Owner,
         NEW how \in {"ok", "err", "twice", "dropped", "disconnected"}, Answer(id, how)
  PROVE  Answers(id)
<1> DEFINE K == {r \in Requested : r.kind = "connect"}
           e == [requests[id] EXCEPT !.answer = how, !.answered = @ + 1 + Again(how),
                                     !.again = @ + Again(how)]
<1>1. DOMAIN requests = 1..Len(requests) /\ Len(requests) \in Nat
  BY LenProperties
<1>2. CASE id \in DOMAIN requests
  <2>1. requests[id] \in Requested /\ id > 0 /\ id \in 1..Len(requests)
    BY <1>1, <1>2, RequestedFields
  <2>3. /\ e \in Requested /\ e.kind = requests[id].kind
        /\ e.answered - e.again = requests[id].answered - requests[id].again + 1
    BY <2>1, AnsweredCall
  <2>4. requests' = [requests EXCEPT ![id] = e]
    <3>1. requests' = [requests EXCEPT ![id].answer = how, ![id].answered = @ + 1 + Again(how),
                                       ![id].again = @ + Again(how)]
      BY <2>1, Bounds DEF Answer
    <3>2. [requests EXCEPT ![id].answer = how, ![id].answered = @ + 1 + Again(how),
                           ![id].again = @ + Again(how)] = [requests EXCEPT ![id] = e]
      BY <1>1, <2>1
    <3>3. QED
      BY <3>1, <3>2
  <2> HIDE DEF e
  <2>5. /\ requests' \in Seq(Requested) /\ Len(requests') = Len(requests)
        /\ DOMAIN requests' = DOMAIN requests
        /\ \A i \in DOMAIN requests : requests'[i] = IF i = id THEN e ELSE requests[i]
    BY <2>1, <2>3, <2>4, <1>1, ExceptSeq
  <2>6. Count(requests', K) = Count(requests, K)
    <3>1. requests[id] \in K <=> e \in K
      BY <2>1, <2>3
    <3> HIDE DEF K
    <3>2. Count([requests EXCEPT ![id] = e], K) = Count(requests, K)
      BY <2>1, <2>3, <3>1, CountReplace
    <3>3. QED
      BY <2>4, <3>2
  <2>7. ASSUME NEW i \in Nat \ {0}
        PROVE  Told(i)' = Told(i) + One(i = id /\ i \in DOMAIN requests)
    <3>1. i \in DOMAIN requests => requests[i].answered - requests[i].again \in Nat
      BY RequestedFields
    <3>2. CASE i = id
      BY <1>2, <2>3, <2>5, <3>2 DEF Told, One
    <3>3. CASE i # id
      BY <2>5, <3>1, <3>3 DEF Told, One
    <3>4. QED
      BY <3>2, <3>3
  <2>8. QED
    BY <2>5, <2>6, <2>7 DEF Connections, Answers
<1>3. CASE id \notin DOMAIN requests
  <2>1. requests' = requests
    BY <1>1, <1>3, Bounds DEF Answer
  <2>2. ASSUME NEW i \in Nat \ {0}
        PROVE  Told(i)' = Told(i) + One(i = id /\ i \in DOMAIN requests)
    <3>1. i \in DOMAIN requests => requests[i].answered - requests[i].again \in Nat
      BY RequestedFields
    <3>2. QED
      BY <1>3, <2>1, <3>1 DEF Told, One
  <2>3. QED
    BY <2>1, <2>2 DEF Connections, Answers
<1>4. QED
  BY <1>2, <1>3

-----------------------------------------------------------------------------
(* Quiet steps: the machine stays where it is.                             *)

\* An element of a sequence of items of some kinds is of one of them.
LEMMA DoHead ==
  ASSUME NEW S, NEW s \in Seq(Do(S))
  PROVE  /\ HeadDo(s) \in S \cup {"-"}
         /\ s # <<>> => Tail(s) \in Seq(Do(S)) /\ HeadDo(s) \in S
<1>1. s # <<>> => Head(s) \in Do(S) /\ Tail(s) \in Seq(Do(S))
  BY HeadTailProperties
<1>2. QED
  BY <1>1 DEF HeadDo, Do

\* Where a turn goes on after its first item.
LEMMA Behind ==
  ASSUME Turn, NEW x, NEW rest, Takes(x, rest)
  PROVE  /\ rest \in Seq(Do(Following)) /\ HeadDo(rest) \in Following \cup {"-"}
         /\ rest # <<>> => Tail(rest) \in Seq(Do(Following))
         /\ HeadDo(agenda) = x.do /\ (x.do \in Alone => rest = <<>>)
         /\ Running => rest \in Seq(OfNewest) /\ x \in OfNewest
         /\ ~thrown
<1>1. rest \in Seq(Do(Following)) /\ HeadDo(agenda) = x.do /\ ~thrown
  BY DEF Turn, Takes, HeadDo
<1>2. x.do \in Alone => rest = <<>>
  BY <1>1 DEF Turn, Takes
<1>3. Running => rest \in Seq(OfNewest) /\ x \in OfNewest
  <2>1. SUFFICES ASSUME agenda \in Seq(OfNewest) PROVE rest \in Seq(OfNewest) /\ x \in OfNewest
    BY DEF Turn
  <2>2. QED
    BY <2>1, HeadTailProperties DEF Takes
<1>4. QED
  BY <1>1, <1>2, <1>3, DoHead

\* Later items put before the rest of a turn.
LEMMA LaterTurn ==
  ASSUME NEW n \in 0..MaxConns, NEW rest, Rest(rest, n),
         NEW new \in Seq(Later(n)), agenda' = new \o rest
  PROVE  /\ agenda' \in Turns(n) /\ Rest(agenda', n)
         /\ Sums(agenda', new, rest) /\ Numbers(new) /\ Numbers(rest)
<1>1. rest \in Seq(Later(n)) /\ rest \in Seq(Items(n)) /\ Numbers(rest)
  BY DEF Rest
<1>2. agenda' \in Seq(Later(n))
  BY <1>1
<1>3. Rest(agenda', n) /\ Rest(new, n) /\ agenda' \in Turns(n)
  BY <1>2, RestFacts DEF Rest
<1>4. Sums(agenda', new, rest) /\ Numbers(new)
  BY <1>1, <1>3, Joined DEF Rest
<1>5. QED
  BY <1>1, <1>3, <1>4

\* Loose items put before the rest of a turn.
LEMMA LooseTurn ==
  ASSUME NEW n \in 0..MaxConns, NEW rest, Rest(rest, n),
         NEW new \in Seq(Later(n)), new \in Seq(Do(Loose)), agenda' = new \o rest
  PROVE  /\ HeadDo(agenda') \in Loose \/ HeadDo(agenda') = HeadDo(rest)
         /\ LinkSteps(agenda') = LinkSteps(rest) /\ SessionSteps(agenda') = SessionSteps(rest)
         /\ new \in Seq(Do(OwnerMethods \cup Tellings)) => Closings(new) = 0
<1>1. rest \in Seq(Later(n)) /\ rest \in Seq(Items(n)) /\ Numbers(rest)
  BY DEF Rest
<1>2. Sums(agenda', new, rest) /\ Numbers(new)
  BY LaterTurn
<1>3. LinkSteps(new) = 0
  <2>1. Do({"links"}) \cap Do(Loose) = {}
    BY DEF Do, Loose, OwnerMethods, Tellings
  <2>2. QED
    BY <2>1, CountNone DEF LinkSteps
<1>4. SessionSteps(new) = 0
  <2>1. Do({"session"}) \cap Do(Loose) = {}
    BY DEF Do, Loose, OwnerMethods, Tellings
  <2>2. QED
    BY <2>1, CountNone DEF SessionSteps
<1>5. new \in Seq(Do(OwnerMethods \cup Tellings)) => Closings(new) = 0
  <2>1. Do({"session_close", "replay"}) \cap Do(OwnerMethods \cup Tellings) = {}
    BY DEF Do, OwnerMethods, Tellings
  <2>2. QED
    BY <2>1, CountNone DEF Closings
<1>6. HeadDo(agenda') \in Loose \/ HeadDo(agenda') = HeadDo(rest)
  <2>1. CASE new = <<>>
    BY <1>1, <2>1, ConcatEmptySeq
  <2>2. CASE new # <<>>
    <3>1. Head(new) \in Do(Loose) /\ new \o rest # <<>> /\ Head(new \o rest) = Head(new)
      BY <1>1, <2>2, HeadTailProperties, ConcatProperties
    <3>2. QED
      BY <3>1 DEF HeadDo, Do
  <2>3. QED
    BY <2>1, <2>2
<1>7. LinkSteps(agenda') = LinkSteps(rest) /\ SessionSteps(agenda') = SessionSteps(rest)
  BY <1>1, <1>2, <1>3, <1>4 DEF Sums, Numbers
<1>8. QED
  BY <1>5, <1>6, <1>7

\* Nothing put before the rest, and one loose item.
LEMMA LooseOnes ==
  ASSUME NEW n \in 0..MaxConns, NEW rest, Rest(rest, n)
  PROVE  /\ <<>> \in Seq(Later(n)) /\ <<>> \in Seq(Do(OwnerMethods \cup Tellings))
         /\ <<>> \o rest = rest
         /\ \A e \in Items(n) : e.do \in OwnerMethods \cup Tellings =>
              <<e>> \in Seq(Later(n)) /\ <<e>> \in Seq(Do(OwnerMethods \cup Tellings))
         /\ \A s \in Seq(Do(OwnerMethods \cup Tellings)) : s \in Seq(Do(Loose))
<1>1. <<>> \o rest = rest
  BY ConcatEmptySeq DEF Rest
<1>2. ASSUME NEW e \in Items(n), e.do \in OwnerMethods \cup Tellings
      PROVE  e \in Later(n) /\ e \in Do(OwnerMethods \cup Tellings)
  <2>1. e \in Items(MaxConns)
    BY Widened, Bounds
  <2>2. QED
    BY <1>2, <2>1 DEF Later, Do, LeadingSteps, OwnerMethods, Tellings
<1>3. Do(OwnerMethods \cup Tellings) \subseteq Do(Loose)
  BY DEF Do, Loose
<1>4. \A s \in Seq(Do(OwnerMethods \cup Tellings)) : s \in Seq(Do(Loose))
  BY <1>3, SeqWiden
<1>5. /\ <<>> \in Seq(Later(n)) /\ <<>> \in Seq(Do(OwnerMethods \cup Tellings))
      /\ \A T : \A e \in T : <<e>> \in Seq(T)
  OBVIOUS
<1>6. QED
  BY <1>1, <1>2, <1>4, <1>5

\* What controls the machine stays true, when it stays in its state.
LEMMA QuietControl ==
  ASSUME Typed, Budget, Control, NEW x, NEW rest, Takes(x, rest), QuietItem(x),
         QuietTurn(x, rest), Deferrals', UNCHANGED links \/ state = "connected",
         UNCHANGED <<state, callbacks, occurred, rhea, heard, rundowns, net, thrown>>
  PROVE  Control'
<1>1. /\ Begins(agenda, x, rest) /\ Numbers(rest) /\ HeadDo(rest) \notin LeadingSteps \cup {"enter"}
  BY TurnFacts DEF Rest
<1>2. /\ HeadDo(rest) \in Following \cup {"-"} /\ HeadDo(agenda) = x.do /\ ~thrown
      /\ x.do \in Alone => rest = <<>>
  BY Behind DEF Control
<1> state \in ConnectionStates
  BY DEF Typed
<1>3. ~Entering' /\ (Running' <=> Running) /\ (Connected' <=> Connected)
      /\ (Entering => state \in {"disconnected", "connected"}) /\ Newest' = Newest
  BY <1>2 DEF QuietTurn, QuietItem, Entering, Running, Connected, Newest, LeadingSteps,
                ConnectionStates
<1>4. /\ LinkSteps(agenda') = LinkSteps(agenda) /\ SessionSteps(agenda') = SessionSteps(agenda)
      /\ Load(agenda') \in {Load(agenda), Load(agenda) - 1} /\ Load(agenda') <= Load(agenda)
      /\ (Leading(agenda') <=> Leading(agenda)) /\ Load(agenda') \in Nat
      /\ x.do \notin LeadingSteps /\ Load(agenda') = Load(agenda)
  BY <1>1, <1>2 DEF Begins, QuietTurn, QuietItem, Load, Leading, LeadingSteps, Steps, One, Numbers
<1>5. HeadDo(agenda') \in Following \cup {"-"}
  BY <1>2 DEF QuietTurn, Loose, Following
<1>6. Closings(agenda) = 0 => x.do # "replay" /\ Closings(agenda') = 0
  BY <1>1 DEF Begins, QuietTurn, One, Numbers
<1>7. Listening'
  BY <1>3 DEF Control, Listening, rhea
<1>8. Network'
  BY <1>2, <1>3, <1>5 DEF Control, Network, Following, OwnerMethods, Tellings, rhea, QuietItem, Ends
<1>9. Unlinked'
  BY <1>2, <1>3 DEF Control, Unlinked, QuietItem, Steps, Running
<1>10. Turn'
  <2>1. HeadDo(agenda') \notin Alone \cup {"connection", "finish"}
    BY <1>5 DEF Alone, Following, PeerEvents, OwnerMethods, Tellings
  <2>2. SessionSteps(agenda') > 0 => (Running \/ state \in {"disconnected", "connecting"})'
    BY <1>3, <1>4 DEF Control, Turn
  <2>3. Leading(agenda') =>
          /\ Running' /\ Load(agenda') = 1
          /\ (connectionCallback' = None /\ sessionCallback' = None) \/ Closings(agenda') = 0
    BY <1>3, <1>4, <1>6 DEF Control, Turn, callbacks
  <2>4. Running' => agenda' \in Seq(OfNewest')
    BY <1>3 DEF QuietTurn, OfNewest
  <2>5. ~thrown'
    BY <1>2
  <2>6. QED
    BY <2>1, <2>2, <2>3, <2>4, <2>5 DEF Turn, QuietTurn, Alone, PeerEvents
<1>11. Owners'
  BY <1>3 DEF Control, Owners, callbacks, occurred
<1>12. Waiting'
  BY <1>2, <1>3, <1>4 DEF Control, Waiting, callbacks, occurred, QuietItem, QuietTurn, LeadingSteps
<1>13. NeverOpened'
  BY <1>2, <1>3 DEF Control, NeverOpened, QuietItem, Steps, rhea, occurred
<1>14. QED
  BY <1>7, <1>8, <1>9, <1>10, <1>11, <1>12, <1>13 DEF Control

-----------------------------------------------------------------------------
(* Where the callbacks are, and what a step keeps of the budget.           *)

\* The places of a callback are counted.
LEMMA PlacesNat ==
  ASSUME Typed
  PROVE  /\ Connects(deferred.any) \in Nat /\ Connects(deferred.disconnected) \in Nat
         /\ Connects(agenda) \in Nat /\ Connections \in Nat
         /\ \A i \in Nat \ {0} :
              /\ Count(agenda, Of(i)) \in Nat /\ InDeferred(i) \in Nat /\ InCallbacks(i) \in Nat
              /\ InLinks(i) \in Nat /\ InRundowns(i) \in Nat /\ InClosure(i) \in Nat
              /\ Told(i) \in Nat
<1>1. /\ deferred.any \in Seq(Kept) /\ deferred.disconnected \in Seq(Kept)
      /\ requests \in Seq(Requested) /\ rundowns \in Seq(Rundowns(Newest))
      /\ agenda \in Seq(Items(Newest))
  BY DEF Typed, Turns
<1>2. \A T : \A s \in Seq(T) : \A S : Count(s, S) \in Nat
  BY CountNat
<1>3. ASSUME NEW i \in Nat \ {0} PROVE Told(i) \in Nat
  BY <1>1, RequestedFields DEF Told
<1>4. \A b : One(b) \in Nat
  BY DEF One
<1>5. \A S : /\ Count(deferred.any, S) \in Nat /\ Count(deferred.disconnected, S) \in Nat
              /\ Count(agenda, S) \in Nat /\ Count(requests, S) \in Nat
              /\ Count(rundowns, S) \in Nat
  BY <1>1, <1>2
<1>6. /\ Connects(deferred.any) \in Nat /\ Connects(deferred.disconnected) \in Nat
      /\ Connects(agenda) \in Nat /\ Connections \in Nat
  BY <1>5 DEF Connects, Connections
<1>7. ASSUME NEW i \in Nat \ {0}
      PROVE  /\ Count(agenda, Of(i)) \in Nat /\ InDeferred(i) \in Nat
             /\ InCallbacks(i) \in Nat /\ InLinks(i) \in Nat /\ InRundowns(i) \in Nat
             /\ InClosure(i) \in Nat
  <2>1. Count(agenda, Of(i)) \in Nat /\ InDeferred(i) \in Nat
    BY <1>5 DEF InDeferred
  <2>2. InRundowns(i) \in Nat
    BY <1>5 DEF InRundowns
  <2>3. InCallbacks(i) \in Nat /\ InLinks(i) \in Nat /\ InClosure(i) \in Nat
    BY <1>4 DEF InCallbacks, InLinks, InClosure
  <2>4. QED
    BY <2>1, <2>2, <2>3
<1>8. QED
  BY <1>3, <1>6, <1>7

\* So they are after a step.
LEMMA PlacesNatNext ==
  ASSUME Typed'
  PROVE  /\ Connects(deferred'.any) \in Nat /\ Connects(deferred'.disconnected) \in Nat
         /\ Connects(agenda') \in Nat /\ Connections' \in Nat
         /\ \A i \in Nat \ {0} :
              /\ Count(agenda', Of(i)) \in Nat /\ InDeferred(i)' \in Nat /\ InCallbacks(i)' \in Nat
              /\ InLinks(i)' \in Nat /\ InRundowns(i)' \in Nat /\ InClosure(i)' \in Nat
              /\ Told(i)' \in Nat
<1>1. /\ deferred'.any \in Seq(Kept) /\ deferred'.disconnected \in Seq(Kept)
      /\ requests' \in Seq(Requested) /\ rundowns' \in Seq(Rundowns(Newest'))
      /\ agenda' \in Seq(Items(Newest'))
  BY DEF Typed, Turns
<1>2. \A T : \A s \in Seq(T) : \A S : Count(s, S) \in Nat
  BY CountNat
<1>3. ASSUME NEW i \in Nat \ {0} PROVE Told(i)' \in Nat
  <2>1. CASE i \in DOMAIN requests'
    <3>1. DOMAIN requests' = 1..Len(requests')
      BY <1>1, LenProperties
    <3>2. requests'[i] \in Requested
      BY <1>1, <2>1, <3>1, ElementOfSeq
    <3>3. requests'[i].answered - requests'[i].again \in Nat
      BY <3>2 DEF Requested
    <3>4. QED
      BY <2>1, <3>3 DEF Told
  <2>2. CASE i \notin DOMAIN requests'
    BY <2>2 DEF Told
  <2>3. QED
    BY <2>1, <2>2
<1>4. \A b : One(b) \in Nat
  BY DEF One
<1>5. \A S : /\ Count(deferred'.any, S) \in Nat /\ Count(deferred'.disconnected, S) \in Nat
              /\ Count(agenda', S) \in Nat /\ Count(requests', S) \in Nat
              /\ Count(rundowns', S) \in Nat
  BY <1>1, <1>2
<1>6. /\ Connects(deferred'.any) \in Nat /\ Connects(deferred'.disconnected) \in Nat
      /\ Connects(agenda') \in Nat /\ Connections' \in Nat
  BY <1>5 DEF Connects, Connections
<1>7. ASSUME NEW i \in Nat \ {0}
      PROVE  /\ Count(agenda', Of(i)) \in Nat /\ InDeferred(i)' \in Nat
             /\ InCallbacks(i)' \in Nat /\ InLinks(i)' \in Nat /\ InRundowns(i)' \in Nat
             /\ InClosure(i)' \in Nat
  <2>1. Count(agenda', Of(i)) \in Nat /\ InDeferred(i)' \in Nat
    BY <1>5 DEF InDeferred
  <2>2. InRundowns(i)' \in Nat
    BY <1>5 DEF InRundowns
  <2>3. InCallbacks(i)' \in Nat /\ InLinks(i)' \in Nat /\ InClosure(i)' \in Nat
    BY <1>4 DEF InCallbacks, InLinks, InClosure
  <2>4. QED
    BY <2>1, <2>2, <2>3
<1>8. QED
  BY <1>3, <1>6, <1>7

\* A rundown that is late stays so as long as the rundowns stay as they are.
LEMMA LateSame ==
  ASSUME LateHasNoTimer, UNCHANGED rundowns
  PROVE  LateHasNoTimer' /\ (LateRundown' <=> LateRundown)
BY DEF LateHasNoTimer, LateRundown

\* A quiet step keeps the invariant.
LEMMA QuietStep ==
  ASSUME Inv, NEW x, NEW rest, Takes(x, rest), QuietItem(x),
         NEW new, Puts(new, rest, x), QuietEffect(x, new),
         UNCHANGED <<repertoire, state, callbacks, occurred, rhea, heard, rundowns, net, thrown,
                     events>>
  PROVE  Inv'
<1>1. Typed /\ Budget /\ LateHasNoTimer
  BY DEF Inv
<1>2. Newest \in 0..MaxConns /\ Rest(rest, Newest) /\ Begins(agenda, x, rest) /\ x \in Items(Newest)
  BY <1>1, TurnFacts
<1>3. /\ agenda' \in Turns(Newest) /\ Rest(agenda', Newest)
      /\ Sums(agenda', new, rest) /\ Numbers(new) /\ Numbers(rest)
  BY <1>2, LaterTurn DEF Puts
<1>4. Typed'
  BY <1>1, <1>3 DEF Typed, QuietEffect, Newest, callbacks, occurred, rhea
<1>5. Budget'
  <2>1. Connects(agenda') = Connects(new) + Connects(rest)
        /\ Connects(agenda) = One(x.do = "connect") + Connects(rest)
    BY <1>2, <1>3 DEF Sums, Begins
  <2>2. ~Entering' /\ (Entering => state \notin {"connecting", "disconnecting"})
    BY <1>2, <1>3 DEF Rest, Entering, QuietItem, Begins
  <2>3. (Underway' <=> Underway) /\ One(state = "connecting" /\ Entering) = 0
        /\ One(state = "connecting" /\ Entering)' = 0
    BY <2>2 DEF Underway, One
  <2>4. /\ Connects(deferred'.any) \in Nat /\ Connects(deferred'.disconnected) \in Nat
        /\ Connects(new) \in Nat /\ Connections' \in Nat /\ Connects(rest) \in Nat
        /\ Connects(deferred.any) \in Nat /\ Connects(deferred.disconnected) \in Nat
        /\ Connections \in Nat /\ conn \in Nat /\ One(x.do = "connect") \in Nat
    <3>1. /\ Connects(deferred'.any) \in Nat /\ Connects(deferred'.disconnected) \in Nat
          /\ Connections' \in Nat
      BY <1>4, PlacesNatNext
    <3>2. /\ Connects(deferred.any) \in Nat /\ Connects(deferred.disconnected) \in Nat
          /\ Connections \in Nat
      BY <1>1, PlacesNat
    <3>3. Connects(new) \in Nat /\ Connects(rest) \in Nat
      BY <1>3 DEF Numbers
    <3>4. conn \in Nat /\ One(x.do = "connect") \in Nat
      BY <1>1 DEF One, Typed
    <3>5. QED
      BY <3>1, <3>2, <3>3, <3>4
  <2>5. conn' = conn /\ Newest' = Newest
    BY DEF rhea, Newest
  <2>6. conn' + Connects(agenda') + Connects(deferred'.any) + Connects(deferred'.disconnected)
          + One(state = "connecting" /\ Entering)' <= Connections'
    <3>1. conn + Connects(agenda) + Connects(deferred.any) + Connects(deferred.disconnected)
            <= Connections
      BY <1>1, <2>1, <2>3, <2>4 DEF Budget
    <3>2. Connects(new) + Connects(deferred'.any) + Connects(deferred'.disconnected) + Connections
            <= One(x.do = "connect") + Connects(deferred.any) + Connects(deferred.disconnected)
                 + Connections'
      BY DEF QuietEffect
    <3>3. QED
      BY <2>1, <2>3, <2>4, <2>5, <3>1, <3>2
  <2>7. QED
    BY <1>1, <2>3, <2>5, <2>6 DEF Budget, QuietEffect, One
<1>6. LateHasNoTimer' /\ (LateRundown' <=> LateRundown)
  BY <1>1, LateSame
<1>7. CASE LateRundown
  BY <1>4, <1>5, <1>6, <1>7 DEF Inv
<1>8. CASE ~LateRundown
  <2>1. Control /\ Accounted
    BY <1>8 DEF Inv
  <2>2. QuietTurn(x, rest)
    <3>0. /\ HeadDo(agenda') \in Loose \/ HeadDo(agenda') = HeadDo(rest)
          /\ LinkSteps(agenda') = LinkSteps(rest) /\ SessionSteps(agenda') = SessionSteps(rest)
          /\ new \in Seq(Do(OwnerMethods \cup Tellings)) => Closings(new) = 0
      BY <1>2, <1>8, LooseTurn DEF Puts
    <3>1. /\ HeadDo(agenda') \notin LeadingSteps \cup {"enter"} /\ Numbers(agenda')
          /\ agenda' \in Seq(Later(Newest))
      BY <1>3 DEF Rest
    <3>2. Closings(agenda') = Closings(rest) \/ x.do = "replay"
      BY <1>3, <1>8, <3>0 DEF Sums, Numbers, Puts
    <3>3. rest \in Seq(Do(Following)) /\ (Running => rest \in Seq(OfNewest))
      BY <2>1, Behind DEF Control
    <3>4. agenda' \in Seq(Do(Following))
      <4>1. Do(Loose) \subseteq Do(Following)
        BY DEF Do, Loose, Following
      <4>2. new \in Seq(Do(Following))
        BY <1>8, <4>1, SeqWiden DEF Puts
      <4>3. rest \in Seq(Do(Following))
        BY <3>3
      <4>4. new \o rest \in Seq(Do(Following))
        BY <4>2, <4>3, ConcatProperties
      <4>5. QED
        BY <4>4 DEF Puts
    <3>5. agenda' # <<>> => Tail(agenda') \in Seq(Do(Following))
      BY <3>4, HeadTailProperties
    <3>6. Running => agenda' \in Seq(OfNewest)
      <4>1. Do(Loose) \subseteq OfNewest
        BY DEF Do, Loose, OfNewest, Steps, OwnerMethods, Tellings
      <4>2. new \in Seq(OfNewest)
        BY <1>8, <4>1, SeqWiden DEF Puts
      <4>3. SUFFICES ASSUME Running PROVE agenda' \in Seq(OfNewest)
        OBVIOUS
      <4>4. rest \in Seq(OfNewest)
        BY <3>3, <4>3
      <4>5. new \o rest \in Seq(OfNewest)
        BY <4>2, <4>4, ConcatProperties
      <4>6. QED
        BY <4>5 DEF Puts
    <3>7. QED
      BY <3>0, <3>1, <3>2, <3>5, <3>6 DEF QuietTurn
  <2>3. Control'
    BY <1>1, <1>8, <2>1, <2>2, QuietControl DEF QuietEffect
  <2>4. ASSUME NEW i \in Nat \ {0} PROVE Places(i)' <= One(i \in DOMAIN requests')
    <3>1. /\ Count(agenda', Of(i)) = Count(new, Of(i)) + Count(rest, Of(i))
          /\ Count(agenda, Of(i)) = One(x.id = i /\ x.do \notin Steps) + Count(rest, Of(i))
          /\ Count(new, Of(i)) \in Nat /\ Count(rest, Of(i)) \in Nat
      BY <1>2, <1>3 DEF Sums, Begins, Numbers
    <3>2. /\ InCallbacks(i)' = InCallbacks(i) /\ InRundowns(i)' = InRundowns(i)
          /\ InClosure(i)' = InClosure(i)
      <4>1. Running' <=> Running
        BY <1>2, <1>3 DEF Running, Rest, Entering, QuietItem, Begins
      <4>2. QED
        BY <4>1 DEF InCallbacks, InRundowns, InClosure, callbacks, Newest
    <3>3. /\ InDeferred(i) \in Nat /\ InCallbacks(i) \in Nat /\ InLinks(i) \in Nat
          /\ InRundowns(i) \in Nat /\ InClosure(i) \in Nat /\ Told(i) \in Nat
      BY <1>1, PlacesNat
    <3>4. InDeferred(i)' \in Nat /\ InLinks(i)' \in Nat /\ Told(i)' \in Nat
      BY <1>4, PlacesNatNext
    <3>5. \A b : One(b) \in Nat
      BY DEF One
    <3>6. Places(i) <= One(i \in DOMAIN requests)
      BY <2>1 DEF Accounted
    <3>7. Count(new, Of(i)) + InDeferred(i)' + InLinks(i)' + Told(i)' + One(i \in DOMAIN requests)
            <= One(x.id = i /\ x.do \notin Steps) + InDeferred(i) + InLinks(i) + Told(i)
                 + One(i \in DOMAIN requests')
      BY DEF QuietEffect
    <3>8. Places(i) = Count(agenda, Of(i)) + InDeferred(i) + InCallbacks(i) + InLinks(i)
                        + InRundowns(i) + InClosure(i) + Told(i)
      BY DEF Places
    <3>9. Places(i)' = Count(agenda', Of(i)) + InDeferred(i)' + InCallbacks(i) + InLinks(i)'
                        + InRundowns(i) + InClosure(i) + Told(i)'
      BY <3>2 DEF Places
    <3>10. QED
      BY <3>1, <3>3, <3>4, <3>5, <3>6, <3>7, <3>8, <3>9
  <2>5. Accounted'
    BY <2>4 DEF Accounted
  <2>6. QED
    BY <1>4, <1>5, <1>6, <2>3, <2>5 DEF Inv
<1>9. QED
  BY <1>7, <1>8

-----------------------------------------------------------------------------
(* The quiet handlers.                                                     *)

\* The turn goes on with what follows, or with one loose item before that.
LEMMA PutsNone ==
  ASSUME Typed, Budget, NEW x, NEW rest, Takes(x, rest), agenda' = rest
  PROVE  Puts(<<>>, rest, x)
BY TurnFacts, LooseOnes DEF Puts

\* The same with one item.
LEMMA PutsOne ==
  ASSUME Typed, Budget, NEW x, NEW rest, Takes(x, rest), NEW e \in Items(Newest),
         e.do \in OwnerMethods \cup Tellings, agenda' = <<e>> \o rest
  PROVE  Puts(<<e>>, rest, x)
BY TurnFacts, LooseOnes DEF Puts

\* What is counted in a turn of one item.
LEMMA OneCounted ==
  ASSUME NEW n \in 0..MaxConns, NEW e \in Items(n)
  PROVE  /\ Connects(<<e>>) = One(e.do = "connect")
         /\ \A i : Count(<<e>>, Of(i)) = One(e.id = i /\ e.do \notin Steps)
<1>1. Begins(<<e>>, e, <<>>)
  BY OneItem
<1>2. Connects(<<e>>) = One(e.do = "connect")
  <2>1. Connects(<<e>>) = One(e.do = "connect") + Connects(<<>>)
    BY <1>1 DEF Begins
  <2>2. Connects(<<>>) = 0 /\ One(e.do = "connect") \in Nat
    BY NoTurn DEF One
  <2>3. QED
    BY <2>1, <2>2
<1>3. ASSUME NEW i PROVE Count(<<e>>, Of(i)) = One(e.id = i /\ e.do \notin Steps)
  <2>1. Count(<<e>>, Of(i)) = One(e.id = i /\ e.do \notin Steps) + Count(<<>>, Of(i))
    BY <1>1 DEF Begins
  <2>2. Count(<<>>, Of(i)) = 0 /\ One(e.id = i /\ e.do \notin Steps) \in Nat
    BY NoTurn DEF One
  <2>3. QED
    BY <2>1, <2>2
<1>4. QED
  BY <1>2, <1>3

\* An item that is not heeded.
LEMMA IgnoreStep ==
  ASSUME Inv, NEW x, NEW rest, Takes(x, rest), QuietItem(x), Ignore(rest), Calm
  PROVE  Inv'
<1>1. Typed /\ Budget
  BY DEF Inv
<1>2. Puts(<<>>, rest, x)
  BY <1>1, PutsNone DEF Ignore
<1>3. QuietEffect(x, <<>>)
  <2>1. UNCHANGED <<links, deferred, requests>>
    BY DEF Ignore
  <2>2. /\ links \in [Kinds -> LinkRecords]
        /\ deferred \in [any : Seq(Kept), disconnected : Seq(Kept)]
        /\ requests \in Seq(Requested) /\ Len(requests) <= MaxRequests
        /\ Connections <= MaxConns
    BY <1>1 DEF Typed, Budget
  <2>3. ~LateRundown /\ Control => Deferrals'
    BY <2>1 DEF Control, Deferrals
  <2>4. Connections' = Connections /\ \A i : Told(i)' = Told(i) /\ InDeferred(i)' = InDeferred(i)
                                             /\ InLinks(i)' = InLinks(i)
    BY <2>1 DEF Connections, Told, InDeferred, InLinks
  <2>5. Connects(<<>>) + Connects(deferred'.any) + Connects(deferred'.disconnected) + Connections
          <= One(x.do = "connect") + Connects(deferred.any) + Connects(deferred.disconnected)
               + Connections'
    BY <1>1, <2>1, <2>4, PlacesNat, NoTurn DEF One
  <2>6. ASSUME NEW i \in Nat \ {0}
        PROVE  Count(<<>>, Of(i)) + InDeferred(i)' + InLinks(i)' + Told(i)' + One(i \in DOMAIN requests)
                 <= One(x.id = i /\ x.do \notin Steps) + InDeferred(i) + InLinks(i) + Told(i)
                      + One(i \in DOMAIN requests')
    <3>1. One(x.id = i /\ x.do \notin Steps) \in Nat /\ One(i \in DOMAIN requests) \in Nat
      BY DEF One
    <3>2. InDeferred(i) \in Nat /\ InLinks(i) \in Nat /\ Told(i) \in Nat /\ Count(<<>>, Of(i)) = 0
      BY <1>1, PlacesNat, NoTurn
    <3>3. QED
      BY <2>1, <2>4, <3>1, <3>2
  <2>7. QED
    BY <2>1, <2>2, <2>3, <2>4, <2>5, <2>6 DEF QuietEffect
<1>4. QED
  BY <1>2, <1>3, QuietStep DEF Ignore, Calm

\* The call of an item is answered.
LEMMA AnswerStep ==
  ASSUME Inv, NEW x, NEW rest, Takes(x, rest), QuietItem(x),
         NEW how \in {"ok", "err", "twice", "dropped", "disconnected"}, AnswerNow(x.id, how, rest), Calm
  PROVE  Inv'
<1>1. Typed /\ Budget
  BY DEF Inv
<1>2. Puts(<<>>, rest, x)
  BY <1>1, PutsNone DEF AnswerNow
<1>3. QuietEffect(x, <<>>)
  <2>1. UNCHANGED <<links, deferred>> /\ x.do \notin Steps
    BY DEF AnswerNow, QuietItem
  <2>2. /\ links \in [Kinds -> LinkRecords]
        /\ deferred \in [any : Seq(Kept), disconnected : Seq(Kept)]
        /\ requests \in Seq(Requested) /\ Len(requests) <= MaxRequests
        /\ Connections <= MaxConns
    BY <1>1 DEF Typed, Budget
  <2>3. ~LateRundown /\ Control => Deferrals'
    BY <2>1 DEF Control, Deferrals
  <2>4. Answers(x.id)
    <3>1. Newest \in 0..MaxConns /\ x \in Items(Newest)
      BY <1>1, TurnFacts
    <3>2. x.id \in Owner
      BY <3>1, ItemFields
    <3>3. QED
      BY <2>2, <3>2, Answered DEF AnswerNow
  <2>5. \A i : InDeferred(i)' = InDeferred(i) /\ InLinks(i)' = InLinks(i)
    BY <2>1 DEF InDeferred, InLinks
  <2>6. Connects(<<>>) + Connects(deferred'.any) + Connects(deferred'.disconnected) + Connections
          <= One(x.do = "connect") + Connects(deferred.any) + Connects(deferred.disconnected)
               + Connections'
    BY <1>1, <2>1, <2>4, PlacesNat, NoTurn DEF One, Answers
  <2>7. ASSUME NEW i \in Nat \ {0}
        PROVE  Count(<<>>, Of(i)) + InDeferred(i)' + InLinks(i)' + Told(i)' + One(i \in DOMAIN requests)
                 <= One(x.id = i /\ x.do \notin Steps) + InDeferred(i) + InLinks(i) + Told(i)
                      + One(i \in DOMAIN requests')
    <3>1. Told(i)' = Told(i) + One(i = x.id /\ i \in DOMAIN requests)
          /\ DOMAIN requests' = DOMAIN requests
      BY <2>4 DEF Answers
    <3>2. One(i = x.id /\ i \in DOMAIN requests) <= One(x.id = i /\ x.do \notin Steps)
          /\ One(i = x.id /\ i \in DOMAIN requests) \in Nat
          /\ One(x.id = i /\ x.do \notin Steps) \in Nat /\ One(i \in DOMAIN requests) \in Nat
      BY <2>1 DEF One
    <3>3. InDeferred(i) \in Nat /\ InLinks(i) \in Nat /\ Told(i) \in Nat /\ Count(<<>>, Of(i)) = 0
      BY <1>1, PlacesNat, NoTurn
    <3>4. QED
      BY <2>5, <3>1, <3>2, <3>3
  <2>8. Len(requests') <= MaxRequests /\ requests' \in Seq(Requested) /\ Connections' <= MaxConns
    BY <2>2, <2>4 DEF Answers
  <2>9. QED
    BY <2>1, <2>2, <2>3, <2>6, <2>7, <2>8 DEF QuietEffect
<1>4. QED
  BY <1>2, <1>3, QuietStep DEF AnswerNow, Calm

\* An item that is kept is one more that waits.
LEMMA OneMore ==
  ASSUME NEW s \in Seq(Kept), NEW n \in 0..MaxConns, NEW x \in Items(n), x \in Kept
  PROVE  /\ Append(s, x) \in Seq(Kept)
         /\ Connects(Append(s, x)) = Connects(s) + One(x.do = "connect")
         /\ \A i : Count(Append(s, x), Of(i)) = Count(s, Of(i)) + One(x.id = i /\ x.do \notin Steps)
<1>1. ASSUME NEW S PROVE Count(Append(s, x), S) = Count(s, S) + One(x \in S)
  <2>1. Count(s, S) \in Nat
    BY CountNat
  <2>2. QED
    BY <2>1, CountAppend DEF One
<1>2. x \in Items(MaxConns)
  BY Widened, Bounds
<1>3. (x \in Do({"connect"}) <=> x.do = "connect") /\ \A i : x \in Of(i) <=> x.id = i /\ x.do \notin Steps
  BY <1>2 DEF Do, Of
<1>4. Connects(Append(s, x)) = Connects(s) + One(x.do = "connect")
  BY <1>1, <1>3 DEF Connects
<1>5. ASSUME NEW i
      PROVE  Count(Append(s, x), Of(i)) = Count(s, Of(i)) + One(x.id = i /\ x.do \notin Steps)
  BY <1>1, <1>3
<1>6. QED
  BY <1>4, <1>5

\* An input that waits is one more that waits.
LEMMA OneDeferred ==
  ASSUME Typed, NEW n \in 0..MaxConns, NEW x \in Items(n), x \in Kept,
         NEW until \in {"any", "disconnected"},
         deferred' = [deferred EXCEPT ![until] = Append(@, x)]
  PROVE  /\ deferred' \in [any : Seq(Kept), disconnected : Seq(Kept)]
         /\ until = "any" => /\ deferred'.any = Append(deferred.any, x)
                             /\ deferred'.disconnected = deferred.disconnected
         /\ until = "disconnected" => /\ deferred'.disconnected = Append(deferred.disconnected, x)
                                      /\ deferred'.any = deferred.any
         /\ Connects(deferred'.any) + Connects(deferred'.disconnected)
              = Connects(deferred.any) + Connects(deferred.disconnected) + One(x.do = "connect")
         /\ \A i \in Nat \ {0} : InDeferred(i)' = InDeferred(i) + One(x.id = i /\ x.do \notin Steps)
<1>1. /\ deferred.any \in Seq(Kept) /\ deferred.disconnected \in Seq(Kept)
      /\ deferred \in [any : Seq(Kept), disconnected : Seq(Kept)]
  BY DEF Typed
<1>2. Connects(deferred.any) \in Nat /\ Connects(deferred.disconnected) \in Nat
      /\ One(x.do = "connect") \in Nat
  BY PlacesNat DEF One
<1>3. \A S : Count(deferred.any, S) \in Nat /\ Count(deferred.disconnected, S) \in Nat
  BY <1>1, CountNat
<1>4. CASE until = "any"
  <2>1. deferred'.any = Append(deferred.any, x) /\ deferred'.disconnected = deferred.disconnected
        /\ deferred' \in [any : Seq(Kept), disconnected : Seq(Kept)]
    <3>1. deferred' = [deferred EXCEPT !.any = Append(deferred.any, x)]
      BY <1>4
    <3>2. Append(deferred.any, x) \in Seq(Kept)
      BY <1>1, OneMore
    <3>3. QED
      BY <1>1, <3>1, <3>2
  <2>2. Connects(deferred'.any) = Connects(deferred.any) + One(x.do = "connect")
    BY <1>1, <2>1, OneMore
  <2>3. ASSUME NEW i \in Nat \ {0}
        PROVE  InDeferred(i)' = InDeferred(i) + One(x.id = i /\ x.do \notin Steps)
    <3>1. Count(deferred'.any, Of(i)) = Count(deferred.any, Of(i)) + One(x.id = i /\ x.do \notin Steps)
      BY <1>1, <2>1, OneMore
    <3>2. One(x.id = i /\ x.do \notin Steps) \in Nat
      BY DEF One
    <3>3. QED
      BY <1>3, <2>1, <3>1, <3>2 DEF InDeferred
  <2>4. Connects(deferred'.any) + Connects(deferred'.disconnected)
          = Connects(deferred.any) + Connects(deferred.disconnected) + One(x.do = "connect")
    BY <1>2, <2>1, <2>2
  <2>5. QED
    BY <1>4, <2>1, <2>3, <2>4
<1>5. CASE until = "disconnected"
  <2>1. deferred'.disconnected = Append(deferred.disconnected, x) /\ deferred'.any = deferred.any
        /\ deferred' \in [any : Seq(Kept), disconnected : Seq(Kept)]
    <3>1. deferred' = [deferred EXCEPT !.disconnected = Append(deferred.disconnected, x)]
      BY <1>5
    <3>2. Append(deferred.disconnected, x) \in Seq(Kept)
      BY <1>1, OneMore
    <3>3. QED
      BY <1>1, <3>1, <3>2
  <2>2. Connects(deferred'.disconnected) = Connects(deferred.disconnected) + One(x.do = "connect")
    BY <1>1, <2>1, OneMore
  <2>3. ASSUME NEW i \in Nat \ {0}
        PROVE  InDeferred(i)' = InDeferred(i) + One(x.id = i /\ x.do \notin Steps)
    <3>1. Count(deferred'.disconnected, Of(i))
            = Count(deferred.disconnected, Of(i)) + One(x.id = i /\ x.do \notin Steps)
      BY <1>1, <2>1, OneMore
    <3>2. One(x.id = i /\ x.do \notin Steps) \in Nat
      BY DEF One
    <3>3. QED
      BY <1>3, <2>1, <3>1, <3>2 DEF InDeferred
  <2>4. Connects(deferred'.any) + Connects(deferred'.disconnected)
          = Connects(deferred.any) + Connects(deferred.disconnected) + One(x.do = "connect")
    BY <1>2, <2>1, <2>2
  <2>5. QED
    BY <1>5, <2>1, <2>3, <2>4
<1>6. QED
  BY <1>4, <1>5

\* An input waits.
LEMMA DeferStep ==
  ASSUME Inv, NEW x, NEW rest, Takes(x, rest), QuietItem(x),
         x.do \in OwnerMethods \cup PeerEvents, NEW until \in {"any", "disconnected"},
         ~LateRundown => Waits(until, x), Defer(x, until, rest), Calm
  PROVE  Inv'
<1>1. Typed /\ Budget
  BY DEF Inv
<1>2. Puts(<<>>, rest, x)
  BY <1>1, PutsNone DEF Defer
<1>3. Newest \in 0..MaxConns /\ x \in Items(Newest) /\ x \in Kept
  BY <1>1, TurnFacts, ItemFields
<1>4. /\ deferred' \in [any : Seq(Kept), disconnected : Seq(Kept)]
      /\ Connects(deferred'.any) + Connects(deferred'.disconnected)
           = Connects(deferred.any) + Connects(deferred.disconnected) + One(x.do = "connect")
      /\ \A i \in Nat \ {0} : InDeferred(i)' = InDeferred(i) + One(x.id = i /\ x.do \notin Steps)
  BY <1>1, <1>3, OneDeferred DEF Defer
<1>5. ~LateRundown /\ Control => Deferrals'
  <2>1. SUFFICES ASSUME ~LateRundown, Deferrals PROVE Deferrals'
    BY DEF Control
  <2>2. x \in Items(MaxConns)
    BY <1>3, Widened, Bounds
  <2>3. CASE until = "any" /\ x.do \in OwnerMethods \cup {"session_close"}
    <3>1. x \in Do(OwnerMethods \cup {"session_close"})
      BY <2>2, <2>3 DEF Do
    <3>2. /\ deferred'.any = Append(deferred.any, x)
          /\ deferred'.disconnected = deferred.disconnected
      BY <1>1, <1>3, <2>3, OneDeferred DEF Defer
    <3>3. QED
      BY <2>1, <3>1, <3>2, AppendProperties DEF Deferrals
  <2>4. CASE until = "disconnected" /\ x.do \in OwnerMethods
    <3>1. x \in Do(OwnerMethods)
      BY <2>2, <2>4 DEF Do
    <3>2. /\ deferred'.disconnected = Append(deferred.disconnected, x)
          /\ deferred'.any = deferred.any
      BY <1>1, <1>3, <2>4, OneDeferred DEF Defer
    <3>3. QED
      BY <2>1, <3>1, <3>2, AppendProperties DEF Deferrals
  <2>5. QED
    BY <2>1, <2>3, <2>4 DEF Waits
<1>6. QuietEffect(x, <<>>)
  <2>1. UNCHANGED <<links, requests>> /\ x.do \notin Steps
    BY DEF Defer, QuietItem
  <2>2. /\ links \in [Kinds -> LinkRecords]
        /\ requests \in Seq(Requested) /\ Len(requests) <= MaxRequests
        /\ Connections <= MaxConns
    BY <1>1 DEF Typed, Budget
  <2>3. Connections' = Connections /\ \A i : Told(i)' = Told(i) /\ InLinks(i)' = InLinks(i)
    BY <2>1 DEF Connections, Told, InLinks
  <2>4. Connects(<<>>) + Connects(deferred'.any) + Connects(deferred'.disconnected) + Connections
          <= One(x.do = "connect") + Connects(deferred.any) + Connects(deferred.disconnected)
               + Connections'
    <3>1. /\ Connects(deferred'.any) \in Nat /\ Connects(deferred'.disconnected) \in Nat
          /\ Connects(<<>>) = 0 /\ Connections \in Nat
      BY <1>1, <1>4, CountNat, PlacesNat, NoTurn DEF Connects
    <3>2. /\ Connects(deferred.any) \in Nat /\ Connects(deferred.disconnected) \in Nat
          /\ One(x.do = "connect") \in Nat
      BY <1>1, PlacesNat DEF One
    <3>3. QED
      BY <1>4, <2>3, <3>1, <3>2
  <2>5. ASSUME NEW i \in Nat \ {0}
        PROVE  Count(<<>>, Of(i)) + InDeferred(i)' + InLinks(i)' + Told(i)' + One(i \in DOMAIN requests)
                 <= One(x.id = i /\ x.do \notin Steps) + InDeferred(i) + InLinks(i) + Told(i)
                      + One(i \in DOMAIN requests')
    <3>1. InDeferred(i)' = InDeferred(i) + One(x.id = i /\ x.do \notin Steps)
      BY <1>4
    <3>2. One(x.id = i /\ x.do \notin Steps) \in Nat /\ One(i \in DOMAIN requests) \in Nat
      BY DEF One
    <3>3. InDeferred(i) \in Nat /\ InLinks(i) \in Nat /\ Told(i) \in Nat /\ Count(<<>>, Of(i)) = 0
      BY <1>1, PlacesNat, NoTurn
    <3>4. QED
      BY <2>1, <2>3, <3>1, <3>2, <3>3
  <2>6. QED
    BY <1>4, <1>5, <2>1, <2>2, <2>3, <2>4, <2>5 DEF QuietEffect
<1>7. QED
  BY <1>2, <1>6, QuietStep DEF Defer, Calm

\* What waits is put before the rest of a turn, and waits no longer.
LEMMA Replayed ==
  ASSUME Typed, NEW n \in 0..MaxConns,
         NEW front, front = deferred.disconnected \/ front = <<>>,
         deferred' = [any |-> <<>>,
                      disconnected |-> IF front = deferred.disconnected THEN <<>>
                                       ELSE deferred.disconnected]
  PROVE  /\ front \o deferred.any \in Seq(Later(n))
         /\ deferred' \in [any : Seq(Kept), disconnected : Seq(Kept)]
         /\ Connects(front \o deferred.any) + Connects(deferred'.any) + Connects(deferred'.disconnected)
              = Connects(deferred.any) + Connects(deferred.disconnected)
         /\ \A i \in Nat \ {0} : Count(front \o deferred.any, Of(i)) + InDeferred(i)' = InDeferred(i)
         /\ Deferrals => Deferrals' /\ front \o deferred.any \in Seq(Do(Loose))
<1>1. deferred.any \in Seq(Kept) /\ deferred.disconnected \in Seq(Kept) /\ front \in Seq(Kept)
      /\ <<>> \in Seq(Kept)
  <2>1. deferred.any \in Seq(Kept) /\ deferred.disconnected \in Seq(Kept)
    BY DEF Typed
  <2>2. <<>> \in Seq(Kept)
    OBVIOUS
  <2>3. QED
    BY <2>1, <2>2
<1>2. Seq(Kept) \subseteq Seq(Later(n)) /\ Seq(Later(n)) \subseteq Seq(Items(n))
  BY SeqWiden, Widened, Bounds
<1>3. /\ front \in Seq(Items(n)) /\ deferred.any \in Seq(Items(n))
      /\ front \in Seq(Later(n)) /\ deferred.any \in Seq(Later(n))
  BY <1>1, <1>2
<1>4. front \o deferred.any \in Seq(Later(n)) /\ Sums(front \o deferred.any, front, deferred.any)
  BY <1>3, Joined, ConcatProperties
<1>5. deferred'.any = <<>>
      /\ deferred'.disconnected = IF front = deferred.disconnected THEN <<>> ELSE deferred.disconnected
  OBVIOUS
<1>6. deferred' \in [any : Seq(Kept), disconnected : Seq(Kept)]
  BY <1>1
<1>7. \A S : /\ Count(deferred.any, S) \in Nat /\ Count(deferred.disconnected, S) \in Nat
             /\ Count(<<>>, S) = 0
  BY <1>1, CountNat, CountEmpty
<1>8. Connects(front \o deferred.any) = Connects(front) + Connects(deferred.any)
      /\ \A i : Count(front \o deferred.any, Of(i)) = Count(front, Of(i)) + Count(deferred.any, Of(i))
  BY <1>4 DEF Sums
<1>9. Connects(front \o deferred.any) + Connects(deferred'.any) + Connects(deferred'.disconnected)
        = Connects(deferred.any) + Connects(deferred.disconnected)
  <2>1. /\ Connects(deferred.any) \in Nat /\ Connects(deferred.disconnected) \in Nat
        /\ Connects(<<>>) = 0
    BY <1>7 DEF Connects
  <2>2. CASE front = deferred.disconnected
    BY <1>5, <1>8, <2>1, <2>2
  <2>3. CASE front # deferred.disconnected
    BY <1>5, <1>8, <2>1, <2>3
  <2>4. QED
    BY <2>2, <2>3
<1>10. ASSUME NEW i \in Nat \ {0}
       PROVE  Count(front \o deferred.any, Of(i)) + InDeferred(i)' = InDeferred(i)
  <2>1. /\ Count(deferred.any, Of(i)) \in Nat /\ Count(deferred.disconnected, Of(i)) \in Nat
        /\ Count(<<>>, Of(i)) = 0
    BY <1>7
  <2>2. CASE front = deferred.disconnected
    BY <1>5, <1>8, <2>1, <2>2 DEF InDeferred
  <2>3. CASE front # deferred.disconnected
    BY <1>5, <1>8, <2>1, <2>3 DEF InDeferred
  <2>4. QED
    BY <2>2, <2>3
<1>11. ASSUME Deferrals
       PROVE  Deferrals' /\ front \o deferred.any \in Seq(Do(Loose))
  <2>1. Deferrals'
    BY <1>5, <1>11 DEF Deferrals
  <2>2. Do(OwnerMethods) \subseteq Do(Loose) /\ Do(OwnerMethods \cup {"session_close"}) \subseteq Do(Loose)
    BY DEF Do, Loose
  <2>3. /\ deferred.any \in Seq(Do(Loose)) /\ deferred.disconnected \in Seq(Do(Loose))
        /\ <<>> \in Seq(Do(Loose))
    <3>1. deferred.any \in Seq(Do(Loose))
      BY <1>11, <2>2, SeqWiden DEF Deferrals
    <3>2. deferred.disconnected \in Seq(Do(Loose))
      BY <1>11, <2>2, SeqWiden DEF Deferrals
    <3>3. <<>> \in Seq(Do(Loose))
      OBVIOUS
    <3>4. QED
      BY <3>1, <3>2, <3>3
  <2>4. front \in Seq(Do(Loose))
    BY <2>3
  <2>5. QED
    BY <2>1, <2>3, <2>4, ConcatProperties
<1>12. QED
  BY <1>4, <1>6, <1>9, <1>10, <1>11

\* What waits for a transition is handled again.
LEMMA ReplayStep ==
  ASSUME Inv, NEW x, NEW rest, Takes(x, rest), x.do = "replay", Replay(x.to, rest), Calm
  PROVE  Inv'
<1>1. Typed /\ Budget
  BY DEF Inv
<1>2. QuietItem(x)
  BY DEF QuietItem, Steps, Ends
<1>3. CASE state # x.to
  BY <1>2, <1>3, IgnoreStep DEF Replay
<1>4. CASE state = x.to
  <2> DEFINE front == IF x.to = "disconnected" THEN deferred.disconnected ELSE <<>>
             new == front \o deferred.any
  <2>1. /\ agenda' = (front \o deferred.any) \o rest
        /\ deferred' = [any |-> <<>>,
                        disconnected |-> IF x.to = "disconnected" THEN <<>> ELSE deferred.disconnected]
        /\ UNCHANGED <<state, callbacks, occurred, rhea, heard, links, rundowns, net, requests>>
    BY <1>4 DEF Replay
  <2>2. deferred' = [any |-> <<>>,
                     disconnected |-> IF front = deferred.disconnected THEN <<>>
                                      ELSE deferred.disconnected]
    BY <2>1
  <2>3. front = deferred.disconnected \/ front = <<>>
    OBVIOUS
  <2>4. Newest \in 0..MaxConns
    BY <1>1, NewestBound
  <2> HIDE DEF front
  <2>5. /\ new \in Seq(Later(Newest))
        /\ deferred' \in [any : Seq(Kept), disconnected : Seq(Kept)]
        /\ Connects(new) + Connects(deferred'.any) + Connects(deferred'.disconnected)
             = Connects(deferred.any) + Connects(deferred.disconnected)
        /\ \A i \in Nat \ {0} : Count(new, Of(i)) + InDeferred(i)' = InDeferred(i)
        /\ Deferrals => Deferrals' /\ new \in Seq(Do(Loose))
    BY <1>1, <2>2, <2>3, <2>4, Replayed
  <2>6. agenda' = new \o rest
    BY <2>1
  <2> HIDE DEF new
  <2>7. Puts(new, rest, x)
    BY <2>5, <2>6 DEF Puts, Inv, Control
  <2>8. UNCHANGED <<links, requests>>
    BY <2>1
  <2>9. /\ links' \in [Kinds -> LinkRecords] /\ requests' \in Seq(Requested)
        /\ Len(requests') <= MaxRequests /\ Connections' <= MaxConns
    BY <1>1, <2>8 DEF Typed, Budget, Connections
  <2>10. Connections' = Connections /\ \A i : Told(i)' = Told(i) /\ InLinks(i)' = InLinks(i)
    BY <2>8 DEF Connections, Told, InLinks
  <2>11. Connects(new) + Connects(deferred'.any) + Connects(deferred'.disconnected) + Connections
           <= One(x.do = "connect") + Connects(deferred.any) + Connects(deferred.disconnected)
                + Connections'
    <3>1. /\ Connections \in Nat /\ Connects(deferred.any) \in Nat
          /\ Connects(deferred.disconnected) \in Nat
      BY <1>1, PlacesNat
    <3>2. One(x.do = "connect") = 0
      BY DEF One
    <3>3. Connects(new) + Connects(deferred'.any) + Connects(deferred'.disconnected)
            = Connects(deferred.any) + Connects(deferred.disconnected)
      BY <2>5
    <3>4. QED
      BY <2>10, <3>1, <3>2, <3>3
  <2>12. ASSUME NEW i \in Nat \ {0}
         PROVE  Count(new, Of(i)) + InDeferred(i)' + InLinks(i)' + Told(i)' + One(i \in DOMAIN requests)
                  <= One(x.id = i /\ x.do \notin Steps) + InDeferred(i) + InLinks(i) + Told(i)
                       + One(i \in DOMAIN requests')
    <3>1. /\ InDeferred(i) \in Nat /\ InLinks(i) \in Nat /\ Told(i) \in Nat
          /\ One(x.id = i /\ x.do \notin Steps) \in Nat /\ One(i \in DOMAIN requests) \in Nat
      BY <1>1, PlacesNat DEF One
    <3>2. Count(new, Of(i)) + InDeferred(i)' = InDeferred(i)
      BY <2>5
    <3>3. QED
      BY <2>8, <2>10, <3>1, <3>2
  <2>13. QuietEffect(x, new)
    BY <2>5, <2>8, <2>9, <2>11, <2>12 DEF QuietEffect, Control
  <2>14. QED
    BY <1>2, <2>1, <2>7, <2>13, QuietStep DEF Calm
<1>5. QED
  BY <1>3, <1>4

\* Calls that stay as they are answer nobody.
LEMMA Untold ==
  ASSUME requests \in Seq(Requested), UNCHANGED requests
  PROVE  Answers(0)
<1>1. ASSUME NEW i \in Nat \ {0}
      PROVE  Told(i)' = Told(i) + One(i = 0 /\ i \in DOMAIN requests)
  <2>1. Told(i)' = Told(i)
    BY DEF Told
  <2>2. Told(i) \in Nat
    BY RequestedFields DEF Told
  <2>3. One(i = 0 /\ i \in DOMAIN requests) = 0
    BY DEF One
  <2>4. QED
    BY <2>1, <2>2, <2>3
<1>2. Connections' = Connections
  BY DEF Connections
<1>3. QED
  BY <1>1, <1>2 DEF Answers

\* One link changes.
LEMMA LinkSet ==
  ASSUME links \in [Kinds -> LinkRecords], NEW k \in Kinds, NEW r \in LinkRecords, Relinks(k, r)
  PROVE  Relinked(k, r)
<1>1. links' \in [Kinds -> LinkRecords]
  BY DEF Kinds, Relinks
<1>2. links'[k] = r /\ \A o \in Kinds \ {k} : links'[o] = links[o]
  BY DEF Kinds, Relinks
<1>3. ASSUME NEW i \in Nat \ {0}
      PROVE  InLinks(i)' + One(links[k].op = i) = InLinks(i) + One(r.op = i)
  <2>1. \A b : One(b) \in Nat
    BY DEF One
  <2>2. CASE k = "sender"
    BY <1>2, <2>1, <2>2 DEF InLinks, Kinds
  <2>3. CASE k = "receiver"
    BY <1>2, <2>1, <2>3 DEF InLinks, Kinds
  <2>4. CASE k = "cbs"
    BY <1>2, <2>1, <2>4 DEF InLinks, Kinds
  <2>5. QED
    BY <2>2, <2>3, <2>4 DEF Kinds
<1>4. QED
  BY <1>1, <1>2, <1>3 DEF Relinked

\* The effect of a quiet step that answers one call at most, defers nothing and
\* makes no call.
LEMMA Effects ==
  ASSUME Typed, Budget, NEW x, NEW new, Numbers(new),
         UNCHANGED deferred, links' \in [Kinds -> LinkRecords],
         UNCHANGED links \/ state = "connected", NEW a \in Owner, Answers(a),
         Connects(new) = 0, Hands(x, new, a)
  PROVE  QuietEffect(x, new)
<1>1. /\ deferred \in [any : Seq(Kept), disconnected : Seq(Kept)]
      /\ requests \in Seq(Requested) /\ Len(requests) <= MaxRequests
      /\ Connections <= MaxConns
  BY DEF Typed, Budget
<1>2. ~LateRundown /\ Control => Deferrals'
  BY DEF Control, Deferrals
<1>3. Connections' = Connections /\ Len(requests') = Len(requests)
      /\ requests' \in Seq(Requested)
  BY DEF Answers
<1>4. Connects(new) + Connects(deferred'.any) + Connects(deferred'.disconnected) + Connections
        <= One(x.do = "connect") + Connects(deferred.any) + Connects(deferred.disconnected)
             + Connections'
  <2>1. One(x.do = "connect") \in Nat /\ Connections \in Nat /\ Connects(deferred.any) \in Nat
        /\ Connects(deferred.disconnected) \in Nat
    BY PlacesNat DEF One
  <2>2. QED
    BY <1>3, <2>1
<1>5. ASSUME NEW i \in Nat \ {0}
      PROVE  Count(new, Of(i)) + InDeferred(i)' + InLinks(i)' + Told(i)' + One(i \in DOMAIN requests)
               <= One(x.id = i /\ x.do \notin Steps) + InDeferred(i) + InLinks(i) + Told(i)
                    + One(i \in DOMAIN requests')
  <2>1. Told(i)' = Told(i) + One(i = a /\ i \in DOMAIN requests)
        /\ DOMAIN requests' = DOMAIN requests
    BY DEF Answers
  <2>2. One(i = a /\ i \in DOMAIN requests) <= One(i = a)
        /\ One(i = a /\ i \in DOMAIN requests) \in Nat /\ One(i = a) \in Nat
        /\ One(x.id = i /\ x.do \notin Steps) \in Nat /\ One(i \in DOMAIN requests) \in Nat
    BY DEF One
  <2>3. /\ InDeferred(i) \in Nat /\ InLinks(i) \in Nat /\ Told(i) \in Nat
        /\ Count(new, Of(i)) \in Nat
    BY PlacesNat DEF Numbers
  <2>4. InLinks(i)' \in Nat
    BY DEF InLinks, One
  <2>5. InDeferred(i)' = InDeferred(i)
    BY DEF InDeferred
  <2>8. One(i \in DOMAIN requests') = One(i \in DOMAIN requests)
    BY <2>1
  <2>6. Count(new, Of(i)) + InLinks(i)' + One(i = a)
          <= One(x.id = i /\ x.do \notin Steps) + InLinks(i)
    BY DEF Hands
  <2>7. QED
    BY <2>1, <2>2, <2>3, <2>4, <2>5, <2>6, <2>8
<1>6. QED
  BY <1>1, <1>2, <1>3, <1>4, <1>5 DEF QuietEffect

\* A new link is attached.
LEMMA AttachStep ==
  ASSUME Inv, NEW x, NEW rest, Takes(x, rest), QuietItem(x), state = "connected",
         x.do \in OwnerMethods, NEW k \in Kinds, AttachLink(k, x.id, rest), Calm
  PROVE  Inv'
<1>1. Typed /\ Budget
  BY DEF Inv
<1>2. Puts(<<>>, rest, x)
  BY <1>1, PutsNone DEF AttachLink
<1>3. Newest \in 0..MaxConns /\ x \in Items(Newest)
  BY <1>1, TurnFacts
<1>4. x.id \in 0..MaxRequests /\ x.do \notin Steps
  BY <1>3, ItemFields, Bounds DEF OwnerMethods, Steps
<1> DEFINE r == [phase |-> "attaching", op |-> x.id]
<1>5. r \in LinkRecords /\ r.op = x.id
  BY <1>4 DEF LinkRecords
<1> HIDE DEF r
<1>6. links \in [Kinds -> LinkRecords] /\ links' = [links EXCEPT ![k] = r]
  BY <1>1 DEF Typed, AttachLink, r
<1>7. /\ links' \in [Kinds -> LinkRecords]
      /\ \A i \in Nat \ {0} : InLinks(i)' + One(links[k].op = i) = InLinks(i) + One(r.op = i)
  <2>1. Relinks(k, r)
    BY <1>6 DEF Relinks
  <2>2. Relinked(k, r)
    BY <1>5, <1>6, <2>1, LinkSet
  <2>3. QED
    BY <2>2 DEF Relinked
<1>8. Answers(0)
  BY <1>1, Untold DEF Typed, AttachLink
<1>9. ASSUME NEW i \in Nat \ {0}
      PROVE  Count(<<>>, Of(i)) + InLinks(i)' + One(i = 0)
               <= One(x.id = i /\ x.do \notin Steps) + InLinks(i)
  <2>1. Count(<<>>, Of(i)) = 0 /\ One(i = 0) = 0 /\ One(links[k].op = i) \in Nat
        /\ One(x.id = i /\ x.do \notin Steps) = One(r.op = i) /\ One(r.op = i) \in Nat
    BY <1>4, <1>5, NoTurn DEF One
  <2>2. InLinks(i) \in Nat /\ InLinks(i)' \in Nat
    BY DEF InLinks, One
  <2>3. QED
    BY <1>7, <2>1, <2>2
<1>10. QuietEffect(x, <<>>)
  <2>1. <<>> \in Seq(Items(Newest)) /\ Connects(<<>>) = 0 /\ 0 \in Owner
    BY NoTurn, Bounds
  <2>2. UNCHANGED deferred
    BY DEF AttachLink
  <2>3. QED
    BY <1>1, <1>3, <1>7, <1>8, <1>9, <2>1, <2>2, TurnNumbers, Effects DEF Hands
<1>11. QED
  BY <1>2, <1>10, QuietStep DEF AttachLink, Calm

\* A link is detached: it answers when the peer has, or at once, and the attach
\* under way is told.
LEMMA DetachStep ==
  ASSUME Inv, NEW x, NEW rest, Takes(x, rest), QuietItem(x), state = "connected",
         x.do \in OwnerMethods, NEW k \in Kinds, DetachLink(k, x.id, rest), Calm
  PROVE  Inv'
<1>1. Typed /\ Budget
  BY DEF Inv
<1>3. Newest \in 0..MaxConns /\ x \in Items(Newest)
  BY <1>1, TurnFacts
<1>4. x.id \in 0..MaxRequests /\ x.id \in Owner /\ x.do \notin Steps
  BY <1>3, ItemFields, Bounds DEF OwnerMethods, Steps
<1>5. links \in [Kinds -> LinkRecords] /\ requests \in Seq(Requested)
  BY <1>1 DEF Typed
<1>6. links[k].op \in 0..MaxRequests
  BY <1>5 DEF LinkRecords
<1>7. <<>> \in Seq(Items(Newest)) /\ Connects(<<>>) = 0 /\ 0 \in Owner
      /\ \A i : Count(<<>>, Of(i)) = 0
  BY NoTurn, Bounds
<1>8. UNCHANGED deferred
  BY DEF DetachLink
<1>9. UNCHANGED <<repertoire, state, callbacks, occurred, rhea, heard, rundowns, net, thrown, events>>
  BY DEF DetachLink, Calm
<1>10. CASE links[k].phase = "attached"
  <2> DEFINE r == [phase |-> "detaching", op |-> x.id]
  <2>1. r \in LinkRecords /\ r.op = x.id
    BY <1>4 DEF LinkRecords
  <2> HIDE DEF r
  <2>2. links' = [links EXCEPT ![k] = r]
    BY <1>10 DEF DetachLink, r
  <2>3. /\ links' \in [Kinds -> LinkRecords]
        /\ \A i \in Nat \ {0} : InLinks(i)' + One(links[k].op = i) = InLinks(i) + One(r.op = i)
    <3>1. Relinks(k, r)
      BY <2>2 DEF Relinks
    <3>2. Relinked(k, r)
      BY <1>5, <2>1, <3>1, LinkSet
    <3>3. QED
      BY <3>2 DEF Relinked
  <2>4. Answers(0)
    BY <1>5, <1>10, Untold DEF DetachLink
  <2>5. ASSUME NEW i \in Nat \ {0}
        PROVE  Count(<<>>, Of(i)) + InLinks(i)' + One(i = 0)
                 <= One(x.id = i /\ x.do \notin Steps) + InLinks(i)
    <3>1. Count(<<>>, Of(i)) = 0 /\ One(i = 0) = 0 /\ One(links[k].op = i) \in Nat
          /\ One(x.id = i /\ x.do \notin Steps) = One(r.op = i) /\ One(r.op = i) \in Nat
      BY <1>4, <1>7, <2>1 DEF One
    <3>2. InLinks(i) \in Nat /\ InLinks(i)' \in Nat
      BY DEF InLinks, One
    <3>3. QED
      BY <2>3, <3>1, <3>2
  <2>6. QuietEffect(x, <<>>)
    BY <1>1, <1>3, <1>7, <1>8, <2>3, <2>4, <2>5, TurnNumbers, Effects DEF Hands
  <2>7. Puts(<<>>, rest, x)
    BY <1>1, <1>10, PutsNone DEF DetachLink
  <2>8. QED
    BY <1>9, <2>6, <2>7, QuietStep
<1>11. CASE links[k].phase # "attached"
  <2>1. NoLink \in LinkRecords /\ NoLink.op = 0 /\ links' = [links EXCEPT ![k] = NoLink]
    BY <1>11, Bounds DEF DetachLink, LinkRecords, NoLink
  <2>3. /\ links' \in [Kinds -> LinkRecords]
        /\ \A i \in Nat \ {0} : InLinks(i)' + One(links[k].op = i) = InLinks(i) + One(NoLink.op = i)
    <3>1. Relinks(k, NoLink)
      BY <2>1 DEF Relinks
    <3>2. Relinked(k, NoLink)
      BY <1>5, <2>1, <3>1, LinkSet
    <3>3. QED
      BY <3>2 DEF Relinked
  <2>4. Answers(x.id)
    BY <1>4, <1>5, <1>11, Answered DEF DetachLink
  <2>5. ASSUME NEW new \in Seq(Items(Newest)), Connects(new) = 0,
               \A i \in Nat \ {0} : Count(new, Of(i)) <= One(links[k].op = i)
        PROVE  QuietEffect(x, new)
    <3>1. ASSUME NEW i \in Nat \ {0}
          PROVE  Count(new, Of(i)) + InLinks(i)' + One(i = x.id)
                   <= One(x.id = i /\ x.do \notin Steps) + InLinks(i)
      <4>1. One(NoLink.op = i) = 0 /\ One(links[k].op = i) \in Nat /\ One(i = x.id) \in Nat
            /\ One(x.id = i /\ x.do \notin Steps) = One(i = x.id) /\ Count(new, Of(i)) \in Nat
        BY <1>4, <2>1, <2>5, CountNat DEF One
      <4>2. InLinks(i) \in Nat /\ InLinks(i)' \in Nat
        BY DEF InLinks, One
      <4>3. InLinks(i)' + One(links[k].op = i) = InLinks(i) + One(NoLink.op = i)
            /\ Count(new, Of(i)) <= One(links[k].op = i)
        BY <2>3, <2>5
      <4>4. QED
        BY <4>1, <4>2, <4>3
    <3>2. QED
      BY <1>1, <1>3, <1>4, <1>8, <2>3, <2>4, <2>5, <3>1, TurnNumbers, Effects DEF Hands
  <2>6. CASE links[k].phase = "attaching"
    <3> DEFINE e == Item("refused", links[k].op, TRUE)
    <3>1. e \in Items(Newest) /\ e.do = "refused" /\ e.id = links[k].op
      <4>1. links[k].op \in Owner /\ links[k].op >= 0
        BY <1>6, Bounds
      <4>2. QED
        BY <1>3, <4>1, ItemIn DEF Tellings
    <3>2. agenda' = <<e>> \o rest
      BY <1>11, <2>6 DEF DetachLink
    <3> HIDE DEF e
    <3>3. Puts(<<e>>, rest, x)
      BY <1>1, <3>1, <3>2, PutsOne DEF Tellings
    <3>4. Connects(<<e>>) = 0 /\ \A i : Count(<<e>>, Of(i)) <= One(links[k].op = i)
      <4>1. Connects(<<e>>) = One(e.do = "connect")
            /\ \A i : Count(<<e>>, Of(i)) = One(e.id = i /\ e.do \notin Steps)
        BY <1>3, <3>1, OneCounted
      <4>2. QED
        BY <3>1, <4>1 DEF One
    <3>5. <<e>> \in Seq(Items(Newest))
      BY <3>1
    <3>6. QuietEffect(x, <<e>>)
      BY <2>5, <3>4, <3>5
    <3>7. QED
      BY <1>9, <3>3, <3>6, QuietStep
  <2>7. CASE links[k].phase # "attaching"
    <3>1. Puts(<<>>, rest, x)
      <4>1. agenda' = rest
        BY <1>11, <2>7 DEF DetachLink
      <4>2. QED
        BY <1>1, <4>1, PutsNone
    <3>2. \A i \in Nat \ {0} : Count(<<>>, Of(i)) <= One(links[k].op = i)
      BY <1>7 DEF One
    <3>3. QuietEffect(x, <<>>)
      BY <1>7, <2>5, <3>2
    <3>4. QED
      BY <1>9, <3>1, <3>3, QuietStep
  <2>8. QED
    BY <2>6, <2>7
<1>12. QED
  BY <1>10, <1>11

\* An attach is answered: putToken is handled again.
LEMMA OpenedStep ==
  ASSUME Inv, NEW x, NEW rest, Takes(x, rest), x.do = "opened", Opened(x.id, rest), Calm
  PROVE  Inv'
<1>1. Typed /\ Budget
  BY DEF Inv
<1>2. QuietItem(x)
  BY DEF QuietItem, Steps, Ends
<1>3. Newest \in 0..MaxConns /\ x \in Items(Newest)
  BY <1>1, TurnFacts
<1>4. x.id \in Owner /\ x.id >= 0
  BY <1>3, ItemFields DEF Steps
<1>5. CASE x.id # None /\ requests[x.id].kind = "putToken"
  <2> DEFINE e == Item("putToken", x.id, FALSE)
  <2>1. e \in Items(Newest) /\ e.do = "putToken" /\ e.id = x.id
    <3>1. ASSUME NEW id \in Owner, id >= 0
          PROVE  /\ Item("putToken", id, FALSE) \in Items(Newest)
                 /\ Item("putToken", id, FALSE).do = "putToken"
                 /\ Item("putToken", id, FALSE).id = id
      BY <1>3, <3>1, ItemIn
    <3>2. QED
      BY <1>4, <3>1
  <2>2. /\ agenda' = <<e>> \o rest
        /\ UNCHANGED <<state, deferred, callbacks, occurred, rhea, heard, links, rundowns, net,
                       requests>>
    BY <1>5 DEF Opened
  <2> HIDE DEF e
  <2>3. Puts(<<e>>, rest, x)
    BY <1>1, <2>1, <2>2, PutsOne DEF OwnerMethods
  <2>4. Numbers(<<e>>) /\ Connects(<<e>>) = 0
        /\ \A i : Count(<<e>>, Of(i)) = One(e.id = i /\ e.do \notin Steps)
    <3>1. <<e>> \in Seq(Items(Newest))
      BY <2>1
    <3>2. Connects(<<e>>) = One(e.do = "connect")
          /\ \A i : Count(<<e>>, Of(i)) = One(e.id = i /\ e.do \notin Steps)
      BY <1>3, <2>1, OneCounted
    <3>3. Numbers(<<e>>)
      BY <1>3, <3>1, TurnNumbers
    <3>4. QED
      BY <2>1, <3>2, <3>3 DEF One
  <2>5. links \in [Kinds -> LinkRecords] /\ requests \in Seq(Requested)
    BY <1>1 DEF Typed
  <2>6. Answers(0) /\ 0 \in Owner
    BY <2>2, <2>5, Untold, Bounds
  <2>7. ASSUME NEW i \in Nat \ {0}
        PROVE  Count(<<e>>, Of(i)) + InLinks(i)' + One(i = 0)
                 <= One(x.id = i /\ x.do \notin Steps) + InLinks(i)
    <3>1. Count(<<e>>, Of(i)) = One(x.id = i /\ x.do \notin Steps) /\ One(i = 0) = 0
          /\ One(x.id = i /\ x.do \notin Steps) \in Nat
      BY <2>1, <2>4 DEF One, Steps
    <3>2. InLinks(i)' = InLinks(i) /\ InLinks(i) \in Nat
      BY <2>2 DEF InLinks, One
    <3>3. QED
      BY <3>1, <3>2
  <2>8. QuietEffect(x, <<e>>)
    BY <1>1, <2>2, <2>4, <2>5, <2>6, <2>7, Effects DEF Hands
  <2>9. QED
    BY <1>2, <2>2, <2>3, <2>8, QuietStep DEF Calm
<1>6. CASE ~(x.id # None /\ requests[x.id].kind = "putToken")
  BY <1>2, <1>6, AnswerStep DEF Opened
<1>7. QED
  BY <1>5, <1>6

\* The owner makes one more call.
LEMMA Asked ==
  ASSUME requests \in Seq(Requested), NEW kind \in OwnerMethods, NEW k \in TwoLinks,
         requests' = Append(requests, Call(kind, k))
  PROVE  /\ requests' \in Seq(Requested) /\ Len(requests') = Len(requests) + 1
         /\ Connections' = Connections + One(kind = "connect")
         /\ \A i \in Nat \ {0} :
              /\ Told(i)' = Told(i)
              /\ One(i \in DOMAIN requests') = One(i \in DOMAIN requests) + One(i = Len(requests) + 1)
<1> DEFINE c == Call(kind, k)
<1>1. c \in Requested /\ c.kind = kind /\ c.answered = 0 /\ c.again = 0
  BY DEF Call, Requested
<1>2. requests' = Append(requests, c)
  OBVIOUS
<1> HIDE DEF c
<1>3. /\ requests' \in Seq(Requested) /\ Len(requests') = Len(requests) + 1
      /\ requests'[Len(requests) + 1] = c
      /\ \A i \in 1..Len(requests) : requests'[i] = requests[i]
  BY <1>1, <1>2, AppendProperties
<1>4. /\ DOMAIN requests = 1..Len(requests) /\ Len(requests) \in Nat
      /\ DOMAIN requests' = 1..(Len(requests) + 1)
  BY <1>3, LenProperties
<1>5. Connections' = Connections + One(kind = "connect")
  <2> DEFINE K == {r \in Requested : r.kind = "connect"}
  <2>1. c \in K <=> kind = "connect"
    BY <1>1
  <2> HIDE DEF K
  <2>2. Count(requests, K) \in Nat
    BY CountNat
  <2>3. Count(requests', K) = Count(requests, K) + One(c \in K)
    BY <1>1, <1>2, <2>2, CountAppend DEF One
  <2>4. One(c \in K) = One(kind = "connect")
    BY <2>1 DEF One
  <2>5. QED
    BY <2>3, <2>4 DEF Connections, K
<1>6. ASSUME NEW i \in Nat \ {0}
      PROVE  /\ Told(i)' = Told(i)
             /\ One(i \in DOMAIN requests') = One(i \in DOMAIN requests) + One(i = Len(requests) + 1)
  <2>1. CASE i \in 1..Len(requests)
    BY <1>3, <1>4, <2>1 DEF Told, One
  <2>2. CASE i = Len(requests) + 1
    BY <1>1, <1>3, <1>4, <2>2 DEF Told, One
  <2>3. CASE i \notin 1..Len(requests) /\ i # Len(requests) + 1
    BY <1>4, <2>3 DEF Told, One
  <2>4. QED
    BY <2>1, <2>2, <2>3
<1>7. QED
  BY <1>3, <1>5, <1>6

\* Who may connect has connects left.
LEMMA ConnectsLeft ==
  ASSUME requests \in Seq(Requested), MayConnect
  PROVE  Len(requests) < MaxRequests /\ Connections + 1 <= MaxConns
<1>1. DOMAIN requests = 1..Len(requests)
  BY LenProperties
<1>2. \A i \in DOMAIN requests : requests[i] \in Requested
  BY <1>1, ElementOfSeq
<1>3. {i \in DOMAIN requests : requests[i] \in {r \in Requested : r.kind = "connect"}}
        = {i \in DOMAIN requests : requests[i].kind = "connect"}
  BY <1>2
<1>4. Connections < MaxConns
  BY <1>3 DEF Connections, Count, MayConnect
<1>5. Connections \in Nat
  BY CountNat DEF Connections
<1>6. QED
  BY <1>4, <1>5, Bounds DEF MayConnect

\* The disconnect handler of the owner connects again.
LEMMA ReconnectStep ==
  ASSUME Inv, NEW x, NEW rest, Takes(x, rest), QuietItem(x), x.do \notin {"connect"}, MayConnect,
         requests' = Append(requests, Call("connect", "sender")),
         agenda' = <<Item("connect", Len(requests) + 1, FALSE)>> \o rest,
         UNCHANGED <<state, deferred, callbacks, occurred, rhea, heard, links, rundowns, net>>,
         Calm
  PROVE  Inv'
<1> DEFINE e == Item("connect", Len(requests) + 1, FALSE)
<1>1. Typed /\ Budget
  BY DEF Inv
<1>2. /\ links \in [Kinds -> LinkRecords] /\ requests \in Seq(Requested)
      /\ deferred \in [any : Seq(Kept), disconnected : Seq(Kept)]
  BY <1>1 DEF Typed
<1>3. Len(requests) < MaxRequests /\ Connections + 1 <= MaxConns /\ Len(requests) \in Nat
  BY <1>2, ConnectsLeft, LenProperties
<1>4. Newest \in 0..MaxConns
  BY <1>1, NewestBound
<1>5. e \in Items(Newest) /\ e.do = "connect" /\ e.id = Len(requests) + 1
  <2>1. Len(requests) + 1 \in Owner /\ Len(requests) + 1 >= 0
    BY <1>3, Bounds
  <2>2. QED
    BY <1>4, <2>1, ItemIn
<1>6. agenda' = <<e>> \o rest
  OBVIOUS
<1> HIDE DEF e
<1>7. Puts(<<e>>, rest, x)
  BY <1>1, <1>5, <1>6, PutsOne DEF OwnerMethods
<1>8. Connects(<<e>>) = 1
      /\ \A i : Count(<<e>>, Of(i)) = One(e.id = i /\ e.do \notin Steps)
  <2>1. Connects(<<e>>) = One(e.do = "connect")
        /\ \A i : Count(<<e>>, Of(i)) = One(e.id = i /\ e.do \notin Steps)
    BY <1>4, <1>5, OneCounted
  <2>2. QED
    BY <1>5, <2>1 DEF One
<1>9. /\ requests' \in Seq(Requested) /\ Len(requests') = Len(requests) + 1
      /\ Connections' = Connections + One("connect" = "connect")
      /\ \A i \in Nat \ {0} :
           /\ Told(i)' = Told(i)
           /\ One(i \in DOMAIN requests') = One(i \in DOMAIN requests) + One(i = Len(requests) + 1)
  BY <1>2, Asked DEF OwnerMethods, TwoLinks
<1>10. Connections' = Connections + 1 /\ Connections \in Nat
  BY <1>1, <1>9, PlacesNat DEF One
<1>11. ~LateRundown /\ Control => Deferrals'
  BY DEF Control, Deferrals
<1>12. Connects(<<e>>) + Connects(deferred'.any) + Connects(deferred'.disconnected) + Connections
         <= One(x.do = "connect") + Connects(deferred.any) + Connects(deferred.disconnected)
              + Connections'
  <2>1. One(x.do = "connect") \in Nat /\ Connects(deferred.any) \in Nat
        /\ Connects(deferred.disconnected) \in Nat
    BY <1>1, PlacesNat DEF One
  <2>2. QED
    BY <1>8, <1>10, <2>1
<1>13. ASSUME NEW i \in Nat \ {0}
       PROVE  Count(<<e>>, Of(i)) + InDeferred(i)' + InLinks(i)' + Told(i)' + One(i \in DOMAIN requests)
                <= One(x.id = i /\ x.do \notin Steps) + InDeferred(i) + InLinks(i) + Told(i)
                     + One(i \in DOMAIN requests')
  <2>1. InDeferred(i)' = InDeferred(i) /\ InLinks(i)' = InLinks(i) /\ Told(i)' = Told(i)
    BY <1>9 DEF InDeferred, InLinks
  <2>2. Count(<<e>>, Of(i)) = One(i = Len(requests) + 1)
    BY <1>5, <1>8 DEF One, Steps
  <2>3. One(i \in DOMAIN requests') = One(i \in DOMAIN requests) + One(i = Len(requests) + 1)
    BY <1>9
  <2>4. InDeferred(i) \in Nat /\ InLinks(i) \in Nat /\ Told(i) \in Nat
    BY <1>1, PlacesNat
  <2>5. One(x.id = i /\ x.do \notin Steps) \in Nat /\ One(i \in DOMAIN requests) \in Nat
        /\ One(i = Len(requests) + 1) \in Nat
    BY DEF One
  <2> DEFINE d == InDeferred(i)  l == InLinks(i)  t == Told(i)
             o == One(x.id = i /\ x.do \notin Steps)  m == One(i \in DOMAIN requests)
             n == One(i = Len(requests) + 1)
             a == Count(<<e>>, Of(i))  q == One(i \in DOMAIN requests')
  <2>6. /\ d \in Nat /\ l \in Nat /\ t \in Nat /\ o \in Nat /\ m \in Nat /\ n \in Nat
        /\ a = n /\ q = m + n
    BY <2>2, <2>3, <2>4, <2>5
  <2>7. InDeferred(i)' = d /\ InLinks(i)' = l /\ Told(i)' = t
    BY <2>1
  <2> HIDE DEF d, l, t, o, m, n, a, q
  <2>8. a + d + l + t + m <= o + d + l + t + q
    BY <2>6
  <2>9. QED
    BY <2>7, <2>8 DEF d, l, t, o, m, n, a, q
<1>14. QuietEffect(x, <<e>>)
  <2>1. Len(requests') <= MaxRequests /\ Connections' <= MaxConns
    BY <1>3, <1>9, <1>10, Bounds
  <2>2. UNCHANGED links /\ links' \in [Kinds -> LinkRecords]
        /\ deferred' \in [any : Seq(Kept), disconnected : Seq(Kept)]
    BY <1>2
  <2>3. QED
    BY <1>9, <1>11, <1>12, <1>13, <2>1, <2>2 DEF QuietEffect
<1>15. QED
  BY <1>7, <1>14, QuietStep DEF Calm

\* The machine enters disconnected.
LEMMA EnterDisconnectedStep ==
  ASSUME Inv, NEW x, NEW rest, Takes(x, rest), x.do = "enter", state = "disconnected",
         EnterDisconnected(x.id, x.err, rest), Calm
  PROVE  Inv'
<1>1. QuietItem(x) /\ x.do \notin {"connect"}
  BY DEF QuietItem, Steps
<1>2. CASE x.id # None /\ Answer(x.id, ErrOr(x.err, "disconnected")) /\ agenda' = rest
  <2>1. ErrOr(x.err, "disconnected") \in {"ok", "err", "twice", "dropped", "disconnected"}
    BY DEF ErrOr
  <2>2. AnswerNow(x.id, ErrOr(x.err, "disconnected"), rest)
    BY <1>2 DEF EnterDisconnected, AnswerNow
  <2>3. QED
    BY <1>1, <2>1, <2>2, AnswerStep
<1>3. CASE x.id = None /\ agenda' = rest /\ UNCHANGED requests
  <2>1. Ignore(rest)
    BY <1>3 DEF EnterDisconnected, Ignore
  <2>2. QED
    BY <1>1, <2>1, IgnoreStep
<1>4. CASE /\ x.id = None /\ MayConnect
           /\ requests' = Append(requests, Call("connect", "sender"))
           /\ agenda' = <<Item("connect", Len(requests) + 1, FALSE)>> \o rest
  BY <1>1, <1>4, ReconnectStep DEF EnterDisconnected
<1>5. QED
  BY <1>2, <1>3, <1>4 DEF EnterDisconnected

-----------------------------------------------------------------------------
(* Transitions.                                                            *)

\* A transition keeps types and budget.
LEMMA MoveTyped ==
  ASSUME Typed, Budget, NEW x, NEW rest, Takes(x, rest), NEW id, NEW err, NEW to,
         Leaves(x, id, err, to), Transition(to, id, err, rest)
  PROVE  /\ Typed' /\ Budget' /\ state' = to /\ Newest' = Newest
         /\ Enters(agenda', id, err, to, rest, Newest)
<1>1. Newest \in 0..MaxConns /\ Rest(rest, Newest) /\ Begins(agenda, x, rest)
  BY TurnFacts
<1>2. state' = to /\ Enters(agenda', id, err, to, rest, Newest)
  BY <1>1, Moved DEF Leaves
<1>3. Newest' = Newest
  BY DEF Leaves, Newest
<1>4. Typed'
  BY <1>2, <1>3 DEF Typed, Leaves, Enters, rhea
<1>5. conn + Connects(rest) + Connects(deferred.any) + Connects(deferred.disconnected)
        + One(to = "connecting") <= Connections
  <2>1. Connects(agenda) = One(x.do = "connect") + Connects(rest) /\ Connects(rest) \in Nat
    BY <1>1 DEF Begins, Rest, Numbers
  <2>2. conn + Connects(agenda) + Connects(deferred.any) + Connects(deferred.disconnected)
          + One(state = "connecting" /\ Entering) <= Connections
    BY DEF Budget
  <2>3. One(to = "connecting") <= One(x.do = "connect") /\ One(to = "connecting") \in Nat
        /\ One(x.do = "connect") \in Nat /\ One(state = "connecting" /\ Entering) \in Nat
    BY DEF Leaves, One
  <2>4. /\ Connects(deferred.any) \in Nat /\ Connects(deferred.disconnected) \in Nat
        /\ Connections \in Nat /\ conn \in Nat
    BY PlacesNat DEF Typed
  <2>5. QED
    BY <2>1, <2>2, <2>3, <2>4
<1>6. Entering'
  BY <1>2 DEF Entering, Enters
<1>7. Newest + One(Underway') <= conn
  <2>1. Underway' => Underway
    BY <1>2, <1>6 DEF Underway, Leaves
  <2>2. Newest + One(Underway) <= conn /\ Newest \in Nat /\ conn \in Nat
    BY <1>1 DEF Budget, Typed
  <2>3. One(Underway') <= One(Underway) /\ One(Underway') \in Nat /\ One(Underway) \in Nat
    BY <2>1 DEF One
  <2>4. QED
    BY <2>2, <2>3
<1>8. Budget'
  <2>1. One(state = "connecting" /\ Entering)' = One(to = "connecting")
    BY <1>2, <1>6 DEF One
  <2>2. Connects(agenda') = Connects(rest)
    BY <1>2 DEF Enters
  <2>3. conn' = conn /\ deferred' = deferred /\ Connections' = Connections /\ Connections <= MaxConns
    BY DEF Leaves, rhea, Connections, Budget
  <2>4. conn' + Connects(agenda') + Connects(deferred'.any) + Connects(deferred'.disconnected)
          + One(state = "connecting" /\ Entering)' <= Connections'
    BY <1>5, <2>1, <2>2, <2>3
  <2>5. Newest' + One(Underway)' <= conn'
    BY <1>3, <1>7, <2>3 DEF One
  <2>6. QED
    BY <2>3, <2>4, <2>5 DEF Budget
<1>9. QED
  BY <1>2, <1>3, <1>4, <1>8

\* A transition keeps what controls the machine.
LEMMA MoveControl ==
  ASSUME Typed, Budget, Control, NEW x, NEW rest, Takes(x, rest), NEW id, NEW err, NEW to,
         Leaves(x, id, err, to), Transition(to, id, err, rest),
         Reaches(to), Brings(x, rest, id, to)
  PROVE  Control'
<1>1. /\ state' = to /\ Enters(agenda', id, err, to, rest, Newest) /\ Newest' = Newest
      /\ to \in ConnectionStates
  BY MoveTyped DEF Leaves
<1>2. /\ Entering' /\ ~Running' /\ HeadDo(agenda') = "enter" /\ Head(agenda').id = id
      /\ agenda' # <<>>
  BY <1>1 DEF Enters, Entering, Running
<1>3. Connected' <=> to \in {"connecting_session", "connected", "disconnecting"}
  BY <1>1, <1>2 DEF Connected
<1>4. UNCHANGED <<conn, session, links, net, deferred, thrown>>
  BY DEF Leaves, rhea
<1>5. Listening'
  BY <1>3, <1>4 DEF Listening, Reaches
<1>6. Network'
  BY <1>1, <1>2, <1>4 DEF Network, Reaches, Ends
<1>7. Unlinked'
  BY <1>1, <1>2, <1>4 DEF Unlinked, Reaches, Running
<1>8. Deferrals'
  BY <1>4 DEF Control, Deferrals
<1>9. Turn'
  <2>1. LinkSteps(agenda') = 0 /\ SessionSteps(agenda') = SessionSteps(rest)
    BY <1>1 DEF Enters, Brings
  <2>2. ~Leading(agenda')
    BY <1>2, <2>1 DEF Leading
  <2>3. Tail(agenda') \in Seq(Do(Following))
    <3>1. rest \in Seq(Do(Following))
      BY Behind DEF Control
    <3>2. Replaying(to) \in Items(MaxConns) /\ Replaying(to).do = "replay"
      BY <1>1, ReplayIn, Bounds
    <3>3. Replaying(to) \in Do(Following)
      BY <3>2 DEF Do, Following
    <3>4. Tail(agenda') = <<Replaying(to)>> \o rest
      BY <1>1 DEF Enters
    <3>5. <<Replaying(to)>> \o rest \in Seq(Do(Following))
      BY <3>1, <3>3, ExtendedHeadTail
    <3>6. QED
      BY <3>4, <3>5
  <2>4. SessionSteps(agenda') > 0 => to \in {"disconnected", "connecting"}
    BY <2>1 DEF Brings
  <2>5. ~thrown'
    BY <1>4 DEF Brings
  <2>6. QED
    BY <1>1, <1>2, <2>2, <2>3, <2>4, <2>5 DEF Turn, Alone, PeerEvents
<1>10. Owners'
  BY <1>1, <1>2 DEF Owners, Brings
<1>11. Waiting'
  <2>1. LinkSteps(agenda') = 0
    BY <1>1 DEF Enters, Brings
  <2>2. QED
    BY <1>2, <2>1 DEF Waiting, Brings
<1>12. NeverOpened'
  BY <1>1, <1>2, <1>4 DEF NeverOpened, Reaches
<1>13. QED
  BY <1>5, <1>6, <1>7, <1>8, <1>9, <1>10, <1>11, <1>12 DEF Control

\* A transition keeps the invariant.
LEMMA MoveStep ==
  ASSUME Inv, NEW x, NEW rest, Takes(x, rest), NEW id, NEW err, NEW to,
         Leaves(x, id, err, to), Transition(to, id, err, rest),
         ~LateRundown /\ Control => Reaches(to) /\ Brings(x, rest, id, to) /\ Passes(x, id)
  PROVE  Inv'
<1>1. Typed /\ Budget
  BY DEF Inv
<1>2. /\ Typed' /\ Budget' /\ state' = to /\ Newest' = Newest
      /\ Enters(agenda', id, err, to, rest, Newest)
  BY <1>1, MoveTyped
<1>3. LateHasNoTimer' /\ (LateRundown' <=> LateRundown)
  BY DEF Leaves
<1>4. CASE LateRundown
  BY <1>2, <1>3, <1>4 DEF Inv
<1>5. CASE ~LateRundown
  <2>1. Control /\ Accounted
    BY <1>5 DEF Inv
  <2>2. Reaches(to) /\ Brings(x, rest, id, to) /\ Passes(x, id)
    BY <1>5, <2>1
  <2>3. Control'
    BY <1>1, <2>1, <2>2, MoveControl
  <2>4. ASSUME NEW i \in Nat \ {0} PROVE Places(i)' <= One(i \in DOMAIN requests')
    <3>1. /\ Count(agenda, Of(i)) = One(x.id = i /\ x.do \notin Steps) + Count(rest, Of(i))
          /\ Count(rest, Of(i)) \in Nat
      BY <1>1, TurnFacts DEF Begins, Rest, Numbers
    <3>2. Count(agenda', Of(i)) = One(id = i) + Count(rest, Of(i))
      BY <1>2 DEF Enters
    <3>3. /\ InDeferred(i) \in Nat /\ InCallbacks(i) \in Nat /\ InLinks(i) \in Nat
          /\ InRundowns(i) \in Nat /\ InClosure(i) \in Nat /\ Told(i) \in Nat
      BY <1>1, PlacesNat
    <3>4. InCallbacks(i)' \in Nat /\ InRundowns(i)' \in Nat
      BY <1>2, PlacesNatNext
    <3>5. /\ InDeferred(i)' = InDeferred(i) /\ InLinks(i)' = InLinks(i) /\ Told(i)' = Told(i)
          /\ requests' = requests
      BY DEF Leaves, InDeferred, InLinks, Told
    <3>6. InClosure(i)' = 0
      BY <1>2 DEF InClosure, One, Running, Entering, Enters
    <3>7. One(id = i) + InCallbacks(i)' + InRundowns(i)'
            <= One(x.id = i /\ x.do \notin Steps) + InCallbacks(i) + InRundowns(i) + InClosure(i)
      BY <2>2 DEF Passes
    <3>8. One(id = i) \in Nat /\ One(x.id = i /\ x.do \notin Steps) \in Nat
          /\ One(i \in DOMAIN requests) \in Nat
      BY DEF One
    <3>9. Places(i) <= One(i \in DOMAIN requests)
      BY <2>1 DEF Accounted
    <3>10. Places(i) = Count(agenda, Of(i)) + InDeferred(i) + InCallbacks(i) + InLinks(i)
                        + InRundowns(i) + InClosure(i) + Told(i)
      BY DEF Places
    <3>11. Places(i)' = Count(agenda', Of(i)) + InDeferred(i) + InCallbacks(i)' + InLinks(i)
                        + InRundowns(i)' + 0 + Told(i)
      BY <3>5, <3>6 DEF Places
    <3>12. Places(i)' <= One(i \in DOMAIN requests)
      BY <3>1, <3>2, <3>3, <3>4, <3>7, <3>8, <3>9, <3>10, <3>11
    <3>13. QED
      BY <3>5, <3>12
  <2>5. Accounted'
    BY <2>4 DEF Accounted
  <2>6. QED
    BY <1>2, <1>3, <2>3, <2>5 DEF Inv
<1>6. QED
  BY <1>4, <1>5

\* No rundown goes on while the machine is not disconnecting.
LEMMA Idle ==
  ASSUME Typed, Budget, Control, NEW x, NEW rest, Takes(x, rest), state # "disconnecting"
  PROVE  /\ LinkSteps(rest) = 0 /\ ~thrown
         /\ SessionSteps(rest) > 0 => state \in {"disconnected", "connecting"}
         /\ \A v \in DOMAIN rundowns :
              rundowns[v].callback >= 0 /\ ~rundowns[v].timer /\ rundowns[v].waits # "links"
         /\ \A i \in Nat \ {0} : InClosure(i) = 0
         /\ HeadDo(agenda) = x.do
<1>1. Begins(agenda, x, rest) /\ Numbers(rest)
  BY TurnFacts DEF Rest
<1>2. ~Running
  BY DEF Running
<1>3. ~Leading(agenda) /\ (SessionSteps(agenda) > 0 => state \in {"disconnected", "connecting"})
  BY <1>2 DEF Control, Turn
<1>4. LinkSteps(rest) = 0 /\ (SessionSteps(rest) > 0 => SessionSteps(agenda) > 0)
  BY <1>1, <1>3 DEF Leading, Begins, One, Numbers
<1>5. ~thrown /\ HeadDo(agenda) = x.do
  BY Behind DEF Control
<1>6. \A v \in DOMAIN rundowns :
        rundowns[v].callback >= 0 /\ ~rundowns[v].timer /\ rundowns[v].waits # "links"
  BY <1>2 DEF Control, Owners, Waiting
<1>7. \A i \in Nat \ {0} : InClosure(i) = 0
  BY <1>2 DEF InClosure, One
<1>8. QED
  BY <1>3, <1>4, <1>5, <1>6, <1>7

\* What an item that is no step of a rundown concerns.
LEMMA ItemOwner ==
  ASSUME Typed, Budget, NEW x, NEW rest, Takes(x, rest)
  PROVE  /\ x.id \in Owner /\ HeadDo(agenda) = x.do /\ Newest \in 0..MaxConns
         /\ x.do \notin Steps \cup {"enter"} => x.id >= 0 /\ -x.id <= Newest
         /\ x.do # "enter" => ~Entering
<1>1. Newest \in 0..MaxConns /\ x \in Items(Newest) /\ Begins(agenda, x, rest)
  BY TurnFacts
<1>2. x.id \in Owner /\ (x.do \notin Steps \cup {"enter"} => x.id >= 0)
  BY <1>1, ItemFields
<1>3. HeadDo(agenda) = x.do
  BY <1>1 DEF Begins
<1>4. QED
  BY <1>1, <1>2, <1>3, Bounds DEF Entering

\* A transition that passes on the call of its item, and lets the callbacks be.
LEMMA PassesItem ==
  ASSUME Typed, NEW x, x.do \notin Steps, NEW id, id = x.id \/ id = 0,
         UNCHANGED <<callbacks, rundowns>>
  PROVE  Passes(x, id)
<1>1. ASSUME NEW i \in Nat \ {0}
      PROVE  One(id = i) + InCallbacks(i)' + InRundowns(i)'
               <= One(x.id = i /\ x.do \notin Steps) + InCallbacks(i) + InRundowns(i) + InClosure(i)
  <2>1. InCallbacks(i)' = InCallbacks(i) /\ InRundowns(i)' = InRundowns(i)
    BY DEF InCallbacks, InRundowns, callbacks, Newest
  <2>2. InCallbacks(i) \in Nat /\ InRundowns(i) \in Nat /\ InClosure(i) \in Nat
    BY PlacesNat
  <2>3. One(id = i) <= One(x.id = i /\ x.do \notin Steps) /\ One(id = i) \in Nat
        /\ One(x.id = i /\ x.do \notin Steps) \in Nat
    BY DEF One
  <2>4. QED
    BY <2>1, <2>2, <2>3
<1>2. QED
  BY <1>1 DEF Passes

\* A transition that passes on one of the callbacks, and forgets it.
LEMMA PassesCallback ==
  ASSUME Typed, NEW x, NEW id, UNCHANGED rundowns,
         \/ id = connectionCallback /\ connectionCallback' = None /\ UNCHANGED sessionCallback
         \/ id = sessionCallback /\ sessionCallback' = None /\ UNCHANGED connectionCallback
  PROVE  Passes(x, id)
<1>1. ASSUME NEW i \in Nat \ {0}
      PROVE  One(id = i) + InCallbacks(i)' + InRundowns(i)'
               <= One(x.id = i /\ x.do \notin Steps) + InCallbacks(i) + InRundowns(i) + InClosure(i)
  <2>1. InRundowns(i)' = InRundowns(i)
    BY DEF InRundowns, Newest
  <2>2. One(id = i) + InCallbacks(i)' = InCallbacks(i)
    BY Bounds DEF InCallbacks, One
  <2>3. One(x.id = i /\ x.do \notin Steps) \in Nat /\ InRundowns(i) \in Nat /\ InClosure(i) \in Nat
        /\ One(id = i) \in Nat /\ InCallbacks(i)' \in Nat
    BY PlacesNat DEF One, InCallbacks
  <2>4. QED
    BY <2>1, <2>2, <2>3
<1>2. QED
  BY <1>1 DEF Passes

\* A transition that lets the rundowns be, and forgets callbacks at most.
LEMMA LeavesWith ==
  ASSUME Typed, Budget, LateHasNoTimer, Calm, NEW x,
         NEW to \in ConnectionStates, to # state, NEW err \in BOOLEAN, NEW id,
         id \in {connectionCallback, sessionCallback, 0} \/ (id \in Owner /\ -id <= Newest),
         to = "connecting" => x.do = "connect",
         to \in {"connecting_session", "connected", "disconnecting"} => Underway,
         connectionCallback' \in {connectionCallback, 0}, sessionCallback' \in {sessionCallback, 0},
         disconnectionOccurred' \in BOOLEAN, sessionCloseOccurred' \in BOOLEAN,
         connectionCloseOccurred' \in BOOLEAN, heard' \subseteq heard,
         UNCHANGED <<deferred, rhea, links, rundowns, net, requests>>
  PROVE  Leaves(x, id, err, to)
<1>1. /\ connectionCallback \in Owner /\ -connectionCallback <= Newest
      /\ sessionCallback \in Owner /\ -sessionCallback <= Newest
      /\ 0 \in Owner /\ -0 <= Newest
  <2>1. Newest \in 0..MaxConns
    BY NewestBound
  <2>2. Newest \in Nat /\ connectionCallback \in Int /\ sessionCallback \in Int
    BY <2>1, Bounds DEF Typed
  <2>3. 0 \in Owner /\ -0 <= Newest
    BY <2>2, Bounds
  <2>4. QED
    BY <2>3 DEF Typed
<1>2. heard' \in SUBSET Conns /\ rundowns' \in Seq(Rundowns(Newest)) /\ Len(rundowns') = Len(rundowns)
  BY DEF Typed
<1>3. LateHasNoTimer' /\ (LateRundown' <=> LateRundown)
  BY LateSame
<1>4. id \in Owner /\ -id <= Newest
  BY <1>1
<1>5. /\ connectionCallback' \in Owner /\ -connectionCallback' <= Newest
      /\ sessionCallback' \in Owner /\ -sessionCallback' <= Newest
  BY <1>1
<1>6. QED
  BY <1>2, <1>3, <1>4, <1>5 DEF Leaves, Calm

\* The machine begins to connect.
LEMMA ConnectStep ==
  ASSUME Inv, NEW x, NEW rest, Takes(x, rest), state = "disconnected", x.do = "connect",
         HandleDisconnected(x, rest), Calm
  PROVE  Inv'
<1>1. Typed /\ Budget /\ LateHasNoTimer
  BY DEF Inv
<1>2. /\ x.id \in Owner /\ x.id >= 0 /\ -x.id <= Newest /\ x.do \notin Steps
  BY <1>1, ItemOwner DEF Steps
<1>3. /\ Transition("connecting", x.id, FALSE, rest)
      /\ UNCHANGED <<deferred, callbacks, occurred, rhea, heard, links, rundowns, net, requests>>
  BY DEF HandleDisconnected
<1>4. Leaves(x, x.id, FALSE, "connecting")
  <2>1. "connecting" # state /\ "connecting" \in ConnectionStates
    BY <1>2 DEF ConnectionStates, Underway
  <2>2. /\ disconnectionOccurred' \in BOOLEAN /\ sessionCloseOccurred' \in BOOLEAN
        /\ connectionCloseOccurred' \in BOOLEAN
    BY <1>1, <1>3 DEF Typed, occurred
  <2>3. /\ connectionCallback' \in {connectionCallback, 0} /\ sessionCallback' \in {sessionCallback, 0}
        /\ heard' \subseteq heard
    BY <1>3, Bounds DEF callbacks
  <2>4. QED
    BY <1>1, <1>2, <1>3, <2>1, <2>2, <2>3, LeavesWith, Bounds
<1>5. ASSUME ~LateRundown, Control
      PROVE  Reaches("connecting") /\ Brings(x, rest, x.id, "connecting") /\ Passes(x, x.id)
  <2>1. Reaches("connecting")
    <3>1. heard' = {}
      BY <1>3, <1>5 DEF Control, Listening, Connected
    <3>2. \A c \in Conns : ~(net[c].up /\ net[c].sess = "opening")
      BY <1>5 DEF Control, Network
    <3>3. /\ links["sender"] = NoLink /\ links["receiver"] = NoLink
          /\ links["cbs"].phase \in {"none", "detaching", "detached"}
      BY <1>5 DEF Control, Unlinked
    <3>4. QED
      BY <3>1, <3>2, <3>3 DEF Reaches
  <2>2. Brings(x, rest, x.id, "connecting")
    BY <1>1, <1>2, <1>3, <1>5, Idle DEF Control, Owners, Brings, callbacks
  <2>3. Passes(x, x.id)
    BY <1>1, <1>2, <1>3, PassesItem
  <2>4. QED
    BY <2>1, <2>2, <2>3
<1>6. QED
  BY <1>3, <1>4, <1>5, MoveStep

\* The connection is open.
LEMMA OpenStep ==
  ASSUME Inv, NEW x, NEW rest, Takes(x, rest), state = "connecting", x.do = "connection_open",
         HandleConnecting(x, rest), Calm
  PROVE  Inv'
<1> DEFINE to == "connecting_session"
<1>1. Typed /\ Budget /\ LateHasNoTimer
  BY DEF Inv
<1>2. HeadDo(agenda) = "connection_open" /\ ~Entering /\ Newest \in 0..MaxConns
  BY <1>1, ItemOwner
<1>3. /\ Transition(to, connectionCallback, FALSE, rest) /\ connectionCallback' = None
      /\ UNCHANGED <<deferred, sessionCallback, occurred, rhea, heard, links, rundowns, net, requests>>
  BY DEF HandleConnecting
<1>4. Leaves(x, connectionCallback, FALSE, to)
  <2>1. to # state /\ to \in ConnectionStates /\ Underway
    BY <1>2 DEF ConnectionStates, Underway
  <2>2. /\ disconnectionOccurred' \in BOOLEAN /\ sessionCloseOccurred' \in BOOLEAN
        /\ connectionCloseOccurred' \in BOOLEAN
    BY <1>1, <1>3 DEF Typed, occurred
  <2>3. /\ connectionCallback' \in {connectionCallback, 0} /\ sessionCallback' \in {sessionCallback, 0}
        /\ heard' \subseteq heard
    BY <1>3, Bounds
  <2>4. QED
    BY <1>1, <1>2, <1>3, <2>1, <2>2, <2>3, LeavesWith, Bounds
<1>5. ASSUME ~LateRundown, Control
      PROVE  /\ Reaches(to) /\ Brings(x, rest, connectionCallback, to)
             /\ Passes(x, connectionCallback)
  <2>1. Reaches(to)
    <3>1. heard' = {conn}
      BY <1>2, <1>3, <1>5 DEF Control, Listening, Connected
    <3>2. /\ net[conn].up /\ net[conn].conn = "open" /\ net[conn].sess = "none"
          /\ \A c \in Conns : ~(net[c].up /\ net[c].sess = "opening")
      BY <1>2, <1>5 DEF Control, Network
    <3>3. /\ links["sender"] = NoLink /\ links["receiver"] = NoLink
          /\ links["cbs"].phase \in {"none", "detaching", "detached"}
      BY <1>5 DEF Control, Unlinked
    <3>4. QED
      BY <3>1, <3>2, <3>3 DEF Reaches
  <2>2. Brings(x, rest, connectionCallback, to)
    <3>1. rest = <<>>
      BY <1>5, Behind DEF Control, Alone, PeerEvents
    <3>2. SessionSteps(rest) = 0
      BY <3>1, NoTurn
    <3>3. QED
      BY <1>1, <1>2, <1>3, <1>5, <3>2, Idle, Bounds DEF Control, Owners, Brings, occurred
  <2>3. Passes(x, connectionCallback)
    BY <1>1, <1>3, PassesCallback
  <2>4. QED
    BY <2>1, <2>2, <2>3
<1>6. QED
  BY <1>3, <1>4, <1>5, MoveStep

\* The connection is not opened.
LEMMA NotOpenedStep ==
  ASSUME Inv, NEW x, NEW rest, Takes(x, rest), state = "connecting",
         x.do \in {"connection_close", "error", "disconnected"}, HandleConnecting(x, rest), Calm
  PROVE  Inv'
<1> DEFINE to == "disconnected"
<1>1. Typed /\ Budget /\ LateHasNoTimer
  BY DEF Inv
<1>2. HeadDo(agenda) = x.do /\ ~Entering /\ Newest \in 0..MaxConns /\ x.err \in BOOLEAN
  BY <1>1, ItemOwner, TurnFacts, ItemFields
<1>3. PICK err \in BOOLEAN :
      /\ Transition(to, connectionCallback, err, rest) /\ connectionCallback' = None
      /\ heard' = heard \ {conn} /\ connectionCloseOccurred' \in BOOLEAN
      /\ UNCHANGED <<deferred, sessionCallback, disconnectionOccurred, sessionCloseOccurred,
                     rhea, links, rundowns, net, requests>>
  BY <1>1, <1>2 DEF HandleConnecting, Typed
<1>4. Leaves(x, connectionCallback, err, to)
  <2>1. to # state /\ to \in ConnectionStates
    BY <1>2 DEF ConnectionStates, Underway
  <2>2. /\ disconnectionOccurred' \in BOOLEAN /\ sessionCloseOccurred' \in BOOLEAN
        /\ connectionCloseOccurred' \in BOOLEAN
    BY <1>1, <1>3 DEF Typed, occurred
  <2>3. /\ connectionCallback' \in {connectionCallback, 0} /\ sessionCallback' \in {sessionCallback, 0}
        /\ heard' \subseteq heard
    BY <1>3, Bounds
  <2>4. QED
    BY <1>1, <1>2, <1>3, <2>1, <2>2, <2>3, LeavesWith, Bounds
<1>5. ASSUME ~LateRundown, Control
      PROVE  /\ Reaches(to) /\ Brings(x, rest, connectionCallback, to)
             /\ Passes(x, connectionCallback)
  <2>1. Reaches(to)
    <3>1. heard' = {}
      BY <1>3, <1>5, <1>2 DEF Control, Listening, Connected
    <3>2. \A c \in Conns : ~(net[c].up /\ net[c].sess = "opening")
      BY <1>5 DEF Control, Network
    <3>3. /\ links["sender"] = NoLink /\ links["receiver"] = NoLink
          /\ links["cbs"].phase \in {"none", "detaching", "detached"}
      BY <1>5 DEF Control, Unlinked
    <3>4. QED
      BY <3>1, <3>2, <3>3 DEF Reaches
  <2>2. Brings(x, rest, connectionCallback, to)
    BY <1>1, <1>2, <1>3, <1>5, Idle, Bounds DEF Control, Owners, Brings
  <2>3. Passes(x, connectionCallback)
    BY <1>1, <1>3, PassesCallback
  <2>4. QED
    BY <2>1, <2>2, <2>3
<1>6. QED
  BY <1>3, <1>4, <1>5, MoveStep

\* The session is open.
LEMMA SessionOpenStep ==
  ASSUME Inv, NEW x, NEW rest, Takes(x, rest), state = "connecting_session",
         x.do = "session_open", HandleConnectingSession(x, rest), Calm
  PROVE  Inv'
<1> DEFINE to == "connected"
<1>1. Typed /\ Budget /\ LateHasNoTimer
  BY DEF Inv
<1>2. HeadDo(agenda) = x.do /\ ~Entering /\ Newest \in 0..MaxConns
  BY <1>1, ItemOwner
<1>3. /\ Transition(to, sessionCallback, FALSE, rest) /\ sessionCallback' = None
      /\ UNCHANGED <<deferred, connectionCallback, occurred, rhea, heard, links, rundowns, net, requests>>
  BY DEF HandleConnectingSession, occurred
<1>4. Leaves(x, sessionCallback, FALSE, to)
  <2>1. to # state /\ to \in ConnectionStates /\ Underway
    BY <1>2 DEF ConnectionStates, Underway
  <2>2. /\ disconnectionOccurred' \in BOOLEAN /\ sessionCloseOccurred' \in BOOLEAN
        /\ connectionCloseOccurred' \in BOOLEAN
    BY <1>1, <1>3 DEF Typed, occurred
  <2>3. /\ connectionCallback' \in {connectionCallback, 0} /\ sessionCallback' \in {sessionCallback, 0}
        /\ heard' \subseteq heard
    BY <1>3, Bounds
  <2>4. QED
    BY <1>1, <1>2, <1>3, <2>1, <2>2, <2>3, LeavesWith, Bounds
<1>5. ASSUME ~LateRundown, Control
      PROVE  Reaches(to) /\ Brings(x, rest, sessionCallback, to) /\ Passes(x, sessionCallback)
  <2>1. Reaches(to)
    BY <1>2, <1>3, <1>5 DEF Control, Listening, Connected, Network, Reaches, Ends
  <2>2. Brings(x, rest, sessionCallback, to)
    BY <1>1, <1>2, <1>3, <1>5, Idle, Bounds DEF Control, Owners, Brings, occurred
  <2>3. Passes(x, sessionCallback)
    BY <1>1, <1>3, PassesCallback
  <2>4. QED
    BY <2>1, <2>2, <2>3
<1>6. QED
  BY <1>3, <1>4, <1>5, MoveStep

\* The session is not opened: the machine goes on to disconnect.
LEMMA DownStep ==
  ASSUME Inv, NEW x, NEW rest, Takes(x, rest), state = "connecting_session",
         x.do \in {"session_close", "connection_close", "error"},
         HandleConnectingSession(x, rest), Calm
  PROVE  Inv'
<1> DEFINE to == "disconnecting"
<1>1. Typed /\ Budget /\ LateHasNoTimer
  BY DEF Inv
<1>2. HeadDo(agenda) = x.do /\ ~Entering /\ Newest \in 0..MaxConns /\ x.err \in BOOLEAN
  BY <1>1, ItemOwner, TurnFacts, ItemFields
<1>3. PICK err \in BOOLEAN :
      /\ Transition(to, sessionCallback, err, rest) /\ sessionCallback' = None
      /\ sessionCloseOccurred' = TRUE /\ connectionCloseOccurred' \in BOOLEAN
      /\ UNCHANGED <<deferred, connectionCallback, disconnectionOccurred, rhea, heard, links,
                     rundowns, net, requests>>
  BY <1>1, <1>2 DEF HandleConnectingSession, Typed
<1>4. Leaves(x, sessionCallback, err, to)
  <2>1. to # state /\ to \in ConnectionStates /\ Underway
    BY <1>2 DEF ConnectionStates, Underway
  <2>2. /\ disconnectionOccurred' \in BOOLEAN /\ sessionCloseOccurred' \in BOOLEAN
        /\ connectionCloseOccurred' \in BOOLEAN
    BY <1>1, <1>3 DEF Typed, occurred
  <2>3. /\ connectionCallback' \in {connectionCallback, 0} /\ sessionCallback' \in {sessionCallback, 0}
        /\ heard' \subseteq heard
    BY <1>3, Bounds
  <2>4. QED
    BY <1>1, <1>2, <1>3, <2>1, <2>2, <2>3, LeavesWith, Bounds
<1>5. ASSUME ~LateRundown, Control
      PROVE  Reaches(to) /\ Brings(x, rest, sessionCallback, to) /\ Passes(x, sessionCallback)
  <2>1. Reaches(to)
    <3>1. heard' = {conn}
      BY <1>2, <1>3, <1>5 DEF Control, Listening, Connected
    <3>2. /\ net[conn].conn # "opening" /\ session = conn
          /\ \A c \in Conns : net[c].up /\ net[c].sess = "opening" => c = conn
      BY <1>2, <1>5 DEF Control, Network
    <3>3. /\ links["sender"] = NoLink /\ links["receiver"] = NoLink
          /\ links["cbs"].phase \in {"none", "detaching", "detached"}
      BY <1>5 DEF Control, Unlinked
    <3>4. ~disconnectionOccurred' /\ sessionCloseOccurred'
      BY <1>3, <1>5 DEF Control, Owners
    <3>5. QED
      BY <3>1, <3>2, <3>3, <3>4 DEF Reaches
  <2>2. Brings(x, rest, sessionCallback, to)
    BY <1>1, <1>2, <1>3, <1>5, Idle, Bounds DEF Control, Owners, Brings
  <2>3. Passes(x, sessionCallback)
    BY <1>1, <1>3, PassesCallback
  <2>4. QED
    BY <2>1, <2>2, <2>3
<1>6. QED
  BY <1>3, <1>4, <1>5, MoveStep

\* The connection is lost before there is a session.
LEMMA SessionLostStep ==
  ASSUME Inv, NEW x, NEW rest, Takes(x, rest), state = "connecting_session",
         x.do = "disconnected", HandleConnectingSession(x, rest), Calm
  PROVE  Inv'
<1> DEFINE to == "disconnected"
<1>1. Typed /\ Budget /\ LateHasNoTimer
  BY DEF Inv
<1>2. HeadDo(agenda) = x.do /\ ~Entering /\ Newest \in 0..MaxConns
  BY <1>1, ItemOwner
<1>3. /\ Transition(to, sessionCallback, TRUE, rest) /\ sessionCallback' = None
      /\ heard' = heard \ {conn}
      /\ UNCHANGED <<deferred, connectionCallback, occurred, rhea, links, rundowns, net, requests>>
  BY DEF HandleConnectingSession, occurred
<1>4. Leaves(x, sessionCallback, TRUE, to)
  <2>1. to # state /\ to \in ConnectionStates
    BY <1>2 DEF ConnectionStates, Underway
  <2>2. /\ disconnectionOccurred' \in BOOLEAN /\ sessionCloseOccurred' \in BOOLEAN
        /\ connectionCloseOccurred' \in BOOLEAN
    BY <1>1, <1>3 DEF Typed, occurred
  <2>3. /\ connectionCallback' \in {connectionCallback, 0} /\ sessionCallback' \in {sessionCallback, 0}
        /\ heard' \subseteq heard
    BY <1>3, Bounds
  <2>4. QED
    BY <1>1, <1>2, <1>3, <2>1, <2>2, <2>3, LeavesWith, Bounds
<1>5. ASSUME ~LateRundown, Control
      PROVE  Reaches(to) /\ Brings(x, rest, sessionCallback, to) /\ Passes(x, sessionCallback)
  <2>1. Reaches(to)
    <3>1. heard' = {}
      BY <1>3, <1>5, <1>2 DEF Control, Listening, Connected
    <3>2. \A c \in Conns : ~(net[c].up /\ net[c].sess = "opening")
      BY <1>2, <1>5 DEF Control, Network
    <3>3. /\ links["sender"] = NoLink /\ links["receiver"] = NoLink
          /\ links["cbs"].phase \in {"none", "detaching", "detached"}
      BY <1>5 DEF Control, Unlinked
    <3>4. QED
      BY <3>1, <3>2, <3>3 DEF Reaches
  <2>2. Brings(x, rest, sessionCallback, to)
    BY <1>1, <1>2, <1>3, <1>5, Idle, Bounds DEF Control, Owners, Brings
  <2>3. Passes(x, sessionCallback)
    BY <1>1, <1>3, PassesCallback
  <2>4. QED
    BY <2>1, <2>2, <2>3
<1>6. QED
  BY <1>3, <1>4, <1>5, MoveStep

\* An error of a link is heard before there is a session: only once a rundown
\* has come back late.
LEMMA EarlyErrorStep ==
  ASSUME Inv, NEW x, NEW rest, Takes(x, rest), state = "connecting_session",
         x.do = "amqpError", HandleConnectingSession(x, rest), Calm
  PROVE  Inv'
<1> DEFINE to == "disconnecting"
<1>1. Typed /\ Budget /\ LateHasNoTimer
  BY DEF Inv
<1>2. HeadDo(agenda) = x.do /\ ~Entering /\ Newest \in 0..MaxConns
  BY <1>1, ItemOwner
<1>3. /\ Transition(to, None, TRUE, rest)
      /\ UNCHANGED <<deferred, callbacks, occurred, rhea, heard, links, rundowns, net, requests>>
  BY DEF HandleConnectingSession, occurred, callbacks
<1>4. Leaves(x, None, TRUE, to)
  <2>1. to # state /\ to \in ConnectionStates /\ Underway
    BY <1>2 DEF ConnectionStates, Underway
  <2>2. /\ disconnectionOccurred' \in BOOLEAN /\ sessionCloseOccurred' \in BOOLEAN
        /\ connectionCloseOccurred' \in BOOLEAN
    BY <1>1, <1>3 DEF Typed, occurred
  <2>3. /\ connectionCallback' \in {connectionCallback, 0} /\ sessionCallback' \in {sessionCallback, 0}
        /\ heard' \subseteq heard
    BY <1>3, Bounds DEF callbacks
  <2>4. QED
    BY <1>1, <1>2, <1>3, <2>1, <2>2, <2>3, LeavesWith, Bounds
<1>5. ~(~LateRundown /\ Control)
  BY <1>2 DEF Control, Turn
<1>6. QED
  BY <1>3, <1>4, <1>5, MoveStep

\* A connected machine goes on to disconnect.
LEMMA LeaveStep ==
  ASSUME Inv, NEW x, NEW rest, Takes(x, rest), state = "connected",
         x.do \in {"session_close", "connection_close", "disconnected", "error", "amqpError",
                   "disconnect"},
         HandleConnected(x, rest), Calm
  PROVE  Inv'
<1> DEFINE to == "disconnecting"
<1>1. Typed /\ Budget /\ LateHasNoTimer
  BY DEF Inv
<1>2. HeadDo(agenda) = x.do /\ ~Entering /\ Newest \in 0..MaxConns /\ x.err \in BOOLEAN
      /\ x.id \in Owner /\ x.id >= 0 /\ -x.id <= Newest /\ x.do \notin Steps
  BY <1>1, ItemOwner, TurnFacts, ItemFields DEF Steps
<1>3. PICK err \in BOOLEAN, id \in {0, x.id} :
      /\ Transition(to, id, err, rest)
      /\ disconnectionOccurred' \in BOOLEAN /\ sessionCloseOccurred' \in BOOLEAN
      /\ connectionCloseOccurred' \in BOOLEAN
      /\ UNCHANGED <<deferred, callbacks, rhea, heard, links, rundowns, net, requests>>
  <2>1. \E err \in BOOLEAN, id \in {0, x.id} : LeaveConnected(id, err, rest)
    <3>1. None = 0
      BY Bounds
    <3>2. CASE x.do \in {"session_close", "connection_close"}
      <4>1. LeaveConnected(None, x.err, rest)
        BY <3>2 DEF HandleConnected
      <4>2. QED
        BY <1>2, <3>1, <4>1
    <3>3. CASE x.do \in {"disconnected", "error", "amqpError"}
      <4>1. LeaveConnected(None, TRUE, rest)
        BY <3>3 DEF HandleConnected
      <4>2. QED
        BY <3>1, <4>1
    <3>4. CASE x.do = "disconnect"
      <4>1. LeaveConnected(x.id, FALSE, rest)
        BY <3>4 DEF HandleConnected
      <4>2. QED
        BY <4>1
    <3>5. QED
      BY <3>2, <3>3, <3>4
  <2>2. /\ disconnectionOccurred' \in BOOLEAN /\ sessionCloseOccurred' \in BOOLEAN
        /\ connectionCloseOccurred' \in BOOLEAN
    <3>1. /\ disconnectionOccurred' \in {TRUE, disconnectionOccurred}
          /\ sessionCloseOccurred' \in {TRUE, sessionCloseOccurred}
          /\ connectionCloseOccurred' \in {TRUE, connectionCloseOccurred}
      BY DEF HandleConnected, occurred
    <3>2. QED
      BY <1>1, <3>1 DEF Typed
  <2>3. QED
    BY <2>1, <2>2 DEF LeaveConnected
<1>4. Leaves(x, id, err, to)
  <2>1. to # state /\ to \in ConnectionStates /\ Underway
    BY <1>2 DEF ConnectionStates, Underway
  <2>2. /\ disconnectionOccurred' \in BOOLEAN /\ sessionCloseOccurred' \in BOOLEAN
        /\ connectionCloseOccurred' \in BOOLEAN
    BY <1>1, <1>3 DEF Typed, occurred
  <2>3. /\ connectionCallback' \in {connectionCallback, 0} /\ sessionCallback' \in {sessionCallback, 0}
        /\ heard' \subseteq heard
    BY <1>3, Bounds DEF callbacks
  <2>4. QED
    BY <1>1, <1>2, <1>3, <2>1, <2>2, <2>3, LeavesWith, Bounds
<1>5. ASSUME ~LateRundown, Control
      PROVE  Reaches(to) /\ Brings(x, rest, id, to) /\ Passes(x, id)
  <2>0. conn \in Conns
    <3>1. Newest + One(Underway) <= conn /\ One(Underway) = 1 /\ conn \in 0..MaxConns
      BY <1>1 DEF Budget, Underway, One, Typed
    <3>2. QED
      BY <1>2, <3>1, Bounds
  <2>1. Reaches(to)
    BY <1>2, <1>3, <1>5, <2>0 DEF Control, Listening, Connected, Network, Reaches
  <2>2. Brings(x, rest, id, to)
    BY <1>1, <1>2, <1>3, <1>5, Idle, Bounds DEF Control, Owners, Brings, callbacks
  <2>3. Passes(x, id)
    BY <1>1, <1>2, <1>3, PassesItem
  <2>4. QED
    BY <2>1, <2>2, <2>3
<1>6. QED
  BY <1>3, <1>4, <1>5, MoveStep

-----------------------------------------------------------------------------
(* The handlers of the states in which no rundown goes on.                 *)

\* What only a state of its own hears, as long as no rundown has come back.
LEMMA HeardWhere ==
  ASSUME Typed, Budget, Control, NEW x, NEW rest, Takes(x, rest)
  PROVE  /\ x.do = "connection_open" => state = "connecting"
         /\ x.do = "session_open" => state = "connecting_session"
         /\ x.do = "amqpError" => state = "connected"
BY ItemOwner DEF Control, Turn

\* A machine that is disconnected handles an input.
LEMMA HandleDisconnectedStep ==
  ASSUME Inv, NEW x, NEW rest, Takes(x, rest), x.do \in OwnerMethods \cup PeerEvents,
         state = "disconnected", HandleDisconnected(x, rest), Calm
  PROVE  Inv'
<1>1. QuietItem(x)
  BY DEF QuietItem, Steps, OwnerMethods, PeerEvents
<1>2. CASE x.do = "connect"
  BY <1>2, ConnectStep
<1>3. CASE x.do \in {"disconnect", "detach"}
  BY <1>1, <1>3, AnswerStep DEF HandleDisconnected
<1>4. CASE x.do \in {"attach", "initializeCBS", "putToken"}
  BY <1>1, <1>4, AnswerStep DEF HandleDisconnected
<1>5. CASE x.do = "send"
  BY <1>1, <1>5, AnswerStep DEF HandleDisconnected
<1>6. CASE x.do \in PeerEvents
  <2>1. Ignore(rest)
    BY <1>6 DEF HandleDisconnected, PeerEvents
  <2>2. QED
    BY <1>1, <2>1, IgnoreStep
<1>7. QED
  BY <1>2, <1>3, <1>4, <1>5, <1>6 DEF OwnerMethods

\* A machine that is connecting handles an input.
LEMMA HandleConnectingStep ==
  ASSUME Inv, NEW x, NEW rest, Takes(x, rest), x.do \in OwnerMethods \cup PeerEvents,
         state = "connecting", HandleConnecting(x, rest), Calm
  PROVE  Inv'
<1>1. CASE x.do = "connection_open"
  BY <1>1, OpenStep
<1>2. CASE x.do \in {"connection_close", "error", "disconnected"}
  BY <1>2, NotOpenedStep
<1>3. CASE x.do \in OwnerMethods \cup {"session_open", "session_close", "amqpError"}
  <2>1. QuietItem(x)
    BY <1>3 DEF QuietItem, Steps, OwnerMethods
  <2>2. Defer(x, "any", rest)
    BY <1>3 DEF HandleConnecting, OwnerMethods
  <2>3. ~LateRundown => Waits("any", x)
    <3>1. SUFFICES ASSUME ~LateRundown PROVE Waits("any", x)
      OBVIOUS
    <3>2. Typed /\ Budget /\ Control
      BY <3>1 DEF Inv
    <3>3. x.do \notin {"session_open", "amqpError"}
      BY <3>2, HeardWhere
    <3>4. QED
      BY <1>3, <3>3 DEF Waits
  <2>4. QED
    BY <2>1, <2>2, <2>3, DeferStep
<1>4. QED
  BY <1>1, <1>2, <1>3 DEF PeerEvents

\* A machine that is connecting its session handles an input.
LEMMA HandleConnectingSessionStep ==
  ASSUME Inv, NEW x, NEW rest, Takes(x, rest), x.do \in OwnerMethods \cup PeerEvents,
         state = "connecting_session", HandleConnectingSession(x, rest), Calm
  PROVE  Inv'
<1>1. CASE x.do = "session_open"
  BY <1>1, SessionOpenStep
<1>2. CASE x.do \in {"session_close", "connection_close", "error"}
  BY <1>2, DownStep
<1>3. CASE x.do = "disconnected"
  BY <1>3, SessionLostStep
<1>4. CASE x.do = "amqpError"
  BY <1>4, EarlyErrorStep
<1>5. CASE x.do \in OwnerMethods \cup {"connection_open"}
  <2>1. QuietItem(x)
    BY <1>5 DEF QuietItem, Steps, OwnerMethods, Ends
  <2>2. Defer(x, "any", rest)
    BY <1>5 DEF HandleConnectingSession, OwnerMethods
  <2>3. ~LateRundown => Waits("any", x)
    <3>1. SUFFICES ASSUME ~LateRundown PROVE Waits("any", x)
      OBVIOUS
    <3>2. Typed /\ Budget /\ Control
      BY <3>1 DEF Inv
    <3>3. x.do # "connection_open"
      BY <3>2, HeardWhere
    <3>4. QED
      BY <1>5, <3>3 DEF Waits
  <2>4. QED
    BY <2>1, <2>2, <2>3, DeferStep
<1>6. QED
  BY <1>1, <1>2, <1>3, <1>4, <1>5 DEF PeerEvents

\* A connected machine handles an input.
LEMMA HandleConnectedStep ==
  ASSUME Inv, NEW x, NEW rest, Takes(x, rest), x.do \in OwnerMethods \cup PeerEvents,
         state = "connected", HandleConnected(x, rest), Calm
  PROVE  Inv'
<1>1. CASE x.do \in {"session_close", "connection_close", "disconnected", "error", "amqpError",
                     "disconnect"}
  BY <1>1, LeaveStep
<1>2. CASE x.do \in (OwnerMethods \ {"disconnect"}) \cup {"connection_open", "session_open"}
  <2>1. QuietItem(x)
    BY <1>2 DEF QuietItem, Steps, OwnerMethods, Ends
  <2>2. x.do \in {"attach", "detach", "send"} => x.to \in Kinds
    <3>1. Typed /\ Budget
      BY DEF Inv
    <3>2. Newest \in 0..MaxConns /\ x \in Items(Newest)
      BY <3>1, TurnFacts
    <3>3. QED
      BY <3>2, ItemFields DEF TwoLinks, Kinds
  <2>3. CASE x.do \in {"connection_open", "session_open"}
    <3>1. Ignore(rest)
      BY <2>3 DEF HandleConnected
    <3>2. QED
      BY <2>1, <3>1, IgnoreStep
  <2>4. CASE x.do = "connect"
    BY <2>1, <2>4, AnswerStep DEF HandleConnected
  <2>5. CASE x.do = "initializeCBS"
    <3>1. AttachLink("cbs", x.id, rest)
      BY <2>5 DEF HandleConnected
    <3>2. QED
      BY <2>1, <2>5, <3>1, AttachStep DEF OwnerMethods, Kinds
  <2>6. CASE x.do = "putToken"
    <3>1. \/ AttachLink("cbs", x.id, rest)
          \/ AnswerNow(x.id, "ok", rest)
      BY <2>6 DEF HandleConnected
    <3>2. CASE AttachLink("cbs", x.id, rest)
      BY <2>1, <2>6, <3>2, AttachStep DEF OwnerMethods, Kinds
    <3>3. CASE AnswerNow(x.id, "ok", rest)
      BY <2>1, <3>3, AnswerStep
    <3>4. QED
      BY <3>1, <3>2, <3>3
  <2>7. CASE x.do = "attach"
    <3>1. AttachLink(x.to, x.id, rest)
      BY <2>7 DEF HandleConnected
    <3>2. QED
      BY <2>1, <2>2, <2>7, <3>1, AttachStep DEF OwnerMethods
  <2>8. CASE x.do = "send"
    <3>1. \/ AttachLink(x.to, x.id, rest)
          \/ AnswerNow(x.id, "ok", rest)
      BY <2>8 DEF HandleConnected
    <3>2. CASE AttachLink(x.to, x.id, rest)
      BY <2>1, <2>2, <2>8, <3>2, AttachStep DEF OwnerMethods
    <3>3. CASE AnswerNow(x.id, "ok", rest)
      BY <2>1, <3>3, AnswerStep
    <3>4. QED
      BY <3>1, <3>2, <3>3
  <2>9. CASE x.do = "detach"
    <3>1. DetachLink(x.to, x.id, rest)
      BY <2>9 DEF HandleConnected
    <3>2. QED
      BY <2>1, <2>2, <2>9, <3>1, DetachStep DEF OwnerMethods
  <2>10. QED
    BY <1>2, <2>3, <2>4, <2>5, <2>6, <2>7, <2>8, <2>9 DEF OwnerMethods
<1>3. QED
  BY <1>1, <1>2 DEF PeerEvents

-----------------------------------------------------------------------------
(* Entering connecting and connecting_session.                             *)

\* Such a step makes no callback.
LEMMA CarryStep ==
  ASSUME Typed, Typed', Budget, Newest' \in 0..MaxConns, Accounted, NEW x, NEW rest, Takes(x, rest),
         NEW new, GoesOn(new, rest), UNCHANGED deferred, DOMAIN requests' = DOMAIN requests,
         Carries(x, new)
  PROVE  Accounted'
<1>1. /\ Begins(agenda, x, rest) /\ Numbers(rest) /\ Sums(agenda', new, rest) /\ Numbers(new)
  <2>1. Begins(agenda, x, rest) /\ Numbers(rest)
    BY TurnFacts DEF Rest
  <2>2. Numbers(new)
    BY TurnNumbers DEF GoesOn
  <2>3. Sums(agenda', new, rest)
    BY Joined DEF GoesOn
  <2>4. QED
    BY <2>1, <2>2, <2>3
<1>2. ASSUME NEW i \in Nat \ {0} PROVE Places(i)' <= One(i \in DOMAIN requests')
  <2>1. /\ Count(agenda, Of(i)) = One(x.id = i /\ x.do \notin Steps) + Count(rest, Of(i))
        /\ Count(agenda', Of(i)) = Count(new, Of(i)) + Count(rest, Of(i))
        /\ Count(rest, Of(i)) \in Nat /\ Count(new, Of(i)) \in Nat
    BY <1>1 DEF Begins, Sums, Numbers
  <2>2. /\ InDeferred(i) \in Nat /\ InCallbacks(i) \in Nat /\ InLinks(i) \in Nat
        /\ InRundowns(i) \in Nat /\ InClosure(i) \in Nat /\ Told(i) \in Nat
    BY PlacesNat
  <2>3. /\ InCallbacks(i)' \in Nat /\ InLinks(i)' \in Nat /\ InRundowns(i)' \in Nat
        /\ InClosure(i)' \in Nat /\ Told(i)' \in Nat
    BY PlacesNatNext
  <2>4. InDeferred(i)' = InDeferred(i)
    BY DEF InDeferred
  <2>5. Count(new, Of(i)) + InCallbacks(i)' + InLinks(i)' + InRundowns(i)' + InClosure(i)' + Told(i)'
          <= One(x.id = i /\ x.do \notin Steps) + InCallbacks(i) + InLinks(i) + InRundowns(i)
               + InClosure(i) + Told(i)
    BY DEF Carries
  <2>6. Places(i) <= One(i \in DOMAIN requests) /\ One(i \in DOMAIN requests) \in Nat
        /\ One(x.id = i /\ x.do \notin Steps) \in Nat
    BY DEF Accounted, One
  <2>7. Places(i) = Count(agenda, Of(i)) + InDeferred(i) + InCallbacks(i) + InLinks(i)
                      + InRundowns(i) + InClosure(i) + Told(i)
    BY DEF Places
  <2>8. Places(i)' = Count(agenda', Of(i)) + InDeferred(i) + InCallbacks(i)' + InLinks(i)'
                      + InRundowns(i)' + InClosure(i)' + Told(i)'
    BY <2>4 DEF Places
  <2>9. Places(i)' <= One(i \in DOMAIN requests)
    BY <2>1, <2>2, <2>3, <2>5, <2>6, <2>7, <2>8
  <2>10. QED
    BY <2>9
<1>3. QED
  BY <1>2 DEF Accounted

\* The turn goes on with what follows: nothing is counted before that.
LEMMA GoesOnNone ==
  ASSUME Typed, Budget, NEW x, NEW rest, Takes(x, rest), agenda' = rest, Newest' = Newest
  PROVE  /\ GoesOn(<<>>, rest) /\ Rest(agenda', Newest) /\ Begins(agenda, x, rest)
         /\ \A i : Count(<<>>, Of(i)) = 0
<1>1. Newest \in 0..MaxConns /\ Rest(rest, Newest) /\ Begins(agenda, x, rest)
  BY TurnFacts
<1>2. <<>> \o rest = rest /\ <<>> \in Seq(Items(Newest))
  BY <1>1, ConcatEmptySeq DEF Rest
<1>3. \A i : Count(<<>>, Of(i)) = 0
  BY NoTurn
<1>4. QED
  BY <1>1, <1>2, <1>3 DEF GoesOn, Rest

\* The rest of a turn in which no rundown goes on is a turn.
LEMMA TurnOn ==
  ASSUME Typed, Budget, Control, NEW x, NEW rest, Takes(x, rest), agenda' = rest,
         state # "disconnecting", UNCHANGED <<state, thrown>>
  PROVE  /\ Turn' /\ ~Entering' /\ ~Running' /\ LinkSteps(agenda') = 0
         /\ HeadDo(agenda') \in Following \cup {"-"} /\ ~thrown
         /\ \A v \in DOMAIN rundowns :
              rundowns[v].callback >= 0 /\ ~rundowns[v].timer /\ rundowns[v].waits # "links"
<1>1. /\ HeadDo(rest) \in Following \cup {"-"} /\ ~thrown
      /\ rest # <<>> => Tail(rest) \in Seq(Do(Following))
  BY Behind DEF Control
<1>2. /\ LinkSteps(rest) = 0
      /\ SessionSteps(rest) > 0 => state \in {"disconnected", "connecting"}
      /\ \A v \in DOMAIN rundowns :
           rundowns[v].callback >= 0 /\ ~rundowns[v].timer /\ rundowns[v].waits # "links"
  BY Idle
<1>3. HeadDo(rest) \notin Alone \cup {"cbs", "force", "connection", "finish", "enter"}
  BY <1>1 DEF Following, Alone, PeerEvents, OwnerMethods, Tellings
<1>4. ~Entering' /\ ~Running' /\ ~Leading(agenda')
  BY <1>2, <1>3 DEF Entering, Running, Leading
<1>5. Turn'
  BY <1>1, <1>2, <1>3, <1>4 DEF Turn, Alone, PeerEvents
<1>6. QED
  BY <1>1, <1>2, <1>4, <1>5

\* The machine enters connecting.
LEMMA EnterConnectingStep ==
  ASSUME Inv, NEW x, NEW rest, Takes(x, rest), x.do = "enter", state = "connecting",
         EnterConnecting(x.id, rest), Calm
  PROVE  Inv'
<1>1. Typed /\ Budget /\ LateHasNoTimer
  BY DEF Inv
<1>2. /\ Newest \in 0..MaxConns /\ x \in Items(Newest) /\ Begins(agenda, x, rest)
      /\ HeadDo(agenda) = "enter" /\ Entering /\ Rest(rest, Newest)
  BY <1>1, TurnFacts DEF Begins, Entering
<1>3. x.id \in Owner /\ -x.id <= Newest
  BY <1>2, ItemFields
<1>4. Newest' = Newest /\ agenda' = rest /\ UNCHANGED <<state, deferred, requests, rundowns, links>>
  BY DEF EnterConnecting, Newest
<1>5. /\ GoesOn(<<>>, rest) /\ Rest(agenda', Newest)
      /\ \A i : Count(<<>>, Of(i)) = 0
  BY <1>1, <1>4, GoesOnNone
<1>6. conn + 1 + Connects(agenda') + Connects(deferred.any) + Connects(deferred.disconnected)
        <= Connections
  <2>1. Connects(agenda) = Connects(rest) /\ Connects(rest) \in Nat
    BY <1>2 DEF Begins, One, Rest, Numbers
  <2>2. One(state = "connecting" /\ Entering) = 1
    BY <1>2 DEF One
  <2>3. /\ Connects(deferred.any) \in Nat /\ Connects(deferred.disconnected) \in Nat
        /\ Connections \in Nat /\ conn \in Nat
    BY <1>1, PlacesNat DEF Typed
  <2>4. QED
    BY <1>1, <1>4, <2>1, <2>2, <2>3 DEF Budget
<1>7. conn + 1 \in 1..MaxConns /\ conn \in Nat /\ session \in 0..conn
  <2>1. /\ Connects(deferred.any) \in Nat /\ Connects(deferred.disconnected) \in Nat
        /\ Connections \in Nat /\ conn \in Nat /\ Connects(agenda') \in Nat
        /\ Connections <= MaxConns /\ session \in 0..conn
    BY <1>1, <1>5, PlacesNat DEF Typed, Budget, Rest, Numbers
  <2>2. QED
    BY <1>6, <2>1, Bounds
<1> DEFINE nc == [up |-> TRUE, conn |-> "opening", sess |-> "none"]
<1>8. /\ conn' = conn + 1 /\ session' = session /\ heard' = heard \cup {conn + 1}
      /\ net' = [net EXCEPT ![conn + 1] = nc] /\ nc \in Nets
      /\ connectionCallback' = x.id /\ sessionCallback' = sessionCallback
      /\ disconnectionOccurred' = FALSE /\ sessionCloseOccurred' = FALSE
      /\ connectionCloseOccurred' = FALSE
  BY DEF EnterConnecting, Nets, Stages
<1>9. /\ net' \in [Conns -> Nets] /\ net'[conn + 1] = nc
      /\ \A c \in Conns : c # conn + 1 => net'[c] = net[c]
  BY <1>1, <1>7, <1>8 DEF Typed, Conns
<1>10. ~Entering'
  BY <1>5, <1>4 DEF Entering, Rest
<1>11. Typed'
  <2>1. conn' \in 0..MaxConns /\ session' \in 0..conn' /\ heard' \in SUBSET Conns
    BY <1>1, <1>7, <1>8 DEF Typed, Conns
  <2>2. agenda' \in Turns(Newest')
    BY <1>4, <1>5 DEF Rest
  <2>3. QED
    BY <1>1, <1>3, <1>4, <1>8, <1>9, <2>1, <2>2 DEF Typed, Calm
<1>12. Budget'
  <2>1. One(state = "connecting" /\ Entering)' = 0
    BY <1>10 DEF One
  <2>2. One(Underway)' <= 1 /\ One(Underway)' \in Nat
    BY DEF One
  <2>3. Newest + One(Underway) <= conn /\ Connections <= MaxConns /\ One(Underway) \in Nat
    BY <1>1 DEF Budget, One
  <2>4. Connections' = Connections
    BY <1>4 DEF Connections
  <2>5. Newest' + One(Underway)' <= conn'
    BY <1>2, <1>4, <1>7, <1>8, <2>2, <2>3
  <2>6. conn' + Connects(agenda') + Connects(deferred'.any) + Connects(deferred'.disconnected)
          + One(state = "connecting" /\ Entering)' <= Connections'
    <3>1. /\ Connects(deferred.any) \in Nat /\ Connects(deferred.disconnected) \in Nat
          /\ Connects(agenda') \in Nat
      BY <1>1, <1>5, PlacesNat DEF Rest, Numbers
    <3>2. QED
      BY <1>4, <1>6, <1>7, <1>8, <2>1, <2>4, <3>1
  <2>7. QED
    BY <2>3, <2>4, <2>5, <2>6 DEF Budget
<1>13. LateHasNoTimer' /\ (LateRundown' <=> LateRundown)
  BY <1>1, <1>4, LateSame
<1>14. ASSUME ~LateRundown PROVE Control' /\ Accounted'
  <2>1. Control /\ Accounted
    BY <1>14 DEF Inv
  <2>2. /\ Turn' /\ ~Running' /\ LinkSteps(agenda') = 0
        /\ HeadDo(agenda') \in Following \cup {"-"} /\ ~thrown
        /\ \A v \in DOMAIN rundowns :
              rundowns[v].callback >= 0 /\ ~rundowns[v].timer /\ rundowns[v].waits # "links"
    BY <1>1, <1>4, <2>1, TurnOn DEF Calm
  <2>3. HeadDo(agenda') \notin PeerEvents \ {"session_close"} /\ HeadDo(agenda') # "cbs"
    BY <2>2 DEF Following, PeerEvents, OwnerMethods, Tellings
  <2>4. Listening'
    <3>1. heard = {}
      BY <1>2, <2>1 DEF Control, Listening, Connected
    <3>2. QED
      BY <1>4, <1>8, <1>10, <3>1 DEF Listening, Connected
  <2>5. Network'
    <3>1. \A c \in Conns : ~(net'[c].up /\ net'[c].sess = "opening")
      <4>1. \A c \in Conns : ~(net[c].up /\ net[c].sess = "opening")
        BY <2>1 DEF Control, Network
      <4>2. QED
        BY <1>9, <4>1
    <3>2. net'[conn'].sess = "none" /\ session' < conn'
          /\ net'[conn'].up /\ net'[conn'].conn = "opening"
      BY <1>7, <1>8, <1>9
    <3>3. state' = "connecting" /\ HeadDo(agenda') \notin {"connection_open", "connection_close", "disconnected"}
      BY <1>4, <2>3 DEF PeerEvents
    <3>4. QED
      BY <1>10, <3>1, <3>2, <3>3 DEF Network
  <2>6. Unlinked'
    BY <1>4, <2>1, <2>2 DEF Control, Unlinked
  <2>7. Deferrals'
    BY <1>4, <2>1 DEF Control, Deferrals
  <2>8. Owners'
    <3>1. x.id >= 0 /\ sessionCallback <= 0
      BY <1>2, <2>1 DEF Control, Owners, Takes
    <3>2. QED
      BY <1>4, <1>8, <1>10, <2>2, <3>1 DEF Owners, Running
  <2>9. Waiting'
    BY <1>4, <2>2, <2>3 DEF Waiting
  <2>10. NeverOpened'
    BY <1>4 DEF NeverOpened
  <2>11. Control'
    BY <2>2, <2>4, <2>5, <2>6, <2>7, <2>8, <2>9, <2>10 DEF Control
  <2>12. ASSUME NEW i \in Nat \ {0}
         PROVE  Count(<<>>, Of(i)) + InCallbacks(i)' + InLinks(i)' + InRundowns(i)' + InClosure(i)'
                    + Told(i)'
                  <= One(x.id = i /\ x.do \notin Steps) + InCallbacks(i) + InLinks(i) + InRundowns(i)
                       + InClosure(i) + Told(i)
    <3>1. InLinks(i)' = InLinks(i) /\ InRundowns(i)' = InRundowns(i) /\ Told(i)' = Told(i)
          /\ InClosure(i)' = 0
      BY <1>4, <2>2 DEF InLinks, InRundowns, Told, InClosure, One
    <3>2. InCallbacks(i)' <= One(x.id = i /\ x.do \notin Steps) + InCallbacks(i)
      BY <1>8 DEF InCallbacks, One, Steps
    <3>3. /\ InLinks(i) \in Nat /\ InRundowns(i) \in Nat /\ Told(i) \in Nat /\ InClosure(i) \in Nat
          /\ InCallbacks(i) \in Nat
      BY <1>1, PlacesNat
    <3>4. InCallbacks(i)' \in Nat /\ One(x.id = i /\ x.do \notin Steps) \in Nat
          /\ Count(<<>>, Of(i)) = 0
      BY <1>5 DEF One, InCallbacks
    <3>5. QED
      BY <3>1, <3>2, <3>3, <3>4
  <2>13. Accounted'
    <3>1. Carries(x, <<>>)
      BY <2>12 DEF Carries
    <3>2. QED
      BY <1>1, <1>2, <1>4, <1>5, <1>11, <2>1, <3>1, CarryStep
  <2>14. QED
    BY <2>11, <2>13
<1>15. QED
  BY <1>11, <1>12, <1>13, <1>14 DEF Inv

\* While a connection is under way there is one.
LEMMA UnderwayConn ==
  ASSUME Typed, Budget, Underway
  PROVE  conn \in Conns /\ Newest + 1 <= conn /\ Newest + 1 \in 1..MaxConns
<1>1. Newest + One(Underway) <= conn /\ One(Underway) = 1 /\ conn \in 0..MaxConns
  BY DEF Budget, One, Typed
<1>2. Newest \in 0..MaxConns
  BY NewestBound
<1>3. Newest + 1 <= conn /\ Newest \in Nat /\ conn \in Nat /\ conn <= MaxConns
  <2>1. MaxConns \in Nat
    BY Bounds
  <2>2. Newest \in Nat /\ conn \in Nat /\ conn <= MaxConns
    BY <1>1, <1>2, <2>1
  <2>3. Newest + 1 <= conn
    BY <1>1
  <2>4. QED
    BY <2>2, <2>3
<1>4. conn \in Conns /\ Newest + 1 \in Nat /\ Newest + 1 <= MaxConns /\ 1 <= Newest + 1
  BY <1>3, Bounds
<1>5. QED
  BY <1>3, <1>4, Bounds

\* What is left of the budget when a turn goes on, and no connection is begun.
LEMMA BudgetOn ==
  ASSUME Typed, Budget, NEW x, NEW rest, Takes(x, rest), Connects(agenda') = Connects(rest),
         UNCHANGED <<conn, deferred>>, Connections' = Connections, ~Entering',
         Newest' + One(Underway)' <= conn
  PROVE  Budget'
<1>1. Connects(agenda) = One(x.do = "connect") + Connects(rest) /\ Connects(rest) \in Nat
      /\ One(x.do = "connect") \in Nat
  BY TurnFacts DEF Begins, One, Rest, Numbers
<1>2. One(state = "connecting" /\ Entering) \in Nat /\ One(state = "connecting" /\ Entering)' = 0
  BY DEF One
<1>3. /\ Connects(deferred.any) \in Nat /\ Connects(deferred.disconnected) \in Nat
      /\ Connections \in Nat /\ conn \in Nat
  BY PlacesNat DEF Typed
<1>4. conn + Connects(agenda) + Connects(deferred.any) + Connects(deferred.disconnected)
        + One(state = "connecting" /\ Entering) <= Connections /\ Connections <= MaxConns
  BY DEF Budget
<1>5. Connections' = Connections
  OBVIOUS
<1>6. conn' + Connects(agenda') + Connects(deferred'.any) + Connects(deferred'.disconnected)
        + One(state = "connecting" /\ Entering)' <= Connections'
  BY <1>1, <1>2, <1>3, <1>4, <1>5
<1>7. QED
  BY <1>4, <1>5, <1>6 DEF Budget

\* The machine enters connecting_session.
LEMMA EnterConnectingSessionStep ==
  ASSUME Inv, NEW x, NEW rest, Takes(x, rest), x.do = "enter", state = "connecting_session",
         EnterConnectingSession(x.id, rest), Calm
  PROVE  Inv'
<1>1. Typed /\ Budget /\ LateHasNoTimer
  BY DEF Inv
<1>2. /\ Newest \in 0..MaxConns /\ x \in Items(Newest) /\ Begins(agenda, x, rest)
      /\ HeadDo(agenda) = "enter" /\ Entering /\ Rest(rest, Newest)
  BY <1>1, TurnFacts DEF Begins, Entering
<1>3. x.id \in Owner /\ -x.id <= Newest
  BY <1>2, ItemFields
<1>4. Newest' = Newest /\ agenda' = rest
      /\ UNCHANGED <<state, deferred, requests, rundowns, links, conn, heard, connectionCallback,
                     disconnectionOccurred, sessionCloseOccurred, connectionCloseOccurred>>
  BY DEF EnterConnectingSession, Newest, occurred
<1>5. /\ GoesOn(<<>>, rest) /\ Rest(agenda', Newest)
      /\ \A i : Count(<<>>, Of(i)) = 0
  BY <1>1, <1>4, GoesOnNone
<1>6. conn \in Conns /\ Newest + 1 <= conn
  BY <1>1, UnderwayConn DEF Underway
<1>7. /\ sessionCallback' = x.id /\ session' = conn
      /\ net' = [net EXCEPT ![conn].sess = "opening"]
  BY DEF EnterConnectingSession
<1>8. /\ net' \in [Conns -> Nets] /\ net'[conn].sess = "opening"
      /\ net'[conn].up = net[conn].up /\ net'[conn].conn = net[conn].conn
      /\ \A c \in Conns : c # conn => net'[c] = net[c]
  <2>1. net \in [Conns -> Nets]
    BY <1>1 DEF Typed
  <2>2. \A r \in Nets : LET q == [r EXCEPT !.sess = "opening"] IN
          q \in Nets /\ q.sess = "opening" /\ q.up = r.up /\ q.conn = r.conn
    BY DEF Nets, Stages
  <2>3. net' = [net EXCEPT ![conn] = [net[conn] EXCEPT !.sess = "opening"]]
    BY <1>7
  <2>4. QED
    BY <1>6, <2>1, <2>2, <2>3
<1>9. ~Entering'
  BY <1>4, <1>5 DEF Entering, Rest
<1>10. Typed'
  <2>1. agenda' \in Turns(Newest')
    BY <1>4, <1>5 DEF Rest
  <2>2. conn \in Nat /\ session' \in 0..conn'
    BY <1>4, <1>6, <1>7, Bounds
  <2>3. QED
    BY <1>1, <1>3, <1>4, <1>7, <1>8, <2>1, <2>2 DEF Typed, Calm
<1>11. Budget'
  <2>1. Newest' + One(Underway)' <= conn
    <3>1. One(Underway)' <= 1 /\ One(Underway)' \in Nat
      BY DEF One
    <3>2. QED
      BY <1>2, <1>4, <1>6, <3>1, Bounds
  <2>2. Connections' = Connections
    BY <1>4 DEF Connections
  <2>3. QED
    BY <1>1, <1>4, <1>9, <2>1, <2>2, BudgetOn
<1>12. LateHasNoTimer' /\ (LateRundown' <=> LateRundown)
  BY <1>1, <1>4, LateSame
<1>13. ASSUME ~LateRundown PROVE Control' /\ Accounted'
  <2>1. Control /\ Accounted
    BY <1>13 DEF Inv
  <2>2. /\ Turn' /\ ~Running' /\ LinkSteps(agenda') = 0
        /\ HeadDo(agenda') \in Following \cup {"-"} /\ ~thrown
        /\ \A v \in DOMAIN rundowns :
              rundowns[v].callback >= 0 /\ ~rundowns[v].timer /\ rundowns[v].waits # "links"
    BY <1>1, <1>4, <2>1, TurnOn DEF Calm
  <2>3. HeadDo(agenda') \notin PeerEvents \ {"session_close"} /\ HeadDo(agenda') # "cbs"
    BY <2>2 DEF Following, PeerEvents, OwnerMethods, Tellings
  <2>4. Listening'
    BY <1>4, <2>1 DEF Control, Listening, Connected
  <2>5. Network'
    <3>1. \A c \in Conns : net'[c].up /\ net'[c].sess = "opening" => c = conn
      <4>1. \A c \in Conns : ~(net[c].up /\ net[c].sess = "opening")
        BY <1>2, <2>1 DEF Control, Network
      <4>2. QED
        BY <1>8, <4>1
    <3>2. net'[conn].up /\ net'[conn].conn = "open"
      BY <1>2, <1>8, <2>1 DEF Control, Network
    <3>3. HeadDo(agenda') \notin {"session_open", "connection_close", "disconnected"}
      BY <2>3 DEF PeerEvents
    <3>4. QED
      BY <1>4, <1>7, <1>8, <1>9, <3>1, <3>2, <3>3 DEF Network
  <2>6. Unlinked'
    BY <1>4, <2>1, <2>2 DEF Control, Unlinked
  <2>7. Deferrals'
    BY <1>4, <2>1 DEF Control, Deferrals
  <2>8. Owners'
    <3>1. x.id >= 0 /\ connectionCallback = None /\ ~disconnectionOccurred
      BY <1>2, <2>1 DEF Control, Owners, Takes
    <3>2. QED
      BY <1>4, <1>7, <1>9, <2>2, <3>1 DEF Owners, Running
  <2>9. Waiting'
    BY <1>4, <2>2, <2>3 DEF Waiting
  <2>10. NeverOpened'
    BY <1>4 DEF NeverOpened
  <2>11. Control'
    BY <2>2, <2>4, <2>5, <2>6, <2>7, <2>8, <2>9, <2>10 DEF Control
  <2>12. ASSUME NEW i \in Nat \ {0}
         PROVE  Count(<<>>, Of(i)) + InCallbacks(i)' + InLinks(i)' + InRundowns(i)' + InClosure(i)'
                    + Told(i)'
                  <= One(x.id = i /\ x.do \notin Steps) + InCallbacks(i) + InLinks(i) + InRundowns(i)
                       + InClosure(i) + Told(i)
    <3>1. InLinks(i)' = InLinks(i) /\ InRundowns(i)' = InRundowns(i) /\ Told(i)' = Told(i)
          /\ InClosure(i)' = 0
      BY <1>4, <2>2 DEF InLinks, InRundowns, Told, InClosure, One
    <3>2. InCallbacks(i)' <= One(x.id = i /\ x.do \notin Steps) + InCallbacks(i)
      BY <1>4, <1>7 DEF InCallbacks, One, Steps
    <3>3. /\ InLinks(i) \in Nat /\ InRundowns(i) \in Nat /\ Told(i) \in Nat /\ InClosure(i) \in Nat
          /\ InCallbacks(i) \in Nat
      BY <1>1, PlacesNat
    <3>4. InCallbacks(i)' \in Nat /\ One(x.id = i /\ x.do \notin Steps) \in Nat
          /\ Count(<<>>, Of(i)) = 0
      BY <1>5 DEF One, InCallbacks
    <3>5. QED
      BY <3>1, <3>2, <3>3, <3>4
  <2>13. Accounted'
    <3>1. Carries(x, <<>>)
      BY <2>12 DEF Carries
    <3>2. QED
      BY <1>1, <1>2, <1>4, <1>5, <1>10, <2>1, <3>1, CarryStep
  <2>14. QED
    BY <2>11, <2>13
<1>14. QED
  BY <1>10, <1>11, <1>12, <1>13 DEF Inv

-----------------------------------------------------------------------------
(* Entering disconnecting.                                                 *)

\* A sequence of elements of a set is a sequence over it.
LEMMA SeqNarrow ==
  ASSUME NEW T, NEW s \in Seq(T), NEW U, \A i \in DOMAIN s : s[i] \in U
  PROVE  s \in Seq(U)
<1>1. s \in [1..Len(s) -> T] /\ Len(s) \in Nat /\ DOMAIN s = 1..Len(s)
  BY LenProperties
<1>2. s \in [1..Len(s) -> U]
  BY <1>1
<1>3. QED
  BY <1>1, <1>2, SeqDef

\* What follows in a turn without a step of a rundown concerns none.
LEMMA NoSteps ==
  ASSUME NEW s \in Seq(Do(Following)), LinkSteps(s) = 0, SessionSteps(s) = 0
  PROVE  s \in Seq(Do(Following \ {"links", "session"}))
<1>1. ~Has(s, Do({"links"})) /\ ~Has(s, Do({"session"}))
  BY CountHas DEF LinkSteps, SessionSteps
<1>2. DOMAIN s = 1..Len(s)
  BY LenProperties
<1>3. ASSUME NEW i \in DOMAIN s PROVE s[i] \in Do(Following \ {"links", "session"})
  <2>1. s[i] \in Do(Following) /\ s[i] \notin Do({"links"}) /\ s[i] \notin Do({"session"})
    BY <1>1, <1>2, ElementOfSeq DEF Has
  <2>2. QED
    BY <2>1 DEF Do
<1>4. QED
  BY <1>3, SeqNarrow

\* Such items may be in a turn of any rundown.
LEMMA StepsOfNewest ==
  /\ Do(Following \ {"links", "session"}) \subseteq OfNewest
  /\ Do(Following \ {"links", "session"}) \subseteq OfNewest'
  /\ OfNewest = {x \in Items(MaxConns) : x.do \in Steps => x.id = Newest}
  /\ OfNewest' = {x \in Items(MaxConns) : x.do \in Steps => x.id = Newest'}
<1>1. (Following \ {"links", "session"}) \cap Steps = {}
  BY DEF Following, Steps, OwnerMethods, Tellings
<1>2. QED
  BY <1>1 DEF Do, OfNewest

\* A step of a rundown in a turn.
LEMMA StepIn ==
  ASSUME NEW n \in 0..MaxConns, NEW v \in 1..n
  PROVE  \A do \in Steps, err \in BOOLEAN :
           /\ Item(do, v, err) \in Items(n) /\ Item(do, v, err) \in Items(MaxConns)
           /\ Item(do, v, err).do = do /\ Item(do, v, err).id = v
           /\ do \notin LeadingSteps => Item(do, v, err) \in Later(n)
<1>1. v \in Owner /\ MaxConns \in n..MaxConns
  <2>1. MaxConns \in Nat
    BY Bounds
  <2>2. v \in Int /\ v >= 0 /\ v <= MaxConns /\ n <= MaxConns
    BY <2>1
  <2>3. v <= MaxRequests /\ -MaxConns <= v
    BY <2>1, <2>2, Bounds
  <2>4. QED
    BY <2>1, <2>2, <2>3, Bounds
<1>2. ASSUME NEW do \in Steps, NEW err \in BOOLEAN
      PROVE  /\ Item(do, v, err) \in Items(n) /\ Item(do, v, err) \in Items(MaxConns)
             /\ Item(do, v, err).do = do /\ Item(do, v, err).id = v
             /\ do \notin LeadingSteps => Item(do, v, err) \in Later(n)
  <2>1. /\ Item(do, v, err) \in Items(n)
        /\ Item(do, v, err).do = do /\ Item(do, v, err).id = v
        /\ do \notin LeadingSteps \cup {"enter"} => Item(do, v, err) \in Later(n)
    BY <1>1, ItemIn
  <2>2. do # "enter"
    BY DEF Steps
  <2>3. Items(n) \subseteq Items(MaxConns)
    BY <1>1, Widened
  <2>4. QED
    BY <2>1, <2>2, <2>3
<1>3. QED
  BY <1>2

\* One more rundown begins.
LEMMA RundownAdded ==
  ASSUME rundowns \in Seq(Rundowns(Newest)), NEW m, m = Newest + 1, m \in 1..MaxConns,
         NEW r \in Rundowns(m), rundowns' = Append(rundowns, r)
  PROVE  /\ rundowns' \in Seq(Rundowns(m)) /\ Newest' = m /\ rundowns'[m] = r
         /\ DOMAIN rundowns = 1..Newest /\ DOMAIN rundowns' = 1..m
         /\ \A v \in DOMAIN rundowns : rundowns'[v] = rundowns[v]
         /\ \A i \in Nat \ {0} :
              InRundowns(i)' = InRundowns(i) + One(r.links["sender"].op = i)
                                 + One(r.links["receiver"].op = i)
<1>1. Newest \in Nat /\ DOMAIN rundowns = 1..Newest
  BY LenProperties DEF Newest
<1>2. Newest \in 0..MaxConns /\ m \in Newest..MaxConns /\ m \in 0..MaxConns /\ MaxConns \in Nat
  <2>1. MaxConns \in Nat
    BY Bounds
  <2>2. QED
    BY <1>1, <2>1
<1>3. Rundowns(Newest) \subseteq Rundowns(m)
  BY <1>2, Widened
<1>4. r \in Rundowns(MaxConns)
  <2>1. MaxConns \in m..MaxConns
    BY <1>2
  <2>2. Rundowns(m) \subseteq Rundowns(MaxConns)
    BY <1>2, <2>1, Widened
  <2>3. QED
    BY <2>2
<1>5. rundowns \in Seq(Rundowns(m))
  BY <1>3, SeqWiden
<1>6. /\ rundowns' \in Seq(Rundowns(m)) /\ Len(rundowns') = Len(rundowns) + 1
      /\ rundowns'[Len(rundowns) + 1] = r
      /\ \A v \in 1..Len(rundowns) : rundowns'[v] = rundowns[v]
  BY <1>5, AppendProperties
<1>7. DOMAIN rundowns' = 1..Len(rundowns')
  BY <1>6, LenProperties
<1>8. ASSUME NEW i \in Nat \ {0}
      PROVE  InRundowns(i)' = InRundowns(i) + One(r.links["sender"].op = i)
                                + One(r.links["receiver"].op = i)
  <2>1. ASSUME NEW k
        PROVE  /\ Count(rundowns', Linked(k, i)) = Count(rundowns, Linked(k, i)) + One(r.links[k].op = i)
               /\ Count(rundowns, Linked(k, i)) \in Nat
    <3>1. r \in Linked(k, i) <=> r.links[k].op = i
      BY <1>4 DEF Linked
    <3>2. Count(rundowns, Linked(k, i)) \in Nat
      BY CountNat
    <3>3. Count(rundowns', Linked(k, i))
            = Count(rundowns, Linked(k, i)) + One(r \in Linked(k, i))
      BY <1>5, <3>2, CountAppend DEF One
    <3>4. One(r \in Linked(k, i)) = One(r.links[k].op = i)
      BY <3>1 DEF One
    <3>5. QED
      BY <3>2, <3>3, <3>4
  <2>2. One(r.links["sender"].op = i) \in Nat /\ One(r.links["receiver"].op = i) \in Nat
    BY DEF One
  <2>3. QED
    BY <2>1, <2>2 DEF InRundowns
<1>9. QED
  BY <1>1, <1>6, <1>7, <1>8 DEF Newest

\* The machine enters disconnecting: what the step makes of the variables.
LEMMA ClosingFacts ==
  ASSUME Typed, Budget, NEW x, NEW rest, Takes(x, rest), x.do = "enter", state = "disconnecting",
         EnterDisconnecting(x.id, x.err, rest)
  PROVE  \E r \in Rundowns(Newest + 1) :
           /\ Closing(r, x.id) /\ rundowns' = Append(rundowns, r)
           /\ agenda' = <<Item("cbs", Newest + 1, FALSE)>> \o rest
           /\ links' \in [Kinds -> LinkRecords] /\ links'["cbs"] = links["cbs"]
           /\ links'["sender"] = NoLink /\ links'["receiver"] = NoLink
           /\ UNCHANGED <<state, deferred, callbacks, occurred, rhea, heard, net, requests>>
<1> DEFINE l == [links EXCEPT !["cbs"] = NoLink]
           r == [conn |-> conn, callback |-> x.id, err |-> x.err, waits |-> "-", timer |-> TRUE,
                 late |-> FALSE, links |-> l]
<1>1. links \in [Kinds -> LinkRecords] /\ conn \in 0..MaxConns /\ NoLink \in LinkRecords
  BY Bounds DEF Typed, NoLink, LinkRecords
<1>2. /\ l \in [Kinds -> LinkRecords] /\ l["cbs"] = NoLink
      /\ l["sender"] = links["sender"] /\ l["receiver"] = links["receiver"]
  BY <1>1 DEF Kinds
<1>3. x.id \in Owner /\ x.err \in BOOLEAN /\ -x.id <= Newest + 1
  <2>1. Newest \in 0..MaxConns /\ x \in Items(Newest)
    BY TurnFacts
  <2>2. x.id \in Owner /\ x.err \in BOOLEAN /\ -x.id <= Newest
    BY <2>1, ItemFields
  <2>3. x.id \in Int /\ Newest \in Nat
    BY <2>1, <2>2, Bounds
  <2>4. QED
    BY <2>2, <2>3
<1> HIDE DEF l
<1>4. r \in Rundowns(Newest + 1) /\ Closing(r, x.id)
  BY <1>1, <1>2, <1>3 DEF Rundowns, Closing
<1>5. rundowns' = Append(rundowns, r)
  BY DEF EnterDisconnecting, l
<1>6. /\ links' \in [Kinds -> LinkRecords] /\ links'["cbs"] = links["cbs"]
      /\ links'["sender"] = NoLink /\ links'["receiver"] = NoLink
  <2>1. links' = [k \in Kinds |-> IF k = "cbs" THEN links[k] ELSE NoLink]
    BY DEF EnterDisconnecting
  <2>2. QED
    BY <1>1, <2>1 DEF Kinds
<1>7. /\ agenda' = <<Item("cbs", Newest + 1, FALSE)>> \o rest
      /\ UNCHANGED <<state, deferred, callbacks, occurred, rhea, heard, net, requests>>
  BY DEF EnterDisconnecting, Newest
<1> HIDE DEF r
<1>8. QED
  BY <1>4, <1>5, <1>6, <1>7

\* The machine enters disconnecting.
LEMMA EnterDisconnectingStep ==
  ASSUME Inv, NEW x, NEW rest, Takes(x, rest), x.do = "enter", state = "disconnecting",
         EnterDisconnecting(x.id, x.err, rest), Calm
  PROVE  Inv'
<1> DEFINE m == Newest + 1
           e == Item("cbs", m, FALSE)
<1>1. Typed /\ Budget /\ LateHasNoTimer
  BY DEF Inv
<1>2. /\ Newest \in 0..MaxConns /\ x \in Items(Newest) /\ Begins(agenda, x, rest)
      /\ HeadDo(agenda) = "enter" /\ Entering /\ Rest(rest, Newest) /\ Numbers(rest)
  BY <1>1, TurnFacts DEF Begins, Entering, Rest
<1>3. conn \in Conns /\ m <= conn /\ m \in 1..MaxConns
  BY <1>1, <1>2, UnderwayConn DEF Underway
<1>4. PICK r \in Rundowns(m) :
        /\ Closing(r, x.id) /\ rundowns' = Append(rundowns, r)
        /\ agenda' = <<e>> \o rest
        /\ links' \in [Kinds -> LinkRecords] /\ links'["cbs"] = links["cbs"]
        /\ links'["sender"] = NoLink /\ links'["receiver"] = NoLink
        /\ UNCHANGED <<state, deferred, callbacks, occurred, rhea, heard, net, requests>>
  BY <1>1, ClosingFacts
<1>5. m \in 0..MaxConns /\ m \in Newest..MaxConns /\ MaxConns \in Nat
  BY <1>2, <1>3, Bounds
<1>6. e \in Items(m) /\ e.do = "cbs" /\ e.id = m /\ e \in Items(MaxConns)
  <2>1. m \in 1..m /\ "cbs" \in Steps
    BY <1>3 DEF Steps
  <2> HIDE DEF m, e
  <2>2. \A do \in Steps, err \in BOOLEAN :
          /\ Item(do, m, err) \in Items(m) /\ Item(do, m, err) \in Items(MaxConns)
          /\ Item(do, m, err).do = do /\ Item(do, m, err).id = m
    BY <1>5, <2>1, StepIn
  <2>3. QED
    BY <2>1, <2>2 DEF e
<1>7. /\ rundowns' \in Seq(Rundowns(m)) /\ Newest' = m /\ rundowns'[m] = r
      /\ DOMAIN rundowns = 1..Newest /\ DOMAIN rundowns' = 1..m
      /\ \A v \in DOMAIN rundowns : rundowns'[v] = rundowns[v]
      /\ \A i \in Nat \ {0} :
           InRundowns(i)' = InRundowns(i) + One(r.links["sender"].op = i)
                              + One(r.links["receiver"].op = i)
  <2>1. rundowns \in Seq(Rundowns(Newest))
    BY <1>1 DEF Typed
  <2> HIDE DEF e
  <2>2. rundowns' = Append(rundowns, r)
    BY <1>4
  <2>3. QED
    BY <1>3, <2>1, <2>2, RundownAdded
<1>8. rest \in Seq(Later(m)) /\ rest \in Seq(Items(m))
  <2>1. rest \in Seq(Later(m))
    BY <1>2, <1>5, MoreLater DEF Rest
  <2>2. QED
    BY <1>5, <2>1, RestFacts DEF Rest
<1> HIDE DEF e
<1>9. agenda' \in Turns(m) /\ Begins(agenda', e, rest)
  BY <1>4, <1>5, <1>6, <1>8, Pushed
<1>10. HeadDo(agenda') = "cbs" /\ ~Entering' /\ Running'
  BY <1>4, <1>6, <1>9 DEF Begins, Entering, Running
<1> HIDE DEF m
<1>11. Typed'
  <2>1. /\ connectionCallback \in Owner /\ -connectionCallback <= m
        /\ sessionCallback \in Owner /\ -sessionCallback <= m
    <3>1. connectionCallback \in Int /\ sessionCallback \in Int /\ Newest \in Nat
      BY <1>1, <1>2, Bounds DEF Typed
    <3>2. QED
      BY <1>1, <3>1 DEF Typed, m
  <2>2. connectionCallback' = connectionCallback /\ sessionCallback' = sessionCallback
    BY <1>4 DEF callbacks
  <2>3. UNCHANGED <<disconnectionOccurred, sessionCloseOccurred, connectionCloseOccurred, conn, session>>
    BY <1>4 DEF occurred, rhea
  <2>4. QED
    BY <1>1, <1>4, <1>7, <1>9, <2>1, <2>2, <2>3 DEF Typed, Calm
<1>12. Budget'
  <2>1. Connects(agenda') = Connects(rest)
    BY <1>2, <1>6, <1>9 DEF Begins, One, Numbers
  <2>2. Newest' + One(Underway)' <= conn
    <3>1. One(Underway)' = 0
      BY <1>4, <1>10 DEF Underway, One
    <3>2. conn \in Nat /\ m \in Nat /\ m <= conn
      BY <1>3, <1>5, Bounds
    <3>3. QED
      BY <1>7, <3>1, <3>2
  <2>3. UNCHANGED <<conn, deferred, requests>>
    BY <1>4 DEF rhea
  <2>4. Connections' = Connections
    BY <2>3 DEF Connections
  <2>5. QED
    BY <1>1, <1>10, <2>1, <2>2, <2>3, <2>4, BudgetOn
<1>13. \A v \in DOMAIN rundowns' :
         \/ v \in DOMAIN rundowns /\ rundowns'[v] = rundowns[v]
         \/ v = m /\ rundowns'[v] = r
  <2>1. Newest \in Nat
    BY <1>2, <1>5
  <2>2. \A v \in 1..m : v \in 1..Newest \/ v = m
    BY <2>1 DEF m
  <2>3. QED
    BY <1>7, <2>2
<1>14. LateHasNoTimer' /\ (LateRundown' <=> LateRundown)
  <2>1. \A v \in DOMAIN rundowns : v \in DOMAIN rundowns' /\ rundowns'[v] = rundowns[v]
    <3>1. Newest \in Nat
      BY <1>2, <1>5
    <3>2. QED
      BY <1>7, <3>1 DEF m
  <2>2. QED
    BY <1>1, <1>4, <1>13, <2>1 DEF LateHasNoTimer, LateRundown, Closing
<1>15. ASSUME ~LateRundown PROVE Control' /\ Accounted'
  <2>1. Control /\ Accounted
    BY <1>15 DEF Inv
  <2>2. ~Running /\ SessionSteps(rest) = 0 /\ LinkSteps(rest) = 0
    <3>1. ~Running
      BY <1>2 DEF Running
    <3>2. ~(SessionSteps(agenda) > 0) /\ ~Leading(agenda)
      BY <2>1, <3>1 DEF Control, Turn
    <3>3. SessionSteps(agenda) = SessionSteps(rest) /\ LinkSteps(agenda) = LinkSteps(rest)
          /\ SessionSteps(rest) \in Nat /\ LinkSteps(rest) \in Nat
      BY <1>2 DEF Begins, One, Numbers
    <3>4. QED
      BY <3>1, <3>2, <3>3 DEF Leading
  <2>3. /\ x.id >= 0 /\ connectionCallback = None /\ sessionCallback = None
        /\ \A v \in DOMAIN rundowns :
              rundowns[v].callback >= 0 /\ ~rundowns[v].timer /\ rundowns[v].waits # "links"
    BY <1>2, <2>1, <2>2 DEF Control, Owners, Waiting, Takes
  <2>4. rest \in Seq(Do(Following)) /\ ~thrown
    BY <2>1, Behind DEF Control
  <2>5. connectionCallback' = None /\ sessionCallback' = None
        /\ UNCHANGED <<disconnectionOccurred, sessionCloseOccurred, conn, session, heard, net>>
    BY <1>4, <2>3 DEF callbacks, occurred, rhea
  <2>6. Listening'
    BY <1>4, <2>1, <2>5 DEF Control, Listening, Connected
  <2>7. Network'
    <3>1. net[conn].conn # "opening" /\ session = conn
          /\ \A c \in Conns : net[c].up /\ net[c].sess = "opening" => c = conn
      BY <2>1 DEF Control, Network
    <3>2. QED
      BY <1>4, <1>10, <2>5, <3>1 DEF Network
  <2>8. Unlinked'
    BY <1>4, <1>10 DEF Unlinked
  <2>9. Deferrals'
    BY <1>4, <2>1 DEF Control, Deferrals
  <2>10. Load(agenda') = 1
    <3>1. LinkSteps(agenda') = 0 /\ SessionSteps(agenda') = 0
      BY <1>6, <1>9, <2>2 DEF Begins, One
    <3>2. QED
      BY <1>10, <3>1 DEF Load, LeadingSteps, One
  <2>11. Turn'
    <3>1. agenda' \in Seq(OfNewest')
      <4>1. rest \in Seq(OfNewest')
        <5>1. rest \in Seq(Do(Following \ {"links", "session"}))
          BY <2>2, <2>4, NoSteps
        <5>2. Do(Following \ {"links", "session"}) \subseteq OfNewest'
          BY StepsOfNewest
        <5>3. QED
          BY <5>1, <5>2, SeqWiden
      <4>2. e \in OfNewest'
        BY <1>6, <1>7, StepsOfNewest
      <4>3. QED
        BY <1>4, <4>1, <4>2, ExtendedHeadTail
    <3>2. Tail(agenda') = rest
      BY <1>9 DEF Begins
    <3>3. SessionSteps(agenda') = 0
      BY <1>6, <1>9, <2>2 DEF Begins, One
    <3>4. ~thrown'
      BY <2>4 DEF Calm
    <3>5. QED
      BY <1>10, <2>4, <2>5, <2>10, <3>1, <3>2, <3>4 DEF Turn, Alone, PeerEvents
  <2>12. Owners'
    <3>1. \A v \in DOMAIN rundowns' : rundowns'[v].callback >= 0
      BY <1>4, <1>13, <2>3 DEF Closing
    <3>2. QED
      BY <1>4, <1>10, <2>5, <3>1 DEF Owners
  <2>13. Waiting'
    <3>1. \A v \in DOMAIN rundowns' :
            (rundowns'[v].timer => v = m) /\ rundowns'[v].waits # "links"
            /\ ~(rundowns'[v].waits # "-" /\ rundowns'[v].timer)
      BY <1>4, <1>13, <2>3 DEF Closing
    <3>2. rundowns'[Newest'].timer /\ rundowns'[Newest'].waits = "-"
      BY <1>4, <1>7 DEF Closing
    <3>3. Newest' > 0 /\ Newest' = m
      BY <1>3, <1>7
    <3>4. QED
      BY <1>10, <2>5, <3>1, <3>2, <3>3 DEF Waiting
  <2>14. NeverOpened'
    <3>1. SUFFICES ASSUME net[conn].up, net[conn].sess = "opening" PROVE NeverOpened'
      BY <2>5 DEF NeverOpened
    <3>2. /\ ~disconnectionOccurred /\ sessionCloseOccurred
          /\ links["sender"] = NoLink /\ links["receiver"] = NoLink
          /\ links["cbs"].phase \notin {"attaching", "attached"}
      BY <2>1, <3>1 DEF Control, NeverOpened
    <3>3. r.links = [k \in Kinds |-> NoLink]
      <4>1. r.links \in [Kinds -> LinkRecords]
        BY DEF Rundowns
      <4>2. \A k \in Kinds : r.links[k] = NoLink
        BY <1>4, <3>2 DEF Closing, Kinds
      <4>3. QED
        BY <4>1, <4>2
    <3>4. rundowns'[Newest'].links = [k \in Kinds |-> NoLink]
      BY <1>7, <3>3
    <3>5. QED
      BY <1>4, <1>10, <2>5, <3>2, <3>4 DEF NeverOpened
  <2>15. Control'
    BY <2>6, <2>7, <2>8, <2>9, <2>11, <2>12, <2>13, <2>14 DEF Control
  <2>16. ASSUME NEW i \in Nat \ {0}
         PROVE  Count(<<e>>, Of(i)) + InCallbacks(i)' + InLinks(i)' + InRundowns(i)' + InClosure(i)'
                    + Told(i)'
                  <= One(x.id = i /\ x.do \notin Steps) + InCallbacks(i) + InLinks(i) + InRundowns(i)
                       + InClosure(i) + Told(i)
    <3>1. Count(<<e>>, Of(i)) = 0
      BY <1>5, <1>6, OneCounted DEF One, Steps
    <3>2. InCallbacks(i)' = InCallbacks(i) /\ Told(i)' = Told(i)
      BY <1>4 DEF InCallbacks, Told, callbacks
    <3>3. InLinks(i)' = One(links["cbs"].op = i)
      BY <1>4, Bounds DEF InLinks, One, NoLink
    <3>4. InRundowns(i)' = InRundowns(i) + One(links["sender"].op = i) + One(links["receiver"].op = i)
      BY <1>4, <1>7 DEF Closing
    <3>5. InClosure(i)' = One(x.id = i)
      BY <1>4, <1>7, <1>10 DEF InClosure, Closing, One
    <3>6. InLinks(i) = One(links["sender"].op = i) + One(links["receiver"].op = i)
                         + One(links["cbs"].op = i)
      BY DEF InLinks
    <3>7. /\ One(x.id = i /\ x.do \notin Steps) = One(x.id = i) /\ One(x.id = i) \in Nat
          /\ One(links["sender"].op = i) \in Nat /\ One(links["receiver"].op = i) \in Nat
          /\ One(links["cbs"].op = i) \in Nat
      BY DEF One, Steps
    <3>8. InRundowns(i) \in Nat /\ Told(i) \in Nat /\ InClosure(i) \in Nat /\ InCallbacks(i) \in Nat
      BY <1>1, PlacesNat
    <3>9. QED
      BY <3>1, <3>2, <3>3, <3>4, <3>5, <3>6, <3>7, <3>8
  <2>17. Accounted'
    <3>1. Carries(x, <<e>>)
      BY <2>16 DEF Carries
    <3>2. GoesOn(<<e>>, rest)
      <4>1. <<e>> \in Seq(Items(m))
        BY <1>6
      <4>2. QED
        BY <1>4, <1>7, <1>8, <4>1 DEF GoesOn
    <3>3. UNCHANGED deferred /\ DOMAIN requests' = DOMAIN requests /\ Newest' \in 0..MaxConns
      BY <1>4, <1>5, <1>7
    <3>4. QED
      BY <1>1, <1>11, <2>1, <3>1, <3>2, <3>3, CarryStep
  <2>18. QED
    BY <2>15, <2>17
<1>16. QED
  BY <1>11, <1>12, <1>14, <1>15 DEF Inv

-----------------------------------------------------------------------------
(* A rundown goes on.                                                      *)

\* A step in a state neither begins a connection nor ends one.
LEMMA StaysStep ==
  ASSUME Inv, NEW x, NEW rest, Takes(x, rest), x.do # "enter", Typed', ~Entering',
         Newest' = Newest, UNCHANGED <<state, deferred, rhea>>, Connections' = Connections,
         DOMAIN requests' = DOMAIN requests, Connects(agenda') = Connects(rest),
         LateHasNoTimer', LateRundown' <=> LateRundown, NEW new, GoesOn(new, rest),
         ~LateRundown /\ Control => Control' /\ Carries(x, new)
  PROVE  Inv'
<1>1. Typed /\ Budget
  BY DEF Inv
<1>2. HeadDo(agenda) = x.do /\ ~Entering /\ Newest \in 0..MaxConns
  BY <1>1, ItemOwner DEF Entering
<1>3. Budget'
  <2>1. One(Underway)' = One(Underway)
    BY <1>2 DEF Underway
  <2>2. Newest' + One(Underway)' <= conn
    BY <1>1, <2>1 DEF Budget
  <2>3. UNCHANGED <<conn, deferred>>
    BY DEF rhea
  <2>4. QED
    BY <1>1, <2>2, <2>3, BudgetOn
<1>4. ASSUME ~LateRundown PROVE Control' /\ Accounted'
  <2>1. Control /\ Accounted
    BY <1>4 DEF Inv
  <2>2. Control' /\ Carries(x, new)
    BY <1>4, <2>1
  <2>3. Accounted'
    BY <1>1, <1>2, <2>1, <2>2, CarryStep
  <2>4. QED
    BY <2>2, <2>3
<1>5. QED
  BY <1>3, <1>4 DEF Inv

\* What controls the machine stays true while a rundown goes on.
LEMMA RunsOn ==
  ASSUME Typed, Budget, Control, Running, Newest' = Newest, DOMAIN rundowns' = DOMAIN rundowns,
         UNCHANGED <<state, deferred, rhea, heard>>,
         TurnsOn, HoldsOn, WaitsOn, NeverOpened'
  PROVE  Control'
<1>1. /\ state = "disconnecting" /\ state' = "disconnecting"
      /\ UNCHANGED <<conn, session, heard, deferred>>
  BY DEF Running, rhea
<1>2. HeadDo(agenda') \notin Alone \cup {"enter"}
  BY DEF TurnsOn, Following, LeadingSteps, Alone, PeerEvents, OwnerMethods, Tellings
<1>3. ~Entering' /\ Running'
  BY <1>1, <1>2 DEF Entering, Running
<1>4. conn \in Conns
  <2>1. Newest <= conn /\ Newest > 0 /\ conn \in 0..MaxConns
    <3>1. One(Underway) \in Nat
      BY DEF One
    <3>2. Newest \in 0..MaxConns
      BY NewestBound
    <3>3. conn \in 0..MaxConns /\ Newest + One(Underway) <= conn
      BY DEF Typed, Budget
    <3>4. MaxConns \in Nat
      BY Bounds
    <3>5. QED
      BY <3>1, <3>2, <3>3, <3>4 DEF WaitsOn
  <2>2. Newest \in 0..MaxConns /\ MaxConns \in Nat
    BY NewestBound, Bounds
  <2>3. conn \in Nat /\ 1 <= conn /\ conn <= MaxConns
    BY <2>1, <2>2
  <2>4. QED
    BY <2>3, Bounds
<1>5. Listening'
  BY <1>1 DEF Control, Listening, Connected
<1>6. Network'
  <2>1. net[conn].conn # "opening" /\ session = conn
        /\ \A c \in Conns : net[c].up /\ net[c].sess = "opening" => c = conn
    BY <1>1 DEF Control, Network
  <2>2. net'[conn].conn # "opening"
        /\ \A c \in Conns : net'[c].up /\ net'[c].sess = "opening" => c = conn
    BY <1>4, <2>1 DEF HoldsOn
  <2>3. HeadDo(agenda') \notin {"connection_close", "disconnected"}
    BY <1>2 DEF Alone, PeerEvents
  <2>4. QED
    BY <1>1, <2>1, <2>2, <2>3 DEF Network
<1>7. Unlinked'
  <2>1. links["sender"] = NoLink /\ links["receiver"] = NoLink
    BY DEF Control, Unlinked
  <2>2. QED
    BY <1>1, <1>3, <2>1 DEF HoldsOn, Unlinked
<1>8. Deferrals'
  BY <1>1 DEF Control, Deferrals
<1>9. Turn'
  <2>1. OfNewest' = OfNewest
    BY StepsOfNewest
  <2>2. HeadDo(agenda') \notin {"connection_open", "session_open", "amqpError"}
    BY <1>2 DEF Alone, PeerEvents
  <2>3. QED
    BY <1>1, <1>2, <1>3, <2>1, <2>2 DEF Turn, TurnsOn
<1>10. Owners'
  BY <1>1, <1>3 DEF Owners, HoldsOn, WaitsOn
<1>11. Waiting'
  <2>1. \A v \in DOMAIN rundowns' : v # Newest =>
          ~rundowns'[v].timer /\ rundowns'[v].waits # "links"
    BY DEF Control, Waiting, WaitsOn
  <2>2. QED
    BY <1>3, <2>1 DEF Waiting, WaitsOn
<1>12. QED
  BY <1>5, <1>6, <1>7, <1>8, <1>9, <1>10, <1>11 DEF Control

\* What a step of a machine that runs down finds.
LEMMA RunningFacts ==
  ASSUME Typed, Budget, Control, NEW x, NEW rest, Takes(x, rest), Running
  PROVE  /\ state = "disconnecting" /\ ~thrown /\ Newest \in 1..MaxConns /\ HeadDo(agenda) = x.do
         /\ x.do \in Steps => x.id = Newest
         /\ Rest(rest, Newest) /\ rest \in Seq(OfNewest) /\ rest \in Seq(Do(Following))
         /\ HeadDo(rest) \in Following \cup {"-"}
         /\ rest # <<>> => Tail(rest) \in Seq(Do(Following))
         /\ LinkSteps(rest) \in Nat /\ SessionSteps(rest) \in Nat
         /\ LinkSteps(agenda) = One(x.do = "links") + LinkSteps(rest)
         /\ SessionSteps(agenda) = One(x.do = "session") + SessionSteps(rest)
         /\ Closings(agenda) = One(x.do \in {"session_close", "replay"}) + Closings(rest)
         /\ Closings(rest) \in Nat
         /\ Load(agenda) = One(x.do \in LeadingSteps) + LinkSteps(agenda) + SessionSteps(agenda)
         /\ Load(rest) = LinkSteps(rest) + SessionSteps(rest)
         /\ connectionCallback \in {None, -Newest} /\ sessionCallback \in {None, -Newest}
<1>1. /\ Newest \in 0..MaxConns /\ Rest(rest, Newest) /\ Begins(agenda, x, rest)
  BY TurnFacts
<1>2. /\ rest \in Seq(Do(Following)) /\ HeadDo(rest) \in Following \cup {"-"}
      /\ rest # <<>> => Tail(rest) \in Seq(Do(Following))
      /\ rest \in Seq(OfNewest) /\ x \in OfNewest /\ ~thrown
  BY Behind DEF Control
<1>3. Newest > 0 /\ connectionCallback \in {None, -Newest} /\ sessionCallback \in {None, -Newest}
  BY DEF Control, Waiting, Owners
<1>4. Newest \in 1..MaxConns
  BY <1>1, <1>3
<1>5. x.do \in Steps => x.id = Newest
  BY <1>2 DEF OfNewest
<1>6. HeadDo(rest) \notin LeadingSteps
  BY <1>1 DEF Rest
<1>7. LinkSteps(rest) \in Nat /\ SessionSteps(rest) \in Nat /\ Closings(rest) \in Nat
  BY <1>1 DEF Rest, Numbers
<1>8. /\ HeadDo(agenda) = x.do
      /\ LinkSteps(agenda) = One(x.do = "links") + LinkSteps(rest)
      /\ SessionSteps(agenda) = One(x.do = "session") + SessionSteps(rest)
      /\ Closings(agenda) = One(x.do \in {"session_close", "replay"}) + Closings(rest)
  BY <1>1 DEF Begins
<1>9. Load(agenda) = One(x.do \in LeadingSteps) + LinkSteps(agenda) + SessionSteps(agenda)
  BY <1>8 DEF Load
<1>10. Load(rest) = LinkSteps(rest) + SessionSteps(rest)
  BY <1>6, <1>7 DEF Load, One
<1>11. QED
  BY <1>1, <1>2, <1>3, <1>4, <1>5, <1>7, <1>8, <1>9, <1>10 DEF Running

\* A step of a rundown is put before the rest of the turn.
LEMMA StepFirst ==
  ASSUME Typed, Budget, NEW x, NEW rest, Takes(x, rest), Newest' = Newest, NEW v \in 1..Newest,
         NEW do \in Steps, NEW err \in BOOLEAN, agenda' = <<Item(do, v, err)>> \o rest
  PROVE  /\ agenda' \in Turns(Newest') /\ HeadDo(agenda') = do /\ agenda' # <<>>
         /\ Tail(agenda') = rest /\ ~Entering' /\ GoesOn(<<Item(do, v, err)>>, rest)
         /\ \A i \in Nat \ {0} : Count(<<Item(do, v, err)>>, Of(i)) = 0
         /\ Connects(agenda') = Connects(rest) /\ Closings(agenda') = Closings(rest)
         /\ LinkSteps(agenda') = One(do = "links") + LinkSteps(rest)
         /\ SessionSteps(agenda') = One(do = "session") + SessionSteps(rest)
         /\ v = Newest /\ rest \in Seq(OfNewest) => agenda' \in Seq(OfNewest)
<1> DEFINE e == Item(do, v, err)
<1>1. Newest \in 0..MaxConns /\ Rest(rest, Newest)
  BY TurnFacts
<1>2. e \in Items(Newest) /\ e \in Items(MaxConns) /\ e.do = do /\ e.id = v
  <2>1. \A d \in Steps, r \in BOOLEAN :
          /\ Item(d, v, r) \in Items(Newest) /\ Item(d, v, r) \in Items(MaxConns)
          /\ Item(d, v, r).do = d /\ Item(d, v, r).id = v
    BY <1>1, StepIn
  <2>2. QED
    BY <2>1
<1>3. agenda' = <<e>> \o rest
  OBVIOUS
<1> HIDE DEF e
<1>4. agenda' \in Turns(Newest) /\ Begins(agenda', e, rest)
  BY <1>1, <1>2, <1>3, Pushed DEF Rest
<1>5. do \notin {"enter", "connect", "session_close", "replay"}
  BY DEF Steps
<1>6. Numbers(rest)
  BY <1>1 DEF Rest
<1>7. Connects(agenda') = Connects(rest) /\ Closings(agenda') = Closings(rest)
  <2>1. Connects(rest) \in Nat /\ Closings(rest) \in Nat
    BY <1>6 DEF Numbers
  <2>2. One(e.do = "connect") = 0 /\ One(e.do \in {"session_close", "replay"}) = 0
    BY <1>2, <1>5 DEF One
  <2>3. QED
    BY <1>4, <2>1, <2>2 DEF Begins
<1>8. LinkSteps(agenda') = One(do = "links") + LinkSteps(rest)
      /\ SessionSteps(agenda') = One(do = "session") + SessionSteps(rest)
  BY <1>2, <1>4 DEF Begins
<1>9. HeadDo(agenda') = do /\ ~Entering' /\ Tail(agenda') = rest /\ agenda' # <<>>
  BY <1>2, <1>4, <1>5 DEF Begins, Entering
<1>10. \A i \in Nat \ {0} : Count(<<e>>, Of(i)) = 0
  <2>1. \A i : Count(<<e>>, Of(i)) = One(e.id = i /\ e.do \notin Steps)
    BY <1>1, <1>2, OneCounted
  <2>2. QED
    BY <1>2, <2>1 DEF One
<1>11. GoesOn(<<e>>, rest)
  <2>1. <<e>> \in Seq(Items(Newest))
    BY <1>2
  <2>2. QED
    BY <1>1, <1>3, <2>1 DEF GoesOn, Rest
<1>12. ASSUME v = Newest, rest \in Seq(OfNewest) PROVE agenda' \in Seq(OfNewest)
  <2>1. e \in OfNewest
    BY <1>2, <1>12 DEF OfNewest
  <2>2. QED
    BY <1>3, <1>12, <2>1, ExtendedHeadTail
<1>13. QED
  BY <1>4, <1>7, <1>8, <1>9, <1>10, <1>11, <1>12 DEF e

\* Callbacks and links that stay as they are are as many as before.
LEMMA CarriesSame ==
  ASSUME Typed, NEW x, NEW new, \A i \in Nat \ {0} : Count(new, Of(i)) = 0,
         \A i \in Nat \ {0} : InCallbacks(i)' <= InCallbacks(i) /\ InCallbacks(i)' \in Nat,
         UNCHANGED <<state, links, rundowns, requests>>, Entering => Entering'
  PROVE  Carries(x, new)
<1>1. ASSUME NEW i \in Nat \ {0}
      PROVE  Count(new, Of(i)) + InCallbacks(i)' + InLinks(i)' + InRundowns(i)' + InClosure(i)' + Told(i)'
               <= One(x.id = i /\ x.do \notin Steps) + InCallbacks(i) + InLinks(i) + InRundowns(i)
                    + InClosure(i) + Told(i)
  <2>1. InLinks(i)' = InLinks(i) /\ InRundowns(i)' = InRundowns(i) /\ Told(i)' = Told(i)
    BY DEF InLinks, InRundowns, Told
  <2>2. InClosure(i)' <= InClosure(i)
    BY DEF InClosure, One, Running, Newest
  <2>3. InClosure(i)' \in Nat /\ InClosure(i) \in Nat /\ One(x.id = i /\ x.do \notin Steps) \in Nat
    BY DEF InClosure, One
  <2>4. InCallbacks(i)' <= InCallbacks(i) /\ InCallbacks(i)' \in Nat /\ Count(new, Of(i)) = 0
    OBVIOUS
  <2>5. InCallbacks(i) \in Nat /\ InLinks(i) \in Nat /\ InRundowns(i) \in Nat /\ Told(i) \in Nat
    BY PlacesNat
  <2>6. QED
    BY <2>1, <2>2, <2>3, <2>4, <2>5
<1>2. QED
  BY <1>1 DEF Carries

\* Rundowns that stay as they are.
LEMMA RundownsSame ==
  ASSUME Typed, LateHasNoTimer, UNCHANGED rundowns
  PROVE  /\ Newest' = Newest /\ DOMAIN rundowns' = DOMAIN rundowns
         /\ LateHasNoTimer' /\ (LateRundown' <=> LateRundown)
         /\ Control => \A v \in DOMAIN rundowns' :
              rundowns'[v] = rundowns[v] /\ rundowns'[v].callback >= 0
<1>1. LateHasNoTimer' /\ (LateRundown' <=> LateRundown)
  BY LateSame
<1>2. QED
  BY <1>1 DEF Newest, Control, Owners

\* The timer of a rundown forces it.
LEMMA RundownForcedStep ==
  ASSUME Inv, NEW x, NEW rest, Takes(x, rest), x.do = "force", RundownForced(x.id, rest), Calm
  PROVE  Inv'
<1>1. Typed /\ Budget /\ LateHasNoTimer
  BY DEF Inv
<1>2. /\ agenda' = <<Item("cbs", x.id, FALSE)>> \o rest /\ disconnectionOccurred' = TRUE
      /\ UNCHANGED <<state, deferred, sessionCloseOccurred, connectionCloseOccurred, rhea, heard,
                     links, rundowns, net, requests, connectionCallback, sessionCallback>>
  BY DEF RundownForced, callbacks
<1>3. /\ Newest' = Newest /\ DOMAIN rundowns' = DOMAIN rundowns
      /\ LateHasNoTimer' /\ (LateRundown' <=> LateRundown)
      /\ Control => \A v \in DOMAIN rundowns' :
              rundowns'[v] = rundowns[v] /\ rundowns'[v].callback >= 0
  BY <1>1, <1>2, RundownsSame
<1>4. x.id \in 1..Newest /\ "cbs" \in Steps
  <2>1. Newest \in 0..MaxConns /\ x \in Items(Newest)
    BY <1>1, TurnFacts
  <2>2. x.do \in Steps => x.id \in 1..Newest
    BY <2>1, ItemFields
  <2>3. QED
    BY <2>2 DEF Steps
<1>5. /\ agenda' \in Turns(Newest') /\ HeadDo(agenda') = "cbs" /\ agenda' # <<>>
      /\ Tail(agenda') = rest /\ ~Entering' /\ GoesOn(<<Item("cbs", x.id, FALSE)>>, rest)
      /\ \A i \in Nat \ {0} : Count(<<Item("cbs", x.id, FALSE)>>, Of(i)) = 0
      /\ Connects(agenda') = Connects(rest) /\ Closings(agenda') = Closings(rest)
      /\ LinkSteps(agenda') = One(FALSE) + LinkSteps(rest)
      /\ SessionSteps(agenda') = One(FALSE) + SessionSteps(rest)
      /\ x.id = Newest /\ rest \in Seq(OfNewest) => agenda' \in Seq(OfNewest)
  <2>1. ASSUME NEW v \in 1..Newest, NEW do \in Steps, agenda' = <<Item(do, v, FALSE)>> \o rest
        PROVE  /\ agenda' \in Turns(Newest') /\ HeadDo(agenda') = do /\ agenda' # <<>>
               /\ Tail(agenda') = rest /\ ~Entering' /\ GoesOn(<<Item(do, v, FALSE)>>, rest)
               /\ \A i \in Nat \ {0} : Count(<<Item(do, v, FALSE)>>, Of(i)) = 0
               /\ Connects(agenda') = Connects(rest) /\ Closings(agenda') = Closings(rest)
               /\ LinkSteps(agenda') = One(do = "links") + LinkSteps(rest)
               /\ SessionSteps(agenda') = One(do = "session") + SessionSteps(rest)
               /\ v = Newest /\ rest \in Seq(OfNewest) => agenda' \in Seq(OfNewest)
    BY <1>1, <1>3, <2>1, StepFirst
  <2>2. ("cbs" = "links") = FALSE /\ ("cbs" = "session") = FALSE
    OBVIOUS
  <2>3. QED
    BY <1>2, <1>4, <2>1, <2>2
<1>6. Typed'
  BY <1>1, <1>2, <1>3, <1>5 DEF Typed, Calm, rhea
<1>7. ASSUME ~LateRundown, Control PROVE Control' /\ Carries(x, <<Item("cbs", x.id, FALSE)>>)
  <2>1. HeadDo(agenda) = "force"
    BY <1>1, ItemOwner
  <2>2. /\ Running /\ Load(agenda) = 1
        /\ (connectionCallback = None /\ sessionCallback = None) \/ Closings(agenda) = 0
    BY <1>7, <2>1 DEF Control, Turn, Leading
  <2>3. /\ state = "disconnecting" /\ ~thrown /\ Newest \in 1..MaxConns /\ x.id = Newest
        /\ rest \in Seq(OfNewest) /\ rest \in Seq(Do(Following))
        /\ LinkSteps(rest) \in Nat /\ SessionSteps(rest) \in Nat /\ Closings(rest) \in Nat
        /\ LinkSteps(agenda) = One(x.do = "links") + LinkSteps(rest)
        /\ SessionSteps(agenda) = One(x.do = "session") + SessionSteps(rest)
        /\ Closings(agenda) = One(x.do \in {"session_close", "replay"}) + Closings(rest)
        /\ Load(agenda) = One(x.do \in LeadingSteps) + LinkSteps(agenda) + SessionSteps(agenda)
        /\ connectionCallback \in {None, -Newest} /\ sessionCallback \in {None, -Newest}
    BY <1>1, <1>7, <2>2, RunningFacts DEF Steps
  <2>4. LinkSteps(rest) = 0 /\ SessionSteps(rest) = 0 /\ Closings(agenda) = Closings(rest)
    BY <2>2, <2>3 DEF One, LeadingSteps
  <2>5. LinkSteps(agenda') = 0 /\ SessionSteps(agenda') = 0 /\ Load(agenda') = 1
    BY <1>5, <2>4 DEF One, Load, LeadingSteps
  <2>6. TurnsOn
    <3>1. "cbs" \in LeadingSteps
      BY DEF LeadingSteps
    <3>2. QED
      BY <1>2, <1>5, <2>2, <2>3, <2>4, <2>5, <3>1 DEF TurnsOn, Calm
  <2>7. HoldsOn
    BY <1>2, <1>5, <2>3 DEF HoldsOn
  <2>8. WaitsOn
    <3>1. \A v \in DOMAIN rundowns : ~(rundowns[v].waits # "-" /\ rundowns[v].timer)
      BY <1>7, <2>2, <2>3 DEF Control, Waiting
    <3>2. Leading(agenda')
      BY <1>5 DEF Leading
    <3>3. QED
      BY <1>2, <1>3, <1>7, <2>3, <3>1, <3>2 DEF WaitsOn
  <2>9. NeverOpened'
    <3>1. ~(net[conn].up /\ net[conn].sess = "opening")
      BY <1>7, <2>1, <2>3 DEF Control, NeverOpened
    <3>2. QED
      BY <1>2, <3>1 DEF NeverOpened, rhea
  <2>10. Control'
    BY <1>1, <1>2, <1>3, <1>7, <2>2, <2>6, <2>7, <2>8, <2>9, RunsOn
  <2>11. Carries(x, <<Item("cbs", x.id, FALSE)>>)
    <3>1. \A i \in Nat \ {0} : InCallbacks(i)' <= InCallbacks(i) /\ InCallbacks(i)' \in Nat
      BY <1>2 DEF InCallbacks, One
    <3>2. ~Entering
      BY <2>1 DEF Entering
    <3>3. QED
      BY <1>1, <1>2, <1>5, <3>1, <3>2, CarriesSame
  <2>12. QED
    BY <2>10, <2>11
<1>8. Connections' = Connections /\ DOMAIN requests' = DOMAIN requests
  BY <1>2 DEF Connections
<1>9. QED
  BY <1>2, <1>3, <1>5, <1>6, <1>7, <1>8, StaysStep

\* What is left of a turn then.
LEMMA Continued ==
  ASSUME Typed, Budget, NEW x, NEW rest, Takes(x, rest), Newest' = Newest,
         NEW owner \in Owner, -owner <= Newest, NEW step \in Steps, NEW err \in BOOLEAN,
         Continues(owner, step, err, rest)
  PROVE  /\ agenda' \in Turns(Newest') /\ ~Entering' /\ Connects(agenda') = Connects(rest)
         /\ requests' \in Seq(Requested) /\ Len(requests') = Len(requests)
         /\ DOMAIN requests' = DOMAIN requests /\ Connections' = Connections
         /\ \E new : GoesOn(new, rest) /\ \A i \in Nat \ {0} : Count(new, Of(i)) = 0
         /\ owner <= 0 => UNCHANGED requests
         /\ owner = 0 => agenda' = rest
         /\ owner < 0 => agenda' = <<Item(step, -owner, err)>> \o rest
<1>1. requests \in Seq(Requested) /\ owner \in Int /\ None = 0
  BY Bounds DEF Typed
<1>2. CASE owner < 0
  <2>1. agenda' = <<Item(step, -owner, err)>> \o rest /\ UNCHANGED requests
    BY <1>1, <1>2 DEF Continues
  <2>2. -owner \in 1..Newest
    <3>1. Newest \in 0..MaxConns /\ MaxConns \in Nat
      BY TurnFacts, Bounds
    <3>2. QED
      BY <1>1, <1>2, <3>1
  <2>3. /\ agenda' \in Turns(Newest') /\ ~Entering' /\ Connects(agenda') = Connects(rest)
        /\ GoesOn(<<Item(step, -owner, err)>>, rest)
        /\ \A i \in Nat \ {0} : Count(<<Item(step, -owner, err)>>, Of(i)) = 0
    <3>1. ASSUME NEW v \in 1..Newest, agenda' = <<Item(step, v, err)>> \o rest
          PROVE  /\ agenda' \in Turns(Newest') /\ ~Entering' /\ Connects(agenda') = Connects(rest)
                 /\ GoesOn(<<Item(step, v, err)>>, rest)
                 /\ \A i \in Nat \ {0} : Count(<<Item(step, v, err)>>, Of(i)) = 0
      BY <3>1, StepFirst
    <3>2. QED
      BY <2>1, <2>2, <3>1
  <2>4. Connections' = Connections
    BY <2>1 DEF Connections
  <2>5. \E new : GoesOn(new, rest) /\ \A i \in Nat \ {0} : Count(new, Of(i)) = 0
    BY <2>3
  <2>6. QED
    BY <1>1, <1>2, <2>1, <2>3, <2>4, <2>5
<1>3. CASE owner >= 0
  <2>1. agenda' = rest /\ (owner = 0 => UNCHANGED requests)
    BY <1>1, <1>3 DEF Continues
  <2>2. /\ GoesOn(<<>>, rest) /\ Rest(agenda', Newest)
        /\ \A i : Count(<<>>, Of(i)) = 0
    BY <2>1, GoesOnNone
  <2>3. agenda' \in Turns(Newest') /\ ~Entering'
    BY <2>2 DEF Rest, Entering
  <2>4. Answers(owner) \/ Answers(0)
    <3>1. CASE owner = 0
      BY <1>1, <2>1, <3>1, Untold
    <3>2. CASE owner # 0
      <4>1. Answer(owner, ErrOr(err, "disconnected"))
        BY <1>1, <1>3, <3>2 DEF Continues
      <4>2. ErrOr(err, "disconnected") \in {"ok", "err", "twice", "dropped", "disconnected"}
        BY DEF ErrOr
      <4> HIDE DEF Answer, ErrOr
      <4>3. QED
        BY <1>1, <4>1, <4>2, Answered
    <3>3. QED
      BY <3>1, <3>2
  <2>5. /\ requests' \in Seq(Requested) /\ Len(requests') = Len(requests)
        /\ DOMAIN requests' = DOMAIN requests /\ Connections' = Connections
    BY <2>4 DEF Answers
  <2>6. \E new : GoesOn(new, rest) /\ \A i \in Nat \ {0} : Count(new, Of(i)) = 0
    BY <2>2
  <2>7. QED
    BY <1>1, <1>3, <2>1, <2>3, <2>5, <2>6
<1>4. QED
  BY <1>1, <1>2, <1>3

\* What the end of the session, the connection or the socket makes of a rundown.
LEMMA EndedControl ==
  ASSUME Typed, Budget, LateHasNoTimer, Control, NEW x, NEW rest, Takes(x, rest), Running,
         x.do \in Ends, NEW owner \in {0, -Newest}, NEW step \in {"connection", "finish"},
         NEW err \in BOOLEAN,
         owner = 0 => agenda' = rest,
         owner = -Newest => agenda' = <<Item(step, Newest, err)>> \o rest,
         \/ owner = 0
         \/ owner = connectionCallback /\ x.do = "connection_close"
         \/ owner = sessionCallback /\ x.do = "session_close",
         UNCHANGED connectionCallback, sessionCallback' \in {sessionCallback, 0},
         ~disconnectionOccurred' => ~disconnectionOccurred, ~thrown',
         UNCHANGED <<state, deferred, rhea, heard, links, rundowns, net>>
  PROVE  Control'
<1>1. /\ Newest' = Newest /\ DOMAIN rundowns' = DOMAIN rundowns
      /\ \A v \in DOMAIN rundowns' : rundowns'[v] = rundowns[v] /\ rundowns'[v].callback >= 0
  BY RundownsSame
<1>2. /\ state = "disconnecting" /\ ~thrown /\ Newest \in 1..MaxConns /\ HeadDo(agenda) = x.do
      /\ rest \in Seq(OfNewest) /\ rest \in Seq(Do(Following))
      /\ HeadDo(rest) \in Following \cup {"-"}
      /\ rest # <<>> => Tail(rest) \in Seq(Do(Following))
      /\ LinkSteps(rest) \in Nat /\ SessionSteps(rest) \in Nat /\ Closings(rest) \in Nat
      /\ LinkSteps(agenda) = One(x.do = "links") + LinkSteps(rest)
      /\ SessionSteps(agenda) = One(x.do = "session") + SessionSteps(rest)
      /\ Closings(agenda) = One(x.do \in {"session_close", "replay"}) + Closings(rest)
      /\ Load(agenda) = One(x.do \in LeadingSteps) + LinkSteps(agenda) + SessionSteps(agenda)
      /\ Load(rest) = LinkSteps(rest) + SessionSteps(rest)
      /\ connectionCallback \in {None, -Newest} /\ sessionCallback \in {None, -Newest}
  BY RunningFacts
<1>3. /\ LinkSteps(agenda) = LinkSteps(rest) /\ SessionSteps(agenda) = SessionSteps(rest)
      /\ Load(agenda) = Load(rest) /\ x.do \notin {"cbs", "force", "enter", "links", "session"}
  BY <1>2 DEF Ends, LeadingSteps, One
<1>4. Closings(agenda) >= Closings(rest) /\ (x.do = "session_close" => Closings(agenda) > 0)
      /\ Closings(agenda) \in Nat
  BY <1>2 DEF One
<1>5. Leading(agenda) <=> LinkSteps(rest) > 0
  BY <1>2, <1>3 DEF Leading
<1>6. Leading(agenda) =>
        /\ Load(agenda) = 1
        /\ (connectionCallback = None /\ sessionCallback = None) \/ Closings(agenda) = 0
  BY DEF Control, Turn
<1>7. owner # 0 => LinkSteps(rest) = 0
  <2>1. ASSUME owner # 0, x.do = "connection_close" PROVE LinkSteps(rest) = 0
    <3>1. rest = <<>>
      BY <2>1, Behind DEF Control, Alone, PeerEvents
    <3>2. QED
      BY <3>1, NoTurn
  <2>2. ASSUME owner # 0, x.do = "session_close" PROVE LinkSteps(rest) = 0
    <3>1. ~Leading(agenda)
      BY <1>4, <1>6, <2>2, Bounds
    <3>2. QED
      BY <1>2, <1>5, <3>1
  <2>3. QED
    BY <2>1, <2>2
<1>8. HeadDo(rest) \notin {"cbs", "force", "connection", "finish"}
  BY <1>2 DEF Following, OwnerMethods, Tellings
<1>9. CASE owner = 0
  <2>1. agenda' = rest
    BY <1>9
  <2>2. Leading(agenda') <=> Leading(agenda)
    BY <1>5, <1>8, <2>1 DEF Leading
  <2>3. TurnsOn
    <3>1. Leading(agenda') =>
            /\ Load(agenda') = 1
            /\ (connectionCallback' = None /\ sessionCallback' = None) \/ Closings(agenda') = 0
      BY <1>2, <1>3, <1>4, <1>6, <2>1, <2>2, Bounds
    <3>2. QED
      BY <1>2, <2>1, <3>1 DEF TurnsOn
  <2>4. HoldsOn
    <3>1. links["cbs"].phase \in {"none", "detaching", "detached"}
      BY <1>2, <1>3 DEF Control, Unlinked
    <3>2. QED
      BY <1>2, <3>1, Bounds DEF HoldsOn
  <2>5. WaitsOn
    <3>1. \A v \in DOMAIN rundowns :
            /\ rundowns[v].waits = "links" => rundowns[v].timer \/ Leading(agenda)
            /\ rundowns[v].waits # "-" /\ rundowns[v].timer =>
                 connectionCallback = None /\ sessionCallback = None /\ Load(agenda) = 0
      BY <1>2 DEF Control, Waiting
    <3>2. LinkSteps(agenda) > 0 /\ ~disconnectionOccurred =>
            /\ rundowns[Newest].timer /\ rundowns[Newest].waits = "-"
            /\ connectionCallback = None /\ sessionCallback = None
      BY DEF Control, Waiting
    <3>3. Newest > 0 /\ rundowns' = rundowns
      BY <1>2
    <3>4. QED
      BY <1>1, <1>3, <1>8, <2>1, <2>2, <3>1, <3>2, <3>3, Bounds DEF WaitsOn
  <2>6. NeverOpened'
    <3>1. ~(net[conn].up /\ net[conn].sess = "opening")
      BY <1>2, <1>3 DEF Control, NeverOpened, Ends
    <3>2. QED
      BY <3>1 DEF NeverOpened, rhea
  <2>7. QED
    BY <1>1, <2>3, <2>4, <2>5, <2>6, RunsOn
<1>10. CASE owner # 0
  <2>1. agenda' = <<Item(step, Newest, err)>> \o rest /\ owner = -Newest
    BY <1>10
  <2>2. step \in Steps /\ Newest \in 1..Newest /\ step \notin {"cbs", "force", "links", "session"}
    BY <1>2 DEF Steps
  <2>3. /\ HeadDo(agenda') = step /\ agenda' # <<>> /\ Tail(agenda') = rest
        /\ LinkSteps(agenda') = One(step = "links") + LinkSteps(rest)
        /\ agenda' \in Seq(OfNewest)
    BY <1>1, <1>2, <2>1, <2>2, StepFirst
  <2>4. ~Leading(agenda') /\ LinkSteps(agenda') = 0
    BY <1>7, <1>10, <2>2, <2>3 DEF Leading, One
  <2>5. TurnsOn
    <3>1. step \in LeadingSteps
      BY DEF LeadingSteps
    <3>2. QED
      BY <1>2, <2>3, <2>4, <3>1 DEF TurnsOn
  <2>6. HoldsOn
    <3>1. links["cbs"].phase \in {"none", "detaching", "detached"}
      BY <1>2, <1>3 DEF Control, Unlinked
    <3>2. QED
      BY <1>2, <3>1, Bounds DEF HoldsOn
  <2>7. WaitsOn
    <3>1. ~Leading(agenda)
      BY <1>5, <1>7, <1>10
    <3>2. connectionCallback # None \/ sessionCallback # None
      BY <1>10, Bounds
    <3>3. \A v \in DOMAIN rundowns :
            /\ rundowns[v].waits = "links" => rundowns[v].timer
            /\ ~(rundowns[v].waits # "-" /\ rundowns[v].timer)
      BY <1>2, <3>1, <3>2 DEF Control, Waiting
    <3>4. Newest > 0 /\ rundowns' = rundowns
      BY <1>2
    <3>5. QED
      BY <1>1, <2>2, <2>3, <2>4, <3>3, <3>4 DEF WaitsOn
  <2>8. NeverOpened'
    <3>1. ~(net[conn].up /\ net[conn].sess = "opening")
      BY <1>2, <1>3 DEF Control, NeverOpened, Ends
    <3>2. QED
      BY <3>1 DEF NeverOpened, rhea
  <2>9. QED
    BY <1>1, <2>5, <2>6, <2>7, <2>8, RunsOn
<1>11. QED
  BY <1>9, <1>10

\* That is what it does.
LEMMA EndedFacts ==
  ASSUME Typed, NEW x, NEW rest, x.err \in BOOLEAN, x.do \in Ends, HandleDisconnecting(x, rest)
  PROVE  \E owner, step, err : Ended(x, rest, owner, step, err)
<1>1. /\ disconnectionOccurred \in BOOLEAN /\ sessionCloseOccurred \in BOOLEAN
      /\ connectionCloseOccurred \in BOOLEAN /\ None = 0
  BY Bounds DEF Typed
<1>2. CASE x.do = "session_close"
  <2>1. Ended(x, rest, sessionCallback, "connection", x.err)
    BY <1>1, <1>2 DEF HandleDisconnecting, Ended, Continues
  <2>2. QED
    BY <2>1
<1>3. CASE x.do = "connection_close"
  <2>1. Ended(x, rest, connectionCallback, "finish", x.err)
    BY <1>1, <1>3 DEF HandleDisconnecting, Ended, Continues, callbacks
  <2>2. QED
    BY <2>1
<1>4. CASE x.do = "disconnected"
  <2>1. Ended(x, rest, 0, "finish", x.err)
    BY <1>1, <1>4 DEF HandleDisconnecting, Ended, Continues, callbacks
  <2>2. QED
    BY <2>1
<1>5. QED
  BY <1>2, <1>3, <1>4 DEF Ends

\* The session, the connection or the socket ends while the machine runs down.
LEMMA EndedStep ==
  ASSUME Inv, NEW x, NEW rest, Takes(x, rest), state = "disconnecting", x.do \in Ends,
         HandleDisconnecting(x, rest), Calm
  PROVE  Inv'
<1>1. Typed /\ Budget /\ LateHasNoTimer
  BY DEF Inv
<1>2. Newest \in 0..MaxConns /\ x \in Items(Newest) /\ HeadDo(agenda) = x.do
  BY <1>1, TurnFacts DEF Begins
<1>3. x.err \in BOOLEAN
  BY <1>2, ItemFields
<1>4. PICK owner, step, err : Ended(x, rest, owner, step, err)
  BY <1>1, <1>3, EndedFacts
<1>5. /\ Newest' = Newest /\ DOMAIN rundowns' = DOMAIN rundowns
      /\ LateHasNoTimer' /\ (LateRundown' <=> LateRundown)
  BY <1>1, <1>4, RundownsSame DEF Ended
<1>6. owner \in Owner /\ -owner <= Newest /\ step \in Steps /\ err \in BOOLEAN
  <2>1. 0 \in Owner /\ -0 <= Newest
    <3>1. MaxConns \in Nat /\ MaxRequests \in Nat
      BY Bounds
    <3>2. QED
      BY <1>2, <3>1 DEF Owner
  <2>2. QED
    BY <1>1, <1>4, <2>1 DEF Ended, Typed, Steps
<1>7. /\ agenda' \in Turns(Newest') /\ ~Entering' /\ Connects(agenda') = Connects(rest)
      /\ requests' \in Seq(Requested) /\ Len(requests') = Len(requests)
      /\ DOMAIN requests' = DOMAIN requests /\ Connections' = Connections
      /\ \E new : GoesOn(new, rest) /\ \A i \in Nat \ {0} : Count(new, Of(i)) = 0
      /\ owner <= 0 => UNCHANGED requests
      /\ owner = 0 => agenda' = rest
      /\ owner < 0 => agenda' = <<Item(step, -owner, err)>> \o rest
  <2>1. Continues(owner, step, err, rest)
    BY <1>4 DEF Ended
  <2>2. QED
    BY <1>1, <1>5, <1>6, <2>1, Continued
<1>8. PICK new : GoesOn(new, rest) /\ \A i \in Nat \ {0} : Count(new, Of(i)) = 0
  BY <1>7
<1>9. Typed'
  <2>1. -0 <= Newest /\ 0 \in Owner
    <3>1. MaxConns \in Nat /\ MaxRequests \in Nat
      BY Bounds
    <3>2. QED
      BY <1>2, <3>1 DEF Owner
  <2>2. sessionCallback' \in Owner /\ -sessionCallback' <= Newest
    BY <1>1, <1>4, <2>1 DEF Ended, Typed
  <2>3. QED
    BY <1>1, <1>4, <1>5, <1>7, <2>2 DEF Ended, Typed, Calm, rhea
<1>10. ASSUME ~LateRundown, Control PROVE Control' /\ Carries(x, new)
  <2>1. x.do # "enter" /\ ~Entering
    BY <1>2 DEF Ends, Entering
  <2>2. Running
    BY <2>1 DEF Running
  <2>3. connectionCallback \in {0, -Newest} /\ sessionCallback \in {0, -Newest}
        /\ Newest \in 1..MaxConns /\ ~thrown
    BY <1>1, <1>10, <2>2, RunningFacts, Bounds
  <2>4. owner \in {0, -Newest}
    BY <1>4, <2>3 DEF Ended
  <2>5. owner <= 0 /\ (owner = -Newest => owner < 0 /\ -owner = Newest)
    <3>1. Newest \in Nat /\ Newest > 0
      BY <1>2, <2>3, Bounds
    <3>2. QED
      BY <2>4, <3>1
  <2>6. owner = -Newest => agenda' = <<Item(step, Newest, err)>> \o rest
    BY <1>7, <2>5
  <2>7. Control'
    <3>1. ~disconnectionOccurred' => ~disconnectionOccurred
      BY <1>4 DEF Ended
    <3>2. \/ owner = 0
          \/ owner = connectionCallback /\ x.do = "connection_close"
          \/ owner = sessionCallback /\ x.do = "session_close"
      BY <1>4 DEF Ended
    <3>3. step \in {"connection", "finish"} /\ sessionCallback' \in {sessionCallback, 0}
          /\ UNCHANGED <<state, deferred, rhea, heard, links, rundowns, net>>
          /\ UNCHANGED connectionCallback
      BY <1>4 DEF Ended
    <3>4. ~thrown'
      BY <2>3 DEF Calm
    <3>5. QED
      BY <1>1, <1>6, <1>7, <1>10, <2>2, <2>4, <2>6, <3>1, <3>2, <3>3, <3>4, EndedControl
  <2>8. Carries(x, new)
    <3>1. ASSUME NEW i \in Nat \ {0}
          PROVE  InCallbacks(i)' <= InCallbacks(i) /\ InCallbacks(i)' \in Nat
      BY <1>4 DEF Ended, InCallbacks, One
    <3>2. UNCHANGED <<state, links, rundowns, requests>>
      BY <1>4, <1>7, <2>5 DEF Ended
    <3>3. QED
      BY <1>1, <1>8, <2>1, <3>1, <3>2, CarriesSame
  <2>9. QED
    BY <2>7, <2>8
<1>11. UNCHANGED <<state, deferred, rhea>> /\ x.do # "enter"
  BY <1>4 DEF Ended, Ends
<1>12. QED
  BY <1>5, <1>7, <1>8, <1>9, <1>10, <1>11, StaysStep

\* A machine that runs down handles an input.
LEMMA HandleDisconnectingStep ==
  ASSUME Inv, NEW x, NEW rest, Takes(x, rest), x.do \in OwnerMethods \cup PeerEvents,
         state = "disconnecting", HandleDisconnecting(x, rest), Calm
  PROVE  Inv'
<1>1. CASE x.do \in Ends
  BY <1>1, EndedStep
<1>2. QuietItem(x)
  BY DEF QuietItem, OwnerMethods, PeerEvents, Steps
<1>3. CASE x.do \in {"error", "amqpError"}
  <2>1. Ignore(rest)
    BY <1>3 DEF HandleDisconnecting
  <2>2. QED
    BY <1>2, <2>1, IgnoreStep
<1>4. CASE x.do \notin Ends \cup {"error", "amqpError"}
  <2>1. Defer(x, "disconnected", rest)
    BY <1>4 DEF HandleDisconnecting, Ends
  <2>2. ~LateRundown => Waits("disconnected", x)
    <3>1. SUFFICES ASSUME ~LateRundown PROVE x.do \in OwnerMethods
      BY DEF Waits
    <3>2. Typed /\ Budget /\ Control
      BY <3>1 DEF Inv
    <3>3. x.do \notin {"connection_open", "session_open"}
      BY <3>2, HeardWhere
    <3>4. QED
      BY <1>4, <3>3 DEF PeerEvents, Ends
  <2>3. QED
    BY <1>2, <2>1, <2>2, DeferStep
<1>5. QED
  BY <1>1, <1>3, <1>4

-----------------------------------------------------------------------------
(* The end of a rundown.                                                   *)

\* It does not disturb a machine that has done with it.
LEMMA IdleControl ==
  ASSUME Typed, Budget, Control, NEW x, NEW rest, Takes(x, rest), x.do \in Steps,
         state \in {"disconnected", "connecting"}, IdlesOn,
         UNCHANGED <<state, deferred, rhea, heard, links, thrown, disconnectionOccurred,
                     sessionCloseOccurred>>
  PROVE  Control'
<1>1. UNCHANGED <<conn, session>> /\ HeadDo(agenda) = x.do
  BY ItemOwner DEF rhea
<1>2. x.do \notin PeerEvents \cup {"enter"} /\ ~Entering
  BY <1>1 DEF Steps, PeerEvents, Entering
<1>3. HeadDo(agenda') \notin Alone \cup {"enter", "cbs", "force"}
  BY DEF IdlesOn, Following, Alone, PeerEvents, OwnerMethods, Tellings
<1>4. ~Entering' /\ ~Running' /\ ~Leading(agenda') /\ ~thrown
  <2>1. ~thrown
    BY Behind DEF Control
  <2>2. QED
    BY <1>3, <2>1 DEF Entering, Running, Leading, IdlesOn
<1>5. Listening'
  BY <1>1, <1>2, <1>4 DEF Control, Listening, Connected
<1>6. Network'
  <2>1. \A c \in Conns : net[c].up /\ net[c].sess = "opening" =>
          c = conn /\ (state = "disconnecting" \/ (state = "connecting_session" /\ ~Entering))
    BY DEF Control, Network
  <2>2. \A c \in Conns : ~(net'[c].up /\ net'[c].sess = "opening")
    BY <2>1 DEF IdlesOn
  <2>3. state = "connecting" =>
          /\ net[conn].sess = "none" /\ session < conn
          /\ net[conn].up /\ net[conn].conn = "opening"
    BY <1>1, <1>2 DEF Control, Network, PeerEvents
  <2>4. HeadDo(agenda') \notin {"connection_open", "connection_close", "disconnected"}
    BY <1>3 DEF Alone, PeerEvents
  <2>5. state = "connecting" => net'[conn] = net[conn]
    BY DEF IdlesOn
  <2>6. QED
    BY <1>1, <1>4, <2>2, <2>3, <2>4, <2>5 DEF Network
<1>7. Unlinked'
  BY <1>4 DEF Control, Unlinked
<1>8. Deferrals'
  BY DEF Control, Deferrals
<1>9. Turn'
  <2>1. HeadDo(agenda') \notin {"connection_open", "session_open", "amqpError"}
    BY <1>3 DEF Alone, PeerEvents
  <2>2. HeadDo(agenda') \in {"connection", "finish"} => state = "disconnected"
    BY DEF IdlesOn, Following, OwnerMethods, Tellings
  <2>3. QED
    BY <1>3, <1>4, <2>1, <2>2 DEF Turn, IdlesOn
<1>10. Owners'
  <2>1. state = "disconnected" => connectionCallback <= 0
    BY DEF Control, Owners
  <2>2. state = "connecting" =>
          connectionCallback >= 0 /\ ~disconnectionOccurred /\ ~sessionCloseOccurred
    BY <1>2 DEF Control, Owners
  <2>3. QED
    BY <1>4, <2>1, <2>2 DEF IdlesOn, Owners
<1>11. Waiting'
  BY <1>3, <1>4 DEF Waiting, IdlesOn
<1>12. NeverOpened'
  BY DEF NeverOpened
<1>13. QED
  BY <1>5, <1>6, <1>7, <1>8, <1>9, <1>10, <1>11, <1>12 DEF Control

\* What a sequence counts of which one element changes.
LEMMA ReplacedCount ==
  ASSUME NEW T, NEW s \in Seq(T), NEW k \in 1..Len(s), NEW e \in T, NEW S
  PROVE  /\ Count([s EXCEPT ![k] = e], S) + One(s[k] \in S) = Count(s, S) + One(e \in S)
         /\ Count([s EXCEPT ![k] = e], S) \in Nat /\ Count(s, S) \in Nat
<1>1. /\ s[k] \in S /\ e \notin S
           => Count([s EXCEPT ![k] = e], S) + 1 = Count(s, S)
      /\ s[k] \notin S /\ e \in S
           => Count([s EXCEPT ![k] = e], S) = Count(s, S) + 1
      /\ (s[k] \in S <=> e \in S) => Count([s EXCEPT ![k] = e], S) = Count(s, S)
  BY CountReplace
<1>2. Count(s, S) \in Nat
  BY CountNat
<1>3. [s EXCEPT ![k] = e] \in Seq(T)
  BY ExceptSeq
<1>4. Count([s EXCEPT ![k] = e], S) \in Nat
  BY <1>3, CountNat
<1>5. QED
  BY <1>1, <1>2, <1>4 DEF One

\* One rundown changes.
LEMMA RundownSet ==
  ASSUME Typed, Budget, NEW v \in 1..Newest, NEW r \in Rundowns(Newest), Replaces(v, r)
  PROVE  Replaced(v, r)
<1>1. /\ rundowns \in Seq(Rundowns(Newest)) /\ DOMAIN rundowns = 1..Newest
      /\ Newest = Len(rundowns) /\ Newest \in Nat
  BY LenProperties DEF Newest, Typed
<1>2. /\ rundowns' \in Seq(Rundowns(Newest)) /\ Len(rundowns') = Len(rundowns)
  BY <1>1, ExceptSeq DEF Replaces
<1>3. /\ rundowns'[v] = r /\ \A w \in DOMAIN rundowns : w # v => rundowns'[w] = rundowns[w]
      /\ DOMAIN rundowns' = DOMAIN rundowns
  BY <1>1 DEF Replaces
<1>4. rundowns[v] \in Rundowns(Newest)
  BY <1>1, ElementOfSeq
<1>5. Newest \in 0..MaxConns /\ MaxConns \in Newest..MaxConns
  <2>1. Newest \in 0..MaxConns /\ MaxConns \in Nat
    BY NewestBound, Bounds
  <2>2. QED
    BY <2>1
<1>6. r \in Rundowns(MaxConns) /\ rundowns[v] \in Rundowns(MaxConns)
  BY <1>4, <1>5, Widened
<1>7. ASSUME NEW i \in Nat \ {0}
      PROVE  InRundowns(i)' + One(rundowns[v].links["sender"].op = i)
                            + One(rundowns[v].links["receiver"].op = i)
               = InRundowns(i) + One(r.links["sender"].op = i) + One(r.links["receiver"].op = i)
  <2>1. ASSUME NEW k
        PROVE  /\ Count(rundowns', Linked(k, i)) + One(rundowns[v].links[k].op = i)
                    = Count(rundowns, Linked(k, i)) + One(r.links[k].op = i)
               /\ Count(rundowns, Linked(k, i)) \in Nat /\ Count(rundowns', Linked(k, i)) \in Nat
    <3>1. /\ r \in Linked(k, i) <=> r.links[k].op = i
          /\ rundowns[v] \in Linked(k, i) <=> rundowns[v].links[k].op = i
      BY <1>6 DEF Linked
    <3>2. v \in 1..Len(rundowns)
      BY <1>1
    <3>3. /\ Count(rundowns', Linked(k, i)) + One(rundowns[v] \in Linked(k, i))
               = Count(rundowns, Linked(k, i)) + One(r \in Linked(k, i))
          /\ Count(rundowns', Linked(k, i)) \in Nat /\ Count(rundowns, Linked(k, i)) \in Nat
      <4>1. ASSUME NEW T, rundowns \in Seq(T), r \in T, NEW S
            PROVE  /\ Count([rundowns EXCEPT ![v] = r], S) + One(rundowns[v] \in S)
                        = Count(rundowns, S) + One(r \in S)
                   /\ Count([rundowns EXCEPT ![v] = r], S) \in Nat /\ Count(rundowns, S) \in Nat
        BY <3>2, <4>1, ReplacedCount
      <4>2. QED
        BY <1>1, <4>1 DEF Replaces
    <3>4. QED
      BY <3>1, <3>3 DEF One
  <2>3. InRundowns(i) = Count(rundowns, Linked("sender", i)) + Count(rundowns, Linked("receiver", i))
        /\ InRundowns(i)' = Count(rundowns', Linked("sender", i)) + Count(rundowns', Linked("receiver", i))
    BY DEF InRundowns
  <2> DEFINE N(k) == Count(rundowns, Linked(k, i))
             P(k) == Count(rundowns', Linked(k, i))
             A(k) == One(rundowns[v].links[k].op = i)
             B(k) == One(r.links[k].op = i)
  <2>4. ASSUME NEW k PROVE P(k) + A(k) = N(k) + B(k) /\ P(k) \in Nat /\ N(k) \in Nat
    BY <2>1
  <2>5. ASSUME NEW k PROVE A(k) \in Nat /\ B(k) \in Nat
    BY DEF One
  <2>6. P("sender") + A("sender") = N("sender") + B("sender")
        /\ P("receiver") + A("receiver") = N("receiver") + B("receiver")
    BY <2>4
  <2>7. /\ P("sender") \in Nat /\ N("sender") \in Nat /\ A("sender") \in Nat /\ B("sender") \in Nat
        /\ P("receiver") \in Nat /\ N("receiver") \in Nat /\ A("receiver") \in Nat
        /\ B("receiver") \in Nat
    BY <2>4, <2>5
  <2> HIDE DEF N, P, A, B
  <2>8. P("sender") + P("receiver") + A("sender") + A("receiver")
          = N("sender") + N("receiver") + B("sender") + B("receiver")
    BY <2>6, <2>7
  <2>9. QED
    BY <2>3, <2>8 DEF N, P, A, B
<1>8. QED
  BY <1>1, <1>2, <1>3, <1>4, <1>7 DEF Newest, Replaced

\* A connection of which the session, or the connection itself, is closed.
LEMMA NetClosing ==
  ASSUME net \in [Conns -> Nets], NEW c,
         \/ net' = [net EXCEPT ![c].sess = IF @ \in {"opening", "open"} THEN "closing" ELSE @]
         \/ net' = [net EXCEPT ![c].conn = IF @ \in {"opening", "open"} THEN "closing" ELSE @]
  PROVE  /\ net' \in [Conns -> Nets] /\ \A d \in Conns \ {c} : net'[d] = net[d]
         /\ \A d \in Conns :
              /\ net'[d].up = net[d].up
              /\ net'[d].sess = "opening" => net[d].sess = "opening"
              /\ net'[d].conn = "opening" => net[d].conn = "opening"
<1>1. CASE net' = [net EXCEPT ![c].sess = IF @ \in {"opening", "open"} THEN "closing" ELSE @]
  <2>1. \A r \in Nets :
          LET q == [r EXCEPT !.sess = IF r.sess \in {"opening", "open"} THEN "closing" ELSE r.sess] IN
          q \in Nets /\ q.up = r.up /\ q.conn = r.conn /\ (q.sess = "opening" => r.sess = "opening")
    BY DEF Nets, Stages
  <2>2. net' = [net EXCEPT ![c] = [net[c] EXCEPT !.sess =
                  IF net[c].sess \in {"opening", "open"} THEN "closing" ELSE net[c].sess]]
    BY <1>1
  <2>3. QED
    BY <2>1, <2>2
<1>2. CASE net' = [net EXCEPT ![c].conn = IF @ \in {"opening", "open"} THEN "closing" ELSE @]
  <2>1. \A r \in Nets :
          LET q == [r EXCEPT !.conn = IF r.conn \in {"opening", "open"} THEN "closing" ELSE r.conn] IN
          q \in Nets /\ q.up = r.up /\ q.sess = r.sess /\ (q.conn = "opening" => r.conn = "opening")
    BY DEF Nets, Stages
  <2>2. net' = [net EXCEPT ![c] = [net[c] EXCEPT !.conn =
                  IF net[c].conn \in {"opening", "open"} THEN "closing" ELSE net[c].conn]]
    BY <1>2
  <2>3. QED
    BY <2>1, <2>2
<1>3. QED
  BY <1>1, <1>2

\* What a step of a rundown concerns.
LEMMA StepOwner ==
  ASSUME Typed, Budget, NEW x, NEW rest, Takes(x, rest), x.do \in Steps
  PROVE  /\ x.id \in 1..Newest /\ x.err \in BOOLEAN /\ Newest \in 0..MaxConns /\ ~Entering
         /\ -x.id \in Owner /\ -(-x.id) <= Newest /\ -x.id < 0 /\ HeadDo(agenda) = x.do
<1>1. Newest \in 0..MaxConns /\ x \in Items(Newest) /\ HeadDo(agenda) = x.do
  BY TurnFacts DEF Begins
<1>2. x.id \in 1..Newest /\ x.err \in BOOLEAN
  BY <1>1, ItemFields
<1>3. MaxConns \in Nat /\ MaxRequests \in Nat
  BY Bounds
<1>4. -x.id \in Owner /\ -(-x.id) <= Newest /\ -x.id < 0
  BY <1>1, <1>2, <1>3 DEF Owner
<1>5. QED
  BY <1>1, <1>2, <1>4 DEF Entering, Steps

\* So a turn goes on.
LEMMA SteppedTurn ==
  ASSUME Typed, Budget, NEW x, NEW rest, Takes(x, rest), Newest' = Newest, NEW v \in 1..Newest,
         NEW do \in {"connection", "finish"}, GoesStep(do, v, FALSE, rest)
  PROVE  /\ agenda' \in Turns(Newest') /\ ~Entering' /\ Connects(agenda') = Connects(rest)
         /\ \E new : GoesOn(new, rest) /\ \A i \in Nat \ {0} : Count(new, Of(i)) = 0
         /\ LinkSteps(agenda') = LinkSteps(rest) /\ SessionSteps(agenda') = SessionSteps(rest)
         /\ agenda' = rest \/ (HeadDo(agenda') = do /\ Tail(agenda') = rest)
         /\ v = Newest /\ rest \in Seq(OfNewest) => agenda' \in Seq(OfNewest)
<1>1. CASE agenda' = rest
  <2>1. /\ GoesOn(<<>>, rest) /\ Rest(agenda', Newest)
        /\ \A i : Count(<<>>, Of(i)) = 0
    BY <1>1, GoesOnNone
  <2>2. agenda' \in Turns(Newest') /\ ~Entering'
    BY <2>1 DEF Rest, Entering
  <2>3. \E new : GoesOn(new, rest) /\ \A i \in Nat \ {0} : Count(new, Of(i)) = 0
    BY <2>1
  <2>4. QED
    BY <1>1, <2>2, <2>3
<1>2. CASE agenda' = <<Item(do, v, FALSE)>> \o rest
  <2>1. do \in Steps
    BY DEF Steps
  <2>2. /\ agenda' \in Turns(Newest') /\ HeadDo(agenda') = do
        /\ Tail(agenda') = rest /\ ~Entering' /\ GoesOn(<<Item(do, v, FALSE)>>, rest)
        /\ \A i \in Nat \ {0} : Count(<<Item(do, v, FALSE)>>, Of(i)) = 0
        /\ Connects(agenda') = Connects(rest)
        /\ LinkSteps(agenda') = One(do = "links") + LinkSteps(rest)
        /\ SessionSteps(agenda') = One(do = "session") + SessionSteps(rest)
        /\ v = Newest /\ rest \in Seq(OfNewest) => agenda' \in Seq(OfNewest)
    BY <1>2, <2>1, StepFirst
  <2>3. One(do = "links") = 0 /\ One(do = "session") = 0
    BY DEF One
  <2>4. LinkSteps(rest) \in Nat /\ SessionSteps(rest) \in Nat
    BY TurnFacts DEF Rest, Numbers
  <2>5. LinkSteps(agenda') = LinkSteps(rest) /\ SessionSteps(agenda') = SessionSteps(rest)
    BY <2>2, <2>3, <2>4
  <2>6. \E new : GoesOn(new, rest) /\ \A i \in Nat \ {0} : Count(new, Of(i)) = 0
    BY <2>2
  <2>7. QED
    BY <2>2, <2>5, <2>6
<1>3. QED
  BY <1>1, <1>2 DEF GoesStep

\* A machine that runs down takes such a step.
LEMMA SteppedControl ==
  ASSUME Typed, Budget, Control, NEW x, NEW rest, Takes(x, rest), Running, Newest' = Newest,
         x.do \in {"session", "connection"}, NEW do, Stepping(x, rest, do), NeverOpened',
         UNCHANGED thrown
  PROVE  Control'
<1>1. /\ state = "disconnecting" /\ ~thrown /\ Newest \in 1..MaxConns /\ HeadDo(agenda) = x.do
      /\ x.do \in Steps => x.id = Newest
      /\ rest \in Seq(OfNewest) /\ rest \in Seq(Do(Following))
      /\ HeadDo(rest) \in Following \cup {"-"}
      /\ rest # <<>> => Tail(rest) \in Seq(Do(Following))
      /\ LinkSteps(rest) \in Nat /\ SessionSteps(rest) \in Nat
      /\ LinkSteps(agenda) = One(x.do = "links") + LinkSteps(rest)
      /\ SessionSteps(agenda) = One(x.do = "session") + SessionSteps(rest)
      /\ Load(agenda) = One(x.do \in LeadingSteps) + LinkSteps(agenda) + SessionSteps(agenda)
      /\ connectionCallback \in {None, -Newest} /\ sessionCallback \in {None, -Newest}
  BY RunningFacts
<1>2. x.id = Newest
  BY <1>1 DEF Steps
<1>3. Load(agenda) > 0 /\ (LinkSteps(rest) > 0 => Load(agenda) > 1) /\ LinkSteps(agenda) = LinkSteps(rest)
  BY <1>1 DEF One, LeadingSteps
<1>4. LinkSteps(rest) = 0 /\ ~Leading(agenda)
  <2>1. Leading(agenda) => Load(agenda) = 1
    BY DEF Control, Turn
  <2>2. Leading(agenda) <=> LinkSteps(rest) > 0
    BY <1>1, <1>3 DEF Leading
  <2>3. QED
    BY <1>1, <1>3, <2>1, <2>2
<1>5. /\ LinkSteps(agenda') = LinkSteps(rest)
      /\ agenda' = rest \/ (HeadDo(agenda') = do /\ Tail(agenda') = rest)
      /\ agenda' \in Seq(OfNewest)
  <2>1. x.id \in 1..Newest /\ do \in {"connection", "finish"} /\ GoesStep(do, x.id, FALSE, rest)
    <3>1. x.id \in 1..Newest
      BY <1>1, <1>2
    <3>2. QED
      BY <3>1 DEF Stepping
  <2>2. /\ LinkSteps(agenda') = LinkSteps(rest)
        /\ agenda' = rest \/ (HeadDo(agenda') = do /\ Tail(agenda') = rest)
        /\ x.id = Newest /\ rest \in Seq(OfNewest) => agenda' \in Seq(OfNewest)
    BY <2>1, SteppedTurn
  <2>3. QED
    BY <1>1, <1>2, <2>2
<1>6. do \in {"connection", "finish"}
  BY DEF Stepping
<1>7. HeadDo(agenda') \notin {"cbs", "force"} /\ ~Leading(agenda')
      /\ HeadDo(agenda') \in Following \cup {"-"} \cup {"connection", "finish"}
  <2>1. HeadDo(rest) \notin {"cbs", "force"}
    BY <1>1 DEF Following, OwnerMethods, Tellings
  <2>2. HeadDo(agenda') \notin {"cbs", "force"}
    BY <1>5, <1>6, <2>1
  <2>3. QED
    BY <1>1, <1>4, <1>5, <1>6, <2>2 DEF Leading
<1>8. TurnsOn
  BY <1>1, <1>5, <1>7 DEF TurnsOn, LeadingSteps
<1>9. HoldsOn
  <2>1. links["cbs"].phase \in {"none", "detaching", "detached"}
    BY <1>1 DEF Control, Unlinked
  <2>2. links' = links
    BY DEF Stepping
  <2>3. QED
    BY <1>1, <1>2, <2>1, <2>2 DEF HoldsOn, Stepping
<1>10. WaitsOn
  <2>1. \A v \in DOMAIN rundowns :
          /\ rundowns[v].waits = "links" => rundowns[v].timer
          /\ ~(rundowns[v].waits # "-" /\ rundowns[v].timer)
          /\ rundowns[v].callback >= 0
    BY <1>1, <1>3, <1>4 DEF Control, Waiting, Owners
  <2>2. LinkSteps(agenda') = 0 /\ Newest > 0
    BY <1>1, <1>4, <1>5
  <2>3. QED
    BY <1>2, <1>7, <2>1, <2>2 DEF WaitsOn, Stepping
<1>11. DOMAIN rundowns' = DOMAIN rundowns /\ UNCHANGED <<state, deferred, rhea, heard>>
  BY DEF Stepping
<1>12. QED
  BY <1>8, <1>9, <1>10, <1>11, RunsOn

\* A machine that has done with the rundown lets it take such a step.
LEMMA SteppedIdle ==
  ASSUME Typed, Budget, Control, NEW x, NEW rest, Takes(x, rest), Newest' = Newest,
         state \in {"disconnected", "connecting"}, x.do \in {"session", "connection"},
         NEW do, Stepping(x, rest, do), UNCHANGED thrown,
         state = "connecting" => /\ agenda' = rest /\ net'[conn] = net[conn]
                                 /\ connectionCallback' = connectionCallback
  PROVE  Control'
<1>1. /\ rest \in Seq(Do(Following)) /\ HeadDo(rest) \in Following \cup {"-"}
      /\ rest # <<>> => Tail(rest) \in Seq(Do(Following))
  BY Behind DEF Control
<1>2. /\ LinkSteps(rest) = 0
      /\ \A v \in DOMAIN rundowns :
           rundowns[v].callback >= 0 /\ ~rundowns[v].timer /\ rundowns[v].waits # "links"
  BY Idle
<1>3. x.id \in 1..Newest /\ -x.id < 0 /\ x.do \in Steps
  BY StepOwner DEF Steps
<1>4. /\ LinkSteps(agenda') = LinkSteps(rest)
      /\ agenda' = rest \/ (HeadDo(agenda') = do /\ Tail(agenda') = rest)
  <2>1. do \in {"connection", "finish"} /\ GoesStep(do, x.id, FALSE, rest)
    BY DEF Stepping
  <2>2. QED
    BY <1>3, <2>1, SteppedTurn
<1>5. sessionCallback <= 0 /\ (state = "disconnected" => connectionCallback <= 0)
  BY DEF Control, Owners
<1>6. IdlesOn
  <2>1. /\ HeadDo(agenda') \in Following \cup {"-"}
             \cup (IF state = "disconnected" THEN {"connection", "finish"} ELSE {})
        /\ agenda' # <<>> => Tail(agenda') \in Seq(Do(Following))
        /\ LinkSteps(agenda') = 0
    BY <1>1, <1>2, <1>4 DEF Stepping
  <2>2. /\ connectionCallback' = connectionCallback \/ (state = "disconnected" /\ connectionCallback' <= 0)
        /\ sessionCallback' <= 0
    BY <1>3, <1>5 DEF Stepping
  <2>3. \A v \in DOMAIN rundowns' :
          rundowns'[v].callback >= 0 /\ ~rundowns'[v].timer /\ rundowns'[v].waits # "links"
    BY <1>2 DEF Stepping
  <2>4. /\ state = "connecting" => net'[conn] = net[conn]
        /\ \A c \in Conns :
             net'[c].up = net[c].up /\ (net'[c].sess = "opening" => net[c].sess = "opening")
    BY DEF Stepping
  <2>5. QED
    BY <2>1, <2>2, <2>3, <2>4 DEF IdlesOn
<1>7. UNCHANGED <<state, deferred, rhea, heard, links, thrown, disconnectionOccurred,
                  sessionCloseOccurred>>
  BY DEF Stepping, occurred
<1>8. QED
  BY <1>3, <1>6, <1>7, IdleControl

\* Such a step keeps the invariant.
LEMMA SteppedStep ==
  ASSUME Inv, NEW x, NEW rest, Takes(x, rest), x.do \in {"session", "connection"},
         NEW do, Stepping(x, rest, do), Calm, Newest' = Newest,
         net' \in [Conns -> Nets], rundowns' \in Seq(Rundowns(Newest)),
         LateHasNoTimer', LateRundown' <=> LateRundown,
         \A i \in Nat \ {0} : InRundowns(i)' = InRundowns(i),
         ~LateRundown /\ Control => Control'
  PROVE  Inv'
<1>1. Typed /\ Budget
  BY DEF Inv
<1>2. /\ x.id \in 1..Newest /\ -x.id \in Owner /\ -(-x.id) <= Newest /\ -x.id < 0 /\ ~Entering
      /\ Newest \in 0..MaxConns
  BY <1>1, StepOwner DEF Steps
<1>3. /\ agenda' \in Turns(Newest') /\ ~Entering' /\ Connects(agenda') = Connects(rest)
      /\ \E new : GoesOn(new, rest) /\ \A i \in Nat \ {0} : Count(new, Of(i)) = 0
  BY <1>1, <1>2, SteppedTurn DEF Stepping
<1>4. PICK new : GoesOn(new, rest) /\ \A i \in Nat \ {0} : Count(new, Of(i)) = 0
  BY <1>3
<1>5. Typed'
  <2>1. /\ connectionCallback' \in Owner /\ -connectionCallback' <= Newest
        /\ sessionCallback' \in Owner /\ -sessionCallback' <= Newest
    BY <1>1, <1>2 DEF Stepping, Typed
  <2>2. UNCHANGED <<state, deferred, heard, links, requests, conn, session, disconnectionOccurred,
                    sessionCloseOccurred, connectionCloseOccurred>>
    BY DEF Stepping, rhea, occurred
  <2>3. QED
    BY <1>1, <1>3, <2>1, <2>2 DEF Typed, Calm
<1>6. ASSUME ~LateRundown, Control PROVE Carries(x, new)
  <2>1. ASSUME NEW i \in Nat \ {0}
        PROVE  Count(new, Of(i)) + InCallbacks(i)' + InLinks(i)' + InRundowns(i)' + InClosure(i)' + Told(i)'
                 <= One(x.id = i /\ x.do \notin Steps) + InCallbacks(i) + InLinks(i) + InRundowns(i)
                      + InClosure(i) + Told(i)
    <3>1. InLinks(i)' = InLinks(i) /\ Told(i)' = Told(i)
      BY DEF InLinks, Told, Stepping
    <3>2. InClosure(i)' = InClosure(i)
      <4>1. Running' <=> Running
        BY <1>2, <1>3 DEF Running, Stepping
      <4>2. Running => Newest \in DOMAIN rundowns
        <5>1. Running => Newest > 0
          BY <1>6 DEF Control, Waiting
        <5>2. DOMAIN rundowns = 1..Newest
          BY <1>1, LenProperties DEF Typed, Newest
        <5>3. QED
          BY <1>2, <5>1, <5>2
      <4>3. Running => rundowns'[Newest].callback = rundowns[Newest].callback
        BY <4>2 DEF Stepping
      <4>4. QED
        BY <4>1, <4>3 DEF InClosure
    <3>3. InCallbacks(i)' <= InCallbacks(i) /\ InCallbacks(i)' \in Nat
      <4>1. -x.id # i
        BY <1>2
      <4>2. QED
        BY <4>1 DEF InCallbacks, One, Stepping
    <3>4. /\ InClosure(i) \in Nat /\ One(x.id = i /\ x.do \notin Steps) \in Nat
          /\ Count(new, Of(i)) = 0
      BY <1>4 DEF InClosure, One
    <3>5. InCallbacks(i) \in Nat /\ InLinks(i) \in Nat /\ InRundowns(i) \in Nat /\ Told(i) \in Nat
      BY <1>1, PlacesNat
    <3>6. InRundowns(i)' = InRundowns(i)
      OBVIOUS
    <3> DEFINE b == InCallbacks(i)  l == InLinks(i)  r == InRundowns(i)  z == InClosure(i)
               t == Told(i)  o == One(x.id = i /\ x.do \notin Steps)  n == Count(new, Of(i))
               c == InCallbacks(i)'
    <3>7. /\ b \in Nat /\ l \in Nat /\ r \in Nat /\ z \in Nat /\ t \in Nat /\ o \in Nat
          /\ n = 0 /\ c \in Nat /\ c <= b
      BY <3>3, <3>4, <3>5
    <3>8. InLinks(i)' = l /\ InRundowns(i)' = r /\ InClosure(i)' = z /\ Told(i)' = t
      BY <3>1, <3>2, <3>6
    <3> HIDE DEF b, l, r, z, t, o, n, c
    <3>9. n + c + l + r + z + t <= o + b + l + r + z + t
      BY <3>7
    <3>10. QED
      BY <3>8, <3>9 DEF b, l, r, z, t, o, n, c
  <2>2. QED
    BY <2>1 DEF Carries
<1>7. /\ Connections' = Connections /\ DOMAIN requests' = DOMAIN requests
      /\ UNCHANGED <<state, deferred, rhea>> /\ x.do # "enter"
  BY DEF Stepping, Connections
<1>8. QED
  BY <1>3, <1>4, <1>5, <1>6, <1>7, StaysStep

\* Rundowns, links and calls that stay as they are hold what they held.
LEMMA SameRundowns ==
  ASSUME UNCHANGED rundowns
  PROVE  \A i \in Nat \ {0} : InRundowns(i)' = InRundowns(i)
BY DEF InRundowns

\* The session ends in a rundown.
LEMMA RundownSessionStep ==
  ASSUME Inv, NEW x, NEW rest, Takes(x, rest), x.do = "session", RundownSession(x.id, rest), Calm
  PROVE  Inv'
<1>1. Typed /\ Budget /\ LateHasNoTimer
  BY DEF Inv
<1>2. x.id \in 1..Newest /\ HeadDo(agenda) = "session" /\ ~Entering
  BY <1>1, StepOwner DEF Steps
<1>3. UNCHANGED <<state, deferred, connectionCallback, occurred, rhea, heard, links, rundowns, requests>>
  BY DEF RundownSession
<1>4. /\ Newest' = Newest /\ DOMAIN rundowns' = DOMAIN rundowns
      /\ LateHasNoTimer' /\ (LateRundown' <=> LateRundown)
  BY <1>1, <1>3, RundownsSame
<1>5. /\ net' \in [Conns -> Nets] /\ \A d \in Conns \ {session} : net'[d] = net[d]
      /\ \A d \in Conns :
           /\ net'[d].up = net[d].up
           /\ net'[d].sess = "opening" => net[d].sess = "opening"
           /\ net'[d].conn = "opening" => net[d].conn = "opening"
  <2>1. net \in [Conns -> Nets]
    BY <1>1 DEF Typed
  <2>2. CASE net' = net
    BY <2>1, <2>2
  <2>3. CASE net' = [net EXCEPT ![session].sess = IF @ \in {"opening", "open"} THEN "closing" ELSE @]
    BY <2>1, <2>3, NetClosing
  <2>4. QED
    BY <2>2, <2>3 DEF RundownSession
<1>6. Stepping(x, rest, "connection")
  <2>1. GoesStep("connection", x.id, FALSE, rest)
    BY DEF RundownSession, GoesStep
  <2>2. sessionCallback' \in {sessionCallback, -x.id}
    BY DEF RundownSession
  <2>3. QED
    BY <1>3, <1>4, <1>5, <2>1, <2>2 DEF Stepping
<1>7. ASSUME ~LateRundown, Control PROVE Control'
  <2>1. Running \/ state \in {"disconnected", "connecting"}
    <3>1. SessionSteps(agenda) > 0
      <4>1. SessionSteps(agenda) = 1 + SessionSteps(rest) /\ SessionSteps(rest) \in Nat
        BY <1>1, TurnFacts DEF Begins, Rest, Numbers, One
      <4>2. QED
        BY <4>1
    <3>2. QED
      BY <1>7, <3>1 DEF Control, Turn
  <2>2. CASE Running
    <3>1. NeverOpened'
      <4>1. session = conn /\ conn \in Conns
        <5>1. session = conn
          BY <1>7, <2>2 DEF Control, Network, Running
        <5>2. conn \in 0..MaxConns /\ Newest \in 0..MaxConns /\ Newest > 0 /\ Newest + One(Underway) <= conn
          BY <1>1, <1>7, <2>2, NewestBound DEF Typed, Budget, Control, Waiting
        <5>3. One(Underway) \in Nat /\ MaxConns \in Nat
          BY Bounds DEF One
        <5>4. conn \in Nat /\ 1 <= conn /\ conn <= MaxConns
          BY <5>2, <5>3
        <5>5. QED
          BY <5>1, <5>4, Bounds
      <4>2. ~(net'[conn].up /\ net'[conn].sess = "opening")
        <5>1. CASE disconnectionOccurred
          <6>1. ~(net[conn].up /\ net[conn].sess = "opening")
            BY <1>7, <2>2, <5>1 DEF Control, NeverOpened, Running
          <6>2. QED
            BY <1>5, <4>1, <6>1
        <5>2. CASE ~disconnectionOccurred
          <6>1. net' = [net EXCEPT ![session].sess = IF @ \in {"opening", "open"} THEN "closing" ELSE @]
            BY <5>2 DEF RundownSession
          <6>2. net \in [Conns -> Nets]
            BY <1>1 DEF Typed
          <6>3. net'[conn].sess # "opening"
            BY <4>1, <6>1, <6>2 DEF Nets
          <6>4. QED
            BY <6>3
        <5>3. QED
          BY <5>1, <5>2
      <4>3. QED
        BY <1>3, <4>2 DEF NeverOpened, rhea
    <3>2. QED
      BY <1>1, <1>4, <1>6, <1>7, <2>2, <3>1, SteppedControl DEF Calm
  <2>3. CASE state \in {"disconnected", "connecting"}
    <3>1. ASSUME state = "connecting"
          PROVE  agenda' = rest /\ net'[conn] = net[conn] /\ connectionCallback' = connectionCallback
      <4>1. ~disconnectionOccurred /\ ~sessionCloseOccurred /\ session < conn
        BY <1>2, <1>7, <3>1 DEF Control, Owners, Network
      <4>2. agenda' = rest
        BY <4>1 DEF RundownSession
      <4>3. conn \in Conns
        BY <1>1, <1>2, <3>1, UnderwayConn DEF Underway
      <4>4. session # conn
        BY <4>1, <4>3, Bounds
      <4>5. QED
        BY <1>3, <1>5, <4>2, <4>3, <4>4
    <3>2. QED
      BY <1>1, <1>4, <1>6, <1>7, <2>3, <3>1, SteppedIdle DEF Calm
  <2>4. QED
    BY <2>1, <2>2, <2>3
<1>8. rundowns' \in Seq(Rundowns(Newest))
  BY <1>1, <1>3 DEF Typed
<1>9. QED
  BY <1>3, <1>4, <1>5, <1>6, <1>7, <1>8, SameRundowns, SteppedStep

\* A rundown that has met an error.
LEMMA ErrSet ==
  ASSUME Typed, Budget, LateHasNoTimer, NEW v \in 1..Newest, NEW err \in BOOLEAN,
         Errs(v, err)
  PROVE  /\ rundowns' \in Seq(Rundowns(Newest)) /\ Newest' = Newest
         /\ DOMAIN rundowns' = DOMAIN rundowns
         /\ \A w \in DOMAIN rundowns :
              /\ w # v => rundowns'[w] = rundowns[w]
              /\ rundowns'[w].callback = rundowns[w].callback
              /\ rundowns'[w].timer = rundowns[w].timer /\ rundowns'[w].late = rundowns[w].late
              /\ rundowns'[w].waits = rundowns[w].waits /\ rundowns'[w].links = rundowns[w].links
         /\ LateHasNoTimer' /\ (LateRundown' <=> LateRundown)
         /\ \A i \in Nat \ {0} : InRundowns(i)' = InRundowns(i)
<1> DEFINE r == [rundowns[v] EXCEPT !.err = rundowns[v].err \/ err]
<1>1. rundowns \in Seq(Rundowns(Newest)) /\ v \in DOMAIN rundowns /\ v \in 1..Len(rundowns)
  BY LenProperties DEF Typed, Newest
<1>2. rundowns[v] \in Rundowns(Newest)
  BY <1>1, ElementOfSeq
<1>3. rundowns' = [rundowns EXCEPT ![v] = r]
  BY DEF Errs
<1>4. /\ r \in Rundowns(Newest) /\ r.callback = rundowns[v].callback /\ r.timer = rundowns[v].timer
      /\ r.late = rundowns[v].late /\ r.waits = rundowns[v].waits /\ r.links = rundowns[v].links
  BY <1>2 DEF Rundowns
<1> HIDE DEF r
<1>5. /\ rundowns' \in Seq(Rundowns(Newest)) /\ Newest' = Newest
      /\ DOMAIN rundowns' = DOMAIN rundowns
      /\ rundowns'[v] = r /\ \A w \in DOMAIN rundowns : w # v => rundowns'[w] = rundowns[w]
      /\ \A i \in Nat \ {0} :
           InRundowns(i)' + One(rundowns[v].links["sender"].op = i)
                          + One(rundowns[v].links["receiver"].op = i)
             = InRundowns(i) + One(r.links["sender"].op = i) + One(r.links["receiver"].op = i)
  <2>1. Replaces(v, r)
    BY <1>3 DEF Replaces
  <2>2. Replaced(v, r)
    BY <1>4, <2>1, RundownSet
  <2>3. QED
    BY <2>2 DEF Replaced
<1>6. \A w \in DOMAIN rundowns :
        /\ w # v => rundowns'[w] = rundowns[w]
        /\ rundowns'[w].callback = rundowns[w].callback
        /\ rundowns'[w].timer = rundowns[w].timer /\ rundowns'[w].late = rundowns[w].late
        /\ rundowns'[w].waits = rundowns[w].waits /\ rundowns'[w].links = rundowns[w].links
  BY <1>4, <1>5
<1>7. LateHasNoTimer' /\ (LateRundown' <=> LateRundown)
  BY <1>5, <1>6 DEF LateHasNoTimer, LateRundown
<1>8. ASSUME NEW i \in Nat \ {0} PROVE InRundowns(i)' = InRundowns(i)
  <2>1. InRundowns(i) \in Nat
    BY PlacesNat
  <2>2. InRundowns(i)' \in Nat
    <3>1. rundowns' \in Seq(Rundowns(Newest))
      BY <1>5
    <3>2. \A S : Count(rundowns', S) \in Nat
      BY <3>1, CountNat
    <3>3. QED
      BY <3>2 DEF InRundowns
  <2>3. One(r.links["sender"].op = i) \in Nat /\ One(r.links["receiver"].op = i) \in Nat
    BY DEF One
  <2>4. QED
    BY <1>4, <1>5, <2>1, <2>2, <2>3
<1>9. QED
  BY <1>5, <1>6, <1>7, <1>8

\* The connection ends in a rundown.
LEMMA RundownConnectionStep ==
  ASSUME Inv, NEW x, NEW rest, Takes(x, rest), x.do = "connection",
         RundownConnection(x.id, x.err, rest), Calm
  PROVE  Inv'
<1>1. Typed /\ Budget /\ LateHasNoTimer
  BY DEF Inv
<1>2. x.id \in 1..Newest /\ HeadDo(agenda) = "connection" /\ ~Entering /\ x.err \in BOOLEAN
  BY <1>1, StepOwner DEF Steps
<1>3. UNCHANGED <<state, deferred, sessionCallback, occurred, rhea, heard, links, requests>>
  BY DEF RundownConnection
<1>4. /\ rundowns' \in Seq(Rundowns(Newest)) /\ Newest' = Newest
      /\ DOMAIN rundowns' = DOMAIN rundowns
      /\ \A w \in DOMAIN rundowns :
           /\ w # x.id => rundowns'[w] = rundowns[w]
           /\ rundowns'[w].callback = rundowns[w].callback
           /\ rundowns'[w].timer = rundowns[w].timer /\ rundowns'[w].late = rundowns[w].late
           /\ rundowns'[w].waits = rundowns[w].waits /\ rundowns'[w].links = rundowns[w].links
      /\ LateHasNoTimer' /\ (LateRundown' <=> LateRundown)
      /\ \A i \in Nat \ {0} : InRundowns(i)' = InRundowns(i)
  <2>1. Errs(x.id, x.err)
    BY DEF RundownConnection, Errs
  <2>2. QED
    BY <1>1, <1>2, <2>1, ErrSet
<1>5. /\ net' \in [Conns -> Nets]
      /\ \A d \in Conns :
           /\ net'[d].up = net[d].up
           /\ net'[d].sess = "opening" => net[d].sess = "opening"
           /\ net'[d].conn = "opening" => net[d].conn = "opening"
  <2>1. net \in [Conns -> Nets]
    BY <1>1 DEF Typed
  <2>2. CASE net' = net
    BY <2>1, <2>2
  <2>3. CASE net' = [net EXCEPT ![conn].conn = IF @ \in {"opening", "open"} THEN "closing" ELSE @]
    BY <2>1, <2>3, NetClosing
  <2>4. QED
    BY <2>2, <2>3 DEF RundownConnection
<1>6. Stepping(x, rest, "finish")
  <2>1. GoesStep("finish", x.id, FALSE, rest)
    BY DEF RundownConnection, GoesStep
  <2>2. connectionCallback' \in {connectionCallback, -x.id}
    BY DEF RundownConnection
  <2>3. QED
    BY <1>3, <1>4, <1>5, <2>1, <2>2 DEF Stepping
<1>7. ASSUME ~LateRundown, Control PROVE Control'
  <2>1. Running \/ state = "disconnected"
    BY <1>2, <1>7 DEF Control, Turn
  <2>2. CASE Running
    <3>1. NeverOpened'
      <4>1. state = "disconnecting" => ~(net[conn].up /\ net[conn].sess = "opening")
        BY <1>2, <1>7 DEF Control, NeverOpened
      <4>2. state = "disconnecting" => conn \in Conns
        <5>1. conn \in 0..MaxConns /\ Newest \in 0..MaxConns /\ Newest > 0 /\ Newest + One(Underway) <= conn
          BY <1>1, <1>7, <2>2, NewestBound DEF Typed, Budget, Control, Waiting
        <5>2. One(Underway) \in Nat /\ MaxConns \in Nat
          BY Bounds DEF One
        <5>3. conn \in Nat /\ 1 <= conn /\ conn <= MaxConns
          BY <5>1, <5>2
        <5>4. QED
          BY <5>3, Bounds
      <4>3. state = "disconnecting" => ~(net'[conn].up /\ net'[conn].sess = "opening")
        BY <1>5, <4>1, <4>2
      <4>4. QED
        BY <1>3, <4>3 DEF NeverOpened, rhea
    <3>2. QED
      BY <1>1, <1>4, <1>6, <1>7, <2>2, <3>1, SteppedControl DEF Calm
  <2>3. CASE state = "disconnected"
    BY <1>1, <1>4, <1>6, <1>7, <2>3, SteppedIdle DEF Calm
  <2>4. QED
    BY <2>1, <2>2, <2>3
<1>8. QED
  BY <1>4, <1>5, <1>6, <1>7, SteppedStep

\* A rundown that has stopped its timer.
LEMMA StopSet ==
  ASSUME Typed, Budget, LateHasNoTimer, NEW v \in 1..Newest, Stops(v)
  PROVE  /\ rundowns' \in Seq(Rundowns(Newest)) /\ Newest' = Newest
         /\ DOMAIN rundowns' = DOMAIN rundowns
         /\ ~rundowns'[v].timer
         /\ \A w \in DOMAIN rundowns :
              /\ w # v => rundowns'[w] = rundowns[w]
              /\ rundowns'[w].callback = rundowns[w].callback
              /\ rundowns'[w].late = rundowns[w].late
              /\ rundowns'[w].waits = rundowns[w].waits /\ rundowns'[w].links = rundowns[w].links
         /\ LateHasNoTimer' /\ (LateRundown' <=> LateRundown)
         /\ \A i \in Nat \ {0} : InRundowns(i)' = InRundowns(i)
<1> DEFINE r == [rundowns[v] EXCEPT !.timer = FALSE]
<1>1. rundowns \in Seq(Rundowns(Newest)) /\ v \in DOMAIN rundowns /\ v \in 1..Len(rundowns)
  BY LenProperties DEF Typed, Newest
<1>2. rundowns[v] \in Rundowns(Newest)
  BY <1>1, ElementOfSeq
<1>3. rundowns' = [rundowns EXCEPT ![v] = r]
  BY DEF Stops
<1>4. /\ r \in Rundowns(Newest) /\ r.callback = rundowns[v].callback /\ r.timer = FALSE
      /\ r.late = rundowns[v].late /\ r.waits = rundowns[v].waits /\ r.links = rundowns[v].links
  BY <1>2 DEF Rundowns
<1> HIDE DEF r
<1>5. /\ rundowns' \in Seq(Rundowns(Newest)) /\ Newest' = Newest
      /\ DOMAIN rundowns' = DOMAIN rundowns
      /\ rundowns'[v] = r /\ \A w \in DOMAIN rundowns : w # v => rundowns'[w] = rundowns[w]
      /\ \A i \in Nat \ {0} :
           InRundowns(i)' + One(rundowns[v].links["sender"].op = i)
                          + One(rundowns[v].links["receiver"].op = i)
             = InRundowns(i) + One(r.links["sender"].op = i) + One(r.links["receiver"].op = i)
  <2>1. Replaces(v, r)
    BY <1>3 DEF Replaces
  <2>2. Replaced(v, r)
    BY <1>4, <2>1, RundownSet
  <2>3. QED
    BY <2>2 DEF Replaced
<1>6. /\ ~rundowns'[v].timer
      /\ \A w \in DOMAIN rundowns :
           /\ w # v => rundowns'[w] = rundowns[w]
           /\ rundowns'[w].callback = rundowns[w].callback
           /\ rundowns'[w].late = rundowns[w].late
           /\ rundowns'[w].waits = rundowns[w].waits /\ rundowns'[w].links = rundowns[w].links
  BY <1>4, <1>5
<1>7. LateHasNoTimer' /\ (LateRundown' <=> LateRundown)
  BY <1>5, <1>6 DEF LateHasNoTimer, LateRundown
<1>8. ASSUME NEW i \in Nat \ {0} PROVE InRundowns(i)' = InRundowns(i)
  <2>1. InRundowns(i) \in Nat
    BY PlacesNat
  <2>2. InRundowns(i)' \in Nat
    <3>1. rundowns' \in Seq(Rundowns(Newest))
      BY <1>5
    <3>2. \A S : Count(rundowns', S) \in Nat
      BY <3>1, CountNat
    <3>3. QED
      BY <3>2 DEF InRundowns
  <2>3. One(r.links["sender"].op = i) \in Nat /\ One(r.links["receiver"].op = i) \in Nat
    BY DEF One
  <2>4. QED
    BY <1>4, <1>5, <2>1, <2>2, <2>3
<1>9. QED
  BY <1>5, <1>6, <1>7, <1>8

\* A rundown that ends finds nothing more to do.
LEMMA FinishFacts ==
  ASSUME Typed, Budget, Control, NEW x, NEW rest, Takes(x, rest), x.do = "finish",
         state # "disconnected"
  PROVE  /\ Running /\ x.id = Newest /\ ~thrown /\ Newest \in 1..MaxConns
         /\ LinkSteps(rest) = 0
         /\ connectionCallback <= 0 /\ sessionCallback <= 0 /\ heard = {conn}
         /\ links["sender"] = NoLink /\ links["receiver"] = NoLink
         /\ links["cbs"].phase \in {"none", "detaching", "detached"}
         /\ \A c \in Conns : ~(net[c].up /\ net[c].sess = "opening")
         /\ \A v \in DOMAIN rundowns :
              /\ rundowns[v].callback >= 0 /\ rundowns[v].waits # "links"
              /\ v # Newest => ~rundowns[v].timer
<1>1. HeadDo(agenda) = "finish"
  BY ItemOwner
<1>2. Running
  BY <1>1 DEF Control, Turn
<1>3. /\ state = "disconnecting" /\ ~thrown /\ Newest \in 1..MaxConns /\ x.id = Newest
      /\ LinkSteps(rest) \in Nat /\ SessionSteps(rest) \in Nat
      /\ LinkSteps(agenda) = One(x.do = "links") + LinkSteps(rest)
      /\ SessionSteps(agenda) = One(x.do = "session") + SessionSteps(rest)
      /\ Load(agenda) = One(x.do \in LeadingSteps) + LinkSteps(agenda) + SessionSteps(agenda)
      /\ connectionCallback \in {None, -Newest} /\ sessionCallback \in {None, -Newest}
  BY <1>2, RunningFacts DEF Steps
<1>4. Load(agenda) > 0 /\ (LinkSteps(rest) > 0 => Load(agenda) > 1) /\ LinkSteps(agenda) = LinkSteps(rest)
  BY <1>3 DEF One, LeadingSteps
<1>5. LinkSteps(rest) = 0 /\ ~Leading(agenda)
  <2>1. Leading(agenda) => Load(agenda) = 1
    BY DEF Control, Turn
  <2>2. Leading(agenda) <=> LinkSteps(rest) > 0
    BY <1>1, <1>4 DEF Leading
  <2>3. QED
    BY <1>3, <1>4, <2>1, <2>2
<1>6. connectionCallback <= 0 /\ sessionCallback <= 0
  <2>1. MaxConns \in Nat /\ None = 0
    BY Bounds
  <2>2. QED
    BY <1>3, <2>1
<1>7. heard = {conn}
  BY <1>3 DEF Control, Listening, Connected
<1>8. /\ links["sender"] = NoLink /\ links["receiver"] = NoLink
      /\ links["cbs"].phase \in {"none", "detaching", "detached"}
  BY <1>1, <1>2 DEF Control, Unlinked
<1>9. \A c \in Conns : ~(net[c].up /\ net[c].sess = "opening")
  <2>1. ~(net[conn].up /\ net[conn].sess = "opening")
    BY <1>1, <1>3 DEF Control, NeverOpened
  <2>2. QED
    BY <2>1 DEF Control, Network
<1>10. ASSUME NEW v \in DOMAIN rundowns
       PROVE  /\ rundowns[v].callback >= 0 /\ rundowns[v].waits # "links"
              /\ v # Newest => ~rundowns[v].timer
  <2>1. rundowns[v].callback >= 0
    BY DEF Control, Owners
  <2>2. /\ rundowns[v].timer => v = Newest
        /\ rundowns[v].waits = "links" => rundowns[v].timer
        /\ ~(rundowns[v].waits # "-" /\ rundowns[v].timer)
    BY <1>3, <1>4, <1>5 DEF Control, Waiting
  <2>3. QED
    BY <2>1, <2>2
<1>11. QED
  BY <1>2, <1>3, <1>5, <1>6, <1>7, <1>8, <1>9, <1>10

\* A rundown ends: the machine is disconnected, if it was not before.
LEMMA RundownFinishStep ==
  ASSUME Inv, NEW x, NEW rest, Takes(x, rest), x.do = "finish",
         RundownFinish(x.id, x.err, rest), Calm
  PROVE  Inv'
<1>1. Typed /\ Budget /\ LateHasNoTimer
  BY DEF Inv
<1>2. x.id \in 1..Newest /\ HeadDo(agenda) = "finish" /\ ~Entering /\ x.err \in BOOLEAN
      /\ Newest \in 0..MaxConns
  BY <1>1, StepOwner DEF Steps
<1>3. /\ UNCHANGED <<deferred, callbacks, occurred, rhea, links, net, requests>>
      /\ heard' = heard \ {conn}
      /\ Transition("disconnected", rundowns[x.id].callback, rundowns[x.id].err \/ x.err, rest)
  BY DEF RundownFinish
<1>4. /\ rundowns' \in Seq(Rundowns(Newest)) /\ Newest' = Newest
      /\ DOMAIN rundowns' = DOMAIN rundowns
      /\ ~rundowns'[x.id].timer
      /\ \A w \in DOMAIN rundowns :
           /\ w # x.id => rundowns'[w] = rundowns[w]
           /\ rundowns'[w].callback = rundowns[w].callback
           /\ rundowns'[w].late = rundowns[w].late
           /\ rundowns'[w].waits = rundowns[w].waits /\ rundowns'[w].links = rundowns[w].links
      /\ LateHasNoTimer' /\ (LateRundown' <=> LateRundown)
      /\ \A i \in Nat \ {0} : InRundowns(i)' = InRundowns(i)
  <2>1. Stops(x.id)
    BY DEF RundownFinish, Stops
  <2>2. QED
    BY <1>1, <1>2, <2>1, StopSet
<1>5. /\ DOMAIN rundowns = 1..Newest /\ x.id \in DOMAIN rundowns
      /\ rundowns[x.id] \in Rundowns(Newest)
  <2>1. rundowns \in Seq(Rundowns(Newest))
    BY <1>1 DEF Typed
  <2>2. DOMAIN rundowns = 1..Newest
    BY <2>1, LenProperties DEF Newest
  <2>3. QED
    BY <1>2, <2>1, <2>2, ElementOfSeq
<1>6. heard' \in SUBSET Conns /\ heard \in SUBSET Conns
  BY <1>1, <1>3 DEF Typed
<1>7. CASE state # "disconnected"
  <2> DEFINE id == rundowns[x.id].callback
             err == rundowns[x.id].err \/ x.err
  <2>1. id \in Owner /\ -id <= Newest /\ err \in BOOLEAN
    BY <1>2, <1>5 DEF Rundowns
  <2>2. Transition("disconnected", id, err, rest)
    BY <1>3
  <2> HIDE DEF err
  <2>3. Leaves(x, id, err, "disconnected")
    <3>1. "disconnected" \in ConnectionStates
      BY DEF ConnectionStates
    <3>2. UNCHANGED <<connectionCallback, sessionCallback, disconnectionOccurred, sessionCloseOccurred,
                      connectionCloseOccurred>>
      BY <1>3 DEF callbacks, occurred
    <3>3. Len(rundowns') = Len(rundowns)
      BY <1>4 DEF Newest
    <3> HIDE DEF id
    <3>4. QED
      BY <1>1, <1>3, <1>4, <1>6, <1>7, <2>1, <3>1, <3>2, <3>3 DEF Leaves, Typed, Calm
  <2>4. ASSUME ~LateRundown, Control
        PROVE  Reaches("disconnected") /\ Brings(x, rest, id, "disconnected") /\ Passes(x, id)
    <3>1. /\ Running /\ x.id = Newest /\ ~thrown /\ Newest \in 1..MaxConns
          /\ LinkSteps(rest) = 0
          /\ connectionCallback <= 0 /\ sessionCallback <= 0 /\ heard = {conn}
          /\ links["sender"] = NoLink /\ links["receiver"] = NoLink
          /\ links["cbs"].phase \in {"none", "detaching", "detached"}
          /\ \A c \in Conns : ~(net[c].up /\ net[c].sess = "opening")
          /\ \A v \in DOMAIN rundowns :
               /\ rundowns[v].callback >= 0 /\ rundowns[v].waits # "links"
               /\ v # Newest => ~rundowns[v].timer
      BY <1>1, <1>7, <2>4, FinishFacts
    <3>2. Reaches("disconnected")
      BY <1>3, <3>1 DEF Reaches
    <3>3. Brings(x, rest, id, "disconnected")
      <4>1. id >= 0
        BY <1>5, <3>1
      <4>2. \A v \in DOMAIN rundowns' :
              rundowns'[v].callback >= 0 /\ ~rundowns'[v].timer /\ rundowns'[v].waits # "links"
        BY <1>4, <3>1
      <4>3. connectionCallback' <= 0 /\ sessionCallback' <= 0
        BY <1>3, <3>1 DEF callbacks
      <4>4. QED
        BY <3>1, <4>1, <4>2, <4>3 DEF Brings
    <3>4. Passes(x, id)
      <4>1. ASSUME NEW i \in Nat \ {0}
            PROVE  One(id = i) + InCallbacks(i)' + InRundowns(i)'
                     <= One(x.id = i /\ x.do \notin Steps) + InCallbacks(i) + InRundowns(i) + InClosure(i)
        <5>1. InClosure(i) = One(id = i)
          BY <3>1 DEF InClosure
        <5>2. InCallbacks(i)' = InCallbacks(i) /\ InRundowns(i)' = InRundowns(i)
          BY <1>3, <1>4 DEF InCallbacks, callbacks
        <5>3. InCallbacks(i) \in Nat /\ InRundowns(i) \in Nat
          BY <1>1, PlacesNat
        <5>4. One(x.id = i /\ x.do \notin Steps) \in Nat /\ One(id = i) \in Nat
          BY DEF One
        <5>5. QED
          BY <5>1, <5>2, <5>3, <5>4
      <4>2. QED
        BY <4>1 DEF Passes
    <3>5. QED
      BY <3>2, <3>3, <3>4
  <2> HIDE DEF id
  <2>5. QED
    BY <2>2, <2>3, <2>4, MoveStep
<1>8. CASE state = "disconnected"
  <2>1. state' = state /\ agenda' = rest
    BY <1>3, <1>8 DEF Transition
  <2>2. /\ GoesOn(<<>>, rest) /\ Rest(agenda', Newest) /\ \A i : Count(<<>>, Of(i)) = 0
    BY <1>1, <1>4, <2>1, GoesOnNone
  <2>3. agenda' \in Turns(Newest') /\ ~Entering'
    BY <1>4, <2>2 DEF Rest, Entering
  <2>4. Typed'
    <3>1. UNCHANGED <<connectionCallback, sessionCallback, disconnectionOccurred, sessionCloseOccurred,
                      connectionCloseOccurred, conn, session>>
      BY <1>3 DEF callbacks, occurred, rhea
    <3>2. QED
      BY <1>1, <1>3, <1>4, <1>6, <2>1, <2>3, <3>1 DEF Typed, Calm
  <2>5. ASSUME ~LateRundown, Control PROVE Control' /\ Carries(x, <<>>)
    <3>1. /\ rest \in Seq(Do(Following)) /\ HeadDo(rest) \in Following \cup {"-"}
          /\ rest # <<>> => Tail(rest) \in Seq(Do(Following))
      BY <1>1, <2>5, Behind DEF Control
    <3>2. /\ LinkSteps(rest) = 0
          /\ \A v \in DOMAIN rundowns :
               rundowns[v].callback >= 0 /\ ~rundowns[v].timer /\ rundowns[v].waits # "links"
      BY <1>1, <1>8, <2>5, Idle
    <3>3. heard' = heard
      <4>1. heard = {}
        BY <1>8, <2>5 DEF Control, Listening, Connected
      <4>2. QED
        BY <1>3, <4>1
    <3>4. IdlesOn
      <4>1. \A v \in DOMAIN rundowns' :
              rundowns'[v].callback >= 0 /\ ~rundowns'[v].timer /\ rundowns'[v].waits # "links"
        BY <1>4, <3>2
      <4>2. connectionCallback' <= 0 /\ sessionCallback' <= 0
        BY <1>3, <1>8, <2>5 DEF Control, Owners, callbacks
      <4>3. QED
        BY <1>3, <1>8, <2>1, <3>1, <3>2, <4>1, <4>2 DEF IdlesOn
    <3>5. Control'
      <4>1. UNCHANGED <<state, deferred, rhea, heard, links, thrown, disconnectionOccurred,
                        sessionCloseOccurred>>
        BY <1>3, <2>1, <3>3 DEF occurred, Calm
      <4>2. x.do \in Steps
        BY DEF Steps
      <4>3. QED
        BY <1>1, <1>8, <2>5, <3>4, <4>1, <4>2, IdleControl
    <3>6. ASSUME NEW i \in Nat \ {0}
          PROVE  Count(<<>>, Of(i)) + InCallbacks(i)' + InLinks(i)' + InRundowns(i)' + InClosure(i)' + Told(i)'
                   <= One(x.id = i /\ x.do \notin Steps) + InCallbacks(i) + InLinks(i) + InRundowns(i)
                        + InClosure(i) + Told(i)
      <4>1. InLinks(i)' = InLinks(i) /\ Told(i)' = Told(i) /\ InCallbacks(i)' = InCallbacks(i)
            /\ InRundowns(i)' = InRundowns(i)
        BY <1>3, <1>4 DEF InLinks, Told, InCallbacks, callbacks
      <4>2. InClosure(i)' = 0 /\ InClosure(i) = 0
        BY <1>8, <2>1 DEF InClosure, Running, One
      <4>3. Count(<<>>, Of(i)) = 0 /\ One(x.id = i /\ x.do \notin Steps) \in Nat
        BY <2>2 DEF One
      <4>4. InCallbacks(i) \in Nat /\ InLinks(i) \in Nat /\ InRundowns(i) \in Nat /\ Told(i) \in Nat
        BY <1>1, PlacesNat
      <4>5. QED
        BY <4>1, <4>2, <4>3, <4>4
    <3>7. Carries(x, <<>>)
      BY <3>6 DEF Carries
    <3>8. QED
      BY <3>5, <3>7
  <2>6. /\ Connections' = Connections /\ DOMAIN requests' = DOMAIN requests
        /\ UNCHANGED <<state, deferred, rhea>> /\ Connects(agenda') = Connects(rest)
    BY <1>3, <2>1 DEF Connections
  <2>7. QED
    BY <1>4, <2>2, <2>3, <2>4, <2>5, <2>6, StaysStep
<1>9. QED
  BY <1>7, <1>8

-----------------------------------------------------------------------------
(* The links of a rundown.                                                 *)

\* An item tells one.
LEMMA ToldOne ==
  ASSUME Newest \in 0..MaxConns, NEW op \in 0..MaxRequests, NEW told \in BOOLEAN,
         NEW do \in Tellings, NEW err \in BOOLEAN,
         NEW T, T = IF told THEN <<Item(do, op, err)>> ELSE <<>>
  PROVE  Telling(T, op, told)
<1> DEFINE e == Item(do, op, err)
<1>1. op \in Owner /\ op >= 0
  <2>1. MaxConns \in Nat /\ MaxRequests \in Nat
    BY Bounds
  <2>2. QED
    BY <2>1 DEF Owner
<1>2. e \in Items(Newest) /\ e.do = do /\ e.id = op /\ e \in Later(Newest)
  <2>1. do \notin LeadingSteps \cup {"enter"}
    BY DEF Tellings, LeadingSteps
  <2>2. PICK n : n = Newest
    OBVIOUS
  <2>3. n \in 0..MaxConns /\ do \in PeerEvents \cup Tellings
    BY <2>2
  <2>4. /\ Item(do, op, err) \in Items(n)
        /\ Item(do, op, err).do = do /\ Item(do, op, err).id = op
        /\ do \notin LeadingSteps \cup {"enter"} => Item(do, op, err) \in Later(n)
    BY <1>1, <2>1, <2>3, Bounds DEF Item, Items, Later, Acts, Steps, Tellings
  <2>5. QED
    BY <2>1, <2>2, <2>4
<1> HIDE DEF e
<1>3. e \in Do(Tellings)
  <2>1. MaxConns \in Newest..MaxConns
    <3>1. MaxConns \in Nat
      BY Bounds
    <3>2. QED
      BY <3>1
  <2>2. e \in Items(MaxConns)
    BY <1>2, <2>1, Widened
  <2>3. QED
    BY <1>2, <2>2 DEF Do
<1>4. CASE told
  <2>1. T = <<e>>
    BY <1>4 DEF e
  <2>2. \A i : Count(<<e>>, Of(i)) = One(e.id = i /\ e.do \notin Steps)
    BY <1>2, OneCounted
  <2>3. do \notin Steps
    BY DEF Tellings, Steps
  <2>4. \A i \in Nat \ {0} : Count(T, Of(i)) = One(told /\ op = i)
    BY <1>2, <1>4, <2>1, <2>2, <2>3 DEF One
  <2>5. <<e>> \in Seq(Items(Newest)) /\ <<e>> \in Seq(Later(Newest)) /\ <<e>> \in Seq(Do(Tellings))
    BY <1>2, <1>3
  <2>6. QED
    BY <1>4, <2>1, <2>4, <2>5 DEF Telling
<1>5. CASE ~told
  <2>1. T = <<>>
    BY <1>5
  <2>2. /\ <<>> \in Seq(Items(Newest)) /\ <<>> \in Seq(Later(Newest)) /\ <<>> \in Seq(Do(Tellings))
        /\ \A i : Count(<<>>, Of(i)) = 0
    BY NoTurn
  <2>3. QED
    BY <1>5, <2>1, <2>2 DEF Telling, One
<1>6. QED
  BY <1>4, <1>5

\* One after the other is told.
LEMMA ToldBoth ==
  ASSUME Newest \in 0..MaxConns, NEW S, Tells(S), NEW T, Tells(T)
  PROVE  /\ Tells(S \o T)
         /\ \A i : Count(S \o T, Of(i)) = Count(S, Of(i)) + Count(T, Of(i))
         /\ S = <<>> /\ T = <<>> => S \o T = <<>>
<1>1. /\ S \o T \in Seq(Items(Newest)) /\ S \o T \in Seq(Later(Newest))
      /\ S \o T \in Seq(Do(Tellings))
  BY ConcatProperties DEF Tells
<1>2. \A i : Count(S \o T, Of(i)) = Count(S, Of(i)) + Count(T, Of(i))
  BY CountConcat DEF Tells
<1>3. QED
  BY <1>1, <1>2 DEF Tells

\* Sets of items of different kinds have no item in common.
LEMMA Apart ==
  ASSUME NEW S, NEW U, S \cap U = {}
  PROVE  Do(S) \cap Do(U) = {}
BY DEF Do

\* So a turn goes on.
LEMMA ToldTurn ==
  ASSUME Typed, Budget, NEW x, NEW rest, Takes(x, rest), Newest' = Newest,
         NEW T, Tells(T), NEW s, Onward(s), agenda' = (T \o s) \o rest
  PROVE  ToldOn(T, s, rest)
<1> DEFINE new == T \o s
<1>1. Newest \in 0..MaxConns /\ Rest(rest, Newest) /\ Numbers(rest)
  BY TurnFacts DEF Rest
<1>2. new \in Seq(Items(Newest)) /\ new \in Seq(Later(Newest)) /\ Sums(new, T, s)
  <2>1. T \in Seq(Items(Newest)) /\ s \in Seq(Items(Newest))
        /\ T \in Seq(Later(Newest)) /\ s \in Seq(Later(Newest))
    BY DEF Tells, Onward
  <2>2. new \in Seq(Items(Newest)) /\ Sums(new, T, s)
    BY <1>1, <2>1, Joined
  <2>3. new \in Seq(Later(Newest))
    BY <2>1, ConcatProperties
  <2>4. QED
    BY <2>2, <2>3
<1>3. T \in Seq(Do(Tellings)) /\ s \in Seq(Do({"links", "session"}))
  BY DEF Tells, Onward
<1>4. Connects(T) = 0 /\ LinkSteps(T) = 0 /\ SessionSteps(T) = 0 /\ Closings(T) = 0
  <2>1. /\ Do({"connect"}) \cap Do(Tellings) = {} /\ Do({"links"}) \cap Do(Tellings) = {}
        /\ Do({"session"}) \cap Do(Tellings) = {}
        /\ Do({"session_close", "replay"}) \cap Do(Tellings) = {}
    <3>1. /\ {"connect"} \cap Tellings = {} /\ {"links"} \cap Tellings = {}
          /\ {"session"} \cap Tellings = {} /\ {"session_close", "replay"} \cap Tellings = {}
      BY DEF Tellings
    <3>2. QED
      BY <3>1, Apart
  <2>2. QED
    BY <1>3, <2>1, CountNone DEF Connects, LinkSteps, SessionSteps, Closings
<1>5. Connects(s) = 0 /\ Closings(s) = 0 /\ \A i : Count(s, Of(i)) = 0
  <2>1. /\ Do({"connect"}) \cap Do({"links", "session"}) = {}
        /\ Do({"session_close", "replay"}) \cap Do({"links", "session"}) = {}
    BY Apart
  <2>2. \A i : Of(i) \cap Do({"links", "session"}) = {}
    BY DEF Of, Do, Steps
  <2>3. QED
    BY <1>3, <2>1, <2>2, CountNone DEF Connects, Closings
<1>6. agenda' = new \o rest
  OBVIOUS
<1> HIDE DEF new
<1>7. agenda' \in Turns(Newest) /\ Rest(agenda', Newest) /\ Sums(agenda', new, rest)
  BY <1>1, <1>2, <1>6, LaterTurn
<1>8. /\ Connects(agenda') = Connects(rest) /\ Closings(agenda') = Closings(rest)
      /\ LinkSteps(agenda') = LinkSteps(s) + LinkSteps(rest)
      /\ SessionSteps(agenda') = SessionSteps(s) + SessionSteps(rest)
  <2>1. Numbers(s)
    BY DEF Onward
  <2>2. QED
    BY <1>1, <1>2, <1>4, <1>5, <1>7, <2>1 DEF Sums, Numbers
<1>9. ASSUME NEW i PROVE Count(new, Of(i)) = Count(T, Of(i))
  <2>1. Count(new, Of(i)) = Count(T, Of(i)) + Count(s, Of(i)) /\ Count(s, Of(i)) = 0
    BY <1>2, <1>5 DEF Sums
  <2>2. Count(T, Of(i)) \in Nat
    BY CountNat DEF Tells
  <2>3. QED
    BY <2>1, <2>2
<1>10. ASSUME rest \in Seq(Do(Following)) PROVE agenda' \in Seq(Do(Following))
  <2>1. Do(Tellings) \subseteq Do(Following) /\ Do({"links", "session"}) \subseteq Do(Following)
    BY DEF Do, Following
  <2>2. T \in Seq(Do(Following)) /\ s \in Seq(Do(Following))
    BY <1>3, <2>1, SeqWiden
  <2>3. new \in Seq(Do(Following))
    BY <2>2, ConcatProperties DEF new
  <2>4. QED
    BY <1>6, <1>10, <2>3, ConcatProperties
<1>11. ASSUME rest \in Seq(OfNewest), s \in Seq(OfNewest) PROVE agenda' \in Seq(OfNewest)
  <2>1. Do(Tellings) \subseteq OfNewest
    BY DEF Do, OfNewest, Tellings, Steps
  <2>2. T \in Seq(OfNewest)
    BY <1>3, <2>1, SeqWiden
  <2>3. new \in Seq(OfNewest)
    BY <1>11, <2>2, ConcatProperties DEF new
  <2>4. QED
    BY <1>6, <1>11, <2>3, ConcatProperties
<1>12. ASSUME T = <<>>, s # <<>> PROVE HeadDo(agenda') = HeadDo(s)
  <2>1. s \in Seq(Items(Newest)) /\ rest \in Seq(Items(Newest))
    BY <1>1 DEF Onward, Rest
  <2>2. new = s
    BY <1>12, <2>1, ConcatEmptySeq DEF new
  <2>3. Head(s \o rest) = Head(s) /\ s \o rest # <<>>
    BY <1>12, <2>1, ConcatProperties
  <2>4. QED
    BY <1>6, <1>12, <2>2, <2>3 DEF HeadDo
<1>13. HeadDo(agenda') \notin LeadingSteps /\ ~Entering'
  BY <1>7 DEF Rest, Entering
<1>14. GoesOn(new, rest)
  BY <1>1, <1>2, <1>6 DEF GoesOn, Rest
<1>15. QED
  BY <1>7, <1>8, <1>9, <1>10, <1>11, <1>12, <1>13, <1>14 DEF ToldOn, new

\* One step goes onward.
LEMMA OnwardOne ==
  ASSUME Newest \in 0..MaxConns, NEW v \in 1..Newest, NEW do \in {"links", "session"},
         NEW s, NextStep(s, do, v)
  PROVE  IsNextStep(s, do, v)
<1> DEFINE e == Item(do, v, FALSE)
<1>1. /\ e \in Items(Newest) /\ e \in Items(MaxConns) /\ e.do = do /\ e.id = v
      /\ e \in Later(Newest)
  <2>1. do \in Steps /\ do \notin LeadingSteps
    BY DEF Steps, LeadingSteps
  <2>2. \A d \in Steps, r \in BOOLEAN :
           /\ Item(d, v, r) \in Items(Newest) /\ Item(d, v, r) \in Items(MaxConns)
           /\ Item(d, v, r).do = d /\ Item(d, v, r).id = v
           /\ d \notin LeadingSteps => Item(d, v, r) \in Later(Newest)
    BY StepIn
  <2>3. QED
    BY <2>1, <2>2
<1>2. s = <<e>>
  BY DEF NextStep
<1> HIDE DEF e
<1>3. Begins(s, e, <<>>)
  BY <1>1, <1>2, OneItem
<1>4. /\ s # <<>> /\ HeadDo(s) = do
      /\ LinkSteps(s) = One(do = "links") /\ SessionSteps(s) = One(do = "session")
  <2>1. LinkSteps(<<>>) = 0 /\ SessionSteps(<<>>) = 0
    BY NoTurn
  <2>2. QED
    BY <1>1, <1>3, <2>1 DEF Begins, One
<1>5. e \in Do({"links", "session"}) /\ (v = Newest => e \in OfNewest)
  BY <1>1 DEF Do, OfNewest
<1>6. <<e>> \in Seq(Items(Newest)) /\ <<e>> \in Seq(Later(Newest))
      /\ <<e>> \in Seq(Do({"links", "session"})) /\ (v = Newest => <<e>> \in Seq(OfNewest))
  BY <1>1, <1>5
<1>7. Numbers(s)
  BY <1>2, <1>6, TurnNumbers
<1>8. QED
  BY <1>2, <1>4, <1>6, <1>7 DEF Onward, IsNextStep

\* Steps one after the other.
LEMMA OnwardBoth ==
  ASSUME Newest \in 0..MaxConns, NEW s, Onward(s), NEW t, Onward(t)
  PROVE  /\ Onward(s \o t) /\ LinkSteps(s \o t) = LinkSteps(s) + LinkSteps(t)
         /\ s \in Seq(OfNewest) /\ t \in Seq(OfNewest) => s \o t \in Seq(OfNewest)
<1>1. /\ s \o t \in Seq(Items(Newest)) /\ s \o t \in Seq(Later(Newest))
      /\ s \o t \in Seq(Do({"links", "session"}))
  BY ConcatProperties DEF Onward
<1>2. Sums(s \o t, s, t) /\ Numbers(s \o t)
  BY <1>1, Joined, TurnNumbers DEF Onward
<1>3. s \in Seq(OfNewest) /\ t \in Seq(OfNewest) => s \o t \in Seq(OfNewest)
  BY ConcatProperties
<1>4. QED
  BY <1>1, <1>2, <1>3 DEF Onward, Sums

\* A turn of a rundown that tells callbacks and then takes steps goes on.
LEMMA ToldTurnsOn ==
  ASSUME Typed, Budget, Control, NEW x, NEW rest, Takes(x, rest), Running, Newest' = Newest,
         NEW T, NEW s, ToldOn(T, s, rest), s \in Seq(OfNewest), ~thrown', LinkSteps(rest) = 0,
         LinkSteps(s) > 0 =>
           /\ LinkSteps(s) = 1 /\ SessionSteps(agenda') = 0
           /\ (connectionCallback' = None /\ sessionCallback' = None) \/ Closings(rest) = 0
  PROVE  /\ TurnsOn /\ LinkSteps(agenda') = LinkSteps(s)
         /\ (Leading(agenda') <=> LinkSteps(s) > 0) /\ HeadDo(agenda') # "cbs"
         /\ Load(agenda') = LinkSteps(agenda') + SessionSteps(agenda')
<1>1. rest \in Seq(OfNewest) /\ rest \in Seq(Do(Following)) /\ Rest(rest, Newest)
  BY RunningFacts
<1>2. /\ GoesOn(T \o s, rest) /\ HeadDo(agenda') \notin LeadingSteps
      /\ Closings(agenda') = Closings(rest)
      /\ LinkSteps(agenda') = LinkSteps(s) + LinkSteps(rest)
      /\ agenda' \in Seq(Do(Following)) /\ agenda' \in Seq(OfNewest)
  BY <1>1 DEF ToldOn
<1>3. /\ HeadDo(agenda') \in Following \cup {"-"}
      /\ agenda' # <<>> => Tail(agenda') \in Seq(Do(Following))
  BY <1>2, DoHead
<1>4. Numbers(agenda')
  <2>1. Newest \in 0..MaxConns
    BY NewestBound
  <2>2. agenda' \in Seq(Items(MaxConns))
    <3>1. OfNewest \subseteq Items(MaxConns)
      BY DEF OfNewest
    <3>2. QED
      BY <1>2, <3>1, SeqWiden
  <2>3. MaxConns \in 0..MaxConns
    <3>1. MaxConns \in Nat
      BY Bounds
    <3>2. QED
      BY <3>1
  <2>4. QED
    BY <2>2, <2>3, TurnNumbers
<1>5. LinkSteps(agenda') = LinkSteps(s) /\ SessionSteps(agenda') \in Nat
  <2>1. LinkSteps(agenda') \in Nat /\ SessionSteps(agenda') \in Nat
    BY <1>4 DEF Numbers
  <2>2. s \in Seq(Items(MaxConns))
    <3>1. OfNewest \subseteq Items(MaxConns)
      BY DEF OfNewest
    <3>2. QED
      BY <3>1, SeqWiden
  <2>3. LinkSteps(s) \in Nat
    BY <2>2, CountNat DEF LinkSteps
  <2>4. QED
    BY <1>2, <2>1, <2>3
<1>6. Load(agenda') = LinkSteps(agenda') + SessionSteps(agenda')
  <2>1. LinkSteps(agenda') \in Nat /\ SessionSteps(agenda') \in Nat
    BY <1>4 DEF Numbers
  <2>2. QED
    BY <1>2, <2>1 DEF Load, One
<1>7. HeadDo(agenda') \notin {"cbs", "force"}
  BY <1>2 DEF LeadingSteps
<1>8. Leading(agenda') <=> LinkSteps(s) > 0
  BY <1>5, <1>7 DEF Leading
<1>9. Leading(agenda') =>
        /\ Load(agenda') = 1
        /\ (connectionCallback' = None /\ sessionCallback' = None) \/ Closings(agenda') = 0
  BY <1>2, <1>5, <1>6, <1>8
<1>10. TurnsOn
  BY <1>2, <1>3, <1>9 DEF TurnsOn
<1>11. QED
  BY <1>5, <1>6, <1>7, <1>8, <1>10

\* What a step that begins a rundown, or has the links to go, finds.
LEMMA LeadingFacts ==
  ASSUME Typed, Budget, Control, NEW x, NEW rest, Takes(x, rest), x.do \in {"cbs", "links"}
  PROVE  /\ Running /\ state = "disconnecting" /\ x.id = Newest /\ ~thrown /\ Newest \in 1..MaxConns
         /\ LinkSteps(rest) = 0 /\ SessionSteps(rest) = 0 /\ Load(rest) = 0
         /\ (connectionCallback = None /\ sessionCallback = None) \/ Closings(rest) = 0
         /\ connectionCallback \in {None, -Newest} /\ sessionCallback \in {None, -Newest}
         /\ \A v \in DOMAIN rundowns :
              rundowns[v].callback >= 0 /\ ~(rundowns[v].waits # "-" /\ rundowns[v].timer)
         /\ ~disconnectionOccurred =>
              /\ rundowns[Newest].timer /\ rundowns[Newest].waits = "-"
              /\ connectionCallback = None /\ sessionCallback = None
<1>1. HeadDo(agenda) = x.do
  BY ItemOwner
<1>2. x.do = "links" => LinkSteps(agenda) > 0
  <2>1. LinkSteps(agenda) = One(x.do = "links") + LinkSteps(rest) /\ LinkSteps(rest) \in Nat
    BY TurnFacts DEF Begins, Rest, Numbers
  <2>2. QED
    BY <2>1 DEF One
<1>3. /\ Running /\ Load(agenda) = 1
      /\ (connectionCallback = None /\ sessionCallback = None) \/ Closings(agenda) = 0
  BY <1>1, <1>2 DEF Control, Turn, Leading
<1>4. /\ state = "disconnecting" /\ ~thrown /\ Newest \in 1..MaxConns /\ x.id = Newest
      /\ LinkSteps(rest) \in Nat /\ SessionSteps(rest) \in Nat /\ Closings(rest) \in Nat
      /\ LinkSteps(agenda) = One(x.do = "links") + LinkSteps(rest)
      /\ SessionSteps(agenda) = One(x.do = "session") + SessionSteps(rest)
      /\ Closings(agenda) = One(x.do \in {"session_close", "replay"}) + Closings(rest)
      /\ Load(agenda) = One(x.do \in LeadingSteps) + LinkSteps(agenda) + SessionSteps(agenda)
      /\ Load(rest) = LinkSteps(rest) + SessionSteps(rest)
      /\ connectionCallback \in {None, -Newest} /\ sessionCallback \in {None, -Newest}
  BY <1>3, RunningFacts DEF Steps
<1>5. LinkSteps(rest) = 0 /\ SessionSteps(rest) = 0 /\ Load(rest) = 0
      /\ Closings(agenda) = Closings(rest)
  BY <1>3, <1>4 DEF One, LeadingSteps
<1>6. \A v \in DOMAIN rundowns :
        rundowns[v].callback >= 0 /\ ~(rundowns[v].waits # "-" /\ rundowns[v].timer)
  BY <1>3, <1>4 DEF Control, Waiting, Owners
<1>7. ~disconnectionOccurred =>
        /\ rundowns[Newest].timer /\ rundowns[Newest].waits = "-"
        /\ connectionCallback = None /\ sessionCallback = None
  BY <1>1, <1>2 DEF Control, Waiting
<1>8. QED
  BY <1>3, <1>4, <1>5, <1>6, <1>7

\* It tells its attach, and the rundown goes on to the links.
LEMMA CbsDoneStep ==
  ASSUME Inv, NEW x, NEW rest, Takes(x, rest), x.do = "cbs", CbsDone(x.id, rest), Calm
  PROVE  Inv'
<1> DEFINE cbs == links["cbs"]
           told == cbs.phase = "attaching"
           T == IF told THEN <<Item("opened", cbs.op, FALSE)>> ELSE <<>>
           s == <<Item("links", x.id, FALSE)>>
           r == [phase |-> IF cbs.phase = "attaching" \/ cbs.phase = "attached"
                           THEN "detached" ELSE cbs.phase, op |-> None]
<1>1. Typed /\ Budget /\ LateHasNoTimer
  BY DEF Inv
<1>2. x.id \in 1..Newest /\ HeadDo(agenda) = "cbs" /\ ~Entering /\ Newest \in 0..MaxConns
  BY <1>1, StepOwner DEF Steps
<1>3. UNCHANGED <<state, deferred, connectionCallback, sessionCallback, disconnectionOccurred,
                  sessionCloseOccurred, connectionCloseOccurred, conn, session, rhea, heard, rundowns,
                  net, requests>>
  BY DEF CbsDone, callbacks, occurred, rhea
<1>4. /\ Newest' = Newest /\ DOMAIN rundowns' = DOMAIN rundowns
      /\ LateHasNoTimer' /\ (LateRundown' <=> LateRundown)
      /\ Control => \A v \in DOMAIN rundowns' :
              rundowns'[v] = rundowns[v] /\ rundowns'[v].callback >= 0
  BY <1>1, <1>3, RundownsSame
<1>5. links \in [Kinds -> LinkRecords] /\ "cbs" \in Kinds /\ cbs \in LinkRecords
      /\ cbs.op \in 0..MaxRequests
  BY <1>1 DEF Typed, Kinds, LinkRecords
<1>6. r \in LinkRecords /\ r.phase \in {"none", "detaching", "detached"} /\ r.op = 0
      /\ (cbs.phase \notin {"attaching", "attached"} => r.phase = cbs.phase)
  BY <1>5, Bounds DEF LinkRecords
<1>7. links' = [links EXCEPT !["cbs"] = r] /\ agenda' = (T \o s) \o rest
  BY DEF CbsDone
<1>8. Telling(T, cbs.op, told)
  <2>1. told \in BOOLEAN /\ "opened" \in Tellings
    BY DEF Tellings
  <2> HIDE DEF told, cbs
  <2>2. QED
    BY <1>2, <1>5, <2>1, ToldOne
<1> HIDE DEF T
<1>9. /\ Onward(s) /\ s # <<>> /\ HeadDo(s) = "links"
      /\ LinkSteps(s) = 1 /\ SessionSteps(s) = 0
      /\ x.id = Newest => s \in Seq(OfNewest)
  <2>1. /\ Onward(s) /\ s # <<>> /\ HeadDo(s) = "links"
        /\ LinkSteps(s) = One("links" = "links") /\ SessionSteps(s) = One("links" = "session")
        /\ x.id = Newest => s \in Seq(OfNewest)
    <3>1. NextStep(s, "links", x.id)
      BY DEF NextStep
    <3>2. IsNextStep(s, "links", x.id)
      BY <1>2, <3>1, OnwardOne
    <3>3. QED
      BY <3>2 DEF IsNextStep
  <2>2. QED
    BY <2>1 DEF One
<1> HIDE DEF s, r
<1>10. ToldOn(T, s, rest)
  <2>1. Tells(T)
    BY <1>8 DEF Tells, Telling
  <2>2. QED
    BY <1>1, <1>4, <1>7, <1>9, <2>1, ToldTurn
<1>11. /\ links' \in [Kinds -> LinkRecords]
       /\ links'["cbs"] = r /\ \A o \in Kinds \ {"cbs"} : links'[o] = links[o]
       /\ \A i \in Nat \ {0} : InLinks(i)' + One(links["cbs"].op = i) = InLinks(i) + One(r.op = i)
  <2>1. ASSUME NEW k \in Kinds, NEW q \in LinkRecords, links' = [links EXCEPT ![k] = q]
        PROVE  /\ links' \in [Kinds -> LinkRecords]
               /\ links'[k] = q /\ \A o \in Kinds \ {k} : links'[o] = links[o]
               /\ \A i \in Nat \ {0} : InLinks(i)' + One(links[k].op = i) = InLinks(i) + One(q.op = i)
    <3>1. Relinks(k, q)
      BY <2>1 DEF Relinks
    <3>2. Relinked(k, q)
      BY <1>5, <3>1, LinkSet
    <3>3. QED
      BY <3>2 DEF Relinked
  <2>2. links' = [links EXCEPT !["cbs"] = r]
    BY <1>7
  <2>3. r \in LinkRecords /\ "cbs" \in Kinds
    BY <1>5, <1>6
  <2>4. QED
    BY <2>1, <2>2, <2>3
<1>12. links'["sender"] = links["sender"] /\ links'["receiver"] = links["receiver"]
  BY <1>11 DEF Kinds
<1>13. Typed'
  BY <1>1, <1>3, <1>4, <1>10, <1>11 DEF Typed, Calm, ToldOn
<1>14. ASSUME ~LateRundown, Control PROVE Control' /\ Carries(x, T \o s)
  <2>1. /\ Running /\ state = "disconnecting" /\ x.id = Newest /\ ~thrown /\ Newest \in 1..MaxConns
        /\ LinkSteps(rest) = 0 /\ SessionSteps(rest) = 0
        /\ (connectionCallback = None /\ sessionCallback = None) \/ Closings(rest) = 0
        /\ connectionCallback \in {None, -Newest} /\ sessionCallback \in {None, -Newest}
        /\ \A v \in DOMAIN rundowns :
             rundowns[v].callback >= 0 /\ ~(rundowns[v].waits # "-" /\ rundowns[v].timer)
        /\ ~disconnectionOccurred =>
             /\ rundowns[Newest].timer /\ rundowns[Newest].waits = "-"
             /\ connectionCallback = None /\ sessionCallback = None
    BY <1>1, <1>14, LeadingFacts
  <2>2. SessionSteps(agenda') = 0
    BY <1>9, <1>10, <2>1 DEF ToldOn
  <2>3. /\ TurnsOn /\ LinkSteps(agenda') = LinkSteps(s)
        /\ (Leading(agenda') <=> LinkSteps(s) > 0) /\ HeadDo(agenda') # "cbs"
    BY <1>1, <1>3, <1>4, <1>9, <1>10, <1>14, <2>1, <2>2, ToldTurnsOn DEF Calm
  <2>4. HoldsOn
    BY <1>3, <1>6, <1>11, <1>12, <2>1 DEF HoldsOn
  <2>5. WaitsOn
    <3>1. Leading(agenda')
      BY <1>9, <2>3
    <3>2. QED
      BY <1>3, <2>1, <3>1 DEF WaitsOn
  <2>6. NeverOpened'
    <3>1. SUFFICES ASSUME net[conn].up, net[conn].sess = "opening" PROVE NeverOpened'
      BY <1>3 DEF NeverOpened
    <3>2. /\ ~disconnectionOccurred /\ sessionCloseOccurred
          /\ links["sender"] = NoLink /\ links["receiver"] = NoLink
          /\ links["cbs"].phase \notin {"attaching", "attached"}
          /\ rundowns[Newest].links = [k \in Kinds |-> NoLink]
      BY <1>14, <2>1, <3>1 DEF Control, NeverOpened
    <3>3. T = <<>>
      BY <1>8, <3>2 DEF Telling
    <3>4. HeadDo(agenda') = "links"
      BY <1>9, <1>10, <3>3 DEF ToldOn
    <3>5. links'["cbs"].phase \notin {"attaching", "attached"}
      BY <1>6, <1>11
    <3>6. QED
      BY <1>3, <1>4, <1>12, <3>2, <3>4, <3>5 DEF NeverOpened
  <2>7. Control'
    BY <1>1, <1>3, <1>4, <1>14, <2>1, <2>3, <2>4, <2>5, <2>6, RunsOn
  <2>8. ASSUME NEW i \in Nat \ {0}
        PROVE  Count(T \o s, Of(i)) + InCallbacks(i)' + InLinks(i)' + InRundowns(i)' + InClosure(i)'
                   + Told(i)'
                 <= One(x.id = i /\ x.do \notin Steps) + InCallbacks(i) + InLinks(i) + InRundowns(i)
                      + InClosure(i) + Told(i)
    <3>1. Count(T \o s, Of(i)) = One(told /\ cbs.op = i)
      BY <1>8, <1>10 DEF ToldOn, Telling
    <3>2. InLinks(i)' + One(cbs.op = i) = InLinks(i)
      <4>1. One(r.op = i) = 0
        BY <1>6 DEF One
      <4>2. InLinks(i) \in Nat
        BY <1>1, PlacesNat
      <4>3. QED
        BY <1>11, <4>1, <4>2
    <3>3. /\ InCallbacks(i)' = InCallbacks(i) /\ Told(i)' = Told(i) /\ InRundowns(i)' = InRundowns(i)
          /\ InClosure(i)' <= InClosure(i)
      BY <1>2, <1>3, <1>4 DEF InCallbacks, Told, InRundowns, InClosure, Running, One
    <3>4. One(told /\ cbs.op = i) <= One(cbs.op = i) /\ One(cbs.op = i) \in Nat
          /\ One(told /\ cbs.op = i) \in Nat
          /\ InClosure(i)' \in Nat /\ One(x.id = i /\ x.do \notin Steps) \in Nat
      BY DEF One, InClosure
    <3>5. InLinks(i)' \in Nat
      BY DEF InLinks, One
    <3>6. InCallbacks(i) \in Nat /\ InRundowns(i) \in Nat /\ Told(i) \in Nat /\ InClosure(i) \in Nat
      BY <1>1, PlacesNat
    <3> HIDE DEF told, cbs
    <3>7. QED
      BY <3>1, <3>2, <3>3, <3>4, <3>5, <3>6
  <2>9. QED
    BY <2>7, <2>8 DEF Carries
<1>15. /\ Connections' = Connections /\ DOMAIN requests' = DOMAIN requests
       /\ GoesOn(T \o s, rest) /\ ~Entering' /\ Connects(agenda') = Connects(rest)
  BY <1>3, <1>10 DEF Connections, ToldOn
<1>16. UNCHANGED <<state, deferred, rhea>> /\ x.do # "enter"
  BY <1>3
<1>17. QED
  BY <1>4, <1>13, <1>14, <1>15, <1>16, StaysStep

\* The wait of a rundown.
LEMMA WaitsSet ==
  ASSUME Typed, Budget, LateHasNoTimer, NEW v \in 1..Newest, NEW for \in {"-", "cbs", "links"},
         WaitsFor(v, for)
  PROVE  /\ rundowns' \in Seq(Rundowns(Newest)) /\ Newest' = Newest
         /\ DOMAIN rundowns' = DOMAIN rundowns
         /\ rundowns'[v].waits = for
         /\ \A w \in DOMAIN rundowns :
              /\ w # v => rundowns'[w] = rundowns[w]
              /\ rundowns'[w].callback = rundowns[w].callback
              /\ rundowns'[w].timer = rundowns[w].timer /\ rundowns'[w].late = rundowns[w].late
              /\ rundowns'[w].links = rundowns[w].links
         /\ LateHasNoTimer' /\ (LateRundown' <=> LateRundown)
         /\ \A i \in Nat \ {0} : InRundowns(i)' = InRundowns(i)
<1> DEFINE r == [rundowns[v] EXCEPT !.waits = for]
<1>1. rundowns \in Seq(Rundowns(Newest)) /\ v \in DOMAIN rundowns /\ v \in 1..Len(rundowns)
  BY LenProperties DEF Typed, Newest
<1>2. rundowns[v] \in Rundowns(Newest)
  BY <1>1, ElementOfSeq
<1>3. rundowns' = [rundowns EXCEPT ![v] = r]
  BY DEF WaitsFor
<1>4. /\ r \in Rundowns(Newest) /\ r.callback = rundowns[v].callback /\ r.timer = rundowns[v].timer
      /\ r.late = rundowns[v].late /\ r.waits = for /\ r.links = rundowns[v].links
  BY <1>2 DEF Rundowns
<1> HIDE DEF r
<1>5. /\ rundowns' \in Seq(Rundowns(Newest)) /\ Newest' = Newest
      /\ DOMAIN rundowns' = DOMAIN rundowns
      /\ rundowns'[v] = r /\ \A w \in DOMAIN rundowns : w # v => rundowns'[w] = rundowns[w]
      /\ \A i \in Nat \ {0} :
           InRundowns(i)' + One(rundowns[v].links["sender"].op = i)
                          + One(rundowns[v].links["receiver"].op = i)
             = InRundowns(i) + One(r.links["sender"].op = i) + One(r.links["receiver"].op = i)
  <2>1. Replaces(v, r)
    BY <1>3 DEF Replaces
  <2>2. Replaced(v, r)
    BY <1>4, <2>1, RundownSet
  <2>3. QED
    BY <2>2 DEF Replaced
<1>6. /\ rundowns'[v].waits = for
      /\ \A w \in DOMAIN rundowns :
           /\ w # v => rundowns'[w] = rundowns[w]
           /\ rundowns'[w].callback = rundowns[w].callback
           /\ rundowns'[w].timer = rundowns[w].timer /\ rundowns'[w].late = rundowns[w].late
           /\ rundowns'[w].links = rundowns[w].links
  BY <1>4, <1>5
<1>7. LateHasNoTimer' /\ (LateRundown' <=> LateRundown)
  BY <1>5, <1>6 DEF LateHasNoTimer, LateRundown
<1>8. ASSUME NEW i \in Nat \ {0} PROVE InRundowns(i)' = InRundowns(i)
  <2>1. InRundowns(i) \in Nat
    BY PlacesNat
  <2>2. InRundowns(i)' \in Nat
    <3>1. rundowns' \in Seq(Rundowns(Newest))
      BY <1>5
    <3>2. \A S : Count(rundowns', S) \in Nat
      BY <3>1, CountNat
    <3>3. QED
      BY <3>2 DEF InRundowns
  <2>3. One(r.links["sender"].op = i) \in Nat /\ One(r.links["receiver"].op = i) \in Nat
    BY DEF One
  <2>4. QED
    BY <1>4, <1>5, <2>1, <2>2, <2>3
<1>9. QED
  BY <1>5, <1>6, <1>7, <1>8

\* The rundown waits for it.
LEMMA CbsAskedStep ==
  ASSUME Inv, NEW x, NEW rest, Takes(x, rest), x.do = "cbs", CbsAsked(x.id, rest), Calm
  PROVE  Inv'
<1> DEFINE op == links["cbs"].op
           r == [phase |-> "detaching", op |-> None]
<1>1. Typed /\ Budget /\ LateHasNoTimer
  BY DEF Inv
<1>2. x.id \in 1..Newest /\ HeadDo(agenda) = "cbs" /\ ~Entering /\ Newest \in 0..MaxConns
  BY <1>1, StepOwner DEF Steps
<1>3. UNCHANGED <<state, deferred, connectionCallback, sessionCallback, disconnectionOccurred,
                  sessionCloseOccurred, connectionCloseOccurred, conn, session, rhea, heard, net>>
      /\ agenda' = rest /\ WaitsFor(x.id, "cbs") /\ ~Forced
  BY DEF CbsAsked, callbacks, occurred, rhea
<1>4. /\ rundowns' \in Seq(Rundowns(Newest)) /\ Newest' = Newest
      /\ DOMAIN rundowns' = DOMAIN rundowns
      /\ rundowns'[x.id].waits = "cbs"
      /\ \A w \in DOMAIN rundowns :
           /\ w # x.id => rundowns'[w] = rundowns[w]
           /\ rundowns'[w].callback = rundowns[w].callback
           /\ rundowns'[w].timer = rundowns[w].timer /\ rundowns'[w].late = rundowns[w].late
           /\ rundowns'[w].links = rundowns[w].links
      /\ LateHasNoTimer' /\ (LateRundown' <=> LateRundown)
      /\ \A i \in Nat \ {0} : InRundowns(i)' = InRundowns(i)
  <2>1. ASSUME NEW v \in 1..Newest, WaitsFor(v, "cbs")
        PROVE  /\ rundowns' \in Seq(Rundowns(Newest)) /\ Newest' = Newest
               /\ DOMAIN rundowns' = DOMAIN rundowns
               /\ rundowns'[v].waits = "cbs"
               /\ \A w \in DOMAIN rundowns :
                    /\ w # v => rundowns'[w] = rundowns[w]
                    /\ rundowns'[w].callback = rundowns[w].callback
                    /\ rundowns'[w].timer = rundowns[w].timer /\ rundowns'[w].late = rundowns[w].late
                    /\ rundowns'[w].links = rundowns[w].links
               /\ LateHasNoTimer' /\ (LateRundown' <=> LateRundown)
               /\ \A i \in Nat \ {0} : InRundowns(i)' = InRundowns(i)
    BY <1>1, <2>1, WaitsSet
  <2>2. QED
    BY <1>2, <1>3, <2>1
<1>5. links \in [Kinds -> LinkRecords] /\ "cbs" \in Kinds /\ op \in 0..MaxRequests /\ op \in Owner
      /\ r \in LinkRecords
  <2>1. links \in [Kinds -> LinkRecords] /\ "cbs" \in Kinds
    BY <1>1 DEF Typed, Kinds
  <2>2. op \in 0..MaxRequests
    BY <2>1 DEF LinkRecords
  <2>3. r \in LinkRecords
    BY Bounds DEF LinkRecords
  <2>4. QED
    BY <2>1, <2>2, <2>3, Bounds
<1>6. /\ links' \in [Kinds -> LinkRecords]
      /\ links'["cbs"] = r /\ \A o \in Kinds \ {"cbs"} : links'[o] = links[o]
      /\ \A i \in Nat \ {0} : InLinks(i)' + One(op = i) = InLinks(i) + One(r.op = i)
  <2>1. ASSUME NEW k \in Kinds, NEW q \in LinkRecords, links' = [links EXCEPT ![k] = q]
        PROVE  /\ links' \in [Kinds -> LinkRecords]
               /\ links'[k] = q /\ \A o \in Kinds \ {k} : links'[o] = links[o]
               /\ \A i \in Nat \ {0} : InLinks(i)' + One(links[k].op = i) = InLinks(i) + One(q.op = i)
    <3>1. Relinks(k, q)
      BY <2>1 DEF Relinks
    <3>2. Relinked(k, q)
      BY <1>5, <3>1, LinkSet
    <3>3. QED
      BY <3>2 DEF Relinked
  <2>2. links' = [links EXCEPT !["cbs"] = r]
    BY DEF CbsAsked
  <2>3. QED
    BY <1>5, <2>1, <2>2
<1>7. links'["sender"] = links["sender"] /\ links'["receiver"] = links["receiver"]
  BY <1>6 DEF Kinds
<1>8. Answers(op)
  <2>1. requests \in Seq(Requested) /\ Answer(op, "dropped")
    BY <1>1 DEF Typed, CbsAsked
  <2> HIDE DEF op, Answer
  <2>2. QED
    BY <1>5, <2>1, Answered
<1>9. /\ GoesOn(<<>>, rest) /\ Rest(rest, Newest) /\ \A i : Count(<<>>, Of(i)) = 0
  BY <1>1, <1>3, <1>4, GoesOnNone
<1> HIDE DEF op
<1>10. ~Entering' /\ agenda' \in Turns(Newest') /\ Connects(agenda') = Connects(rest)
  BY <1>3, <1>4, <1>9 DEF Rest, Entering
<1>11. Typed'
  BY <1>1, <1>3, <1>4, <1>6, <1>8, <1>10 DEF Typed, Calm, Answers
<1>12. ASSUME ~LateRundown, Control PROVE Control' /\ Carries(x, <<>>)
  <2>1. /\ Running /\ state = "disconnecting" /\ x.id = Newest /\ ~thrown /\ Newest \in 1..MaxConns
        /\ LinkSteps(rest) = 0 /\ SessionSteps(rest) = 0 /\ Load(rest) = 0
        /\ \A v \in DOMAIN rundowns :
             rundowns[v].callback >= 0 /\ ~(rundowns[v].waits # "-" /\ rundowns[v].timer)
        /\ ~disconnectionOccurred =>
             /\ rundowns[Newest].timer /\ rundowns[Newest].waits = "-"
             /\ connectionCallback = None /\ sessionCallback = None
    BY <1>1, <1>12, LeadingFacts
  <2>2. ~disconnectionOccurred /\ ~sessionCloseOccurred
    BY <1>3 DEF Forced
  <2>3. /\ rest \in Seq(OfNewest) /\ HeadDo(rest) \in Following \cup {"-"}
        /\ rest # <<>> => Tail(rest) \in Seq(Do(Following))
    BY <1>1, <1>12, <2>1, RunningFacts
  <2>4. HeadDo(rest) \notin {"cbs", "force"} /\ ~Leading(rest)
    <3>1. HeadDo(rest) \notin {"cbs", "force"}
      BY <1>9 DEF Rest, LeadingSteps
    <3>2. QED
      BY <2>1, <3>1 DEF Leading
  <2>5. TurnsOn
    BY <1>3, <2>1, <2>3, <2>4 DEF TurnsOn, Calm
  <2>6. HoldsOn
    <3>1. connectionCallback = None /\ sessionCallback = None
      BY <2>1, <2>2
    <3>2. QED
      BY <1>3, <1>6, <1>7, <3>1 DEF HoldsOn
  <2>7. WaitsOn
    BY <1>3, <1>4, <2>1, <2>2, <2>4 DEF WaitsOn
  <2>8. NeverOpened'
    BY <1>3, <1>12, <2>1, <2>2 DEF Control, NeverOpened
  <2>9. Control'
    BY <1>1, <1>3, <1>4, <1>12, <2>1, <2>5, <2>6, <2>7, <2>8, RunsOn
  <2>10. ASSUME NEW i \in Nat \ {0}
         PROVE  Count(<<>>, Of(i)) + InCallbacks(i)' + InLinks(i)' + InRundowns(i)' + InClosure(i)'
                    + Told(i)'
                  <= One(x.id = i /\ x.do \notin Steps) + InCallbacks(i) + InLinks(i) + InRundowns(i)
                       + InClosure(i) + Told(i)
    <3>1. InLinks(i)' + One(op = i) = InLinks(i)
      <4>1. One(r.op = i) = 0
        BY Bounds DEF One
      <4>2. InLinks(i) \in Nat
        BY <1>1, PlacesNat
      <4>3. InLinks(i)' + One(op = i) = InLinks(i) + One(r.op = i)
        BY <1>6
      <4>4. QED
        BY <4>1, <4>2, <4>3
    <3>2. InCallbacks(i)' = InCallbacks(i) /\ InRundowns(i)' = InRundowns(i)
      BY <1>3, <1>4 DEF InCallbacks
    <3>3. InClosure(i)' <= InClosure(i)
      <4>1. Newest \in DOMAIN rundowns
        <5>1. rundowns \in Seq(Rundowns(Newest))
          BY <1>1 DEF Typed
        <5>2. QED
          BY <2>1, <5>1, LenProperties DEF Newest
      <4>2. rundowns'[Newest].callback = rundowns[Newest].callback
        BY <1>4, <4>1
      <4>3. QED
        BY <1>2, <1>3, <1>4, <4>2 DEF InClosure, Running, One
    <3>4. Told(i)' = Told(i) + One(i = op /\ i \in DOMAIN requests)
      BY <1>8 DEF Answers
    <3>5. /\ One(i = op /\ i \in DOMAIN requests) <= One(op = i)
          /\ One(i = op /\ i \in DOMAIN requests) \in Nat /\ One(op = i) \in Nat
          /\ InClosure(i)' \in Nat /\ One(x.id = i /\ x.do \notin Steps) \in Nat
      BY DEF One, InClosure
    <3>6. InLinks(i)' \in Nat
      BY DEF InLinks, One
    <3>7. /\ InCallbacks(i) \in Nat /\ InRundowns(i) \in Nat /\ Told(i) \in Nat
          /\ InClosure(i) \in Nat /\ InLinks(i) \in Nat
      BY <1>1, PlacesNat
    <3>8. Count(<<>>, Of(i)) = 0
      BY <1>9
    <3>9. Told(i)' + InLinks(i)' <= Told(i) + InLinks(i) /\ Told(i)' \in Nat
      BY <3>1, <3>4, <3>5, <3>6, <3>7
    <3>10. InCallbacks(i)' \in Nat /\ InRundowns(i)' \in Nat
      BY <3>2, <3>7
    <3> DEFINE c == Count(<<>>, Of(i))
    <3>11. c = 0
      BY <3>8
    <3> HIDE DEF c
    <3>12. c + InCallbacks(i)' + InLinks(i)' + InRundowns(i)' + InClosure(i)' + Told(i)'
             <= One(x.id = i /\ x.do \notin Steps) + InCallbacks(i) + InLinks(i) + InRundowns(i)
                  + InClosure(i) + Told(i)
      BY <3>2, <3>3, <3>5, <3>6, <3>7, <3>9, <3>10, <3>11
    <3>13. QED
      BY <3>12 DEF c
  <2>11. QED
    BY <2>9, <2>10 DEF Carries
<1>13. DOMAIN requests' = DOMAIN requests /\ Connections' = Connections
  BY <1>8 DEF Answers
<1>14. UNCHANGED <<state, deferred, rhea>> /\ x.do # "enter"
  BY <1>3
<1>15. QED
  BY <1>4, <1>9, <1>10, <1>11, <1>12, <1>13, <1>14, StaysStep

\* The agent in a rundown.
LEMMA RundownCbsStep ==
  ASSUME Inv, NEW x, NEW rest, Takes(x, rest), x.do = "cbs", RundownCbs(x.id, rest), Calm
  PROVE  Inv'
<1>1. CbsDone(x.id, rest) \/ CbsAsked(x.id, rest)
  BY DEF RundownCbs, CbsDone, CbsAsked
<1>2. QED
  BY <1>1, CbsDoneStep, CbsAskedStep

\* So the rundown goes on.
LEMMA LinksOnStep ==
  ASSUME Inv, NEW x, NEW rest, Takes(x, rest), x.do = "links", Calm,
         NEW T, NEW s, NEW q,
         LinksOn(x, rest, T, s, q), LinksKept(rundowns[x.id], T, q)
  PROVE  Inv'
<1>1. Typed /\ Budget /\ LateHasNoTimer
  BY DEF Inv
<1>2. x.id \in 1..Newest /\ HeadDo(agenda) = "links" /\ ~Entering /\ Newest \in 0..MaxConns
  BY <1>1, StepOwner DEF Steps
<1>3. UNCHANGED <<state, deferred, connectionCallback, sessionCallback, disconnectionOccurred,
                  sessionCloseOccurred, connectionCloseOccurred, conn, session, rhea, heard, links,
                  net, requests>>
  BY DEF LinksOn, callbacks, occurred, rhea
<1>4. /\ rundowns' \in Seq(Rundowns(Newest)) /\ Newest' = Newest
      /\ DOMAIN rundowns = 1..Newest /\ DOMAIN rundowns' = DOMAIN rundowns
      /\ rundowns'[x.id] = q /\ \A w \in DOMAIN rundowns : w # x.id => rundowns'[w] = rundowns[w]
      /\ \A i \in Nat \ {0} :
           InRundowns(i)' + One(rundowns[x.id].links["sender"].op = i)
                          + One(rundowns[x.id].links["receiver"].op = i)
             = InRundowns(i) + One(q.links["sender"].op = i) + One(q.links["receiver"].op = i)
  <2>1. q \in Rundowns(Newest) /\ Replaces(x.id, q)
    BY DEF LinksOn, Replaces
  <2>2. Replaced(x.id, q)
    BY <1>1, <1>2, <2>1, RundownSet
  <2>3. QED
    BY <2>2 DEF Replaced
<1>5. /\ q.callback = rundowns[x.id].callback /\ q.timer = rundowns[x.id].timer
      /\ q.late = rundowns[x.id].late
      /\ q.waits = "links" => ~disconnectionOccurred
      /\ q.waits \in {"-", rundowns[x.id].waits} \/ (s = <<>> /\ ~disconnectionOccurred)
      /\ sessionCloseOccurred /\ rundowns[x.id].links = [k \in Kinds |-> NoLink] =>
           T = <<>> /\ s # <<>> /\ HeadDo(s) = "session" /\ q.links = [k \in Kinds |-> NoLink]
  BY DEF LinksOn
<1>6. LateHasNoTimer' /\ (LateRundown' <=> LateRundown)
  BY <1>1, <1>2, <1>4, <1>5 DEF LateHasNoTimer, LateRundown
<1>7. LinkSteps(s) = 0 /\ (x.id = Newest => s \in Seq(OfNewest))
  BY DEF LinksOn
<1>8. ToldOn(T, s, rest)
  <2>1. Tells(T) /\ Onward(s) /\ agenda' = (T \o s) \o rest
    BY DEF LinksOn
  <2>2. QED
    BY <1>1, <1>4, <2>1, ToldTurn
<1>9. /\ GoesOn(T \o s, rest) /\ ~Entering' /\ Connects(agenda') = Connects(rest)
      /\ agenda' \in Turns(Newest') /\ SessionSteps(agenda') = SessionSteps(s) + SessionSteps(rest)
      /\ \A i : Count(T \o s, Of(i)) = Count(T, Of(i))
      /\ T = <<>> /\ s # <<>> => HeadDo(agenda') = HeadDo(s)
  BY <1>8 DEF ToldOn
<1>10. Typed'
  BY <1>1, <1>3, <1>4, <1>9 DEF Typed, Calm
<1>11. ASSUME ~LateRundown, Control PROVE Control' /\ Carries(x, T \o s)
  <2>1. /\ Running /\ state = "disconnecting" /\ x.id = Newest /\ ~thrown /\ Newest \in 1..MaxConns
        /\ LinkSteps(rest) = 0 /\ SessionSteps(rest) = 0
        /\ connectionCallback \in {None, -Newest} /\ sessionCallback \in {None, -Newest}
        /\ \A v \in DOMAIN rundowns :
             rundowns[v].callback >= 0 /\ ~(rundowns[v].waits # "-" /\ rundowns[v].timer)
        /\ ~disconnectionOccurred =>
             /\ rundowns[Newest].timer /\ rundowns[Newest].waits = "-"
             /\ connectionCallback = None /\ sessionCallback = None
    BY <1>1, <1>11, LeadingFacts
  <2>2. s \in Seq(OfNewest)
    BY <1>7, <2>1
  <2>3. ~thrown'
    BY <2>1 DEF Calm
  <2>4. /\ TurnsOn /\ LinkSteps(agenda') = 0
        /\ ~Leading(agenda') /\ HeadDo(agenda') # "cbs"
        /\ Load(agenda') = LinkSteps(agenda') + SessionSteps(agenda')
    <3>1. ~(LinkSteps(s) > 0)
      BY <1>7
    <3>2. /\ TurnsOn /\ LinkSteps(agenda') = LinkSteps(s)
          /\ (Leading(agenda') <=> LinkSteps(s) > 0) /\ HeadDo(agenda') # "cbs"
          /\ Load(agenda') = LinkSteps(agenda') + SessionSteps(agenda')
      BY <1>1, <1>4, <1>8, <1>11, <2>1, <2>2, <2>3, <3>1, ToldTurnsOn
    <3>3. QED
      BY <1>7, <3>1, <3>2
  <2>5. HoldsOn
    <3>1. links["cbs"].phase \in {"none", "detaching", "detached"}
      BY <1>2, <1>11, <2>1 DEF Control, Unlinked
    <3>2. QED
      BY <1>3, <2>1, <3>1 DEF HoldsOn
  <2>6. WaitsOn
    <3>1. s = <<>> => Load(agenda') = 0
      <4>1. LinkSteps(<<>>) = 0 /\ SessionSteps(<<>>) = 0
        BY NoTurn
      <4>2. QED
        BY <1>9, <2>1, <2>4, <4>1
    <3>2. Newest \in DOMAIN rundowns /\ rundowns'[Newest] = q
      BY <1>4, <2>1
    <3>3. q.callback >= 0 /\ (q.waits = "links" => q.timer)
      BY <1>5, <2>1, <3>2
    <3>4. q.waits # "-" /\ q.timer =>
            connectionCallback' = None /\ sessionCallback' = None /\ Load(agenda') = 0
      <4>1. SUFFICES ASSUME q.waits # "-", q.timer
                     PROVE  connectionCallback' = None /\ sessionCallback' = None /\ Load(agenda') = 0
        OBVIOUS
      <4>2. rundowns[Newest].timer
        BY <1>5, <2>1, <4>1
      <4>3. rundowns[Newest].waits = "-"
        BY <2>1, <3>2, <4>2
      <4>4. s = <<>>
        BY <1>5, <2>1, <4>1, <4>3
      <4>5. Running /\ (connectionCallback = None /\ sessionCallback = None)
        BY <1>5, <2>1, <4>1, <4>3
      <4>6. QED
        BY <1>3, <3>1, <4>4, <4>5
    <3>5. QED
      BY <1>4, <2>1, <2>4, <3>2, <3>3, <3>4 DEF WaitsOn
  <2>7. NeverOpened'
    <3>1. SUFFICES ASSUME net[conn].up, net[conn].sess = "opening" PROVE NeverOpened'
      BY <1>3 DEF NeverOpened
    <3>2. /\ ~disconnectionOccurred /\ sessionCloseOccurred
          /\ links["sender"] = NoLink /\ links["receiver"] = NoLink
          /\ links["cbs"].phase \notin {"attaching", "attached"}
          /\ rundowns[Newest].links = [k \in Kinds |-> NoLink]
      BY <1>11, <2>1, <3>1 DEF Control, NeverOpened
    <3>3. T = <<>> /\ s # <<>> /\ HeadDo(s) = "session" /\ q.links = [k \in Kinds |-> NoLink]
      BY <1>5, <2>1, <3>2
    <3>4. HeadDo(agenda') = "session" /\ rundowns'[Newest].links = [k \in Kinds |-> NoLink]
      BY <1>4, <1>9, <2>1, <3>3
    <3>5. QED
      BY <1>3, <1>4, <3>2, <3>4 DEF NeverOpened
  <2>8. Control'
    BY <1>1, <1>3, <1>4, <1>11, <2>1, <2>4, <2>5, <2>6, <2>7, RunsOn
  <2>9. ASSUME NEW i \in Nat \ {0}
        PROVE  Count(T \o s, Of(i)) + InCallbacks(i)' + InLinks(i)' + InRundowns(i)' + InClosure(i)'
                   + Told(i)'
                 <= One(x.id = i /\ x.do \notin Steps) + InCallbacks(i) + InLinks(i) + InRundowns(i)
                      + InClosure(i) + Told(i)
    <3> DEFINE a == One(rundowns[x.id].links["sender"].op = i)
               b == One(rundowns[x.id].links["receiver"].op = i)
               c == One(q.links["sender"].op = i)
               d == One(q.links["receiver"].op = i)
    <3>1. Count(T \o s, Of(i)) = Count(T, Of(i)) /\ Count(T, Of(i)) \in Nat
      <4>1. T \in Seq(Items(Newest))
        BY DEF LinksOn, Tells
      <4>2. QED
        BY <1>9, <4>1, CountNat
    <3>2. Count(T, Of(i)) + c + d <= a + b /\ InRundowns(i)' + a + b = InRundowns(i) + c + d
      BY <1>4 DEF LinksKept
    <3>3. a \in Nat /\ b \in Nat /\ c \in Nat /\ d \in Nat
      BY DEF One
    <3>4. InRundowns(i) \in Nat /\ InRundowns(i)' \in Nat
      <4>1. InRundowns(i) \in Nat
        BY <1>1, PlacesNat
      <4>2. InRundowns(i)' \in Nat
        BY <1>10, PlacesNatNext
      <4>3. QED
        BY <4>1, <4>2
    <3> HIDE DEF a, b, c, d
    <3>5. Count(T, Of(i)) + InRundowns(i)' <= InRundowns(i)
      BY <3>1, <3>2, <3>3, <3>4
    <3>6. InCallbacks(i)' = InCallbacks(i) /\ InLinks(i)' = InLinks(i) /\ Told(i)' = Told(i)
      BY <1>3 DEF InCallbacks, InLinks, Told
    <3>7. InClosure(i)' <= InClosure(i)
      <4>1. rundowns'[Newest].callback = rundowns[Newest].callback
        BY <1>4, <1>5, <2>1
      <4>2. QED
        BY <1>2, <1>3, <1>4, <4>1 DEF InClosure, Running, One
    <3>8. InClosure(i)' \in Nat /\ One(x.id = i /\ x.do \notin Steps) \in Nat
      BY DEF InClosure, One
    <3>9. InCallbacks(i) \in Nat /\ InLinks(i) \in Nat /\ Told(i) \in Nat /\ InClosure(i) \in Nat
      BY <1>1, PlacesNat
    <3> DEFINE e == Count(T \o s, Of(i))
               f == Count(T, Of(i))
    <3>10. e = f /\ f \in Nat /\ f + InRundowns(i)' <= InRundowns(i)
      BY <3>1, <3>5
    <3> HIDE DEF e, f
    <3>11. e + InCallbacks(i)' + InLinks(i)' + InRundowns(i)' + InClosure(i)' + Told(i)'
             <= One(x.id = i /\ x.do \notin Steps) + InCallbacks(i) + InLinks(i) + InRundowns(i)
                  + InClosure(i) + Told(i)
      BY <3>4, <3>6, <3>7, <3>8, <3>9, <3>10
    <3>12. QED
      BY <3>11 DEF e
  <2>10. QED
    BY <2>8, <2>9 DEF Carries
<1>12. /\ Connections' = Connections /\ DOMAIN requests' = DOMAIN requests
       /\ UNCHANGED <<state, deferred, rhea>> /\ x.do # "enter"
  BY <1>3 DEF Connections
<1>13. QED
  BY <1>4, <1>6, <1>9, <1>10, <1>11, <1>12, StaysStep

\* What tells the callback of a link.
LEMMA LinkTells ==
  ASSUME Newest \in 0..MaxConns, NEW l \in LinkRecords, NEW phase, NEW do \in Tellings
  PROVE  Telling(LinkTold(l, phase, do), l.op, l.phase = phase)
<1>1. l.op \in 0..MaxRequests /\ (l.phase = phase) \in BOOLEAN
  BY DEF LinkRecords
<1>2. LinkTold(l, phase, do) = IF l.phase = phase THEN <<Item(do, l.op, TRUE)>> ELSE <<>>
  BY DEF LinkTold
<1>3. ASSUME NEW op \in 0..MaxRequests, NEW told \in BOOLEAN, NEW T,
             T = IF told THEN <<Item(do, op, TRUE)>> ELSE <<>>
      PROVE  Telling(T, op, told)
  BY <1>3, ToldOne
<1>4. QED
  BY <1>1, <1>2, <1>3

\* It tells those of the links that are in a phase.
LEMMA LinksTells ==
  ASSUME Newest \in 0..MaxConns, NEW ls \in [Kinds -> LinkRecords], NEW phase, NEW do \in Tellings
  PROVE  /\ Tells(LinksTold(ls, phase, do))
         /\ \A i \in Nat \ {0} :
              Count(LinksTold(ls, phase, do), Of(i))
                = One(ls["sender"].phase = phase /\ ls["sender"].op = i)
                    + One(ls["receiver"].phase = phase /\ ls["receiver"].op = i)
         /\ ls["sender"].phase # phase /\ ls["receiver"].phase # phase =>
              LinksTold(ls, phase, do) = <<>>
<1> DEFINE S == LinkTold(ls["sender"], phase, do)
           T == LinkTold(ls["receiver"], phase, do)
<1>1. ls["sender"] \in LinkRecords /\ ls["receiver"] \in LinkRecords
  BY DEF Kinds
<1>2. /\ Telling(S, ls["sender"].op, ls["sender"].phase = phase)
      /\ Telling(T, ls["receiver"].op, ls["receiver"].phase = phase)
  BY <1>1, LinkTells
<1>3. LinksTold(ls, phase, do) = S \o T
  BY DEF LinksTold
<1> HIDE DEF S, T
<1>4. Tells(S) /\ Tells(T)
  BY <1>2 DEF Telling, Tells
<1>5. /\ Tells(S \o T)
      /\ \A i : Count(S \o T, Of(i)) = Count(S, Of(i)) + Count(T, Of(i))
      /\ S = <<>> /\ T = <<>> => S \o T = <<>>
  BY <1>4, ToldBoth
<1>6. QED
  BY <1>2, <1>3, <1>5 DEF Telling

\* It keeps the rest.
LEMMA Rewaited ==
  ASSUME Typed, NEW v \in 1..Newest, NEW waits \in {"-", "cbs", "links"},
         NEW ls \in [Kinds -> LinkRecords], ls["cbs"] = NoLink, Rewaiting(v, waits, ls)
  PROVE  IsRewaited(v, waits, ls, Rewaits(rundowns[v], waits, ls))
<1> DEFINE r == rundowns[v]
           p == [r EXCEPT !.waits = waits]
           q == [p EXCEPT !.links = ls]
<1>1. rundowns \in Seq(Rundowns(Newest)) /\ v \in DOMAIN rundowns /\ v \in 1..Len(rundowns)
  BY LenProperties DEF Typed, Newest
<1>2. r \in Rundowns(Newest)
  BY <1>1, ElementOfSeq
<1>3. /\ p \in Rundowns(Newest) /\ p.waits = waits /\ p.callback = r.callback
      /\ p.timer = r.timer /\ p.late = r.late
  BY <1>2 DEF Rundowns
<1>4. ASSUME NEW o \in Rundowns(Newest)
      PROVE  LET e == [o EXCEPT !.links = ls] IN
             /\ e \in Rundowns(Newest) /\ e.links = ls /\ e.waits = o.waits /\ e.callback = o.callback
             /\ e.timer = o.timer /\ e.late = o.late
  BY <1>4 DEF Rundowns
<1>5. /\ q \in Rundowns(Newest) /\ q.links = ls /\ q.waits = waits /\ q.callback = r.callback
      /\ q.timer = r.timer /\ q.late = r.late
  BY <1>3, <1>4
<1>6. q = [[r EXCEPT !.links = ls] EXCEPT !.waits = waits]
  BY <1>2 DEF Rundowns
<1>7. [rundowns EXCEPT ![v].waits = waits, ![v].links = ls] = [rundowns EXCEPT ![v] = q]
  BY <1>1
<1>8. [rundowns EXCEPT ![v].links = ls, ![v].waits = waits] = [rundowns EXCEPT ![v] = q]
  <2>1. [rundowns EXCEPT ![v].links = ls, ![v].waits = waits]
          = [rundowns EXCEPT ![v] = [[r EXCEPT !.links = ls] EXCEPT !.waits = waits]]
    BY <1>1
  <2>2. QED
    BY <1>6, <2>1
<1>9. q = Rewaits(rundowns[v], waits, ls)
  BY DEF Rewaits
<1>10. rundowns' = [rundowns EXCEPT ![v] = q]
  BY <1>7, <1>8 DEF Rewaiting
<1> HIDE DEF p, q
<1>11. QED
  BY <1>5, <1>9, <1>10 DEF IsRewaited

\* What it holds.
LEMMA NoLinksFacts ==
  /\ NoLinks \in [Kinds -> LinkRecords] /\ NoLinks["cbs"] = NoLink /\ NoLink.op = 0
  /\ NoLinks["sender"] = NoLink /\ NoLinks["receiver"] = NoLink
  /\ NoLink.phase = "none" /\ NoLink \in LinkRecords
<1>1. NoLink \in LinkRecords /\ NoLink.op = 0 /\ NoLink.phase = "none"
  BY Bounds DEF NoLink, LinkRecords
<1>2. QED
  BY <1>1 DEF NoLinks, Kinds

\* The links of a rundown.
LEMMA RundownLinked ==
  ASSUME Typed, NEW v \in 1..Newest
  PROVE  /\ rundowns[v] \in Rundowns(Newest) /\ rundowns[v].waits \in {"-", "cbs", "links"}
         /\ rundowns[v].links \in [Kinds -> LinkRecords] /\ rundowns[v].links["cbs"] = NoLink
<1>1. rundowns \in Seq(Rundowns(Newest)) /\ v \in 1..Len(rundowns)
  BY DEF Typed, Newest
<1>2. rundowns[v] \in Rundowns(Newest)
  BY <1>1, ElementOfSeq
<1>3. QED
  BY <1>2 DEF Rundowns

\* Those that are attaching or detaching are told, and the session is next.
LEMMA LinksForcedStep ==
  ASSUME Inv, NEW x, NEW rest, Takes(x, rest), x.do = "links", Calm, LinksForced(x.id, rest)
  PROVE  Inv'
<1> DEFINE r == rundowns[x.id]
           ls == r.links
           A == LinksTold(ls, "attaching", "failed")
           D == LinksTold(ls, "detaching", "detached")
           T == A \o D
           next == <<Item("session", x.id, FALSE)>>
           early == IF r.waits = "links" THEN next ELSE <<>>
           s == early \o next
           waits == IF r.waits = "links" THEN "-" ELSE r.waits
           q == Rewaits(r, waits, NoLinks)
<1>1. Typed /\ Budget
  BY DEF Inv
<1>2. x.id \in 1..Newest /\ Newest \in 0..MaxConns
  BY <1>1, StepOwner DEF Steps
<1>3. r.waits \in {"-", "cbs", "links"} /\ ls \in [Kinds -> LinkRecords]
  BY <1>1, <1>2, RundownLinked
<1>4. waits \in {"-", "cbs", "links"} /\ waits # "links" /\ waits \in {"-", r.waits}
  BY <1>3
<1>5. /\ q \in Rundowns(Newest) /\ q.waits = waits /\ q.links = NoLinks
      /\ q.callback = r.callback /\ q.timer = r.timer /\ q.late = r.late
      /\ rundowns' = [rundowns EXCEPT ![x.id] = q]
  <2>1. Rewaiting(x.id, waits, NoLinks)
    BY DEF LinksForced, Rewaiting
  <2>2. NoLinks \in [Kinds -> LinkRecords] /\ NoLinks["cbs"] = NoLink
    BY NoLinksFacts
  <2> HIDE DEF waits
  <2>3. IsRewaited(x.id, waits, NoLinks, Rewaits(rundowns[x.id], waits, NoLinks))
    BY <1>1, <1>2, <1>4, <2>1, <2>2, Rewaited
  <2>4. QED
    BY <2>3 DEF IsRewaited
<1>6. /\ Tells(A) /\ Tells(D)
      /\ \A i \in Nat \ {0} :
           /\ Count(A, Of(i)) = One(ls["sender"].phase = "attaching" /\ ls["sender"].op = i)
                                  + One(ls["receiver"].phase = "attaching" /\ ls["receiver"].op = i)
           /\ Count(D, Of(i)) = One(ls["sender"].phase = "detaching" /\ ls["sender"].op = i)
                                  + One(ls["receiver"].phase = "detaching" /\ ls["receiver"].op = i)
      /\ ls = NoLinks => A = <<>> /\ D = <<>>
  <2>1. "failed" \in Tellings /\ "detached" \in Tellings
    BY DEF Tellings
  <2>2. ls = NoLinks => ls["sender"].phase = "none" /\ ls["receiver"].phase = "none"
    BY NoLinksFacts
  <2> HIDE DEF ls
  <2>3. QED
    BY <1>2, <1>3, <2>1, <2>2, LinksTells
<1>7. /\ Onward(next) /\ next # <<>> /\ HeadDo(next) = "session" /\ LinkSteps(next) = 0
      /\ x.id = Newest => next \in Seq(OfNewest)
  <2>1. /\ Onward(next) /\ next # <<>> /\ HeadDo(next) = "session"
        /\ LinkSteps(next) = One("session" = "links")
        /\ x.id = Newest => next \in Seq(OfNewest)
    <3>1. NextStep(next, "session", x.id)
      BY DEF NextStep
    <3>2. IsNextStep(next, "session", x.id)
      BY <1>2, <3>1, OnwardOne
    <3>3. QED
      BY <3>2 DEF IsNextStep
  <2>2. QED
    BY <2>1 DEF One
<1> HIDE DEF A, D, next
<1>8. /\ Onward(s) /\ LinkSteps(s) = 0 /\ (x.id = Newest => s \in Seq(OfNewest))
      /\ s # <<>> /\ HeadDo(s) = "session"
  <2>1. CASE r.waits = "links"
    <3>1. early = next
      BY <2>1
    <3>2. /\ Onward(next \o next) /\ LinkSteps(next \o next) = LinkSteps(next) + LinkSteps(next)
          /\ next \in Seq(OfNewest) => next \o next \in Seq(OfNewest)
      BY <1>2, <1>7, OnwardBoth
    <3>3. next \o next # <<>> /\ HeadDo(next \o next) = HeadDo(next)
      <4>1. next \in Seq(Items(Newest))
        BY <1>7 DEF Onward
      <4>2. Head(next \o next) = Head(next) /\ next \o next # <<>>
        BY <1>7, <4>1, ConcatProperties
      <4>3. QED
        BY <1>7, <4>2 DEF HeadDo
    <3>4. QED
      BY <1>7, <3>1, <3>2, <3>3
  <2>2. CASE r.waits # "links"
    <3>1. early = <<>>
      BY <2>2
    <3>2. next \in Seq(Items(Newest))
      BY <1>7 DEF Onward
    <3>3. <<>> \o next = next
      BY <3>2, ConcatEmptySeq
    <3>4. QED
      BY <1>7, <3>1, <3>3
  <2>3. QED
    BY <2>1, <2>2
<1>9. /\ Tells(T) /\ (ls = NoLinks => T = <<>>)
      /\ \A i : Count(T, Of(i)) = Count(A, Of(i)) + Count(D, Of(i))
  <2>1. /\ Tells(A \o D)
        /\ \A i : Count(A \o D, Of(i)) = Count(A, Of(i)) + Count(D, Of(i))
        /\ A = <<>> /\ D = <<>> => A \o D = <<>>
    BY <1>2, <1>6, ToldBoth
  <2>2. QED
    BY <1>6, <2>1
<1>10. agenda' = (T \o s) \o rest
  <2>1. agenda' = ((T \o early) \o next) \o rest
    BY DEF LinksForced, A, D, next
  <2>2. T \in Seq(Items(Newest)) /\ next \in Seq(Items(Newest)) /\ early \in Seq(Items(Newest))
    <3>1. T \in Seq(Items(Newest)) /\ next \in Seq(Items(Newest))
      BY <1>7, <1>9 DEF Tells, Onward
    <3> HIDE DEF T
    <3>2. QED
      BY <3>1
  <2> HIDE DEF T, early
  <2>3. (T \o early) \o next = T \o (early \o next)
    BY <2>2, ConcatAssociative
  <2>4. QED
    BY <2>1, <2>3
<1>11. LinksKept(r, T, q)
  <2>1. ASSUME NEW i \in Nat \ {0}
        PROVE  Count(T, Of(i)) + One(q.links["sender"].op = i) + One(q.links["receiver"].op = i)
                 <= One(ls["sender"].op = i) + One(ls["receiver"].op = i)
    <3> DEFINE Att(k) == One(ls[k].phase = "attaching" /\ ls[k].op = i)
               Det(k) == One(ls[k].phase = "detaching" /\ ls[k].op = i)
    <3>1. \A k : Att(k) + Det(k) <= One(ls[k].op = i) /\ Att(k) \in Nat /\ Det(k) \in Nat
                 /\ One(ls[k].op = i) \in Nat
      BY DEF One
    <3>2. One(q.links["sender"].op = i) = 0 /\ One(q.links["receiver"].op = i) = 0
      BY <1>5, NoLinksFacts DEF One
    <3>3. Count(T, Of(i)) = (Att("sender") + Att("receiver")) + (Det("sender") + Det("receiver"))
      BY <1>6, <1>9
    <3>4. /\ Att("sender") + Det("sender") <= One(ls["sender"].op = i)
          /\ Att("receiver") + Det("receiver") <= One(ls["receiver"].op = i)
          /\ Att("sender") \in Nat /\ Det("sender") \in Nat
          /\ Att("receiver") \in Nat /\ Det("receiver") \in Nat
          /\ One(ls["sender"].op = i) \in Nat /\ One(ls["receiver"].op = i) \in Nat
      BY <3>1
    <3> DEFINE c == Count(T, Of(i))
    <3>5. c = (Att("sender") + Att("receiver")) + (Det("sender") + Det("receiver"))
      BY <3>3
    <3> HIDE DEF Att, Det, q, ls, c
    <3>6. c + One(q.links["sender"].op = i) + One(q.links["receiver"].op = i)
            <= One(ls["sender"].op = i) + One(ls["receiver"].op = i)
      BY <3>2, <3>4, <3>5
    <3>7. QED
      BY <3>6 DEF c
  <2> HIDE DEF T, q, ls
  <2>2. QED
    BY <2>1 DEF LinksKept, ls
<1>12. UNCHANGED <<state, deferred, callbacks, occurred, rhea, heard, links, net, requests, thrown>>
  BY DEF LinksForced
<1> HIDE DEF T, s, waits, q
<1>13. LinksOn(x, rest, T, s, q)
  <2>1. rundowns[x.id].links = [k \in Kinds |-> NoLink] => ls = NoLinks
    BY DEF NoLinks
  <2>2. q.links = [k \in Kinds |-> NoLink]
    BY <1>5 DEF NoLinks
  <2> HIDE DEF ls
  <2>3. QED
    BY <1>4, <1>5, <1>8, <1>9, <1>10, <1>12, <2>1, <2>2 DEF LinksOn
<1>14. QED
  BY <1>11, <1>13, LinksOnStep

\* A link that is left is asked to detach.
LEMMA LeftLink ==
  ASSUME NEW l \in LinkRecords
  PROVE  LET e == [l EXCEPT !.phase = "detaching"] IN e \in LinkRecords /\ e.op = l.op
BY DEF LinkRecords

\* Those that are attaching are told, and the session waits for those that are not.
LEMMA LinksAskedStep ==
  ASSUME Inv, NEW x, NEW rest, Takes(x, rest), x.do = "links", Calm, LinksAsked(x.id, rest)
  PROVE  Inv'
<1> DEFINE r == rundowns[x.id]
           ls == r.links
           next == <<Item("session", x.id, FALSE)>>
           T == LinksTold(ls, "attaching", "refused")
           left == [k \in Kinds |-> IF ls[k].phase \in {"attached", "detaching"}
                                    THEN [ls[k] EXCEPT !.phase = "detaching"] ELSE NoLink]
<1>1. Typed /\ Budget
  BY DEF Inv
<1>2. x.id \in 1..Newest /\ Newest \in 0..MaxConns
  BY <1>1, StepOwner DEF Steps
<1>3. ls \in [Kinds -> LinkRecords] /\ ls["cbs"] = NoLink
  BY <1>1, <1>2, RundownLinked
<1>4. PICK early \in BOOLEAN :
        /\ agenda' = T \o (IF early THEN next ELSE <<>>) \o rest
        /\ rundowns' = [rundowns EXCEPT ![x.id].links = left,
                                        ![x.id].waits = IF early THEN "-" ELSE "links"]
  BY DEF LinksAsked
<1> DEFINE s == IF early THEN next ELSE <<>>
           waits == IF early THEN "-" ELSE "links"
           q == Rewaits(r, waits, left)
<1>5. /\ left \in [Kinds -> LinkRecords] /\ left["cbs"] = NoLink
      /\ \A k \in Kinds :
           IF ls[k].phase \in {"attached", "detaching"} THEN left[k].op = ls[k].op ELSE left[k].op = 0
  <2>1. NoLink \in LinkRecords /\ NoLink.op = 0 /\ NoLink.phase = "none" /\ "cbs" \in Kinds
    BY NoLinksFacts DEF Kinds
  <2>2. \A k \in Kinds : ls[k] \in LinkRecords
    BY <1>3
  <2>3. \A k \in Kinds : LET e == [ls[k] EXCEPT !.phase = "detaching"] IN
                         e \in LinkRecords /\ e.op = ls[k].op
    BY <2>2, LeftLink
  <2> HIDE DEF ls
  <2>4. left \in [Kinds -> LinkRecords]
    BY <2>1, <2>3
  <2>5. left["cbs"] = NoLink
    BY <1>3, <2>1
  <2>6. \A k \in Kinds :
           IF ls[k].phase \in {"attached", "detaching"} THEN left[k].op = ls[k].op ELSE left[k].op = 0
    BY <2>1, <2>3
  <2>7. QED
    BY <2>4, <2>5, <2>6
<1> HIDE DEF left
<1>6. IsRewaited(x.id, waits, left, q)
  <2>1. Rewaiting(x.id, waits, left)
    BY <1>4 DEF Rewaiting
  <2>2. waits \in {"-", "cbs", "links"}
    OBVIOUS
  <2> HIDE DEF waits
  <2>3. IsRewaited(x.id, waits, left, Rewaits(rundowns[x.id], waits, left))
    BY <1>1, <1>2, <1>5, <2>1, <2>2, Rewaited
  <2>4. QED
    BY <2>3
<1>7. /\ Tells(T)
      /\ \A i \in Nat \ {0} :
           Count(T, Of(i)) = One(ls["sender"].phase = "attaching" /\ ls["sender"].op = i)
                               + One(ls["receiver"].phase = "attaching" /\ ls["receiver"].op = i)
  <2>1. "refused" \in Tellings
    BY DEF Tellings
  <2> HIDE DEF ls
  <2>2. QED
    BY <1>2, <1>3, <2>1, LinksTells
<1>8. Onward(s) /\ LinkSteps(s) = 0 /\ (x.id = Newest => s \in Seq(OfNewest))
  <2>1. /\ Onward(next) /\ LinkSteps(next) = One("session" = "links")
        /\ x.id = Newest => next \in Seq(OfNewest)
    <3>1. NextStep(next, "session", x.id)
      BY DEF NextStep
    <3>2. IsNextStep(next, "session", x.id)
      BY <1>2, <3>1, OnwardOne
    <3>3. QED
      BY <3>2 DEF IsNextStep
  <2>2. Onward(<<>>) /\ LinkSteps(<<>>) = 0 /\ <<>> \in Seq(OfNewest)
    <3>1. LinkSteps(<<>>) = 0 /\ Numbers(<<>>)
      BY NoTurn DEF Numbers
    <3>2. \A S : <<>> \in Seq(S)
      OBVIOUS
    <3>3. QED
      BY <3>1, <3>2 DEF Onward
  <2> HIDE DEF next
  <2>3. QED
    BY <2>1, <2>2 DEF One
<1>9. agenda' = (T \o s) \o rest
  BY <1>4
<1>10. LinksKept(r, T, q)
  <2>1. ASSUME NEW i \in Nat \ {0}
        PROVE  Count(T, Of(i)) + One(left["sender"].op = i) + One(left["receiver"].op = i)
                 <= One(ls["sender"].op = i) + One(ls["receiver"].op = i)
    <3> DEFINE Att(k) == One(ls[k].phase = "attaching" /\ ls[k].op = i)
               Det(k) == One(left[k].op = i)
    <3>1. \A k \in Kinds : Att(k) + Det(k) <= One(ls[k].op = i) /\ Att(k) \in Nat /\ Det(k) \in Nat
                           /\ One(ls[k].op = i) \in Nat
      BY <1>5 DEF One
    <3>2. Count(T, Of(i)) = Att("sender") + Att("receiver")
      BY <1>7
    <3>3. /\ Att("sender") + Det("sender") <= One(ls["sender"].op = i)
          /\ Att("receiver") + Det("receiver") <= One(ls["receiver"].op = i)
          /\ Att("sender") \in Nat /\ Det("sender") \in Nat
          /\ Att("receiver") \in Nat /\ Det("receiver") \in Nat
          /\ One(ls["sender"].op = i) \in Nat /\ One(ls["receiver"].op = i) \in Nat
      BY <3>1 DEF Kinds
    <3> DEFINE c == Count(T, Of(i))
    <3>4. c = Att("sender") + Att("receiver")
      BY <3>2
    <3> HIDE DEF Att, ls, c
    <3>5. c + Det("sender") + Det("receiver") <= One(ls["sender"].op = i) + One(ls["receiver"].op = i)
      <4> HIDE DEF Det
      <4>1. QED
        BY <3>3, <3>4
    <3>6. QED
      BY <3>5 DEF c
  <2>2. q.links = left
    BY <1>6 DEF IsRewaited
  <2> HIDE DEF T, q, ls
  <2>3. QED
    BY <2>1, <2>2 DEF LinksKept, ls
<1>11. /\ ~disconnectionOccurred /\ ~sessionCloseOccurred
       /\ UNCHANGED <<state, deferred, callbacks, occurred, rhea, heard, links, net, requests, thrown>>
  BY DEF LinksAsked, Forced
<1>12. waits = "-" \/ s = <<>>
  OBVIOUS
<1> HIDE DEF T, s, waits, q
<1>13. LinksOn(x, rest, T, s, q)
  BY <1>6, <1>7, <1>8, <1>9, <1>11, <1>12 DEF LinksOn, IsRewaited
<1>14. QED
  BY <1>10, <1>13, LinksOnStep

\* Nothing goes on then.
LEMMA LinksThrownStep ==
  ASSUME Inv, NEW x, NEW rest, Takes(x, rest), x.do = "links", UNCHANGED <<repertoire, events>>,
         LinksThrown(x.id)
  PROVE  Inv'
<1>1. Typed /\ Budget /\ LateHasNoTimer
  BY DEF Inv
<1>2. x.id \in 1..Newest /\ HeadDo(agenda) = "links" /\ ~Entering /\ Newest \in 0..MaxConns
  BY <1>1, StepOwner DEF Steps
<1>3. /\ UNCHANGED <<state, deferred, connectionCallback, sessionCallback, disconnectionOccurred,
                     sessionCloseOccurred, connectionCloseOccurred, conn, session, rhea, heard, links,
                     net, requests, rundowns>>
      /\ thrown' = TRUE /\ agenda' = <<>>
  BY DEF LinksThrown, callbacks, occurred, rhea
<1>4. /\ Newest' = Newest /\ DOMAIN rundowns' = DOMAIN rundowns
      /\ LateHasNoTimer' /\ (LateRundown' <=> LateRundown)
  BY <1>1, <1>3, RundownsSame
<1>5. /\ <<>> \in Turns(Newest) /\ Connects(<<>>) = 0 /\ LinkSteps(<<>>) = 0 /\ SessionSteps(<<>>) = 0
      /\ HeadDo(<<>>) = "-" /\ <<>> \in Seq(OfNewest) /\ \A i : Count(<<>>, Of(i)) = 0
  <2>1. Connects(<<>>) = 0 /\ LinkSteps(<<>>) = 0 /\ SessionSteps(<<>>) = 0
        /\ \A i : Count(<<>>, Of(i)) = 0
    BY NoTurn
  <2>2. <<>> \in Turns(Newest) /\ HeadDo(<<>>) = "-" /\ <<>> \in Seq(OfNewest)
    BY DEF Turns, HeadDo
  <2>3. QED
    BY <2>1, <2>2
<1>6. Typed'
  BY <1>1, <1>3, <1>4, <1>5 DEF Typed
<1>7. ~Entering'
  BY <1>3, <1>5 DEF Entering
<1>8. Budget'
  <2>1. One(Underway)' = One(Underway)
    BY <1>2, <1>3, <1>7 DEF Underway
  <2>2. Connects(agenda) \in Nat /\ Connects(agenda') = 0
    BY <1>1, <1>3, <1>5, PlacesNat
  <2>3. One(state = "connecting" /\ Entering)' = 0 /\ One(state = "connecting" /\ Entering) = 0
    BY <1>2, <1>7 DEF One
  <2>4. conn \in Nat /\ Connects(deferred.any) \in Nat /\ Connects(deferred.disconnected) \in Nat
    BY <1>1, PlacesNat DEF Typed
  <2>5. conn + Connects(agenda) + Connects(deferred.any) + Connects(deferred.disconnected)
          + One(state = "connecting" /\ Entering) <= Connections
        /\ Connections \in Nat
    BY <1>1, PlacesNat DEF Budget
  <2>6. Connections' = Connections
    BY <1>3 DEF Connections
  <2>7. conn + 0 + Connects(deferred.any) + Connects(deferred.disconnected) + 0 <= Connections
    BY <2>2, <2>3, <2>4, <2>5
  <2>8. QED
    BY <1>1, <1>3, <1>4, <2>1, <2>2, <2>3, <2>6, <2>7 DEF Budget
<1>9. ASSUME ~LateRundown, Control PROVE Control' /\ Carries(x, <<>>)
  <2>1. /\ Running /\ state = "disconnecting" /\ x.id = Newest /\ Newest \in 1..MaxConns
        /\ connectionCallback \in {None, -Newest} /\ sessionCallback \in {None, -Newest}
        /\ \A v \in DOMAIN rundowns : rundowns[v].callback >= 0
    BY <1>1, <1>9, LeadingFacts
  <2>2. ~Leading(agenda')
    BY <1>3, <1>5 DEF Leading
  <2>3. TurnsOn
    BY <1>3, <1>5, <2>2 DEF TurnsOn
  <2>4. HoldsOn
    <3>1. links["cbs"].phase \in {"none", "detaching", "detached"}
      BY <1>2, <1>9, <2>1 DEF Control, Unlinked
    <3>2. QED
      BY <1>3, <2>1, <3>1 DEF HoldsOn
  <2>5. WaitsOn
    BY <1>3, <1>4, <1>5, <2>1 DEF WaitsOn
  <2>6. NeverOpened'
    <3>1. SUFFICES ASSUME net[conn].up, net[conn].sess = "opening" PROVE FALSE
      BY <1>3 DEF NeverOpened
    <3>2. rundowns[Newest].links = [k \in Kinds |-> NoLink]
      BY <1>9, <2>1, <3>1 DEF Control, NeverOpened
    <3>3. \A k \in Kinds : rundowns[x.id].links[k].phase = "none"
      BY <2>1, <3>2, NoLinksFacts
    <3>4. QED
      BY <3>3 DEF LinksThrown
  <2>7. Control'
    BY <1>1, <1>3, <1>4, <1>9, <2>1, <2>3, <2>4, <2>5, <2>6, RunsOn
  <2>8. Carries(x, <<>>)
    <3>1. \A i \in Nat \ {0} : InCallbacks(i)' <= InCallbacks(i) /\ InCallbacks(i)' \in Nat
      BY <1>3 DEF InCallbacks, One
    <3>2. \A i \in Nat \ {0} : Count(<<>>, Of(i)) = 0
      BY <1>5
    <3>3. QED
      BY <1>1, <1>2, <1>3, <3>1, <3>2, CarriesSame
  <2>9. QED
    BY <2>7, <2>8
<1>10. ASSUME ~LateRundown, Control, Accounted PROVE Accounted'
  <2>1. Carries(x, <<>>)
    BY <1>9, <1>10
  <2>2. ASSUME NEW i \in Nat \ {0} PROVE Places(i)' <= One(i \in DOMAIN requests')
    <3>1. /\ InCallbacks(i)' = InCallbacks(i) /\ InLinks(i)' = InLinks(i)
          /\ InRundowns(i)' = InRundowns(i) /\ Told(i)' = Told(i) /\ InDeferred(i)' = InDeferred(i)
      BY <1>3 DEF InCallbacks, InLinks, InRundowns, Told, InDeferred
    <3>2. InClosure(i)' <= InClosure(i) /\ InClosure(i)' \in Nat
      BY <1>2, <1>3, <1>4 DEF InClosure, Running, One
    <3>3. Count(agenda', Of(i)) = 0
      BY <1>3, <1>5
    <3>4. /\ Count(agenda, Of(i)) \in Nat /\ InDeferred(i) \in Nat /\ InCallbacks(i) \in Nat
          /\ InLinks(i) \in Nat /\ InRundowns(i) \in Nat /\ InClosure(i) \in Nat
          /\ Told(i) \in Nat
      BY <1>1, PlacesNat
    <3>5. Count(agenda, Of(i)) + InDeferred(i) + InCallbacks(i) + InLinks(i)
               + InRundowns(i) + InClosure(i) + Told(i) <= One(i \in DOMAIN requests)
      BY <1>10 DEF Accounted, Places
    <3>6. One(i \in DOMAIN requests') = One(i \in DOMAIN requests) /\ One(i \in DOMAIN requests) \in Nat
      BY <1>3 DEF One
    <3>7. Count(agenda', Of(i)) + InDeferred(i)' + InCallbacks(i)' + InLinks(i)'
               + InRundowns(i)' + InClosure(i)' + Told(i)' <= One(i \in DOMAIN requests')
      BY <3>1, <3>2, <3>3, <3>4, <3>5, <3>6
    <3>8. QED
      BY <3>7 DEF Places
  <2>3. QED
    BY <2>2 DEF Accounted
<1>11. QED
  BY <1>4, <1>6, <1>8, <1>9, <1>10 DEF Inv

\* The links in a rundown.
LEMMA RundownLinksStep ==
  ASSUME Inv, NEW x, NEW rest, Takes(x, rest), x.do = "links", RundownLinks(x.id, rest),
         UNCHANGED <<repertoire, events>>
  PROVE  Inv'
<1>1. LinksThrown(x.id) \/ (Calm /\ (LinksForced(x.id, rest) \/ LinksAsked(x.id, rest)))
  <2>1. CASE LinksThrown(x.id)
    BY <2>1
  <2>2. CASE Calm /\ LinksForced(x.id, rest)
    BY <2>2
  <2>3. CASE Calm /\ LinksAsked(x.id, rest)
    BY <2>3
  <2>4. QED
    BY <2>1, <2>2, <2>3 DEF RundownLinks, LinksThrown, LinksForced, LinksAsked, LinksTold, NoLinks, Calm
<1>2. QED
  BY <1>1, LinksThrownStep, LinksForcedStep, LinksAskedStep

-----------------------------------------------------------------------------
(* The owner, the network and the peer.                                    *)

\* An event or a call begins a turn.
LEMMA EventTurn ==
  ASSUME Newest \in 0..MaxConns, Newest' = Newest, NEW e \in Items(Newest),
         e.do \in OwnerMethods \cup PeerEvents \cup Tellings, NEW listening \in BOOLEAN,
         agenda' = IF listening THEN <<e>> ELSE <<>>
  PROVE  Hearing(e.do, e.id, listening)
<1>1. e.do \notin Steps \cup {"enter"}
  BY DEF OwnerMethods, PeerEvents, Tellings, Steps
<1>2. CASE listening
  <2>1. agenda' = <<e>>
    BY <1>2
  <2>2. <<e>> \in Turns(Newest) /\ Begins(<<e>>, e, <<>>)
    BY OneItem
  <2>3. Connects(<<>>) = 0 /\ LinkSteps(<<>>) = 0 /\ SessionSteps(<<>>) = 0
    BY NoTurn
  <2>4. /\ HeadDo(agenda') = e.do /\ Tail(agenda') = <<>>
        /\ Connects(agenda') = One(e.do = "connect")
        /\ LinkSteps(agenda') = One(e.do = "links") /\ SessionSteps(agenda') = One(e.do = "session")
    BY <2>1, <2>2, <2>3 DEF Begins, One
  <2>5. LinkSteps(agenda') = 0 /\ SessionSteps(agenda') = 0 /\ ~Entering'
    BY <1>1, <2>4 DEF One, Steps, Entering
  <2>6. \A i \in Nat \ {0} : Count(agenda', Of(i)) = One(e.id = i)
    <3>1. \A i : Count(<<e>>, Of(i)) = One(e.id = i /\ e.do \notin Steps)
      BY OneCounted
    <3>2. QED
      BY <1>1, <2>1, <3>1 DEF One
  <2>7. agenda' \in Seq(OfNewest)
    <3>1. e \in Items(MaxConns)
      <4>1. MaxConns \in Newest..MaxConns
        <5>1. MaxConns \in Nat
          BY Bounds
        <5>2. QED
          BY <5>1
      <4>2. QED
        BY <4>1, Widened
    <3>2. e \in OfNewest
      BY <1>1, <3>1 DEF OfNewest
    <3>3. QED
      BY <2>1, <3>2
  <2>8. QED
    BY <1>2, <2>1, <2>2, <2>4, <2>5, <2>6, <2>7 DEF Hearing
<1>3. CASE ~listening
  <2>1. agenda' = <<>>
    BY <1>3
  <2>2. /\ Connects(<<>>) = 0 /\ LinkSteps(<<>>) = 0 /\ SessionSteps(<<>>) = 0
        /\ HeadDo(<<>>) = "-" /\ <<>> \in Turns(Newest)
        /\ \A i : Count(<<>>, Of(i)) = 0
    BY NoTurn
  <2>3. <<>> \in Seq(OfNewest)
    OBVIOUS
  <2>4. ~Entering'
    BY <2>1, <2>2 DEF Entering
  <2>5. QED
    BY <1>3, <2>1, <2>2, <2>3, <2>4 DEF Hearing, One
<1>4. QED
  BY <1>2, <1>3

\* Between two turns nothing is under way.
LEMMA Between ==
  ASSUME Typed, Budget, agenda = <<>>
  PROVE  /\ HeadDo(agenda) = "-" /\ ~Entering /\ LinkSteps(agenda) = 0 /\ SessionSteps(agenda) = 0
         /\ Connects(agenda) = 0 /\ Load(agenda) = 0 /\ ~Leading(agenda)
         /\ \A i : Count(agenda, Of(i)) = 0
         /\ Newest \in 0..MaxConns
<1>1. /\ Connects(<<>>) = 0 /\ LinkSteps(<<>>) = 0 /\ SessionSteps(<<>>) = 0
      /\ HeadDo(<<>>) = "-" /\ \A i : Count(<<>>, Of(i)) = 0
  BY NoTurn
<1>2. Load(agenda) = 0 /\ ~Leading(agenda)
  BY <1>1 DEF Load, Leading, LeadingSteps, One
<1>3. QED
  BY <1>1, <1>2, NewestBound DEF Entering

\* What controls the machine stays true when something is heard.
LEMMA HeardControl ==
  ASSUME Typed, Budget, Control, agenda = <<>>, ~thrown,
         UNCHANGED <<state, deferred, thrown, callbacks, occurred, rhea, heard>>, SameWaits,
         NEW do \in OwnerMethods \cup PeerEvents \cup Tellings, NEW id, NEW listening \in BOOLEAN,
         Hearing(do, id, listening), listening => Fits(do),
         UNCHANGED links \/ state = "connected", Network',
         \A c \in Conns : net'[c].up /\ net'[c].sess = "opening" => net[c].up /\ net[c].sess = "opening"
  PROVE  Control'
<1>1. /\ UNCHANGED <<connectionCallback, sessionCallback, disconnectionOccurred,
                     sessionCloseOccurred, conn, session>>
      /\ Newest' = Newest /\ ~thrown'
  BY DEF callbacks, occurred, rhea, SameWaits
<1>2. /\ HeadDo(agenda) = "-" /\ ~Entering /\ Newest \in 0..MaxConns
      /\ Load(agenda) = 0 /\ ~Leading(agenda)
  BY Between
<1>3. /\ ~Entering' /\ HeadDo(agenda') = (IF listening THEN do ELSE "-")
      /\ agenda' # <<>> => Tail(agenda') = <<>>
      /\ LinkSteps(agenda') = 0 /\ SessionSteps(agenda') = 0 /\ agenda' \in Seq(OfNewest)
  BY DEF Hearing
<1>4. HeadDo(agenda') \notin LeadingSteps /\ HeadDo(agenda') # "enter"
  BY <1>3 DEF LeadingSteps, OwnerMethods, PeerEvents, Tellings
<1>5. Load(agenda') = 0 /\ ~Leading(agenda')
  BY <1>3, <1>4 DEF Load, Leading, LeadingSteps, One
<1>6. (Running' <=> Running) /\ (Connected' <=> Connected)
  BY <1>2, <1>3 DEF Running, Connected
<1>7. Listening'
  BY <1>1, <1>6 DEF Control, Listening
<1>8. Unlinked'
  BY <1>2, <1>4, <1>6 DEF Control, Unlinked, LeadingSteps, Running
<1>9. Deferrals'
  BY DEF Control, Deferrals
<1>10. Turn'
  <2>1. OfNewest' = OfNewest
    BY <1>1, StepsOfNewest
  <2>2. <<>> \in Seq(Do(Following))
    OBVIOUS
  <2>3. agenda' # <<>> => Tail(agenda') \in Seq(Do(Following))
    BY <1>3, <2>2
  <2>4. /\ HeadDo(agenda') \in Alone => Tail(agenda') = <<>>
    <3>1. agenda' = <<>> => HeadDo(agenda') = "-"
      BY DEF HeadDo
    <3>2. "-" \notin Alone
      BY DEF Alone, PeerEvents
    <3>3. QED
      BY <1>3, <3>1, <3>2
  <2>5. /\ HeadDo(agenda') = "connection_open" => state' = "connecting"
        /\ HeadDo(agenda') = "session_open" => state' = "connecting_session"
        /\ HeadDo(agenda') = "amqpError" => state' = "connected"
    BY <1>3 DEF Fits
  <2>6. QED
    BY <1>1, <1>3, <1>4, <1>5, <2>1, <2>3, <2>4, <2>5 DEF Turn, LeadingSteps
<1>11. Owners'
  <2>1. Owners
    BY DEF Control
  <2>2. \A v \in DOMAIN rundowns' : rundowns'[v].callback >= 0
    BY <2>1 DEF Owners, SameWaits
  <2>3. QED
    BY <1>1, <1>2, <1>3, <1>6, <2>1, <2>2 DEF Owners
<1>12. Waiting'
  <2>1. \A v \in DOMAIN rundowns :
          /\ rundowns[v].timer => Running /\ v = Newest
          /\ rundowns[v].waits = "links" => Running /\ v = Newest /\ rundowns[v].timer
          /\ rundowns[v].waits # "-" /\ rundowns[v].timer =>
               connectionCallback = None /\ sessionCallback = None
    BY <1>2 DEF Control, Waiting
  <2>2. Running => Newest > 0
    BY DEF Control, Waiting
  <2>3. HeadDo(agenda') # "cbs"
    BY <1>4 DEF LeadingSteps
  <2>4. \A v \in DOMAIN rundowns' :
          /\ rundowns'[v].timer => Running /\ v = Newest
          /\ rundowns'[v].waits = "links" => Running /\ v = Newest /\ rundowns'[v].timer
          /\ rundowns'[v].waits # "-" /\ rundowns'[v].timer =>
               connectionCallback = None /\ sessionCallback = None
    BY <2>1 DEF SameWaits
  <2>5. QED
    BY <1>1, <1>3, <1>5, <1>6, <2>2, <2>3, <2>4 DEF Waiting
<1>13. NeverOpened'
  <2>1. ASSUME state = "disconnecting" PROVE ~(net'[conn].up /\ net'[conn].sess = "opening")
    <3>1. ~(net[conn].up /\ net[conn].sess = "opening")
      BY <1>2, <2>1 DEF Control, NeverOpened
    <3>2. conn \in Conns
      <4>1. conn \in 0..MaxConns /\ Newest > 0 /\ Newest + One(Underway) <= conn
        BY <1>2, <2>1 DEF Typed, Budget, Control, Waiting, Running
      <4>2. One(Underway) \in Nat /\ MaxConns \in Nat
        BY Bounds DEF One
      <4>3. conn \in Nat /\ 1 <= conn /\ conn <= MaxConns
        BY <1>2, <4>1, <4>2
      <4>4. QED
        BY <4>3, Bounds
    <3>3. QED
      BY <3>1, <3>2
  <2>2. QED
    BY <1>1, <2>1 DEF NeverOpened
<1>14. QED
  BY <1>7, <1>8, <1>9, <1>10, <1>11, <1>12, <1>13 DEF Control

\* Then no callback is in two places after it.
LEMMA MeetsAccounted ==
  ASSUME Typed, Typed', Accounted, Meets, UNCHANGED <<deferred, callbacks>>,
         \A i : Count(agenda, Of(i)) = 0
  PROVE  Accounted'
<1>1. ASSUME NEW i \in Nat \ {0} PROVE Places(i)' <= One(i \in DOMAIN requests')
  <2>1. InCallbacks(i)' = InCallbacks(i) /\ InDeferred(i)' = InDeferred(i)
    BY DEF InCallbacks, InDeferred, callbacks
  <2>2. Count(agenda', Of(i)) + InLinks(i)' + InRundowns(i)' + InClosure(i)' + Told(i)'
            + One(i \in DOMAIN requests)
          <= InLinks(i) + InRundowns(i) + InClosure(i) + Told(i) + One(i \in DOMAIN requests')
    BY DEF Meets
  <2>3. /\ InDeferred(i) \in Nat /\ InCallbacks(i) \in Nat
        /\ InLinks(i) \in Nat /\ InRundowns(i) \in Nat /\ InClosure(i) \in Nat
        /\ Told(i) \in Nat
    BY PlacesNat
  <2>4. /\ Count(agenda', Of(i)) \in Nat /\ InLinks(i)' \in Nat /\ InRundowns(i)' \in Nat
        /\ InClosure(i)' \in Nat /\ Told(i)' \in Nat
    BY PlacesNatNext
  <2>5. One(i \in DOMAIN requests) \in Nat /\ One(i \in DOMAIN requests') \in Nat
    BY DEF One
  <2>6. Count(agenda, Of(i)) = 0
    OBVIOUS
  <2>7. Count(agenda, Of(i)) + InDeferred(i) + InCallbacks(i) + InLinks(i)
             + InRundowns(i) + InClosure(i) + Told(i) <= One(i \in DOMAIN requests)
    BY DEF Accounted, Places
  <2>8. InDeferred(i) + InCallbacks(i) + InLinks(i)
             + InRundowns(i) + InClosure(i) + Told(i) <= One(i \in DOMAIN requests)
    BY <2>3, <2>6, <2>7
  <2> DEFINE a == InLinks(i) + InRundowns(i) + InClosure(i) + Told(i)
             b == Count(agenda', Of(i)) + InLinks(i)' + InRundowns(i)' + InClosure(i)' + Told(i)'
             c == InDeferred(i) + InCallbacks(i)
             d == One(i \in DOMAIN requests)
             e == One(i \in DOMAIN requests')
  <2>9. b + d <= a + e
    BY <2>2
  <2>10. c + a <= d
    BY <2>8, <2>3
  <2>11. a \in Nat /\ b \in Nat /\ c \in Nat /\ d \in Nat /\ e \in Nat
    BY <2>3, <2>4, <2>5
  <2>12. b + c <= e
    <3> HIDE DEF a, b, c, d, e
    <3>1. QED
      BY <2>9, <2>10, <2>11
  <2>13. Places(i)' = b + c
    <3>1. Places(i)' = Count(agenda', Of(i)) + InDeferred(i) + InCallbacks(i) + InLinks(i)'
                         + InRundowns(i)' + InClosure(i)' + Told(i)'
      BY <2>1 DEF Places
    <3>2. QED
      BY <3>1, <2>3, <2>4
  <2>14. QED
    BY <2>12, <2>13
<1>2. QED
  BY <1>1 DEF Accounted

\* An event or a call neither begins a connection nor ends one.
LEMMA EventStep ==
  ASSUME Inv, agenda = <<>>, Typed', Newest' = Newest, LateHasNoTimer', LateRundown => LateRundown',
         UNCHANGED <<state, deferred, callbacks, rhea>>, ~Entering',
         Connects(agenda') + Connections <= Connections', Connections' <= MaxConns,
         ~LateRundown /\ ~LateRundown' /\ Control => Control' /\ Meets
  PROVE  Inv'
<1>1. Typed /\ Budget
  BY DEF Inv
<1>2. ~Entering /\ Connects(agenda) = 0 /\ \A i : Count(agenda, Of(i)) = 0
  BY <1>1, Between
<1>3. UNCHANGED <<connectionCallback, sessionCallback, conn>>
  BY DEF callbacks, rhea
<1>4. Budget'
  <2>1. One(Underway)' = One(Underway)
    BY <1>2 DEF Underway
  <2>2. Newest' + One(Underway)' <= conn'
    BY <1>1, <1>3, <2>1 DEF Budget
  <2>3. One(state = "connecting" /\ Entering)' = 0 /\ One(state = "connecting" /\ Entering) = 0
    BY <1>2 DEF One
  <2>4. /\ Connects(deferred.any) \in Nat /\ Connects(deferred.disconnected) \in Nat
        /\ Connections \in Nat
    BY <1>1, PlacesNat
  <2>5. Connects(agenda') \in Nat /\ Connections' \in Nat
    BY PlacesNatNext
  <2>6. conn \in Nat
    BY <1>1 DEF Typed
  <2>7. conn + 0 + Connects(deferred.any) + Connects(deferred.disconnected) + 0 <= Connections
    BY <1>1, <1>2, <2>3 DEF Budget
  <2>8. conn + Connects(agenda') + Connects(deferred.any) + Connects(deferred.disconnected) + 0
          <= Connections'
    BY <2>4, <2>5, <2>6, <2>7
  <2>9. QED
    BY <1>3, <2>2, <2>3, <2>8 DEF Budget
<1>5. ASSUME ~LateRundown' PROVE Control' /\ Accounted'
  <2>1. ~LateRundown /\ Control /\ Accounted
    BY <1>5 DEF Inv
  <2>2. Control' /\ Meets
    BY <1>5, <2>1
  <2>3. \A i : Count(agenda, Of(i)) = 0
    BY <1>2
  <2>4. QED
    BY <1>1, <2>1, <2>2, <2>3, MeetsAccounted
<1>6. QED
  BY <1>4, <1>5 DEF Inv

\* The machine hears of an event.
LEMMA HeardStep ==
  ASSUME Inv, agenda = <<>>, ~thrown,
         UNCHANGED <<repertoire, state, deferred, thrown, callbacks, occurred, rhea, heard, rundowns,
                     requests>>,
         links' \in [Kinds -> LinkRecords], net' \in [Conns -> Nets], events' \in 0..MaxTroubles,
         NEW do \in PeerEvents \cup Tellings, NEW id, NEW listening \in BOOLEAN,
         Hearing(do, id, listening), HeardLinks(id, listening),
         Control =>
           /\ listening => Fits(do)
           /\ UNCHANGED links \/ state = "connected"
           /\ Network'
           /\ \A c \in Conns : net'[c].up /\ net'[c].sess = "opening"
                                 => net[c].up /\ net[c].sess = "opening"
  PROVE  Inv'
<1>1. Typed /\ Budget /\ LateHasNoTimer
  BY DEF Inv
<1>2. /\ UNCHANGED <<connectionCallback, sessionCallback, disconnectionOccurred,
                     sessionCloseOccurred, connectionCloseOccurred, conn, session>>
  BY DEF callbacks, occurred, rhea
<1>3. /\ Newest' = Newest /\ DOMAIN rundowns' = DOMAIN rundowns
      /\ LateHasNoTimer' /\ (LateRundown' <=> LateRundown)
  BY <1>1, RundownsSame
<1>4. /\ agenda' \in Turns(Newest') /\ ~Entering'
      /\ Connects(agenda') = One(listening /\ do = "connect")
      /\ \A i \in Nat \ {0} : Count(agenda', Of(i)) = One(listening /\ id = i)
  BY DEF Hearing
<1>5. Typed'
  BY <1>1, <1>2, <1>3, <1>4 DEF Typed
<1>6. Connects(agenda') = 0
  BY <1>4 DEF One, PeerEvents, Tellings
<1>7. Connections' = Connections /\ Connections \in Nat /\ Connections <= MaxConns
  BY <1>1, PlacesNat DEF Connections, Budget
<1>8. ASSUME ~LateRundown, Control PROVE Control' /\ Meets
  <2>1. Control'
    <3>1. do \in OwnerMethods \cup PeerEvents \cup Tellings
      OBVIOUS
    <3>2. /\ listening => Fits(do)
          /\ UNCHANGED links \/ state = "connected"
          /\ Network'
          /\ \A c \in Conns : net'[c].up /\ net'[c].sess = "opening"
                                => net[c].up /\ net[c].sess = "opening"
      BY <1>8
    <3>3. SameWaits
      BY <1>3 DEF SameWaits
    <3>4. QED
      BY <1>1, <1>8, <3>1, <3>2, <3>3, HeardControl
  <2>2. ASSUME NEW i \in Nat \ {0}
        PROVE  Count(agenda', Of(i)) + InLinks(i)' + InRundowns(i)' + InClosure(i)' + Told(i)'
                   + One(i \in DOMAIN requests)
                 <= InLinks(i) + InRundowns(i) + InClosure(i) + Told(i) + One(i \in DOMAIN requests')
    <3>1. One(listening /\ id = i) + InLinks(i)' <= InLinks(i) /\ Count(agenda', Of(i)) = One(listening /\ id = i)
      BY <1>4 DEF HeardLinks
    <3>2. InRundowns(i)' = InRundowns(i) /\ Told(i)' = Told(i)
          /\ One(i \in DOMAIN requests') = One(i \in DOMAIN requests)
      BY DEF InRundowns, Told
    <3>3. ~Entering
      BY <1>1, Between
    <3>4. InClosure(i)' = InClosure(i)
      BY <1>3, <1>4, <3>3 DEF InClosure, Running
    <3>5. /\ InLinks(i) \in Nat /\ InRundowns(i) \in Nat /\ InClosure(i) \in Nat
          /\ Told(i) \in Nat
      BY <1>1, PlacesNat
    <3>6. InLinks(i)' \in Nat /\ One(listening /\ id = i) \in Nat /\ One(i \in DOMAIN requests) \in Nat
      BY DEF One, InLinks
    <3>7. QED
      BY <3>1, <3>2, <3>4, <3>5, <3>6
  <2>3. QED
    BY <2>1, <2>2 DEF Meets
<1>9. Connects(agenda') + Connections <= Connections' /\ Connections' <= MaxConns
  BY <1>6, <1>7
<1>10. QED
  BY <1>3, <1>4, <1>5, <1>8, <1>9, EventStep

\* The network is as the machine takes it to be when something else is heard.
LEMMA NetworkSame ==
  ASSUME Typed, Budget, Network, agenda = <<>>, UNCHANGED <<state, rhea, net>>, ~Entering',
         HeadDo(agenda') \notin {"connection_open", "session_open"} \cup Ends
  PROVE  Network'
<1>1. HeadDo(agenda) = "-" /\ ~Entering
  BY Between
<1>2. UNCHANGED <<conn, session>>
  BY DEF rhea
<1>3. HeadDo(agenda) \notin {"connection_open", "session_open"} \cup Ends
  BY <1>1 DEF Ends
<1>4. (Connected' <=> Connected)
  BY <1>1 DEF Connected
<1>5. QED
  BY <1>1, <1>2, <1>3, <1>4 DEF Network, Ends

\* The item of a call.
LEMMA OwnerItem ==
  ASSUME NEW n \in 0..MaxConns, NEW kind \in OwnerMethods, NEW k \in TwoLinks,
         NEW id \in 1..MaxRequests, NEW e, Calls(e, kind, k, id)
  PROVE  e \in Items(n) /\ e.do = kind /\ e.id = id
<1>1. e.do = kind /\ e.id = id /\ e.err = FALSE /\ e.to = k
      /\ e = [do |-> kind, id |-> id, err |-> FALSE, to |-> k]
  BY DEF Item, Calls
<1>2. id \in Owner /\ id >= 0
  <2>1. MaxConns \in Nat /\ MaxRequests \in Nat
    BY Bounds
  <2>2. id \in Int /\ -MaxConns <= id /\ id <= MaxRequests
    BY <2>1
  <2>3. QED
    BY <2>2, Bounds
<1>3. kind \in Acts /\ kind \notin Steps \cup {"enter", "replay"}
  BY DEF Acts, OwnerMethods, Steps
<1>4. QED
  BY <1>1, <1>2, <1>3 DEF Items

\* The owner calls a method.
LEMMA OwnerCallsStep ==
  ASSUME Inv, OwnerCalls
  PROVE  Inv'
<1>1. Typed /\ Budget /\ LateHasNoTimer
  BY DEF Inv
<1>2. /\ agenda = <<>> /\ ~thrown /\ Len(requests) < MaxRequests
      /\ UNCHANGED <<repertoire, state, deferred, thrown, callbacks, occurred, rhea, heard,
                     links, rundowns, net, events>>
  BY DEF OwnerCalls
<1>3. PICK kind \in repertoire, k \in TwoLinks :
        /\ kind = "connect" => MayConnect
        /\ requests' = Append(requests, Call(kind, k))
        /\ agenda' = <<[Item(kind, Len(requests) + 1, FALSE) EXCEPT !.to = k]>>
  BY DEF OwnerCalls, TwoLinks
<1>4. kind \in OwnerMethods
  BY <1>1, AmqpConnectionAssumption DEF Typed, OwnerMethods
<1>5. PICK n : n = Len(requests) + 1
  OBVIOUS
<1>6. requests \in Seq(Requested) /\ Newest \in 0..MaxConns
  BY <1>1, NewestBound DEF Typed
<1>7. n \in 1..MaxRequests
  BY <1>2, <1>5, <1>6, Bounds
<1>8. PICK e : e = [Item(kind, n, FALSE) EXCEPT !.to = k]
  OBVIOUS
<1>9. e \in Items(Newest) /\ e.do = kind /\ e.id = n
  <2>1. Calls(e, kind, k, n)
    BY <1>8 DEF Calls
  <2>2. QED
    BY <1>4, <1>6, <1>7, <2>1, OwnerItem
<1>10. /\ Newest' = Newest /\ DOMAIN rundowns' = DOMAIN rundowns
       /\ LateHasNoTimer' /\ (LateRundown' <=> LateRundown)
  BY <1>1, <1>2, RundownsSame
<1>11. Hearing(kind, n, TRUE)
  <2>1. agenda' = IF TRUE THEN <<e>> ELSE <<>>
    BY <1>3, <1>5, <1>8
  <2>2. e.do \in OwnerMethods \cup PeerEvents \cup Tellings
    BY <1>4, <1>9
  <2>3. Hearing(e.do, e.id, TRUE)
    BY <1>6, <1>9, <1>10, <2>1, <2>2, EventTurn
  <2>4. QED
    BY <1>9, <2>3
<1>12. /\ agenda' \in Turns(Newest') /\ ~Entering' /\ HeadDo(agenda') = kind
       /\ Connects(agenda') = One(kind = "connect")
       /\ \A i \in Nat \ {0} : Count(agenda', Of(i)) = One(n = i)
  BY <1>11 DEF Hearing
<1>13. /\ requests' \in Seq(Requested) /\ Len(requests') = Len(requests) + 1
       /\ Connections' = Connections + One(kind = "connect")
       /\ \A i \in Nat \ {0} :
            /\ Told(i)' = Told(i)
            /\ One(i \in DOMAIN requests') = One(i \in DOMAIN requests) + One(i = Len(requests) + 1)
  BY <1>3, <1>4, <1>6, Asked
<1>14. Connections \in Nat /\ Connections <= MaxConns
  BY <1>1, PlacesNat DEF Budget
<1>15. Connections' <= MaxConns
  <2>1. CASE kind = "connect"
    <3>1. Connections + 1 <= MaxConns
      BY <1>3, <1>6, <2>1, ConnectsLeft
    <3>2. QED
      BY <1>13, <2>1, <3>1 DEF One
  <2>2. CASE kind # "connect"
    BY <1>13, <1>14, <2>2 DEF One
  <2>3. QED
    BY <2>1, <2>2
<1>16. Connects(agenda') + Connections <= Connections'
  <2>1. One(kind = "connect") \in Nat
    BY DEF One
  <2>2. QED
    BY <1>12, <1>13, <1>14, <2>1
<1>17. Typed'
  <2>1. Len(requests') <= MaxRequests
    BY <1>2, <1>6, <1>13, Bounds
  <2>2. UNCHANGED <<connectionCallback, sessionCallback, disconnectionOccurred,
                    sessionCloseOccurred, connectionCloseOccurred, conn, session>>
    BY <1>2 DEF callbacks, occurred, rhea
  <2>3. QED
    BY <1>1, <1>2, <1>10, <1>12, <1>13, <2>1, <2>2 DEF Typed
<1>18. ASSUME Control PROVE Control' /\ Meets
  <2>1. Network'
    <3>1. HeadDo(agenda') \notin {"connection_open", "session_open"} \cup Ends
      BY <1>4, <1>12 DEF OwnerMethods, Ends
    <3>2. Network
      BY <1>18 DEF Control
    <3>3. QED
      BY <1>1, <1>2, <1>12, <3>1, <3>2, NetworkSame
  <2>2. Fits(kind)
    BY <1>4 DEF Fits, OwnerMethods
  <2>3. kind \in OwnerMethods \cup PeerEvents \cup Tellings
    BY <1>4
  <2>4. Control'
    <3>1. SameWaits
      BY <1>2, <1>10 DEF SameWaits
    <3>2. QED
      BY <1>1, <1>2, <1>11, <1>18, <2>1, <2>2, <2>3, <3>1, HeardControl
  <2>5. ASSUME NEW i \in Nat \ {0}
        PROVE  Count(agenda', Of(i)) + InLinks(i)' + InRundowns(i)' + InClosure(i)' + Told(i)'
                   + One(i \in DOMAIN requests)
                 <= InLinks(i) + InRundowns(i) + InClosure(i) + Told(i) + One(i \in DOMAIN requests')
    <3>1. InLinks(i)' = InLinks(i) /\ InRundowns(i)' = InRundowns(i)
      BY <1>2 DEF InLinks, InRundowns
    <3>2. ~Entering
      BY <1>1, <1>2, Between
    <3>3. InClosure(i)' = InClosure(i)
      BY <1>2, <1>10, <1>12, <3>2 DEF InClosure, Running
    <3>4. /\ Told(i)' = Told(i) /\ Count(agenda', Of(i)) = One(i = n)
          /\ One(i \in DOMAIN requests') = One(i \in DOMAIN requests) + One(i = n)
      BY <1>5, <1>12, <1>13
    <3>5. /\ InLinks(i) \in Nat /\ InRundowns(i) \in Nat /\ InClosure(i) \in Nat
          /\ Told(i) \in Nat
      BY <1>1, PlacesNat
    <3>6. One(i \in DOMAIN requests) \in Nat /\ One(i = n) \in Nat
      BY DEF One
    <3>7. QED
      BY <3>1, <3>3, <3>4, <3>5, <3>6
  <2>6. QED
    BY <2>4, <2>5 DEF Meets
<1>19. QED
  BY <1>2, <1>10, <1>12, <1>15, <1>16, <1>17, <1>18, EventStep

\* Between two turns the machine and the network agree.
LEMMA SettledBetween ==
  ASSUME Typed, Budget, Control, agenda = <<>>
  PROVE  Settled
<1>1. HeadDo(agenda) = "-" /\ ~Entering
  BY Between
<1>2. Network /\ Listening
  BY DEF Control
<1>3. HeadDo(agenda) \notin Ends \cup {"connection_open", "session_open"}
  BY <1>1 DEF Ends
<1>4. state \in ConnectionStates
  BY DEF Typed
<1>5. heard = IF state = "disconnected" THEN {} ELSE {conn}
  BY <1>1, <1>2, <1>4 DEF Listening, Connected, ConnectionStates
<1>6. state # "disconnected" => conn \in Conns
  <2>1. CASE Underway
    BY <2>1, UnderwayConn
  <2>2. CASE state = "disconnecting"
    <3>1. conn \in 0..MaxConns /\ Newest > 0 /\ Newest + One(Underway) <= conn
      BY <1>1, <2>2 DEF Typed, Budget, Control, Waiting, Running
    <3>2. One(Underway) \in Nat /\ MaxConns \in Nat /\ Newest \in Nat
      BY Bounds, NewestBound DEF One
    <3>3. conn \in Nat /\ 1 <= conn /\ conn <= MaxConns
      BY <3>1, <3>2
    <3>4. QED
      BY <3>3, Bounds
  <2>3. QED
    BY <1>1, <1>4, <2>1, <2>2 DEF Underway, ConnectionStates
<1>7. state = "disconnecting" => ~(net[conn].up /\ net[conn].sess = "opening")
  BY <1>1 DEF Control, NeverOpened
<1>8. /\ state = "connecting" =>
           net[conn].up /\ net[conn].conn = "opening" /\ net[conn].sess = "none" /\ session < conn
      /\ state = "connecting_session" =>
           net[conn].up /\ net[conn].conn = "open" /\ net[conn].sess = "opening" /\ session = conn
      /\ state = "connected" =>
           net[conn].up /\ net[conn].conn = "open" /\ net[conn].sess = "open" /\ session = conn
      /\ state = "disconnecting" => net[conn].conn # "opening" /\ session = conn
  BY <1>1, <1>2, <1>3 DEF Network, Ends
<1>9. \A c \in Conns : net[c].up /\ net[c].sess = "opening" => c = conn /\ state = "connecting_session"
  BY <1>2, <1>7 DEF Network
<1>10. QED
  BY <1>5, <1>6, <1>8, <1>9 DEF Settled

\* The item of an event, or of what a link tells.
LEMMA EventItem ==
  ASSUME NEW n \in 0..MaxConns, NEW do \in PeerEvents \cup Tellings, NEW id \in 0..MaxRequests,
         NEW err \in BOOLEAN
  PROVE  Item(do, id, err) \in Items(n) /\ Item(do, id, err).do = do /\ Item(do, id, err).id = id
<1>1. id \in Owner /\ id >= 0
  <2>1. MaxConns \in Nat /\ MaxRequests \in Nat
    BY Bounds
  <2>2. id \in Int /\ -MaxConns <= id /\ id <= MaxRequests
    BY <2>1
  <2>3. QED
    BY <2>2, Bounds
<1>2. do \in PeerEvents \cup Tellings /\ id >= 0
  BY <1>1
<1>3. QED
  BY <1>1, <1>2, ItemIn

\* An event of the peer or of the network, whatever connection it is of.
LEMMA PeerEventStep ==
  ASSUME Inv, agenda = <<>>, ~thrown,
         UNCHANGED <<repertoire, state, deferred, thrown, callbacks, occurred, rhea, heard, links,
                     rundowns, requests>>,
         net' \in [Conns -> Nets], events' \in 0..MaxTroubles,
         NEW do \in PeerEvents, NEW err \in BOOLEAN, NEW listening \in BOOLEAN,
         agenda' = IF listening THEN <<Item(do, None, err)>> ELSE <<>>,
         Control /\ Settled /\ ~Entering' /\ HeadDo(agenda') = (IF listening THEN do ELSE "-") =>
           /\ listening => Fits(do)
           /\ Network'
           /\ \A c \in Conns : net'[c].up /\ net'[c].sess = "opening"
                                 => net[c].up /\ net[c].sess = "opening"
  PROVE  Inv'
<1>1. Typed /\ Budget /\ LateHasNoTimer
  BY DEF Inv
<1>2. Newest \in 0..MaxConns
  BY <1>1, NewestBound
<1>3. None \in 0..MaxRequests /\ None = 0 /\ do \in PeerEvents \cup Tellings
  BY Bounds
<1>4. Item(do, None, err) \in Items(Newest) /\ Item(do, None, err).do = do /\ Item(do, None, err).id = 0
  BY <1>2, <1>3, EventItem
<1>5. Newest' = Newest
  BY DEF Newest
<1>6. PICK e \in Items(Newest) : e = Item(do, None, err) /\ e.do = do /\ e.id = 0
  BY <1>4
<1>7. Hearing(do, 0, listening)
  <2>1. agenda' = IF listening THEN <<e>> ELSE <<>>
    BY <1>6
  <2>2. e.do \in OwnerMethods \cup PeerEvents \cup Tellings
    BY <1>6
  <2>3. Hearing(e.do, e.id, listening)
    BY <1>2, <1>5, <2>1, <2>2, EventTurn
  <2>4. QED
    BY <1>6, <2>3
<1>8. HeardLinks(0, listening)
  <2>1. ASSUME NEW i \in Nat \ {0} PROVE One(listening /\ 0 = i) + InLinks(i)' <= InLinks(i)
    <3>1. One(listening /\ 0 = i) = 0 /\ InLinks(i)' = InLinks(i)
      BY DEF One, InLinks
    <3>2. InLinks(i) \in Nat
      BY <1>1, PlacesNat
    <3>3. QED
      BY <3>1, <3>2
  <2>2. QED
    BY <2>1 DEF HeardLinks
<1>9. links' \in [Kinds -> LinkRecords]
  BY <1>1 DEF Typed
<1>10. ~Entering' /\ HeadDo(agenda') = IF listening THEN do ELSE "-"
  BY <1>7 DEF Hearing
<1>11. Control => Settled
  BY <1>1, SettledBetween
<1>12. do \in PeerEvents \cup Tellings
  OBVIOUS
<1>13. Control =>
         /\ listening => Fits(do)
         /\ UNCHANGED links \/ state = "connected"
         /\ Network'
         /\ \A c \in Conns : net'[c].up /\ net'[c].sess = "opening"
                               => net[c].up /\ net[c].sess = "opening"
  BY <1>10, <1>11
<1>14. QED
  BY <1>7, <1>8, <1>9, <1>12, <1>13, HeardStep

\* What Event guarantees.
LEMMA EventFacts ==
  ASSUME Typed, NEW solicited, Event(solicited)
  PROVE  agenda = <<>> /\ ~thrown /\ events' \in 0..MaxTroubles
<1>1. events \in 0..MaxTroubles /\ MaxTroubles \in Nat
  BY Bounds DEF Typed
<1>2. QED
  BY <1>1 DEF Event

\* What the peer makes of the record of a connection.
LEMMA OpensNet ==
  ASSUME net \in [Conns -> Nets], NEW c \in Conns,
         net' = [net EXCEPT ![c].conn = "open"]
  PROVE  /\ net' \in [Conns -> Nets] /\ \A d \in Conns : d # c => net'[d] = net[d]
         /\ net'[c].up = net[c].up /\ net'[c].conn = "open" /\ net'[c].sess = net[c].sess
<1>1. net[c] \in Nets /\ "open" \in Stages
  BY DEF Stages
<1> DEFINE q == [net[c] EXCEPT !.conn = "open"]
<1>2. q \in Nets /\ q.up = net[c].up /\ q.conn = "open" /\ q.sess = net[c].sess
  BY <1>1 DEF Nets
<1>3. net' = [net EXCEPT ![c] = q]
  BY <1>1
<1> HIDE DEF q
<1>4. QED
  BY <1>2, <1>3

\* What it makes of the session in it.
LEMMA SessionNet ==
  ASSUME net \in [Conns -> Nets], NEW c \in Conns, NEW to \in {"open", "closed"},
         net' = [net EXCEPT ![c].sess = to]
  PROVE  /\ net' \in [Conns -> Nets] /\ \A d \in Conns : d # c => net'[d] = net[d]
         /\ net'[c].up = net[c].up /\ net'[c].sess = to /\ net'[c].conn = net[c].conn
<1>1. net[c] \in Nets /\ to \in Stages
  BY DEF Stages
<1> DEFINE q == [net[c] EXCEPT !.sess = to]
<1>2. q \in Nets /\ q.up = net[c].up /\ q.sess = to /\ q.conn = net[c].conn
  BY <1>1 DEF Nets
<1>3. net' = [net EXCEPT ![c] = q]
  BY <1>1
<1> HIDE DEF q
<1>4. QED
  BY <1>2, <1>3

\* What is left of the record when the connection is lost.
LEMMA DownNet ==
  ASSUME net \in [Conns -> Nets], NEW c \in Conns,
         \/ net' = [net EXCEPT ![c].conn = "closed", ![c].up = FALSE]
         \/ net' = [net EXCEPT ![c].up = FALSE]
  PROVE  /\ net' \in [Conns -> Nets] /\ \A d \in Conns : d # c => net'[d] = net[d]
         /\ ~net'[c].up /\ net'[c].conn \in {net[c].conn, "closed"} /\ net'[c].sess = net[c].sess
<1>1. net[c] \in Nets /\ "closed" \in Stages
  BY DEF Stages
<1>2. PICK q0 \in Nets : /\ net' = [net EXCEPT ![c] = q0] /\ ~q0.up
                         /\ q0.conn \in {net[c].conn, "closed"} /\ q0.sess = net[c].sess
  <2>1. CASE net' = [net EXCEPT ![c].conn = "closed", ![c].up = FALSE]
    <3> DEFINE p == [net[c] EXCEPT !.conn = "closed"]
               q == [p EXCEPT !.up = FALSE]
    <3>1. p \in Nets /\ p.conn = "closed" /\ p.sess = net[c].sess
      BY <1>1 DEF Nets
    <3>2. net' = [net EXCEPT ![c] = q]
      BY <1>1, <2>1
    <3>3. q \in Nets /\ ~q.up /\ q.conn = p.conn /\ q.sess = p.sess
      <4> HIDE DEF p
      <4>1. QED
        BY <3>1 DEF Nets
    <3> HIDE DEF p, q
    <3>4. QED
      BY <3>1, <3>2, <3>3
  <2>2. CASE net' = [net EXCEPT ![c].up = FALSE]
    <3> DEFINE q == [net[c] EXCEPT !.up = FALSE]
    <3>1. net' = [net EXCEPT ![c] = q]
      BY <1>1, <2>2
    <3>2. q \in Nets /\ ~q.up /\ q.conn = net[c].conn /\ q.sess = net[c].sess
      BY <1>1 DEF Nets
    <3> HIDE DEF q
    <3>3. QED
      BY <3>1, <3>2
  <2>3. QED
    BY <2>1, <2>2
<1>3. QED
  BY <1>2

\* The peer opens the connection.
LEMMA PeerOpensConnectionStep ==
  ASSUME Inv, NEW c \in Conns, PeerOpensConnection(c)
  PROVE  Inv'
<1>1. Typed
  BY DEF Inv
<1>2. agenda = <<>> /\ ~thrown /\ events' \in 0..MaxTroubles
  BY <1>1, EventFacts DEF PeerOpensConnection
<1>3. /\ net[c].up /\ net[c].conn = "opening" /\ net' = [net EXCEPT ![c].conn = "open"]
      /\ agenda' = IF c \in heard THEN <<Item("connection_open", None, FALSE)>> ELSE <<>>
      /\ UNCHANGED <<repertoire, state, deferred, thrown, callbacks, occurred, rhea, heard, links,
                     rundowns, requests>>
  BY DEF PeerOpensConnection, Hears
<1>4. /\ net' \in [Conns -> Nets] /\ \A d \in Conns : d # c => net'[d] = net[d]
      /\ net'[c].up = net[c].up /\ net'[c].conn = "open" /\ net'[c].sess = net[c].sess
  BY <1>1, <1>3, OpensNet DEF Typed
<1>5. ASSUME Settled, ~Entering',
             HeadDo(agenda') = IF c \in heard THEN "connection_open" ELSE "-"
      PROVE  /\ c \in heard => Fits("connection_open")
             /\ Network'
             /\ \A d \in Conns : net'[d].up /\ net'[d].sess = "opening"
                                   => net[d].up /\ net[d].sess = "opening"
  <2>1. UNCHANGED <<state, conn, session, heard>>
    BY <1>3 DEF rhea
  <2>2. \A d \in Conns : net'[d].up /\ net'[d].sess = "opening"
                           => net[d].up /\ net[d].sess = "opening"
    BY <1>4
  <2>3. c \in heard => state = "connecting" /\ c = conn
    BY <1>1, <1>3, <1>5 DEF Settled, Typed, ConnectionStates
  <2>4. c \notin heard /\ state # "disconnected" => conn # c /\ conn \in Conns
    BY <1>5 DEF Settled
  <2>5. CASE c \in heard
    BY <1>3, <1>4, <1>5, <2>1, <2>2, <2>3, <2>5 DEF Settled, Network, Fits, Ends
  <2>6. CASE c \notin heard
    <3>1. state # "disconnected" => net'[conn] = net[conn]
      BY <1>4, <2>4, <2>6
    <3>2. HeadDo(agenda') = "-"
      BY <1>5, <2>6
    <3>3. QED
      BY <1>5, <2>1, <2>2, <2>6, <3>1, <3>2 DEF Settled, Network, Ends
  <2>7. QED
    BY <2>5, <2>6
<1>6. (c \in heard) \in BOOLEAN /\ "connection_open" \in PeerEvents
  BY DEF PeerEvents
<1>7. QED
  BY <1>2, <1>3, <1>4, <1>5, <1>6, PeerEventStep

\* The peer closes the connection, or the socket is lost.
LEMMA DownEventStep ==
  ASSUME Inv, NEW c \in Conns, PeerClosesConnection(c, TRUE) \/ PeerClosesConnection(c, FALSE)
                                 \/ SocketLost(c)
  PROVE  Inv'
<1>1. Typed
  BY DEF Inv
<1>2. agenda = <<>> /\ ~thrown /\ events' \in 0..MaxTroubles
  BY <1>1, EventFacts DEF PeerClosesConnection, SocketLost
<1>3. PICK do \in {"connection_close", "disconnected"}, err \in BOOLEAN :
        agenda' = IF c \in heard THEN <<Item(do, None, err)>> ELSE <<>>
  BY DEF PeerClosesConnection, SocketLost, Hears
<1>4. UNCHANGED <<repertoire, state, deferred, thrown, callbacks, occurred, rhea, heard, links,
                  rundowns, requests>>
  BY DEF PeerClosesConnection, SocketLost, Hears
<1>5. \/ net' = [net EXCEPT ![c].conn = "closed", ![c].up = FALSE]
      \/ net' = [net EXCEPT ![c].up = FALSE]
  BY DEF PeerClosesConnection, SocketLost
<1>6. /\ net' \in [Conns -> Nets] /\ \A d \in Conns : d # c => net'[d] = net[d]
      /\ ~net'[c].up /\ net'[c].conn \in {net[c].conn, "closed"} /\ net'[c].sess = net[c].sess
  BY <1>1, <1>5, DownNet DEF Typed
<1>7. ASSUME Settled, ~Entering', HeadDo(agenda') = IF c \in heard THEN do ELSE "-"
      PROVE  /\ c \in heard => Fits(do)
             /\ Network'
             /\ \A d \in Conns : net'[d].up /\ net'[d].sess = "opening"
                                   => net[d].up /\ net[d].sess = "opening"
  <2>1. UNCHANGED <<state, conn, session, heard>>
    BY <1>4 DEF rhea
  <2>2. \A d \in Conns : net'[d].up /\ net'[d].sess = "opening"
                           => net[d].up /\ net[d].sess = "opening"
    BY <1>6
  <2>3. c \in heard => state # "disconnected" /\ c = conn
    BY <1>7 DEF Settled
  <2>4. c \notin heard /\ state # "disconnected" => conn # c /\ conn \in Conns
    BY <1>7 DEF Settled
  <2>5. Fits(do)
    BY DEF Fits
  <2>6. CASE c \in heard
    <3>1. Connected'
      BY <1>1, <1>7, <2>1, <2>3, <2>6 DEF Connected, Typed, ConnectionStates
    <3>2. ~net'[conn].up /\ HeadDo(agenda') \in {"connection_close", "disconnected"}
      BY <1>6, <1>7, <2>3, <2>6
    <3>3. state = "connecting" => net'[conn].sess = "none" /\ session < conn
      BY <1>6, <1>7, <2>3, <2>6 DEF Settled
    <3>4. /\ state \in {"connecting_session", "connected", "disconnecting"} => net'[conn].conn # "opening"
          /\ state \in {"connecting_session", "connected", "disconnecting"} => session = conn
      BY <1>6, <1>7, <2>3, <2>6 DEF Settled
    <3>5. \A d \in Conns : net'[d].up /\ net'[d].sess = "opening" =>
                             d = conn /\ state = "connecting_session"
      BY <1>7, <2>2 DEF Settled
    <3>6. Network'
      BY <1>7, <2>1, <3>1, <3>2, <3>3, <3>4, <3>5 DEF Network, Ends
    <3>7. QED
      BY <2>2, <2>5, <3>6
  <2>7. CASE c \notin heard
    <3>1. state # "disconnected" => net'[conn] = net[conn]
      BY <1>6, <2>4, <2>7
    <3>2. HeadDo(agenda') = "-"
      BY <1>7, <2>7
    <3>3. QED
      BY <1>7, <2>1, <2>2, <2>5, <2>7, <3>1, <3>2 DEF Settled, Network, Ends
  <2>8. QED
    BY <2>6, <2>7
<1>8. (c \in heard) \in BOOLEAN /\ do \in PeerEvents
  BY DEF PeerEvents
<1>9. QED
  BY <1>2, <1>3, <1>4, <1>6, <1>7, <1>8, PeerEventStep

\* The connection has met an error.
LEMMA ConnectionErrsStep ==
  ASSUME Inv, NEW c \in Conns, ConnectionErrs(c)
  PROVE  Inv'
<1>1. Typed /\ Budget
  BY DEF Inv
<1>2. agenda = <<>> /\ ~thrown /\ events' \in 0..MaxTroubles
  BY <1>1, EventFacts DEF ConnectionErrs
<1>3. /\ agenda' = IF TRUE THEN <<Item("error", None, TRUE)>> ELSE <<>>
      /\ UNCHANGED <<repertoire, state, deferred, thrown, callbacks, occurred, rhea, heard, links,
                     rundowns, requests>>
      /\ UNCHANGED net
  BY DEF ConnectionErrs, Hears
<1>4. net' \in [Conns -> Nets]
  BY <1>1, <1>3 DEF Typed
<1>5. ASSUME Control, ~Entering', HeadDo(agenda') = "error"
      PROVE  Fits("error") /\ Network'
  <2>1. HeadDo(agenda') \notin {"connection_open", "session_open"} \cup Ends
    BY <1>5 DEF Ends
  <2>2. Network
    BY <1>5 DEF Control
  <2>3. Network'
    BY <1>1, <1>2, <1>3, <1>5, <2>1, <2>2, NetworkSame
  <2>4. QED
    BY <2>3 DEF Fits
<1>6. "error" \in PeerEvents
  BY DEF PeerEvents
<1>7. QED
  BY <1>2, <1>3, <1>4, <1>5, <1>6, PeerEventStep

\* The peer opens the session.
LEMMA PeerOpensSessionStep ==
  ASSUME Inv, NEW c \in Conns, PeerOpensSession(c)
  PROVE  Inv'
<1>1. Typed
  BY DEF Inv
<1>2. agenda = <<>> /\ ~thrown /\ events' \in 0..MaxTroubles
  BY <1>1, EventFacts DEF PeerOpensSession
<1>3. /\ net[c].up /\ net[c].sess = "opening" /\ net' = [net EXCEPT ![c].sess = "open"]
      /\ agenda' = IF TRUE THEN <<Item("session_open", None, FALSE)>> ELSE <<>>
      /\ UNCHANGED <<repertoire, state, deferred, thrown, callbacks, occurred, rhea, heard, links,
                     rundowns, requests>>
  BY DEF PeerOpensSession, Hears
<1>4. /\ net' \in [Conns -> Nets] /\ \A d \in Conns : d # c => net'[d] = net[d]
      /\ net'[c].up = net[c].up /\ net'[c].sess = "open" /\ net'[c].conn = net[c].conn
  BY <1>1, <1>3, SessionNet DEF Typed
<1>5. ASSUME Settled, ~Entering', HeadDo(agenda') = "session_open"
      PROVE  /\ Fits("session_open")
             /\ Network'
             /\ \A d \in Conns : net'[d].up /\ net'[d].sess = "opening"
                                   => net[d].up /\ net[d].sess = "opening"
  <2>1. UNCHANGED <<state, conn, session>>
    BY <1>3 DEF rhea
  <2>2. \A d \in Conns : net'[d].up /\ net'[d].sess = "opening"
                           => net[d].up /\ net[d].sess = "opening"
    BY <1>4
  <2>3. state = "connecting_session" /\ c = conn
    BY <1>3, <1>5 DEF Settled
  <2>4. QED
    BY <1>3, <1>4, <1>5, <2>1, <2>2, <2>3 DEF Settled, Network, Fits, Ends
<1>6. "session_open" \in PeerEvents
  BY DEF PeerEvents
<1>7. QED
  BY <1>2, <1>3, <1>4, <1>5, <1>6, PeerEventStep

\* The peer closes the session.
LEMMA PeerClosesSessionStep ==
  ASSUME Inv, NEW c \in Conns, NEW err \in BOOLEAN, PeerClosesSession(c, err)
  PROVE  Inv'
<1>1. Typed
  BY DEF Inv
<1>2. agenda = <<>> /\ ~thrown /\ events' \in 0..MaxTroubles
  BY <1>1, EventFacts DEF PeerClosesSession
<1>3. /\ net[c].up /\ net[c].sess \in {"opening", "open", "closing"}
      /\ net' = [net EXCEPT ![c].sess = "closed"]
      /\ agenda' = IF TRUE THEN <<Item("session_close", None, err)>> ELSE <<>>
      /\ UNCHANGED <<repertoire, state, deferred, thrown, callbacks, occurred, rhea, heard, links,
                     rundowns, requests>>
  BY DEF PeerClosesSession, Hears
<1>4. /\ net' \in [Conns -> Nets] /\ \A d \in Conns : d # c => net'[d] = net[d]
      /\ net'[c].up = net[c].up /\ net'[c].sess = "closed" /\ net'[c].conn = net[c].conn
  BY <1>1, <1>3, SessionNet DEF Typed
<1>5. ASSUME Settled, ~Entering', HeadDo(agenda') = "session_close"
      PROVE  /\ Fits("session_close")
             /\ Network'
             /\ \A d \in Conns : net'[d].up /\ net'[d].sess = "opening"
                                   => net[d].up /\ net[d].sess = "opening"
  <2>1. UNCHANGED <<state, conn, session>>
    BY <1>3 DEF rhea
  <2>2. \A d \in Conns : net'[d].up /\ net'[d].sess = "opening"
                           => net[d].up /\ net[d].sess = "opening"
    BY <1>4
  <2>3. state = "connecting" => c # conn /\ conn \in Conns /\ net'[conn] = net[conn]
    BY <1>3, <1>4, <1>5 DEF Settled
  <2>4. state # "disconnected" => conn \in Conns /\ net'[conn].conn = net[conn].conn
    BY <1>4, <1>5 DEF Settled
  <2>5. QED
    BY <1>5, <2>1, <2>2, <2>3, <2>4 DEF Settled, Network, Fits, Ends
<1>6. "session_close" \in PeerEvents
  BY DEF PeerEvents
<1>7. QED
  BY <1>2, <1>3, <1>4, <1>5, <1>6, PeerEventStep

\* The links that are served between two turns are those of a machine that is
\* connected.
LEMMA ServedLinks ==
  ASSUME Typed, Budget, Control, agenda = <<>>, NEW k \in Kinds,
         \/ links[k].phase \in {"attaching", "attached"}
         \/ links[k].phase = "detaching" /\ k # "cbs"
  PROVE  state = "connected"
<1>1. HeadDo(agenda) = "-" /\ ~Entering
  BY Between
<1>2. state \in ConnectionStates
  BY DEF Typed
<1>3. k \in {"sender", "receiver", "cbs"}
  BY DEF Kinds
<1>4. NoLink.phase = "none"
  BY DEF NoLink
<1>5. ASSUME state # "connected" PROVE FALSE
  <2>1. state \in {"disconnected", "connecting", "connecting_session"} \/ Running
    BY <1>1, <1>2, <1>5 DEF Running, ConnectionStates
  <2>2. links["sender"].phase = "none" /\ links["receiver"].phase = "none"
        /\ links["cbs"].phase \in {"none", "detaching", "detached"}
    BY <1>1, <1>4, <2>1 DEF Control, Unlinked
  <2>3. QED
    BY <1>3, <2>2
<1>6. QED
  BY <1>5

\* Then the callbacks of the links are accounted for.
LEMMA HearkensLinks ==
  ASSUME Typed, NEW k \in Kinds, NEW r, NEW id, Hearkens(r, k, id), NEW listening \in BOOLEAN
  PROVE  links' \in [Kinds -> LinkRecords] /\ HeardLinks(id, listening)
<1>1. links \in [Kinds -> LinkRecords] /\ None = 0
  BY Bounds DEF Typed
<1>2. /\ links' \in [Kinds -> LinkRecords]
      /\ \A i \in Nat \ {0} : InLinks(i)' + One(links[k].op = i) = InLinks(i) + One(r.op = i)
  <2>1. Relinks(k, r) /\ r \in LinkRecords
    BY DEF Relinks, Hearkens
  <2>2. Relinked(k, r)
    BY <1>1, <2>1, LinkSet
  <2>3. QED
    BY <2>2 DEF Relinked
<1>3. ASSUME NEW i \in Nat \ {0} PROVE One(listening /\ id = i) + InLinks(i)' <= InLinks(i)
  <2>1. InLinks(i)' + One(links[k].op = i) = InLinks(i) + One(r.op = i)
    BY <1>2
  <2>2. One(listening /\ id = i) + One(r.op = i) <= One(links[k].op = i)
    BY <1>1 DEF Hearkens, One
  <2>3. InLinks(i) \in Nat /\ InLinks(i)' \in Nat
    <3>1. InLinks(i)' \in Nat
      BY DEF InLinks, One
    <3>2. QED
      BY <3>1, PlacesNat
  <2>4. One(listening /\ id = i) \in Nat /\ One(r.op = i) \in Nat /\ One(links[k].op = i) \in Nat
    BY DEF One
  <2>5. QED
    BY <2>1, <2>2, <2>3, <2>4
<1>4. QED
  BY <1>2, <1>3 DEF HeardLinks

\* What a link tells begins a turn.
LEMMA LinkEventStep ==
  ASSUME Inv, agenda = <<>>, ~thrown,
         UNCHANGED <<repertoire, state, deferred, thrown, callbacks, occurred, rhea, heard, rundowns,
                     requests>>,
         UNCHANGED net, events' \in 0..MaxTroubles, NEW k \in Kinds,
         \/ links[k].phase \in {"attaching", "attached"}
         \/ links[k].phase = "detaching" /\ k # "cbs",
         NEW do \in Tellings \cup {"amqpError"}, NEW id \in 0..MaxRequests, NEW err \in BOOLEAN,
         NEW listening \in BOOLEAN, agenda' = IF listening THEN <<Item(do, id, err)>> ELSE <<>>,
         NEW r, Hearkens(r, k, id)
  PROVE  Inv'
<1>1. Typed /\ Budget
  BY DEF Inv
<1>2. Newest \in 0..MaxConns /\ Newest' = Newest
  BY <1>1, NewestBound DEF Newest
<1>3. do \in PeerEvents \cup Tellings
  BY DEF PeerEvents
<1>4. Item(do, id, err) \in Items(Newest) /\ Item(do, id, err).do = do /\ Item(do, id, err).id = id
  BY <1>2, <1>3, EventItem
<1>5. PICK e \in Items(Newest) : e = Item(do, id, err) /\ e.do = do /\ e.id = id
  BY <1>4
<1>6. Hearing(do, id, listening)
  <2>1. agenda' = IF listening THEN <<e>> ELSE <<>>
    BY <1>5
  <2>2. e.do \in OwnerMethods \cup PeerEvents \cup Tellings
    BY <1>3, <1>5
  <2>3. Hearing(e.do, e.id, listening)
    BY <1>2, <1>5, <2>1, <2>2, EventTurn
  <2>4. QED
    BY <1>5, <2>3
<1>7. ~Entering' /\ HeadDo(agenda') \in {do, "-"}
  BY <1>6 DEF Hearing
<1>8. links' \in [Kinds -> LinkRecords] /\ HeardLinks(id, listening)
  BY <1>1, HearkensLinks
<1>9. net' \in [Conns -> Nets]
  BY <1>1 DEF Typed
<1>10. ASSUME Control
       PROVE  /\ listening => Fits(do)
              /\ UNCHANGED links \/ state = "connected"
              /\ Network'
              /\ \A c \in Conns : net'[c].up /\ net'[c].sess = "opening"
                                    => net[c].up /\ net[c].sess = "opening"
  <2>1. state = "connected"
    BY <1>1, <1>10, ServedLinks
  <2>2. HeadDo(agenda') \notin {"connection_open", "session_open"} \cup Ends
    BY <1>7 DEF Ends, Tellings
  <2>3. Network
    BY <1>10 DEF Control
  <2>4. Network'
    BY <1>1, <1>7, <2>2, <2>3, NetworkSame
  <2>5. Fits(do)
    BY <2>1 DEF Fits, Tellings
  <2>6. QED
    BY <2>1, <2>4, <2>5
<1>11. QED
  BY <1>3, <1>6, <1>8, <1>9, <1>10, HeardStep

\* A link is attached, refused, or detached, by the peer.
LEMMA LinkTurn ==
  ASSUME Typed, NEW k \in Kinds
  PROVE  /\ links[k].op \in 0..MaxRequests
         /\ [phase |-> "attached", op |-> None] \in LinkRecords
         /\ [phase |-> "detached", op |-> None] \in LinkRecords
         /\ NoLink \in LinkRecords /\ NoLink.op = None /\ None \in 0..MaxRequests
         /\ [links[k] EXCEPT !.phase = "detached"] \in LinkRecords
         /\ [links[k] EXCEPT !.phase = "detached"].op = links[k].op
<1>1. links[k] \in LinkRecords
  BY DEF Typed
<1>2. None \in 0..MaxRequests
  BY Bounds
<1>3. links[k].op \in 0..MaxRequests
  BY <1>1 DEF LinkRecords
<1>4. QED
  BY <1>1, <1>2, <1>3 DEF LinkRecords, NoLink

\* A link is attached.
LEMMA LinkOpenedStep ==
  ASSUME Inv, NEW k \in Kinds, LinkOpened(k)
  PROVE  Inv'
<1>1. Typed
  BY DEF Inv
<1>2. agenda = <<>> /\ ~thrown /\ events' \in 0..MaxTroubles
  BY <1>1, EventFacts DEF LinkOpened
<1>3. /\ links[k].phase = "attaching"
      /\ links' = [links EXCEPT ![k] = [phase |-> "attached", op |-> None]]
      /\ agenda' = IF TRUE THEN <<Item("opened", links[k].op, FALSE)>> ELSE <<>>
      /\ UNCHANGED <<repertoire, state, deferred, thrown, callbacks, occurred, rhea, heard, rundowns,
                     requests>>
      /\ UNCHANGED net
  BY DEF LinkOpened, Hears
<1>4. Hearkens([phase |-> "attached", op |-> None], k, links[k].op)
  BY <1>1, <1>3, LinkTurn DEF Hearkens
<1>5. links[k].op \in 0..MaxRequests /\ "opened" \in Tellings
  BY <1>1, LinkTurn DEF Tellings
<1>6. QED
  BY <1>2, <1>3, <1>4, <1>5, LinkEventStep

\* The peer refuses a link.
LEMMA LinkRefusedStep ==
  ASSUME Inv, NEW k \in Kinds, NEW err \in BOOLEAN, LinkRefused(k, err)
  PROVE  Inv'
<1>1. Typed
  BY DEF Inv
<1>2. agenda = <<>> /\ ~thrown /\ events' \in 0..MaxTroubles
  BY <1>1, EventFacts DEF LinkRefused
<1>3. PICK do : do = IF err THEN "refused" ELSE "opened"
  OBVIOUS
<1>4. PICK r : r = IF err /\ k # "cbs" THEN NoLink ELSE [phase |-> "detached", op |-> None]
  OBVIOUS
<1>5. /\ links[k].phase = "attaching"
      /\ links' = [links EXCEPT ![k] = r]
      /\ agenda' = IF TRUE THEN <<Item(do, links[k].op, err)>> ELSE <<>>
      /\ UNCHANGED <<repertoire, state, deferred, thrown, callbacks, occurred, rhea, heard, rundowns,
                     requests>>
      /\ UNCHANGED net
  BY <1>3, <1>4 DEF LinkRefused, Hears
<1>6. r \in LinkRecords /\ r.op = None
  BY <1>1, <1>4, LinkTurn
<1>7. Hearkens(r, k, links[k].op)
  BY <1>5, <1>6 DEF Hearkens
<1>8. links[k].op \in 0..MaxRequests /\ do \in Tellings
  BY <1>1, <1>3, LinkTurn DEF Tellings
<1>9. QED
  BY <1>2, <1>5, <1>7, <1>8, LinkEventStep

\* The peer ends a link.
LEMMA LinkEndedStep ==
  ASSUME Inv, NEW k \in Kinds, NEW err \in BOOLEAN, LinkEnded(k, err)
  PROVE  Inv'
<1>1. Typed
  BY DEF Inv
<1>2. agenda = <<>> /\ ~thrown /\ events' \in 0..MaxTroubles
  BY <1>1, EventFacts DEF LinkEnded
<1>3. PICK r : r = IF err THEN links[k] ELSE [links[k] EXCEPT !.phase = "detached"]
  OBVIOUS
<1>4. links[k] \in LinkRecords
  BY <1>1 DEF Typed
<1>5. r \in LinkRecords /\ r.op = links[k].op
  BY <1>1, <1>3, <1>4, LinkTurn
<1>6. links' = [links EXCEPT ![k] = r]
  <2>1. CASE err
    BY <1>1, <1>3, <2>1 DEF LinkEnded, Typed
  <2>2. CASE ~err
    BY <1>3, <2>2 DEF LinkEnded
  <2>3. QED
    BY <2>1, <2>2
<1>7. /\ links[k].phase = "attached"
      /\ agenda' = IF err THEN <<Item("amqpError", None, TRUE)>> ELSE <<>>
      /\ UNCHANGED <<repertoire, state, deferred, thrown, callbacks, occurred, rhea, heard, rundowns,
                     requests>>
      /\ UNCHANGED net
  BY DEF LinkEnded, Hears
<1>8. Hearkens(r, k, None)
  BY <1>5, <1>6 DEF Hearkens
<1>9. None \in 0..MaxRequests
  BY Bounds
<1>10. QED
  BY <1>2, <1>7, <1>8, <1>9, LinkEventStep

\* A link has detached.
LEMMA LinkDetachedStep ==
  ASSUME Inv, NEW k \in Kinds, LinkDetached(k)
  PROVE  Inv'
<1>1. Typed
  BY DEF Inv
<1>2. agenda = <<>> /\ ~thrown /\ events' \in 0..MaxTroubles
  BY <1>1, EventFacts DEF LinkDetached
<1>3. /\ links[k].phase = "detaching" /\ k # "cbs"
      /\ links' = [links EXCEPT ![k] = NoLink]
      /\ agenda' = IF TRUE THEN <<Item("detached", links[k].op, FALSE)>> ELSE <<>>
      /\ UNCHANGED <<repertoire, state, deferred, thrown, callbacks, occurred, rhea, heard, rundowns,
                     requests>>
      /\ UNCHANGED net
  BY DEF LinkDetached, Hears
<1>4. Hearkens(NoLink, k, links[k].op)
  BY <1>1, <1>3, LinkTurn DEF Hearkens
<1>5. links[k].op \in 0..MaxRequests /\ "detached" \in Tellings
  BY <1>1, LinkTurn DEF Tellings
<1>6. QED
  BY <1>2, <1>3, <1>4, <1>5, LinkEventStep

\* The turn that begins with it.
LEMMA Stepped1 ==
  ASSUME Typed, Budget, Newest' = Newest, NEW v \in 1..Newest, NEW do \in {"links", "force"},
         Steps1(do, v)
  PROVE  /\ agenda' \in Turns(Newest') /\ ~Entering' /\ HeadDo(agenda') = do /\ agenda' # <<>>
         /\ Tail(agenda') = <<>> /\ Connects(agenda') = 0
         /\ LinkSteps(agenda') = One(do = "links") /\ SessionSteps(agenda') = 0
         /\ Closings(agenda') = 0
         /\ \A i \in Nat \ {0} : Count(agenda', Of(i)) = 0
         /\ v = Newest => agenda' \in Seq(OfNewest)
<1>1. Newest \in 0..MaxConns
  BY NewestBound
<1>2. do \in Steps
  BY DEF Steps
<1>3. \A d \in Steps, err \in BOOLEAN :
        /\ Item(d, v, err) \in Items(Newest) /\ Item(d, v, err) \in Items(MaxConns)
        /\ Item(d, v, err).do = d /\ Item(d, v, err).id = v
  BY <1>1, StepIn
<1>4. PICK e : e = Item(do, v, FALSE)
  OBVIOUS
<1>5. e \in Items(Newest) /\ e \in Items(MaxConns) /\ e.do = do /\ e.id = v
  BY <1>2, <1>3, <1>4
<1>6. agenda' = <<e>>
  BY <1>4 DEF Steps1
<1>7. <<e>> \in Turns(Newest) /\ Begins(<<e>>, e, <<>>)
  BY <1>1, <1>5, OneItem
<1>8. /\ Connects(<<>>) = 0 /\ LinkSteps(<<>>) = 0 /\ SessionSteps(<<>>) = 0 /\ Closings(<<>>) = 0
      /\ \A i : Count(<<>>, Of(i)) = 0
  BY NoTurn
<1>9. /\ agenda' # <<>> /\ HeadDo(agenda') = do /\ Tail(agenda') = <<>>
      /\ Connects(agenda') = One(do = "connect") + 0
      /\ LinkSteps(agenda') = One(do = "links") + 0
      /\ SessionSteps(agenda') = One(do = "session") + 0
      /\ Closings(agenda') = One(do \in {"session_close", "replay"}) + 0
      /\ \A i : Count(agenda', Of(i)) = One(e.id = i /\ e.do \notin Steps) + 0
  BY <1>5, <1>6, <1>7, <1>8 DEF Begins
<1>10. /\ Connects(agenda') = 0 /\ SessionSteps(agenda') = 0 /\ Closings(agenda') = 0
       /\ LinkSteps(agenda') = One(do = "links") /\ ~Entering'
  BY <1>9 DEF One, Entering
<1>11. \A i \in Nat \ {0} : Count(agenda', Of(i)) = 0
  BY <1>2, <1>5, <1>9 DEF One
<1>12. v = Newest => e \in OfNewest
  BY <1>5 DEF OfNewest
<1>13. QED
  BY <1>6, <1>7, <1>9, <1>10, <1>11, <1>12

\* What controls a machine that runs a rundown stays true then.
LEMMA Stepped1Control ==
  ASSUME Typed, Budget, Control, agenda = <<>>, ~thrown, Running,
         Newest' = Newest, DOMAIN rundowns' = DOMAIN rundowns,
         NEW do \in {"links", "force"}, Steps1(do, Newest),
         links'["sender"] = links["sender"], links'["receiver"] = links["receiver"],
         links'["cbs"].phase \in {"none", "detaching", "detached"},
         \A w \in DOMAIN rundowns :
           /\ w # Newest => rundowns'[w] = rundowns[w]
           /\ rundowns'[w].callback = rundowns[w].callback,
         do = "force" => /\ ~rundowns'[Newest].timer,
         do = "links" => /\ rundowns'[Newest].timer /\ rundowns'[Newest].waits = "-"
                         /\ connectionCallback = None /\ sessionCallback = None
  PROVE  Control'
<1>1. /\ UNCHANGED <<state, deferred, rhea, heard, thrown, net>>
      /\ UNCHANGED <<connectionCallback, sessionCallback, disconnectionOccurred,
                     sessionCloseOccurred, conn>>
  BY DEF Steps1, callbacks, occurred, rhea
<1>2. Newest \in 0..MaxConns /\ HeadDo(agenda) = "-"
  BY Between
<1>3. Newest > 0 /\ Newest \in 1..Newest
  <2>1. Newest > 0
    BY DEF Control, Waiting
  <2>2. QED
    BY <1>2, <2>1
<1>4. /\ HeadDo(agenda') = do /\ agenda' # <<>> /\ Tail(agenda') = <<>>
      /\ LinkSteps(agenda') = One(do = "links") /\ SessionSteps(agenda') = 0
      /\ Closings(agenda') = 0 /\ agenda' \in Seq(OfNewest)
  BY <1>3, Stepped1
<1>5. Load(agenda') = 1
  BY <1>4 DEF Load, One, LeadingSteps
<1>6. TurnsOn
  <2>1. <<>> \in Seq(Do(Following))
    OBVIOUS
  <2>2. do \in Following \cup LeadingSteps
    BY DEF Following, LeadingSteps
  <2>3. QED
    BY <1>1, <1>4, <1>5, <2>1, <2>2 DEF TurnsOn
<1>7. HoldsOn
  <2>1. connectionCallback \in {None, -Newest} /\ sessionCallback \in {None, -Newest}
    BY DEF Control, Owners
  <2>2. QED
    BY <1>1, <2>1 DEF HoldsOn
<1>8. WaitsOn
  <2>1. \A w \in DOMAIN rundowns : rundowns[w].callback >= 0
    BY DEF Control, Owners
  <2>2. Leading(agenda')
    BY <1>4 DEF Leading, One
  <2>3. \A w \in DOMAIN rundowns' :
          /\ w # Newest => rundowns'[w] = rundowns[w]
          /\ rundowns'[w].callback >= 0
          /\ w = Newest /\ rundowns'[w].waits # "-" => ~rundowns'[w].timer
    BY <2>1
  <2>4. HeadDo(agenda') # "cbs"
    BY <1>4
  <2>5. LinkSteps(agenda') > 0 => do = "links"
    BY <1>4 DEF One
  <2>6. QED
    BY <1>1, <1>3, <2>2, <2>3, <2>4, <2>5 DEF WaitsOn
<1>9. NeverOpened'
  <2>1. ~(net[conn].up /\ net[conn].sess = "opening")
    BY <1>2 DEF Control, NeverOpened, Running
  <2>2. QED
    BY <1>1, <2>1 DEF NeverOpened
<1>10. QED
  BY <1>1, <1>6, <1>7, <1>8, <1>9, RunsOn

\* And so does the rest of the invariant.
LEMMA Stepped1Step ==
  ASSUME Inv, agenda = <<>>, ~thrown, NEW v \in 1..Newest, NEW do \in {"links", "force"},
         Steps1(do, v), rundowns' \in Seq(Rundowns(Newest)), Newest' = Newest,
         DOMAIN rundowns' = DOMAIN rundowns, links' \in [Kinds -> LinkRecords],
         LateHasNoTimer', LateRundown => LateRundown',
         \A w \in DOMAIN rundowns : rundowns'[w].callback = rundowns[w].callback,
         \A i \in Nat \ {0} : InRundowns(i)' = InRundowns(i) /\ InLinks(i)' <= InLinks(i),
         ~LateRundown /\ ~LateRundown' /\ Control => Control'
  PROVE  Inv'
<1>1. Typed /\ Budget
  BY DEF Inv
<1>2. /\ agenda' \in Turns(Newest') /\ ~Entering' /\ Connects(agenda') = 0
      /\ \A i \in Nat \ {0} : Count(agenda', Of(i)) = 0
  BY <1>1, Stepped1
<1>3. UNCHANGED <<repertoire, state, deferred, thrown, callbacks, occurred, rhea, heard, net,
                  requests, events, connectionCallback, sessionCallback, disconnectionOccurred,
                  sessionCloseOccurred, connectionCloseOccurred, conn, session>>
  BY DEF Steps1, callbacks, occurred, rhea
<1>4. Typed'
  BY <1>1, <1>2, <1>3 DEF Typed
<1>5. Connections' = Connections /\ Connections \in Nat /\ Connections <= MaxConns
  BY <1>1, <1>3, PlacesNat DEF Connections, Budget
<1>6. Connects(agenda') + Connections <= Connections' /\ Connections' <= MaxConns
  BY <1>2, <1>5
<1>7. ASSUME Control PROVE Meets
  <2>1. ASSUME NEW i \in Nat \ {0}
        PROVE  Count(agenda', Of(i)) + InLinks(i)' + InRundowns(i)' + InClosure(i)' + Told(i)'
                   + One(i \in DOMAIN requests)
                 <= InLinks(i) + InRundowns(i) + InClosure(i) + Told(i) + One(i \in DOMAIN requests')
    <3>1. Count(agenda', Of(i)) = 0 /\ InRundowns(i)' = InRundowns(i) /\ InLinks(i)' <= InLinks(i)
      BY <1>2
    <3>2. Told(i)' = Told(i) /\ One(i \in DOMAIN requests') = One(i \in DOMAIN requests)
      BY <1>3 DEF Told
    <3>3. ~Entering
      BY <1>1, Between
    <3>4. InClosure(i)' = InClosure(i)
      <4>1. Running' <=> Running
        BY <1>2, <1>3, <3>3 DEF Running
      <4>2. Newest \in DOMAIN rundowns
        <5>1. Newest \in Nat /\ DOMAIN rundowns = 1..Newest
          BY <1>1, NewestBound, LenProperties DEF Typed, Newest
        <5>2. QED
          BY <5>1
      <4>3. QED
        BY <4>1, <4>2 DEF InClosure
    <3>5. /\ InLinks(i) \in Nat /\ InRundowns(i) \in Nat /\ InClosure(i) \in Nat
          /\ Told(i) \in Nat
      BY <1>1, PlacesNat
    <3>6. InLinks(i)' \in Nat /\ One(i \in DOMAIN requests) \in Nat
      BY DEF One, InLinks
    <3>7. QED
      BY <3>1, <3>2, <3>4, <3>5, <3>6
  <2>2. QED
    BY <2>1 DEF Meets
<1>8. UNCHANGED <<state, deferred, callbacks, rhea>>
  BY <1>3
<1>9. ~LateRundown /\ ~LateRundown' /\ Control => Control' /\ Meets
  BY <1>7
<1>10. QED
  BY <1>2, <1>4, <1>6, <1>8, <1>9, EventStep

\* Its timer fires.
LEMMA TimerStep ==
  ASSUME Inv, NEW v \in DOMAIN rundowns, Timer(v)
  PROVE  Inv'
<1>1. Typed /\ Budget /\ LateHasNoTimer
  BY DEF Inv
<1>2. v \in 1..Newest
  BY <1>1, LenProperties DEF Typed, Newest
<1>3. agenda = <<>> /\ ~thrown /\ rundowns[v].timer /\ Stops(v) /\ UNCHANGED links
  BY <1>1, EventFacts DEF Timer, Stops
<1>4. Steps1("force", v)
  BY DEF Timer, Hears, Steps1, Event
<1>5. /\ rundowns' \in Seq(Rundowns(Newest)) /\ Newest' = Newest
      /\ DOMAIN rundowns' = DOMAIN rundowns
      /\ ~rundowns'[v].timer
      /\ \A w \in DOMAIN rundowns :
           /\ w # v => rundowns'[w] = rundowns[w]
           /\ rundowns'[w].callback = rundowns[w].callback
      /\ LateHasNoTimer' /\ (LateRundown' <=> LateRundown)
      /\ \A i \in Nat \ {0} : InRundowns(i)' = InRundowns(i)
  BY <1>1, <1>2, <1>3, StopSet
<1>6. \A i \in Nat \ {0} : InRundowns(i)' = InRundowns(i) /\ InLinks(i)' <= InLinks(i)
  <2>1. ASSUME NEW i \in Nat \ {0} PROVE InLinks(i)' <= InLinks(i)
    <3>1. InLinks(i)' = InLinks(i) /\ InLinks(i) \in Nat
      BY <1>1, <1>3, PlacesNat DEF InLinks
    <3>2. QED
      BY <3>1
  <2>2. QED
    BY <1>5, <2>1
<1>7. ASSUME Control PROVE Control'
  <2>1. Running /\ v = Newest
    BY <1>3, <1>7 DEF Control, Waiting
  <2>2. HeadDo(agenda) = "-"
    BY <1>1, <1>3, Between
  <2>3. links["cbs"].phase \in {"none", "detaching", "detached"}
    BY <1>7, <2>1, <2>2 DEF Control, Unlinked
  <2>4. Steps1("force", Newest) /\ "force" \in {"links", "force"} /\ ~rundowns'[Newest].timer
        /\ links'["sender"] = links["sender"] /\ links'["receiver"] = links["receiver"]
        /\ links'["cbs"].phase \in {"none", "detaching", "detached"}
    BY <1>3, <1>4, <1>5, <2>1, <2>3
  <2>5. \A w \in DOMAIN rundowns :
          /\ w # Newest => rundowns'[w] = rundowns[w]
          /\ rundowns'[w].callback = rundowns[w].callback
    BY <1>5, <2>1
  <2>6. QED
    BY <1>1, <1>3, <1>5, <1>7, <2>1, <2>4, <2>5, Stepped1Control
<1>8. links' \in [Kinds -> LinkRecords]
  BY <1>1, <1>3 DEF Typed
<1>9. QED
  BY <1>2, <1>3, <1>4, <1>5, <1>6, <1>7, <1>8, Stepped1Step

\* Only this rundown changes, and it waits no more.
LEMMA CbsLeftSet ==
  ASSUME Typed, Budget, LateHasNoTimer, NEW v \in 1..Newest, CbsLeft(v)
  PROVE  /\ rundowns' \in Seq(Rundowns(Newest)) /\ Newest' = Newest
         /\ DOMAIN rundowns' = DOMAIN rundowns
         /\ rundowns'[v].waits = "-" /\ rundowns'[v].late = ~rundowns[v].timer
         /\ rundowns'[v].timer = rundowns[v].timer
         /\ \A w \in DOMAIN rundowns :
              /\ w # v => rundowns'[w] = rundowns[w]
              /\ rundowns'[w].callback = rundowns[w].callback
         /\ LateHasNoTimer' /\ (LateRundown => LateRundown')
         /\ \A i \in Nat \ {0} : InRundowns(i)' = InRundowns(i)
<1> DEFINE r == rundowns[v]
           p == [r EXCEPT !.waits = "-"]
           over == ~r.timer
           q == [p EXCEPT !.late = over]
<1>1. rundowns \in Seq(Rundowns(Newest)) /\ v \in DOMAIN rundowns /\ v \in 1..Len(rundowns)
  BY LenProperties DEF Typed, Newest
<1>2. r \in Rundowns(Newest)
  BY <1>1, ElementOfSeq
<1>3. r.timer \in BOOLEAN
  BY <1>2 DEF Rundowns
<1>4. /\ p \in Rundowns(Newest) /\ p.callback = r.callback /\ p.timer = r.timer
      /\ p.waits = "-" /\ p.links = r.links
  BY <1>2 DEF Rundowns
<1>5. ASSUME NEW o \in Rundowns(Newest), NEW b \in BOOLEAN
      PROVE  LET e == [o EXCEPT !.late = b] IN
             /\ e \in Rundowns(Newest) /\ e.late = b /\ e.waits = o.waits /\ e.callback = o.callback
             /\ e.timer = o.timer /\ e.links = o.links
  BY <1>5 DEF Rundowns
<1>6. /\ q \in Rundowns(Newest) /\ q.callback = r.callback /\ q.timer = r.timer
      /\ q.waits = "-" /\ q.links = r.links /\ q.late = ~r.timer
  <2>1. over \in BOOLEAN
    OBVIOUS
  <2>2. over = ~r.timer
    OBVIOUS
  <2> HIDE DEF over, p, r
  <2>3. q = [p EXCEPT !.late = over]
    OBVIOUS
  <2> HIDE DEF q
  <2>4. /\ q \in Rundowns(Newest) /\ q.late = over /\ q.waits = p.waits
        /\ q.callback = p.callback /\ q.timer = p.timer /\ q.links = p.links
    BY <1>4, <1>5, <2>1, <2>3
  <2>5. QED
    BY <1>4, <2>2, <2>4
<1>7. rundowns' = [rundowns EXCEPT ![v] = q]
  BY <1>1 DEF CbsLeft
<1> HIDE DEF p, q
<1>8. /\ rundowns' \in Seq(Rundowns(Newest)) /\ Newest' = Newest
      /\ DOMAIN rundowns' = DOMAIN rundowns
      /\ rundowns'[v] = q /\ \A w \in DOMAIN rundowns : w # v => rundowns'[w] = rundowns[w]
      /\ \A i \in Nat \ {0} :
           InRundowns(i)' + One(r.links["sender"].op = i) + One(r.links["receiver"].op = i)
             = InRundowns(i) + One(q.links["sender"].op = i) + One(q.links["receiver"].op = i)
  <2>1. Replaces(v, q)
    BY <1>7 DEF Replaces
  <2>2. Replaced(v, q)
    BY <1>6, <2>1, RundownSet
  <2>3. QED
    BY <2>2 DEF Replaced
<1>9. \A w \in DOMAIN rundowns :
        /\ w # v => rundowns'[w] = rundowns[w]
        /\ rundowns'[w].callback = rundowns[w].callback
  BY <1>6, <1>8
<1>10. /\ rundowns'[v].waits = "-" /\ rundowns'[v].late = ~rundowns[v].timer
       /\ rundowns'[v].timer = rundowns[v].timer
  BY <1>6, <1>8
<1>11. LateHasNoTimer' /\ (LateRundown => LateRundown')
  BY <1>8, <1>10 DEF LateHasNoTimer, LateRundown
<1>12. ASSUME NEW i \in Nat \ {0} PROVE InRundowns(i)' = InRundowns(i)
  <2>1. InRundowns(i) \in Nat
    BY PlacesNat
  <2>2. InRundowns(i)' \in Nat
    <3>1. rundowns' \in Seq(Rundowns(Newest))
      BY <1>8
    <3>2. \A S : Count(rundowns', S) \in Nat
      BY <3>1, CountNat
    <3>3. QED
      BY <3>2 DEF InRundowns
  <2>3. One(r.links["sender"].op = i) \in Nat /\ One(r.links["receiver"].op = i) \in Nat
    BY DEF One
  <2>4. InRundowns(i)' + One(r.links["sender"].op = i) + One(r.links["receiver"].op = i)
          = InRundowns(i) + One(r.links["sender"].op = i) + One(r.links["receiver"].op = i)
    BY <1>6, <1>8
  <2> HIDE DEF r
  <2>5. QED
    BY <2>1, <2>2, <2>3, <2>4
<1>13. QED
  BY <1>8, <1>9, <1>10, <1>11, <1>12

\* The rundown goes on to the other links, unless its timer has ended it.
LEMMA RundownCbsDetachedStep ==
  ASSUME Inv, NEW v \in DOMAIN rundowns, RundownCbsDetached(v)
  PROVE  Inv'
<1>1. Typed /\ Budget /\ LateHasNoTimer
  BY DEF Inv
<1>2. v \in 1..Newest
  BY <1>1, LenProperties DEF Typed, Newest
<1>3. /\ agenda = <<>> /\ ~thrown /\ rundowns[v].waits = "cbs" /\ CbsLeft(v)
      /\ links' = [links EXCEPT !["cbs"] = [phase |-> "detached", op |-> None]]
  BY <1>1, EventFacts DEF RundownCbsDetached, CbsLeft
<1>4. Steps1("links", v)
  BY DEF RundownCbsDetached, Hears, Steps1, Event
<1>5. /\ rundowns' \in Seq(Rundowns(Newest)) /\ Newest' = Newest
      /\ DOMAIN rundowns' = DOMAIN rundowns
      /\ rundowns'[v].waits = "-" /\ rundowns'[v].late = ~rundowns[v].timer
      /\ rundowns'[v].timer = rundowns[v].timer
      /\ \A w \in DOMAIN rundowns :
           /\ w # v => rundowns'[w] = rundowns[w]
           /\ rundowns'[w].callback = rundowns[w].callback
      /\ LateHasNoTimer' /\ (LateRundown => LateRundown')
      /\ \A i \in Nat \ {0} : InRundowns(i)' = InRundowns(i)
  BY <1>1, <1>2, <1>3, CbsLeftSet
<1>6. /\ links' \in [Kinds -> LinkRecords] /\ links'["cbs"].phase = "detached"
      /\ links'["sender"] = links["sender"] /\ links'["receiver"] = links["receiver"]
      /\ \A i \in Nat \ {0} : InLinks(i)' + One(links["cbs"].op = i) = InLinks(i) + One(0 = i)
  <2>1. PICK r \in LinkRecords : r = [phase |-> "detached", op |-> None] /\ r.op = 0
    <3>1. "cbs" \in Kinds
      BY DEF Kinds
    <3>2. [phase |-> "detached", op |-> None] \in LinkRecords
      BY <1>1, <3>1, LinkTurn
    <3>3. [phase |-> "detached", op |-> None].op = 0
      BY Bounds
    <3>4. QED
      BY <3>2, <3>3
  <2>2. links \in [Kinds -> LinkRecords] /\ "cbs" \in Kinds /\ links' = [links EXCEPT !["cbs"] = r]
    BY <1>1, <1>3, <2>1 DEF Typed, Kinds
  <2>3. /\ links' \in [Kinds -> LinkRecords]
        /\ links'["cbs"] = r /\ \A o \in Kinds \ {"cbs"} : links'[o] = links[o]
        /\ \A i \in Nat \ {0} : InLinks(i)' + One(links["cbs"].op = i) = InLinks(i) + One(r.op = i)
    <3>1. Relinks("cbs", r)
      BY <2>2 DEF Relinks
    <3>2. r \in LinkRecords
      BY <2>1
    <3>3. Relinked("cbs", r)
      BY <2>2, <3>1, <3>2, LinkSet
    <3>4. QED
      BY <3>3 DEF Relinked
  <2>4. "sender" \in Kinds \ {"cbs"} /\ "receiver" \in Kinds \ {"cbs"} /\ r.phase = "detached"
    BY <2>1 DEF Kinds
  <2>5. QED
    BY <2>1, <2>3, <2>4
<1>7. \A i \in Nat \ {0} : InRundowns(i)' = InRundowns(i) /\ InLinks(i)' <= InLinks(i)
  <2>1. ASSUME NEW i \in Nat \ {0} PROVE InLinks(i)' <= InLinks(i)
    <3>1. InLinks(i)' + One(links["cbs"].op = i) = InLinks(i) + 0
      BY <1>6 DEF One
    <3>2. InLinks(i) \in Nat /\ One(links["cbs"].op = i) \in Nat
      BY <1>1, PlacesNat DEF One
    <3>3. InLinks(i)' \in Nat
      BY DEF InLinks, One
    <3>4. QED
      BY <3>1, <3>2, <3>3
  <2>2. QED
    BY <1>5, <2>1
<1>8. ASSUME Control, ~LateRundown' PROVE Control'
  <2>1. rundowns[v].timer
    <3>1. ~rundowns'[v].late
      BY <1>5, <1>8 DEF LateRundown
    <3>2. QED
      BY <1>5, <3>1
  <2>2. /\ Running /\ v = Newest
        /\ connectionCallback = None /\ sessionCallback = None
    BY <1>3, <1>8, <2>1 DEF Control, Waiting
  <2>3. Steps1("links", Newest) /\ "links" \in {"links", "force"}
        /\ rundowns'[Newest].timer /\ rundowns'[Newest].waits = "-"
        /\ links'["cbs"].phase \in {"none", "detaching", "detached"}
    BY <1>4, <1>5, <1>6, <2>1, <2>2
  <2>4. \A w \in DOMAIN rundowns :
          /\ w # Newest => rundowns'[w] = rundowns[w]
          /\ rundowns'[w].callback = rundowns[w].callback
    BY <1>5, <2>2
  <2>5. QED
    BY <1>1, <1>3, <1>5, <1>6, <1>8, <2>2, <2>3, <2>4, Stepped1Control
<1>9. QED
  BY <1>2, <1>3, <1>4, <1>5, <1>6, <1>7, <1>8, Stepped1Step

\* What that leaves of the rundown.
LEMMA LinkLeftSet ==
  ASSUME Typed, Budget, LateHasNoTimer, NEW v \in 1..Newest, NEW k \in TwoLinks,
         NEW onward \in BOOLEAN, LinkLeft(v, k, onward)
  PROVE  /\ rundowns' \in Seq(Rundowns(Newest)) /\ Newest' = Newest
         /\ DOMAIN rundowns' = DOMAIN rundowns
         /\ onward => rundowns'[v].waits = "-"
         /\ ~onward => rundowns'[v].waits = rundowns[v].waits
         /\ \A w \in DOMAIN rundowns :
              /\ w # v => rundowns'[w] = rundowns[w]
              /\ rundowns'[w].callback = rundowns[w].callback
              /\ rundowns'[w].timer = rundowns[w].timer
         /\ LateHasNoTimer' /\ (LateRundown' <=> LateRundown)
         /\ \A i \in Nat \ {0} :
              InRundowns(i)' + One(rundowns[v].links[k].op = i) = InRundowns(i)
<1> DEFINE waits == IF onward THEN "-" ELSE rundowns[v].waits
           ls == [rundowns[v].links EXCEPT ![k] = NoLink]
<1>1. rundowns[v].waits \in {"-", "cbs", "links"}
      /\ rundowns[v].links \in [Kinds -> LinkRecords] /\ rundowns[v].links["cbs"] = NoLink
  BY RundownLinked
<1>2. waits \in {"-", "cbs", "links"}
  BY <1>1
<1>3. NoLink \in LinkRecords /\ NoLink.op = 0 /\ k \in Kinds /\ "cbs" \in Kinds /\ k # "cbs"
  BY NoLinksFacts DEF Kinds, TwoLinks
<1>4. ls \in [Kinds -> LinkRecords] /\ ls["cbs"] = NoLink /\ ls[k] = NoLink
      /\ \A o \in Kinds \ {k} : ls[o] = rundowns[v].links[o]
  BY <1>1, <1>3
<1>5. Rewaiting(v, waits, ls)
  <2>1. v \in DOMAIN rundowns
    BY LenProperties DEF Typed, Newest
  <2>2. rundowns' = [rundowns EXCEPT ![v].links = ls, ![v].waits = waits]
    BY <2>1 DEF LinkLeft
  <2>3. QED
    BY <2>2 DEF Rewaiting
<1> HIDE DEF waits, ls
<1>6. IsRewaited(v, waits, ls, Rewaits(rundowns[v], waits, ls))
  BY <1>2, <1>4, <1>5, Rewaited
<1>7. PICK q : IsRewaited(v, waits, ls, q)
  BY <1>6
<1>8. /\ q \in Rundowns(Newest) /\ q.waits = waits /\ q.links = ls
      /\ q.callback = rundowns[v].callback /\ q.timer = rundowns[v].timer
      /\ q.late = rundowns[v].late
      /\ rundowns' = [rundowns EXCEPT ![v] = q]
  BY <1>7 DEF IsRewaited
<1>9. /\ rundowns' \in Seq(Rundowns(Newest)) /\ Newest' = Newest
      /\ DOMAIN rundowns' = DOMAIN rundowns
      /\ rundowns'[v] = q /\ \A w \in DOMAIN rundowns : w # v => rundowns'[w] = rundowns[w]
      /\ \A i \in Nat \ {0} :
           InRundowns(i)' + One(rundowns[v].links["sender"].op = i)
                          + One(rundowns[v].links["receiver"].op = i)
             = InRundowns(i) + One(q.links["sender"].op = i) + One(q.links["receiver"].op = i)
  <2>1. Replaces(v, q)
    BY <1>8 DEF Replaces
  <2>2. Replaced(v, q)
    BY <1>8, <2>1, RundownSet
  <2>3. QED
    BY <2>2 DEF Replaced
<1>10. /\ onward => rundowns'[v].waits = "-"
       /\ ~onward => rundowns'[v].waits = rundowns[v].waits
  BY <1>8, <1>9 DEF waits
<1>11. \A w \in DOMAIN rundowns :
         /\ w # v => rundowns'[w] = rundowns[w]
         /\ rundowns'[w].callback = rundowns[w].callback
         /\ rundowns'[w].timer = rundowns[w].timer /\ rundowns'[w].late = rundowns[w].late
  BY <1>8, <1>9
<1>12. LateHasNoTimer' /\ (LateRundown' <=> LateRundown)
  BY <1>9, <1>11 DEF LateHasNoTimer, LateRundown
<1>13. ASSUME NEW i \in Nat \ {0}
       PROVE  InRundowns(i)' + One(rundowns[v].links[k].op = i) = InRundowns(i)
  <2>1. InRundowns(i) \in Nat
    BY PlacesNat
  <2>2. InRundowns(i)' \in Nat
    <3>1. \A S : Count(rundowns', S) \in Nat
      BY <1>9, CountNat
    <3>2. QED
      BY <3>1 DEF InRundowns
  <2>3. InRundowns(i)' + One(rundowns[v].links["sender"].op = i)
                       + One(rundowns[v].links["receiver"].op = i)
          = InRundowns(i) + One(ls["sender"].op = i) + One(ls["receiver"].op = i)
    BY <1>8, <1>9
  <2>4. One(ls[k].op = i) = 0
    BY <1>3, <1>4 DEF One
  <2>5. One(rundowns[v].links["sender"].op = i) \in Nat /\ One(rundowns[v].links["receiver"].op = i) \in Nat
    BY DEF One
  <2>6. CASE k = "sender"
    <3>1. One(ls["receiver"].op = i) = One(rundowns[v].links["receiver"].op = i)
      BY <1>4, <2>6 DEF Kinds
    <3>2. One(ls["sender"].op = i) = 0
      BY <2>4, <2>6
    <3>3. InRundowns(i)' + One(rundowns[v].links["sender"].op = i) = InRundowns(i)
      BY <2>1, <2>2, <2>3, <2>5, <3>1, <3>2
    <3>4. QED
      BY <2>6, <3>3
  <2>7. CASE k = "receiver"
    <3>1. One(ls["sender"].op = i) = One(rundowns[v].links["sender"].op = i)
      BY <1>4, <2>7 DEF Kinds
    <3>2. One(ls["receiver"].op = i) = 0
      BY <2>4, <2>7
    <3>3. InRundowns(i)' + One(rundowns[v].links["receiver"].op = i) = InRundowns(i)
      BY <2>1, <2>2, <2>3, <2>5, <3>1, <3>2
    <3>4. QED
      BY <2>7, <3>3
  <2>8. QED
    BY <2>6, <2>7 DEF TwoLinks
<1>14. QED
  BY <1>9, <1>10, <1>11, <1>12, <1>13

\* That is what the turn is.
LEMMA LinkLeftTurn ==
  ASSUME Typed, Budget, Newest' = Newest, NEW v \in 1..Newest, NEW op \in 0..MaxRequests,
         NEW onward \in BOOLEAN, Detaches(op, v, onward)
  PROVE  DetachedTurn(op, v, onward)
<1>1. Newest \in 0..MaxConns
  BY NewestBound
<1>2. PICK e : e = Item("detached", op, FALSE)
  OBVIOUS
<1>3. e \in Items(Newest) /\ e.do = "detached" /\ e.id = op
  <2>1. "detached" \in PeerEvents \cup Tellings
    BY DEF Tellings
  <2>2. QED
    BY <1>1, <1>2, <2>1, EventItem
<1>4. PICK s : s = IF onward THEN <<Item("session", v, FALSE)>> ELSE <<>>
  OBVIOUS
<1>5. /\ s \in Seq(Later(Newest)) /\ s \in Seq(Items(Newest)) /\ Connects(s) = 0 /\ LinkSteps(s) = 0
      /\ s \in Seq(Do(Following)) /\ (\A i \in Nat \ {0} : Count(s, Of(i)) = 0)
      /\ v = Newest => s \in Seq(OfNewest)
  <2>1. \A d \in Steps, err \in BOOLEAN :
          /\ Item(d, v, err) \in Items(Newest) /\ Item(d, v, err) \in Items(MaxConns)
          /\ Item(d, v, err).do = d /\ Item(d, v, err).id = v
          /\ d \notin LeadingSteps => Item(d, v, err) \in Later(Newest)
    BY <1>1, StepIn
  <2>2. PICK f : f = Item("session", v, FALSE)
    OBVIOUS
  <2>3. "session" \in Steps /\ "session" \notin LeadingSteps
    BY DEF Steps, LeadingSteps
  <2>4. /\ f \in Items(Newest) /\ f \in Items(MaxConns) /\ f.do = "session" /\ f.id = v
        /\ f \in Later(Newest)
    BY <2>1, <2>2, <2>3
  <2>5. f \in Do(Following)
    BY <2>4 DEF Do, Following
  <2>6. v = Newest => f \in OfNewest
    BY <2>4 DEF OfNewest
  <2>7. Begins(<<f>>, f, <<>>)
    BY <1>1, <2>4, OneItem
  <2>8. /\ Connects(<<>>) = 0 /\ LinkSteps(<<>>) = 0 /\ \A i : Count(<<>>, Of(i)) = 0
    BY NoTurn
  <2>9. /\ Connects(<<f>>) = 0 /\ LinkSteps(<<f>>) = 0
        /\ \A i \in Nat \ {0} : Count(<<f>>, Of(i)) = 0
    BY <2>3, <2>4, <2>7, <2>8 DEF Begins, One
  <2>10. CASE onward
    <3>1. s = <<f>>
      BY <1>4, <2>2, <2>10
    <3>2. QED
      BY <2>4, <2>5, <2>6, <2>9, <3>1
  <2>11. CASE ~onward
    <3>1. s = <<>>
      BY <1>4, <2>11
    <3>2. QED
      BY <2>8, <3>1
  <2>12. QED
    BY <2>10, <2>11
<1>6. agenda' = <<e>> \o s
  BY <1>2, <1>4 DEF Detaches
<1>7. <<e>> \o s \in Turns(Newest) /\ Begins(<<e>> \o s, e, s)
  BY <1>1, <1>3, <1>5, Pushed
<1>8. /\ agenda' # <<>> /\ HeadDo(agenda') = "detached" /\ Tail(agenda') = s
      /\ Connects(agenda') = One(e.do = "connect") + Connects(s)
      /\ LinkSteps(agenda') = One(e.do = "links") + LinkSteps(s)
      /\ \A i : Count(agenda', Of(i)) = One(e.id = i /\ e.do \notin Steps) + Count(s, Of(i))
  BY <1>3, <1>6, <1>7 DEF Begins
<1>9. Connects(agenda') = 0 /\ LinkSteps(agenda') = 0 /\ ~Entering'
  BY <1>3, <1>5, <1>8 DEF One, Entering
<1>10. \A i \in Nat \ {0} : Count(agenda', Of(i)) = One(op = i)
  BY <1>3, <1>5, <1>8 DEF One, Steps
<1>11. v = Newest => agenda' \in Seq(OfNewest)
  <2>1. MaxConns \in Newest..MaxConns
    <3>1. MaxConns \in Nat
      BY Bounds
    <3>2. QED
      BY <1>1, <3>1
  <2>2. e \in Items(MaxConns)
    BY <1>1, <1>3, <2>1, Widened
  <2>3. e \in OfNewest
    BY <1>3, <2>2 DEF OfNewest, Steps
  <2>4. QED
    BY <1>5, <1>6, <2>3
<1>12. ASSUME ~onward PROVE Hearing("detached", op, TRUE)
  <2>1. agenda' = IF TRUE THEN <<e>> ELSE <<>>
    <3>1. s = <<>>
      BY <1>4, <1>12
    <3>2. QED
      BY <1>6, <3>1
  <2>2. e.do \in OwnerMethods \cup PeerEvents \cup Tellings
    BY <1>3 DEF Tellings
  <2>3. Hearing(e.do, e.id, TRUE)
    BY <1>1, <1>3, <2>1, <2>2, EventTurn
  <2>4. QED
    BY <1>3, <2>3
<1>13. QED
  BY <1>5, <1>6, <1>7, <1>8, <1>9, <1>10, <1>11, <1>12 DEF DetachedTurn

\* What controls the machine stays true when the rundown goes on.
LEMMA GoesOnControl ==
  ASSUME Typed, Budget, Control, agenda = <<>>, ~thrown, Running,
         Newest' = Newest, DOMAIN rundowns' = DOMAIN rundowns,
         UNCHANGED <<state, deferred, thrown, callbacks, occurred, rhea, heard, links, net>>,
         HeadDo(agenda') = "detached", Tail(agenda') \in Seq(Do(Following)),
         LinkSteps(agenda') = 0, agenda' \in Seq(OfNewest),
         rundowns'[Newest].waits = "-",
         \A w \in DOMAIN rundowns :
           /\ w # Newest => rundowns'[w] = rundowns[w]
           /\ rundowns'[w].callback = rundowns[w].callback
  PROVE  Control'
<1>1. UNCHANGED <<connectionCallback, sessionCallback, disconnectionOccurred,
                  sessionCloseOccurred, conn>>
  BY DEF callbacks, occurred, rhea
<1>2. HeadDo(agenda) = "-"
  BY Between
<1>3. ~Leading(agenda')
  BY DEF Leading
<1>4. TurnsOn
  <2>1. "detached" \in Following
    BY DEF Following, Tellings
  <2>2. QED
    BY <1>3, <2>1 DEF TurnsOn
<1>5. HoldsOn
  <2>1. connectionCallback \in {None, -Newest} /\ sessionCallback \in {None, -Newest}
    BY DEF Control, Owners
  <2>2. links["cbs"].phase \in {"none", "detaching", "detached"}
    BY <1>2 DEF Control, Unlinked
  <2>3. QED
    BY <1>1, <2>1, <2>2 DEF HoldsOn
<1>6. WaitsOn
  <2>1. \A w \in DOMAIN rundowns : rundowns[w].callback >= 0
    BY DEF Control, Owners
  <2>2. Newest > 0
    BY DEF Control, Waiting
  <2>3. \A w \in DOMAIN rundowns' :
          /\ w # Newest => rundowns'[w] = rundowns[w]
          /\ rundowns'[w].callback >= 0
          /\ w = Newest => rundowns'[w].waits = "-"
    BY <2>1
  <2>4. HeadDo(agenda') # "cbs" /\ ~(LinkSteps(agenda') > 0)
    OBVIOUS
  <2>5. QED
    BY <2>2, <2>3, <2>4 DEF WaitsOn
<1>7. NeverOpened'
  <2>1. ~(net[conn].up /\ net[conn].sess = "opening")
    BY <1>2 DEF Control, NeverOpened, Running
  <2>2. QED
    BY <1>1, <2>1 DEF NeverOpened
<1>8. QED
  BY <1>4, <1>5, <1>6, <1>7, RunsOn

\* A link that a rundown asked to detach has.
LEMMA RundownLinkDetachedStep ==
  ASSUME Inv, NEW v \in DOMAIN rundowns, NEW k \in Kinds, NEW err \in BOOLEAN,
         RundownLinkDetached(v, k, err)
  PROVE  Inv'
<1>1. Typed /\ Budget /\ LateHasNoTimer
  BY DEF Inv
<1>2. v \in 1..Newest
  BY <1>1, LenProperties DEF Typed, Newest
<1>3. /\ agenda = <<>> /\ ~thrown /\ UNCHANGED events /\ rundowns[v].links[k].phase = "detaching"
  BY <1>1 DEF RundownLinkDetached, Event
<1>4. PICK op : op = rundowns[v].links[k].op
  OBVIOUS
<1>5. UNCHANGED <<repertoire, state, deferred, thrown, callbacks, occurred, rhea, heard, links, net,
                  requests>>
  BY DEF RundownLinkDetached
<1>6. PICK onward \in BOOLEAN :
        /\ onward => rundowns[v].waits = "links"
        /\ LinkLeft(v, k, onward)
        /\ Detaches(op, v, onward)
  <2> DEFINE o == /\ rundowns[v].waits = "links"
                  /\ (err \/ rundowns[v].err
                        \/ ~\E l \in Kinds \ {k} : rundowns[v].links[l].phase = "detaching")
  <2>1. LinkLeft(v, k, o) /\ Detaches(op, v, o)
    BY <1>4 DEF RundownLinkDetached, LinkLeft, Detaches
  <2>2. o \in BOOLEAN /\ (o => rundowns[v].waits = "links")
    OBVIOUS
  <2> HIDE DEF o
  <2>3. QED
    BY <2>1, <2>2
<1>7. /\ k \in TwoLinks /\ op \in 0..MaxRequests
  <2>1. rundowns[v].links \in [Kinds -> LinkRecords] /\ rundowns[v].links["cbs"] = NoLink
    BY <1>1, <1>2, RundownLinked
  <2>2. rundowns[v].links[k] \in LinkRecords /\ NoLink.phase = "none"
    BY <2>1, NoLinksFacts
  <2>3. k # "cbs"
    BY <1>3, <2>1, <2>2
  <2>4. QED
    BY <1>4, <2>2, <2>3 DEF LinkRecords, Kinds, TwoLinks
<1>8. /\ rundowns' \in Seq(Rundowns(Newest)) /\ Newest' = Newest
      /\ DOMAIN rundowns' = DOMAIN rundowns
      /\ onward => rundowns'[v].waits = "-"
      /\ ~onward => rundowns'[v].waits = rundowns[v].waits
      /\ \A w \in DOMAIN rundowns :
           /\ w # v => rundowns'[w] = rundowns[w]
           /\ rundowns'[w].callback = rundowns[w].callback
           /\ rundowns'[w].timer = rundowns[w].timer
      /\ LateHasNoTimer' /\ (LateRundown' <=> LateRundown)
      /\ \A i \in Nat \ {0} :
           InRundowns(i)' + One(rundowns[v].links[k].op = i) = InRundowns(i)
  BY <1>1, <1>2, <1>6, <1>7, LinkLeftSet
<1>9. /\ agenda' \in Turns(Newest') /\ ~Entering' /\ HeadDo(agenda') = "detached"
      /\ agenda' # <<>> /\ Tail(agenda') \in Seq(Do(Following))
      /\ Connects(agenda') = 0 /\ LinkSteps(agenda') = 0
      /\ \A i \in Nat \ {0} : Count(agenda', Of(i)) = One(op = i)
      /\ v = Newest => agenda' \in Seq(OfNewest)
      /\ ~onward => Hearing("detached", op, TRUE)
  <2>1. Newest' = Newest
    BY <1>8
  <2>2. DetachedTurn(op, v, onward)
    BY <1>1, <1>2, <1>6, <1>7, <2>1, LinkLeftTurn
  <2>3. QED
    BY <2>2 DEF DetachedTurn
<1>10. UNCHANGED <<connectionCallback, sessionCallback, disconnectionOccurred,
                   sessionCloseOccurred, connectionCloseOccurred, conn, session>>
  BY <1>5 DEF callbacks, occurred, rhea
<1>11. Typed'
  BY <1>1, <1>3, <1>5, <1>8, <1>9, <1>10 DEF Typed
<1>12. Connections' = Connections /\ Connections \in Nat /\ Connections <= MaxConns
  BY <1>1, <1>5, PlacesNat DEF Connections, Budget
<1>13. Connects(agenda') + Connections <= Connections' /\ Connections' <= MaxConns
  BY <1>9, <1>12
<1>14. ASSUME Control PROVE Control' /\ Meets
  <2>1. Control'
    <3>1. CASE onward
      <4>1. Running /\ v = Newest
        BY <1>6, <1>14, <3>1 DEF Control, Waiting
      <4>2. rundowns'[Newest].waits = "-" /\ agenda' \in Seq(OfNewest)
        BY <1>8, <1>9, <3>1, <4>1
      <4>3. \A w \in DOMAIN rundowns :
              /\ w # Newest => rundowns'[w] = rundowns[w]
              /\ rundowns'[w].callback = rundowns[w].callback
        BY <1>8, <4>1
      <4>4. QED
        BY <1>1, <1>3, <1>5, <1>8, <1>9, <1>14, <4>1, <4>2, <4>3, GoesOnControl
    <3>2. CASE ~onward
      <4>1. SameWaits
        <5>1. \A w \in DOMAIN rundowns : rundowns'[w].waits = rundowns[w].waits
          BY <1>8, <3>2
        <5>2. QED
          BY <1>8, <5>1 DEF SameWaits
      <4>2. Network'
        <5>1. HeadDo(agenda') \notin {"connection_open", "session_open"} \cup Ends
          BY <1>9 DEF Ends
        <5>2. Network
          BY <1>14 DEF Control
        <5>3. QED
          BY <1>1, <1>3, <1>5, <1>9, <5>1, <5>2, NetworkSame
      <4>3. Fits("detached") /\ "detached" \in OwnerMethods \cup PeerEvents \cup Tellings
        BY DEF Fits, Tellings
      <4>4. Hearing("detached", op, TRUE)
        BY <1>9, <3>2
      <4>5. QED
        BY <1>1, <1>3, <1>5, <1>14, <4>1, <4>2, <4>3, <4>4, HeardControl
    <3>3. QED
      BY <3>1, <3>2
  <2>2. ASSUME NEW i \in Nat \ {0}
        PROVE  Count(agenda', Of(i)) + InLinks(i)' + InRundowns(i)' + InClosure(i)' + Told(i)'
                   + One(i \in DOMAIN requests)
                 <= InLinks(i) + InRundowns(i) + InClosure(i) + Told(i) + One(i \in DOMAIN requests')
    <3>1. Count(agenda', Of(i)) = One(op = i) /\ InRundowns(i)' + One(op = i) = InRundowns(i)
      BY <1>4, <1>8, <1>9
    <3>2. /\ InLinks(i)' = InLinks(i) /\ Told(i)' = Told(i)
          /\ One(i \in DOMAIN requests') = One(i \in DOMAIN requests)
      BY <1>5 DEF Told, InLinks
    <3>3. ~Entering
      BY <1>1, <1>3, Between
    <3>4. InClosure(i)' = InClosure(i)
      <4>1. Running' <=> Running
        BY <1>5, <1>9, <3>3 DEF Running
      <4>2. Newest \in DOMAIN rundowns
        <5>1. Newest \in Nat /\ DOMAIN rundowns = 1..Newest
          BY <1>1, NewestBound, LenProperties DEF Typed, Newest
        <5>2. QED
          BY <1>2, <5>1
      <4>3. QED
        BY <1>8, <4>1, <4>2 DEF InClosure
    <3>5. /\ InLinks(i) \in Nat /\ InRundowns(i) \in Nat /\ InClosure(i) \in Nat
          /\ Told(i) \in Nat
      BY <1>1, PlacesNat
    <3>6. InRundowns(i)' \in Nat /\ One(op = i) \in Nat /\ One(i \in DOMAIN requests) \in Nat
      <4>1. InRundowns(i)' \in Nat
        BY <1>11, PlacesNatNext
      <4>2. QED
        BY <4>1 DEF One
    <3>7. QED
      BY <3>1, <3>2, <3>4, <3>5, <3>6
  <2>3. QED
    BY <2>1, <2>2 DEF Meets
<1>15. QED
  BY <1>3, <1>5, <1>8, <1>9, <1>11, <1>13, <1>14, EventStep

\* Whatever the machine hears, its state's handler keeps the invariant.
LEMMA HandleStep ==
  ASSUME Inv, NEW x, NEW rest, Takes(x, rest), x.do \in OwnerMethods \cup PeerEvents,
         Handle(x, rest), Calm
  PROVE  Inv'
<1>1. state \in ConnectionStates
  BY DEF Inv, Typed
<1>2. CASE state = "disconnected"
  <2>1. HandleDisconnected(x, rest)
    BY <1>2 DEF Handle
  <2>2. QED
    BY <1>2, <2>1, HandleDisconnectedStep
<1>3. CASE state = "connecting"
  <2>1. HandleConnecting(x, rest)
    BY <1>3 DEF Handle
  <2>2. QED
    BY <1>3, <2>1, HandleConnectingStep
<1>4. CASE state = "connecting_session"
  <2>1. HandleConnectingSession(x, rest)
    BY <1>4 DEF Handle
  <2>2. QED
    BY <1>4, <2>1, HandleConnectingSessionStep
<1>5. CASE state = "connected"
  <2>1. HandleConnected(x, rest)
    BY <1>5 DEF Handle
  <2>2. QED
    BY <1>5, <2>1, HandleConnectedStep
<1>6. CASE state = "disconnecting"
  <2>1. HandleDisconnecting(x, rest)
    BY <1>6 DEF Handle
  <2>2. QED
    BY <1>6, <2>1, HandleDisconnectingStep
<1>7. QED
  BY <1>1, <1>2, <1>3, <1>4, <1>5, <1>6 DEF ConnectionStates

\* So does _onEnter of each state.
LEMMA EnterStep ==
  ASSUME Inv, NEW x, NEW rest, Takes(x, rest), x.do = "enter", Enter(x.id, x.err, rest), Calm
  PROVE  Inv'
<1>1. state \in ConnectionStates
  BY DEF Inv, Typed
<1>2. CASE state = "disconnected"
  <2>1. EnterDisconnected(x.id, x.err, rest)
    BY <1>2 DEF Enter
  <2>2. QED
    BY <1>2, <2>1, EnterDisconnectedStep
<1>3. CASE state = "connecting"
  <2>1. EnterConnecting(x.id, rest)
    BY <1>3 DEF Enter
  <2>2. QED
    BY <1>3, <2>1, EnterConnectingStep
<1>4. CASE state = "connecting_session"
  <2>1. EnterConnectingSession(x.id, rest)
    BY <1>4 DEF Enter
  <2>2. QED
    BY <1>4, <2>1, EnterConnectingSessionStep
<1>5. CASE state = "connected"
  <2>1. AnswerNow(x.id, "ok", rest)
    BY <1>5 DEF Enter
  <2>2. QuietItem(x)
    BY <1>5 DEF QuietItem, Steps, Ends
  <2>3. QED
    BY <2>1, <2>2, AnswerStep
<1>6. CASE state = "disconnecting"
  <2>1. EnterDisconnecting(x.id, x.err, rest)
    BY <1>6 DEF Enter
  <2>2. QED
    BY <1>6, <2>1, EnterDisconnectingStep
<1>7. QED
  BY <1>1, <1>2, <1>3, <1>4, <1>5, <1>6 DEF ConnectionStates

\* A callback of a link and whatever the machine hears keep the invariant.
LEMMA HearsStep ==
  ASSUME Inv, NEW x, NEW rest, Takes(x, rest), x.do \notin Steps \cup {"enter", "replay"},
         Runs(x, rest), Calm
  PROVE  Inv'
<1>1. x.do \in Acts
  <2>1. Typed /\ Budget
    BY DEF Inv
  <2>2. Newest \in 0..MaxConns /\ x \in Items(Newest)
    BY <2>1, TurnFacts
  <2>3. QED
    BY <2>2, ItemFields
<1>2. CASE x.do = "opened"
  <2>1. Opened(x.id, rest)
    BY <1>2 DEF Runs
  <2>2. QED
    BY <1>2, <2>1, OpenedStep
<1>3. CASE x.do \in {"refused", "failed", "detached"}
  <2>1. QuietItem(x)
    BY <1>3 DEF QuietItem, Steps, Ends
  <2>2. \E how \in {"ok", "err", "twice", "dropped", "disconnected"} : AnswerNow(x.id, how, rest)
    BY <1>3 DEF Runs
  <2>3. QED
    BY <2>1, <2>2, AnswerStep
<1>4. CASE x.do \in OwnerMethods \cup PeerEvents
  <2>1. Handle(x, rest)
    BY <1>4 DEF Runs, OwnerMethods, PeerEvents
  <2>2. QED
    BY <1>4, <2>1, HandleStep
<1>5. QED
  BY <1>1, <1>2, <1>3, <1>4 DEF Acts, Tellings

\* Every step of a turn keeps the invariant.
LEMMA RunStep ==
  ASSUME Inv, Run
  PROVE  Inv'
<1>1. PICK x, rest : x = Head(agenda) /\ rest = Tail(agenda)
  OBVIOUS
<1>2. Takes(x, rest)
  BY <1>1 DEF Run, Takes
<1>3. CASE x.do = "links"
  <2>1. RundownLinks(x.id, rest) /\ UNCHANGED <<repertoire, events>>
    BY <1>1, <1>3 DEF Run
  <2>2. QED
    BY <1>2, <1>3, <2>1, RundownLinksStep
<1>4. CASE x.do # "links"
  <2>1. Runs(x, rest) /\ Calm
    BY <1>1, <1>4 DEF Run, Runs, Calm
  <2>2. CASE x.do = "enter"
    BY <1>2, <2>1, <2>2, EnterStep DEF Runs
  <2>3. CASE x.do = "replay"
    BY <1>2, <2>1, <2>3, ReplayStep DEF Runs
  <2>4. CASE x.do = "cbs"
    BY <1>2, <2>1, <2>4, RundownCbsStep DEF Runs
  <2>5. CASE x.do = "session"
    BY <1>2, <2>1, <2>5, RundownSessionStep DEF Runs
  <2>6. CASE x.do = "connection"
    BY <1>2, <2>1, <2>6, RundownConnectionStep DEF Runs
  <2>7. CASE x.do = "finish"
    BY <1>2, <2>1, <2>7, RundownFinishStep DEF Runs
  <2>8. CASE x.do = "force"
    BY <1>2, <2>1, <2>8, RundownForcedStep DEF Runs
  <2>9. CASE x.do \notin Steps \cup {"enter", "replay"}
    BY <1>2, <2>1, <2>9, HearsStep
  <2>10. QED
    BY <1>4, <2>2, <2>3, <2>4, <2>5, <2>6, <2>7, <2>8, <2>9 DEF Steps
<1>5. QED
  BY <1>3, <1>4

\* A machine that has done nothing yet is of its type.
LEMMA TypedFirst ==
  ASSUME ConnectionInit
  PROVE  Typed
<1>1. /\ MaxConns \in Nat /\ MaxRequests \in Nat /\ MaxTroubles \in Nat /\ None = 0
      /\ 0 \in Owner
  BY Bounds
<1>2. links \in [Kinds -> LinkRecords]
  BY NoLinksFacts DEF ConnectionInit, NoLinks
<1>3. net \in [Conns -> Nets]
  BY DEF ConnectionInit, NoConnection, Nets, Stages
<1>4. agenda \in Turns(Newest)
  BY NoTurn DEF ConnectionInit
<1>5. deferred \in [any : Seq(Kept), disconnected : Seq(Kept)]
  BY DEF ConnectionInit, NothingDeferred
<1>6. rundowns = <<>> /\ Newest = 0 /\ requests = <<>> /\ Len(requests) = 0
  BY DEF ConnectionInit, Newest
<1>7. rundowns \in Seq(Rundowns(Newest)) /\ requests \in Seq(Requested)
  BY <1>6
<1>8. heard \in SUBSET Conns /\ conn \in 0..MaxConns /\ session \in 0..conn
  BY <1>1 DEF ConnectionInit
<1>9. /\ connectionCallback \in Owner /\ -connectionCallback <= Newest
      /\ sessionCallback \in Owner /\ -sessionCallback <= Newest
  BY <1>1, <1>6 DEF ConnectionInit
<1>10. events \in 0..MaxTroubles /\ Len(requests) <= MaxRequests
  BY <1>1, <1>6 DEF ConnectionInit
<1>11. state \in ConnectionStates
  BY DEF ConnectionInit, ConnectionStates
<1>12. QED
  BY <1>2, <1>3, <1>4, <1>5, <1>7, <1>8, <1>9, <1>10, <1>11 DEF ConnectionInit, Typed

\* It is idle.
LEMMA ControlFirst ==
  ASSUME ConnectionInit
  PROVE  Control
<1>1. /\ state = "disconnected" /\ agenda = <<>> /\ heard = {} /\ thrown = FALSE
      /\ connectionCallback = 0 /\ sessionCallback = 0 /\ rundowns = <<>>
      /\ deferred = NothingDeferred
  BY Bounds DEF ConnectionInit
<1>2. /\ HeadDo(agenda) = "-" /\ LinkSteps(agenda) = 0 /\ SessionSteps(agenda) = 0
  BY <1>1, NoTurn
<1>3. ~Entering /\ ~Running /\ ~Connected /\ ~Leading(agenda) /\ DOMAIN rundowns = {}
  BY <1>1, <1>2 DEF Entering, Running, Connected, Leading
<1>4. Listening
  BY <1>1, <1>3 DEF Listening
<1>5. Network
  BY <1>1, <1>2 DEF Network, ConnectionInit, NoConnection
<1>6. Unlinked
  BY <1>2, NoLinksFacts DEF Unlinked, ConnectionInit, NoLinks, Kinds
<1>7. Deferrals
  BY <1>1 DEF Deferrals, NothingDeferred
<1>8. Turn
  BY <1>1, <1>2, <1>3 DEF Turn, Alone, PeerEvents
<1>9. Owners
  BY <1>1, <1>3, Bounds DEF Owners
<1>10. Waiting
  BY <1>1, <1>2, <1>3 DEF Waiting
<1>11. NeverOpened
  BY <1>1 DEF NeverOpened
<1>12. QED
  BY <1>4, <1>5, <1>6, <1>7, <1>8, <1>9, <1>10, <1>11 DEF Control

\* And nothing of any call is anywhere.
LEMMA AccountedFirst ==
  ASSUME ConnectionInit
  PROVE  Accounted
<1> SUFFICES ASSUME NEW i \in Nat \ {0}
             PROVE  Places(i) <= One(i \in DOMAIN requests)
  BY DEF Accounted
<1>1. /\ agenda = <<>> /\ rundowns = <<>> /\ requests = <<>> /\ deferred = NothingDeferred
      /\ connectionCallback = 0 /\ sessionCallback = 0 /\ state = "disconnected"
      /\ deferred.any = <<>> /\ deferred.disconnected = <<>>
  BY Bounds DEF ConnectionInit, NothingDeferred
<1>2. Count(agenda, Of(i)) = 0 /\ InDeferred(i) = 0
  BY <1>1, CountEmpty DEF InDeferred
<1>3. InCallbacks(i) = 0
  BY <1>1 DEF InCallbacks, One
<1>4. InLinks(i) = 0
  <2>1. \A k \in Kinds : links[k].op = 0
    BY NoLinksFacts DEF ConnectionInit, NoLinks
  <2>2. QED
    BY <2>1 DEF InLinks, One, Kinds
<1>5. InRundowns(i) = 0
  BY <1>1, CountEmpty DEF InRundowns
<1>6. InClosure(i) = 0
  BY <1>1 DEF InClosure, Running, One
<1>7. Told(i) = 0 /\ One(i \in DOMAIN requests) = 0
  BY <1>1 DEF Told, One
<1>8. QED
  BY <1>2, <1>3, <1>4, <1>5, <1>6, <1>7 DEF Places

\* The invariant holds before anything has happened.
LEMMA InvFirst ==
  ASSUME ConnectionInit
  PROVE  Inv
<1>1. Typed /\ Control /\ Accounted
  BY TypedFirst, ControlFirst, AccountedFirst
<1>2. LateHasNoTimer
  BY DEF ConnectionInit, LateHasNoTimer
<1>3. Budget
  <2>1. /\ agenda = <<>> /\ deferred.any = <<>> /\ deferred.disconnected = <<>> /\ conn = 0
        /\ state = "disconnected" /\ rundowns = <<>> /\ requests = <<>>
    BY DEF ConnectionInit, NothingDeferred
  <2>2. Connects(<<>>) = 0
    BY NoTurn
  <2>3. Connections = 0
    BY <2>1, CountEmpty DEF Connections
  <2>4. One(state = "connecting" /\ Entering) = 0 /\ One(Underway) = 0
    BY <2>1 DEF One, Underway
  <2>5. MaxConns \in Nat
    BY Bounds
  <2>6. Newest = 0
    BY <2>1 DEF Newest
  <2>7. QED
    BY <2>1, <2>2, <2>3, <2>4, <2>5, <2>6 DEF Budget
<1>4. QED
  BY <1>1, <1>2, <1>3 DEF Inv

\* A step that changes nothing keeps the invariant.
LEMMA InvStutters ==
  ASSUME Inv, UNCHANGED connectionVars
  PROVE  Inv'
<1>1. UNCHANGED <<repertoire, state, deferred, agenda, thrown, callbacks, occurred, conn, session,
                  heard, links, rundowns, net, requests, events>>
  BY DEF connectionVars, fsm, rhea
<1>2. /\ repertoire' = repertoire /\ state' = state /\ deferred' = deferred /\ agenda' = agenda
      /\ thrown' = thrown /\ connectionCallback' = connectionCallback
      /\ sessionCallback' = sessionCallback /\ disconnectionOccurred' = disconnectionOccurred
      /\ sessionCloseOccurred' = sessionCloseOccurred
      /\ connectionCloseOccurred' = connectionCloseOccurred /\ conn' = conn /\ session' = session
      /\ heard' = heard /\ links' = links /\ rundowns' = rundowns /\ net' = net
      /\ requests' = requests /\ events' = events
  BY <1>1 DEF callbacks, occurred
<1>3. Newest' = Newest /\ (Entering' <=> Entering) /\ (Underway' <=> Underway)
      /\ (LateRundown' <=> LateRundown) /\ Connections' = Connections
      /\ (Running' <=> Running) /\ (Connected' <=> Connected)
  BY <1>2 DEF Newest, Entering, Underway, LateRundown, Connections, Running, Connected
<1>4. Typed' <=> Typed
  BY <1>2, <1>3 DEF Typed
<1>5. Budget' <=> Budget
  <2>1. One(Underway') = One(Underway)
    BY <1>3 DEF One
  <2>2. One(state' = "connecting" /\ Entering') = One(state = "connecting" /\ Entering)
    BY <1>2, <1>3 DEF One
  <2>3. QED
    BY <1>2, <1>3, <2>1, <2>2 DEF Budget
<1>6. LateHasNoTimer' <=> LateHasNoTimer
  BY <1>2 DEF LateHasNoTimer
<1>7. Control' <=> Control
  <2>1. OfNewest' = OfNewest
    BY <1>3 DEF OfNewest
  <2>2. (Listening' <=> Listening) /\ (Network' <=> Network)
    BY <1>2, <1>3 DEF Listening, Network
  <2>3. (Unlinked' <=> Unlinked) /\ (Deferrals' <=> Deferrals)
    BY <1>2, <1>3 DEF Unlinked, Deferrals
  <2>4. Turn' <=> Turn
    BY <1>2, <1>3, <2>1 DEF Turn
  <2>5. (Owners' <=> Owners) /\ (NeverOpened' <=> NeverOpened)
    BY <1>2, <1>3 DEF Owners, NeverOpened
  <2>6. Waiting' <=> Waiting
    BY <1>2, <1>3 DEF Waiting
  <2>7. QED
    BY <2>2, <2>3, <2>4, <2>5, <2>6 DEF Control
<1>8. Accounted' <=> Accounted
  <2>1. \A i : Places(i)' = Places(i)
    BY <1>2, <1>3 DEF Places, InDeferred, InCallbacks, InLinks, InRundowns, InClosure, Told
  <2>2. QED
    BY <1>2, <2>1 DEF Accounted
<1>9. QED
  BY <1>3, <1>4, <1>5, <1>6, <1>7, <1>8 DEF Inv

\* Whatever the network or the peer does keeps the invariant.
LEMMA PeerStep ==
  ASSUME Inv, PeerAnswers \/ Trouble
  PROVE  Inv'
<1>1. \A c \in Conns : PeerOpensConnection(c) => Inv'
  BY PeerOpensConnectionStep
<1>2. \A c \in Conns : PeerOpensSession(c) => Inv'
  BY PeerOpensSessionStep
<1>3. \A c \in Conns, err \in BOOLEAN : PeerClosesConnection(c, err) => Inv'
  <2>1. \A c \in Conns : PeerClosesConnection(c, TRUE) => Inv'
    BY DownEventStep
  <2>2. \A c \in Conns : PeerClosesConnection(c, FALSE) => Inv'
    BY DownEventStep
  <2>3. QED
    BY <2>1, <2>2
<1>4. \A c \in Conns : SocketLost(c) => Inv'
  BY DownEventStep
<1>5. \A c \in Conns : ConnectionErrs(c) => Inv'
  BY ConnectionErrsStep
<1>6. \A c \in Conns, err \in BOOLEAN : PeerClosesSession(c, err) => Inv'
  BY PeerClosesSessionStep
<1>7. \A k \in Kinds : LinkOpened(k) \/ LinkDetached(k) => Inv'
  BY LinkOpenedStep, LinkDetachedStep
<1>8. \A k \in Kinds, err \in BOOLEAN : LinkRefused(k, err) \/ LinkEnded(k, err) => Inv'
  BY LinkRefusedStep, LinkEndedStep
<1>9. \A v \in DOMAIN rundowns : RundownCbsDetached(v) => Inv'
  BY RundownCbsDetachedStep
<1>10. \A v \in DOMAIN rundowns, k \in Kinds, err \in BOOLEAN :
         RundownLinkDetached(v, k, err) => Inv'
  BY RundownLinkDetachedStep
<1>11. CASE PeerAnswers
  <2>1. \/ \E c \in Conns : PeerOpensConnection(c) \/ PeerOpensSession(c)
        \/ \E c \in Conns, err \in BOOLEAN :
             PeerClosesConnection(c, err) \/ PeerClosesSession(c, err)
        \/ \E k \in Kinds : LinkOpened(k) \/ LinkDetached(k)
        \/ \E v \in DOMAIN rundowns : RundownCbsDetached(v)
        \/ \E v \in DOMAIN rundowns, k \in Kinds, err \in BOOLEAN : RundownLinkDetached(v, k, err)
    BY <1>11 DEF PeerAnswers
  <2>2. QED
    BY <2>1, <1>1, <1>2, <1>3, <1>6, <1>7, <1>9, <1>10
<1>12. CASE Trouble
  <2>1. \/ \E c \in Conns : SocketLost(c) \/ ConnectionErrs(c)
        \/ \E c \in Conns, err \in BOOLEAN :
             PeerClosesConnection(c, err) \/ PeerClosesSession(c, err)
        \/ \E k \in Kinds, err \in BOOLEAN : LinkRefused(k, err) \/ LinkEnded(k, err)
        \/ \E v \in DOMAIN rundowns, k \in Kinds, err \in BOOLEAN : RundownLinkDetached(v, k, err)
    BY <1>12 DEF Trouble
  <2>2. QED
    BY <2>1, <1>3, <1>4, <1>5, <1>6, <1>8, <1>10
<1>13. QED
  BY <1>11, <1>12

\* Every step keeps the invariant.
LEMMA InvKept ==
  ASSUME Inv, [ConnectionNext]_connectionVars
  PROVE  Inv'
<1>1. CASE Run
  BY <1>1, RunStep
<1>2. CASE OwnerCalls
  BY <1>2, OwnerCallsStep
<1>3. CASE PeerAnswers \/ Trouble
  BY <1>3, PeerStep
<1>4. CASE \E v \in DOMAIN rundowns : Timer(v)
  BY <1>4, TimerStep
<1>5. CASE UNCHANGED connectionVars
  BY <1>5, InvStutters
<1>6. QED
  BY <1>1, <1>2, <1>3, <1>4, <1>5 DEF ConnectionNext

\* What the properties of the runs say of a state follows from the invariant.
LEMMA InvAnsweredOnce ==
  ASSUME Inv
  PROVE  AnsweredOnce
<1>1. Typed /\ Budget
  BY DEF Inv
<1>2. ConnectionTypeOK
  <2>1. Newest <= conn
    <3>1. Newest + One(Underway) <= conn /\ conn \in 0..MaxConns
      BY <1>1 DEF Budget, Typed
    <3>2. One(Underway) \in Nat /\ Newest \in Nat /\ MaxConns \in Nat
      BY <1>1, Bounds, NewestBound DEF One
    <3>3. QED
      BY <3>1, <3>2
  <2>2. \A k \in Kinds : links[k] \in LinkRecords
    BY <1>1 DEF Typed
  <2>3. \A v \in DOMAIN rundowns : rundowns[v] \in Rundowns(Newest)
    BY <1>1 DEF Typed
  <2>4. \A c \in Conns : net[c] \in Nets
    BY <1>1 DEF Typed
  <2>5. \A k \in Kinds :
          /\ links[k].phase \in {"none", "attaching", "attached", "detaching", "detached"}
          /\ links[k].op \in 0..MaxRequests
    BY <2>2 DEF LinkRecords
  <2>6. \A v \in DOMAIN rundowns :
          rundowns[v].waits \in {"-", "cbs", "links", "session", "connection"}
    BY <2>3 DEF Rundowns
  <2>7. \A c \in Conns : net[c].conn \in Stages /\ net[c].sess \in Stages
    BY <2>4 DEF Nets
  <2>8. QED
    BY <1>1, <2>1, <2>5, <2>6, <2>7 DEF ConnectionTypeOK, Typed, Newest, Stages, ConnectionStates
<1>3. LateRundown \/ \A i \in DOMAIN requests :
        requests[i].answered <= 1 + requests[i].again /\ requests[i].again <= 1
  <2> SUFFICES ASSUME ~LateRundown, NEW i \in DOMAIN requests
               PROVE  requests[i].answered <= 1 + requests[i].again /\ requests[i].again <= 1
    OBVIOUS
  <2>1. requests \in Seq(Requested)
    BY <1>1 DEF Typed
  <2>2. i \in Nat \ {0}
    BY <2>1, RequestedFields
  <2>3. Places(i) <= 1
    BY <2>2 DEF Inv, Accounted, One
  <2>4. Told(i) = requests[i].answered - requests[i].again
    BY DEF Told
  <2> DEFINE a == Count(agenda, Of(i))  b == InDeferred(i)  c == InCallbacks(i)  d == InLinks(i)
             e == InRundowns(i)  f == InClosure(i)  g == Told(i)
  <2>5. a \in Nat /\ b \in Nat /\ c \in Nat /\ d \in Nat /\ e \in Nat /\ f \in Nat /\ g \in Nat
    BY <1>1, <2>2, PlacesNat
  <2>6. a + b + c + d + e + f + g <= 1
    BY <2>3 DEF Places
  <2> HIDE DEF a, b, c, d, e, f, g
  <2>7. g <= 1
    BY <2>5, <2>6
  <2>8. requests[i].answered - requests[i].again <= 1
    BY <2>4, <2>7 DEF g
  <2>9. /\ requests[i].answered \in Nat /\ requests[i].again \in Nat
        /\ 2 * requests[i].again <= requests[i].answered
    BY <2>1, RequestedFields
  <2>10. QED
    BY <2>8, <2>9
<1>4. QED
  BY <1>2, <1>3 DEF AnsweredOnce

\* The same of the other property.
LEMMA InvConnectedMeansUp ==
  ASSUME Inv
  PROVE  ConnectedMeansUp
<1> SUFFICES ASSUME ~LateRundown, state = "connected", agenda = <<>>
             PROVE  /\ conn \in heard /\ net[conn].up
                    /\ net[conn].conn = "open" /\ net[conn].sess = "open"
  BY DEF ConnectedMeansUp
<1>1. Typed /\ Budget /\ Control
  BY DEF Inv
<1>2. Settled
  BY <1>1, SettledBetween
<1>3. QED
  BY <1>2 DEF Settled

-----------------------------------------------------------------------------

\* The invariant holds in every state of every behaviour.
LEMMA ConnectionInv == ConnectionSpec => []Inv
<1>1. ConnectionInit => Inv
  BY InvFirst
<1>2. Inv /\ [ConnectionNext]_connectionVars => Inv'
  BY InvKept
<1>3. QED
  BY <1>1, <1>2, PTL DEF ConnectionSpec

\* However calls, events, timers and the peer's answers interleave, the callback
\* of a call is told once at most: it is in one place only, be it the turn, a
\* deferred input, a link, a closure or one of the two callbacks of the machine
\* (Amqp._fsm, amqp.ts), unless the agent answers a rundown that is over.  It is
\* called twice then only if a forced rundown fails the attach of its link.
THEOREM CallsAnsweredOnce == ConnectionSpec => []AnsweredOnce
<1>1. Inv => AnsweredOnce
  BY InvAnsweredOnce
<1>2. QED
  BY <1>1, ConnectionInv, PTL

\* Between two turns, a machine in its connected state listens to a connection
\* that is up, with a session that is open, whatever was deferred, lost or closed
\* while it was set up (the states of Amqp._fsm), with the same exception.
THEOREM ConnectedIsUp == ConnectionSpec => []ConnectedMeansUp
<1>1. Inv => ConnectedMeansUp
  BY InvConnectedMeansUp
<1>2. QED
  BY <1>1, ConnectionInv, PTL
=============================================================================
