---------------------------- MODULE MqttBase_proofs ----------------------------
(***************************************************************************)
(* Proofs about the MQTT connection state machine, for every number and    *)
(* order of calls.                                                         *)
(*                                                                         *)
(* The inductive invariant has three parts.  Shapes: whatever keeps a      *)
(* callback keeps that of a call of the kind it can serve; it needs no     *)
(* more than the types.  Control: what the state says of the clients and   *)
(* of the calls of end(); it needs the types.  Accounted: the callback of  *)
(* every call is in one place, deferred, under replay, with a client, with *)
(* a call of end(), on the wire or called back; it needs both, for a       *)
(* transition to the state the machine is in drops its callback, and it is *)
(* Control that excludes one.                                              *)
(*                                                                         *)
(* A stale client, that of a failed renewal, is part of Control until it   *)
(* closes: its close changes nothing while the state machine is still      *)
(* disconnected, and where it is not, Control and Accounted end with it    *)
(* (haunted).                                                              *)
(***************************************************************************)
EXTENDS MqttBase, CountingLemmas

OpsOf(kinds) == {o \in Ops : ops[o] \in kinds}

\* Inputs of the state machine, of calls and of what the code itself reports.
Events == {"closeEvent", "errorEvent"}
Items == {x \in Inputs :
            \/ x.kind \in AllKinds /\ x.op \in OpsOf({x.kind})
            \/ x.kind \in Events /\ x.op = NoOp
            \/ x.kind = "forceDisconnect" /\ x.op \in OpsOf({"updateSas"})}

\* An attempt is made for a connect or for a renewal.
Attempts ==
  {c \in Clients : c.op \in OpsOf(IF c.for = "connecting"
                                    THEN {"connect"} ELSE {"updateSas"})}

\* A connection is ended for a disconnect, because of an error, which the
\* connect that failed is told, or for a renewal.
Endings ==
  {e \in Ends :
     IF e.then = "disconnected"
       THEN \/ e.op \in OpsOf({"connect", "disconnect"})
            \/ e.op = NoOp /\ e.err
       ELSE e.op \in OpsOf({"updateSas"})}

Shapes ==
  /\ queue \in Seq(Items) /\ agenda \in Seq(Items)
  /\ clients \in Seq(Attempts)
  /\ ends \subseteq Endings
  /\ wire \subseteq OpsOf({"publish"}) /\ subs \subseteq OpsOf({"subscribe"})

\* Where the callback of o may be kept, and how often it was called.  The
\* client of a connect that was overtaken keeps it for good.
Of(o) == {x \in Inputs : x.op = o}
Keeping(o) ==
  {c \in Clients : /\ c.op = o
                   /\ \/ c.phase = "opening"
                      \/ c.phase = "aborted" /\ c.for = "connecting"}
One(o, S) == IF o \in S THEN 1 ELSE 0
Told(o) == IF o \in DOMAIN answers THEN answers[o] ELSE 0

InQueue(o) == Count(queue, Of(o))
InAgenda(o) == Count(agenda, Of(o))
InClients(o) == Count(clients, Keeping(o))
InEnds(o) == One(o, EndingOps)
InWire(o) == One(o, wire)
InSubs(o) == One(o, subs)
Around(o) == InClients(o) + InEnds(o) + InWire(o) + InSubs(o) + Told(o)

Places(o) == InAgenda(o) + InQueue(o) + Around(o)
Accounted == \A o \in Ops : Places(o) = 1

\* A call of end() that still counts, and clients that report no more but for
\* the close of a stale one: only the latest may.  A stale client has the
\* listeners of its attempt.
Active == {e \in ends : e.then # "switched"}
Over == {"stale", "closed", "ended", "aborted"}
Latest == clients[Len(clients)]
Older(cs) ==
  \A c \in DOMAIN cs :
    /\ c # Len(cs) => cs[c].phase \in Over
    /\ cs[c].phase = "stale" =>
         cs[c].on = {"opening", "connect"} /\ cs[c].for # "connecting"
LastOver == clients = <<>> \/ Latest.phase \in Over

Opening(purposes) ==
  /\ clients # <<>> /\ Latest.phase = "opening" /\ Latest.for \in purposes
  /\ Latest.on = {"opening", "connect"}

\* The latest client is connected, and all its listeners are in place but for
\* the one for errors after a forced disconnect.
Connection ==
  /\ clients # <<>> /\ Latest.phase = "up"
  /\ Latest.on \cap {"opening", "null"} = {} /\ "close" \in Latest.on
  /\ Latest.for # "forced" => "error" \in Latest.on

\* A client whose end was asked for when it was connected.
LastEnded == clients # <<>> /\ Latest.phase = "ended"

Ending(thens) == \E e \in Active : Active = {e} /\ e.then \in thens

\* Between reports, the state says what the clients and calls of end() are.
Settled ==
  /\ state = "disconnected" => Active = {} /\ LastOver
  /\ state = "connecting" => Active = {} /\ Opening({"connecting"})
  /\ state = "connected" => Active = {} /\ Connection
  /\ state = "disconnecting" => LastOver /\ Ending({"disconnected"})
  /\ state = "reconnecting" =>
       \/ LastEnded /\ Ending({"reconnect", "forced"})
       \/ Active = {} /\ Opening({"reconnecting", "forced"})

\* What the code itself reports is handled before anything else: the loss of a
\* connection, and the end of the time a renewal has to end the old one.
Notices == {x \in Inputs : x.kind \notin AllKinds}
Calls(s) == ~Has(s, Notices)
Alone(kinds) ==
  ~Idle /\ Head(agenda).kind \in kinds /\ Tail(agenda) = <<>> /\ ~inCallback

Lost ==
  /\ state = "connected" /\ Active = {} /\ clients # <<>>
  /\ \/ Latest.phase \in {"closed", "failed"} /\ Alone({"errorEvent"})
     \/ Latest.phase = "closed" /\ Alone({"closeEvent"})
Overdue ==
  state = "reconnecting" /\ Active = {} /\ LastEnded /\ Alone({"forceDisconnect"})

Control ==
  /\ Older(clients)
  /\ Calls(queue)
  /\ inCallback => ~Idle
  /\ \/ ~crashed /\ Calls(agenda) /\ Settled
     \/ ~crashed /\ (Lost \/ Overdue)
     \/ crashed /\ state = "connected"

Typed == TypeOK /\ Shapes
IInv == Typed /\ (haunted \/ (Accounted /\ Control))

-----------------------------------------------------------------------------
(* The calls made.                                                         *)

\* A step leaves the calls as they are or makes one more.
Grows == UNCHANGED ops \/ (\E kind \in AllKinds : ops' = Append(ops, kind))

\* The operations are numbers; the next has the next number.
LEMMA OpsFacts ==
  ASSUME ops \in Seq(AllKinds)
  PROVE  /\ Len(ops) \in Nat /\ DOMAIN ops = Ops
         /\ Ops \subseteq Nat \ {0} /\ NoOp \notin Ops
         /\ \A kinds : OpsOf(kinds) \subseteq Ops
BY LenProperties DEF Ops, OpsOf, NoOp

\* The calls made stay what they were.
LEMMA GrowsFacts ==
  ASSUME ops \in Seq(AllKinds), Grows
  PROVE  /\ ops' \in Seq(AllKinds) /\ Ops \subseteq Ops'
         /\ \A kinds : OpsOf(kinds) \subseteq OpsOf(kinds)'
<1>1. CASE UNCHANGED ops
  BY <1>1 DEF Ops, OpsOf
<1>2. ASSUME NEW kind \in AllKinds, ops' = Append(ops, kind)
      PROVE  /\ ops' \in Seq(AllKinds) /\ Ops \subseteq Ops'
             /\ \A kinds : OpsOf(kinds) \subseteq OpsOf(kinds)'
  <2>1. /\ ops' \in Seq(AllKinds) /\ Len(ops') = Len(ops) + 1 /\ Len(ops) \in Nat
        /\ \A i \in 1..Len(ops) : ops'[i] = ops[i]
    BY <1>2, AppendProperties, LenProperties
  <2>2. Ops \subseteq Ops'
    BY <2>1 DEF Ops
  <2>3. ASSUME NEW kinds, NEW o \in OpsOf(kinds)
        PROVE  o \in OpsOf(kinds)'
    <3>1. o \in Ops /\ ops[o] \in kinds
      BY DEF OpsOf
    <3>2. o \in Ops' /\ ops'[o] \in kinds
      BY <2>1, <2>2, <3>1 DEF Ops
    <3>3. QED
      BY <3>2 DEF OpsOf
  <2>4. QED
    BY <2>1, <2>2, <2>3
<1>3. QED
  BY <1>1, <1>2 DEF Grows

\* What keeps a callback may keep it after a further call.
LEMMA Wider ==
  ASSUME ops \in Seq(AllKinds), Grows
  PROVE  /\ Items \subseteq Items' /\ Attempts \subseteq Attempts'
         /\ Endings \subseteq Endings'
<1>1. \A kinds : OpsOf(kinds) \subseteq OpsOf(kinds)'
  BY GrowsFacts
<1>2. \A kinds, o : o \in OpsOf(kinds) => o \in OpsOf(kinds)'
  BY <1>1
<1>3. Items \subseteq Items'
  BY <1>2, Zenon DEF Items
<1>4. Attempts \subseteq Attempts'
  <2>1. ASSUME NEW c \in Attempts
        PROVE  c \in Attempts'
    <3>1. c \in Clients
      BY DEF Attempts
    <3>2. CASE c.for = "connecting"
      BY <1>2, <3>1, <3>2, Zenon DEF Attempts
    <3>3. CASE c.for # "connecting"
      BY <1>2, <3>1, <3>3, Zenon DEF Attempts
    <3>4. QED
      BY <3>2, <3>3
  <2>2. QED
    BY <2>1
<1>5. Endings \subseteq Endings'
  <2>1. ASSUME NEW e \in Endings
        PROVE  e \in Endings'
    <3>1. e \in Ends
      BY DEF Endings
    <3>2. CASE e.then = "disconnected"
      BY <1>2, <3>1, <3>2, Zenon DEF Endings
    <3>3. CASE e.then # "disconnected"
      BY <1>2, <3>1, <3>3, Zenon DEF Endings
    <3>4. QED
      BY <3>2, <3>3
  <2>2. QED
    BY <2>1
<1>6. QED
  BY <1>3, <1>4, <1>5

\* So what there was has its type among the calls made now.
LEMMA Widened ==
  ASSUME Typed, Grows
  PROVE  /\ queue \in Seq(Items') /\ agenda \in Seq(Items')
         /\ clients \in Seq(Attempts') /\ ends \subseteq Endings'
         /\ wire \subseteq OpsOf({"publish"})'
         /\ subs \subseteq OpsOf({"subscribe"})'
         /\ \A kinds : OpsOf(kinds) \subseteq OpsOf(kinds)'
<1>1. ops \in Seq(AllKinds)
  BY DEF Typed, TypeOK
<1>2. /\ Items \subseteq Items' /\ Attempts \subseteq Attempts'
      /\ Endings \subseteq Endings'
      /\ \A kinds : OpsOf(kinds) \subseteq OpsOf(kinds)'
  BY <1>1, Wider, GrowsFacts
<1>3. Seq(Items) \subseteq Seq(Items') /\ Seq(Attempts) \subseteq Seq(Attempts')
  BY <1>2, SeqWiden
<1>4. QED
  BY <1>2, <1>3 DEF Typed, Shapes
-----------------------------------------------------------------------------
(* The types.                                                              *)

\* What a step does to the variables but for inCallback and its outcome.
MovesTyped ==
  /\ state' \in States
  /\ queue' \in Seq(Items') /\ agenda' \in Seq(Items')
  /\ clients' \in Seq(Attempts') /\ ends' \subseteq Endings'
  /\ wire' \subseteq OpsOf({"publish"})' /\ subs' \subseteq OpsOf({"subscribe"})'
  /\ answers' \in [Ops' -> Nat] /\ errorEvents' \in Nat

\* A step whose variables have their types again keeps the types.
LEMMA TypedParts ==
  ASSUME Typed, Grows, MovesTyped, inCallback' \in BOOLEAN,
         crashed' \in BOOLEAN, haunted' \in BOOLEAN
  PROVE  Typed'
<1>1. ops' \in Seq(AllKinds)
  BY GrowsFacts DEF Typed, TypeOK
<1>2. Shapes'
  BY DEF MovesTyped, Shapes
<1>3. Items' \subseteq Inputs /\ Attempts' \subseteq Clients /\ Endings' \subseteq Ends
  BY DEF Items, Attempts, Endings
<1>4. Seq(Items') \subseteq Seq(Inputs) /\ Seq(Attempts') \subseteq Seq(Clients)
  BY <1>3, SeqWiden
<1>5. \A kinds : OpsOf(kinds)' \subseteq Ops'
  BY DEF OpsOf
<1>6. TypeOK'
  <2>1. /\ queue' \in Seq(Inputs) /\ agenda' \in Seq(Inputs)
        /\ clients' \in Seq(Clients) /\ ends' \subseteq Ends
    BY <1>3, <1>4 DEF MovesTyped
  <2>2. wire' \subseteq Ops' /\ subs' \subseteq Ops'
    BY <1>5 DEF MovesTyped
  <2>3. QED
    BY <1>1, <2>1, <2>2 DEF MovesTyped, TypeOK
<1>7. QED
  BY <1>2, <1>6 DEF Typed

\* Calling callbacks counts one more call for each.
LEMMA AnswerFacts ==
  ASSUME Typed, Grows, NEW called, Answer(called)
  PROVE  /\ answers' \in [Ops' -> Nat]
         /\ \A o \in Ops' : /\ Told(o) \in Nat /\ Told(o)' \in Nat
                            /\ Told(o)' = Told(o) + One(o, called)
<1>1. /\ ops \in Seq(AllKinds) /\ ops' \in Seq(AllKinds) /\ answers \in [Ops -> Nat]
  BY GrowsFacts DEF Typed, TypeOK
<1>2. DOMAIN ops' = Ops' /\ DOMAIN answers = Ops
  BY <1>1, LenProperties DEF Ops
<1>3. answers' = [o \in Ops' |-> (IF o \in Ops THEN answers[o] ELSE 0)
                                  + (IF o \in called THEN 1 ELSE 0)]
  BY <1>2 DEF Answer
<1>4. \A o : Told(o) = IF o \in Ops THEN answers[o] ELSE 0
  BY <1>2 DEF Told
<1>5. \A o : Told(o) \in Nat
  BY <1>1, <1>4
<1>6. \A o \in Ops' : answers'[o] = Told(o) + One(o, called)
  BY <1>3, <1>4 DEF One
<1>7. answers' \in [Ops' -> Nat]
  BY <1>3, <1>1
<1>8. DOMAIN answers' = Ops'
  BY <1>7
<1>9. ASSUME NEW o \in Ops'
      PROVE  Told(o)' = answers'[o]
  BY <1>8 DEF Told
<1>10. QED
  BY <1>5, <1>6, <1>7, <1>9

\* The step calls no callback.
LEMMA QuietFacts ==
  ASSUME Typed, Grows, Quiet
  PROVE  /\ answers' \in [Ops' -> Nat]
         /\ \A o \in Ops' : /\ Told(o) \in Nat /\ Told(o)' = Told(o)
<1>1. /\ answers' \in [Ops' -> Nat]
      /\ \A o \in Ops' : /\ Told(o) \in Nat /\ Told(o)' \in Nat
                         /\ Told(o)' = Told(o) + One(o, {})
  BY AnswerFacts DEF Quiet
<1>2. \A o : One(o, {}) = 0
  BY DEF One
<1>3. QED
  BY <1>1, <1>2

\* What a transition replays, and what is deferred, are inputs.
LEMMA MachinaTyped ==
  ASSUME Typed, Grows, NEW rest \in Seq(Items')
  PROVE  /\ \A s \in States : Goto(s, rest) =>
               state' \in States /\ queue' \in Seq(Items') /\ agenda' \in Seq(Items')
         /\ Stay(rest) =>
               state' \in States /\ queue' \in Seq(Items') /\ agenda' \in Seq(Items')
         /\ \A input \in Items' : deferUntilTransition(input, rest) =>
               state' \in States /\ queue' \in Seq(Items') /\ agenda' \in Seq(Items')
<1>1. queue \in Seq(Items') /\ state \in States
  BY Widened DEF Typed, TypeOK
<1>2. queue \o rest \in Seq(Items') /\ <<>> \in Seq(Items')
  BY <1>1, ConcatProperties
<1>3. \A input \in Items' : Append(queue, input) \in Seq(Items')
  BY <1>1, AppendProperties
<1>4. QED
  BY <1>1, <1>2, <1>3 DEF Goto, Stay, deferUntilTransition

\* A client with a further listener.
Listened(c, listener) == [c EXCEPT !.on = @ \cup {listener}]

\* What ends the latest client, or adds a listener to it, leaves the others.
LEMMA LatestFacts ==
  ASSUME NEW T, NEW cs \in Seq(T), cs # <<>>, NEW listener
  PROVE  /\ Len(cs) \in Nat \ {0} /\ DOMAIN cs = 1..Len(cs)
         /\ EndLast(cs) = [cs EXCEPT ![Len(cs)] = Ended(cs[Len(cs)])]
         /\ Listen(cs, listener)
              = [cs EXCEPT ![Len(cs)] = Listened(cs[Len(cs)], listener)]
<1>1. Len(cs) \in Nat \ {0} /\ DOMAIN cs = 1..Len(cs)
  BY LenProperties, EmptySeq
<1>2. EndLast(cs) = [cs EXCEPT ![Len(cs)] = Ended(cs[Len(cs)])]
  BY <1>1 DEF EndLast, Ended
<1>3. Listen(cs, listener) = [cs EXCEPT ![Len(cs)] = Listened(cs[Len(cs)], listener)]
  BY <1>1 DEF Listen, Listened
<1>4. QED
  BY <1>1, <1>2, <1>3

\* What they change of a client.
LEMMA ClientFacts ==
  ASSUME NEW c \in Clients
  PROVE  /\ Ended(c) \in Clients
         /\ Ended(c).on = {"null"}
         /\ Ended(c).phase = IF c.phase = "opening" THEN "aborted" ELSE "ended"
         /\ Ended(c).for = c.for /\ Ended(c).op = c.op
         /\ \A listener \in Listeners :
              /\ Listened(c, listener) \in Clients
              /\ Listened(c, listener).on = c.on \cup {listener}
              /\ Listened(c, listener).phase = c.phase
              /\ Listened(c, listener).for = c.for
              /\ Listened(c, listener).op = c.op
BY DEF Clients, Ended, Listened, Listeners

\* An attempt stays one whatever becomes of its connection.
LEMMA AttemptFacts ==
  ASSUME NEW c \in Attempts', NEW d \in Clients, d.for = c.for, d.op = c.op
  PROVE  d \in Attempts'
<1>1. c \in Clients
  BY DEF Attempts
<1>2. CASE c.for = "connecting"
  BY <1>2, Zenon DEF Attempts
<1>3. CASE c.for # "connecting"
  BY <1>3, Zenon DEF Attempts
<1>4. QED
  BY <1>2, <1>3

\* The latest client ended, or with a further listener, or the others as they
\* are and one more.
LEMMA LatestTyped ==
  ASSUME NEW cs \in Seq(Attempts')
  PROVE  /\ EndLast(cs) \in Seq(Attempts')
         /\ \A listener \in Listeners : Listen(cs, listener) \in Seq(Attempts')
<1>1. CASE cs = <<>>
  <2>1. EndLast(cs) = <<>> /\ \A listener : Listen(cs, listener) = <<>>
    BY <1>1 DEF EndLast, Listen
  <2>2. QED
    BY <1>1, <2>1
<1>2. CASE cs # <<>>
  <2>1. Len(cs) \in 1..Len(cs) /\ cs[Len(cs)] \in Attempts'
    <3>1. Len(cs) \in Nat \ {0}
      BY <1>2, LatestFacts
    <3>2. Len(cs) \in 1..Len(cs)
      BY <3>1
    <3>3. QED
      BY <3>2, ElementOfSeq
  <2>2. cs[Len(cs)] \in Clients
    BY <2>1 DEF Attempts
  <2>3. PICK n \in 1..Len(cs) : n = Len(cs)
    BY <2>1
  <2>4. PICK c \in Attempts' : c = cs[Len(cs)]
    BY <2>1
  <2>5. Ended(c) \in Attempts' /\ \A listener \in Listeners : Listened(c, listener) \in Attempts'
    BY <2>2, <2>4, ClientFacts, AttemptFacts
  <2>6. EndLast(cs) = [cs EXCEPT ![n] = Ended(c)]
    BY <1>2, <2>3, <2>4, LatestFacts
  <2>7. \A listener : Listen(cs, listener) = [cs EXCEPT ![n] = Listened(c, listener)]
    BY <1>2, <2>3, <2>4, LatestFacts
  <2>8. \A e \in Attempts' : [cs EXCEPT ![n] = e] \in Seq(Attempts')
    BY <2>3, ExceptSeq
  <2>9. QED
    BY <2>5, <2>6, <2>7, <2>8
<1>3. QED
  BY <1>1, <1>2

\* The transitions keep the types.
LEMMA ToDisconnectedTyped ==
  ASSUME Typed, Grows, NEW op, NEW err \in BOOLEAN, NEW cs \in Seq(Attempts'),
         NEW rest \in Seq(Items'), ToDisconnected(op, err, cs, rest), UNCHANGED ends
  PROVE  MovesTyped
<1>1. /\ ends' \subseteq Endings' /\ clients' \in Seq(Attempts')
      /\ subs' \subseteq OpsOf({"subscribe"})'
  BY Widened DEF ToDisconnected
<1>2. CASE state = "disconnected"
  <2>1. Stay(rest) /\ Quiet /\ UNCHANGED wire
    BY <1>2 DEF ToDisconnected
  <2>2. state' \in States /\ queue' \in Seq(Items') /\ agenda' \in Seq(Items')
    BY <2>1, MachinaTyped
  <2>3. answers' \in [Ops' -> Nat] /\ wire' \subseteq OpsOf({"publish"})'
    BY <2>1, QuietFacts, Widened
  <2>4. errorEvents' \in Nat
    BY <2>1 DEF Quiet, Typed, TypeOK
  <2>5. QED
    BY <1>1, <2>2, <2>3, <2>4 DEF MovesTyped
<1>3. CASE state # "disconnected"
  <2>1. /\ Goto("disconnected", rest) /\ wire' = {} /\ Answer(wire \cup {op})
        /\ errorEvents' \in {errorEvents, errorEvents + 1}
    BY <1>3 DEF ToDisconnected
  <2>2. state' \in States /\ queue' \in Seq(Items') /\ agenda' \in Seq(Items')
    BY <2>1, MachinaTyped DEF States
  <2>3. answers' \in [Ops' -> Nat] /\ wire' \subseteq OpsOf({"publish"})'
    BY <2>1, AnswerFacts
  <2>4. errorEvents' \in Nat
    BY <2>1 DEF Typed, TypeOK
  <2>5. QED
    BY <1>1, <2>2, <2>3, <2>4 DEF MovesTyped
<1>4. QED
  BY <1>2, <1>3

\* A call of end() that is followed by the state disconnected.
LastEnd(op, err) == [then |-> "disconnected", op |-> op, err |-> err]

\* It keeps the types, with the transition that asks for it.
LEMMA ToDisconnectingTyped ==
  ASSUME Typed, Grows, NEW op, NEW err \in BOOLEAN, NEW cs \in Seq(Attempts'),
         NEW rest \in Seq(Items'), ToDisconnecting(op, err, cs, rest),
         LastEnd(op, err) \in Endings'
  PROVE  MovesTyped
<1>1. /\ Quiet /\ wire' = wire /\ subs' = subs
      /\ state' \in States /\ queue' \in Seq(Items') /\ agenda' \in Seq(Items')
  BY MachinaTyped DEF ToDisconnecting, SameWire, States
<1>2. clients' \in Seq(Attempts')
  BY LatestTyped DEF ToDisconnecting
<1>3. ends' \subseteq Endings'
  BY Widened DEF ToDisconnecting, LastEnd
<1>4. answers' \in [Ops' -> Nat] /\ errorEvents' \in Nat
  BY <1>1, QuietFacts DEF Quiet, Typed, TypeOK
<1>5. /\ wire' \subseteq OpsOf({"publish"})' /\ subs' \subseteq OpsOf({"subscribe"})'
  BY <1>1, Widened
<1>6. QED
  BY <1>1, <1>2, <1>3, <1>4, <1>5 DEF MovesTyped

\* So does the transition to connected.
LEMMA ToConnectedTyped ==
  ASSUME Typed, Grows, NEW op, NEW cs \in Seq(Attempts'),
         NEW rest \in Seq(Items'), ToConnected(op, cs, rest)
  PROVE  MovesTyped
<1>1. /\ wire' = wire /\ subs' = subs /\ ends' = ends /\ errorEvents' = errorEvents
      /\ state' \in States /\ queue' \in Seq(Items') /\ agenda' \in Seq(Items')
  BY MachinaTyped DEF ToConnected, SameWire, States
<1>2. clients' \in Seq(Attempts')
  BY LatestTyped DEF ToConnected, Listeners
<1>3. answers' \in [Ops' -> Nat]
  BY AnswerFacts DEF ToConnected
<1>4. /\ wire' \subseteq OpsOf({"publish"})' /\ subs' \subseteq OpsOf({"subscribe"})'
      /\ ends' \subseteq Endings' /\ errorEvents' \in Nat
  BY <1>1, Widened DEF Typed, TypeOK
<1>5. QED
  BY <1>1, <1>2, <1>3, <1>4 DEF MovesTyped

\* What may be done with the input of a call, by its kind.
LEMMA ItemFacts ==
  ASSUME NEW input \in Items'
  PROVE  /\ input \in Inputs
         /\ input.kind \in AllKinds => input.op \in OpsOf({input.kind})'
         /\ input.kind = "connect" => input.op \in OpsOf({"connect"})'
         /\ input.kind = "publish" => input.op \in OpsOf({"publish"})'
         /\ input.kind = "subscribe" => input.op \in OpsOf({"subscribe"})'
         /\ input.kind = "disconnect" => LastEnd(input.op, FALSE) \in Endings'
         /\ input.kind \in {"updateSas", "forceDisconnect"}
              => input.op \in OpsOf({"updateSas"})'
         /\ LastEnd(NoOp, TRUE) \in Endings'
<1>1. /\ input \in Inputs
      /\ \/ input.kind \in AllKinds /\ input.op \in OpsOf({input.kind})'
         \/ input.kind \in Events /\ input.op = NoOp
         \/ input.kind = "forceDisconnect" /\ input.op \in OpsOf({"updateSas"})'
  BY Zenon DEF Items
<1>2. input.kind \in AllKinds => input.op \in OpsOf({input.kind})'
  BY <1>1 DEF AllKinds, Events
<1>3. ASSUME NEW kind \in AllKinds, input.kind = kind
      PROVE  input.op \in OpsOf({kind})'
  BY <1>2, <1>3, Zenon
<1>4. ASSUME input.kind = "disconnect"
      PROVE  LastEnd(input.op, FALSE) \in Endings'
  <2>1. input.op \in OpsOf({"disconnect"})'
    BY <1>3, <1>4 DEF AllKinds
  <2>2. input.op \in OpsOf({"connect", "disconnect"})'
    BY <2>1 DEF OpsOf
  <2>3. input.op \in Nat
    BY <1>1 DEF Inputs
  <2>4. QED
    BY <2>2, <2>3 DEF Endings, Ends, LastEnd
<1>5. LastEnd(NoOp, TRUE) \in Endings'
  BY DEF Endings, Ends, LastEnd, NoOp
<1>6. input.kind = "forceDisconnect" => input.op \in OpsOf({"updateSas"})'
  BY <1>1 DEF AllKinds, Events
<1>7. QED
  BY <1>1, <1>2, <1>3, <1>4, <1>5, <1>6 DEF AllKinds

\* A new client, made for a call.
Fresh(why, op) == [phase |-> "opening", on |-> {"opening", "connect"},
                   for |-> why, op |-> op]

\* It is an attempt, and the last of the clients.
LEMMA ConnectingFacts ==
  ASSUME Typed, Grows, NEW why \in Purposes, NEW op,
         op \in OpsOf(IF why = "connecting" THEN {"connect"} ELSE {"updateSas"})'
  PROVE  /\ Fresh(why, op) \in Attempts'
         /\ Connecting(why, op) = Append(clients, Fresh(why, op))
         /\ Connecting(why, op) \in Seq(Attempts')
<1>1. op \in Nat
  <2>1. ops' \in Seq(AllKinds)
    BY GrowsFacts DEF Typed, TypeOK
  <2>2. QED
    BY <2>1, LenProperties DEF OpsOf, Ops
<1>2. Fresh(why, op) \in Clients
  BY <1>1 DEF Fresh, Clients, Listeners
<1>3. Fresh(why, op).for = why /\ Fresh(why, op).op = op
  BY DEF Fresh
<1>4. Fresh(why, op) \in Attempts'
  <2>1. CASE why = "connecting"
    BY <1>2, <1>3, <2>1, Zenon DEF Attempts
  <2>2. CASE why # "connecting"
    BY <1>2, <1>3, <2>2, Zenon DEF Attempts
  <2>3. QED
    BY <2>1, <2>2
<1>5. Connecting(why, op) = Append(clients, Fresh(why, op))
  BY DEF Connecting, Fresh
<1>6. QED
  BY <1>4, <1>5, Widened, AppendProperties

\* A renewal that ends the connection.
Renewal(then, op) == [then |-> then, op |-> op, err |-> FALSE]

\* It is an ending.
LEMMA RenewalTyped ==
  ASSUME Typed, Grows, NEW op \in OpsOf({"updateSas"})', NEW then \in {"reconnect", "forced"}
  PROVE  Renewal(then, op) \in Endings'
<1>1. op \in Nat
  <2>1. ops' \in Seq(AllKinds)
    BY GrowsFacts DEF Typed, TypeOK
  <2>2. QED
    BY <2>1, LenProperties DEF OpsOf, Ops
<1>2. Renewal(then, op) \in Ends /\ Renewal(then, op).then # "disconnected"
      /\ Renewal(then, op).op = op
  BY <1>1 DEF Renewal, Ends
<1>3. QED
  BY <1>2, Zenon DEF Endings

\* A step that leaves alone what another step may change has it typed.
LEMMA StaysTyped ==
  ASSUME Typed, Grows
  PROVE  /\ clients' = clients => clients' \in Seq(Attempts')
         /\ ends' = ends => ends' \subseteq Endings'
         /\ wire' = wire => wire' \subseteq OpsOf({"publish"})'
         /\ subs' = subs => subs' \subseteq OpsOf({"subscribe"})'
         /\ errorEvents \in Nat
BY Widened DEF Typed, TypeOK

\* The handlers keep the types.
LEMMA HandleTyped ==
  ASSUME Typed, Grows, NEW input \in Items', NEW rest \in Seq(Items'),
         handle(input, rest)
  PROVE  MovesTyped
<1> DEFINE Sequences == state' \in States /\ queue' \in Seq(Items') /\ agenda' \in Seq(Items')
           Answers1 == answers' \in [Ops' -> Nat] /\ errorEvents' \in Nat
           Clients1 == clients' \in Seq(Attempts') /\ ends' \subseteq Endings'
           Wires == /\ wire' \subseteq OpsOf({"publish"})'
                    /\ subs' \subseteq OpsOf({"subscribe"})'
<1>1. ASSUME Sequences, Answers1, Clients1, Wires
      PROVE  MovesTyped
  BY <1>1 DEF MovesTyped
<1>2. /\ Quiet => Answers1
      /\ \A called : Answer(called) /\ errorEvents' = errorEvents => Answers1
  BY QuietFacts, AnswerFacts, StaysTyped DEF Quiet
<1>3. /\ Stay(rest) => Sequences
      /\ \A s \in States : Goto(s, rest) => Sequences
      /\ deferUntilTransition(input, rest) => Sequences
  BY MachinaTyped
<1>4. /\ clients' = clients /\ ends' = ends => Clients1
      /\ SameWire => Wires
  BY StaysTyped DEF SameWire
<1>5. clients \in Seq(Attempts') /\ EndLast(clients) \in Seq(Attempts')
  BY Widened, LatestTyped
<1> HIDE DEF Sequences, Answers1, Clients1, Wires
<1>6. CASE input.kind = "errorEvent"
  BY <1>5, <1>6, ItemFacts, ToDisconnectingTyped DEF handle
<1>7. CASE HandleDisconnected(input, rest)
  <2>1. SameWire /\ ends' = ends
    BY <1>7 DEF HandleDisconnected
  <2>2. CASE input.kind = "connect" /\ Goto("connecting", rest) /\ Quiet
             /\ clients' = Connecting("connecting", input.op)
    <3>1. clients' \in Seq(Attempts')
      BY <2>2, ItemFacts, ConnectingFacts DEF Purposes
    <3>2. Clients1
      BY <2>1, <3>1, StaysTyped DEF Clients1
    <3>3. QED
      BY <1>1, <1>2, <1>3, <1>4, <2>1, <2>2, <3>2 DEF States
  <2>3. CASE Answer({input.op}) /\ Stay(rest) /\ clients' = clients
             /\ errorEvents' = errorEvents
    BY <1>1, <1>2, <1>3, <1>4, <2>1, <2>3
  <2>4. CASE Stay(rest) /\ Quiet /\ clients' = clients
    BY <1>1, <1>2, <1>3, <1>4, <2>1, <2>4
  <2>5. QED
    BY <1>7, <2>2, <2>3, <2>4 DEF HandleDisconnected
<1>8. CASE HandleConnecting(input, rest)
  <2>1. CASE input.kind = "disconnect"
    BY <1>5, <1>8, <2>1, ItemFacts, ToDisconnectingTyped DEF HandleConnecting
  <2>2. CASE input.kind # "disconnect"
    BY <1>1, <1>2, <1>3, <1>4, <1>8, <2>2 DEF HandleConnecting
  <2>3. QED
    BY <2>1, <2>2
<1>9. CASE HandleConnected(input, rest)
  <2>1. CASE Answer({input.op}) /\ Stay(rest) /\ SameWire
             /\ clients' = clients /\ ends' = ends /\ errorEvents' = errorEvents
    BY <1>1, <1>2, <1>3, <1>4, <2>1
  <2>2. CASE input.kind = "disconnect" /\ ToDisconnecting(input.op, FALSE, clients, rest)
    BY <1>5, <2>2, ItemFacts, ToDisconnectingTyped
  <2>3. CASE /\ input.kind = "publish" /\ wire' = wire \cup {input.op}
             /\ Stay(rest) /\ Quiet /\ clients' = clients /\ ends' = ends /\ subs' = subs
    <3>1. Wires
      BY <2>3, ItemFacts, Widened, StaysTyped DEF Wires
    <3>2. QED
      BY <1>1, <1>2, <1>3, <1>4, <2>3, <3>1
  <2>4. CASE /\ input.kind = "subscribe" /\ subs' = subs \cup {input.op}
             /\ Stay(rest) /\ Quiet /\ clients' = clients /\ ends' = ends /\ wire' = wire
    <3>1. Wires
      BY <2>4, ItemFacts, Widened, StaysTyped DEF Wires
    <3>2. QED
      BY <1>1, <1>2, <1>3, <1>4, <2>4, <3>1
  <2>5. CASE /\ input.kind = "updateSas" /\ Goto("reconnecting", rest)
             /\ clients' = EndLast(clients)
             /\ ends' = ends \cup {Renewal("reconnect", input.op)}
             /\ Quiet /\ SameWire
    <3>1. Renewal("reconnect", input.op) \in Endings'
      BY <2>5, ItemFacts, RenewalTyped
    <3>2. Clients1
      BY <1>5, <2>5, <3>1, Widened DEF Clients1
    <3>3. QED
      BY <1>1, <1>2, <1>3, <1>4, <2>5, <3>2 DEF States
  <2>6. CASE ToDisconnected(NoOp, TRUE, clients, rest) /\ UNCHANGED ends
    BY <1>5, <2>6, ToDisconnectedTyped
  <2>7. CASE Stay(rest) /\ Quiet /\ SameWire /\ clients' = clients /\ ends' = ends
    BY <1>1, <1>2, <1>3, <1>4, <2>7
  <2>8. QED
    BY <1>9, <2>1, <2>2, <2>3, <2>4, <2>5, <2>6, <2>7 DEF HandleConnected, Renewal
<1>10. CASE HandleDisconnecting(input, rest)
  BY <1>1, <1>2, <1>3, <1>4, <1>10 DEF HandleDisconnecting
<1>11. CASE HandleReconnecting(input, rest)
  <2>1. CASE input.kind = "forceDisconnect"
    <3>1. /\ clients' = EndLast(clients) /\ ends' = ends \cup {Renewal("forced", input.op)}
          /\ Stay(rest) /\ Quiet /\ SameWire
      BY <1>11, <2>1 DEF HandleReconnecting, Renewal
    <3>2. Renewal("forced", input.op) \in Endings'
      BY <2>1, ItemFacts, RenewalTyped
    <3>3. Clients1
      BY <1>5, <3>1, <3>2, Widened DEF Clients1
    <3>4. QED
      BY <1>1, <1>2, <1>3, <1>4, <3>1, <3>3
  <2>2. CASE input.kind # "forceDisconnect"
    BY <1>1, <1>2, <1>3, <1>4, <1>11, <2>2 DEF HandleReconnecting
  <2>3. QED
    BY <2>1, <2>2
<1>12. QED
  BY <1>6, <1>7, <1>8, <1>9, <1>10, <1>11 DEF handle

\* The call made now.
Input(kind) == [kind |-> kind, op |-> Len(ops) + 1]

\* A call makes one more, with an input of its own.
LEMMA CallFacts ==
  ASSUME Typed, NEW kind \in AllKinds, ops' = Append(ops, kind)
  PROVE  /\ Grows /\ Len(ops) + 1 \in Ops' /\ Len(ops) + 1 \notin Ops
         /\ Ops' = Ops \cup {Len(ops) + 1}
         /\ Input(kind) \in Items'
         /\ Input(kind).kind = kind /\ Input(kind).op = Len(ops) + 1
<1>1. Grows
  BY DEF Grows
<1>2. ops \in Seq(AllKinds)
  BY DEF Typed, TypeOK
<1>3. /\ Len(ops) \in Nat /\ ops' \in Seq(AllKinds) /\ Len(ops') = Len(ops) + 1
      /\ ops'[Len(ops) + 1] = kind
  BY <1>2, AppendProperties, LenProperties
<1>4. Len(ops) + 1 \in Ops' /\ Len(ops) + 1 \notin Ops /\ Ops' = Ops \cup {Len(ops) + 1}
  BY <1>3 DEF Ops
<1>5. Len(ops) + 1 \in OpsOf({kind})'
  BY <1>3, <1>4 DEF OpsOf
<1>6. Input(kind).kind = kind /\ Input(kind).op = Len(ops) + 1 /\ Input(kind) \in Inputs
  BY <1>3 DEF Input, Inputs
<1>7. Input(kind) \in Items'
  BY <1>5, <1>6, Zenon DEF Items
<1>8. QED
  BY <1>1, <1>4, <1>6, <1>7

\* A replay takes an input.
LEMMA ReplayFacts ==
  ASSUME Typed, Grows, agenda # <<>>
  PROVE  /\ Head(agenda) \in Items' /\ Tail(agenda) \in Seq(Items')
         /\ Head(agenda) \in Items /\ Tail(agenda) \in Seq(Items)
<1>1. agenda \in Seq(Items') /\ agenda \in Seq(Items)
  BY Widened DEF Typed, Shapes
<1>2. QED
  BY <1>1, HeadTailProperties

\* A client that reports is an attempt.
Reported(c, phase, on) == [clients EXCEPT ![c].phase = phase, ![c].on = on]

\* It stays one in whatever phase it reports.
LEMMA ReportingFacts ==
  ASSUME Typed, Grows, NEW c \in DOMAIN clients,
         NEW phase \in {"up", "failed", "stale", "closed"}
  PROVE  /\ clients[c] \in Attempts' /\ clients[c] \in Attempts
         /\ clients[c] \in Clients
         /\ [clients EXCEPT ![c].phase = phase] \in Seq(Attempts')
         /\ \A on \in SUBSET Listeners : Reported(c, phase, on) \in Seq(Attempts')
<1>1. clients \in Seq(Attempts') /\ clients \in Seq(Attempts)
  BY Widened DEF Typed, Shapes
<1>2. c \in 1..Len(clients) /\ clients[c] \in Attempts' /\ clients[c] \in Attempts
  BY <1>1, LenProperties, ElementOfSeq
<1>3. clients[c] \in Clients
  BY <1>2 DEF Attempts
<1>4. PICK d \in Attempts' : d = clients[c] /\ d \in Clients
  BY <1>2, <1>3
<1>5. [d EXCEPT !.phase = phase] \in Attempts'
  <2>1. [d EXCEPT !.phase = phase] \in Clients
    BY <1>4 DEF Clients
  <2>2. [d EXCEPT !.phase = phase].for = d.for /\ [d EXCEPT !.phase = phase].op = d.op
    BY <1>4 DEF Clients
  <2>3. QED
    BY <2>1, <2>2, AttemptFacts
<1>6. ASSUME NEW on \in SUBSET Listeners
      PROVE  [d EXCEPT !.phase = phase, !.on = on] \in Attempts'
  <2>1. [d EXCEPT !.phase = phase, !.on = on] \in Clients
    BY <1>4 DEF Clients
  <2>2. /\ [d EXCEPT !.phase = phase, !.on = on].for = d.for
        /\ [d EXCEPT !.phase = phase, !.on = on].op = d.op
    BY <1>4 DEF Clients
  <2>3. QED
    BY <2>1, <2>2, AttemptFacts
<1>7. \A e \in Attempts' : [clients EXCEPT ![c] = e] \in Seq(Attempts')
  BY <1>1, <1>2, ExceptSeq
<1>8. [clients EXCEPT ![c].phase = phase] = [clients EXCEPT ![c] = [d EXCEPT !.phase = phase]]
  BY <1>4
<1>9. ASSUME NEW on \in SUBSET Listeners
      PROVE  Reported(c, phase, on)
               = [clients EXCEPT ![c] = [d EXCEPT !.phase = phase, !.on = on]]
  BY <1>1, <1>4 DEF Reported
<1>10. QED
  BY <1>2, <1>3, <1>5, <1>6, <1>7, <1>8, <1>9, ZenonT(60)

\* Reports of a client keep the types.
LEMMA ReportTyped ==
  ASSUME Typed, NEW c \in DOMAIN clients, NEW phase \in {"failed", "stale", "closed"},
         NEW listener, NEW input \in Events, Report(c, phase, listener, input)
  PROVE  Grows /\ MovesTyped /\ inCallback' \in BOOLEAN
<1>1. Grows /\ inCallback' \in BOOLEAN
  BY DEF Report, Grows, Reentrancy
<1>2. PICK cs \in Seq(Attempts') : cs = [clients EXCEPT ![c].phase = phase]
  BY <1>1, ReportingFacts
<1>3. PICK rest \in Seq(Items') :
        rest = IF listener \in clients[c].on
                 THEN <<[kind |-> input, op |-> NoOp]>> ELSE <<>>
  <2>1. [kind |-> input, op |-> NoOp] \in Inputs
    BY DEF Inputs, Events, NoOp
  <2>2. [kind |-> input, op |-> NoOp] \in Items'
    BY <2>1 DEF Items
  <2>3. <<[kind |-> input, op |-> NoOp]>> \in Seq(Items') /\ <<>> \in Seq(Items')
    BY <2>2
  <2>4. QED
    BY <2>3
<1>4. CASE AttemptFailed(c, cs, rest)
  <2>1. clients[c] \in Clients /\ clients[c] \in Attempts'
    BY <1>1, ReportingFacts
  <2>2. CASE clients[c].for = "connecting"
    <3>1. ToDisconnecting(clients[c].op, TRUE, cs, rest)
      BY <1>4, <2>2 DEF AttemptFailed
    <3>2. clients[c].op \in OpsOf({"connect"})'
      BY <2>1, <2>2, Zenon DEF Attempts
    <3>3. clients[c].op \in OpsOf({"connect", "disconnect"})'
      BY <3>2 DEF OpsOf
    <3>4. clients[c].op \in Nat
      BY <2>1 DEF Clients
    <3>5. LastEnd(clients[c].op, TRUE) \in Endings'
      BY <3>3, <3>4 DEF Endings, Ends, LastEnd
    <3>6. QED
      BY <1>1, <3>1, <3>5, ToDisconnectingTyped
  <2>3. CASE clients[c].for # "connecting"
    <3>1. ToDisconnected(clients[c].op, TRUE, cs, rest) /\ UNCHANGED ends
      BY <1>4, <2>3 DEF AttemptFailed
    <3>2. QED
      BY <1>1, <3>1, ToDisconnectedTyped
  <2>4. QED
    BY <1>1, <2>2, <2>3
<1>5. CASE /\ agenda' = rest /\ clients' = cs /\ Quiet /\ SameWire
           /\ UNCHANGED <<state, queue, ends>>
  <2>1. answers' \in [Ops' -> Nat] /\ errorEvents' \in Nat
    BY <1>1, <1>5, QuietFacts, StaysTyped DEF Quiet
  <2>2. queue' \in Seq(Items') /\ state' \in States
    BY <1>1, <1>5, Widened DEF Typed, TypeOK
  <2>3. /\ ends' \subseteq Endings' /\ wire' \subseteq OpsOf({"publish"})'
        /\ subs' \subseteq OpsOf({"subscribe"})'
    BY <1>1, <1>5, StaysTyped DEF SameWire
  <2>4. QED
    BY <1>1, <1>5, <2>1, <2>2, <2>3 DEF MovesTyped
<1>6. QED
  BY <1>1, <1>2, <1>3, <1>4, <1>5 DEF Report

\* The client that connects, and the listeners it keeps.
Up(c) ==
  [clients EXCEPT ![c].phase = "up",
                  ![c].on = IF c = Len(clients) THEN @ \ {"opening"} ELSE @]
UpOn(c) == IF c = Len(clients) THEN clients[c].on \ {"opening"} ELSE clients[c].on

\* The client that connects is one that reported.
LEMMA UpFacts ==
  ASSUME Typed, Grows, NEW c \in DOMAIN clients
  PROVE  /\ Up(c) = Reported(c, "up", UpOn(c)) /\ UpOn(c) \in SUBSET Listeners
         /\ Up(c) \in Seq(Attempts')
<1>1. clients[c] \in Clients
  BY ReportingFacts
<1>2. UpOn(c) \in SUBSET Listeners
  BY <1>1 DEF UpOn, Clients
<1>3. Up(c) = Reported(c, "up", UpOn(c))
  BY <1>1 DEF Up, UpOn, Reported, Clients
<1>4. QED
  BY <1>2, <1>3, ReportingFacts

\* A client that connects keeps the types.
LEMMA ClientConnectsTyped ==
  ASSUME Typed, NEW c \in DOMAIN clients, ClientConnects(c)
  PROVE  Grows /\ MovesTyped /\ inCallback' \in BOOLEAN
<1>1. Grows /\ inCallback' \in BOOLEAN
  BY DEF ClientConnects, Grows, Reentrancy
<1>2. Up(c) \in Seq(Attempts') /\ Listen(Up(c), "error") \in Seq(Attempts')
  BY <1>1, UpFacts, LatestTyped DEF Listeners
<1>3. <<>> \in Seq(Items')
  OBVIOUS
<1>4. \/ ToConnected(clients[c].op, Up(c), <<>>)
      \/ ToConnected(clients[c].op, Listen(Up(c), "error"), <<>>)
  BY DEF ClientConnects, Up
<1>5. QED
  BY <1>1, <1>2, <1>3, <1>4, ToConnectedTyped

\* What follows the end of a client keeps the types.
LEMMA EndDoneTyped ==
  ASSUME Typed, NEW end \in ends, EndDone(end)
  PROVE  Grows /\ MovesTyped /\ inCallback' \in BOOLEAN
<1>1. Grows /\ inCallback' \in BOOLEAN
  BY DEF EndDone, Grows, Reentrancy
<1>2. end \in Endings /\ end \in Endings' /\ end \in Ends
  BY <1>1, Widened DEF Typed, Shapes, Endings
<1>3. <<>> \in Seq(Items') /\ clients \in Seq(Attempts')
  BY <1>1, Widened
<1>4. CASE end.then = "disconnected" /\ ends' = ends \ {end}
           /\ ToDisconnected(end.op, end.err, clients, <<>>)
  <2>1. end.err \in BOOLEAN
    BY <1>2 DEF Ends
  <2>2. CASE state = "disconnected"
    <3>1. Stay(<<>>) /\ Quiet /\ clients' = clients /\ wire' = wire /\ subs' = subs
      BY <1>4, <2>2 DEF ToDisconnected
    <3>2. state' \in States /\ queue' \in Seq(Items') /\ agenda' \in Seq(Items')
      BY <1>1, <1>3, <3>1, MachinaTyped
    <3>3. answers' \in [Ops' -> Nat] /\ errorEvents' \in Nat
      BY <1>1, <3>1, QuietFacts, StaysTyped DEF Quiet
    <3>4. ends' \subseteq Endings'
      BY <1>1, <1>4, Widened
    <3>5. QED
      BY <1>1, <3>1, <3>2, <3>3, <3>4, StaysTyped DEF MovesTyped
  <2>3. CASE state # "disconnected"
    <3>1. /\ Goto("disconnected", <<>>) /\ wire' = {} /\ Answer(wire \cup {end.op})
          /\ errorEvents' \in {errorEvents, errorEvents + 1}
          /\ clients' = clients /\ subs' = subs
      BY <1>4, <2>3 DEF ToDisconnected
    <3>2. state' \in States /\ queue' \in Seq(Items') /\ agenda' \in Seq(Items')
      BY <1>1, <1>3, <3>1, MachinaTyped DEF States
    <3>3. answers' \in [Ops' -> Nat] /\ errorEvents' \in Nat
      BY <1>1, <3>1, AnswerFacts, StaysTyped
    <3>4. ends' \subseteq Endings'
      BY <1>1, <1>4, Widened
    <3>5. QED
      BY <1>1, <3>1, <3>2, <3>3, <3>4, StaysTyped DEF MovesTyped
  <2>4. QED
    BY <2>2, <2>3
<1>5. CASE end.then \in {"reconnect", "forced"}
           /\ ends' = ends \ {end}
           /\ clients' = Connecting(IF end.then = "forced" THEN "forced"
                                      ELSE "reconnecting", end.op)
           /\ Stay(<<>>) /\ Quiet /\ SameWire
  <2>1. end.op \in OpsOf({"updateSas"})'
    BY <1>2, <1>5, Zenon DEF Endings
  <2>2. PICK why \in {"forced", "reconnecting"} :
          why = IF end.then = "forced" THEN "forced" ELSE "reconnecting"
    OBVIOUS
  <2>3. clients' \in Seq(Attempts')
    BY <1>1, <1>5, <2>1, <2>2, ConnectingFacts DEF Purposes
  <2>4. state' \in States /\ queue' \in Seq(Items') /\ agenda' \in Seq(Items')
    BY <1>1, <1>3, <1>5, MachinaTyped
  <2>5. answers' \in [Ops' -> Nat] /\ errorEvents' \in Nat
    BY <1>1, <1>5, QuietFacts, StaysTyped DEF Quiet
  <2>6. ends' \subseteq Endings'
    BY <1>1, <1>5, Widened
  <2>7. QED
    BY <1>1, <1>5, <2>3, <2>4, <2>5, <2>6, StaysTyped DEF MovesTyped, SameWire
<1>6. CASE end.then = "switched" /\ ends' = ends \ {end}
           /\ Stay(<<>>) /\ Quiet /\ SameWire /\ UNCHANGED clients
  <2>1. state' \in States /\ queue' \in Seq(Items') /\ agenda' \in Seq(Items')
    BY <1>1, <1>3, <1>6, MachinaTyped
  <2>2. answers' \in [Ops' -> Nat] /\ errorEvents' \in Nat
    BY <1>1, <1>6, QuietFacts, StaysTyped DEF Quiet
  <2>3. ends' \subseteq Endings'
    BY <1>1, <1>6, Widened
  <2>4. QED
    BY <1>1, <1>6, <2>1, <2>2, <2>3, StaysTyped DEF MovesTyped, SameWire
<1>7. QED
  BY <1>1, <1>4, <1>5, <1>6 DEF EndDone

\* What the timer of a renewal replays, and the call of end() it gives up on.
Forced(end) == [kind |-> "forceDisconnect", op |-> end.op]
Switched(end) == [end EXCEPT !.then = "switched"]

\* The timer keeps the types, and what it forces is an input.
LEMMA DisconnectTimeoutTyped ==
  ASSUME Typed, NEW end \in ends, DisconnectTimeout(end)
  PROVE  /\ Grows /\ MovesTyped /\ inCallback' \in BOOLEAN
         /\ end.op \in OpsOf({"updateSas"}) /\ Forced(end) \in Items
         /\ Switched(end) \in Endings /\ Switched(end).then = "switched"
<1>1. Grows /\ inCallback' \in BOOLEAN
  BY DEF DisconnectTimeout, Grows, Typed, TypeOK
<1>2. end \in Endings /\ end \in Ends /\ end.then = "reconnect"
  BY DEF Typed, Shapes, Endings, DisconnectTimeout
<1>3. end.op \in OpsOf({"updateSas"})
  BY <1>2, Zenon DEF Endings
<1>4. Forced(end) \in Items
  <2>1. Forced(end) \in Inputs /\ Forced(end).kind = "forceDisconnect" /\ Forced(end).op = end.op
    BY <1>2 DEF Forced, Inputs, Ends
  <2>2. QED
    BY <1>3, <2>1, Zenon DEF Items
<1>5. Switched(end) \in Endings /\ Switched(end).then = "switched"
  <2>1. /\ Switched(end) \in Ends /\ Switched(end).then = "switched"
        /\ Switched(end).op = end.op
    BY <1>2 DEF Switched, Ends
  <2>2. Switched(end).then # "disconnected"
    BY <2>1
  <2>3. QED
    BY <1>3, <2>1, <2>2, Zenon DEF Endings
<1>6. Items \subseteq Items' /\ Endings \subseteq Endings'
  BY <1>1, Wider DEF Typed, TypeOK
<1>7. agenda' = <<Forced(end)>> /\ ends' = (ends \ {end}) \cup {Switched(end)}
  BY DEF DisconnectTimeout, Forced, Switched
<1>8. agenda' \in Seq(Items')
  BY <1>4, <1>6, <1>7
<1>9. ends' \subseteq Endings'
  BY <1>1, <1>5, <1>6, <1>7, Widened
<1>10. /\ answers' \in [Ops' -> Nat] /\ errorEvents' \in Nat /\ state' \in States
       /\ queue' \in Seq(Items')
  <2>1. UNCHANGED <<answers, errorEvents, state, queue, ops>>
    BY DEF DisconnectTimeout
  <2>2. QED
    BY <1>1, <2>1, Widened DEF Typed, TypeOK, Ops
<1>11. UNCHANGED <<clients, wire, subs>>
  BY DEF DisconnectTimeout
<1>12. QED
  BY <1>1, <1>3, <1>4, <1>5, <1>8, <1>9, <1>10, <1>11, StaysTyped DEF MovesTyped

\* The answers keep the types.
LEMMA WireAnsweredTyped ==
  ASSUME Typed, NEW o, PublishAnswered(o) \/ SubscribeAnswered(o)
  PROVE  Grows /\ MovesTyped /\ inCallback' \in BOOLEAN
<1>1. Grows /\ inCallback' \in BOOLEAN
  BY DEF PublishAnswered, SubscribeAnswered, Grows, Typed, TypeOK
<1>2. /\ Answer({o}) /\ UNCHANGED <<state, queue, agenda, clients, ends, errorEvents>>
      /\ wire' \subseteq wire /\ subs' \subseteq subs
  BY DEF PublishAnswered, SubscribeAnswered
<1>3. answers' \in [Ops' -> Nat]
  BY <1>1, <1>2, AnswerFacts
<1>4. wire' \subseteq OpsOf({"publish"})' /\ subs' \subseteq OpsOf({"subscribe"})'
  BY <1>1, <1>2, Widened
<1>5. state' \in States /\ errorEvents' \in Nat
  BY <1>2 DEF Typed, TypeOK
<1>6. /\ queue' \in Seq(Items') /\ agenda' \in Seq(Items')
      /\ clients' \in Seq(Attempts') /\ ends' \subseteq Endings'
  BY <1>1, <1>2, Widened
<1>7. QED
  BY <1>1, <1>3, <1>4, <1>5, <1>6 DEF MovesTyped

\* No state has been entered, and no callback is kept.
LEMMA TypedInit == Init => Typed
<1>1. ASSUME Init
      PROVE  Typed
  <2>1. /\ <<>> \in Seq(Items) /\ <<>> \in Seq(Attempts) /\ <<>> \in Seq(Inputs)
        /\ <<>> \in Seq(Clients) /\ <<>> \in Seq(AllKinds)
    OBVIOUS
  <2>2. Shapes
    BY <1>1, <2>1 DEF Init, Shapes
  <2>3. Ops = {}
    BY <1>1 DEF Init, Ops
  <2>4. answers \in [Ops -> Nat]
    BY <1>1, <2>3 DEF Init
  <2>5. TypeOK
    BY <1>1, <2>1, <2>4 DEF Init, TypeOK, States
  <2>6. QED
    BY <2>2, <2>5 DEF Typed
<1>2. QED
  BY <1>1

\* The calls and the steps, one by one.
LEMMA Steps ==
  ASSUME Next
  PROVE  /\ ~crashed
         /\ \/ \E kind \in AllKinds : Call(kind) /\ UNCHANGED <<crashed, haunted>>
            \/ \E c \in DOMAIN clients :
                 \/ ClientErrors(c) \/ ClientCloses(c) \/ StaleCloses(c)
                 \/ ClientConnects(c) /\ UNCHANGED <<crashed, haunted>>
            \/ Replay /\ UNCHANGED <<crashed, haunted>>
            \/ \E end \in ends : EndDone(end) /\ UNCHANGED <<crashed, haunted>>
            \/ \E end \in ends : DisconnectTimeout(end) /\ UNCHANGED <<crashed, haunted>>
            \/ \E o \in wire : PublishAnswered(o) /\ UNCHANGED <<crashed, haunted>>
            \/ \E o \in subs : SubscribeAnswered(o) /\ UNCHANGED <<crashed, haunted>>
BY MqttBaseAssumption DEF Next, User, System, Attempt, outcome

\* Every step keeps the types.
LEMMA TypedStep ==
  ASSUME Typed, [Next]_vars
  PROVE  Typed'
<1>1. CASE UNCHANGED vars
  BY <1>1 DEF vars, Typed, TypeOK, Shapes, Ops, Items, Attempts, Endings, OpsOf
<1>2. ASSUME NEW kind \in AllKinds, Call(kind), UNCHANGED <<crashed, haunted>>
      PROVE  Typed'
  <2>1. ops' = Append(ops, kind) /\ handle(Input(kind), agenda)
    BY <1>2 DEF Call, Input
  <2>2. Grows /\ Input(kind) \in Items' /\ agenda \in Seq(Items')
    BY <2>1, CallFacts, Widened
  <2>3. MovesTyped
    BY <2>1, <2>2, HandleTyped
  <2>4. inCallback' \in BOOLEAN /\ crashed' \in BOOLEAN /\ haunted' \in BOOLEAN
    BY <1>2 DEF Call, Reentrancy, Typed, TypeOK
  <2>5. QED
    BY <2>2, <2>3, <2>4, TypedParts
<1>3. ASSUME NEW c \in DOMAIN clients,
             \/ ClientErrors(c) \/ ClientCloses(c) \/ StaleCloses(c)
             \/ ClientConnects(c) /\ UNCHANGED <<crashed, haunted>>
      PROVE  Typed'
  <2>1. CASE ClientErrors(c)
    <3>1. PICK phase \in {"failed", "stale"} : Report(c, phase, "error", "errorEvent")
      BY <2>1 DEF ClientErrors
    <3>2. crashed' \in BOOLEAN /\ haunted' \in BOOLEAN
      BY <2>1 DEF ClientErrors, Typed, TypeOK
    <3>3. QED
      BY <3>1, <3>2, ReportTyped, TypedParts DEF Events
  <2>2. CASE ClientCloses(c) \/ StaleCloses(c)
    <3>1. Report(c, "closed", "close", "closeEvent")
      BY <2>2 DEF ClientCloses, StaleCloses
    <3>2. crashed' \in BOOLEAN /\ haunted' \in BOOLEAN
      BY <2>2 DEF ClientCloses, StaleCloses, outcome, Typed, TypeOK
    <3>3. QED
      BY <3>1, <3>2, ReportTyped, TypedParts DEF Events
  <2>3. CASE ClientConnects(c) /\ UNCHANGED <<crashed, haunted>>
    BY <2>3, ClientConnectsTyped, TypedParts DEF Typed, TypeOK
  <2>4. QED
    BY <1>3, <2>1, <2>2, <2>3
<1>4. CASE Replay /\ UNCHANGED <<crashed, haunted>>
  <2>1. Grows /\ agenda # <<>> /\ handle(Head(agenda), Tail(agenda))
    BY <1>4 DEF Replay, Idle, Grows
  <2>2. Head(agenda) \in Items' /\ Tail(agenda) \in Seq(Items')
    BY <2>1, ReplayFacts
  <2>3. MovesTyped
    BY <2>1, <2>2, HandleTyped
  <2>4. inCallback' \in BOOLEAN /\ crashed' \in BOOLEAN /\ haunted' \in BOOLEAN
    BY <1>4 DEF Replay, Reentrancy, Typed, TypeOK
  <2>5. QED
    BY <2>1, <2>3, <2>4, TypedParts
<1>5. ASSUME NEW end \in ends, EndDone(end) \/ DisconnectTimeout(end), UNCHANGED <<crashed, haunted>>
      PROVE  Typed'
  BY <1>5, EndDoneTyped, DisconnectTimeoutTyped, TypedParts DEF Typed, TypeOK
<1>6. ASSUME NEW o, PublishAnswered(o) \/ SubscribeAnswered(o), UNCHANGED <<crashed, haunted>>
      PROVE  Typed'
  BY <1>6, WireAnsweredTyped, TypedParts DEF Typed, TypeOK
<1>7. CASE Next
  BY <1>2, <1>3, <1>4, <1>5, <1>6, <1>7, Steps
<1>8. QED
  BY <1>1, <1>7

\* The types hold always.
LEMMA TypedInvariant == Spec => []Typed
BY TypedInit, TypedStep, PTL DEF Spec

-----------------------------------------------------------------------------
(* The loss of a connection.                                               *)

Reports ==
  \/ \E o \in Ops \ wire : answers'[o] > answers[o]
  \/ errorEvents' > errorEvents
Loss == state # "disconnected" /\ state' = "disconnected"

\* Entering disconnected calls the callback given, or reports the error.
LEMMA DisconnectedReports ==
  ASSUME Typed, Grows, NEW op, NEW err, NEW cs, NEW rest,
         ToDisconnected(op, err, cs, rest),
         op \in Ops \ wire \/ (op = NoOp /\ err)
  PROVE  Loss => Reports
<1> SUFFICES ASSUME Loss PROVE Reports
  OBVIOUS
<1>1. /\ Answer(wire \cup {op})
      /\ errorEvents' = IF op = NoOp /\ err THEN errorEvents + 1 ELSE errorEvents
  BY DEF ToDisconnected, Loss
<1>2. CASE op \in Ops \ wire
  <2>1. Ops \subseteq Ops'
    BY GrowsFacts DEF Typed, TypeOK
  <2>2. Told(op) \in Nat /\ Told(op)' = Told(op) + One(op, wire \cup {op})
    BY <1>1, <1>2, <2>1, AnswerFacts
  <2>3. One(op, wire \cup {op}) = 1
    BY DEF One
  <2>4. Told(op) = answers[op]
    BY <1>2 DEF Told, Typed, TypeOK
  <2>5. Told(op)' = answers'[op]
    <3>1. answers' \in [Ops' -> Nat]
      BY <1>1, AnswerFacts
    <3>2. QED
      BY <1>2, <2>1, <3>1 DEF Told
  <2>6. answers'[op] > answers[op]
    BY <2>2, <2>3, <2>4, <2>5
  <2>7. QED
    BY <1>2, <2>6 DEF Reports
<1>3. CASE op = NoOp /\ err
  <2>1. errorEvents \in Nat /\ errorEvents' = errorEvents + 1
    BY <1>1, <1>3 DEF Typed, TypeOK
  <2>2. QED
    BY <2>1 DEF Reports
<1>4. QED
  BY <1>2, <1>3

\* The handlers enter it for the close of the connection only.
LEMMA HandleReports ==
  ASSUME Typed, Grows, NEW input, NEW rest, handle(input, rest)
  PROVE  Loss => Reports
<1>1. ToDisconnected(NoOp, TRUE, clients, rest) => (Loss => Reports)
  BY DisconnectedReports
<1>2. \A op, err, cs : ToDisconnecting(op, err, cs, rest) => ~Loss
  BY DEF ToDisconnecting, Goto, Stay, Loss
<1>3. \A s : s # "disconnected" /\ Goto(s, rest) => ~Loss
  BY DEF Goto, Loss
<1>4. (Stay(rest) => ~Loss) /\ (deferUntilTransition(input, rest) => ~Loss)
  BY DEF Stay, deferUntilTransition, Loss
<1>5. CASE input.kind = "errorEvent"
  BY <1>2, <1>5 DEF handle
<1>6. CASE HandleDisconnected(input, rest)
  BY <1>6 DEF HandleDisconnected, Loss
<1>7. CASE HandleConnecting(input, rest)
  BY <1>2, <1>4, <1>7 DEF HandleConnecting
<1>8. CASE HandleConnected(input, rest)
  BY <1>1, <1>2, <1>3, <1>4, <1>8 DEF HandleConnected
<1>9. CASE HandleDisconnecting(input, rest)
  BY <1>4, <1>9 DEF HandleDisconnecting
<1>10. CASE HandleReconnecting(input, rest)
  BY <1>4, <1>10 DEF HandleReconnecting
<1>11. QED
  BY <1>5, <1>6, <1>7, <1>8, <1>9, <1>10 DEF handle

\* A client whose attempt failed was made for a call that is not on the wire.
LEMMA OwnersOffWire ==
  ASSUME Typed
  PROVE  /\ \A c \in DOMAIN clients : clients[c].op \in Ops \ wire
         /\ \A end \in ends : \/ end.op \in Ops \ wire
                              \/ end.then = "disconnected" /\ end.op = NoOp /\ end.err
<1>1. wire \subseteq OpsOf({"publish"})
  BY DEF Typed, Shapes
<1>2. \A o : \A kinds \in {{"connect"}, {"updateSas"}, {"connect", "disconnect"}} :
        o \in OpsOf(kinds) => o \in Ops \ wire
  BY <1>1 DEF OpsOf
<1>3. ASSUME NEW c \in DOMAIN clients
      PROVE  clients[c].op \in Ops \ wire
  <2>1. clients[c] \in Attempts
    BY LenProperties, ElementOfSeq DEF Typed, Shapes
  <2>2. CASE clients[c].for = "connecting"
    <3>1. clients[c].op \in OpsOf({"connect"})
      BY <2>1, <2>2, Zenon DEF Attempts
    <3>2. QED
      BY <1>2, <3>1
  <2>3. CASE clients[c].for # "connecting"
    <3>1. clients[c].op \in OpsOf({"updateSas"})
      BY <2>1, <2>3, Zenon DEF Attempts
    <3>2. QED
      BY <1>2, <3>1
  <2>4. QED
    BY <2>2, <2>3
<1>4. ASSUME NEW end \in ends
      PROVE  \/ end.op \in Ops \ wire
             \/ end.then = "disconnected" /\ end.op = NoOp /\ end.err
  <2>1. end \in Endings
    BY DEF Typed, Shapes
  <2>2. CASE end.then = "disconnected"
    <3>1. \/ end.op \in OpsOf({"connect", "disconnect"})
          \/ end.op = NoOp /\ end.err
      BY <2>1, <2>2, Zenon DEF Endings
    <3>2. QED
      BY <1>2, <2>2, <3>1
  <2>3. CASE end.then # "disconnected"
    <3>1. end.op \in OpsOf({"updateSas"})
      BY <2>1, <2>3, Zenon DEF Endings
    <3>2. QED
      BY <1>2, <3>1
  <2>4. QED
    BY <2>2, <2>3
<1>5. QED
  BY <1>3, <1>4

\* No step takes the state machine to disconnected without a report.
LEMMA LossStep ==
  ASSUME Typed, [Next]_vars
  PROVE  Loss => Reports
<1>1. CASE UNCHANGED vars
  BY <1>1 DEF vars, Loss
<1>2. ASSUME NEW kind \in AllKinds, Call(kind)
      PROVE  Loss => Reports
  <2>1. ops' = Append(ops, kind) /\ handle(Input(kind), agenda)
    BY <1>2 DEF Call, Input
  <2>2. QED
    BY <2>1, HandleReports DEF Grows
<1>3. ASSUME NEW c \in DOMAIN clients, NEW phase, NEW listener, NEW event,
             Report(c, phase, listener, event)
      PROVE  Loss => Reports
  <2>1. Grows
    BY <1>3 DEF Report, Grows
  <2>2. ASSUME NEW cs, NEW rest, AttemptFailed(c, cs, rest)
        PROVE  Loss => Reports
    <3>1. CASE ToDisconnecting(clients[c].op, TRUE, cs, rest)
      BY <3>1 DEF ToDisconnecting, Goto, Stay, Loss
    <3>2. CASE ToDisconnected(clients[c].op, TRUE, cs, rest)
      BY <2>1, <3>2, DisconnectedReports, OwnersOffWire
    <3>3. QED
      BY <2>2, <3>1, <3>2 DEF AttemptFailed
  <2>3. QED
    BY <1>3, <2>2 DEF Report, Loss
<1>4. ASSUME NEW c \in DOMAIN clients, ClientConnects(c)
      PROVE  Loss => Reports
  BY <1>4 DEF ClientConnects, ToConnected, Goto, Stay, Loss
<1>5. CASE Replay
  BY <1>5, HandleReports DEF Replay, Grows
<1>6. ASSUME NEW end \in ends, EndDone(end)
      PROVE  Loss => Reports
  <2>1. Grows
    BY <1>6 DEF EndDone, Grows
  <2>2. CASE ToDisconnected(end.op, end.err, clients, <<>>)
    BY <2>1, <2>2, DisconnectedReports, OwnersOffWire
  <2>3. CASE Stay(<<>>)
    BY <2>3 DEF Stay, Loss
  <2>4. QED
    BY <1>6, <2>2, <2>3 DEF EndDone
<1>7. ASSUME NEW end \in ends, DisconnectTimeout(end)
      PROVE  Loss => Reports
  BY <1>7 DEF DisconnectTimeout, Loss
<1>8. ASSUME NEW o, PublishAnswered(o) \/ SubscribeAnswered(o)
      PROVE  Loss => Reports
  BY <1>8 DEF PublishAnswered, SubscribeAnswered, Loss
<1>9. CASE Next
  BY <1>2, <1>3, <1>4, <1>5, <1>6, <1>7, <1>8, <1>9, Steps DEF ClientErrors, ClientCloses,
     StaleCloses
<1>10. QED
  BY <1>1, <1>9

\* Whenever the connection goes down someone above is told, also where a stale
\* client takes it down.
THEOREM LossIsReported == Spec => LossReported
<1>1. Typed /\ [Next]_vars
        => [state # "disconnected" /\ state' = "disconnected"
              => \/ \E o \in Ops \ wire : answers'[o] > answers[o]
                 \/ errorEvents' > errorEvents]_vars
  BY LossStep DEF Loss, Reports
<1>2. QED
  BY <1>1, TypedInvariant, PTL DEF Spec, LossReported

-----------------------------------------------------------------------------
(* What the state says of the clients and of the calls of end().           *)

\* Whether all that is replayed are calls.
LEMMA CallsFacts ==
  ASSUME NEW s \in Seq(Inputs)
  PROVE  /\ Calls(<<>>)
         /\ \A t \in Seq(Inputs) : Calls(s \o t) <=> Calls(s) /\ Calls(t)
         /\ \A e \in Inputs : Calls(Append(s, e)) <=> Calls(s) /\ e.kind \in AllKinds
         /\ s # <<>> /\ Calls(s) => Head(s).kind \in AllKinds /\ Calls(Tail(s))
<1>1. Calls(<<>>)
  BY HasOne DEF Calls
<1>2. \A t \in Seq(Inputs) : Calls(s \o t) <=> Calls(s) /\ Calls(t)
  BY HasConcat DEF Calls
<1>3. ASSUME NEW e \in Inputs
      PROVE  Calls(Append(s, e)) <=> Calls(s) /\ e.kind \in AllKinds
  <2>1. <<e>> \in Seq(Inputs)
    OBVIOUS
  <2>2. Append(s, e) = s \o <<e>>
    BY AppendIsConcat, Zenon
  <2>3. Calls(s \o <<e>>) <=> Calls(s) /\ Calls(<<e>>)
    BY <1>2, <2>1
  <2>4. Calls(<<e>>) <=> e.kind \in AllKinds
    BY HasOne DEF Calls, Notices
  <2>5. QED
    BY <2>2, <2>3, <2>4, Zenon
<1>4. ASSUME s # <<>>, Calls(s)
      PROVE  Head(s).kind \in AllKinds /\ Calls(Tail(s))
  <2>1. Has(s, Notices) <=> Head(s) \in Notices \/ Has(Tail(s), Notices)
    BY <1>4, HasHeadTail
  <2>2. Head(s) \in Inputs
    BY <1>4, HeadTailProperties
  <2>3. QED
    BY <1>4, <2>1, <2>2 DEF Calls, Notices
<1>5. QED
  BY <1>1, <1>2, <1>3, <1>4

\* What is done to the latest client leaves the older ones over.
LEMMA OlderFacts ==
  ASSUME NEW cs \in Seq(Clients), cs # <<>>, Older(cs)
  PROVE  /\ Len(cs) \in DOMAIN cs /\ cs[Len(cs)] \in Clients
         /\ Older(EndLast(cs)) /\ EndLast(cs) # <<>> /\ EndLast(cs) \in Seq(Clients)
         /\ EndLast(cs)[Len(EndLast(cs))] = Ended(cs[Len(cs)])
         /\ cs[Len(cs)].phase # "stale" => \A listener \in Listeners :
              /\ Older(Listen(cs, listener)) /\ Listen(cs, listener) # <<>>
              /\ Listen(cs, listener) \in Seq(Clients)
              /\ Listen(cs, listener)[Len(Listen(cs, listener))]
                   = Listened(cs[Len(cs)], listener)
<1>1. /\ Len(cs) \in Nat \ {0} /\ DOMAIN cs = 1..Len(cs) /\ Len(cs) \in 1..Len(cs)
      /\ EndLast(cs) = [cs EXCEPT ![Len(cs)] = Ended(cs[Len(cs)])]
      /\ \A listener : Listen(cs, listener)
                         = [cs EXCEPT ![Len(cs)] = Listened(cs[Len(cs)], listener)]
  BY LatestFacts
<1>2. cs[Len(cs)] \in Clients
  BY <1>1, ElementOfSeq
<1>3. ASSUME NEW e \in Clients, NEW ds, ds = [cs EXCEPT ![Len(cs)] = e],
             e.phase # "stale"
      PROVE  /\ Older(ds) /\ ds # <<>> /\ ds \in Seq(Clients) /\ ds[Len(ds)] = e
  <2>1. PICK n \in Nat : n = Len(cs)
    BY <1>1
  <2>2. /\ ds \in Seq(Clients) /\ Len(ds) = n
        /\ \A j \in 1..n : ds[j] = IF j = n THEN e ELSE cs[j]
    BY <1>1, <1>3, <2>1, ExceptSeq
  <2>3. DOMAIN ds = 1..n /\ n \in 1..n
    BY <1>1, <2>1, <2>2, LenProperties
  <2>4. ds[Len(ds)] = e
    BY <2>2, <2>3
  <2>5. Older(ds)
    BY <1>1, <1>3, <2>1, <2>2, <2>3 DEF Older
  <2>6. ds # <<>>
    BY <1>1, <2>1, <2>2
  <2>7. QED
    BY <2>2, <2>4, <2>5, <2>6
<1>4. /\ Ended(cs[Len(cs)]) \in Clients /\ Ended(cs[Len(cs)]).phase # "stale"
      /\ \A listener \in Listeners :
           /\ Listened(cs[Len(cs)], listener) \in Clients
           /\ Listened(cs[Len(cs)], listener).phase = cs[Len(cs)].phase
  BY <1>2, ClientFacts
<1>5. /\ Older(EndLast(cs)) /\ EndLast(cs) # <<>> /\ EndLast(cs) \in Seq(Clients)
      /\ EndLast(cs)[Len(EndLast(cs))] = Ended(cs[Len(cs)])
  BY <1>1, <1>3, <1>4, Zenon
<1>6. ASSUME cs[Len(cs)].phase # "stale", NEW listener \in Listeners
      PROVE  /\ Older(Listen(cs, listener)) /\ Listen(cs, listener) # <<>>
             /\ Listen(cs, listener) \in Seq(Clients)
             /\ Listen(cs, listener)[Len(Listen(cs, listener))]
                  = Listened(cs[Len(cs)], listener)
  <2>1. Listen(cs, listener)
          = [cs EXCEPT ![Len(cs)] = Listened(cs[Len(cs)], listener)]
    BY <1>1
  <2>2. /\ Listened(cs[Len(cs)], listener) \in Clients
        /\ Listened(cs[Len(cs)], listener).phase # "stale"
    BY <1>4, <1>6
  <2>3. QED
    BY <1>3, <2>1, <2>2, Zenon
<1>7. QED
  BY <1>1, <1>2, <1>5, <1>6

\* A new client comes when the latest is over.
LEMMA FreshFacts ==
  ASSUME clients \in Seq(Clients), Older(clients), LastOver, NEW e \in Clients,
         e.phase # "stale"
  PROVE  /\ Older(Append(clients, e)) /\ Append(clients, e) # <<>>
         /\ Append(clients, e)[Len(Append(clients, e))] = e
<1>1. /\ Append(clients, e) \in Seq(Clients) /\ Len(clients) \in Nat
      /\ Len(Append(clients, e)) = Len(clients) + 1
      /\ \A i \in 1..Len(clients) : Append(clients, e)[i] = clients[i]
      /\ Append(clients, e)[Len(clients) + 1] = e
      /\ DOMAIN clients = 1..Len(clients)
      /\ DOMAIN Append(clients, e) = 1..(Len(clients) + 1)
  BY AppendProperties, LenProperties
<1>2. \A i \in 1..Len(clients) : clients[i].phase \in Over
  <2>1. CASE clients = <<>>
    BY <2>1
  <2>2. CASE clients # <<>>
    BY <1>1, <2>2 DEF LastOver, Latest, Older
  <2>3. QED
    BY <2>1, <2>2
<1>3. Older(Append(clients, e))
  BY <1>1, <1>2 DEF Older
<1>4. QED
  BY <1>1, <1>3

\* What holds after a step that leaves nothing but calls to replay.
CalmNext ==
  Older(clients') /\ Calls(queue') /\ Calls(agenda') /\ Settled'

\* Then the control holds.
LEMMA CalmControl ==
  ASSUME CalmNext, ~crashed', inCallback' => agenda' # <<>>
  PROVE  Control'
<1>1. Older(clients)' /\ Calls(queue)' /\ Calls(agenda)'
  BY DEF CalmNext, Older, Calls, Notices, Over, Has
<1>2. QED
  BY <1>1 DEF CalmNext, Control, Idle

\* The state, the clients and the calls of end() are what they were.
LEMMA SameSettled ==
  ASSUME Settled, UNCHANGED <<state, clients, ends>>
  PROVE  Settled'
BY DEF Settled, Active, LastOver, Latest, Opening, Connection, LastEnded, Ending, Over

\* A transition replays calls if what is deferred and what is left to do are calls.
LEMMA CallsMove ==
  ASSUME Typed, Calls(queue), NEW rest \in Seq(Inputs), Calls(rest)
  PROVE  /\ \A s : Goto(s, rest) => Calls(queue') /\ Calls(agenda')
         /\ Stay(rest) => Calls(queue') /\ Calls(agenda')
         /\ \A input \in Inputs :
              input.kind \in AllKinds /\ deferUntilTransition(input, rest)
                => Calls(queue') /\ Calls(agenda')
<1>1. queue \in Seq(Inputs)
  BY DEF Typed, TypeOK
<1>2. Calls(queue \o rest) /\ Calls(<<>>)
  BY <1>1, CallsFacts
<1>3. \A input \in Inputs : input.kind \in AllKinds => Calls(Append(queue, input))
  BY <1>1, CallsFacts
<1>4. QED
  BY <1>2, <1>3 DEF Goto, Stay, deferUntilTransition

\* The transitions that are made from another state.
LEMMA ToDisconnectingCalm ==
  ASSUME Typed, Calls(queue), NEW rest \in Seq(Inputs), Calls(rest),
         NEW op, NEW err, NEW cs \in Seq(Clients), cs # <<>>, Older(cs),
         Active = {}, state # "disconnecting", ToDisconnecting(op, err, cs, rest)
  PROVE  CalmNext
<1>1. /\ Goto("disconnecting", rest) /\ clients' = EndLast(cs)
      /\ ends' = ends \cup {LastEnd(op, err)}
  BY DEF ToDisconnecting, LastEnd
<1>2. Calls(queue') /\ Calls(agenda') /\ state' = "disconnecting"
  BY <1>1, CallsMove DEF Goto
<1>3. /\ Older(clients') /\ clients' # <<>> /\ clients'[Len(clients')] = Ended(cs[Len(cs)])
      /\ cs[Len(cs)] \in Clients
  BY <1>1, OlderFacts
<1>4. Ended(cs[Len(cs)]).phase \in {"aborted", "ended"}
  BY <1>3, ClientFacts
<1>5. LastOver'
  BY <1>3, <1>4 DEF LastOver, Latest, Over
<1>6. Active' = {LastEnd(op, err)} /\ LastEnd(op, err).then = "disconnected"
  BY <1>1 DEF Active, LastEnd
<1>7. Ending({"disconnected"})'
  BY <1>6 DEF Ending
<1>8. Settled'
  BY <1>2, <1>5, <1>7 DEF Settled
<1>9. QED
  BY <1>2, <1>3, <1>8 DEF CalmNext

\* So does the transition to disconnected from another state.
LEMMA ToDisconnectedCalm ==
  ASSUME Typed, Calls(queue), NEW rest \in Seq(Inputs), Calls(rest),
         NEW op, NEW err, NEW cs \in Seq(Clients), cs # <<>> => cs[Len(cs)].phase \in Over,
         Older(cs), Active' = {}, state # "disconnected",
         ToDisconnected(op, err, cs, rest)
  PROVE  CalmNext
<1>1. Goto("disconnected", rest) /\ clients' = cs
  BY DEF ToDisconnected
<1>2. Calls(queue') /\ Calls(agenda') /\ state' = "disconnected"
  BY <1>1, CallsMove DEF Goto
<1>3. Older(clients') /\ LastOver'
  BY <1>1 DEF LastOver, Latest, Over
<1>4. Settled'
  BY <1>2, <1>3 DEF Settled
<1>5. QED
  BY <1>2, <1>3, <1>4 DEF CalmNext

\* So does the one to connected of a client that is.
LEMMA ToConnectedCalm ==
  ASSUME Typed, Calls(queue), NEW rest \in Seq(Inputs), Calls(rest),
         NEW op, NEW cs \in Seq(Clients), cs # <<>>, Older(cs), Active = {},
         cs[Len(cs)].phase = "up", cs[Len(cs)].on \cap {"opening", "null"} = {},
         cs[Len(cs)].for # "forced" => "error" \in cs[Len(cs)].on,
         state # "connected", ToConnected(op, cs, rest)
  PROVE  CalmNext
<1>1. Goto("connected", rest) /\ clients' = Listen(cs, "close") /\ ends' = ends
  BY DEF ToConnected
<1>2. Calls(queue') /\ Calls(agenda') /\ state' = "connected"
  BY <1>1, CallsMove DEF Goto
<1>3. /\ Older(clients') /\ clients' # <<>>
      /\ clients'[Len(clients')] = Listened(cs[Len(cs)], "close")
      /\ cs[Len(cs)] \in Clients
  BY <1>1, OlderFacts DEF Listeners
<1>4. PICK c \in Clients : c = cs[Len(cs)]
  BY <1>3
<1>5. /\ Listened(c, "close").on = c.on \cup {"close"}
      /\ Listened(c, "close").phase = c.phase /\ Listened(c, "close").for = c.for
  BY ClientFacts DEF Listeners
<1>6. Latest' = Listened(c, "close")
  BY <1>3, <1>4 DEF Latest
<1>7. Connection'
  BY <1>3, <1>4, <1>5, <1>6 DEF Connection
<1>8. Active' = {}
  BY <1>1 DEF Active
<1>9. Settled'
  BY <1>2, <1>7, <1>8 DEF Settled
<1>10. QED
  BY <1>2, <1>3, <1>9 DEF CalmNext

\* A new client that seeks a connection.
LEMMA ConnectingCalm ==
  ASSUME Typed, Older(clients), LastOver, NEW why \in Purposes, NEW op \in Nat,
         clients' = Connecting(why, op)
  PROVE  Older(clients') /\ Opening({why})'
<1>1. /\ clients' = Append(clients, Fresh(why, op)) /\ Fresh(why, op) \in Clients
      /\ Fresh(why, op).phase # "stale"
  BY DEF Connecting, Fresh, Clients, Listeners
<1>2. clients \in Seq(Clients)
  BY DEF Typed, TypeOK
<1>3. Older(clients') /\ clients' # <<>> /\ Latest' = Fresh(why, op)
  BY <1>1, <1>2, FreshFacts DEF Latest
<1>4. QED
  BY <1>3 DEF Opening, Fresh

\* A call, made now or replayed, is handled as the state promises.
LEMMA HandleCalm ==
  ASSUME Typed, Settled, Older(clients), Calls(queue),
         NEW input \in Inputs, input.kind \in AllKinds,
         NEW rest \in Seq(Inputs), Calls(rest), handle(input, rest)
  PROVE  CalmNext
<1>1. clients \in Seq(Clients) /\ input.op \in Nat /\ input.kind # "errorEvent"
      /\ input.kind \notin {"closeEvent", "forceDisconnect"}
  BY DEF Typed, TypeOK, Inputs, AllKinds
<1>2. /\ \A s : Goto(s, rest) => Calls(queue') /\ Calls(agenda') /\ state' = s
      /\ Stay(rest) => Calls(queue') /\ Calls(agenda') /\ state' = state
      /\ deferUntilTransition(input, rest)
           => Calls(queue') /\ Calls(agenda') /\ state' = state
  BY CallsMove DEF Goto, Stay, deferUntilTransition
<1>3. ASSUME Stay(rest) \/ deferUntilTransition(input, rest), UNCHANGED <<clients, ends>>
      PROVE  CalmNext
  BY <1>2, <1>3, SameSettled DEF CalmNext
<1>4. ASSUME state \in {"connecting", "connected"},
             ToDisconnecting(input.op, FALSE, clients, rest)
      PROVE  CalmNext
  <2>1. clients # <<>> /\ Active = {}
    BY <1>4 DEF Settled, Opening, Connection
  <2>2. QED
    BY <1>1, <1>4, <2>1, ToDisconnectingCalm
<1>5. CASE HandleDisconnected(input, rest)
  <2>1. state = "disconnected" /\ ends' = ends /\ LastOver /\ Active = {}
    BY <1>5 DEF HandleDisconnected, Settled
  <2>2. CASE Goto("connecting", rest) /\ clients' = Connecting("connecting", input.op)
    <3>1. Older(clients') /\ Opening({"connecting"})'
      BY <1>1, <2>1, <2>2, ConnectingCalm DEF Purposes
    <3>2. Active' = {}
      BY <2>1 DEF Active
    <3>3. Settled'
      BY <1>2, <2>2, <3>1, <3>2 DEF Settled
    <3>4. QED
      BY <1>2, <2>2, <3>1, <3>3 DEF CalmNext
  <2>3. CASE Stay(rest) /\ clients' = clients
    BY <1>3, <2>1, <2>3
  <2>4. QED
    BY <1>5, <2>2, <2>3 DEF HandleDisconnected
<1>6. CASE HandleConnecting(input, rest)
  BY <1>3, <1>4, <1>6 DEF HandleConnecting
<1>7. CASE HandleConnected(input, rest)
  <2>1. state = "connected" /\ Connection /\ Active = {}
    BY <1>7 DEF HandleConnected, Settled
  <2>2. CASE /\ Goto("reconnecting", rest) /\ clients' = EndLast(clients)
             /\ ends' = ends \cup {Renewal("reconnect", input.op)}
    <3>1. clients # <<>> /\ Latest.phase = "up"
      BY <2>1 DEF Connection
    <3>2. /\ Older(clients') /\ clients' # <<>> /\ Latest' = Ended(Latest)
          /\ Latest \in Clients
      BY <1>1, <2>2, <3>1, OlderFacts DEF Latest
    <3>3. LastEnded'
      BY <3>1, <3>2, ClientFacts DEF LastEnded
    <3>4. Active' = {Renewal("reconnect", input.op)}
      BY <2>1, <2>2 DEF Active, Renewal
    <3>5. Ending({"reconnect", "forced"})'
      BY <3>4 DEF Ending, Renewal
    <3>6. Settled'
      BY <1>2, <2>2, <3>3, <3>5 DEF Settled
    <3>7. QED
      BY <1>2, <2>2, <3>2, <3>6 DEF CalmNext
  <2>3. CASE ToDisconnecting(input.op, FALSE, clients, rest)
    BY <1>4, <2>1, <2>3
  <2>4. CASE Stay(rest) /\ UNCHANGED <<clients, ends>>
    BY <1>3, <2>4
  <2>5. QED
    BY <1>1, <1>7, <2>2, <2>3, <2>4 DEF HandleConnected, Renewal
<1>8. CASE HandleDisconnecting(input, rest)
  BY <1>3, <1>8 DEF HandleDisconnecting
<1>9. CASE HandleReconnecting(input, rest)
  BY <1>1, <1>3, <1>9 DEF HandleReconnecting
<1>10. QED
  BY <1>1, <1>5, <1>6, <1>7, <1>8, <1>9 DEF handle

\* When nothing is left to do no notice is.
LEMMA IdleSettled ==
  ASSUME Control, ~crashed, Idle \/ inCallback
  PROVE  Calls(agenda) /\ Settled /\ Older(clients) /\ Calls(queue)
BY DEF Control, Lost, Overdue, Alone, Idle

\* A call, by the event loop or inside a callback.
LEMMA CallControl ==
  ASSUME Typed, Control, ~crashed, UNCHANGED crashed, NEW kind \in AllKinds, Call(kind)
  PROVE  Control'
<1>1. Calls(agenda) /\ Settled /\ Older(clients) /\ Calls(queue)
  BY IdleSettled DEF Call
<1>2. /\ handle(Input(kind), agenda) /\ ops' = Append(ops, kind)
      /\ inCallback' => agenda' # <<>>
  BY DEF Call, Input, Reentrancy
<1>3. Input(kind) \in Inputs /\ Input(kind).kind \in AllKinds /\ agenda \in Seq(Inputs)
  BY <1>2, CallFacts DEF Items, Typed, TypeOK
<1>4. CalmNext
  BY <1>1, <1>2, <1>3, HandleCalm
<1>5. QED
  BY <1>2, <1>4, CalmControl

\* The replay of a call, or of what the code reported.
LEMMA ReplayControl ==
  ASSUME Typed, Control, ~crashed, UNCHANGED crashed, Replay
  PROVE  Control'
<1>1. /\ agenda # <<>> /\ handle(Head(agenda), Tail(agenda))
      /\ inCallback' => agenda' # <<>>
  BY DEF Replay, Idle, Reentrancy
<1>2. agenda \in Seq(Inputs) /\ clients \in Seq(Clients)
  BY DEF Typed, TypeOK
<1>3. Head(agenda) \in Inputs /\ Tail(agenda) \in Seq(Inputs)
  BY <1>1, <1>2, HeadTailProperties
<1>4. Older(clients) /\ Calls(queue) /\ Calls(<<>>) /\ <<>> \in Seq(Inputs)
  BY <1>2, CallsFacts DEF Control
<1>5. CASE Calls(agenda) /\ Settled
  <2>1. Head(agenda).kind \in AllKinds /\ Calls(Tail(agenda))
    BY <1>1, <1>2, <1>5, CallsFacts
  <2>2. CalmNext
    BY <1>1, <1>3, <1>4, <1>5, <2>1, HandleCalm
  <2>3. QED
    BY <1>1, <2>2, CalmControl
<1>6. CASE Lost
  <2>1. state = "connected" /\ Active = {} /\ clients # <<>> /\ Tail(agenda) = <<>>
    BY <1>6 DEF Lost, Alone
  <2>2. CASE Head(agenda).kind = "errorEvent"
    <3>1. ToDisconnecting(NoOp, TRUE, clients, <<>>)
      BY <1>1, <2>1, <2>2 DEF handle
    <3>2. CalmNext
      BY <1>2, <1>4, <2>1, <3>1, ToDisconnectingCalm
    <3>3. QED
      BY <1>1, <3>2, CalmControl
  <2>3. CASE Head(agenda).kind = "closeEvent" /\ Latest.phase = "closed"
    <3>1. HandleConnected(Head(agenda), <<>>)
      BY <1>1, <2>1, <2>3 DEF handle, HandleDisconnected, HandleConnecting,
         HandleDisconnecting, HandleReconnecting
    <3>2. ToDisconnected(NoOp, TRUE, clients, <<>>) /\ ends' = ends
      BY <2>3, <3>1 DEF HandleConnected
    <3>3. Active' = {}
      BY <2>1, <3>2 DEF Active
    <3>4. clients[Len(clients)].phase \in Over
      BY <2>3 DEF Latest, Over
    <3>5. CalmNext
      BY <1>2, <1>4, <2>1, <3>2, <3>3, <3>4, ToDisconnectedCalm
    <3>6. QED
      BY <1>1, <3>5, CalmControl
  <2>4. QED
    BY <1>6, <2>2, <2>3 DEF Lost, Alone
<1>7. CASE Overdue
  <2>1. /\ state = "reconnecting" /\ Active = {} /\ LastEnded /\ Tail(agenda) = <<>>
        /\ Head(agenda).kind = "forceDisconnect"
    BY <1>7 DEF Overdue, Alone
  <2>2. HandleReconnecting(Head(agenda), <<>>)
    BY <1>1, <2>1 DEF handle, HandleDisconnected, HandleConnecting,
       HandleDisconnecting, HandleConnected
  <2>3. /\ clients' = EndLast(clients) /\ Stay(<<>>)
        /\ ends' = ends \cup {Renewal("forced", Head(agenda).op)}
    BY <2>1, <2>2 DEF HandleReconnecting, Renewal
  <2>4. /\ Older(clients') /\ clients' # <<>> /\ Latest' = Ended(Latest)
        /\ Latest \in Clients /\ Latest.phase = "ended"
    BY <1>2, <1>4, <2>1, <2>3, OlderFacts DEF Latest, LastEnded
  <2>5. LastEnded'
    BY <2>4, ClientFacts DEF LastEnded
  <2>6. Active' = {Renewal("forced", Head(agenda).op)}
    BY <2>1, <2>3 DEF Active, Renewal
  <2>7. Ending({"reconnect", "forced"})'
    BY <2>6 DEF Ending, Renewal
  <2>8. state' = "reconnecting" /\ Calls(queue') /\ Calls(agenda')
    BY <1>4, <2>1, <2>3, CallsMove DEF Stay
  <2>9. Settled'
    BY <2>5, <2>7, <2>8 DEF Settled
  <2>10. CalmNext
    BY <2>4, <2>8, <2>9 DEF CalmNext
  <2>11. QED
    BY <1>1, <2>10, CalmControl
<1>8. QED
  BY <1>5, <1>6, <1>7 DEF Control

\* Only the latest client reports, and the state says what it is.
LEMMA Reporter ==
  ASSUME Typed, Control, ~crashed, Idle, NEW c \in DOMAIN clients,
         clients[c].phase \in {"opening", "up", "failed"}
  PROVE  /\ c = Len(clients) /\ clients # <<>> /\ Latest = clients[c] /\ Active = {}
         /\ Settled /\ Older(clients) /\ Calls(queue)
         /\ \/ state = "connecting" /\ Opening({"connecting"})
            \/ state = "reconnecting" /\ Opening({"reconnecting", "forced"})
            \/ state = "connected" /\ Connection
<1>1. Settled /\ Older(clients) /\ Calls(queue)
  BY IdleSettled
<1>2. c = Len(clients)
  BY <1>1 DEF Older, Over
<1>3. Latest = clients[c] /\ Latest.phase \notin Over /\ Latest.phase # "ended"
  BY <1>2 DEF Latest, Over
<1>4. clients # <<>>
  <2>1. DOMAIN clients = 1..Len(clients)
    BY LenProperties DEF Typed, TypeOK
  <2>2. QED
    BY <2>1
<1>5. ~LastOver /\ ~LastEnded
  BY <1>3, <1>4 DEF LastOver, LastEnded
<1>6. state \in States
  BY DEF Typed, TypeOK
<1>7. QED
  BY <1>1, <1>2, <1>3, <1>4, <1>5, <1>6 DEF Settled, States

\* The latest client replaced by another.
LEMMA ReplacedFacts ==
  ASSUME clients \in Seq(Clients), clients # <<>>, Older(clients), NEW e \in Clients,
         e.phase = "stale" => e.on = {"opening", "connect"} /\ e.for # "connecting",
         NEW cs, cs = [clients EXCEPT ![Len(clients)] = e]
  PROVE  cs \in Seq(Clients) /\ cs # <<>> /\ Older(cs) /\ cs[Len(cs)] = e
<1>1. PICK n \in 1..Len(clients) : n = Len(clients)
  BY LatestFacts
<1>2. DOMAIN clients = 1..n /\ n \in Nat
  BY <1>1, LenProperties
<1>3. cs = [clients EXCEPT ![n] = e]
  BY <1>1
<1>4. /\ cs \in Seq(Clients) /\ Len(cs) = n
      /\ \A j \in 1..n : cs[j] = IF j = n THEN e ELSE clients[j]
  BY <1>1, <1>3, ExceptSeq
<1>5. cs[Len(cs)] = e /\ DOMAIN cs = 1..n
  BY <1>1, <1>4, LenProperties
<1>6. Older(cs)
  BY <1>1, <1>2, <1>4, <1>5 DEF Older
<1>7. cs # <<>>
  BY <1>1, <1>4
<1>8. QED
  BY <1>4, <1>5, <1>6, <1>7

\* The latest client in another phase.
LEMMA MarkedFacts ==
  ASSUME clients \in Seq(Clients), clients # <<>>, Older(clients),
         NEW phase \in {"failed", "stale", "closed"},
         phase = "stale" =>
           Latest.on = {"opening", "connect"} /\ Latest.for # "connecting",
         NEW cs, cs = [clients EXCEPT ![Len(clients)].phase = phase]
  PROVE  cs \in Seq(Clients) /\ cs # <<>> /\ Older(cs) /\ cs[Len(cs)].phase = phase
<1>1. PICK n \in 1..Len(clients) : n = Len(clients)
  BY LatestFacts
<1>2. PICK d \in Clients : d = clients[n] /\ d = Latest
  BY <1>1, ElementOfSeq DEF Latest
<1>3. PICK e \in Clients : /\ e = [d EXCEPT !.phase = phase]
                           /\ e.phase = phase /\ e.on = d.on /\ e.for = d.for
  <2>1. /\ [d EXCEPT !.phase = phase] \in Clients
        /\ [d EXCEPT !.phase = phase].phase = phase
        /\ [d EXCEPT !.phase = phase].on = d.on
        /\ [d EXCEPT !.phase = phase].for = d.for
    BY DEF Clients
  <2>2. QED
    BY <2>1
<1>4. cs = [clients EXCEPT ![Len(clients)] = e]
  BY <1>1, <1>2, <1>3
<1>5. e.phase = "stale" => e.on = {"opening", "connect"} /\ e.for # "connecting"
  BY <1>2, <1>3
<1>6. cs \in Seq(Clients) /\ cs # <<>> /\ Older(cs) /\ cs[Len(cs)] = e
  BY <1>4, <1>5, ReplacedFacts
<1>7. QED
  BY <1>3, <1>6

\* The latest client connected.
LEMMA ConnectedFacts ==
  ASSUME clients \in Seq(Clients), clients # <<>>, Older(clients),
         NEW on \in SUBSET Listeners, NEW cs, cs = Reported(Len(clients), "up", on)
  PROVE  /\ cs \in Seq(Clients) /\ cs # <<>> /\ Older(cs) /\ cs[Len(cs)].on = on
         /\ cs[Len(cs)].phase = "up" /\ cs[Len(cs)].for = Latest.for
<1>1. PICK n \in 1..Len(clients) : n = Len(clients)
  BY LatestFacts
<1>2. PICK d \in Clients : d = clients[n] /\ d = Latest
  BY <1>1, ElementOfSeq DEF Latest
<1>3. PICK e \in Clients : /\ e = [d EXCEPT !.phase = "up", !.on = on]
                           /\ e.phase = "up" /\ e.on = on /\ e.for = d.for
  <2>1. /\ [d EXCEPT !.phase = "up", !.on = on] \in Clients
        /\ [d EXCEPT !.phase = "up", !.on = on].phase = "up"
        /\ [d EXCEPT !.phase = "up", !.on = on].on = on
        /\ [d EXCEPT !.phase = "up", !.on = on].for = d.for
    BY DEF Clients
  <2>2. QED
    BY <2>1
<1>4. n \in DOMAIN clients
  BY <1>1, LenProperties
<1>5. cs = [clients EXCEPT ![Len(clients)] = e]
  BY <1>1, <1>2, <1>3, <1>4 DEF Reported
<1>6. cs \in Seq(Clients) /\ cs # <<>> /\ Older(cs) /\ cs[Len(cs)] = e
  BY <1>3, <1>5, ReplacedFacts
<1>7. QED
  BY <1>2, <1>3, <1>6

\* A step that calls nobody back is not one of a callback.
LEMMA QuietOutside ==
  ASSUME Typed, UNCHANGED ops, Quiet, Reentrancy(FALSE)
  PROVE  ~inCallback'
<1>1. Grows /\ answers \in [Ops -> Nat] /\ errorEvents \in Nat
  BY DEF Grows, Typed, TypeOK
<1>2. /\ answers' \in [Ops' -> Nat] /\ Ops' = Ops
      /\ \A o \in Ops : Told(o)' = Told(o) /\ Told(o) \in Nat
  BY <1>1, QuietFacts DEF Ops
<1>3. ASSUME NEW o \in DOMAIN answers
      PROVE  ~(answers'[o] > answers[o])
  <2>1. o \in Ops /\ answers[o] = Told(o) /\ answers'[o] = Told(o)'
    BY <1>1, <1>2 DEF Told
  <2>2. QED
    BY <1>2, <2>1
<1>4. ~(errorEvents' > errorEvents)
  BY <1>1 DEF Quiet
<1>5. QED
  BY <1>3, <1>4 DEF Reentrancy

\* A report of a client that was not connected yet ends the attempt.
LEMMA AttemptControl ==
  ASSUME Typed, Control, ~crashed, ~crashed',
         NEW c \in DOMAIN clients, clients[c].phase \in {"opening", "up", "failed"},
         NEW phase \in {"failed", "stale", "closed"},
         phase = "failed" => clients[c].for = "connecting",
         phase = "stale" => clients[c].for # "connecting",
         NEW listener \in {"error", "close"}, NEW event, Report(c, phase, listener, event),
         state # "connected"
  PROVE  Control'
<1>1. Idle /\ ops' = ops /\ (inCallback' => agenda' # <<>>)
  BY DEF Report, Reentrancy
<1>2. /\ c = Len(clients) /\ clients # <<>> /\ Latest = clients[c] /\ Active = {}
      /\ Older(clients) /\ Calls(queue)
      /\ \/ state = "connecting" /\ Opening({"connecting"})
         \/ state = "reconnecting" /\ Opening({"reconnecting", "forced"})
  BY <1>1, Reporter
<1>3. PICK cs : cs = [clients EXCEPT ![Len(clients)].phase = phase]
  OBVIOUS
<1>4. /\ clients \in Seq(Clients) /\ Latest.on = {"opening", "connect"}
      /\ {"opening", "connect"} \in SUBSET Listeners
      /\ phase = "stale" => Latest.for # "connecting"
  BY <1>2 DEF Typed, TypeOK, Opening, Listeners
<1>5. /\ cs \in Seq(Clients) /\ cs # <<>> /\ Older(cs) /\ cs[Len(cs)].phase = phase
  BY <1>2, <1>3, <1>4, MarkedFacts
<1>6. AttemptFailed(c, cs, <<>>)
  <2>1. clients[c].on = {"opening", "connect"}
    BY <1>2 DEF Opening
  <2>2. "opening" \in clients[c].on /\ listener \notin clients[c].on
    BY <2>1
  <2>3. QED
    BY <1>2, <1>3, <2>2 DEF Report
<1>7. Calls(<<>>) /\ <<>> \in Seq(Inputs)
  <2>1. <<>> \in Seq(Inputs)
    OBVIOUS
  <2>2. QED
    BY <2>1, CallsFacts
<1>8. CASE state = "connecting" /\ Opening({"connecting"})
  <2>1. ToDisconnecting(clients[c].op, TRUE, cs, <<>>)
    BY <1>2, <1>6, <1>8 DEF AttemptFailed, Opening
  <2>2. CalmNext
    BY <1>2, <1>5, <1>7, <1>8, <2>1, ToDisconnectingCalm
  <2>3. QED
    BY <1>1, <2>2, CalmControl
<1>9. CASE state = "reconnecting" /\ Opening({"reconnecting", "forced"})
  <2>1. clients[c].for # "connecting" /\ phase \in {"stale", "closed"}
    BY <1>2, <1>9 DEF Opening
  <2>2. ToDisconnected(clients[c].op, TRUE, cs, <<>>) /\ ends' = ends
    BY <1>6, <2>1 DEF AttemptFailed
  <2>3. Active' = {}
    BY <1>2, <2>2 DEF Active
  <2>4. CalmNext
    BY <1>2, <1>5, <1>7, <1>9, <2>1, <2>2, <2>3, ToDisconnectedCalm DEF Over
  <2>5. QED
    BY <1>1, <2>4, CalmControl
<1>10. QED
  BY <1>2, <1>8, <1>9

\* One of the connected client is a notice, or nobody listens.
LEMMA LossControl ==
  ASSUME Typed, Control, ~crashed, crashed' \in BOOLEAN,
         NEW c \in DOMAIN clients, clients[c].phase \in {"opening", "up", "failed"},
         NEW phase \in {"failed", "closed"}, state = "connected",
         \/ /\ Report(c, phase, "error", "errorEvent")
            /\ crashed' = (clients[c].on \cap {"opening", "error", "null"} = {})
         \/ /\ Report(c, phase, "close", "closeEvent") /\ phase = "closed"
            /\ ~crashed'
  PROVE  Control'
<1>1. Idle /\ ops' = ops /\ (inCallback' => agenda' # <<>>) /\ Reentrancy(FALSE)
  BY DEF Report, Reentrancy
<1>2. /\ c = Len(clients) /\ clients # <<>> /\ Latest = clients[c] /\ Active = {}
      /\ Older(clients) /\ Calls(queue) /\ Connection
  BY <1>1, Reporter
<1>3. PICK cs : cs = [clients EXCEPT ![Len(clients)].phase = phase]
  OBVIOUS
<1>4. clients \in Seq(Clients) /\ {} \in SUBSET Listeners
  BY DEF Typed, TypeOK
<1>5. /\ cs \in Seq(Clients) /\ cs # <<>> /\ Older(cs) /\ cs[Len(cs)].phase = phase
  BY <1>2, <1>3, <1>4, MarkedFacts
<1>6. "opening" \notin clients[c].on /\ "null" \notin clients[c].on /\ "close" \in clients[c].on
  BY <1>2 DEF Connection
<1>7. clients' = cs /\ Quiet /\ UNCHANGED <<state, queue, ends>>
  BY <1>2, <1>3, <1>6 DEF Report
<1>8. ~inCallback' /\ Active' = {} /\ Older(clients)' /\ Calls(queue)' /\ state' = "connected"
      /\ clients' # <<>> /\ Latest'.phase = phase
  <2>1. ~inCallback'
    BY <1>1, <1>7, QuietOutside
  <2>2. Active' = {}
    BY <1>2, <1>7 DEF Active
  <2>3. Older(clients)' /\ Calls(queue)'
    BY <1>2, <1>5, <1>7 DEF Older, Calls, Has, Notices, Over
  <2>4. Latest'.phase = phase
    BY <1>5, <1>7 DEF Latest
  <2>5. QED
    BY <1>5, <1>7, <2>1, <2>2, <2>3, <2>4
<1>9. ASSUME NEW kind, agenda' = <<[kind |-> kind, op |-> NoOp]>>
      PROVE  Alone({kind})'
  <2>1. agenda' # <<>> /\ Head(agenda').kind = kind /\ Tail(agenda') = <<>>
    BY <1>9, OneElement
  <2>2. QED
    BY <1>8, <2>1 DEF Alone, Idle
<1>10. CASE Report(c, phase, "close", "closeEvent") /\ phase = "closed" /\ ~crashed'
  <2>1. agenda' = <<[kind |-> "closeEvent", op |-> NoOp]>>
    BY <1>6, <1>10 DEF Report
  <2>2. Lost'
    BY <1>8, <1>9, <1>10, <2>1 DEF Lost
  <2>3. QED
    BY <1>8, <1>10, <2>2 DEF Control
<1>11. CASE /\ Report(c, phase, "error", "errorEvent")
            /\ crashed' = (clients[c].on \cap {"opening", "error", "null"} = {})
  <2>1. CASE "error" \in clients[c].on
    <3>1. agenda' = <<[kind |-> "errorEvent", op |-> NoOp]>> /\ ~crashed'
      BY <1>6, <1>11, <2>1 DEF Report
    <3>2. Lost'
      BY <1>8, <1>9, <3>1 DEF Lost
    <3>3. QED
      BY <1>8, <3>1, <3>2 DEF Control
  <2>2. CASE "error" \notin clients[c].on
    <3>1. crashed'
      BY <1>6, <1>11, <2>2
    <3>2. QED
      BY <1>8, <3>1 DEF Control
  <2>3. QED
    BY <2>1, <2>2
<1>12. QED
  BY <1>10, <1>11

\* A client connects while its attempt is what the state machine waits for.
LEMMA ConnectsControl ==
  ASSUME Typed, Control, ~crashed, UNCHANGED crashed, NEW c \in DOMAIN clients,
         ClientConnects(c)
  PROVE  Control'
<1>1. Idle /\ clients[c].phase = "opening" /\ (inCallback' => agenda' # <<>>) /\ Grows
  BY DEF ClientConnects, Reentrancy, Grows
<1>2. /\ c = Len(clients) /\ clients # <<>> /\ Latest = clients[c] /\ Active = {}
      /\ Older(clients) /\ Calls(queue)
      /\ \/ state = "connecting" /\ Opening({"connecting"})
         \/ state = "reconnecting" /\ Opening({"reconnecting", "forced"})
  BY <1>1, Reporter DEF Connection
<1>3. Latest.on = {"opening", "connect"}
  BY <1>2 DEF Opening
<1>4. UpOn(c) = {"connect"} /\ {"connect"} \in SUBSET Listeners
  BY <1>2, <1>3 DEF UpOn, Listeners
<1>5. PICK cs : cs = Up(c)
  OBVIOUS
<1>6. cs = Reported(Len(clients), "up", {"connect"})
  BY <1>1, <1>2, <1>4, <1>5, UpFacts
<1>7. /\ cs \in Seq(Clients) /\ cs # <<>> /\ Older(cs)
      /\ cs[Len(cs)].phase = "up" /\ cs[Len(cs)].for = Latest.for
      /\ cs[Len(cs)].on = {"connect"}
  BY <1>2, <1>4, <1>6, ConnectedFacts DEF Typed, TypeOK
<1>8. PICK ds : ds = IF Latest.for = "forced" THEN cs ELSE Listen(cs, "error")
  OBVIOUS
<1>9. ToConnected(clients[c].op, ds, <<>>)
  BY <1>2, <1>5, <1>8 DEF ClientConnects, Up
<1>10. /\ ds \in Seq(Clients) /\ ds # <<>> /\ Older(ds)
       /\ ds[Len(ds)].phase = "up" /\ ds[Len(ds)].on \cap {"opening", "null"} = {}
       /\ ds[Len(ds)].for # "forced" => "error" \in ds[Len(ds)].on
  <2>1. CASE Latest.for = "forced"
    BY <1>7, <1>8, <2>1
  <2>2. CASE Latest.for # "forced"
    <3>1. PICK d \in Clients : d = cs[Len(cs)]
      BY <1>7, OlderFacts
    <3>2. /\ ds \in Seq(Clients) /\ ds # <<>> /\ Older(ds)
          /\ ds[Len(ds)] = Listened(d, "error")
      BY <1>7, <1>8, <2>2, <3>1, OlderFacts DEF Listeners
    <3>3. /\ Listened(d, "error").phase = "up"
          /\ Listened(d, "error").on = {"connect"} \cup {"error"}
      BY <1>7, <3>1, ClientFacts DEF Listeners
    <3>4. QED
      BY <3>2, <3>3
  <2>3. QED
    BY <2>1, <2>2
<1>11. Calls(<<>>) /\ <<>> \in Seq(Inputs)
  <2>1. <<>> \in Seq(Inputs)
    OBVIOUS
  <2>2. QED
    BY <2>1, CallsFacts
<1>12. CalmNext
  BY <1>2, <1>9, <1>10, <1>11, ToConnectedCalm
<1>13. QED
  BY <1>1, <1>12, CalmControl

\* Nothing that still counts follows the end of a client but what the state
\* machine waits for.
LEMMA EndDoneControl ==
  ASSUME Typed, Control, ~crashed, UNCHANGED crashed, NEW end \in ends, EndDone(end)
  PROVE  Control'
<1>1. Idle /\ ends' = ends \ {end} /\ (inCallback' => agenda' # <<>>)
  BY DEF EndDone, Reentrancy
<1>2. Calls(agenda) /\ Settled /\ Older(clients) /\ Calls(queue)
  BY <1>1, IdleSettled
<1>3. end \in Ends /\ clients \in Seq(Clients) /\ state \in States
  BY DEF Typed, TypeOK
<1>4. Calls(<<>>) /\ <<>> \in Seq(Inputs)
  <2>1. <<>> \in Seq(Inputs)
    OBVIOUS
  <2>2. QED
    BY <2>1, CallsFacts
<1>5. CASE end.then = "switched"
  <2>1. Stay(<<>>) /\ clients' = clients
    BY <1>5 DEF EndDone
  <2>2. Active' = Active
    BY <1>1, <1>5 DEF Active
  <2>3. state' = state /\ Calls(queue') /\ Calls(agenda')
    BY <1>2, <1>4, <2>1, CallsMove DEF Stay
  <2>4. Settled'
    BY <1>2, <2>1, <2>2, <2>3 DEF Settled, LastOver, Latest, Opening, Connection,
       LastEnded, Ending, Over
  <2>5. QED
    BY <1>1, <1>2, <2>1, <2>3, <2>4, CalmControl DEF CalmNext
<1>6. CASE end.then # "switched"
  <2>1. end \in Active
    BY <1>6 DEF Active
  <2>2. Active = {end}
    BY <1>2, <1>3, <2>1 DEF Settled, States, Ending
  <2>3. Active' = {}
    BY <1>1, <2>2 DEF Active
  <2>4. CASE end.then = "disconnected"
    <3>1. state = "disconnecting" /\ LastOver
      BY <1>2, <1>3, <2>2, <2>4 DEF Settled, States, Ending
    <3>2. ToDisconnected(end.op, end.err, clients, <<>>)
      BY <2>4 DEF EndDone
    <3>3. clients # <<>> => clients[Len(clients)].phase \in Over
      BY <3>1 DEF LastOver, Latest
    <3>4. CalmNext
      BY <1>2, <1>3, <1>4, <2>3, <3>1, <3>2, <3>3, ToDisconnectedCalm
    <3>5. QED
      BY <1>1, <3>4, CalmControl
  <2>5. CASE end.then \in {"reconnect", "forced"}
    <3>1. state = "reconnecting" /\ LastEnded
      BY <1>2, <1>3, <2>2, <2>5 DEF Settled, States, Ending
    <3>2. LastOver
      BY <3>1 DEF LastEnded, LastOver, Over
    <3>3. PICK why \in {"reconnecting", "forced"} :
            clients' = Connecting(why, end.op) /\ Stay(<<>>)
      BY <2>5 DEF EndDone
    <3>4. Older(clients') /\ Opening({why})'
      BY <1>2, <1>3, <3>2, <3>3, ConnectingCalm DEF Purposes, Ends
    <3>5. Opening({"reconnecting", "forced"})'
      BY <3>4 DEF Opening
    <3>6. state' = "reconnecting" /\ Calls(queue') /\ Calls(agenda')
      BY <1>2, <1>4, <3>1, <3>3, CallsMove DEF Stay
    <3>7. Settled'
      BY <2>3, <3>5, <3>6 DEF Settled
    <3>8. QED
      BY <1>1, <3>4, <3>6, <3>7, CalmControl DEF CalmNext
  <2>6. QED
    BY <1>3, <1>6, <2>4, <2>5 DEF Ends
<1>7. QED
  BY <1>5, <1>6

\* The timer of a renewal runs out while its end is waited for.
LEMMA TimeoutControl ==
  ASSUME Typed, Control, ~crashed, UNCHANGED crashed, NEW end \in ends,
         DisconnectTimeout(end)
  PROVE  Control' /\ Active = {end} /\ Active' = {} /\ Settled
<1>1. /\ Idle /\ end.then = "reconnect" /\ agenda' = <<Forced(end)>>
      /\ ends' = (ends \ {end}) \cup {Switched(end)}
      /\ UNCHANGED <<state, queue, inCallback, clients>>
  BY DEF DisconnectTimeout, Forced, Switched
<1>2. Settled /\ Older(clients) /\ Calls(queue) /\ ~inCallback
  BY <1>1, IdleSettled DEF Control
<1>3. end \in Active /\ state \in States
  BY <1>1 DEF Active, Typed, TypeOK
<1>4. Active = {end} /\ state = "reconnecting" /\ LastEnded
  BY <1>1, <1>2, <1>3 DEF Settled, States, Ending
<1>5. Switched(end).then = "switched"
  BY DisconnectTimeoutTyped
<1>6. Active' = {}
  BY <1>1, <1>4, <1>5 DEF Active
<1>7. agenda' # <<>> /\ Head(agenda') = Forced(end) /\ Tail(agenda') = <<>>
  BY <1>1, OneElement
<1>8. Alone({"forceDisconnect"})'
  BY <1>1, <1>2, <1>7 DEF Alone, Idle, Forced
<1>9. Overdue'
  BY <1>1, <1>4, <1>6, <1>8 DEF Overdue, LastEnded, Latest
<1>10. Older(clients)' /\ Calls(queue)' /\ ~inCallback' /\ ~crashed'
  BY <1>1, <1>2 DEF Older, Calls, Has, Notices, Over
<1>11. QED
  BY <1>2, <1>4, <1>6, <1>9, <1>10 DEF Control

\* What a stale client is, and what its close does where the state machine is
\* still disconnected.
LEMMA StaleFacts ==
  ASSUME Typed, Control, ~crashed, NEW c \in DOMAIN clients, StaleCloses(c),
         state = "disconnected"
  PROVE  /\ Idle /\ Settled /\ Calls(queue) /\ Older(clients)
         /\ UNCHANGED <<state, queue, ends, ops, wire, subs, crashed>>
         /\ Quiet /\ agenda' = <<>> /\ ~inCallback'
         /\ clients' = [clients EXCEPT ![c].phase = "closed"]
<1>1. Report(c, "closed", "close", "closeEvent") /\ clients[c].phase = "stale" /\ Idle
  BY DEF StaleCloses, Report
<1>2. Settled /\ Calls(queue) /\ Older(clients)
  BY <1>1, IdleSettled
<1>3. clients[c].on = {"opening", "connect"} /\ clients[c].for # "connecting"
  BY <1>1, <1>2 DEF Older
<1>4. "opening" \in clients[c].on /\ "close" \notin clients[c].on
  BY <1>3
<1>5. AttemptFailed(c, [clients EXCEPT ![c].phase = "closed"], <<>>)
  BY <1>1, <1>4 DEF Report
<1>6. /\ ToDisconnected(clients[c].op, TRUE, [clients EXCEPT ![c].phase = "closed"], <<>>)
      /\ ends' = ends
  BY <1>3, <1>5 DEF AttemptFailed
<1>7. /\ Stay(<<>>) /\ Quiet /\ UNCHANGED <<wire, subs>>
      /\ clients' = [clients EXCEPT ![c].phase = "closed"]
  BY <1>6 DEF ToDisconnected
<1>8. agenda' = <<>> /\ UNCHANGED <<state, queue>>
  BY <1>7 DEF Stay
<1>9. UNCHANGED ops /\ ~inCallback'
  BY <1>1, <1>8 DEF Report, Reentrancy
<1>10. UNCHANGED crashed
  BY DEF StaleCloses
<1>11. QED
  BY <1>1, <1>2, <1>6, <1>7, <1>8, <1>9, <1>10

\* There it leaves the control as it was.
LEMMA StaleControl ==
  ASSUME Typed, Control, ~crashed, NEW c \in DOMAIN clients, StaleCloses(c),
         state = "disconnected"
  PROVE  Control'
<1>1. /\ Settled /\ Calls(queue) /\ Older(clients)
      /\ UNCHANGED <<state, queue, ends, crashed>> /\ agenda' = <<>> /\ ~inCallback'
      /\ clients' = [clients EXCEPT ![c].phase = "closed"]
  BY StaleFacts
<1>2. clients \in Seq(Clients)
  BY DEF Typed, TypeOK
<1>3. DOMAIN clients = 1..Len(clients) /\ Len(clients) \in Nat
  BY <1>2, LenProperties
<1>4. PICK d \in Clients : d = clients[c]
  BY <1>2, <1>3, ElementOfSeq
<1>5. [d EXCEPT !.phase = "closed"] \in Clients
  BY DEF Clients
<1>6. PICK e \in Clients : e = [d EXCEPT !.phase = "closed"] /\ e.phase = "closed"
  BY <1>5 DEF Clients
<1>7. clients' = [clients EXCEPT ![c] = e]
  BY <1>1, <1>4, <1>6
<1>8. /\ Len(clients') = Len(clients)
      /\ \A j \in 1..Len(clients) : clients'[j] = IF j = c THEN e ELSE clients[j]
      /\ DOMAIN clients' = 1..Len(clients)
  <2>1. /\ clients' \in Seq(Clients) /\ Len(clients') = Len(clients)
        /\ \A j \in 1..Len(clients) : clients'[j] = IF j = c THEN e ELSE clients[j]
    BY <1>2, <1>3, <1>7, ExceptSeq
  <2>2. QED
    BY <2>1, LenProperties
<1>9. Older(clients')
  BY <1>1, <1>3, <1>6, <1>8 DEF Older, Over
<1>10. LastOver'
  <2>1. LastOver
    BY <1>1 DEF Settled
  <2>2. Len(clients) \in 1..Len(clients)
    BY <1>3
  <2>3. clients # <<>>
    BY <1>3
  <2>4. clients[Len(clients)].phase \in Over
    BY <2>1, <2>3 DEF LastOver, Latest
  <2>5. clients'[Len(clients')].phase \in Over
    BY <1>6, <1>8, <2>2, <2>4 DEF Over
  <2>6. QED
    BY <2>5 DEF LastOver, Latest, Over
<1>11. Active' = {}
  BY <1>1 DEF Settled, Active
<1>12. Settled'
  BY <1>1, <1>10, <1>11 DEF Settled
<1>13. Calls(queue') /\ Calls(agenda')
  <2>1. Calls(<<>>)
    BY HasOne DEF Calls
  <2>2. QED
    BY <1>1, <2>1
<1>14. CalmNext
  BY <1>9, <1>12, <1>13 DEF CalmNext
<1>15. QED
  BY <1>1, <1>14, CalmControl

\* The control holds until a stale client has closed too late.
LEMMA ControlStep ==
  ASSUME Typed, Control, [Next]_vars, ~haunted'
  PROVE  Control'
<1>1. CASE UNCHANGED vars
  BY <1>1 DEF vars, Control, Older, Calls, Has, Notices, Over, Idle, Settled, Lost, Overdue,
     Alone, Active, LastOver, Latest, Opening, Connection, LastEnded, Ending
<1>2. ASSUME ~crashed, NEW c \in DOMAIN clients, ClientErrors(c)
      PROVE  Control'
  <2>1. PICK phase \in {"failed", "stale"} :
          /\ phase = "stale" <=> "opening" \in clients[c].on /\ clients[c].for # "connecting"
          /\ Report(c, phase, "error", "errorEvent")
    BY <1>2 DEF ClientErrors
  <2>2. /\ clients[c].phase \in {"opening", "up", "failed"}
        /\ crashed' = (clients[c].on \cap {"opening", "error", "null"} = {})
    BY <1>2 DEF ClientErrors
  <2>3. Idle
    BY <2>1 DEF Report
  <2>4. CASE state = "connected"
    <3>1. "opening" \notin clients[c].on
      BY <1>2, <2>2, <2>3, <2>4, Reporter DEF Connection
    <3>2. phase = "failed" /\ crashed' \in BOOLEAN
      BY <2>1, <2>2, <3>1
    <3>3. QED
      BY <1>2, <2>1, <2>2, <2>4, <3>2, LossControl
  <2>5. CASE state # "connected"
    <3>1. "opening" \in clients[c].on
      BY <1>2, <2>2, <2>3, <2>5, Reporter DEF Opening
    <3>2. ~crashed'
      BY <2>2, <3>1
    <3>3. /\ phase = "failed" => clients[c].for = "connecting"
          /\ phase = "stale" => clients[c].for # "connecting"
      BY <2>1, <3>1
    <3>4. QED
      BY <1>2, <2>1, <2>2, <2>5, <3>2, <3>3, AttemptControl
  <2>6. QED
    BY <2>4, <2>5
<1>3. ASSUME ~crashed, NEW c \in DOMAIN clients, ClientCloses(c)
      PROVE  Control'
  <2>1. /\ clients[c].phase \in {"opening", "up", "failed"}
        /\ Report(c, "closed", "close", "closeEvent")
        /\ ~crashed' /\ crashed' \in BOOLEAN
    BY <1>3 DEF ClientCloses, Typed, TypeOK, outcome
  <2>2. CASE state = "connected"
    BY <1>3, <2>1, <2>2, LossControl
  <2>3. CASE state # "connected"
    BY <1>3, <2>1, <2>3, AttemptControl
  <2>4. QED
    BY <2>2, <2>3
<1>4. ASSUME ~crashed, UNCHANGED crashed, NEW o, PublishAnswered(o) \/ SubscribeAnswered(o)
      PROVE  Control'
  <2>1. /\ Idle /\ UNCHANGED <<state, queue, agenda, inCallback, clients, ends>>
    BY <1>4 DEF PublishAnswered, SubscribeAnswered
  <2>2. Calls(agenda) /\ Settled /\ Older(clients) /\ Calls(queue) /\ ~inCallback
    BY <1>4, <2>1, IdleSettled DEF Control
  <2>3. CalmNext
    BY <2>1, <2>2, SameSettled DEF CalmNext
  <2>4. QED
    BY <1>4, <2>1, <2>2, <2>3, CalmControl
<1>5. ASSUME ~crashed, NEW c \in DOMAIN clients, StaleCloses(c)
      PROVE  Control'
  <2>1. state = "disconnected"
    BY <1>5 DEF StaleCloses
  <2>2. QED
    BY <1>5, <2>1, StaleControl
<1>6. CASE Next
  BY <1>2, <1>3, <1>4, <1>5, <1>6, Steps, CallControl, ReplayControl, ConnectsControl,
     EndDoneControl, TimeoutControl
<1>7. QED
  BY <1>1, <1>6

\* It holds of a state machine that has not been called.
LEMMA ControlInit == Init => Control
<1>1. ASSUME Init
      PROVE  Control
  <2>1. Calls(<<>>)
    BY HasOne DEF Calls
  <2>2. Older(<<>>)
    BY DEF Older
  <2>3. QED
    BY <1>1, <2>1, <2>2 DEF Init, Control, Idle, Settled, Active, LastOver
<1>2. QED
  BY <1>1

\* The latest client alone may have or seek a connection, and the state machine
\* is connected when it has.
LEMMA ControlOne ==
  ASSUME Typed, Control
  PROVE  OneConnection
<1>1. clients \in Seq(Clients) /\ DOMAIN clients = 1..Len(clients) /\ Len(clients) \in Nat
  BY LenProperties DEF Typed, TypeOK
<1>2. InPhase({"opening", "up"}) \subseteq {Len(clients)}
  BY DEF InPhase, Control, Older, Over
<1>3. Cardinality(InPhase({"opening", "up"})) <= 1
  <2>1. PICK S : S = InPhase({"opening", "up"})
    OBVIOUS
  <2>2. S = {} \/ S = {Len(clients)}
    BY <1>2, <2>1
  <2>3. Cardinality({}) = 0 /\ Cardinality({Len(clients)}) = 1
    BY FS_EmptySet, FS_Singleton
  <2>4. Cardinality(S) \in {0, 1}
    BY <2>2, <2>3
  <2>5. Cardinality(S) <= 1
    BY <2>4
  <2>6. QED
    BY <2>1, <2>5, Zenon
<1>4. ASSUME state = "disconnected"
      PROVE  InPhase({"opening", "up"}) = {}
  <2>1. LastOver
    BY <1>4 DEF Control, Lost, Overdue, Settled
  <2>2. QED
    BY <1>1, <1>2, <2>1 DEF LastOver, Latest, Over, InPhase
<1>5. ASSUME state = "connected", Idle, ~crashed
      PROVE  clients[Len(clients)].phase = "up"
  BY <1>5 DEF Control, Lost, Overdue, Alone, Settled, Connection, Latest
<1>6. QED
  BY <1>3, <1>4, <1>5 DEF OneConnection

\* Once a stale client has closed too late, it has.
LEMMA HauntedStays ==
  ASSUME haunted, [Next]_vars
  PROVE  haunted'
<1>1. CASE UNCHANGED vars
  BY <1>1 DEF vars
<1>2. CASE Next
  BY <1>2, Steps DEF ClientErrors, ClientCloses, StaleCloses, outcome
<1>3. QED
  BY <1>1, <1>2

\* At most one client has or seeks a connection, and no loss is missed while
\* listeners are exchanged, until a stale client closes too late.
THEOREM OneConnectionKept == Spec => []OneConnection
<1>1. Init => Typed /\ (haunted \/ Control)
  BY ControlInit, TypedInit
<1>2. Typed /\ (haunted \/ Control) /\ [Next]_vars => (Typed /\ (haunted \/ Control))'
  BY TypedStep, ControlStep, HauntedStays
<1>3. Typed /\ (haunted \/ Control) => OneConnection
  BY ControlOne DEF OneConnection
<1>4. QED
  BY <1>1, <1>2, <1>3, PTL DEF Spec

-----------------------------------------------------------------------------
(* The callback of every call is in one place.                             *)

\* The counts are naturals, before a step and after it.
LEMMA Naturals ==
  ASSUME Typed, NEW o
  PROVE  /\ InQueue(o) \in Nat /\ InAgenda(o) \in Nat /\ InClients(o) \in Nat
         /\ InEnds(o) \in Nat /\ InWire(o) \in Nat /\ InSubs(o) \in Nat
         /\ Told(o) \in Nat /\ Around(o) \in Nat
<1>1. InQueue(o) \in Nat /\ InAgenda(o) \in Nat /\ InClients(o) \in Nat
  <2>1. /\ queue \in Seq(Inputs) /\ agenda \in Seq(Inputs) /\ clients \in Seq(Clients)
    BY DEF Typed, TypeOK
  <2>2. QED
    BY <2>1, CountNat DEF InQueue, InAgenda, InClients
<1>2. InEnds(o) \in Nat /\ InWire(o) \in Nat /\ InSubs(o) \in Nat
  BY DEF InEnds, InWire, InSubs, One
<1>3. Told(o) \in Nat
  BY DEF Told, Typed, TypeOK
<1>4. Around(o) \in Nat
  BY <1>1, <1>2, <1>3 DEF Around
<1>5. QED
  BY <1>1, <1>2, <1>3, <1>4

\* After a step too.
LEMMA NaturalsNext ==
  ASSUME Typed', NEW o
  PROVE  /\ InQueue(o)' \in Nat /\ InAgenda(o)' \in Nat /\ InClients(o)' \in Nat
         /\ InEnds(o)' \in Nat /\ InWire(o)' \in Nat /\ InSubs(o)' \in Nat
         /\ Told(o)' \in Nat /\ Around(o)' \in Nat
<1>1. InQueue(o)' \in Nat /\ InAgenda(o)' \in Nat /\ InClients(o)' \in Nat
  <2>1. /\ queue' \in Seq(Inputs) /\ agenda' \in Seq(Inputs) /\ clients' \in Seq(Clients)
    BY DEF Typed, TypeOK
  <2>2. /\ Count(queue', Of(o)) \in Nat /\ Count(agenda', Of(o)) \in Nat
        /\ Count(clients', Keeping(o)) \in Nat
    BY <2>1, CountNat
  <2>3. QED
    BY <2>2 DEF InQueue, InAgenda, InClients, Of, Keeping, Inputs, Clients
<1>2. InEnds(o)' \in Nat /\ InWire(o)' \in Nat /\ InSubs(o)' \in Nat
  BY DEF InEnds, InWire, InSubs, One
<1>3. Told(o)' \in Nat
  BY DEF Told, Typed, TypeOK
<1>4. Around(o)' \in Nat
  BY <1>1, <1>2, <1>3 DEF Around
<1>5. QED
  BY <1>1, <1>2, <1>3, <1>4

\* What is replayed and deferred of an operation, after a transition, without
\* one, and where the input is deferred.
LEMMA DueMoves ==
  ASSUME Typed, NEW rest \in Seq(Inputs), NEW o
  PROVE  /\ \A s : Goto(s, rest) =>
              InAgenda(o)' + InQueue(o)' = Count(rest, Of(o)) + InQueue(o)
         /\ Stay(rest) =>
              InAgenda(o)' + InQueue(o)' = Count(rest, Of(o)) + InQueue(o)
         /\ \A input \in Inputs : deferUntilTransition(input, rest) =>
              InAgenda(o)' + InQueue(o)'
                = Count(rest, Of(o)) + One(o, {input.op}) + InQueue(o)
<1>1. queue \in Seq(Inputs) /\ Count(rest, Of(o)) \in Nat /\ InQueue(o) \in Nat
      /\ Count(queue, Of(o)) = InQueue(o)
  BY CountNat DEF Typed, TypeOK, InQueue
<1>2. /\ Count(queue \o rest, Of(o)) = Count(queue, Of(o)) + Count(rest, Of(o))
      /\ Count(<<>>, Of(o)) = 0
  BY <1>1, CountConcat, CountEmpty
<1>3. InAgenda(o)' = Count(agenda', Of(o)) /\ InQueue(o)' = Count(queue', Of(o))
  BY DEF InAgenda, InQueue, Of, Inputs
<1>4. ASSUME NEW s, Goto(s, rest)
      PROVE  InAgenda(o)' + InQueue(o)' = Count(rest, Of(o)) + InQueue(o)
  <2>1. agenda' = queue \o rest /\ queue' = <<>>
    BY <1>4 DEF Goto
  <2>2. InAgenda(o)' = InQueue(o) + Count(rest, Of(o)) /\ InQueue(o)' = 0
    BY <1>1, <1>2, <1>3, <2>1
  <2>3. QED
    BY <1>1, <2>2
<1>5. ASSUME Stay(rest)
      PROVE  InAgenda(o)' + InQueue(o)' = Count(rest, Of(o)) + InQueue(o)
  BY <1>1, <1>3, <1>5 DEF Stay
<1>6. ASSUME NEW input \in Inputs, deferUntilTransition(input, rest)
      PROVE  InAgenda(o)' + InQueue(o)'
               = Count(rest, Of(o)) + One(o, {input.op}) + InQueue(o)
  <2>1. agenda' = rest /\ queue' = Append(queue, input)
    BY <1>6 DEF deferUntilTransition
  <2>2. input \in Of(o) <=> input.op = o
    BY DEF Of
  <2>3. Count(Append(queue, input), Of(o)) = Count(queue, Of(o)) + One(o, {input.op})
    <3>1. /\ input \in Of(o) => Count(Append(queue, input), Of(o)) = Count(queue, Of(o)) + 1
          /\ input \notin Of(o) => Count(Append(queue, input), Of(o)) = Count(queue, Of(o))
      BY <1>1, CountAppend
    <3>2. QED
      BY <1>1, <2>2, <3>1 DEF One
  <2>4. One(o, {input.op}) \in Nat
    BY DEF One
  <2>5. InAgenda(o)' = Count(rest, Of(o))
    BY <1>3, <2>1
  <2>6. InQueue(o)' = InQueue(o) + One(o, {input.op})
    BY <1>1, <1>3, <2>1, <2>3
  <2>7. QED
    BY <1>1, <2>4, <2>5, <2>6
<1>7. QED
  BY <1>4, <1>5, <1>6

\* What a client keeps, ended or marked.
LEMMA KeepingFacts ==
  ASSUME NEW c \in Clients, NEW o
  PROVE  /\ c \in Keeping(o) <=>
              c.op = o /\ (c.phase = "opening" \/ (c.phase = "aborted" /\ c.for = "connecting"))
         /\ (c.phase = "opening" => c.for = "connecting") /\ c.phase # "aborted"
              => (Ended(c) \in Keeping(o) <=> c \in Keeping(o))
         /\ \A listener \in Listeners :
              Listened(c, listener) \in Keeping(o) <=> c \in Keeping(o)
<1>1. \A d \in Clients : d \in Keeping(o) <=>
        d.op = o /\ (d.phase = "opening" \/ (d.phase = "aborted" /\ d.for = "connecting"))
  BY DEF Keeping
<1>2. ASSUME c.phase = "opening" => c.for = "connecting", c.phase # "aborted"
      PROVE  Ended(c) \in Keeping(o) <=> c \in Keeping(o)
  BY <1>1, <1>2, ClientFacts
<1>3. ASSUME NEW listener \in Listeners
      PROVE  Listened(c, listener) \in Keeping(o) <=> c \in Keeping(o)
  BY <1>1, ClientFacts
<1>4. QED
  BY <1>1, <1>2, <1>3

\* What the clients keep when the latest is ended, gets a listener or connects,
\* fails or closes.
LEMMA KeptByEnd ==
  ASSUME NEW cs \in Seq(Clients), cs # <<>>, NEW o
  PROVE  /\ (/\ cs[Len(cs)].phase = "opening" => cs[Len(cs)].for = "connecting"
             /\ cs[Len(cs)].phase # "aborted")
              => Count(EndLast(cs), Keeping(o)) = Count(cs, Keeping(o))
         /\ \A listener \in Listeners :
              Count(Listen(cs, listener), Keeping(o)) = Count(cs, Keeping(o))
<1>1. /\ Len(cs) \in 1..Len(cs)
      /\ EndLast(cs) = [cs EXCEPT ![Len(cs)] = Ended(cs[Len(cs)])]
      /\ \A listener : Listen(cs, listener)
                         = [cs EXCEPT ![Len(cs)] = Listened(cs[Len(cs)], listener)]
  BY LatestFacts
<1>2. PICK n \in 1..Len(cs) : n = Len(cs)
  BY <1>1
<1>3. PICK c \in Clients : c = cs[n]
  BY ElementOfSeq
<1>4. Ended(c) \in Clients /\ \A listener \in Listeners : Listened(c, listener) \in Clients
  BY ClientFacts
<1>5. \A e \in Clients : (c \in Keeping(o) <=> e \in Keeping(o))
         => Count([cs EXCEPT ![n] = e], Keeping(o)) = Count(cs, Keeping(o))
  BY <1>3, CountReplace
<1>6. ASSUME c.phase = "opening" => c.for = "connecting", c.phase # "aborted"
      PROVE  Count(EndLast(cs), Keeping(o)) = Count(cs, Keeping(o))
  <2>1. Ended(c) \in Keeping(o) <=> c \in Keeping(o)
    BY <1>6, KeepingFacts
  <2>2. EndLast(cs) = [cs EXCEPT ![n] = Ended(c)]
    BY <1>1, <1>2, <1>3
  <2>3. Count([cs EXCEPT ![n] = Ended(c)], Keeping(o)) = Count(cs, Keeping(o))
    BY <1>4, <1>5, <2>1, Zenon
  <2>4. QED
    BY <2>2, <2>3, Zenon
<1>7. ASSUME NEW listener \in Listeners
      PROVE  Count(Listen(cs, listener), Keeping(o)) = Count(cs, Keeping(o))
  <2>1. Listened(c, listener) \in Keeping(o) <=> c \in Keeping(o)
    BY KeepingFacts
  <2>2. Listen(cs, listener) = [cs EXCEPT ![n] = Listened(c, listener)]
    BY <1>1, <1>2, <1>3
  <2>3. Count([cs EXCEPT ![n] = Listened(c, listener)], Keeping(o)) = Count(cs, Keeping(o))
    BY <1>4, <1>5, <2>1, Zenon
  <2>4. QED
    BY <2>2, <2>3, Zenon
<1>8. QED
  BY <1>2, <1>3, <1>6, <1>7

\* A client that connects, fails or closes no longer keeps the callback it was
\* opened for.
LEMMA KeptByMark ==
  ASSUME clients \in Seq(Clients), clients # <<>>, NEW o,
         NEW phase \in {"up", "failed", "stale", "closed"}, NEW on \in SUBSET Listeners,
         NEW cs \in {[clients EXCEPT ![Len(clients)].phase = phase],
                     Reported(Len(clients), phase, on)}
  PROVE  /\ Latest.phase = "opening" =>
              Count(cs, Keeping(o)) + One(o, {Latest.op}) = Count(clients, Keeping(o))
         /\ Latest.phase \in {"up", "failed", "closed", "ended"} =>
              Count(cs, Keeping(o)) = Count(clients, Keeping(o))
<1>1. PICK n \in 1..Len(clients) : n = Len(clients)
  BY LatestFacts
<1>2. PICK d \in Clients : d = clients[n] /\ d = Latest
  BY <1>1, ElementOfSeq DEF Latest
<1>3. PICK e \in Clients :
        cs = [clients EXCEPT ![n] = e] /\ e.phase = phase /\ e.op = d.op
  <2>1. CASE cs = [clients EXCEPT ![Len(clients)].phase = phase]
    <3>1. cs = [clients EXCEPT ![n] = [d EXCEPT !.phase = phase]]
      BY <1>1, <1>2, <2>1
    <3>2. [d EXCEPT !.phase = phase] \in Clients /\ [d EXCEPT !.phase = phase].phase = phase
          /\ [d EXCEPT !.phase = phase].op = d.op
      BY DEF Clients
    <3>3. QED
      BY <3>1, <3>2
  <2>2. CASE cs = Reported(Len(clients), phase, on)
    <3>1. cs = [clients EXCEPT ![n] = [d EXCEPT !.phase = phase, !.on = on]]
      <4>1. n \in DOMAIN clients
        BY <1>1, LenProperties
      <4>2. QED
        BY <1>1, <1>2, <2>2, <4>1 DEF Reported
    <3>2. /\ [d EXCEPT !.phase = phase, !.on = on] \in Clients
          /\ [d EXCEPT !.phase = phase, !.on = on].phase = phase
          /\ [d EXCEPT !.phase = phase, !.on = on].op = d.op
      BY DEF Clients
    <3>3. QED
      BY <3>1, <3>2
  <2>3. QED
    BY <2>1, <2>2
<1>4. e \notin Keeping(o)
  BY <1>3, KeepingFacts
<1>5. /\ d \in Keeping(o) => Count(cs, Keeping(o)) + 1 = Count(clients, Keeping(o))
      /\ d \notin Keeping(o) => Count(cs, Keeping(o)) = Count(clients, Keeping(o))
  <2>1. /\ clients[n] \in Keeping(o) /\ e \notin Keeping(o)
             => Count([clients EXCEPT ![n] = e], Keeping(o)) + 1 = Count(clients, Keeping(o))
        /\ (clients[n] \in Keeping(o) <=> e \in Keeping(o))
             => Count([clients EXCEPT ![n] = e], Keeping(o)) = Count(clients, Keeping(o))
    BY CountReplace
  <2>2. d = clients[n] /\ cs = [clients EXCEPT ![n] = e]
    BY <1>2, <1>3
  <2>3. QED
    BY <1>4, <2>1, <2>2, Zenon
<1>6. Count(clients, Keeping(o)) \in Nat /\ Count(cs, Keeping(o)) \in Nat
  <2>1. cs \in Seq(Clients)
    BY <1>1, <1>3, ExceptSeq
  <2>2. QED
    BY <2>1, CountNat
<1>7. ASSUME Latest.phase = "opening"
      PROVE  Count(cs, Keeping(o)) + One(o, {Latest.op}) = Count(clients, Keeping(o))
  <2>1. d \in Keeping(o) <=> o \in {d.op}
    BY <1>2, <1>7, KeepingFacts
  <2>2. One(o, {d.op}) = IF d \in Keeping(o) THEN 1 ELSE 0
    BY <2>1 DEF One
  <2>3. QED
    BY <1>2, <1>5, <1>6, <2>2
<1>8. ASSUME Latest.phase \in {"up", "failed", "closed", "ended"}
      PROVE  Count(cs, Keeping(o)) = Count(clients, Keeping(o))
  <2>1. d \notin Keeping(o)
    BY <1>2, <1>8, KeepingFacts
  <2>2. QED
    BY <1>5, <2>1
<1>9. QED
  BY <1>7, <1>8

\* A new client keeps the callback it was made for.
LEMMA KeptByFresh ==
  ASSUME Typed, Grows, NEW why \in Purposes, NEW op,
         op \in OpsOf(IF why = "connecting" THEN {"connect"} ELSE {"updateSas"})',
         clients' = Connecting(why, op), NEW o
  PROVE  InClients(o)' = InClients(o) + One(o, {op})
<1>1. PICK c \in Clients : /\ clients' = Append(clients, c)
                           /\ c.op = op /\ c.phase = "opening"
  <2>1. Fresh(why, op) \in Attempts' /\ clients' = Append(clients, Fresh(why, op))
    BY ConnectingFacts
  <2>2. Fresh(why, op) \in Clients
    BY <2>1 DEF Attempts
  <2>3. Fresh(why, op).op = op /\ Fresh(why, op).phase = "opening"
    BY DEF Fresh
  <2>4. QED
    BY <2>1, <2>2, <2>3
<1>2. c \in Keeping(o) <=> o \in {op}
  BY <1>1, KeepingFacts
<1>3. /\ c \in Keeping(o) => Count(Append(clients, c), Keeping(o)) = InClients(o) + 1
      /\ c \notin Keeping(o) => Count(Append(clients, c), Keeping(o)) = InClients(o)
  <2>1. clients \in Seq(Clients)
    BY DEF Typed, TypeOK
  <2>2. QED
    BY <2>1, CountAppend DEF InClients
<1>4. InClients(o)' = Count(Append(clients, c), Keeping(o))
  BY <1>1 DEF InClients, Keeping, Clients
<1>5. InClients(o) \in Nat
  BY Naturals
<1>6. CASE o \in {op}
  BY <1>2, <1>3, <1>4, <1>5, <1>6 DEF One
<1>7. CASE o \notin {op}
  BY <1>2, <1>3, <1>4, <1>5, <1>7 DEF One
<1>8. QED
  BY <1>6, <1>7

\* What the calls of end() keep when none or one of them counts.
LEMMA KeptByEnds ==
  ASSUME NEW o
  PROVE  /\ Active = {} => InEnds(o) = 0
         /\ \A e : Active = {e} => InEnds(o) = One(o, {e.op})
         /\ Active' = {} => InEnds(o)' = 0
         /\ \A e : Active' = {e} => InEnds(o)' = One(o, {e.op})
         /\ Active' = Active => InEnds(o)' = InEnds(o)
<1>1. EndingOps = {e.op : e \in Active} /\ EndingOps' = {e.op : e \in Active'}
  BY DEF EndingOps, Active
<1>2. InEnds(o) = One(o, EndingOps) /\ InEnds(o)' = One(o, EndingOps')
  BY DEF InEnds, One
<1>3. Active = {} => InEnds(o) = 0
  BY <1>1, <1>2 DEF One
<1>4. Active' = {} => InEnds(o)' = 0
  BY <1>1, <1>2 DEF One
<1>5. ASSUME NEW e, Active = {e}
      PROVE  InEnds(o) = One(o, {e.op})
  <2>1. EndingOps = {e.op}
    BY <1>1, <1>5
  <2>2. QED
    BY <1>2, <2>1
<1>6. ASSUME NEW e, Active' = {e}
      PROVE  InEnds(o)' = One(o, {e.op})
  <2>1. EndingOps' = {e.op}
    BY <1>1, <1>6
  <2>2. QED
    BY <1>2, <2>1
<1>7. Active' = Active => InEnds(o)' = InEnds(o)
  BY <1>1, <1>2
<1>8. QED
  BY <1>3, <1>4, <1>5, <1>6, <1>7

\* The sum of two sets that do not share an operation.
LEMMA OneUnion ==
  ASSUME NEW o, NEW S, NEW op, op \notin S
  PROVE  /\ One(o, S \cup {op}) = One(o, S) + One(o, {op})
         /\ One(o, S) \in Nat /\ One(o, {op}) \in Nat
         /\ One(o, {}) = 0
<1>1. One(o, S) \in Nat /\ One(o, {op}) \in Nat /\ One(o, {}) = 0
  BY DEF One
<1>2. CASE o \in S
  <2>1. One(o, S) = 1 /\ One(o, {op}) = 0 /\ One(o, S \cup {op}) = 1
    BY <1>2 DEF One
  <2>2. QED
    BY <1>1, <2>1
<1>3. CASE o \notin S
  <2>1. One(o, S) = 0 /\ One(o, S \cup {op}) = One(o, {op})
    BY <1>3 DEF One
  <2>2. QED
    BY <1>1, <2>1
<1>4. QED
  BY <1>2, <1>3

\* Where the callback of o is after a step that changes neither the wire nor
\* the subscribes.
LEMMA PlacesNext ==
  ASSUME Typed, Typed', Grows, NEW o \in Ops', NEW called, Answer(called), SameWire
  PROVE  /\ Places(o)' = (InAgenda(o)' + InQueue(o)') + InClients(o)' + InEnds(o)'
                           + InWire(o) + InSubs(o) + Told(o) + One(o, called)
         /\ One(o, called) \in Nat
<1>1. /\ InQueue(o)' \in Nat /\ InAgenda(o)' \in Nat /\ InClients(o)' \in Nat
      /\ InEnds(o)' \in Nat
  BY NaturalsNext
<1>2. InWire(o) \in Nat /\ InSubs(o) \in Nat /\ Told(o) \in Nat
  BY Naturals
<1>3. InWire(o)' = InWire(o) /\ InSubs(o)' = InSubs(o)
  BY DEF SameWire, InWire, InSubs, One
<1>4. Told(o)' = Told(o) + One(o, called)
  BY AnswerFacts
<1>5. One(o, called) \in Nat
  BY DEF One
<1>6. Places(o)' = InAgenda(o)' + InQueue(o)' + (InClients(o)' + InEnds(o)'
                     + InWire(o)' + InSubs(o)' + Told(o)')
  BY DEF Places, Around
<1>7. QED
  BY <1>1, <1>2, <1>3, <1>4, <1>5, <1>6

\* The transition to disconnecting hands the callback over to the call of end().
LEMMA ToDisconnectingAccounts ==
  ASSUME Typed, Typed', Grows, Active = {}, state # "disconnecting",
         NEW rest \in Seq(Inputs), NEW op \in Nat, NEW err \in BOOLEAN,
         NEW cs \in Seq(Clients), cs # <<>>,
         cs[Len(cs)].phase = "opening" => cs[Len(cs)].for = "connecting",
         cs[Len(cs)].phase # "aborted",
         ToDisconnecting(op, err, cs, rest), NEW o \in Ops'
  PROVE  /\ InEnds(o) = 0
         /\ Places(o)' = Count(rest, Of(o)) + InQueue(o) + Count(cs, Keeping(o))
                           + One(o, {op}) + InWire(o) + InSubs(o) + Told(o)
<1>1. /\ Goto("disconnecting", rest) /\ clients' = EndLast(cs)
      /\ ends' = ends \cup {LastEnd(op, err)} /\ Answer({}) /\ SameWire
  BY DEF ToDisconnecting, LastEnd, Quiet
<1>2. InAgenda(o)' + InQueue(o)' = Count(rest, Of(o)) + InQueue(o)
  BY <1>1, DueMoves
<1>3. InClients(o)' = Count(cs, Keeping(o))
  <2>1. Count(EndLast(cs), Keeping(o)) = Count(cs, Keeping(o))
    BY KeptByEnd
  <2>2. InClients(o)' = Count(EndLast(cs), Keeping(o))
    BY <1>1 DEF InClients, Keeping, Clients
  <2>3. QED
    BY <2>1, <2>2
<1>4. Active' = {LastEnd(op, err)} /\ LastEnd(op, err).op = op
  BY <1>1 DEF Active, LastEnd
<1>5. InEnds(o) = 0 /\ InEnds(o)' = One(o, {op})
  BY <1>4, KeptByEnds
<1>6. /\ Places(o)' = (InAgenda(o)' + InQueue(o)') + InClients(o)' + InEnds(o)'
                        + InWire(o) + InSubs(o) + Told(o) + One(o, {})
      /\ One(o, {}) = 0
  BY <1>1, PlacesNext DEF One
<1>7. /\ Count(rest, Of(o)) \in Nat /\ InQueue(o) \in Nat /\ Count(cs, Keeping(o)) \in Nat
      /\ One(o, {op}) \in Nat /\ InWire(o) \in Nat /\ InSubs(o) \in Nat /\ Told(o) \in Nat
  BY CountNat, Naturals DEF One
<1>8. QED
  BY <1>2, <1>3, <1>5, <1>6, <1>7

\* The transition to disconnected calls it and those of the publishes it purges.
LEMMA ToDisconnectedAccounts ==
  ASSUME Typed, Typed', Grows, Active' = {}, state # "disconnected",
         NEW rest \in Seq(Inputs), NEW op, op \notin wire, NEW err,
         NEW cs \in Seq(Clients), ToDisconnected(op, err, cs, rest), NEW o \in Ops'
  PROVE  Places(o)' = Count(rest, Of(o)) + InQueue(o) + Count(cs, Keeping(o))
                        + One(o, {op}) + InWire(o) + InSubs(o) + Told(o)
<1>1. /\ Goto("disconnected", rest) /\ clients' = cs /\ UNCHANGED subs
      /\ wire' = {} /\ Answer(wire \cup {op})
  BY DEF ToDisconnected
<1>2. InAgenda(o)' + InQueue(o)' = Count(rest, Of(o)) + InQueue(o)
  BY <1>1, DueMoves
<1>3. InClients(o)' = Count(cs, Keeping(o)) /\ InEnds(o)' = 0
  BY <1>1, KeptByEnds DEF InClients, Keeping, Clients
<1>4. Told(o)' = Told(o) + One(o, wire \cup {op})
  BY <1>1, AnswerFacts
<1>5. One(o, wire \cup {op}) = InWire(o) + One(o, {op})
  BY OneUnion DEF InWire
<1>6. InWire(o)' = 0 /\ InSubs(o)' = InSubs(o)
  BY <1>1 DEF InWire, InSubs, One
<1>7. Places(o)' = InAgenda(o)' + InQueue(o)' + (InClients(o)' + InEnds(o)'
                     + InWire(o)' + InSubs(o)' + Told(o)')
  BY DEF Places, Around
<1>8. /\ Count(rest, Of(o)) \in Nat /\ InQueue(o) \in Nat /\ Count(cs, Keeping(o)) \in Nat
      /\ One(o, {op}) \in Nat /\ InWire(o) \in Nat /\ InSubs(o) \in Nat /\ Told(o) \in Nat
      /\ InAgenda(o)' \in Nat /\ InQueue(o)' \in Nat
  BY CountNat, Naturals, NaturalsNext DEF One
<1>9. Told(o)' = Told(o) + InWire(o) + One(o, {op})
  BY <1>4, <1>5, <1>8
<1>10. Places(o)' = (Count(rest, Of(o)) + InQueue(o)) + (Count(cs, Keeping(o)) + InSubs(o)
                       + (Told(o) + InWire(o) + One(o, {op})))
  BY <1>2, <1>3, <1>6, <1>7, <1>8, <1>9
<1>11. QED
  BY <1>8, <1>10, SMTT(60)

\* The transition to connected calls the callback.
LEMMA ToConnectedAccounts ==
  ASSUME Typed, Typed', Grows, state # "connected",
         NEW rest \in Seq(Inputs), NEW op, NEW cs \in Seq(Clients), cs # <<>>,
         ToConnected(op, cs, rest), NEW o \in Ops'
  PROVE  Places(o)' = Count(rest, Of(o)) + InQueue(o) + Count(cs, Keeping(o))
                        + One(o, {op}) + InEnds(o) + InWire(o) + InSubs(o) + Told(o)
<1>1. /\ Goto("connected", rest) /\ clients' = Listen(cs, "close")
      /\ Answer({op}) /\ SameWire /\ UNCHANGED ends
  BY DEF ToConnected
<1>2. InAgenda(o)' + InQueue(o)' = Count(rest, Of(o)) + InQueue(o)
  BY <1>1, DueMoves
<1>3. InClients(o)' = Count(cs, Keeping(o))
  <2>1. Count(Listen(cs, "close"), Keeping(o)) = Count(cs, Keeping(o))
    BY KeptByEnd DEF Listeners
  <2>2. InClients(o)' = Count(Listen(cs, "close"), Keeping(o))
    BY <1>1 DEF InClients, Keeping, Clients
  <2>3. QED
    BY <2>1, <2>2
<1>4. InEnds(o)' = InEnds(o)
  BY <1>1, KeptByEnds DEF Active
<1>5. /\ Places(o)' = (InAgenda(o)' + InQueue(o)') + InClients(o)' + InEnds(o)'
                        + InWire(o) + InSubs(o) + Told(o) + One(o, {op})
      /\ One(o, {op}) \in Nat
  BY <1>1, PlacesNext
<1>6. /\ Count(rest, Of(o)) \in Nat /\ InQueue(o) \in Nat /\ Count(cs, Keeping(o)) \in Nat
      /\ InEnds(o) \in Nat /\ InWire(o) \in Nat /\ InSubs(o) \in Nat /\ Told(o) \in Nat
  BY CountNat, Naturals
<1>7. QED
  BY <1>2, <1>3, <1>4, <1>5, <1>6, SMTT(60)

\* What a step leaves alone keeps what it kept.
LEMMA SamePlaces ==
  ASSUME NEW o
  PROVE  /\ clients' = clients => InClients(o)' = InClients(o)
         /\ ends' = ends => InEnds(o)' = InEnds(o)
         /\ wire' = wire => InWire(o)' = InWire(o)
         /\ subs' = subs => InSubs(o)' = InSubs(o)
         /\ queue' = queue => InQueue(o)' = InQueue(o)
         /\ agenda' = <<>> => InAgenda(o)' = 0
         /\ agenda = <<>> => InAgenda(o) = 0
<1>1. clients' = clients => InClients(o)' = InClients(o)
  BY DEF InClients, Keeping, Clients
<1>2. ends' = ends => InEnds(o)' = InEnds(o)
  BY KeptByEnds DEF Active
<1>3. /\ wire' = wire => InWire(o)' = InWire(o)
      /\ subs' = subs => InSubs(o)' = InSubs(o)
  BY DEF InWire, InSubs, One
<1>4. queue' = queue => InQueue(o)' = InQueue(o)
  BY DEF InQueue, Of, Inputs
<1>5. Count(<<>>, Of(o)) = 0 /\ Count(<<>>, Of(o)') = 0
  BY CountEmpty
<1>6. /\ agenda' = <<>> => InAgenda(o)' = 0
      /\ agenda = <<>> => InAgenda(o) = 0
  BY <1>5 DEF InAgenda
<1>7. QED
  BY <1>1, <1>2, <1>3, <1>4, <1>6

\* The callback of o as an input is handled: with it, or in its place already.
Before(o, input, rest) ==
  Count(rest, Of(o)) + InQueue(o) + One(o, {input.op}) + Around(o)

\* What is counted before is a natural each.
LEMMA BeforeFacts ==
  ASSUME Typed, NEW o, NEW input, NEW rest \in Seq(Inputs)
  PROVE  /\ Count(rest, Of(o)) \in Nat /\ One(o, {input.op}) \in Nat
         /\ InQueue(o) \in Nat /\ InClients(o) \in Nat /\ InEnds(o) \in Nat
         /\ InWire(o) \in Nat /\ InSubs(o) \in Nat /\ Told(o) \in Nat
         /\ Before(o, input, rest)
              = Count(rest, Of(o)) + InQueue(o) + InClients(o) + One(o, {input.op})
                  + InEnds(o) + InWire(o) + InSubs(o) + Told(o)
<1>1. /\ Count(rest, Of(o)) \in Nat /\ One(o, {input.op}) \in Nat
      /\ InQueue(o) \in Nat /\ InClients(o) \in Nat /\ InEnds(o) \in Nat
      /\ InWire(o) \in Nat /\ InSubs(o) \in Nat /\ Told(o) \in Nat
  BY CountNat, Naturals DEF One
<1>2. QED
  BY <1>1, SMTT(60) DEF Before, Around

\* A handler that only answers, or only defers, the input.
LEMMA HandledInPlace ==
  ASSUME Typed, Typed', Grows, NEW input \in Inputs, NEW rest \in Seq(Inputs),
         NEW o \in Ops', UNCHANGED <<clients, ends>>, SameWire,
         \/ Stay(rest) /\ Answer({input.op})
         \/ deferUntilTransition(input, rest) /\ Answer({})
  PROVE  Places(o)' = Before(o, input, rest)
<1>1. InClients(o)' = InClients(o) /\ InEnds(o)' = InEnds(o)
  BY SamePlaces
<1>2. /\ Count(rest, Of(o)) \in Nat /\ One(o, {input.op}) \in Nat
      /\ InQueue(o) \in Nat /\ InClients(o) \in Nat /\ InEnds(o) \in Nat
      /\ InWire(o) \in Nat /\ InSubs(o) \in Nat /\ Told(o) \in Nat
      /\ Before(o, input, rest)
           = Count(rest, Of(o)) + InQueue(o) + InClients(o) + One(o, {input.op})
               + InEnds(o) + InWire(o) + InSubs(o) + Told(o)
  BY BeforeFacts
<1>3. CASE Stay(rest) /\ Answer({input.op})
  <2>1. InAgenda(o)' + InQueue(o)' = Count(rest, Of(o)) + InQueue(o)
    BY <1>3, DueMoves
  <2>2. Places(o)' = (InAgenda(o)' + InQueue(o)') + InClients(o)' + InEnds(o)'
                       + InWire(o) + InSubs(o) + Told(o) + One(o, {input.op})
    BY <1>3, PlacesNext
  <2>3. QED
    BY <1>1, <1>2, <2>1, <2>2, SMTT(60)
<1>4. CASE deferUntilTransition(input, rest) /\ Answer({})
  <2>1. InAgenda(o)' + InQueue(o)'
          = Count(rest, Of(o)) + One(o, {input.op}) + InQueue(o)
    BY <1>4, DueMoves
  <2>2. /\ Places(o)' = (InAgenda(o)' + InQueue(o)') + InClients(o)' + InEnds(o)'
                          + InWire(o) + InSubs(o) + Told(o) + One(o, {})
        /\ One(o, {}) = 0
    BY <1>4, PlacesNext DEF One
  <2>3. QED
    BY <1>1, <1>2, <2>1, <2>2
<1>5. QED
  BY <1>3, <1>4

\* A renewal ends the connection: the call of end() keeps the callback.
LEMMA RenewalAccounts ==
  ASSUME Typed, Typed', Grows, Active = {}, NEW input \in Inputs, NEW rest \in Seq(Inputs),
         NEW o \in Ops', clients # <<>>, Latest.phase \in {"up", "ended"},
         clients' = EndLast(clients), NEW then \in {"reconnect", "forced"},
         ends' = ends \cup {Renewal(then, input.op)},
         Stay(rest) \/ (\E s : Goto(s, rest)), Quiet, SameWire
  PROVE  Places(o)' = Before(o, input, rest)
<1>1. InAgenda(o)' + InQueue(o)' = Count(rest, Of(o)) + InQueue(o)
  BY DueMoves
<1>2. InClients(o)' = InClients(o)
  <2>1. clients \in Seq(Clients)
    BY DEF Typed, TypeOK
  <2>2. Count(EndLast(clients), Keeping(o)) = Count(clients, Keeping(o))
    BY <2>1, KeptByEnd DEF Latest
  <2>3. InClients(o)' = Count(EndLast(clients), Keeping(o))
    BY DEF InClients, Keeping, Clients
  <2>4. QED
    BY <2>2, <2>3 DEF InClients
<1>3. Active' = {Renewal(then, input.op)} /\ Renewal(then, input.op).op = input.op
  BY DEF Active, Renewal
<1>4. InEnds(o) = 0 /\ InEnds(o)' = One(o, {input.op})
  BY <1>3, KeptByEnds
<1>5. /\ Places(o)' = (InAgenda(o)' + InQueue(o)') + InClients(o)' + InEnds(o)'
                        + InWire(o) + InSubs(o) + Told(o) + One(o, {})
      /\ One(o, {}) = 0
  BY PlacesNext DEF Quiet, One
<1>6. /\ Count(rest, Of(o)) \in Nat /\ One(o, {input.op}) \in Nat
      /\ InQueue(o) \in Nat /\ InClients(o) \in Nat /\ InEnds(o) \in Nat
      /\ InWire(o) \in Nat /\ InSubs(o) \in Nat /\ Told(o) \in Nat
      /\ Before(o, input, rest)
           = Count(rest, Of(o)) + InQueue(o) + InClients(o) + One(o, {input.op})
               + InEnds(o) + InWire(o) + InSubs(o) + Told(o)
  BY BeforeFacts
<1>7. QED
  BY <1>1, <1>2, <1>4, <1>5, <1>6

\* A publish or subscribe of an operation that is nowhere else goes on the wire.
LEMMA SentAccounts ==
  ASSUME Typed, Typed', Grows, NEW input \in Inputs, NEW rest \in Seq(Inputs),
         NEW o \in Ops', Before(o, input, rest) = 1,
         Stay(rest), Quiet, UNCHANGED <<clients, ends>>,
         \/ wire' = wire \cup {input.op} /\ UNCHANGED subs
         \/ subs' = subs \cup {input.op} /\ UNCHANGED wire
  PROVE  Places(o)' = 1
<1>1. /\ Count(rest, Of(o)) \in Nat /\ One(o, {input.op}) \in Nat
      /\ InQueue(o) \in Nat /\ InClients(o) \in Nat /\ InEnds(o) \in Nat
      /\ InWire(o) \in Nat /\ InSubs(o) \in Nat /\ Told(o) \in Nat
      /\ Count(rest, Of(o)) + InQueue(o) + InClients(o) + One(o, {input.op})
           + InEnds(o) + InWire(o) + InSubs(o) + Told(o) = 1
  BY BeforeFacts
<1>2. InAgenda(o)' + InQueue(o)' = Count(rest, Of(o)) + InQueue(o)
  BY DueMoves
<1>3. InClients(o)' = InClients(o) /\ InEnds(o)' = InEnds(o)
  BY SamePlaces
<1>4. Told(o)' = Told(o)
  BY QuietFacts
<1>5. InWire(o)' + InSubs(o)' = InWire(o) + InSubs(o) + One(o, {input.op})
  <2>1. o = input.op => InWire(o) = 0 /\ InSubs(o) = 0
    <3>1. o = input.op => One(o, {input.op}) = 1
      BY DEF One
    <3>2. QED
      BY <1>1, <3>1
  <2>2. o = input.op => o \notin wire /\ o \notin subs
    BY <2>1 DEF InWire, InSubs, One
  <2>3. CASE wire' = wire \cup {input.op} /\ subs' = subs
    <3>1. InWire(o)' = InWire(o) + One(o, {input.op}) /\ InSubs(o)' = InSubs(o)
      BY <2>2, <2>3 DEF InWire, InSubs, One
    <3>2. QED
      BY <1>1, <3>1
  <2>4. CASE subs' = subs \cup {input.op} /\ wire' = wire
    <3>1. InSubs(o)' = InSubs(o) + One(o, {input.op}) /\ InWire(o)' = InWire(o)
      BY <2>2, <2>4 DEF InWire, InSubs, One
    <3>2. QED
      BY <1>1, <3>1
  <2>5. QED
    BY <2>3, <2>4
<1>6. Places(o)' = InAgenda(o)' + InQueue(o)' + (InClients(o)' + InEnds(o)'
                     + InWire(o)' + InSubs(o)' + Told(o)')
  BY DEF Places, Around
<1>7. InWire(o)' \in Nat /\ InSubs(o)' \in Nat
  BY NaturalsNext
<1>8. Places(o)' = (Count(rest, Of(o)) + InQueue(o)) + (InClients(o) + InEnds(o)
                     + (InWire(o) + InSubs(o) + One(o, {input.op})) + Told(o))
  BY <1>1, <1>2, <1>3, <1>4, <1>5, <1>6, <1>7
<1>9. QED
  BY <1>1, <1>8, SMTT(60)

\* A call, made now or replayed, has its callback in one place afterwards.
LEMMA HandleAccounts ==
  ASSUME Typed, Typed', Grows, Settled,
         NEW input \in Items', input.kind \in AllKinds, NEW rest \in Seq(Inputs),
         handle(input, rest), NEW o \in Ops', Before(o, input, rest) = 1
  PROVE  Places(o)' = 1
<1>1. /\ input \in Inputs /\ input.op \in Nat /\ input.kind # "errorEvent"
      /\ input.kind \notin {"closeEvent", "forceDisconnect"}
      /\ clients \in Seq(Clients)
      /\ input.kind = "connect" => input.op \in OpsOf({"connect"})'
  BY ItemFacts DEF Typed, TypeOK, Inputs, AllKinds
<1>2. ASSUME UNCHANGED <<clients, ends>>, SameWire,
             \/ Stay(rest) /\ Answer({input.op})
             \/ deferUntilTransition(input, rest) /\ Quiet
      PROVE  Places(o)' = 1
  BY <1>1, <1>2, HandledInPlace DEF Quiet
<1>3. ASSUME \/ state = "connecting" /\ Opening({"connecting"})
             \/ state = "connected" /\ Connection,
             Active = {}, ToDisconnecting(input.op, FALSE, clients, rest)
      PROVE  Places(o)' = 1
  <2>1. /\ clients # <<>> /\ state # "disconnecting"
        /\ clients[Len(clients)].phase = "opening"
             => clients[Len(clients)].for = "connecting"
        /\ clients[Len(clients)].phase # "aborted"
    BY <1>3 DEF Opening, Connection, Latest
  <2>2. /\ InEnds(o) = 0
        /\ Places(o)' = Count(rest, Of(o)) + InQueue(o) + Count(clients, Keeping(o))
                          + One(o, {input.op}) + InWire(o) + InSubs(o) + Told(o)
    BY <1>1, <1>3, <2>1, ToDisconnectingAccounts
  <2>3. Count(clients, Keeping(o)) = InClients(o)
    BY DEF InClients
  <2>4. /\ Count(rest, Of(o)) \in Nat /\ One(o, {input.op}) \in Nat
        /\ InQueue(o) \in Nat /\ InClients(o) \in Nat /\ InEnds(o) \in Nat
        /\ InWire(o) \in Nat /\ InSubs(o) \in Nat /\ Told(o) \in Nat
        /\ Count(rest, Of(o)) + InQueue(o) + InClients(o) + One(o, {input.op})
             + InEnds(o) + InWire(o) + InSubs(o) + Told(o) = 1
    BY BeforeFacts
  <2>5. QED
    BY <2>2, <2>3, <2>4
<1>4. CASE HandleDisconnected(input, rest)
  <2>1. ends' = ends /\ SameWire
    BY <1>4 DEF HandleDisconnected
  <2>2. CASE /\ Goto("connecting", rest) /\ input.kind = "connect" /\ Quiet
             /\ clients' = Connecting("connecting", input.op)
    <3>1. InClients(o)' = InClients(o) + One(o, {input.op})
      BY <1>1, <2>2, KeptByFresh DEF Purposes
    <3>2. InEnds(o)' = InEnds(o)
      BY <2>1, SamePlaces
    <3>3. InAgenda(o)' + InQueue(o)' = Count(rest, Of(o)) + InQueue(o)
      BY <2>2, DueMoves
    <3>4. /\ Places(o)' = (InAgenda(o)' + InQueue(o)') + InClients(o)' + InEnds(o)'
                            + InWire(o) + InSubs(o) + Told(o) + One(o, {})
          /\ One(o, {}) = 0
      BY <2>1, <2>2, PlacesNext DEF Quiet, One
    <3>5. /\ Count(rest, Of(o)) \in Nat /\ One(o, {input.op}) \in Nat
          /\ InQueue(o) \in Nat /\ InClients(o) \in Nat /\ InEnds(o) \in Nat
          /\ InWire(o) \in Nat /\ InSubs(o) \in Nat /\ Told(o) \in Nat
          /\ Count(rest, Of(o)) + InQueue(o) + InClients(o) + One(o, {input.op})
               + InEnds(o) + InWire(o) + InSubs(o) + Told(o) = 1
      BY BeforeFacts
    <3>6. QED
      BY <3>1, <3>2, <3>3, <3>4, <3>5
  <2>3. CASE Answer({input.op}) /\ Stay(rest) /\ clients' = clients
    BY <1>2, <2>1, <2>3
  <2>4. QED
    BY <1>4, <2>2, <2>3 DEF HandleDisconnected
<1>5. CASE HandleConnecting(input, rest)
  <2>1. state = "connecting" /\ Opening({"connecting"}) /\ Active = {}
    BY <1>5 DEF HandleConnecting, Settled
  <2>2. QED
    BY <1>2, <1>3, <1>5, <2>1 DEF HandleConnecting
<1>6. CASE HandleConnected(input, rest)
  <2>1. state = "connected" /\ Connection /\ Active = {}
    BY <1>6 DEF HandleConnected, Settled
  <2>2. CASE Answer({input.op}) /\ Stay(rest) /\ SameWire /\ UNCHANGED <<clients, ends>>
    BY <1>2, <2>2
  <2>3. CASE ToDisconnecting(input.op, FALSE, clients, rest)
    BY <1>3, <2>1, <2>3
  <2>4. CASE /\ Stay(rest) /\ Quiet /\ UNCHANGED <<clients, ends>>
             /\ \/ wire' = wire \cup {input.op} /\ UNCHANGED subs
                \/ subs' = subs \cup {input.op} /\ UNCHANGED wire
    BY <1>1, <2>4, SentAccounts
  <2>5. CASE /\ Goto("reconnecting", rest) /\ clients' = EndLast(clients)
             /\ ends' = ends \cup {Renewal("reconnect", input.op)}
             /\ Quiet /\ SameWire
    <3>1. clients # <<>> /\ Latest.phase \in {"up", "ended"}
      BY <2>1 DEF Connection
    <3>2. Places(o)' = Before(o, input, rest)
      BY <1>1, <2>1, <2>5, <3>1, RenewalAccounts
    <3>3. QED
      BY <3>2
  <2>6. QED
    BY <1>1, <1>6, <2>2, <2>3, <2>4, <2>5 DEF HandleConnected, Renewal
<1>7. CASE HandleDisconnecting(input, rest)
  BY <1>2, <1>7 DEF HandleDisconnecting
<1>8. CASE HandleReconnecting(input, rest)
  BY <1>1, <1>2, <1>8 DEF HandleReconnecting
<1>9. QED
  BY <1>1, <1>4, <1>5, <1>6, <1>7, <1>8 DEF handle

\* The callback of a call made now is nowhere yet.
LEMMA NewAccounts ==
  ASSUME Typed, NEW kind \in AllKinds, ops' = Append(ops, kind), Accounted,
         NEW o \in Ops'
  PROVE  Before(o, Input(kind), agenda) = 1
<1>1. /\ agenda \in Seq(Inputs) /\ Input(kind).op = Len(ops) + 1
      /\ Ops' = Ops \cup {Len(ops) + 1} /\ Len(ops) + 1 \notin Ops
  BY CallFacts DEF Typed, TypeOK
<1>2. /\ Count(agenda, Of(o)) \in Nat /\ One(o, {Input(kind).op}) \in Nat
      /\ InQueue(o) \in Nat /\ InClients(o) \in Nat /\ InEnds(o) \in Nat
      /\ InWire(o) \in Nat /\ InSubs(o) \in Nat /\ Told(o) \in Nat
      /\ Before(o, Input(kind), agenda)
           = Count(agenda, Of(o)) + InQueue(o) + InClients(o) + One(o, {Input(kind).op})
               + InEnds(o) + InWire(o) + InSubs(o) + Told(o)
  BY <1>1, BeforeFacts
<1>3. CASE o \in Ops
  <2>1. One(o, {Input(kind).op}) = 0
    BY <1>1, <1>3 DEF One
  <2>2. InAgenda(o) + InQueue(o) + (InClients(o) + InEnds(o) + InWire(o) + InSubs(o)
          + Told(o)) = 1
    BY <1>3 DEF Accounted, Places, Around
  <2>3. Count(agenda, Of(o)) = InAgenda(o)
    BY DEF InAgenda
  <2>4. QED
    BY <1>2, <2>1, <2>2, <2>3, SMTT(60)
<1>4. CASE o = Len(ops) + 1
  <2>1. One(o, {Input(kind).op}) = 1
    BY <1>1, <1>4 DEF One
  <2>2. o \notin Ops /\ o # NoOp
    <3>1. ops' \in Seq(AllKinds)
      BY CallFacts, GrowsFacts DEF Typed, TypeOK
    <3>2. o # NoOp
      BY <3>1, LenProperties DEF Ops, NoOp
    <3>3. QED
      BY <1>1, <1>4, <3>2
  <2>3. /\ \A kinds : OpsOf(kinds) \subseteq Ops
        /\ \A kinds : o \notin OpsOf(kinds)
    BY <2>2 DEF OpsOf
  <2>4. Of(o) \cap Items = {}
    BY <2>2, <2>3 DEF Of, Items
  <2>5. Keeping(o) \cap Attempts = {}
    BY <2>3 DEF Keeping, Attempts
  <2>6. Count(agenda, Of(o)) = 0 /\ InQueue(o) = 0 /\ InClients(o) = 0
    <3>1. agenda \in Seq(Items) /\ queue \in Seq(Items) /\ clients \in Seq(Attempts)
      BY DEF Typed, Shapes
    <3>2. QED
      BY <2>4, <2>5, <3>1, CountNone DEF InQueue, InClients
  <2>7. InEnds(o) = 0
    <3>1. \A e \in ends : e.op # o
      BY <2>2, <2>3 DEF Typed, Shapes, Endings
    <3>2. o \notin EndingOps
      BY <3>1 DEF EndingOps
    <3>3. QED
      BY <3>2 DEF InEnds, One
  <2>8. InWire(o) = 0 /\ InSubs(o) = 0
    <3>1. o \notin wire /\ o \notin subs
      BY <2>2 DEF Typed, TypeOK
    <3>2. QED
      BY <3>1 DEF InWire, InSubs, One
  <2>9. Told(o) = 0
    BY <2>2 DEF Told, Typed, TypeOK
  <2>10. QED
    BY <1>2, <2>1, <2>6, <2>7, <2>8, <2>9
<1>5. QED
  BY <1>1, <1>3, <1>4

\* A call keeps what is accounted for.
LEMMA CallAccounts ==
  ASSUME Typed, Typed', Accounted, Control, ~crashed, NEW kind \in AllKinds, Call(kind)
  PROVE  Accounted'
<1>1. Settled
  BY IdleSettled DEF Call
<1>2. handle(Input(kind), agenda) /\ ops' = Append(ops, kind)
  BY DEF Call, Input
<1>3. Grows /\ Input(kind) \in Items' /\ Input(kind).kind = kind /\ agenda \in Seq(Inputs)
  BY <1>2, CallFacts DEF Typed, TypeOK
<1>4. ASSUME NEW o \in Ops'
      PROVE  Places(o)' = 1
  <2>1. Before(o, Input(kind), agenda) = 1
    BY <1>2, NewAccounts
  <2>2. QED
    BY <1>1, <1>2, <1>3, <2>1, HandleAccounts
<1>5. QED
  BY <1>4 DEF Accounted

\* So does the replay of a call, or of what the code reported.
LEMMA ReplayAccounts ==
  ASSUME Typed, Typed', Accounted, Control, ~crashed, Replay
  PROVE  Accounted'
<1>1. /\ agenda # <<>> /\ handle(Head(agenda), Tail(agenda))
      /\ UNCHANGED ops /\ Grows
  BY DEF Replay, Idle, Grows
<1>2. /\ agenda \in Seq(Inputs) /\ clients \in Seq(Clients) /\ <<>> \in Seq(Inputs)
      /\ Ops' = Ops
  BY <1>1 DEF Typed, TypeOK, Ops
<1>3. PICK input \in Inputs : input = Head(agenda)
  BY <1>1, <1>2, HeadTailProperties
<1>4. PICK rest \in Seq(Inputs) : rest = Tail(agenda)
  BY <1>1, <1>2, HeadTailProperties
<1>5. input \in Items' /\ input \in Items /\ handle(input, rest)
  BY <1>1, <1>3, <1>4, ReplayFacts
<1>6. ASSUME NEW o \in Ops
      PROVE  Before(o, input, rest) = 1
  <2>1. /\ Count(rest, Of(o)) \in Nat /\ One(o, {input.op}) \in Nat
        /\ InQueue(o) \in Nat /\ InClients(o) \in Nat /\ InEnds(o) \in Nat
        /\ InWire(o) \in Nat /\ InSubs(o) \in Nat /\ Told(o) \in Nat
        /\ Before(o, input, rest)
             = Count(rest, Of(o)) + InQueue(o) + InClients(o) + One(o, {input.op})
                 + InEnds(o) + InWire(o) + InSubs(o) + Told(o)
    BY BeforeFacts
  <2>2. InAgenda(o) = One(o, {input.op}) + Count(rest, Of(o))
    <3>1. Count(agenda, Of(o)) = (IF Head(agenda) \in Of(o) THEN 1 ELSE 0)
                                   + Count(Tail(agenda), Of(o))
      BY <1>1, <1>2, CountHeadTail
    <3>2. input \in Of(o) <=> o \in {input.op}
      BY DEF Of
    <3>3. (IF input \in Of(o) THEN 1 ELSE 0) = One(o, {input.op})
      BY <3>2 DEF One
    <3>4. QED
      BY <1>3, <1>4, <3>1, <3>3 DEF InAgenda
  <2>3. InAgenda(o) + InQueue(o) + (InClients(o) + InEnds(o) + InWire(o) + InSubs(o)
          + Told(o)) = 1
    BY DEF Accounted, Places, Around
  <2>4. QED
    BY <2>1, <2>2, <2>3, SMTT(60)
<1>7. ASSUME Calls(agenda), Settled, NEW o \in Ops'
      PROVE  Places(o)' = 1
  <2>1. input.kind \in AllKinds
    BY <1>1, <1>2, <1>3, <1>7, CallsFacts
  <2>2. Before(o, input, rest) = 1
    BY <1>2, <1>6
  <2>3. QED
    BY <1>1, <1>5, <1>7, <2>1, <2>2, HandleAccounts
<1>8. ASSUME Lost, NEW o \in Ops'
      PROVE  Places(o)' = 1
  <2>1. /\ state = "connected" /\ Active = {} /\ clients # <<>> /\ rest = <<>>
        /\ clients[Len(clients)].phase \in {"closed", "failed"}
        /\ input.kind \in {"errorEvent", "closeEvent"}
    BY <1>3, <1>4, <1>8 DEF Lost, Alone, Latest
  <2>2. input.op = NoOp /\ o # NoOp /\ NoOp \notin wire
    <3>1. NoOp \notin Ops
      BY OpsFacts DEF Typed, TypeOK
    <3>2. QED
      BY <1>2, <1>5, <2>1, <3>1 DEF Items, AllKinds, Typed, TypeOK
  <2>3. One(o, {NoOp}) = 0 /\ One(o, {input.op}) = 0
    BY <2>2 DEF One
  <2>4. /\ Count(rest, Of(o)) \in Nat
        /\ InQueue(o) \in Nat /\ InClients(o) \in Nat /\ InEnds(o) \in Nat
        /\ InWire(o) \in Nat /\ InSubs(o) \in Nat /\ Told(o) \in Nat
        /\ Count(rest, Of(o)) + InQueue(o) + InClients(o) + 0
             + InEnds(o) + InWire(o) + InSubs(o) + Told(o) = 1
    BY <1>2, <1>6, <2>3, BeforeFacts
  <2>5. InEnds(o) = 0 /\ Count(clients, Keeping(o)) = InClients(o)
    BY <2>1, KeptByEnds DEF InClients
  <2>6. CASE input.kind = "errorEvent"
    <3>1. ToDisconnecting(NoOp, TRUE, clients, rest)
      BY <1>5, <2>6 DEF handle
    <3>2. Places(o)' = Count(rest, Of(o)) + InQueue(o) + Count(clients, Keeping(o))
                         + One(o, {NoOp}) + InWire(o) + InSubs(o) + Told(o)
      <4>1. /\ state # "disconnecting" /\ clients[Len(clients)].phase # "opening"
            /\ clients[Len(clients)].phase # "aborted" /\ NoOp \in Nat /\ TRUE \in BOOLEAN
        BY <2>1 DEF NoOp
      <4>2. QED
        BY <1>1, <1>2, <2>1, <3>1, <4>1, ToDisconnectingAccounts, ZenonT(60)
    <3>3. QED
      BY <2>3, <2>4, <2>5, <3>2
  <2>7. CASE input.kind = "closeEvent"
    <3>1. HandleConnected(input, rest)
      BY <1>5, <2>1, <2>7 DEF handle, HandleDisconnected, HandleConnecting,
         HandleDisconnecting, HandleReconnecting
    <3>2. ToDisconnected(NoOp, TRUE, clients, rest) /\ ends' = ends
      BY <2>7, <3>1 DEF HandleConnected
    <3>3. Active' = {}
      BY <2>1, <3>2 DEF Active
    <3>4. Places(o)' = Count(rest, Of(o)) + InQueue(o) + Count(clients, Keeping(o))
                         + One(o, {NoOp}) + InWire(o) + InSubs(o) + Told(o)
      <4>1. /\ state # "disconnected" /\ NoOp \notin wire /\ o \in Ops'
            /\ ToDisconnected(NoOp, TRUE, clients, rest)
        BY <1>2, <2>1, <2>2, <3>2
      <4>2. Grows /\ clients \in Seq(Clients)
        BY <1>1, <1>2
      <4>3. QED
        BY <3>3, <4>1, <4>2, ToDisconnectedAccounts, ZenonT(60)
    <3>5. QED
      BY <2>3, <2>4, <2>5, <3>4
  <2>8. QED
    BY <2>1, <2>6, <2>7
<1>9. ASSUME Overdue, NEW o \in Ops'
      PROVE  Places(o)' = 1
  <2>1. /\ state = "reconnecting" /\ Active = {} /\ LastEnded /\ rest = <<>>
        /\ input.kind = "forceDisconnect"
    BY <1>3, <1>4, <1>9 DEF Overdue, Alone
  <2>2. HandleReconnecting(input, rest)
    BY <1>5, <2>1 DEF handle, HandleDisconnected, HandleConnecting,
       HandleDisconnecting, HandleConnected
  <2>3. /\ clients' = EndLast(clients) /\ Stay(rest) /\ Quiet /\ SameWire
        /\ ends' = ends \cup {Renewal("forced", input.op)}
    BY <2>1, <2>2 DEF HandleReconnecting, Renewal
  <2>4. clients # <<>> /\ Latest.phase \in {"up", "ended"}
    BY <2>1 DEF LastEnded
  <2>5. Places(o)' = Before(o, input, rest)
    BY <1>1, <2>1, <2>3, <2>4, RenewalAccounts
  <2>6. QED
    BY <1>2, <1>6, <2>5
<1>10. QED
  BY <1>7, <1>8, <1>9 DEF Control, Accounted

\* Between events, where the callback of a call is.
LEMMA IdlePlaces ==
  ASSUME Typed, Accounted, Idle, NEW o \in Ops
  PROVE  /\ InQueue(o) \in Nat /\ InClients(o) \in Nat /\ InEnds(o) \in Nat
         /\ InWire(o) \in Nat /\ InSubs(o) \in Nat /\ Told(o) \in Nat
         /\ InQueue(o) + InClients(o) + InEnds(o) + InWire(o) + InSubs(o) + Told(o) = 1
<1>1. /\ InQueue(o) \in Nat /\ InClients(o) \in Nat /\ InEnds(o) \in Nat
      /\ InWire(o) \in Nat /\ InSubs(o) \in Nat /\ Told(o) \in Nat
  BY Naturals
<1>2. InAgenda(o) + InQueue(o) + (InClients(o) + InEnds(o) + InWire(o) + InSubs(o)
        + Told(o)) = 1
  BY DEF Accounted, Places, Around
<1>3. InAgenda(o) = 0
  BY SamePlaces DEF Idle
<1>4. QED
  BY <1>1, <1>2, <1>3

\* A client that fails hands its callback over, or calls it; one that was
\* connected has none.
LEMMA ReportAccounts ==
  ASSUME Typed, Typed', Accounted, Control, ~crashed,
         NEW c \in DOMAIN clients, clients[c].phase \in {"opening", "up", "failed"},
         NEW phase \in {"failed", "stale", "closed"},
         phase = "stale" =>
           "opening" \in clients[c].on /\ clients[c].for # "connecting",
         NEW listener \in {"error", "close"}, NEW event \in Events,
         Report(c, phase, listener, event), NEW o \in Ops
  PROVE  Places(o)' = 1
<1>1. Idle /\ ops' = ops /\ Grows /\ Ops' = Ops
  BY DEF Report, Grows, Ops
<1>2. /\ c = Len(clients) /\ clients # <<>> /\ Latest = clients[c] /\ Active = {}
      /\ Older(clients)
      /\ \/ state = "connecting" /\ Opening({"connecting"})
         \/ state = "reconnecting" /\ Opening({"reconnecting", "forced"})
         \/ state = "connected" /\ Connection
  BY <1>1, Reporter
<1>3. PICK cs : cs = [clients EXCEPT ![Len(clients)].phase = phase]
  OBVIOUS
<1>4. /\ clients \in Seq(Clients) /\ {"opening", "connect"} \in SUBSET Listeners
      /\ phase = "stale" =>
           Latest.on = {"opening", "connect"} /\ Latest.for # "connecting"
  BY <1>2 DEF Typed, TypeOK, Opening, Connection, Listeners
<1>5. cs \in Seq(Clients) /\ cs # <<>> /\ cs[Len(cs)].phase = phase
  BY <1>2, <1>3, <1>4, MarkedFacts
<1>6. /\ Latest.phase = "opening" =>
           Count(cs, Keeping(o)) + One(o, {Latest.op}) = Count(clients, Keeping(o))
      /\ Latest.phase \in {"up", "failed", "closed", "ended"} =>
           Count(cs, Keeping(o)) = Count(clients, Keeping(o))
  BY <1>2, <1>3, <1>4, KeptByMark
<1>7. /\ Count(clients, Keeping(o)) = InClients(o) /\ Count(cs, Keeping(o)) \in Nat
      /\ One(o, {Latest.op}) \in Nat /\ Count(<<>>, Of(o)) = 0
  BY <1>5, CountNat, CountEmpty DEF InClients, One
<1>8. /\ InQueue(o) \in Nat /\ InClients(o) \in Nat /\ InEnds(o) \in Nat
      /\ InWire(o) \in Nat /\ InSubs(o) \in Nat /\ Told(o) \in Nat
      /\ InQueue(o) + InClients(o) + InEnds(o) + InWire(o) + InSubs(o) + Told(o) = 1
      /\ InEnds(o) = 0
  BY <1>1, <1>2, IdlePlaces, KeptByEnds
<1>9. Latest.op \in Ops \ wire /\ Latest.op \in Nat
  <2>1. Latest.op \in Ops \ wire
    BY <1>2, OwnersOffWire
  <2>2. Ops \subseteq Nat
    BY DEF Ops
  <2>3. QED
    BY <2>1, <2>2
<1>10. <<>> \in Seq(Inputs)
  OBVIOUS
<1>11. CASE state \in {"connecting", "reconnecting"}
  <2>1. Latest.phase = "opening" /\ Latest.on = {"opening", "connect"}
    BY <1>2, <1>11 DEF Opening
  <2>2. AttemptFailed(c, cs, <<>>)
    <3>1. "opening" \in clients[c].on /\ listener \notin clients[c].on
      BY <1>2, <2>1
    <3>2. QED
      BY <1>2, <1>3, <3>1 DEF Report
  <2>3. Count(cs, Keeping(o)) + One(o, {Latest.op}) = InClients(o)
    BY <1>6, <1>7, <2>1
  <2>4. CASE state = "connecting"
    <3>1. ToDisconnecting(Latest.op, TRUE, cs, <<>>)
      BY <1>2, <2>2, <2>4 DEF AttemptFailed, Opening
    <3>2. /\ state # "disconnecting" /\ cs[Len(cs)].phase # "opening"
          /\ cs[Len(cs)].phase # "aborted" /\ TRUE \in BOOLEAN
      BY <1>5, <2>4
    <3>3. Places(o)' = Count(<<>>, Of(o)) + InQueue(o) + Count(cs, Keeping(o))
                         + One(o, {Latest.op}) + InWire(o) + InSubs(o) + Told(o)
      <4>1. PICK op \in Nat : op = Latest.op
        BY <1>9
      <4>2. PICK rest \in Seq(Inputs) : rest = <<>>
        BY <1>10
      <4>3. ToDisconnecting(op, TRUE, cs, rest) /\ o \in Ops' /\ Active = {}
        BY <1>1, <1>2, <3>1, <4>1, <4>2
      <4>4. Places(o)' = Count(rest, Of(o)) + InQueue(o) + Count(cs, Keeping(o))
                           + One(o, {op}) + InWire(o) + InSubs(o) + Told(o)
        BY <1>1, <1>5, <3>2, <4>3, ToDisconnectingAccounts
      <4>5. QED
        BY <4>1, <4>2, <4>4
    <3>4. QED
      BY <1>7, <1>8, <2>3, <3>3
  <2>5. CASE state = "reconnecting"
    <3>1. ToDisconnected(Latest.op, TRUE, cs, <<>>) /\ ends' = ends
      BY <1>2, <2>2, <2>5 DEF AttemptFailed, Opening
    <3>2. Active' = {} /\ state # "disconnected" /\ Latest.op \notin wire
      BY <1>2, <1>9, <2>5, <3>1 DEF Active
    <3>3. Places(o)' = Count(<<>>, Of(o)) + InQueue(o) + Count(cs, Keeping(o))
                         + One(o, {Latest.op}) + InWire(o) + InSubs(o) + Told(o)
      BY <1>1, <1>5, <1>10, <3>1, <3>2, ToDisconnectedAccounts, Zenon
    <3>4. QED
      BY <1>7, <1>8, <2>3, <3>3
  <2>6. QED
    BY <1>11, <2>4, <2>5
<1>12. CASE state = "connected" /\ Connection
  <2>1. Latest.phase = "up" /\ "opening" \notin clients[c].on
    BY <1>2, <1>12 DEF Connection
  <2>2. /\ clients' = cs /\ Quiet /\ SameWire /\ UNCHANGED <<state, queue, ends>>
        /\ agenda' = <<>> \/ agenda' = <<[kind |-> event, op |-> NoOp]>>
    BY <1>2, <1>3, <2>1 DEF Report
  <2>3. InClients(o)' = InClients(o)
    <3>1. Count(cs, Keeping(o)) = InClients(o)
      BY <1>6, <1>7, <2>1
    <3>2. QED
      BY <2>2, <3>1 DEF InClients, Keeping, Clients
  <2>4. InAgenda(o)' = 0
    <3>1. CASE agenda' = <<>>
      BY <3>1, SamePlaces
    <3>2. CASE agenda' = <<[kind |-> event, op |-> NoOp]>>
      <4>1. [kind |-> event, op |-> NoOp] \notin Of(o)
        <5>1. o # NoOp
          BY OpsFacts DEF Typed, TypeOK
        <5>2. QED
          BY <5>1 DEF Of
      <4>2. Count(agenda', Of(o)) = 0
        BY <3>2, <4>1, CountOne
      <4>3. QED
        BY <4>2 DEF InAgenda, Of, Inputs
    <3>3. QED
      BY <2>2, <3>1, <3>2
  <2>5. InQueue(o)' = InQueue(o) /\ InEnds(o)' = InEnds(o)
    BY <2>2, SamePlaces
  <2>6. /\ Places(o)' = (InAgenda(o)' + InQueue(o)') + InClients(o)' + InEnds(o)'
                          + InWire(o) + InSubs(o) + Told(o) + One(o, {})
        /\ One(o, {}) = 0
    BY <1>1, <2>2, PlacesNext DEF Quiet, One
  <2>7. QED
    BY <1>8, <2>3, <2>4, <2>5, <2>6
<1>13. QED
  BY <1>2, <1>11, <1>12

\* A client that connects calls its callback.
LEMMA ConnectsAccounts ==
  ASSUME Typed, Typed', Accounted, Control, ~crashed,
         NEW c \in DOMAIN clients, ClientConnects(c), NEW o \in Ops
  PROVE  Places(o)' = 1
<1>1. Idle /\ clients[c].phase = "opening" /\ Grows /\ Ops' = Ops
  BY DEF ClientConnects, Grows, Ops
<1>2. /\ c = Len(clients) /\ clients # <<>> /\ Latest = clients[c]
      /\ Older(clients) /\ state \in {"connecting", "reconnecting"}
  BY <1>1, Reporter DEF Connection
<1>3. clients \in Seq(Clients)
  BY DEF Typed, TypeOK
<1>4. PICK on \in SUBSET Listeners : Up(c) = Reported(Len(clients), "up", on)
  BY <1>1, <1>2, UpFacts
<1>5. PICK cs : cs = Up(c)
  OBVIOUS
<1>6. /\ cs \in Seq(Clients) /\ cs # <<>>
      /\ Count(cs, Keeping(o)) + One(o, {Latest.op}) = InClients(o)
  <2>1. /\ cs = Reported(Len(clients), "up", on)
        /\ cs \in {[clients EXCEPT ![Len(clients)].phase = "up"],
                  Reported(Len(clients), "up", on)}
    BY <1>4, <1>5
  <2>2. cs \in Seq(Clients) /\ cs # <<>>
    BY <1>2, <1>3, <2>1, ConnectedFacts
  <2>3. Latest.phase = "opening" =>
          Count(cs, Keeping(o)) + One(o, {Latest.op}) = Count(clients, Keeping(o))
    BY <1>2, <1>3, <2>1, KeptByMark
  <2>4. QED
    BY <1>1, <1>2, <2>2, <2>3 DEF InClients
<1>7. PICK ds : ds = IF Latest.for = "forced" THEN cs ELSE Listen(cs, "error")
  OBVIOUS
<1>8. ToConnected(Latest.op, ds, <<>>)
  BY <1>2, <1>5, <1>7 DEF ClientConnects, Up
<1>9. ds \in Seq(Clients) /\ ds # <<>> /\ Count(ds, Keeping(o)) = Count(cs, Keeping(o))
  <2>1. CASE Latest.for = "forced"
    BY <1>6, <1>7, <2>1
  <2>2. CASE Latest.for # "forced"
    <3>1. ds = Listen(cs, "error") /\ "error" \in Listeners
      BY <1>7, <2>2 DEF Listeners
    <3>2. Count(ds, Keeping(o)) = Count(cs, Keeping(o))
      BY <1>6, <3>1, KeptByEnd
    <3>3. Listen(cs, "error") = [cs EXCEPT ![Len(cs)] = Listened(cs[Len(cs)], "error")]
          /\ Len(cs) \in 1..Len(cs)
      BY <1>6, LatestFacts
    <3>4. cs[Len(cs)] \in Clients
      BY <1>6, <3>3, ElementOfSeq
    <3>5. Listened(cs[Len(cs)], "error") \in Clients
      BY <3>1, <3>4, ClientFacts
    <3>6. ds \in Seq(Clients) /\ Len(ds) = Len(cs)
      BY <1>6, <3>1, <3>3, <3>5, ExceptSeq
    <3>7. QED
      BY <3>2, <3>3, <3>6
  <2>3. QED
    BY <2>1, <2>2
<1>10. <<>> \in Seq(Inputs) /\ state # "connected"
  BY <1>2
<1>11. Places(o)' = Count(<<>>, Of(o)) + InQueue(o) + Count(ds, Keeping(o))
                      + One(o, {Latest.op}) + InEnds(o) + InWire(o) + InSubs(o) + Told(o)
  BY <1>1, <1>8, <1>9, <1>10, ToConnectedAccounts, Zenon
<1>12. /\ InQueue(o) \in Nat /\ InClients(o) \in Nat /\ InEnds(o) \in Nat
       /\ InWire(o) \in Nat /\ InSubs(o) \in Nat /\ Told(o) \in Nat
       /\ InQueue(o) + InClients(o) + InEnds(o) + InWire(o) + InSubs(o) + Told(o) = 1
  BY <1>1, IdlePlaces
<1>13. /\ Count(cs, Keeping(o)) \in Nat /\ One(o, {Latest.op}) \in Nat
       /\ Count(<<>>, Of(o)) = 0
  BY <1>6, CountNat, CountEmpty DEF One
<1>14. QED
  BY <1>6, <1>9, <1>11, <1>12, <1>13

\* What follows the end of a client calls the callback, or makes a client for it.
LEMMA EndDoneAccounts ==
  ASSUME Typed, Typed', Accounted, Control, ~crashed,
         NEW end \in ends, EndDone(end), NEW o \in Ops
  PROVE  Places(o)' = 1
<1>1. Idle /\ ends' = ends \ {end} /\ Grows /\ Ops' = Ops
  BY DEF EndDone, Grows, Ops
<1>2. Settled
  BY <1>1, IdleSettled
<1>3. end \in Ends /\ clients \in Seq(Clients) /\ state \in States
  BY DEF Typed, TypeOK
<1>4. <<>> \in Seq(Inputs) /\ Count(<<>>, Of(o)) = 0 /\ o \in Ops'
  BY <1>1, CountEmpty
<1>5. /\ InQueue(o) \in Nat /\ InClients(o) \in Nat /\ InEnds(o) \in Nat
      /\ InWire(o) \in Nat /\ InSubs(o) \in Nat /\ Told(o) \in Nat
      /\ InQueue(o) + InClients(o) + InEnds(o) + InWire(o) + InSubs(o) + Told(o) = 1
      /\ One(o, {end.op}) \in Nat
  BY <1>1, IdlePlaces DEF One
<1>6. ASSUME Stay(<<>>), Quiet, SameWire
      PROVE  Places(o)' = InQueue(o) + InClients(o)' + InEnds(o)'
                            + InWire(o) + InSubs(o) + Told(o)
  <2>1. InAgenda(o)' + InQueue(o)' = Count(<<>>, Of(o)) + InQueue(o)
    BY <1>4, <1>6, DueMoves
  <2>2. /\ Places(o)' = (InAgenda(o)' + InQueue(o)') + InClients(o)' + InEnds(o)'
                          + InWire(o) + InSubs(o) + Told(o) + One(o, {})
        /\ One(o, {}) = 0
    BY <1>1, <1>4, <1>6, PlacesNext DEF Quiet, One
  <2>3. InClients(o)' \in Nat /\ InEnds(o)' \in Nat
    BY NaturalsNext
  <2>4. QED
    BY <1>4, <1>5, <2>1, <2>2, <2>3, SMTT(60)
<1>7. CASE end.then = "switched"
  <2>1. Stay(<<>>) /\ Quiet /\ SameWire /\ clients' = clients
    BY <1>7 DEF EndDone
  <2>2. Active' = Active
    BY <1>1, <1>7 DEF Active
  <2>3. InClients(o)' = InClients(o) /\ InEnds(o)' = InEnds(o)
    BY <2>1, <2>2, SamePlaces, KeptByEnds
  <2>4. QED
    BY <1>5, <1>6, <2>1, <2>3
<1>8. CASE end.then # "switched"
  <2>1. end \in Active
    BY <1>8 DEF Active
  <2>2. Active = {end}
    BY <1>2, <1>3, <2>1 DEF Settled, States, Ending
  <2>3. Active' = {}
    BY <1>1, <2>2 DEF Active
  <2>4. InEnds(o) = One(o, {end.op}) /\ InEnds(o)' = 0
    BY <2>2, <2>3, KeptByEnds
  <2>5. CASE end.then = "disconnected"
    <3>1. ToDisconnected(end.op, end.err, clients, <<>>)
      BY <2>5 DEF EndDone
    <3>2. state # "disconnected" /\ end.op \notin wire
      <4>1. state # "disconnected"
        BY <1>2, <2>2 DEF Settled
      <4>2. end.op \in Ops \ wire \/ end.op = NoOp
        BY OwnersOffWire
      <4>3. NoOp \notin wire
        BY OpsFacts DEF Typed, TypeOK
      <4>4. QED
        BY <4>1, <4>2, <4>3
    <3>3. Places(o)' = Count(<<>>, Of(o)) + InQueue(o) + Count(clients, Keeping(o))
                         + One(o, {end.op}) + InWire(o) + InSubs(o) + Told(o)
      BY <1>1, <1>3, <1>4, <2>3, <3>1, <3>2, ToDisconnectedAccounts
    <3>4. Count(clients, Keeping(o)) = InClients(o)
      BY DEF InClients
    <3>5. QED
      BY <1>4, <1>5, <2>4, <3>3, <3>4
  <2>6. CASE end.then \in {"reconnect", "forced"}
    <3>1. PICK why \in {"reconnecting", "forced"} :
            clients' = Connecting(why, end.op) /\ Stay(<<>>) /\ Quiet /\ SameWire
      BY <2>6 DEF EndDone
    <3>2. end.op \in OpsOf({"updateSas"})' /\ why # "connecting" /\ why \in Purposes
      <4>1. end \in Endings /\ end.then # "disconnected"
        BY <2>6 DEF Typed, Shapes
      <4>2. end.op \in OpsOf({"updateSas"})
        BY <4>1, Zenon DEF Endings
      <4>3. QED
        BY <1>1, <4>2, Widened DEF Purposes
    <3>3. InClients(o)' = InClients(o) + One(o, {end.op})
      BY <1>1, <3>1, <3>2, KeptByFresh
    <3>4. QED
      BY <1>5, <1>6, <2>4, <3>1, <3>3
  <2>7. QED
    BY <1>3, <1>8, <2>5, <2>6 DEF Ends
<1>9. QED
  BY <1>7, <1>8

\* The timer of a renewal takes the callback from the call of end().
LEMMA TimeoutAccounts ==
  ASSUME Typed, Typed', Accounted, Control, ~crashed, UNCHANGED crashed,
         NEW end \in ends, DisconnectTimeout(end), NEW o \in Ops
  PROVE  Places(o)' = 1
<1>1. /\ Idle /\ agenda' = <<Forced(end)>> /\ Forced(end).op = end.op
      /\ UNCHANGED <<queue, clients, wire, subs, ops, answers>>
  BY DEF DisconnectTimeout, Forced
<1>2. Active = {end} /\ Active' = {}
  BY TimeoutControl
<1>3. InEnds(o) = One(o, {end.op}) /\ InEnds(o)' = 0
  BY <1>2, KeptByEnds
<1>4. InAgenda(o)' = One(o, {end.op})
  <2>1. Forced(end) \in Inputs
    BY DisconnectTimeoutTyped DEF Items
  <2>2. Forced(end) \in Of(o) <=> o \in {end.op}
    BY <1>1, <2>1 DEF Of
  <2>3. Count(agenda', Of(o)) = One(o, {end.op})
    BY <1>1, <2>2, CountOne DEF One
  <2>4. QED
    BY <2>3 DEF InAgenda, Of, Inputs
<1>5. /\ InQueue(o)' = InQueue(o) /\ InClients(o)' = InClients(o)
      /\ InWire(o)' = InWire(o) /\ InSubs(o)' = InSubs(o)
  BY <1>1, SamePlaces
<1>6. Told(o)' = Told(o)
  BY <1>1 DEF Told
<1>7. /\ InQueue(o) \in Nat /\ InClients(o) \in Nat /\ InEnds(o) \in Nat
      /\ InWire(o) \in Nat /\ InSubs(o) \in Nat /\ Told(o) \in Nat
      /\ InQueue(o) + InClients(o) + InEnds(o) + InWire(o) + InSubs(o) + Told(o) = 1
  BY <1>1, IdlePlaces
<1>8. Places(o)' = InAgenda(o)' + InQueue(o)' + (InClients(o)' + InEnds(o)'
                     + InWire(o)' + InSubs(o)' + Told(o)')
  BY DEF Places, Around
<1>9. QED
  BY <1>3, <1>4, <1>5, <1>6, <1>7, <1>8

\* An answer on the wire calls the callback.
LEMMA WireAccounts ==
  ASSUME Typed, Typed', Accounted, NEW p, NEW o \in Ops,
         PublishAnswered(p) \/ SubscribeAnswered(p)
  PROVE  Places(o)' = 1
<1>1. /\ Idle /\ Grows /\ Ops' = Ops /\ Answer({p})
      /\ UNCHANGED <<queue, agenda, clients, ends>>
      /\ \/ p \in wire /\ wire' = wire \ {p} /\ subs' = subs
         \/ p \in subs /\ subs' = subs \ {p} /\ wire' = wire
  BY DEF PublishAnswered, SubscribeAnswered, Grows, Ops
<1>2. /\ InQueue(o)' = InQueue(o) /\ InClients(o)' = InClients(o)
      /\ InEnds(o)' = InEnds(o) /\ InAgenda(o)' = 0
  BY <1>1, SamePlaces DEF Idle
<1>3. Told(o)' = Told(o) + One(o, {p})
  BY <1>1, AnswerFacts
<1>4. /\ InQueue(o) \in Nat /\ InClients(o) \in Nat /\ InEnds(o) \in Nat
      /\ InWire(o) \in Nat /\ InSubs(o) \in Nat /\ Told(o) \in Nat
      /\ InQueue(o) + InClients(o) + InEnds(o) + InWire(o) + InSubs(o) + Told(o) = 1
      /\ InWire(o)' \in Nat /\ InSubs(o)' \in Nat /\ One(o, {p}) \in Nat
  BY <1>1, IdlePlaces, NaturalsNext DEF One
<1>5. InWire(o)' + InSubs(o)' + One(o, {p}) = InWire(o) + InSubs(o)
  <2>1. CASE p \in wire /\ wire' = wire \ {p} /\ subs' = subs
    <3>1. InWire(o)' + One(o, {p}) = InWire(o) /\ InSubs(o)' = InSubs(o)
      BY <2>1 DEF InWire, InSubs, One
    <3>2. QED
      BY <1>4, <3>1
  <2>2. CASE p \in subs /\ subs' = subs \ {p} /\ wire' = wire
    <3>1. InSubs(o)' + One(o, {p}) = InSubs(o) /\ InWire(o)' = InWire(o)
      BY <2>2 DEF InWire, InSubs, One
    <3>2. QED
      BY <1>4, <3>1
  <2>3. QED
    BY <1>1, <2>1, <2>2
<1>6. Places(o)' = InAgenda(o)' + InQueue(o)' + (InClients(o)' + InEnds(o)'
                     + InWire(o)' + InSubs(o)' + Told(o)')
  BY DEF Places, Around
<1>7. QED
  BY <1>2, <1>3, <1>4, <1>5, <1>6

\* So does the close of a stale client that finds the state machine still
\* disconnected: it had called its callback when it failed.
LEMMA StaleAccounts ==
  ASSUME Typed, Typed', Accounted, Control, ~crashed, NEW c \in DOMAIN clients,
         StaleCloses(c), state = "disconnected", NEW o \in Ops
  PROVE  Places(o)' = 1
<1>1. /\ Idle /\ UNCHANGED <<queue, ends, ops, wire, subs>> /\ Quiet /\ agenda' = <<>>
      /\ clients' = [clients EXCEPT ![c].phase = "closed"]
  BY StaleFacts
<1>2. Grows /\ Ops' = Ops /\ SameWire
  BY <1>1 DEF Grows, Ops, SameWire
<1>3. clients \in Seq(Clients)
  BY DEF Typed, TypeOK
<1>4. c \in 1..Len(clients)
  BY <1>3, LenProperties
<1>5. PICK d \in Clients : d = clients[c] /\ d.phase = "stale"
  BY <1>3, <1>4, ElementOfSeq DEF StaleCloses
<1>6. [d EXCEPT !.phase = "closed"] \in Clients
  BY DEF Clients
<1>7. PICK e \in Clients : e = [d EXCEPT !.phase = "closed"] /\ e.phase = "closed"
  BY <1>6 DEF Clients
<1>8. clients' = [clients EXCEPT ![c] = e]
  BY <1>1, <1>5, <1>7
<1>9. d \notin Keeping(o) /\ e \notin Keeping(o)
  BY <1>5, <1>7, KeepingFacts
<1>10. Count([clients EXCEPT ![c] = e], Keeping(o)) = Count(clients, Keeping(o))
  BY <1>3, <1>4, <1>5, <1>9, CountReplace
<1>11. InClients(o)' = InClients(o)
  BY <1>8, <1>10 DEF InClients, Keeping, Clients
<1>12. InQueue(o)' = InQueue(o) /\ InEnds(o)' = InEnds(o) /\ InAgenda(o)' = 0
  BY <1>1, SamePlaces
<1>13. /\ Places(o)' = (InAgenda(o)' + InQueue(o)') + InClients(o)' + InEnds(o)'
                          + InWire(o) + InSubs(o) + Told(o) + One(o, {})
       /\ One(o, {}) = 0
  BY <1>1, <1>2, PlacesNext DEF Quiet, One
<1>14. /\ InQueue(o) \in Nat /\ InClients(o) \in Nat /\ InEnds(o) \in Nat
       /\ InWire(o) \in Nat /\ InSubs(o) \in Nat /\ Told(o) \in Nat
       /\ InQueue(o) + InClients(o) + InEnds(o) + InWire(o) + InSubs(o) + Told(o) = 1
  BY <1>1, IdlePlaces
<1>15. QED
  BY <1>11, <1>12, <1>13, <1>14

\* Every step keeps the callback of every call in one place, until a stale client
\* has closed too late.
LEMMA AccountedStep ==
  ASSUME Typed, Typed', Accounted, Control, [Next]_vars, ~haunted'
  PROVE  Accounted'
<1>1. ASSUME UNCHANGED ops, \A o \in Ops : Places(o)' = 1
      PROVE  Accounted'
  BY <1>1 DEF Accounted, Ops
<1>2. CASE UNCHANGED vars
  <2>1. UNCHANGED <<queue, agenda, clients, ends, wire, subs, ops, answers>>
    BY <1>2 DEF vars
  <2>2. ASSUME NEW o \in Ops
        PROVE  Places(o)' = 1
    <3>1. InAgenda(o)' = InAgenda(o)
      BY <2>1 DEF InAgenda, Of, Inputs
    <3>2. Told(o)' = Told(o)
      BY <2>1 DEF Told
    <3>3. Places(o)' = Places(o)
      BY <2>1, <3>1, <3>2, SamePlaces DEF Places, Around
    <3>4. QED
      BY <3>3 DEF Accounted
  <2>3. QED
    BY <1>1, <2>1, <2>2
<1>3. CASE Next
  <2>1. ~crashed
    BY <1>3, Steps
  <2>2. ASSUME NEW kind \in AllKinds, Call(kind)
        PROVE  Accounted'
    BY <2>1, <2>2, CallAccounts
  <2>3. ASSUME NEW c \in DOMAIN clients, ClientErrors(c) \/ ClientCloses(c)
        PROVE  Accounted'
    <3>1. PICK phase \in {"failed", "stale", "closed"}, listener \in {"error", "close"},
               event \in Events :
            /\ Report(c, phase, listener, event)
            /\ phase = "stale" =>
                 "opening" \in clients[c].on /\ clients[c].for # "connecting"
            /\ clients[c].phase \in {"opening", "up", "failed"}
      BY <2>3 DEF ClientErrors, ClientCloses, Events
    <3>2. UNCHANGED ops
      BY <3>1 DEF Report
    <3>3. QED
      BY <1>1, <2>1, <3>1, <3>2, ReportAccounts
  <2>4. ASSUME NEW c \in DOMAIN clients, ClientConnects(c)
        PROVE  Accounted'
    BY <1>1, <2>1, <2>4, ConnectsAccounts DEF ClientConnects
  <2>5. CASE Replay
    BY <2>1, <2>5, ReplayAccounts
  <2>6. ASSUME NEW end \in ends, EndDone(end)
        PROVE  Accounted'
    BY <1>1, <2>1, <2>6, EndDoneAccounts DEF EndDone
  <2>7. ASSUME NEW end \in ends, DisconnectTimeout(end), UNCHANGED crashed
        PROVE  Accounted'
    BY <1>1, <2>1, <2>7, TimeoutAccounts DEF DisconnectTimeout
  <2>8. ASSUME NEW p, PublishAnswered(p) \/ SubscribeAnswered(p)
        PROVE  Accounted'
    BY <1>1, <2>8, WireAccounts DEF PublishAnswered, SubscribeAnswered
  <2>9. ASSUME NEW c \in DOMAIN clients, StaleCloses(c)
        PROVE  Accounted'
    <3>1. state = "disconnected"
      BY <2>9 DEF StaleCloses
    <3>2. UNCHANGED ops
      BY <2>9 DEF StaleCloses, Report
    <3>3. QED
      BY <1>1, <2>1, <2>9, <3>1, <3>2, StaleAccounts
  <2>10. QED
    BY <1>3, <2>2, <2>3, <2>4, <2>5, <2>6, <2>7, <2>8, <2>9, Steps
<1>4. QED
  BY <1>2, <1>3

\* No callback is kept before the first call.
LEMMA AccountedInit == Init => Accounted
BY DEF Init, Accounted, Ops

\* The inductive invariant holds always.
LEMMA IInvInvariant == Spec => []IInv
<1>1. Init => IInv
  BY TypedInit, AccountedInit, ControlInit DEF IInv
<1>2. IInv /\ [Next]_vars => IInv'
  BY TypedStep, AccountedStep, ControlStep, HauntedStays DEF IInv
<1>3. QED
  BY <1>1, <1>2, PTL DEF Spec

\* Of naturals that add up to one, one is one and the others are none.
LEMMA SumOfOne ==
  ASSUME NEW a \in Nat, NEW q \in Nat, NEW c \in Nat, NEW e \in Nat,
         NEW w \in Nat, NEW s \in Nat, NEW t \in Nat,
         a + q + (c + e + w + s + t) = 1
  PROVE  /\ t <= 1 /\ c <= 1
         /\ t = 0 <=> q # 0 \/ a # 0 \/ c # 0 \/ e # 0 \/ w # 0 \/ s # 0
         /\ (q # 0 \/ a # 0 \/ e # 0 \/ w # 0 \/ s # 0) => c = 0
OBVIOUS

\* A callback in one place is called once at most, and until then is kept where
\* something still calls it, unless a disconnect overtook the connect.
LEMMA AccountedOnce ==
  ASSUME Typed, Accounted
  PROVE  NoCallbackLost
<1>1. /\ queue \in Seq(Inputs) /\ agenda \in Seq(Inputs) /\ clients \in Seq(Clients)
      /\ DOMAIN answers = Ops
  BY DEF Typed, TypeOK
<1>2. ASSUME NEW o \in Ops
      PROVE  /\ answers[o] <= 1
             /\ (answers[o] = 0 /\ ~Overtaken(o))
                  <=> o \in QueuedOps \cup EndingOps \cup OpeningOps \cup wire \cup subs
  <2>1. /\ InQueue(o) \in Nat /\ InAgenda(o) \in Nat /\ InClients(o) \in Nat
        /\ InEnds(o) \in Nat /\ InWire(o) \in Nat /\ InSubs(o) \in Nat
        /\ Told(o) \in Nat
        /\ InAgenda(o) + InQueue(o) + (InClients(o) + InEnds(o) + InWire(o)
             + InSubs(o) + Told(o)) = 1
    BY Naturals DEF Accounted, Places, Around
  <2>2. Told(o) = answers[o]
    BY <1>1 DEF Told
  <2>3. /\ InQueue(o) = 0 <=> ~Has(queue, Of(o))
        /\ InAgenda(o) = 0 <=> ~Has(agenda, Of(o))
        /\ InClients(o) = 0 <=> ~Has(clients, Keeping(o))
        /\ InClients(o) = 1 =>
             \A c, d \in DOMAIN clients :
               clients[c] \in Keeping(o) /\ clients[d] \in Keeping(o) => c = d
    BY <1>1, CountHas DEF InQueue, InAgenda, InClients
  <2>4. Has(queue, Of(o)) \/ Has(agenda, Of(o)) <=> o \in QueuedOps
    <3>1. /\ \A i \in DOMAIN queue : queue[i] \in Inputs
          /\ \A i \in DOMAIN agenda : agenda[i] \in Inputs
      BY <1>1, ElementOfSeq, LenProperties
    <3>2. QED
      BY <3>1 DEF Has, Of, QueuedOps
  <2>5. \A c \in DOMAIN clients :
          clients[c] \in Keeping(o) <=>
            /\ clients[c].op = o
            /\ \/ clients[c].phase = "opening"
               \/ clients[c].phase = "aborted" /\ clients[c].for = "connecting"
    <3>1. \A c \in DOMAIN clients : clients[c] \in Clients
      BY <1>1, ElementOfSeq, LenProperties
    <3>2. QED
      BY <3>1, KeepingFacts
  <2>6. Has(clients, Keeping(o)) <=> o \in OpeningOps \/ Overtaken(o)
    BY <2>5 DEF Has, OpeningOps, Overtaken, InPhase
  <2>7. InClients(o) = 1 => ~(o \in OpeningOps /\ Overtaken(o))
    <3>1. SUFFICES ASSUME InClients(o) = 1, o \in OpeningOps, Overtaken(o)
                   PROVE  FALSE
      OBVIOUS
    <3>2. PICK c \in DOMAIN clients : clients[c].phase = "opening" /\ clients[c].op = o
      BY <3>1 DEF OpeningOps, InPhase
    <3>3. PICK d \in DOMAIN clients :
            /\ clients[d].phase = "aborted" /\ clients[d].for = "connecting"
            /\ clients[d].op = o
      BY <3>1 DEF Overtaken, InPhase
    <3>4. QED
      BY <2>3, <2>5, <3>1, <3>2, <3>3
  <2>8. /\ InEnds(o) = IF o \in EndingOps THEN 1 ELSE 0
        /\ InWire(o) = IF o \in wire THEN 1 ELSE 0
        /\ InSubs(o) = IF o \in subs THEN 1 ELSE 0
    BY DEF InEnds, InWire, InSubs, One
  <2>9. /\ Told(o) <= 1 /\ InClients(o) <= 1
        /\ Told(o) = 0 <=> \/ InQueue(o) # 0 \/ InAgenda(o) # 0 \/ InClients(o) # 0
                           \/ InEnds(o) # 0 \/ InWire(o) # 0 \/ InSubs(o) # 0
        /\ (\/ InQueue(o) # 0 \/ InAgenda(o) # 0 \/ InEnds(o) # 0
            \/ InWire(o) # 0 \/ InSubs(o) # 0) => InClients(o) = 0
    <3>1. PICK a \in Nat, q \in Nat, c \in Nat, e \in Nat, w \in Nat, s \in Nat, t \in Nat :
            /\ a = InAgenda(o) /\ q = InQueue(o) /\ c = InClients(o) /\ e = InEnds(o)
            /\ w = InWire(o) /\ s = InSubs(o) /\ t = Told(o)
      BY <2>1
    <3>2. a + q + (c + e + w + s + t) = 1
      BY <2>1, <3>1
    <3>3. /\ t <= 1 /\ c <= 1
          /\ t = 0 <=> q # 0 \/ a # 0 \/ c # 0 \/ e # 0 \/ w # 0 \/ s # 0
          /\ (q # 0 \/ a # 0 \/ e # 0 \/ w # 0 \/ s # 0) => c = 0
      BY <3>2, SumOfOne
    <3>4. QED
      BY <3>1, <3>3, Zenon
  <2>10. /\ InQueue(o) # 0 \/ InAgenda(o) # 0 <=> o \in QueuedOps
         /\ InClients(o) # 0 <=> o \in OpeningOps \/ Overtaken(o)
         /\ InEnds(o) # 0 <=> o \in EndingOps
         /\ InWire(o) # 0 <=> o \in wire
         /\ InSubs(o) # 0 <=> o \in subs
    BY <2>3, <2>4, <2>6, <2>8
  <2>11. InClients(o) # 0 => ~(o \in OpeningOps /\ Overtaken(o))
    BY <2>1, <2>7, <2>9
  <2>12. (Told(o) = 0 /\ ~Overtaken(o))
           <=> o \in QueuedOps \cup EndingOps \cup OpeningOps \cup wire \cup subs
    BY <2>9, <2>10, <2>11, Zenon
  <2>13. QED
    BY <2>2, <2>9, <2>12
<1>3. QED
  BY <1>2 DEF NoCallbackLost, Typed

\* No callback is called twice and none is lost, in whatever order connects,
\* errors, closes, the timer of a renewal and the calls made from inside
\* callbacks come, until a stale client closes too late.
THEOREM CallbacksKept == Spec => []NoCallbackLost
<1>1. IInv => NoCallbackLost
  BY AccountedOnce DEF IInv, NoCallbackLost, Typed
<1>2. Spec => []IInv
  BY IInvInvariant
<1>3. QED
  BY <1>1, <1>2, PTL
=============================================================================
