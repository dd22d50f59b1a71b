--------------------------- MODULE SenderLink_proofs ---------------------------
(***************************************************************************)
(* Proofs about the sending link, for every number of calls, every set of  *)
(* methods and every amount of deferred credit.                            *)
(*                                                                         *)
(* The inductive invariant has two parts.  Data holds always: the shapes   *)
(* of what is deferred and what is left to do, the order of the messages   *)
(* (Ordered), and Accounted, that the callback of every call is in one     *)
(* place: left to do, deferred, kept in a field, in the dictionaries of    *)
(* messages or called back.  Control holds until the process crashes and   *)
(* says why no step of the control finds its data elsewhere: while sent    *)
(* messages may not be answered any more their failure is left to do       *)
(* (Failing); one loop sends unsent messages, and only when attached       *)
(* (Uninterrupted); an event of the link is handled when nothing else is   *)
(* left to do (EventsAlone); and a transition that carries a callback is   *)
(* not overtaken, with detachingCallback set only while detaching          *)
(* (Transiting), or a second detach would overwrite the first one's.       *)
(***************************************************************************)
EXTENDS SenderLink, CountingLemmas

Attaches == {o \in Ops : ops[o] = "attach"}
Detaches == {o \in Ops : ops[o] = "detach"}

NoOperation == {Undefined, Silent}
Payloads == Ops \cup NoOperation

\* What may be left to do: a work that carries a callback carries that of an
\* attach or a detach.
EventNames == {"senderOpenEvent", "senderErrorEvent", "senderCloseEvent"}
Plain == {"forceDetach", "send", "accepted", "rejected", "owner", "failUnsent",
          "failPending", "failKey", "replay", "sendUnsent", "transmit"} \cup EventNames
Work ==
       [do : {"attach"}, op : Attaches, err : BOOLEAN]
  \cup [do : {"detach"}, op : Detaches, err : BOOLEAN]
  \cup [do : {"toDetached", "tell"}, op : Attaches \cup Detaches \cup NoOperation,
        err : BOOLEAN]
  \cup [do : Plain, op : Payloads, err : BOOLEAN]

\* What the state machine defers.
Deferred ==
       [do : {"attach"}, op : Attaches, err : BOOLEAN]
  \cup [do : {"send", "rejected"}, op : Payloads, err : BOOLEAN]

Agendas == Seq(Work)
Queues == Seq(Deferred)

Shapes ==
  /\ agenda \in Agendas /\ queue \in Queues
  /\ unsent \in Seq(Sends) /\ pending \subseteq Sends
  /\ attachingCallback \in Attaches \cup NoOperation
  /\ detachingCallback \in Detaches \cup {Undefined}
  /\ preSettled => pending = {}

\* What was sent is older than what is not, and both are in order.
Ordered ==
  /\ \A i, j \in DOMAIN unsent : i < j => unsent[i] < unsent[j]
  /\ \A i \in DOMAIN transmitted, j \in DOMAIN unsent :
       transmitted[i] < unsent[j]
  /\ SentInOrder

\* Where the callback of o may be kept, and how often it was called.
Carrying(o) == [do : {"attach", "detach", "toDetached", "tell"}, op : {o},
                err : BOOLEAN]
InAgenda(o) == Count(agenda, Carrying(o))
InQueue(o) == Count(queue, Carrying(o))
InAttaching(o) == IF attachingCallback = o THEN 1 ELSE 0
InDetaching(o) == IF detachingCallback = o THEN 1 ELSE 0
InUnsent(o) == Count(unsent, {o})
InPending(o) == IF o \in pending THEN 1 ELSE 0
Told(o) == answers[o]

Around(o) ==
  InQueue(o) + InAttaching(o) + InDetaching(o) + InUnsent(o) + InPending(o) + Told(o)
Accounts(o) == InAgenda(o) + Around(o)

\* An attach may be forgotten, a detach and a message are not.
Accounted ==
  \A o \in Ops : /\ Accounts(o) <= 1
                 /\ o \in Sends \cup Detaches => Accounts(o) = 1

Named(names) == [do : names, op : Int, err : BOOLEAN]

\* What is still due to the messages of a link that is detached, or attached
\* anew from a callback, is on the agenda.
FailingKey(o) == [do : {"failKey"}, op : {o}, err : BOOLEAN]
FailsUnsent == Named({"failUnsent", "send"})
FailsPending == Named({"failPending"})
Replays == Named({"replay"})

Failing ==
  /\ state = "detached" /\ unsent # <<>> => Has(agenda, FailsUnsent)
  /\ state = "detached" /\ queue # <<>> => Has(agenda, Replays)
  /\ state \in {"detached", "attaching"}
       => \/ Has(agenda, FailsPending)
          \/ \A o \in pending : Has(agenda, FailingKey(o))

\* The sending loop of messages that are not settled is not interrupted.
Loops == Named({"transmit"})
Uninterrupted ==
  ~preSettled /\ Has(agenda, Loops)
    => state = "attached" /\ ~Has(Tail(agenda), Loops)

\* An event comes when nothing is left to do.
Events == Named(EventNames)
Bursts == {<<Step("senderOpenEvent")>>, <<Step("senderCloseEvent")>>,
           <<Step("senderErrorEvent"), Step("senderCloseEvent")>>}
EventsAlone == Has(agenda, Events) => agenda \in Bursts

\* A transition to detached that carries a callback comes before any other, and
\* finds the link in the state in which it was decided.
Transitions == Named({"toDetached"})
Telling == [do : {"toDetached"}, op : Int \ {Undefined}, err : BOOLEAN]
Uncovered(s) ==
  \A i, j \in DOMAIN s : j < i /\ s[i] \in Telling => s[j] \notin Transitions

Transiting ==
  /\ Uncovered(agenda)
  /\ state = "attached" /\ Has(agenda, Transitions)
       => ~Has(Tail(agenda), Transitions)
  /\ state = "detaching" /\ Has(agenda, Transitions)
       => detachingCallback = Undefined
  /\ Has(agenda, Telling) =>
       \/ state = "attaching" /\ attachingCallback = Undefined
       \/ state = "detaching" /\ ~Has(Tail(agenda), Telling)
  /\ detachingCallback # Undefined => state = "detaching"

Data == TypeOK /\ Shapes /\ Ordered /\ Accounted
Control == Failing /\ Uninterrupted /\ EventsAlone /\ Transiting

IInv == Data /\ (~crashed => Control)

-----------------------------------------------------------------------------
(* The items of the agenda.                                                *)

\* The operations are numbers, and a method is of one kind.
LEMMA OpsFacts ==
  ASSUME ops \in Seq(Methods)
  PROVE  /\ Ops = 1..Len(ops) /\ Len(ops) \in Nat
         /\ Ops \subseteq Nat \ {0} /\ Undefined \notin Ops /\ Silent \notin Ops
         /\ Sends \subseteq Ops /\ Attaches \subseteq Ops /\ Detaches \subseteq Ops
         /\ Sends \cap Attaches = {} /\ Sends \cap Detaches = {}
         /\ Attaches \cap Detaches = {}
<1>1. Ops = 1..Len(ops) /\ Len(ops) \in Nat
  BY LenProperties DEF Ops
<1>2. Ops \subseteq Nat \ {0} /\ Undefined \notin Ops /\ Silent \notin Ops
  BY <1>1 DEF Undefined, Silent
<1>3. QED
  BY <1>1, <1>2 DEF Sends, Attaches, Detaches

\* What an item on the agenda says.
LEMMA WorkFacts ==
  ASSUME ops \in Seq(Methods), NEW w \in Work
  PROVE  /\ w = Item(w.do, w.op, w.err) /\ w.op \in Payloads /\ w.op \in Int
         /\ w.err \in BOOLEAN
         /\ w.do = "attach" => w.op \in Attaches
         /\ w.do = "detach" => w.op \in Detaches
         /\ w.do \in {"toDetached", "tell"}
              => w.op \in Attaches \cup Detaches \cup NoOperation
         /\ w.do \in Plain \cup {"attach", "detach", "toDetached", "tell"}
<1>1. NoOperation \subseteq Int /\ NoOperation \subseteq Payloads
  BY DEF NoOperation, Undefined, Silent, Payloads
<1>2. Ops \subseteq Int /\ Ops \subseteq Payloads /\ Attaches \subseteq Ops /\ Detaches \subseteq Ops
  BY OpsFacts DEF Payloads
<1>3. Payloads \subseteq Int
  BY <1>1, <1>2 DEF Payloads
<1>4. QED
  BY <1>1, <1>2, <1>3 DEF Work, Item, Plain, EventNames

\* Which items may be put on the agenda.
LEMMA WorkItems ==
  ASSUME NEW err \in BOOLEAN
  PROVE  /\ \A name \in Plain, op \in Payloads : Item(name, op, err) \in Work
         /\ \A op \in Attaches : Item("attach", op, err) \in Work
         /\ \A op \in Detaches : Item("detach", op, err) \in Work
         /\ \A name \in {"toDetached", "tell"},
               op \in Attaches \cup Detaches \cup NoOperation :
              Item(name, op, err) \in Work
BY DEF Work, Item

\* A step of the program carries no operation.
LEMMA StepItems ==
  ASSUME NEW name \in Plain
  PROVE  Step(name) \in Work
BY WorkItems DEF Step, Payloads, NoOperation

\* Which items carry the callback of an operation.
LEMMA CarryingFacts ==
  ASSUME NEW o, NEW name, NEW op, NEW err \in BOOLEAN
  PROVE  Item(name, op, err) \in Carrying(o)
           <=> name \in {"attach", "detach", "toDetached", "tell"} /\ op = o
BY DEF Carrying, Item

\* Which items bear a name, and what the sets of items that Control is about
\* hold.
LEMMA NamedFacts ==
  ASSUME NEW name, NEW op \in Int, NEW err \in BOOLEAN
  PROVE  /\ \A names : Item(name, op, err) \in Named(names) <=> name \in names
         /\ Item(name, op, err) \in Telling <=> name = "toDetached" /\ op # Undefined
         /\ \A o : Item(name, op, err) \in FailingKey(o) <=> name = "failKey" /\ op = o
BY DEF Named, Telling, FailingKey, Item

\* The items the machina state machine defers are items of the agenda.
LEMMA DeferredFacts == Deferred \subseteq Work
BY DEF Deferred, Work, Plain

-----------------------------------------------------------------------------
(* The parts of a step.                                                    *)

\* The part of the type invariant that is not about the callbacks.
WireOK ==
  /\ state \in {"detached", "attaching", "attached", "detaching"}
  /\ indicatedError \in BOOLEAN /\ senderCloseOccurred \in BOOLEAN
  /\ links \in Seq(Links)
  /\ sender \in 0..Len(links)
  /\ sender = 0 => state = "detached"
  /\ crashed \in BOOLEAN

\* What is put on the agenda that carries no callback, and neither is an event
\* nor goes to another state.
QuietNames == Plain \ (EventNames \cup {"transmit"})
Quiet(work) == work \in Agendas /\ \A i \in DOMAIN work : work[i].do \in QuietNames

\* One if the item that runs carries the callback of o.
Taken(o) == IF Head(agenda) \in Carrying(o) THEN 1 ELSE 0

\* The sets that depend on the calls alone.
LEMMA SameOps ==
  ASSUME UNCHANGED ops
  PROVE  /\ Ops' = Ops /\ Sends' = Sends /\ Attaches' = Attaches
         /\ Detaches' = Detaches /\ Work' = Work /\ Deferred' = Deferred
         /\ Agendas' = Agendas /\ Queues' = Queues /\ Links' = Links
BY DEF Ops, Sends, Attaches, Detaches, Payloads, Work, Deferred, Agendas, Queues,
       Links

\* Quiet work leaves the accounts and the control alone.
LEMMA QuietFacts ==
  ASSUME NEW work, Quiet(work)
  PROVE  /\ \A o : Count(work, Carrying(o)) = 0
         /\ ~Has(work, Loops) /\ ~Has(work, Events)
         /\ ~Has(work, Transitions) /\ ~Has(work, Telling)
<1>1. \A i \in DOMAIN work : work[i].do \in QuietNames
  BY DEF Quiet
<1>2. \A o : {i \in DOMAIN work : work[i] \in Carrying(o)} = {}
  BY <1>1 DEF Carrying, QuietNames, Plain, EventNames
<1>3. \A o : Count(work, Carrying(o)) = 0
  BY <1>2, FS_EmptySet DEF Count
<1>4. QED
  BY <1>1, <1>3 DEF Has, Loops, Events, Transitions, Telling, Named, QuietNames,
                    Plain, EventNames

\* The owner's turn, nothing, and one step of the program are quiet, and so is
\* one after the other.
LEMMA QuietWork ==
  /\ Quiet(<<>>) /\ Quiet(Owner) /\ \A op : Quiet(Called(op))
  /\ \A name \in QuietNames : Quiet(<<Step(name)>>)
  /\ \A name \in QuietNames : Quiet(Owner \o <<Step(name)>>)
  /\ \A op : \A name \in QuietNames : Quiet(Called(op) \o <<Step(name)>>)
<1>1. ASSUME NEW name \in QuietNames
      PROVE  <<Step(name)>> \in Agendas /\ Quiet(<<Step(name)>>)
  <2>1. Step(name) \in Work /\ Step(name).do = name
    BY StepItems DEF QuietNames, Step, Item
  <2>2. QED
    BY <2>1 DEF Quiet, Agendas
<1>2. "owner" \in QuietNames
  BY DEF QuietNames, Plain, EventNames
<1>3. Quiet(<<>>)
  BY DEF Quiet, Agendas
<1>4. Quiet(Owner)
  BY <1>1, <1>2, <1>3 DEF Owner
<1>5. \A op : Quiet(Called(op))
  BY <1>3, <1>4 DEF Called
<1>6. ASSUME NEW work, Quiet(work), NEW name \in QuietNames
      PROVE  Quiet(work \o <<Step(name)>>)
  <2> DEFINE one == <<Step(name)>>
  <2>1. work \in Seq(Work) /\ one \in Seq(Work)
    BY <1>1, <1>6 DEF Quiet, Agendas
  <2>2. \A i \in DOMAIN work : work[i].do \in QuietNames
    BY <1>6 DEF Quiet
  <2>3. \A i \in DOMAIN one : one[i].do \in QuietNames
    BY <1>1 DEF Quiet
  <2> HIDE DEF one
  <2>4. /\ work \o one \in Seq(Work)
        /\ DOMAIN (work \o one) = 1..(Len(work) + Len(one))
        /\ Len(work) \in Nat /\ Len(one) \in Nat
        /\ DOMAIN work = 1..Len(work) /\ DOMAIN one = 1..Len(one)
        /\ \A i \in 1..(Len(work) + Len(one)) :
             (work \o one)[i] = IF i <= Len(work) THEN work[i] ELSE one[i - Len(work)]
    BY <2>1, ConcatProperties, LenProperties
  <2>5. \A i \in DOMAIN (work \o one) : (work \o one)[i].do \in QuietNames
    BY <2>2, <2>3, <2>4
  <2>6. QED
    BY <2>4, <2>5 DEF Quiet, Agendas, one
<1>7. QED
  BY <1>1, <1>3, <1>4, <1>5, <1>6

\* Some work takes the place of the head of the agenda.
LEMMA MovedFacts ==
  ASSUME ops \in Seq(Methods), UNCHANGED ops, agenda \in Agendas, agenda # <<>>,
         NEW work \in Agendas, agenda' = work \o Tail(agenda)
  PROVE  /\ agenda' \in Agendas /\ Head(agenda) \in Work /\ Tail(agenda) \in Agendas
         /\ \A S : /\ Has(agenda', S) <=> Has(work, S) \/ Has(Tail(agenda), S)
                   /\ Has(agenda, S) <=> Head(agenda) \in S \/ Has(Tail(agenda), S)
         /\ \A o : /\ InAgenda(o)' + Taken(o)
                         = InAgenda(o) + Count(work, Carrying(o))
                   /\ InAgenda(o)' \in Nat /\ InAgenda(o) \in Nat
                   /\ Count(work, Carrying(o)) \in Nat /\ Taken(o) \in Nat
<1>1. agenda \in Seq(Work) /\ work \in Seq(Work)
  BY DEF Agendas
<1>2. Head(agenda) \in Work /\ Tail(agenda) \in Seq(Work)
  BY <1>1, HeadTailProperties
<1>3. agenda' \in Seq(Work)
  BY <1>1, <1>2, ConcatProperties
<1>4. ASSUME NEW S
      PROVE  /\ Has(agenda', S) <=> Has(work, S) \/ Has(Tail(agenda), S)
             /\ Has(agenda, S) <=> Head(agenda) \in S \/ Has(Tail(agenda), S)
  <2>1. Has(work \o Tail(agenda), S) <=> Has(work, S) \/ Has(Tail(agenda), S)
    BY <1>1, <1>2, HasConcat
  <2>2. Has(agenda, S) <=> Head(agenda) \in S \/ Has(Tail(agenda), S)
    BY <1>1, HasHeadTail
  <2>3. QED
    BY <2>1, <2>2, Zenon
<1>5. ASSUME NEW o
      PROVE  /\ InAgenda(o)' + Taken(o) = InAgenda(o) + Count(work, Carrying(o))
             /\ InAgenda(o)' \in Nat /\ InAgenda(o) \in Nat
             /\ Count(work, Carrying(o)) \in Nat /\ Taken(o) \in Nat
  <2>1. Count(work \o Tail(agenda), Carrying(o))
          = Count(work, Carrying(o)) + Count(Tail(agenda), Carrying(o))
    BY <1>1, <1>2, CountConcat
  <2>2. Count(agenda, Carrying(o)) = Taken(o) + Count(Tail(agenda), Carrying(o))
    BY <1>1, CountHeadTail DEF Taken
  <2>3. /\ Count(work, Carrying(o)) \in Nat /\ Count(Tail(agenda), Carrying(o)) \in Nat
        /\ Taken(o) \in Nat
    BY <1>1, <1>2, CountNat DEF Taken
  <2>4. /\ InAgenda(o)' = Count(work \o Tail(agenda), Carrying(o))
        /\ InAgenda(o) = Count(agenda, Carrying(o))
    BY DEF InAgenda, Carrying
  <2>5. QED
    BY <2>1, <2>2, <2>3, <2>4
<1>6. QED
  BY <1>2, <1>3, <1>4, <1>5 DEF Agendas

\* The counts are naturals.
LEMMA Naturals ==
  ASSUME Data, NEW o \in Ops
  PROVE  /\ InAgenda(o) \in Nat /\ InQueue(o) \in Nat /\ InAttaching(o) \in Nat
         /\ InDetaching(o) \in Nat /\ InUnsent(o) \in Nat /\ InPending(o) \in Nat
         /\ Told(o) \in Nat
<1>1. /\ agenda \in Seq(Work) /\ queue \in Seq(Deferred) /\ unsent \in Seq(Sends)
      /\ answers \in [Ops -> Nat]
  BY DEF Data, Shapes, TypeOK, Agendas, Queues
<1>2. InAttaching(o) \in Nat /\ InDetaching(o) \in Nat /\ InPending(o) \in Nat
  BY DEF InAttaching, InDetaching, InPending
<1>3. InAgenda(o) \in Nat /\ InQueue(o) \in Nat /\ InUnsent(o) \in Nat
  BY <1>1, CountNat DEF InAgenda, InQueue, InUnsent
<1>4. QED
  BY <1>1, <1>2, <1>3 DEF Told

\* A step that makes no call keeps Data if it keeps the types, the shapes and
\* the order, and of every operation the number of its places and answers; an
\* attach may lose some.
LEMMA Balance ==
  ASSUME Data, UNCHANGED <<ops, preSettled>>, WireOK', Shapes', Ordered',
         transmitted' \in Seq(Ops), answers' \in [Ops -> Nat],
         \A o \in Ops : \/ Accounts(o)' = Accounts(o)
                        \/ o \in Attaches /\ Accounts(o)' <= 1
  PROVE  Data'
<1>1. /\ Ops' = Ops /\ Sends' = Sends /\ Attaches' = Attaches
      /\ Detaches' = Detaches /\ Work' = Work /\ Deferred' = Deferred
      /\ Agendas' = Agendas /\ Queues' = Queues /\ Links' = Links
  BY SameOps
<1>2. ops \in Seq(Methods) /\ preSettled \in BOOLEAN
  BY DEF Data, TypeOK
<1>3. /\ agenda' \in Seq(Work) /\ queue' \in Seq(Work)
      /\ unsent' \in Seq(Ops) /\ pending' \subseteq Ops
      /\ {attachingCallback', detachingCallback'} \subseteq Ops \cup NoOperation
  <2>1. queue' \in Seq(Work)
    BY <1>1, DeferredFacts, SeqWiden DEF Shapes, Queues
  <2>2. unsent' \in Seq(Ops) /\ pending' \subseteq Ops
    BY <1>1, <1>2, OpsFacts, SeqWiden DEF Shapes
  <2>3. {attachingCallback', detachingCallback'} \subseteq Ops \cup NoOperation
    BY <1>1, <1>2, OpsFacts DEF Shapes, NoOperation
  <2>4. QED
    BY <1>1, <2>1, <2>2, <2>3 DEF Shapes, Agendas
<1>4. \A item \in ToSet(queue') \cup ToSet(agenda') :
        item.op \in Ops \cup {Undefined, Silent} /\ item.err \in BOOLEAN
  <2>1. \A item \in ToSet(queue') \cup ToSet(agenda') : item \in Work
    BY <1>3, LenProperties, ElementOfSeq DEF ToSet
  <2>2. QED
    BY <1>2, <2>1, WorkFacts DEF Payloads, NoOperation
<1>5. TypeOK'
  BY <1>1, <1>2, <1>3, <1>4 DEF TypeOK, WireOK, NoOperation, ToSet
<1>6. Accounted'
  BY <1>1, <1>2, OpsFacts DEF Data, Accounted
<1>7. QED
  BY <1>5, <1>6 DEF Data

\* Some work takes the place of the item that runs; what the link is besides has
\* its type.
Runs(work) ==
  /\ agenda # <<>> /\ work \in Agendas /\ agenda' = work \o Tail(agenda)
  /\ UNCHANGED <<ops, preSettled>>
  /\ WireOK'

\* What is kept has the shape it had.
Kept ==
  /\ queue' \in Queues /\ unsent' \in Seq(Sends) /\ pending' \subseteq Sends
  /\ attachingCallback' \in Attaches \cup NoOperation
  /\ detachingCallback' \in Detaches \cup {Undefined}
  /\ preSettled => pending' = {}
  /\ transmitted' \in Seq(Ops) /\ answers' \in [Ops -> Nat]

\* What is around the agenda holds what it held and what the item carried, less
\* what the work carries; an attach may be forgotten.
Even(work) ==
  \A o \in Ops :
    /\ Around(o) \in Nat /\ Around(o)' \in Nat
    /\ \/ Count(work, Carrying(o)) + Around(o)' = Taken(o) + Around(o)
       \/ /\ o \in Attaches
          /\ Count(work, Carrying(o)) + Around(o)' <= Taken(o) + Around(o)

\* A step that runs the head of the agenda keeps Data if the callbacks that the
\* item and the variables around the agenda held are still held or were called.
LEMMA Handled ==
  ASSUME Data, NEW work, Runs(work), Kept, Even(work), Ordered'
  PROVE  Data'
<1>1. /\ Ops' = Ops /\ Sends' = Sends /\ Attaches' = Attaches
      /\ Detaches' = Detaches /\ Work' = Work /\ Deferred' = Deferred
      /\ Agendas' = Agendas /\ Queues' = Queues /\ Links' = Links
  BY SameOps DEF Runs
<1>2. /\ agenda' \in Agendas
      /\ \A o : /\ InAgenda(o)' + Taken(o) = InAgenda(o) + Count(work, Carrying(o))
                /\ InAgenda(o)' \in Nat /\ InAgenda(o) \in Nat
                /\ Count(work, Carrying(o)) \in Nat /\ Taken(o) \in Nat
  BY MovedFacts DEF Data, TypeOK, Shapes, Runs
<1>3. Shapes'
  BY <1>1, <1>2 DEF Shapes, Kept, Runs
<1>4. ASSUME NEW o \in Ops
      PROVE  Accounts(o)' = Accounts(o) \/ (o \in Attaches /\ Accounts(o)' <= 1)
  <2>1. /\ InAgenda(o)' + Taken(o) = InAgenda(o) + Count(work, Carrying(o))
        /\ InAgenda(o)' \in Nat /\ InAgenda(o) \in Nat
        /\ Count(work, Carrying(o)) \in Nat /\ Taken(o) \in Nat
    BY <1>2
  <2>2. /\ Accounts(o) = InAgenda(o) + Around(o)
        /\ Accounts(o)' = InAgenda(o)' + Around(o)'
    BY DEF Accounts
  <2>3. Accounts(o) <= 1
    BY DEF Data, Accounted
  <2>4. Around(o) \in Nat /\ Around(o)' \in Nat
    BY DEF Even
  <2>5. CASE Count(work, Carrying(o)) + Around(o)' = Taken(o) + Around(o)
    BY <2>1, <2>2, <2>4, <2>5
  <2>6. CASE /\ o \in Attaches
             /\ Count(work, Carrying(o)) + Around(o)' <= Taken(o) + Around(o)
    BY <2>1, <2>2, <2>3, <2>4, <2>6
  <2>7. QED
    BY <2>5, <2>6 DEF Even
<1>5. QED
  BY <1>3, <1>4, Balance DEF Runs, Kept

\* What was kept in the order, with the messages as they are.
LEMMA SameOrder ==
  ASSUME Ordered, UNCHANGED <<unsent, transmitted>>
  PROVE  Ordered'
BY DEF Ordered, SentInOrder

\* The callbacks of an attach and of a detach are moved between the agenda, the
\* two variables and those called.
CallbacksBalance(work) ==
  \A o \in Ops :
    \/ Count(work, Carrying(o)) + InAttaching(o)' + InDetaching(o)' + Told(o)'
         = Taken(o) + InAttaching(o) + InDetaching(o) + Told(o)
    \/ /\ o \in Attaches
       /\ Count(work, Carrying(o)) + InAttaching(o)' + InDetaching(o)' + Told(o)'
            <= Taken(o) + InAttaching(o) + InDetaching(o) + Told(o)

\* A step that only moves the callbacks of attaches and detaches keeps the data:
\* each is handed on, called back or, an attach's, dropped.
LEMMA CallbacksMove ==
  ASSUME Data, NEW work, Runs(work), UNCHANGED <<queue, messages>>, Kept,
         CallbacksBalance(work)
  PROVE  Data'
<1>1. ASSUME NEW o \in Ops
      PROVE  /\ Around(o) \in Nat /\ Around(o)' \in Nat
             /\ \/ Count(work, Carrying(o)) + Around(o)' = Taken(o) + Around(o)
                \/ /\ o \in Attaches
                   /\ Count(work, Carrying(o)) + Around(o)' <= Taken(o) + Around(o)
  <2>1. /\ InQueue(o) \in Nat /\ InAttaching(o) \in Nat
        /\ InDetaching(o) \in Nat /\ InUnsent(o) \in Nat /\ InPending(o) \in Nat
        /\ Told(o) \in Nat
    BY Naturals
  <2>2. InAttaching(o)' \in Nat /\ InDetaching(o)' \in Nat /\ Told(o)' \in Nat
    BY DEF InAttaching, InDetaching, Told, Kept
  <2>3. /\ InQueue(o)' = InQueue(o) /\ InUnsent(o)' = InUnsent(o)
        /\ InPending(o)' = InPending(o)
    BY DEF InQueue, InUnsent, InPending, Carrying, messages
  <2>4. Count(work, Carrying(o)) \in Nat /\ Taken(o) \in Nat
    BY CountNat DEF Agendas, Taken, Runs
  <2>5. /\ Around(o) = InQueue(o) + InAttaching(o) + InDetaching(o) + InUnsent(o)
                        + InPending(o) + Told(o)
        /\ Around(o)' = InQueue(o)' + InAttaching(o)' + InDetaching(o)' + InUnsent(o)'
                         + InPending(o)' + Told(o)'
    BY DEF Around
  <2>6. Around(o) \in Nat /\ Around(o)' \in Nat
    BY <2>1, <2>2, <2>3, <2>5
  <2>7. CASE Count(work, Carrying(o)) + InAttaching(o)' + InDetaching(o)' + Told(o)'
               = Taken(o) + InAttaching(o) + InDetaching(o) + Told(o)
    <3>1. PICK k \in Nat : k = InQueue(o) + InUnsent(o) + InPending(o)
      BY <2>1
    <3>2. PICK m \in Nat : m = InAttaching(o) + InDetaching(o) + Told(o)
      BY <2>1
    <3>3. PICK n \in Nat : n = InAttaching(o)' + InDetaching(o)' + Told(o)'
      BY <2>2
    <3>4. Around(o) = k + m
      BY <2>1, <2>5, <3>1, <3>2
    <3>5. Around(o)' = k + n
      BY <2>1, <2>2, <2>3, <2>5, <3>1, <3>3
    <3>6. Count(work, Carrying(o)) + n = Taken(o) + m
      BY <2>1, <2>2, <2>4, <2>7, <3>2, <3>3
    <3>7. Count(work, Carrying(o)) + Around(o)' = Taken(o) + Around(o)
      BY <2>4, <3>4, <3>5, <3>6
    <3>8. QED
      BY <2>6, <3>7
  <2>8. CASE /\ o \in Attaches
             /\ Count(work, Carrying(o)) + InAttaching(o)' + InDetaching(o)' + Told(o)'
                  <= Taken(o) + InAttaching(o) + InDetaching(o) + Told(o)
    BY <2>1, <2>2, <2>3, <2>4, <2>5, <2>6, <2>8
  <2>9. \/ Count(work, Carrying(o)) + InAttaching(o)' + InDetaching(o)' + Told(o)'
             = Taken(o) + InAttaching(o) + InDetaching(o) + Told(o)
        \/ /\ o \in Attaches
           /\ Count(work, Carrying(o)) + InAttaching(o)' + InDetaching(o)' + Told(o)'
                <= Taken(o) + InAttaching(o) + InDetaching(o) + Told(o)
    BY DEF CallbacksBalance
  <2>10. QED
    BY <2>6, <2>7, <2>8, <2>9
<1>2. Ordered'
  BY SameOrder DEF Data, messages
<1>3. QED
  BY <1>1, <1>2, Handled DEF Even

\* Messages are moved between the queue, the dictionary and those called back.
MessagesBalance ==
  \A o \in Ops : InUnsent(o)' + InPending(o)' + Told(o)'
                    = InUnsent(o) + InPending(o) + Told(o)

\* A step that only moves messages, while no callback is under way in the work
\* taken, keeps the data.
LEMMA MessagesMove ==
  ASSUME Data, NEW work, Quiet(work), Runs(work), UNCHANGED <<queue, callbacks>>,
         Kept, Ordered', \A o \in Ops : Taken(o) = 0, MessagesBalance
  PROVE  Data'
<1>1. ASSUME NEW o \in Ops
      PROVE  /\ Around(o) \in Nat /\ Around(o)' \in Nat
             /\ Count(work, Carrying(o)) + Around(o)' = Taken(o) + Around(o)
  <2>1. /\ InQueue(o) \in Nat /\ InAttaching(o) \in Nat
        /\ InDetaching(o) \in Nat /\ InUnsent(o) \in Nat /\ InPending(o) \in Nat
        /\ Told(o) \in Nat
    BY Naturals
  <2>2. /\ InUnsent(o)' \in Nat /\ InPending(o)' \in Nat /\ Told(o)' \in Nat
    BY CountNat DEF InUnsent, InPending, Told, Kept
  <2>3. /\ InQueue(o)' = InQueue(o) /\ InAttaching(o)' = InAttaching(o)
        /\ InDetaching(o)' = InDetaching(o)
    BY DEF InQueue, InAttaching, InDetaching, Carrying, callbacks
  <2>4. Count(work, Carrying(o)) = 0 /\ Taken(o) = 0
    BY QuietFacts
  <2>5. /\ Around(o) = InQueue(o) + InAttaching(o) + InDetaching(o) + InUnsent(o)
                        + InPending(o) + Told(o)
        /\ Around(o)' = InQueue(o)' + InAttaching(o)' + InDetaching(o)' + InUnsent(o)'
                         + InPending(o)' + Told(o)'
    BY DEF Around
  <2>6. InUnsent(o)' + InPending(o)' + Told(o)'
          = InUnsent(o) + InPending(o) + Told(o)
    BY DEF MessagesBalance
  <2>7. QED
    BY <2>1, <2>2, <2>3, <2>4, <2>5, <2>6
<1>2. QED
  BY <1>1, Handled DEF Even

\* Deferred inputs are moved between the agenda and the queue.
QueueBalance(work) ==
  \A o \in Ops : Count(work, Carrying(o)) + InQueue(o)' = Taken(o) + InQueue(o)

\* A step that only defers inputs or replays them keeps the data.
LEMMA QueueMoves ==
  ASSUME Data, NEW work, Runs(work), UNCHANGED <<messages, callbacks, answers>>,
         queue' \in Queues, QueueBalance(work)
  PROVE  Data'
<1>1. ASSUME NEW o \in Ops
      PROVE  /\ Around(o) \in Nat /\ Around(o)' \in Nat
             /\ Count(work, Carrying(o)) + Around(o)' = Taken(o) + Around(o)
  <2>1. /\ InQueue(o) \in Nat /\ InAttaching(o) \in Nat
        /\ InDetaching(o) \in Nat /\ InUnsent(o) \in Nat /\ InPending(o) \in Nat
        /\ Told(o) \in Nat
    BY Naturals
  <2>2. InQueue(o)' \in Nat
    <3>1. queue' \in Seq(Deferred)
      BY DEF Queues
    <3>2. Count(queue', Carrying(o)) \in Nat
      BY <3>1, CountNat
    <3>3. QED
      BY <3>2 DEF InQueue, Carrying
  <2>3. /\ InUnsent(o)' = InUnsent(o) /\ InPending(o)' = InPending(o)
        /\ InAttaching(o)' = InAttaching(o) /\ InDetaching(o)' = InDetaching(o)
        /\ Told(o)' = Told(o)
    BY DEF InUnsent, InPending, InAttaching, InDetaching, Told, callbacks, messages
  <2>4. Count(work, Carrying(o)) \in Nat /\ Taken(o) \in Nat
    BY CountNat DEF Agendas, Taken, Runs
  <2>5. /\ Around(o) = InQueue(o) + InAttaching(o) + InDetaching(o) + InUnsent(o)
                        + InPending(o) + Told(o)
        /\ Around(o)' = InQueue(o)' + InAttaching(o)' + InDetaching(o)' + InUnsent(o)'
                         + InPending(o)' + Told(o)'
    BY DEF Around
  <2>6. Count(work, Carrying(o)) + InQueue(o)' = Taken(o) + InQueue(o)
    BY DEF QueueBalance
  <2>7. QED
    BY <2>1, <2>2, <2>3, <2>4, <2>5, <2>6
<1>2. Kept
  BY DEF Data, Shapes, TypeOK, callbacks, messages, Kept
<1>3. Ordered'
  BY SameOrder DEF Data, messages
<1>4. QED
  BY <1>1, <1>2, <1>3, Handled DEF Even

-----------------------------------------------------------------------------
(* The handlers keep Data.                                                 *)

\* An item is taken off the agenda.
Takes(item, rest) ==
  /\ agenda # <<>> /\ item = Head(agenda) /\ rest = Tail(agenda)
  /\ UNCHANGED <<ops, preSettled>>

CarryingNames == {"attach", "detach", "toDetached", "tell"}

\* What the item taken says, and what it carries.
LEMMA TakesFacts ==
  ASSUME Data, NEW item, NEW rest, Takes(item, rest)
  PROVE  /\ ops \in Seq(Methods) /\ item \in Work /\ rest \in Agendas
         /\ rest = <<>> \o rest
         /\ \A o : Taken(o) = IF item.do \in CarryingNames /\ item.op = o THEN 1 ELSE 0
<1>1. ops \in Seq(Methods) /\ agenda \in Seq(Work)
  BY DEF Data, TypeOK, Shapes, Agendas
<1>2. item \in Work /\ rest \in Seq(Work)
  BY <1>1, HeadTailProperties DEF Takes
<1>3. rest = <<>> \o rest
  BY <1>2, ConcatEmptySeq
<1>4. item = Item(item.do, item.op, item.err) /\ item.err \in BOOLEAN
  BY <1>1, <1>2, WorkFacts
<1>5. \A o : item \in Carrying(o) <=> item.do \in CarryingNames /\ item.op = o
  BY <1>4, CarryingFacts DEF CarryingNames
<1>6. QED
  BY <1>1, <1>2, <1>3, <1>5 DEF Taken, Agendas, Takes

\* Our end of the current link may change.
LEMMA LinkFacts ==
  ASSUME links \in Seq(Links), NEW l \in 1..Len(links)
  PROVE  /\ links[l] \in Links
         /\ \A link \in Links : /\ [links EXCEPT ![l] = link] \in Seq(Links)
                                /\ Len([links EXCEPT ![l] = link]) = Len(links)
BY ElementOfSeq, ExceptSeq

\* The changes that the handlers make to it.
LEMMA LinkChanges ==
  ASSUME links \in Seq(Links), sender \in 0..Len(links), sender # 0,
         NEW local \in {"open", "closed", "removed"}
  PROVE  /\ Unheard(local) \in Seq(Links) /\ Len(Unheard(local)) = Len(links)
         /\ [links EXCEPT ![sender].local = local] \in Seq(Links)
         /\ Len([links EXCEPT ![sender].local = local]) = Len(links)
<1>1. sender \in 1..Len(links) /\ links[sender] \in Links
  BY LinkFacts, LenProperties
<1> DEFINE quiet == [[links[sender] EXCEPT !.on = FALSE] EXCEPT !.local = local]
           own == [links[sender] EXCEPT !.local = local]
<1>2. quiet \in Links /\ own \in Links
  BY <1>1 DEF Links
<1>3. Unheard(local) = [links EXCEPT ![sender] = quiet]
  BY <1>1, LenProperties DEF Unheard
<1>4. [links EXCEPT ![sender].local = local] = [links EXCEPT ![sender] = own]
  OBVIOUS
<1> HIDE DEF quiet, own
<1>5. QED
  BY <1>1, <1>2, <1>3, <1>4, LinkFacts

\* A callback called is counted.
LEMMA AnswerFacts ==
  ASSUME Data, NEW called, Answer(called)
  PROVE  /\ answers' \in [Ops -> Nat]
         /\ \A o \in Ops : Told(o)' = Told(o) + (IF o \in called THEN 1 ELSE 0)
BY DEF Answer, Told, Data, TypeOK

\* Only the agenda changes, and the state of the link: the work carries what the
\* item carried, unless the item was an attach that is ignored.
LEMMA AgendaMoves ==
  ASSUME Data, NEW work, Runs(work),
         UNCHANGED <<queue, messages, callbacks, answers>>,
         \A o \in Ops : \/ Count(work, Carrying(o)) = Taken(o)
                        \/ o \in Attaches /\ Count(work, Carrying(o)) = 0
  PROVE  Data'
<1>1. Kept
  BY DEF Kept, Data, Shapes, TypeOK, messages, callbacks
<1>2. ASSUME NEW o \in Ops
      PROVE  /\ InAttaching(o)' = InAttaching(o) /\ InDetaching(o)' = InDetaching(o)
             /\ Told(o)' = Told(o) /\ InAttaching(o) \in Nat /\ InDetaching(o) \in Nat
             /\ Told(o) \in Nat /\ Taken(o) \in Nat
  BY Naturals DEF InAttaching, InDetaching, Told, callbacks, Taken
<1>3. CallbacksBalance(work)
  BY <1>2 DEF CallbacksBalance
<1>4. QED
  BY <1>1, <1>3, CallbacksMove

\* The callback that the item carried is called.
LEMMA ItemAnswered ==
  ASSUME Data, NEW work, Quiet(work), Runs(work), NEW op, Answer({op}),
         UNCHANGED <<queue, messages, callbacks>>,
         \A o \in Ops : Taken(o) = IF op = o THEN 1 ELSE 0
  PROVE  Data'
<1>1. /\ answers' \in [Ops -> Nat]
      /\ \A o \in Ops : Told(o)' = Told(o) + (IF o \in {op} THEN 1 ELSE 0)
  BY AnswerFacts
<1>2. Kept
  BY <1>1 DEF Kept, Data, Shapes, TypeOK, messages, callbacks
<1>3. ASSUME NEW o \in Ops
      PROVE  /\ InAttaching(o)' = InAttaching(o) /\ InDetaching(o)' = InDetaching(o)
             /\ Told(o)' = Told(o) + Taken(o)
             /\ InAttaching(o) \in Nat /\ InDetaching(o) \in Nat
             /\ Told(o) \in Nat /\ Taken(o) \in Nat /\ Count(work, Carrying(o)) = 0
  BY <1>1, Naturals, QuietFacts DEF InAttaching, InDetaching, callbacks, Taken
<1>4. CallbacksBalance(work)
  BY <1>3 DEF CallbacksBalance
<1>5. QED
  BY <1>2, <1>4, CallbacksMove

\* Attaching: the callback of the item, if it has one, is kept.
LEMMA AttachData ==
  ASSUME Data, NEW item, NEW rest, Takes(item, rest),
         NEW op \in Attaches \cup {Silent}, Attach(op, rest),
         \A o \in Ops : Taken(o) = IF op = o THEN 1 ELSE 0
  PROVE  Data'
<1>1. /\ ops \in Seq(Methods) /\ rest \in Agendas /\ rest = <<>> \o rest
      /\ <<>> \in Agendas
  BY TakesFacts DEF Agendas
<1>2. WireOK'
  <2> DEFINE link == [local |-> "open", peer |-> "none", on |-> TRUE, flight |-> {}]
  <2>1. link \in Links
    BY DEF Links
  <2>2. links \in Seq(Links) /\ Len(links) \in Nat /\ crashed \in BOOLEAN
    BY LenProperties DEF Data, TypeOK
  <2> HIDE DEF link
  <2>3. Append(links, link) \in Seq(Links) /\ Len(Append(links, link)) = Len(links) + 1
    BY <2>1, <2>2, AppendProperties
  <2>4. /\ links' = Append(links, link) /\ sender' = Len(links) + 1
        /\ state' = "attaching" /\ indicatedError' = FALSE
        /\ senderCloseOccurred' = FALSE /\ crashed' = crashed
    BY DEF Attach, link
  <2>5. Links' = Links
    BY SameOps DEF Takes
  <2>6. Len(links') = Len(links) + 1 /\ links' \in Seq(Links')
    BY <2>3, <2>4, <2>5
  <2>7. sender' \in 0..Len(links') /\ sender' # 0
    BY <2>2, <2>4, <2>6
  <2>8. QED
    BY <2>2, <2>4, <2>6, <2>7 DEF WireOK
<1>3. Runs(<<>>)
  BY <1>1, <1>2 DEF Runs, Takes, Attach
<1>4. Kept
  BY DEF Kept, Data, Shapes, TypeOK, messages, Attach, NoOperation
<1>5. ASSUME NEW o \in Ops
      PROVE  /\ InAttaching(o) \in Nat /\ InDetaching(o) \in Nat /\ Told(o) \in Nat
             /\ InDetaching(o)' = InDetaching(o) /\ Told(o)' = Told(o)
             /\ InAttaching(o)' = Taken(o) /\ Taken(o) \in Nat
             /\ o \notin Attaches => InAttaching(o) = 0
             /\ Count(<<>>, Carrying(o)) = 0
  <2>1. Count(<<>>, Carrying(o)) = 0
    BY CountEmpty
  <2>2. InAttaching(o)' = Taken(o) /\ Taken(o) \in Nat
    BY DEF InAttaching, Attach, Taken
  <2>3. InDetaching(o)' = InDetaching(o) /\ Told(o)' = Told(o)
    BY DEF InDetaching, Attach, Told
  <2>4. o \notin Attaches => InAttaching(o) = 0
    BY <1>1, OpsFacts DEF InAttaching, Data, Shapes, NoOperation
  <2>5. QED
    BY <2>1, <2>2, <2>3, <2>4, Naturals
<1>6. CallbacksBalance(<<>>)
  BY <1>5 DEF CallbacksBalance
<1>7. QED
  BY <1>3, <1>4, <1>6, CallbacksMove DEF Attach

\* What leaves the link and its state alone keeps their types.
LEMMA SameWire ==
  ASSUME Data, UNCHANGED ops, UNCHANGED <<sender, links, state>>,
         indicatedError' \in BOOLEAN, senderCloseOccurred' \in BOOLEAN,
         crashed' \in BOOLEAN
  PROVE  WireOK'
BY SameOps DEF WireOK, Data, TypeOK

\* So does what leaves them all alone.
LEMMA SameAll ==
  ASSUME Data, UNCHANGED <<ops, state, closing, wire, crashed>>
  PROVE  WireOK'
<1>1. /\ UNCHANGED ops /\ UNCHANGED <<sender, links, state>>
      /\ indicatedError' = indicatedError
      /\ senderCloseOccurred' = senderCloseOccurred /\ crashed' = crashed
  BY DEF wire, closing
<1>2. indicatedError \in BOOLEAN /\ senderCloseOccurred \in BOOLEAN /\ crashed \in BOOLEAN
  BY DEF Data, TypeOK
<1>3. QED
  BY <1>1, <1>2, SameWire

\* An item that carries nothing is ignored; so is an attach.
LEMMA IgnoreData ==
  ASSUME Data, NEW item, NEW rest, Takes(item, rest), Ignore(rest),
         \A o \in Ops : Taken(o) = 0 \/ o \in Attaches
  PROVE  Data'
<1>1. rest = <<>> \o rest /\ <<>> \in Agendas
  BY TakesFacts DEF Agendas
<1>2. WireOK'
  BY SameAll DEF Ignore, Takes, fsm
<1>3. Runs(<<>>)
  BY <1>1, <1>2 DEF Runs, Takes, Ignore
<1>4. \A o \in Ops : Count(<<>>, Carrying(o)) = 0
  BY CountEmpty
<1>5. QED
  BY <1>3, <1>4, AgendaMoves DEF Ignore, fsm

\* In the detached state an attach, or a message to send, attaches.
LEMMA DetachedData ==
  ASSUME Data, NEW item, NEW rest, Takes(item, rest), item.do \in Inputs,
         HandleDetached(item, rest)
  PROVE  Data'
<1>1. /\ ops \in Seq(Methods) /\ item \in Work /\ rest = Tail(agenda)
      /\ \A o : Taken(o) = IF item.do \in CarryingNames /\ item.op = o THEN 1 ELSE 0
  BY TakesFacts DEF Takes
<1>2. CASE item.do = "attach" /\ Attach(item.op, rest)
  <2>1. item.op \in Attaches
    BY <1>1, <1>2, WorkFacts
  <2>2. QED
    BY <1>1, <1>2, <2>1, AttachData DEF CarryingNames
<1>3. CASE item.do = "send" /\ Attach(Silent, rest)
  <2>1. \A o \in Ops : Taken(o) = IF Silent = o THEN 1 ELSE 0
    BY <1>1, <1>3, OpsFacts DEF CarryingNames
  <2>2. QED
    BY <1>3, <2>1, AttachData
<1>4. CASE /\ item.do = "detach"
           /\ Answer({item.op}) /\ agenda' = Owner \o rest
           /\ UNCHANGED <<fsm, messages, callbacks, closing, wire, crashed>>
  <2>1. WireOK'
    BY <1>4, SameAll DEF Takes, fsm
  <2>2. Quiet(Owner) /\ Runs(Owner)
    BY <1>1, <1>4, <2>1, QuietWork DEF Runs, Takes, Quiet
  <2>3. QED
    BY <1>1, <1>4, <2>2, ItemAnswered DEF CarryingNames, fsm
<1>5. CASE item.do \notin {"attach", "detach"} /\ Ignore(rest)
  <2>1. \A o \in Ops : Taken(o) = 0
    BY <1>1, <1>5 DEF CarryingNames, Inputs, Methods
  <2>2. QED
    BY <1>5, <2>1, IgnoreData
<1>6. QED
  BY <1>2, <1>3, <1>4, <1>5 DEF HandleDetached

\* Work that ends with a transition carries the callback of that transition.
LEMMA TransitionWork ==
  ASSUME ops \in Seq(Methods), NEW op \in Attaches \cup Detaches \cup NoOperation,
         NEW err \in BOOLEAN, NEW work, Quiet(work)
  PROVE  /\ <<Item("toDetached", op, err)>> \in Agendas
         /\ work \o <<Item("toDetached", op, err)>> \in Agendas
         /\ \A o \in Ops :
              /\ Count(<<Item("toDetached", op, err)>>, Carrying(o))
                   = IF op = o THEN 1 ELSE 0
              /\ Count(work \o <<Item("toDetached", op, err)>>, Carrying(o))
                   = IF op = o THEN 1 ELSE 0
<1> DEFINE w == Item("toDetached", op, err)
<1>1. w \in Work
  BY WorkItems
<1>2. <<w>> \in Seq(Work) /\ work \in Seq(Work) /\ work \o <<w>> \in Seq(Work)
  BY <1>1, ConcatProperties DEF Quiet, Agendas
<1>3. ASSUME NEW o \in Ops
      PROVE  /\ Count(<<w>>, Carrying(o)) = IF op = o THEN 1 ELSE 0
             /\ Count(work \o <<w>>, Carrying(o)) = IF op = o THEN 1 ELSE 0
  <2>1. w \in Carrying(o) <=> op = o
    BY CarryingFacts
  <2> HIDE DEF w
  <2>2. Count(<<w>>, Carrying(o)) = IF op = o THEN 1 ELSE 0
    BY <2>1, CountOne
  <2>3. Count(work, Carrying(o)) = 0
    BY QuietFacts
  <2>4. Count(work \o <<w>>, Carrying(o)) = Count(work, Carrying(o)) + Count(<<w>>, Carrying(o))
    BY <1>2, CountConcat
  <2>5. QED
    BY <2>2, <2>3, <2>4
<1>4. QED
  BY <1>2, <1>3 DEF Agendas

\* The callbacks that the two variables hold; the agenda holds others.
LEMMA HeldFacts ==
  ASSUME Data, NEW o \in Ops
  PROVE  /\ InAttaching(o) = (IF attachingCallback = o THEN 1 ELSE 0)
         /\ InDetaching(o) = (IF detachingCallback = o THEN 1 ELSE 0)
         /\ InAttaching(o) \in Nat /\ InDetaching(o) \in Nat /\ Told(o) \in Nat
         /\ Taken(o) \in Nat
         /\ attachingCallback' = attachingCallback => InAttaching(o)' = InAttaching(o)
         /\ detachingCallback' = detachingCallback => InDetaching(o)' = InDetaching(o)
         /\ attachingCallback' = Undefined => InAttaching(o)' = 0
         /\ detachingCallback' = Undefined => InDetaching(o)' = 0
         /\ answers' = answers => Told(o)' = Told(o)
<1>1. o # Undefined
  BY OpsFacts DEF Data, TypeOK
<1>2. QED
  BY <1>1, Naturals DEF InAttaching, InDetaching, Told, Taken

\* Leaving the attaching state for a detach: the callback of the attach is
\* called, that of the detach goes on with the transition.
LEMMA DetachAttachingData ==
  ASSUME Data, NEW item, NEW rest, Takes(item, rest), state = "attaching",
         NEW op \in Detaches \cup {Undefined}, NEW err \in BOOLEAN,
         DetachAttaching(op, err, rest),
         \A o \in Ops : Taken(o) = IF op = o THEN 1 ELSE 0
  PROVE  Data'
<1> DEFINE work == Called(attachingCallback) \o <<Item("toDetached", op, err)>>
<1>1. ops \in Seq(Methods) /\ rest = Tail(agenda)
  BY TakesFacts DEF Takes
<1>2. Quiet(Called(attachingCallback))
  BY QuietWork
<1>3. /\ work \in Agendas
      /\ \A o \in Ops : Count(work, Carrying(o)) = IF op = o THEN 1 ELSE 0
  BY <1>1, <1>2, TransitionWork DEF NoOperation
<1>4. /\ answers' \in [Ops -> Nat]
      /\ \A o \in Ops : Told(o)' = Told(o) + (IF o \in {attachingCallback} THEN 1 ELSE 0)
  BY AnswerFacts DEF DetachAttaching
<1>5. agenda' = work \o rest
  BY DEF DetachAttaching
<1> HIDE DEF work
<1>6. WireOK'
  <2>1. /\ links \in Seq(Links) /\ sender \in 0..Len(links) /\ sender # 0
        /\ senderCloseOccurred \in BOOLEAN
    BY DEF Data, TypeOK
  <2>2. links' \in Seq(Links) /\ Len(links') = Len(links)
    BY <2>1, LinkChanges DEF DetachAttaching
  <2>3. /\ sender' = sender /\ state' = "attaching" /\ indicatedError' = FALSE
        /\ senderCloseOccurred' = senderCloseOccurred /\ crashed' \in BOOLEAN
    BY DEF DetachAttaching, fsm
  <2>4. Links' = Links
    BY SameOps DEF Takes
  <2>5. QED
    BY <2>1, <2>2, <2>3, <2>4 DEF WireOK
<1>7. Runs(work)
  BY <1>1, <1>3, <1>5, <1>6 DEF Runs, Takes
<1>8. Kept
  BY <1>4 DEF Kept, Data, Shapes, TypeOK, messages, DetachAttaching, fsm, NoOperation
<1>9. ASSUME NEW o \in Ops
      PROVE  Count(work, Carrying(o)) + InAttaching(o)' + InDetaching(o)' + Told(o)'
               = Taken(o) + InAttaching(o) + InDetaching(o) + Told(o)
  <2>1. Count(work, Carrying(o)) = Taken(o)
    BY <1>3
  <2>2. Told(o)' = Told(o) + InAttaching(o)
    BY <1>4, HeldFacts
  <2>3. InAttaching(o)' = 0 /\ InDetaching(o)' = InDetaching(o)
    BY HeldFacts DEF DetachAttaching
  <2>4. QED
    BY <2>1, <2>2, <2>3, HeldFacts
<1>10. QED
  BY <1>7, <1>8, <1>9, CallbacksMove DEF CallbacksBalance, DetachAttaching, fsm

\* The rhea link is open: the callback of the attach is called.
LEMMA OpenedData ==
  ASSUME Data, NEW item, NEW rest, Takes(item, rest), state = "attaching",
         state' = "attached", attachingCallback' = Undefined,
         Answer({attachingCallback}),
         agenda' = Called(attachingCallback) \o <<Step("sendUnsent")>> \o rest,
         UNCHANGED <<queue, messages, detachingCallback, closing, wire, crashed>>,
         \A o \in Ops : Taken(o) = 0
  PROVE  Data'
<1> DEFINE work == Called(attachingCallback) \o <<Step("sendUnsent")>>
<1>1. ops \in Seq(Methods) /\ rest = Tail(agenda)
  BY TakesFacts DEF Takes
<1>2. Quiet(work)
  BY QuietWork DEF QuietNames, Plain, EventNames
<1>3. /\ answers' \in [Ops -> Nat]
      /\ \A o \in Ops : Told(o)' = Told(o) + (IF o \in {attachingCallback} THEN 1 ELSE 0)
  BY AnswerFacts
<1>4. agenda' = work \o rest
  OBVIOUS
<1> HIDE DEF work
<1>5. WireOK'
  <2>1. /\ links \in Seq(Links) /\ sender \in 0..Len(links) /\ sender # 0
        /\ senderCloseOccurred \in BOOLEAN /\ indicatedError \in BOOLEAN
        /\ crashed \in BOOLEAN
    BY DEF Data, TypeOK
  <2>2. /\ sender' = sender /\ state' = "attached" /\ links' = links
        /\ indicatedError' = indicatedError
        /\ senderCloseOccurred' = senderCloseOccurred /\ crashed' = crashed
    BY DEF wire, closing
  <2>3. Links' = Links
    BY SameOps DEF Takes
  <2>4. QED
    BY <2>1, <2>2, <2>3 DEF WireOK
<1>6. Runs(work)
  BY <1>1, <1>2, <1>4, <1>5 DEF Runs, Takes, Quiet
<1>7. Kept
  BY <1>3 DEF Kept, Data, Shapes, TypeOK, messages, NoOperation
<1>8. ASSUME NEW o \in Ops
      PROVE  Count(work, Carrying(o)) + InAttaching(o)' + InDetaching(o)' + Told(o)'
               = Taken(o) + InAttaching(o) + InDetaching(o) + Told(o)
  <2>1. Count(work, Carrying(o)) = 0 /\ Taken(o) = 0
    BY <1>2, QuietFacts
  <2>2. Told(o)' = Told(o) + InAttaching(o)
    BY <1>3, HeldFacts
  <2>3. InAttaching(o)' = 0 /\ InDetaching(o)' = InDetaching(o)
    BY HeldFacts
  <2>4. QED
    BY <2>1, <2>2, <2>3, HeldFacts
<1>9. QED
  BY <1>6, <1>7, <1>8, CallbacksMove DEF CallbacksBalance

\* The close of a link that has not opened: the callback of the attach goes on
\* with the transition.  So does that of a detach when the peer's close answers
\* ours.
LEMMA ClosedData ==
  ASSUME Data, NEW item, NEW rest, Takes(item, rest),
         NEW op \in Attaches \cup Detaches \cup NoOperation, sender # 0,
         NEW local \in {"open", "closed", "removed"},
         links' = Unheard(local),
         agenda' = <<Item("toDetached", op, indicatedError)>> \o rest,
         indicatedError' = FALSE, senderCloseOccurred' = TRUE,
         UNCHANGED <<fsm, messages, sender, answers, crashed>>,
         \/ /\ op = attachingCallback /\ attachingCallback' = Undefined
            /\ UNCHANGED detachingCallback
         \/ /\ op = detachingCallback /\ detachingCallback' = Undefined
            /\ UNCHANGED attachingCallback,
         \A o \in Ops : Taken(o) = 0
  PROVE  Data'
<1> DEFINE work == <<Item("toDetached", op, indicatedError)>>
<1>1. ops \in Seq(Methods) /\ rest = Tail(agenda) /\ indicatedError \in BOOLEAN
  BY TakesFacts DEF Takes, Data, TypeOK
<1>2. /\ work \in Agendas
      /\ \A o \in Ops : Count(work, Carrying(o)) = IF op = o THEN 1 ELSE 0
  BY <1>1, QuietWork, TransitionWork
<1>3. agenda' = work \o rest
  OBVIOUS
<1> HIDE DEF work
<1>4. WireOK'
  <2>1. /\ links \in Seq(Links) /\ sender \in 0..Len(links)
        /\ state \in {"detached", "attaching", "attached", "detaching"}
        /\ crashed \in BOOLEAN
    BY DEF Data, TypeOK
  <2>2. links' \in Seq(Links) /\ Len(links') = Len(links)
    BY <2>1, LinkChanges
  <2>3. sender' = sender /\ state' = state /\ crashed' = crashed
    BY DEF fsm
  <2>4. Links' = Links
    BY SameOps DEF Takes
  <2>5. QED
    BY <2>1, <2>2, <2>3, <2>4 DEF WireOK
<1>5. Runs(work)
  BY <1>1, <1>2, <1>3, <1>4 DEF Runs, Takes
<1>6. Kept
  BY DEF Kept, Data, Shapes, TypeOK, messages, NoOperation, fsm
<1>7. ASSUME NEW o \in Ops
      PROVE  Count(work, Carrying(o)) + InAttaching(o)' + InDetaching(o)' + Told(o)'
               = Taken(o) + InAttaching(o) + InDetaching(o) + Told(o)
  <2>1. Count(work, Carrying(o)) = (IF op = o THEN 1 ELSE 0) /\ Taken(o) = 0
    BY <1>2
  <2>2. Told(o)' = Told(o)
    BY HeldFacts
  <2>3. CASE op = attachingCallback /\ attachingCallback' = Undefined
               /\ UNCHANGED detachingCallback
    <3>1. /\ InAttaching(o)' = 0 /\ InDetaching(o)' = InDetaching(o)
          /\ Count(work, Carrying(o)) = InAttaching(o)
      BY <2>1, <2>3, HeldFacts
    <3>2. QED
      BY <2>1, <2>2, <3>1, HeldFacts
  <2>4. CASE op = detachingCallback /\ detachingCallback' = Undefined
               /\ UNCHANGED attachingCallback
    <3>1. /\ InDetaching(o)' = 0 /\ InAttaching(o)' = InAttaching(o)
          /\ Count(work, Carrying(o)) = InDetaching(o)
      BY <2>1, <2>4, HeldFacts
    <3>2. QED
      BY <2>1, <2>2, <3>1, HeldFacts
  <2>5. QED
    BY <2>3, <2>4
<1>8. QED
  BY <1>5, <1>6, <1>7, CallbacksMove DEF CallbacksBalance, fsm

\* An event that only takes note of an error or of a close.
LEMMA NotedData ==
  ASSUME Data, NEW item, NEW rest, Takes(item, rest), NEW work, Quiet(work),
         agenda' = work \o rest,
         indicatedError' \in BOOLEAN, senderCloseOccurred' \in BOOLEAN,
         UNCHANGED <<fsm, messages, callbacks, wire, answers, crashed>>,
         \A o \in Ops : Taken(o) = 0
  PROVE  Data'
<1>1. WireOK'
  <2>1. crashed' \in BOOLEAN /\ UNCHANGED <<sender, links, state>> /\ UNCHANGED ops
    BY DEF Data, TypeOK, wire, fsm, Takes
  <2>2. QED
    BY <2>1, SameWire
<1>2. Runs(work)
  BY <1>1 DEF Runs, Takes, Quiet
<1>3. \A o \in Ops : Count(work, Carrying(o)) = 0
  BY QuietFacts
<1>4. QED
  BY <1>2, <1>3, AgendaMoves DEF fsm

\* Events, the outcomes of messages and messages carry no callback of an attach
\* or a detach.
LEMMA NothingTaken ==
  ASSUME Data, NEW item, NEW rest, Takes(item, rest), item.do \notin CarryingNames
  PROVE  \A o \in Ops : Taken(o) = 0
BY TakesFacts

\* While attaching, an attach is ignored: it is the one that may be forgotten.
LEMMA AttachingData ==
  ASSUME Data, NEW item, NEW rest, Takes(item, rest), HandleAttaching(item, rest)
  PROVE  Data'
<1>1. /\ ops \in Seq(Methods) /\ item \in Work /\ rest = Tail(agenda)
      /\ rest = <<>> \o rest
      /\ \A o : Taken(o) = IF item.do \in CarryingNames /\ item.op = o THEN 1 ELSE 0
  BY TakesFacts DEF Takes
<1>2. state = "attaching" /\ sender # 0
  BY DEF HandleAttaching, Data, TypeOK
<1>3. CASE /\ item.do = "senderOpenEvent"
           /\ state' = "attached"
           /\ attachingCallback' = Undefined
           /\ Answer({attachingCallback})
           /\ agenda' = Called(attachingCallback) \o <<Step("sendUnsent")>> \o rest
           /\ UNCHANGED <<queue, messages, detachingCallback, closing, wire, crashed>>
  <2>1. \A o \in Ops : Taken(o) = 0
    BY <1>3, NothingTaken DEF CarryingNames
  <2>2. QED
    BY <1>2, <1>3, <2>1, OpenedData
<1>4. CASE /\ item.do = "senderErrorEvent"
           /\ indicatedError' = TRUE /\ agenda' = rest
           /\ UNCHANGED <<fsm, messages, callbacks, senderCloseOccurred, wire,
                          answers, crashed>>
  <2>1. \A o \in Ops : Taken(o) = 0
    BY <1>4, NothingTaken DEF CarryingNames
  <2>2. senderCloseOccurred' \in BOOLEAN
    BY <1>4 DEF Data, TypeOK
  <2>3. QED
    BY <1>1, <1>4, <2>1, <2>2, NotedData, QuietWork
<1>5. CASE /\ item.do = "senderCloseEvent"
           /\ links' = Unheard("open")
           /\ attachingCallback' = Undefined
           /\ indicatedError' = FALSE /\ senderCloseOccurred' = TRUE
           /\ agenda' = <<Item("toDetached", attachingCallback, indicatedError)>>
                          \o rest
           /\ UNCHANGED <<fsm, messages, detachingCallback, sender, answers, crashed>>
  <2>1. \A o \in Ops : Taken(o) = 0
    BY <1>5, NothingTaken DEF CarryingNames
  <2>2. attachingCallback \in Attaches \cup Detaches \cup NoOperation
    BY DEF Data, Shapes
  <2>3. QED
    BY <1>2, <1>5, <2>1, <2>2, ClosedData
<1>6. CASE item.do = "detach" /\ DetachAttaching(item.op, TRUE, rest)
  <2>1. item.op \in Detaches
    BY <1>1, <1>6, WorkFacts
  <2>2. QED
    BY <1>1, <1>2, <1>6, <2>1, DetachAttachingData DEF CarryingNames
<1>7. CASE item.do = "forceDetach"
             /\ DetachAttaching(Undefined, item.err \/ indicatedError, rest)
  <2>1. \A o \in Ops : Taken(o) = IF Undefined = o THEN 1 ELSE 0
    BY <1>1, <1>7, OpsFacts DEF CarryingNames
  <2>2. (item.err \/ indicatedError) \in BOOLEAN
    OBVIOUS
  <2>3. QED
    BY <1>2, <1>7, <2>1, <2>2, DetachAttachingData
<1>8. CASE item.do \in {"attach", "send", "accepted", "rejected"} /\ Ignore(rest)
  <2>1. \A o \in Ops : Taken(o) = 0 \/ o \in Attaches
    BY <1>1, <1>8, WorkFacts DEF CarryingNames
  <2>2. QED
    BY <1>8, <2>1, IgnoreData
<1>9. QED
  BY <1>3, <1>4, <1>5, <1>6, <1>7, <1>8 DEF HandleAttaching

\* A message that is pending is told, and is pending no more.
LEMMA PendingTold ==
  ASSUME Data, NEW item, NEW rest, Takes(item, rest),
         item.do \notin CarryingNames, NEW op, NEW work, Quiet(work),
         agenda' = work \o rest, WireOK',
         pending' = pending \ {op}, Answer({op} \cap pending),
         UNCHANGED <<queue, unsent, transmitted, callbacks>>
  PROVE  Data'
<1>1. /\ answers' \in [Ops -> Nat]
      /\ \A o \in Ops : Told(o)' = Told(o) + (IF o \in {op} \cap pending THEN 1 ELSE 0)
  BY AnswerFacts
<1>2. Runs(work)
  BY DEF Runs, Takes, Quiet
<1>3. Kept
  BY <1>1 DEF Kept, Data, Shapes, TypeOK, callbacks
<1>4. Ordered'
  BY SameOrder DEF Data
<1>5. MessagesBalance
  <2> SUFFICES ASSUME NEW o \in Ops
               PROVE  InUnsent(o)' + InPending(o)' + Told(o)'
                        = InUnsent(o) + InPending(o) + Told(o)
    BY DEF MessagesBalance
  <2>1. InUnsent(o)' = InUnsent(o)
    BY DEF InUnsent
  <2>2. InPending(o)' + Told(o)' = InPending(o) + Told(o)
    <3>1. CASE o = op /\ o \in pending
      <4>1. InPending(o)' = 0 /\ InPending(o) = 1 /\ Told(o)' = Told(o) + 1
        BY <1>1, <3>1 DEF InPending
      <4>2. QED
        BY <4>1, Naturals
    <3>2. CASE ~(o = op /\ o \in pending)
      <4>1. InPending(o)' = InPending(o) /\ Told(o)' = Told(o) + 0
        BY <1>1, <3>2 DEF InPending
      <4>2. QED
        BY <4>1, Naturals
    <3>3. QED
      BY <3>1, <3>2
  <2>3. PICK a \in Nat, b \in Nat, c \in Nat :
          a = InUnsent(o) /\ b = InPending(o) /\ c = Told(o)
    BY Naturals
  <2>4. PICK d \in Nat, e \in Nat : d = InPending(o)' /\ e = Told(o)'
    BY <1>1 DEF InPending, Told
  <2>5. d + e = b + c => a + d + e = a + b + c
    OBVIOUS
  <2>6. QED
    BY <2>1, <2>2, <2>3, <2>4, <2>5
<1>6. \A o \in Ops : Taken(o) = 0
  BY NothingTaken
<1>7. QED
  BY <1>2, <1>3, <1>4, <1>5, <1>6, MessagesMove

\* The outcome of a message is told if it is pending.
LEMMA SettleData ==
  ASSUME Data, NEW item, NEW rest, Takes(item, rest),
         item.do \notin CarryingNames, NEW op, Settle(op, rest)
  PROVE  Data'
<1> DEFINE work == IF op \in pending THEN Owner ELSE <<>>
<1>1. Quiet(work) /\ agenda' = work \o rest
  BY QuietWork DEF Settle
<1> HIDE DEF work
<1>2. WireOK'
  BY SameAll DEF Settle, Takes, fsm
<1>3. QED
  BY <1>1, <1>2, PendingTold DEF Settle, fsm

\* Detaching: the callback is kept, or goes on with the transition.
LEMMA DetachingStarts ==
  ASSUME Data, NEW item, NEW rest, Takes(item, rest), state = "attached",
         detachingCallback = Undefined, item.do = "detach",
         Detaching(item.op, item.err, rest)
  PROVE  Data'
<1>1. /\ ops \in Seq(Methods) /\ item \in Work /\ rest = Tail(agenda)
      /\ rest = <<>> \o rest /\ item.op \in Detaches /\ item.err \in BOOLEAN
      /\ \A o : Taken(o) = IF item.op = o THEN 1 ELSE 0
  BY TakesFacts, WorkFacts DEF Takes, CarryingNames
<1>2. WireOK'
  <2>1. /\ links \in Seq(Links) /\ sender \in 0..Len(links) /\ sender # 0
        /\ senderCloseOccurred \in BOOLEAN /\ crashed \in BOOLEAN
    BY DEF Data, TypeOK
  <2>2. links' \in Seq(Links) /\ Len(links') = Len(links)
    BY <2>1, LinkChanges DEF Detaching
  <2>3. /\ sender' = sender /\ state' = "detaching" /\ crashed' = crashed
        /\ senderCloseOccurred' = senderCloseOccurred /\ indicatedError' \in BOOLEAN
    BY <1>1 DEF Detaching
  <2>4. Links' = Links
    BY SameOps DEF Takes
  <2>5. QED
    BY <2>1, <2>2, <2>3, <2>4 DEF WireOK
<1>3. \A o \in Ops : InDetaching(o) = 0
  BY <1>1, OpsFacts, HeldFacts
<1>4. Kept
  BY <1>1 DEF Kept, Data, Shapes, TypeOK, messages, NoOperation, Detaching
<1>5. CASE senderCloseOccurred
  <2> DEFINE work == <<Item("toDetached", item.op, item.err)>>
  <2>1. /\ work \in Agendas
        /\ \A o \in Ops : Count(work, Carrying(o)) = IF item.op = o THEN 1 ELSE 0
    BY <1>1, QuietWork, TransitionWork
  <2>2. agenda' = work \o rest /\ detachingCallback' = Undefined
    BY <1>5 DEF Detaching
  <2> HIDE DEF work
  <2>3. Runs(work)
    BY <1>1, <1>2, <2>1, <2>2 DEF Runs, Takes
  <2>4. ASSUME NEW o \in Ops
        PROVE  Count(work, Carrying(o)) + InAttaching(o)' + InDetaching(o)' + Told(o)'
                 = Taken(o) + InAttaching(o) + InDetaching(o) + Told(o)
    <3>1. /\ Count(work, Carrying(o)) = Taken(o) /\ InDetaching(o) = 0
          /\ InDetaching(o)' = 0
      BY <1>1, <1>3, <2>1, <2>2, HeldFacts
    <3>2. InAttaching(o)' = InAttaching(o) /\ Told(o)' = Told(o)
      BY HeldFacts DEF Detaching
    <3>3. QED
      BY <3>1, <3>2
  <2>5. QED
    BY <1>4, <2>3, <2>4, CallbacksMove DEF CallbacksBalance, Detaching
<1>6. CASE ~senderCloseOccurred
  <2>1. agenda' = <<>> \o rest /\ detachingCallback' = item.op
    BY <1>1, <1>6 DEF Detaching
  <2>2. Runs(<<>>)
    BY <1>1, <1>2, <2>1, QuietWork DEF Runs, Takes, Quiet
  <2>3. ASSUME NEW o \in Ops
        PROVE  Count(<<>>, Carrying(o)) + InAttaching(o)' + InDetaching(o)' + Told(o)'
                 = Taken(o) + InAttaching(o) + InDetaching(o) + Told(o)
    <3>1. Count(<<>>, Carrying(o)) = 0
      BY CountEmpty
    <3>2. InDetaching(o)' = Taken(o) /\ InDetaching(o) = 0
      BY <1>1, <1>3, <2>1 DEF InDetaching
    <3>3. InAttaching(o)' = InAttaching(o) /\ Told(o)' = Told(o)
      BY HeldFacts DEF Detaching
    <3>4. QED
      BY <3>1, <3>2, <3>3, HeldFacts
  <2>4. QED
    BY <1>4, <2>2, <2>3, CallbacksMove DEF CallbacksBalance, Detaching
<1>7. QED
  BY <1>5, <1>6

\* Forcing the link off; the callback of a detach under way is called.
LEMMA ForcedData ==
  ASSUME Data, NEW item, NEW rest, Takes(item, rest), sender # 0,
         NEW err \in BOOLEAN, NEW called, Quiet(called),
         links' = Unheard("removed"),
         agenda' = called \o <<Item("toDetached", Undefined, err)>> \o rest,
         indicatedError' \in BOOLEAN,
         UNCHANGED <<fsm, messages, attachingCallback, senderCloseOccurred, sender,
                     crashed>>,
         \/ UNCHANGED <<detachingCallback, answers>>
         \/ detachingCallback' = Undefined /\ Answer({detachingCallback}),
         \A o \in Ops : Taken(o) = 0
  PROVE  Data'
<1> DEFINE work == called \o <<Item("toDetached", Undefined, err)>>
<1>1. ops \in Seq(Methods) /\ rest = Tail(agenda)
  BY TakesFacts DEF Takes
<1>2. /\ work \in Agendas
      /\ \A o \in Ops : Count(work, Carrying(o)) = IF Undefined = o THEN 1 ELSE 0
  <2>1. Undefined \in Attaches \cup Detaches \cup NoOperation
    BY DEF NoOperation
  <2>2. QED
    BY <1>1, <2>1, TransitionWork
<1>3. agenda' = work \o rest
  OBVIOUS
<1> HIDE DEF work
<1>4. WireOK'
  <2>1. /\ links \in Seq(Links) /\ sender \in 0..Len(links)
        /\ state \in {"detached", "attaching", "attached", "detaching"}
        /\ crashed \in BOOLEAN /\ senderCloseOccurred \in BOOLEAN
    BY DEF Data, TypeOK
  <2>2. links' \in Seq(Links) /\ Len(links') = Len(links)
    BY <2>1, LinkChanges
  <2>3. /\ sender' = sender /\ state' = state /\ crashed' = crashed
        /\ senderCloseOccurred' = senderCloseOccurred
    BY DEF fsm
  <2>4. Links' = Links
    BY SameOps DEF Takes
  <2>5. QED
    BY <2>1, <2>2, <2>3, <2>4 DEF WireOK
<1>5. Runs(work)
  BY <1>1, <1>2, <1>3, <1>4 DEF Runs, Takes
<1>6. \A o \in Ops : Count(work, Carrying(o)) = 0
  BY <1>1, <1>2, OpsFacts
<1>7. CASE UNCHANGED <<detachingCallback, answers>>
  <2>1. UNCHANGED <<queue, messages, callbacks, answers>>
    BY <1>7 DEF fsm, callbacks
  <2>2. QED
    BY <1>5, <1>6, <2>1, AgendaMoves
<1>8. CASE detachingCallback' = Undefined /\ Answer({detachingCallback})
  <2>1. /\ answers' \in [Ops -> Nat]
        /\ \A o \in Ops : Told(o)' = Told(o) + (IF o \in {detachingCallback} THEN 1 ELSE 0)
    BY <1>8, AnswerFacts
  <2>2. Kept
    BY <1>8, <2>1 DEF Kept, Data, Shapes, TypeOK, messages, NoOperation, fsm
  <2>3. ASSUME NEW o \in Ops
        PROVE  Count(work, Carrying(o)) + InAttaching(o)' + InDetaching(o)' + Told(o)'
                 = Taken(o) + InAttaching(o) + InDetaching(o) + Told(o)
    <3>1. Count(work, Carrying(o)) = 0 /\ Taken(o) = 0
      BY <1>6
    <3>2. InAttaching(o)' = InAttaching(o) /\ InDetaching(o)' = 0
      BY <1>8, HeldFacts
    <3>3. Told(o)' = Told(o) + InDetaching(o)
      BY <2>1, HeldFacts
    <3>4. QED
      BY <3>1, <3>2, <3>3, HeldFacts
  <2>4. QED
    BY <1>5, <2>2, <2>3, CallbacksMove DEF CallbacksBalance, fsm
<1>9. QED
  BY <1>7, <1>8

\* Nothing is deferred while attached.
LEMMA AttachedData ==
  ASSUME Data, NEW item, NEW rest, Takes(item, rest), HandleAttached(item, rest),
         detachingCallback = Undefined
  PROVE  Data'
<1>1. /\ ops \in Seq(Methods) /\ item \in Work /\ rest = Tail(agenda)
      /\ rest = <<>> \o rest /\ item.err \in BOOLEAN
      /\ \A o : Taken(o) = IF item.do \in CarryingNames /\ item.op = o THEN 1 ELSE 0
  BY TakesFacts, WorkFacts DEF Takes
<1>2. state = "attached" /\ sender # 0
  BY DEF HandleAttached, Data, TypeOK
<1>3. CASE /\ item.do = "senderErrorEvent"
           /\ indicatedError' = TRUE /\ agenda' = rest
           /\ UNCHANGED <<fsm, messages, callbacks, senderCloseOccurred, wire,
                          answers, crashed>>
  <2>1. \A o \in Ops : Taken(o) = 0
    BY <1>3, NothingTaken DEF CarryingNames
  <2>2. senderCloseOccurred' \in BOOLEAN
    BY <1>3 DEF Data, TypeOK
  <2>3. QED
    BY <1>1, <1>3, <2>1, <2>2, NotedData, QuietWork
<1>4. CASE /\ item.do = "senderCloseEvent"
           /\ indicatedError' = FALSE /\ senderCloseOccurred' = TRUE
           /\ agenda' = Owner \o rest
           /\ UNCHANGED <<fsm, messages, callbacks, wire, answers, crashed>>
  <2>1. \A o \in Ops : Taken(o) = 0
    BY <1>4, NothingTaken DEF CarryingNames
  <2>2. QED
    BY <1>4, <2>1, NotedData, QuietWork
<1>5. CASE item.do \in {"accepted", "rejected"} /\ Settle(item.op, rest)
  BY <1>5, SettleData DEF CarryingNames
<1>6. CASE /\ item.do = "attach"
           /\ Answer({item.op}) /\ agenda' = Owner \o rest
           /\ UNCHANGED <<fsm, messages, callbacks, closing, wire, crashed>>
  <2>1. WireOK'
    BY <1>6, SameAll DEF Takes, fsm
  <2>2. Quiet(Owner) /\ Runs(Owner)
    BY <1>1, <1>6, <2>1, QuietWork DEF Runs, Takes, Quiet
  <2>3. QED
    BY <1>1, <1>6, <2>2, ItemAnswered DEF CarryingNames, fsm
<1>7. CASE item.do = "detach" /\ Detaching(item.op, item.err, rest)
  BY <1>2, <1>7, DetachingStarts
<1>8. CASE /\ item.do = "forceDetach"
           /\ links' = Unheard("removed")
           /\ agenda' = <<Item("toDetached", Undefined, item.err)>> \o rest
           /\ UNCHANGED <<fsm, messages, callbacks, closing, sender, answers, crashed>>
  <2>1. \A o \in Ops : Taken(o) = 0
    BY <1>8, NothingTaken DEF CarryingNames
  <2>2. agenda' = <<>> \o <<Item("toDetached", Undefined, item.err)>> \o rest
    BY <1>8
  <2>3. indicatedError' \in BOOLEAN
    BY <1>8 DEF Data, TypeOK, closing
  <2>4. UNCHANGED <<fsm, messages, attachingCallback, senderCloseOccurred, sender,
                    crashed>> /\ UNCHANGED <<detachingCallback, answers>>
    BY <1>8 DEF callbacks, closing
  <2>5. QED
    BY <1>1, <1>2, <1>8, <2>1, <2>2, <2>3, <2>4, ForcedData, QuietWork
<1>9. CASE /\ item.do = "send"
           /\ agenda' = <<Step("transmit")>> \o rest
           /\ UNCHANGED <<fsm, messages, callbacks, closing, wire, answers, crashed>>
  <2>1. \A o \in Ops : Taken(o) = 0
    BY <1>9, NothingTaken DEF CarryingNames
  <2>2. WireOK'
    BY <1>9, SameAll DEF Takes, fsm
  <2>3. Step("transmit") \in Work
    BY StepItems DEF Plain
  <2>4. \A o \in Ops : Count(<<Step("transmit")>>, Carrying(o)) = 0
    BY CountOne, CarryingFacts DEF Step, CarryingNames
  <2>5. Runs(<<Step("transmit")>>)
    BY <1>1, <1>9, <2>2, <2>3 DEF Runs, Takes, Agendas
  <2>6. QED
    BY <1>9, <2>1, <2>4, <2>5, AgendaMoves DEF fsm
<1>10. QED
  BY <1>3, <1>4, <1>5, <1>6, <1>7, <1>8, <1>9 DEF HandleAttached

\* An input is deferred: what it carries moves to the queue.
LEMMA DeferData ==
  ASSUME Data, NEW item, NEW rest, Takes(item, rest),
         item.do \in {"attach", "send", "rejected"},
         queue' = Append(queue, item), agenda' = rest,
         UNCHANGED <<state, messages, callbacks, closing, wire, answers, crashed>>
  PROVE  Data'
<1>1. /\ ops \in Seq(Methods) /\ item \in Work /\ rest = Tail(agenda)
      /\ rest = <<>> \o rest /\ item = Item(item.do, item.op, item.err)
      /\ item.err \in BOOLEAN /\ item.op \in Payloads
      /\ item.do = "attach" => item.op \in Attaches
  BY TakesFacts, WorkFacts DEF Takes
<1>2. item \in Deferred /\ queue \in Seq(Deferred)
  BY <1>1 DEF Deferred, Item, Data, Shapes, Queues
<1>3. queue' \in Queues
  BY <1>2, AppendProperties DEF Queues
<1>4. WireOK'
  BY SameAll DEF Takes
<1>5. Runs(<<>>)
  BY <1>1, <1>4, QuietWork DEF Runs, Takes, Quiet
<1>6. QueueBalance(<<>>)
  <2> SUFFICES ASSUME NEW o \in Ops
               PROVE  Count(<<>>, Carrying(o)) + InQueue(o)' = Taken(o) + InQueue(o)
    BY DEF QueueBalance
  <2>1. Count(<<>>, Carrying(o)) = 0
    BY CountEmpty
  <2>2. InQueue(o)' = Count(Append(queue, item), Carrying(o))
    BY DEF InQueue, Carrying
  <2>3. Taken(o) = IF item \in Carrying(o) THEN 1 ELSE 0
    BY DEF Taken, Takes
  <2>4. /\ item \in Carrying(o)
             => Count(Append(queue, item), Carrying(o)) = Count(queue, Carrying(o)) + 1
        /\ item \notin Carrying(o)
             => Count(Append(queue, item), Carrying(o)) = Count(queue, Carrying(o))
    BY <1>2, CountAppend, Zenon
  <2>5. InQueue(o) \in Nat /\ InQueue(o) = Count(queue, Carrying(o))
    BY Naturals DEF InQueue
  <2>6. InQueue(o)' = Taken(o) + InQueue(o)
    BY <2>2, <2>3, <2>4, <2>5
  <2>7. QED
    BY <2>1, <2>3, <2>5, <2>6
<1>7. QED
  BY <1>3, <1>5, <1>6, QueueMoves

\* While detaching, what cannot be done is deferred.
LEMMA DetachingData ==
  ASSUME Data, NEW item, NEW rest, Takes(item, rest), HandleDetaching(item, rest)
  PROVE  Data'
<1>1. /\ ops \in Seq(Methods) /\ item \in Work /\ rest = Tail(agenda)
      /\ rest = <<>> \o rest /\ item.err \in BOOLEAN
      /\ \A o : Taken(o) = IF item.do \in CarryingNames /\ item.op = o THEN 1 ELSE 0
  BY TakesFacts, WorkFacts DEF Takes
<1>2. state = "detaching" /\ sender # 0
  BY DEF HandleDetaching, Data, TypeOK
<1>3. CASE /\ item.do = "senderErrorEvent"
           /\ indicatedError' = TRUE /\ agenda' = rest
           /\ UNCHANGED <<fsm, messages, callbacks, senderCloseOccurred, wire,
                          answers, crashed>>
  <2>1. \A o \in Ops : Taken(o) = 0
    BY <1>3, NothingTaken DEF CarryingNames
  <2>2. senderCloseOccurred' \in BOOLEAN
    BY <1>3 DEF Data, TypeOK
  <2>3. QED
    BY <1>1, <1>3, <2>1, <2>2, NotedData, QuietWork
<1>4. CASE /\ item.do = "senderCloseEvent"
           /\ links' = Unheard("closed")
           /\ detachingCallback' = Undefined
           /\ indicatedError' = FALSE /\ senderCloseOccurred' = TRUE
           /\ agenda' = <<Item("toDetached", detachingCallback, indicatedError)>>
                          \o rest
           /\ UNCHANGED <<fsm, messages, attachingCallback, sender, answers, crashed>>
  <2>1. \A o \in Ops : Taken(o) = 0
    BY <1>4, NothingTaken DEF CarryingNames
  <2>2. detachingCallback \in Attaches \cup Detaches \cup NoOperation
    BY DEF Data, Shapes, NoOperation
  <2>3. QED
    BY <1>2, <1>4, <2>1, <2>2, ClosedData
<1>5. CASE item.do = "accepted" /\ Settle(item.op, rest)
  BY <1>5, SettleData DEF CarryingNames
<1>6. CASE /\ item.do = "detach"
           /\ Answer({item.op}) /\ agenda' = Owner \o rest
           /\ UNCHANGED <<fsm, messages, callbacks, closing, wire, crashed>>
  <2>1. WireOK'
    BY <1>6, SameAll DEF Takes, fsm
  <2>2. Quiet(Owner) /\ Runs(Owner)
    BY <1>1, <1>6, <2>1, QuietWork DEF Runs, Takes, Quiet
  <2>3. QED
    BY <1>1, <1>6, <2>2, ItemAnswered DEF CarryingNames, fsm
<1>7. CASE item.do = "forceDetach" /\ ForceDetaching(item.err, rest)
  <2>1. \A o \in Ops : Taken(o) = 0
    BY <1>7, NothingTaken DEF CarryingNames
  <2>2. QED
    BY <1>1, <1>2, <1>7, <2>1, ForcedData, QuietWork DEF ForceDetaching
<1>8. CASE /\ item.do \in {"attach", "send", "rejected"}
           /\ queue' = Append(queue, item) /\ agenda' = rest
           /\ UNCHANGED <<state, messages, callbacks, closing, wire, answers, crashed>>
  BY <1>8, DeferData
<1>9. QED
  BY <1>3, <1>4, <1>5, <1>6, <1>7, <1>8 DEF HandleDetaching

\* The work of entering the detached state carries the callback of the
\* transition, and tells it.
LEMMA DetachedWorkFacts ==
  ASSUME ops \in Seq(Methods), NEW op \in Attaches \cup Detaches \cup NoOperation,
         NEW err \in BOOLEAN
  PROVE  /\ DetachedWork(op, err) \in Agendas
         /\ \A o \in Ops : Count(DetachedWork(op, err), Carrying(o))
                             = IF op = o THEN 1 ELSE 0
         /\ ~Has(DetachedWork(op, err), Loops) /\ ~Has(DetachedWork(op, err), Events)
         /\ ~Has(DetachedWork(op, err), Transitions)
         /\ ~Has(DetachedWork(op, err), Telling)
         /\ Has(DetachedWork(op, err), FailsUnsent)
         /\ Has(DetachedWork(op, err), FailsPending)
         /\ Has(DetachedWork(op, err), Replays)
<1> DEFINE a == Step("failUnsent")
           b == Step("failPending")
           c == Item("tell", op, err)
           d == Step("replay")
           work == <<a, b, c, d>>
<1>1. a \in Work /\ b \in Work /\ c \in Work /\ d \in Work
  BY StepItems, WorkItems DEF Plain
<1>2. work = DetachedWork(op, err)
  BY DEF DetachedWork
<1>3. work \in Agendas
  BY <1>1 DEF Agendas
<1>4. /\ a.do = "failUnsent" /\ b.do = "failPending" /\ c.do = "tell"
      /\ d.do = "replay" /\ a.op \in Int /\ b.op \in Int /\ d.op \in Int
      /\ a.err \in BOOLEAN /\ b.err \in BOOLEAN /\ d.err \in BOOLEAN
      /\ c.op = op
  BY DEF Step, Item, Undefined
<1>5. /\ a \in FailsUnsent /\ b \in FailsPending /\ d \in Replays
  BY DEF FailsUnsent, FailsPending, Replays, Named, Step, Item, Undefined
<1>6. ASSUME NEW o \in Ops
      PROVE  Count(work, Carrying(o)) = IF op = o THEN 1 ELSE 0
  <2>1. c \in Carrying(o) <=> op = o
    BY CarryingFacts
  <2>2. a \notin Carrying(o) /\ b \notin Carrying(o) /\ d \notin Carrying(o)
    BY <1>4 DEF Carrying
  <2> HIDE DEF a, b, c, d
  <2>3. DOMAIN work = 1..4
    OBVIOUS
  <2>4. CASE op = o
    <3>1. {i \in DOMAIN work : work[i] \in Carrying(o)} = {3}
      BY <2>1, <2>2, <2>3, <2>4
    <3>2. QED
      BY <2>4, <3>1, FS_Singleton DEF Count
  <2>5. CASE op # o
    <3>1. {i \in DOMAIN work : work[i] \in Carrying(o)} = {}
      BY <2>1, <2>2, <2>3, <2>5
    <3>2. QED
      BY <2>5, <3>1, FS_EmptySet DEF Count
  <2>6. QED
    BY <2>4, <2>5
<1>7. \A i \in DOMAIN work :
        work[i].do \in {"failUnsent", "failPending", "tell", "replay"}
  <2> HIDE DEF a, b, c, d
  <2>1. DOMAIN work = 1..4
    OBVIOUS
  <2>2. QED
    BY <1>4, <2>1
<1>8. Has(work, FailsUnsent) /\ Has(work, FailsPending) /\ Has(work, Replays)
  <2> HIDE DEF a, b, c, d
  <2>1. work[1] = a /\ work[2] = b /\ work[4] = d /\ DOMAIN work = 1..4
    OBVIOUS
  <2>2. QED
    BY <1>5, <2>1 DEF Has
<1>9. /\ ~Has(work, Loops) /\ ~Has(work, Events)
      /\ ~Has(work, Transitions) /\ ~Has(work, Telling)
  <2> HIDE DEF a, b, c, d, work
  <2>1. QED
    BY <1>7 DEF Has, Loops, Events, Transitions, Telling, Named, EventNames
<1>10. QED
  BY <1>2, <1>3, <1>6, <1>8, <1>9

\* The transition to detached: a callback it carries is told next.  A link that
\* is detached already is left alone, and then the transition carries none.
LEMMA ToDetachedData ==
  ASSUME Data, NEW item, NEW rest, Takes(item, rest), item.do = "toDetached",
         ToDetached(item.op, item.err, rest),
         state = "detached" => item.op \notin Detaches
  PROVE  Data'
<1>1. /\ ops \in Seq(Methods) /\ item \in Work /\ rest = Tail(agenda)
      /\ item.op \in Attaches \cup Detaches \cup NoOperation /\ item.err \in BOOLEAN
      /\ \A o : Taken(o) = IF item.op = o THEN 1 ELSE 0
  BY TakesFacts, WorkFacts DEF Takes, CarryingNames
<1>2. CASE state = "detached"
  <2>1. \A o \in Ops : Taken(o) = 0 \/ o \in Attaches
    BY <1>1, <1>2, OpsFacts DEF NoOperation
  <2>2. QED
    BY <1>2, <2>1, IgnoreData DEF ToDetached
<1>3. CASE state # "detached"
  <2> DEFINE work == DetachedWork(item.op, item.err)
  <2>1. /\ work \in Agendas
        /\ \A o \in Ops : Count(work, Carrying(o)) = IF item.op = o THEN 1 ELSE 0
    BY <1>1, DetachedWorkFacts
  <2>2. agenda' = work \o rest
    BY <1>3 DEF ToDetached
  <2> HIDE DEF work
  <2>3. WireOK'
    <3>1. /\ sender' = 0 /\ state' = "detached" /\ links' = links
          /\ indicatedError' = indicatedError
          /\ senderCloseOccurred' = senderCloseOccurred /\ crashed' = crashed
      BY <1>3 DEF ToDetached, closing
    <3>2. /\ links \in Seq(Links) /\ Len(links) \in Nat /\ Links' = Links
          /\ indicatedError \in BOOLEAN /\ senderCloseOccurred \in BOOLEAN
          /\ crashed \in BOOLEAN
      BY LenProperties, SameOps DEF Data, TypeOK, Takes
    <3>3. 0 \in 0..Len(links)
      BY <3>2
    <3>4. QED
      BY <3>1, <3>2, <3>3 DEF WireOK
  <2>4. Runs(work)
    BY <1>1, <2>1, <2>2, <2>3 DEF Runs, Takes
  <2>5. UNCHANGED <<queue, messages, callbacks, answers>>
    BY <1>3 DEF ToDetached
  <2>6. \A o \in Ops : Count(work, Carrying(o)) = Taken(o)
    BY <1>1, <2>1
  <2>7. QED
    BY <2>4, <2>5, <2>6, AgendaMoves
<1>4. QED
  BY <1>2, <1>3

\* Taking the oldest message off the queue keeps the order, whether it is given
\* up or sent.
LEMMA OldestFacts ==
  ASSUME Data, unsent # <<>>
  PROVE  /\ Head(unsent) \in Sends /\ Tail(unsent) \in Seq(Sends)
         /\ \A o : Count(unsent, {o}) = (IF Head(unsent) = o THEN 1 ELSE 0)
                                          + Count(Tail(unsent), {o})
         /\ unsent' = Tail(unsent) /\ UNCHANGED transmitted => Ordered'
         /\ unsent' = Tail(unsent) /\ transmitted' = Append(transmitted, Head(unsent))
              => Ordered'
<1>1. /\ unsent \in Seq(Sends) /\ ops \in Seq(Methods) /\ transmitted \in Seq(Ops)
      /\ Sends \subseteq Nat /\ Ops \subseteq Nat /\ Sends \subseteq Ops
  BY OpsFacts DEF Data, Shapes, TypeOK
<1>2. Head(unsent) \in Sends /\ Tail(unsent) \in Seq(Sends)
  BY <1>1, HeadTailProperties
<1>3. ASSUME NEW o
      PROVE  Count(unsent, {o}) = (IF Head(unsent) = o THEN 1 ELSE 0)
                                    + Count(Tail(unsent), {o})
  <2>1. Count(unsent, {o}) = (IF Head(unsent) \in {o} THEN 1 ELSE 0)
                               + Count(Tail(unsent), {o})
    BY <1>1, CountHeadTail
  <2>2. Head(unsent) \in {o} <=> Head(unsent) = o
    OBVIOUS
  <2>3. QED
    BY <2>1, <2>2, Zenon
<1>4. PICK m \in Nat : m = Len(unsent) /\ m # 0
  BY <1>1, LenProperties, EmptySeq
<1>5. /\ DOMAIN unsent = 1..m /\ \A i \in 1..m : unsent[i] \in Nat
  BY <1>1, <1>4, LenProperties, ElementOfSeq
<1>6. /\ DOMAIN Tail(unsent) = 1..(m - 1)
      /\ \A i \in 1..(m - 1) : Tail(unsent)[i] = unsent[i + 1]
  <2>1. /\ Tail(unsent) \in Seq(Sends) /\ Len(Tail(unsent)) = m - 1
        /\ \A i \in 1..Len(Tail(unsent)) : Tail(unsent)[i] = unsent[i + 1]
    BY <1>1, <1>4, HeadTailProperties
  <2>2. DOMAIN Tail(unsent) = 1..Len(Tail(unsent))
    BY <2>1, LenProperties
  <2>3. QED
    BY <2>1, <2>2
<1>7. Head(unsent) = unsent[1]
  BY <1>1
<1>8. /\ \A i, j \in DOMAIN Tail(unsent) :
           i < j => Tail(unsent)[i] < Tail(unsent)[j]
      /\ \A i \in DOMAIN transmitted, j \in DOMAIN Tail(unsent) :
           transmitted[i] < Tail(unsent)[j]
      /\ \A j \in DOMAIN Tail(unsent) : Head(unsent) < Tail(unsent)[j]
      /\ \A i \in DOMAIN transmitted : transmitted[i] < Head(unsent)
      /\ \A i, j \in DOMAIN transmitted : i < j => transmitted[i] < transmitted[j]
  BY <1>4, <1>5, <1>6, <1>7, SMTT(60) DEF Data, Ordered, SentInOrder
<1>9. ASSUME unsent' = Tail(unsent), UNCHANGED transmitted
      PROVE  Ordered'
  BY <1>8, <1>9 DEF Ordered, SentInOrder
<1>10. ASSUME unsent' = Tail(unsent), transmitted' = Append(transmitted, Head(unsent))
       PROVE  Ordered'
  <2>1. PICK n \in Nat : n = Len(transmitted) /\ DOMAIN transmitted = 1..n
    BY <1>1, LenProperties
  <2>2. Head(unsent) \in Ops
    BY <1>1, <1>2
  <2>3. /\ Append(transmitted, Head(unsent)) \in Seq(Ops)
        /\ Len(Append(transmitted, Head(unsent))) = n + 1
        /\ \A i \in 1..n : Append(transmitted, Head(unsent))[i] = transmitted[i]
        /\ Append(transmitted, Head(unsent))[n + 1] = Head(unsent)
    BY <1>1, <2>1, <2>2, AppendProperties
  <2>4. /\ DOMAIN transmitted' = 1..(n + 1)
        /\ \A i \in 1..n : transmitted'[i] = transmitted[i]
        /\ transmitted'[n + 1] = Head(unsent)
    BY <1>10, <2>3, LenProperties
  <2>5. \A i, j \in DOMAIN transmitted' : i < j => transmitted'[i] < transmitted'[j]
    BY <1>8, <2>1, <2>4
  <2>6. \A i \in DOMAIN transmitted', j \in DOMAIN unsent' :
          transmitted'[i] < unsent'[j]
    BY <1>8, <1>10, <2>1, <2>4
  <2>7. \A i, j \in DOMAIN unsent' : i < j => unsent'[i] < unsent'[j]
    BY <1>8, <1>10
  <2>8. QED
    BY <2>5, <2>6, <2>7 DEF Ordered, SentInOrder
<1>11. QED
  BY <1>2, <1>3, <1>9, <1>10, Zenon

\* A message given up is told.
LEMMA FailUnsentData ==
  ASSUME Data, NEW item, NEW rest, Takes(item, rest), item.do = "failUnsent",
         FailUnsent(rest)
  PROVE  Data'
<1>1. \A o \in Ops : Taken(o) = 0
  BY NothingTaken DEF CarryingNames
<1>2. CASE unsent = <<>>
  BY <1>1, <1>2, IgnoreData DEF FailUnsent
<1>3. CASE unsent # <<>>
  <2> DEFINE work == Owner \o <<Step("failUnsent")>>
  <2>1. Quiet(work)
    BY QuietWork DEF QuietNames, Plain, EventNames
  <2>2. agenda' = work \o rest
    BY <1>3 DEF FailUnsent
  <2> HIDE DEF work
  <2>3. /\ answers' \in [Ops -> Nat]
        /\ \A o \in Ops : Told(o)' = Told(o) + (IF o \in {Head(unsent)} THEN 1 ELSE 0)
    BY <1>3, AnswerFacts DEF FailUnsent
  <2>4. WireOK'
    BY <1>3, SameAll DEF FailUnsent, Takes, fsm
  <2>5. Runs(work)
    BY <2>1, <2>2, <2>4 DEF Runs, Takes, Quiet
  <2>6. unsent' \in Seq(Sends) /\ Ordered'
    BY <1>3, OldestFacts DEF FailUnsent
  <2>7. Kept
    BY <1>3, <2>3, <2>6 DEF Kept, Data, Shapes, TypeOK, FailUnsent, callbacks, fsm
  <2>8. ASSUME NEW o \in Ops
        PROVE  InUnsent(o)' + InPending(o)' + Told(o)'
                 = InUnsent(o) + InPending(o) + Told(o)
    <3>1. InUnsent(o) = (IF Head(unsent) = o THEN 1 ELSE 0) + InUnsent(o)'
      BY <1>3, OldestFacts DEF InUnsent, FailUnsent
    <3>2. InPending(o)' = InPending(o)
      BY <1>3 DEF InPending, FailUnsent
    <3>3. InUnsent(o)' \in Nat
      BY <2>6, CountNat DEF InUnsent
    <3>4. Told(o)' = Told(o) + (IF Head(unsent) = o THEN 1 ELSE 0)
      BY <2>3
    <3>5. Told(o) \in Nat /\ InPending(o) \in Nat
      BY Naturals
    <3>6. CASE Head(unsent) = o
      BY <3>1, <3>2, <3>3, <3>4, <3>5, <3>6
    <3>7. CASE Head(unsent) # o
      BY <3>1, <3>2, <3>3, <3>4, <3>5, <3>7
    <3>8. QED
      BY <3>6, <3>7
  <2>9. UNCHANGED <<queue, callbacks>>
    BY <1>3 DEF FailUnsent, fsm
  <2>10. QED
    BY <1>1, <2>1, <2>5, <2>6, <2>7, <2>8, <2>9, MessagesMove DEF MessagesBalance
<1>4. QED
  BY <1>2, <1>3

\* Quiet work put on the agenda changes no account.
LEMMA QuietData ==
  ASSUME Data, NEW item, NEW rest, Takes(item, rest), NEW work, Quiet(work),
         agenda' = work \o rest,
         UNCHANGED <<fsm, messages, callbacks, closing, wire, answers, crashed>>,
         item.do \notin CarryingNames
  PROVE  Data'
<1>1. \A o \in Ops : Taken(o) = 0
  BY NothingTaken
<1>2. indicatedError' \in BOOLEAN /\ senderCloseOccurred' \in BOOLEAN
  BY DEF Data, TypeOK, closing
<1>3. QED
  BY <1>1, <1>2, NotedData

\* The keys of the dictionary become items of the agenda, one for each message
\* that is pending.
LEMMA FailPendingWork ==
  ASSUME Data, NEW keys \in [1..Cardinality(pending) -> pending],
         \A i, j \in DOMAIN keys : i < j => keys[i] < keys[j]
  PROVE  LET work == [i \in DOMAIN keys |-> Item("failKey", keys[i], TRUE)] IN
         /\ Quiet(work)
         /\ \A o \in pending : Has(work, FailingKey(o))
<1> DEFINE n == Cardinality(pending)
           work == [i \in DOMAIN keys |-> Item("failKey", keys[i], TRUE)]
<1>1. /\ ops \in Seq(Methods) /\ pending \subseteq Ops /\ Ops = 1..Len(ops)
      /\ Len(ops) \in Nat /\ Ops \subseteq Nat /\ DOMAIN keys = 1..n
  BY OpsFacts DEF Data, TypeOK
<1>2. IsFiniteSet(pending) /\ n \in Nat
  <2>1. IsFiniteSet(1..Len(ops))
    BY <1>1, FS_Interval
  <2>2. QED
    BY <1>1, <2>1, FS_Subset, FS_CardinalityType
<1> HIDE DEF n
<1>3. ASSUME NEW i \in 1..n
      PROVE  /\ work[i] = Item("failKey", keys[i], TRUE) /\ work[i] \in Work
             /\ work[i].do = "failKey" /\ keys[i] \in pending
  <2>1. keys[i] \in pending /\ keys[i] \in Payloads
    BY <1>1 DEF n, Payloads
  <2>2. work[i] = Item("failKey", keys[i], TRUE)
    BY <1>1
  <2>3. "failKey" \in Plain /\ TRUE \in BOOLEAN
    BY DEF Plain
  <2>4. Item("failKey", keys[i], TRUE) \in Work
    BY <2>1, <2>3, WorkItems, Zenon
  <2>5. Item("failKey", keys[i], TRUE).do = "failKey"
    BY DEF Item
  <2> HIDE DEF work
  <2>6. QED
    BY <2>1, <2>2, <2>4, <2>5
<1>4. work \in Seq(Work) /\ DOMAIN work = 1..n
  <2>1. DOMAIN work = 1..n /\ work = [i \in 1..n |-> work[i]]
    BY <1>1
  <2> HIDE DEF work
  <2>2. work \in [1..n -> Work]
    BY <1>3, <2>1
  <2>3. QED
    BY <1>2, <2>1, <2>2
<1>5. Quiet(work)
  BY <1>3, <1>4 DEF Quiet, Agendas, QuietNames, Plain, EventNames
<1>6. \A o \in pending : \E i \in 1..n : keys[i] = o
  <2>1. IsFiniteSet(1..n) /\ Cardinality(1..n) = n
    BY <1>2, FS_Interval
  <2>2. ASSUME NEW i \in 1..n, NEW j \in 1..n, keys[i] = keys[j]
        PROVE  i = j
    <3>1. keys[i] \in pending /\ keys[j] \in pending
      BY <1>3
    <3>2. keys[i] \in Nat /\ keys[j] \in Nat
      BY <1>1, <3>1
    <3>3. i \in DOMAIN keys /\ j \in DOMAIN keys
      BY <1>1
    <3>4. /\ i < j => keys[i] < keys[j]
          /\ j < i => keys[j] < keys[i]
      BY <3>3
    <3>5. i \in Int /\ j \in Int
      BY <1>2
    <3>6. QED
      BY <2>2, <3>2, <3>4, <3>5
  <2>3. keys \in [1..n -> pending] /\ Cardinality(pending) = n
    BY DEF n
  <2>4. keys \in Injection(1..n, pending)
    BY <2>2, <2>3 DEF Injection, IsInjective
  <2>5. keys \in Surjection(1..n, pending)
    BY <1>2, <2>1, <2>3, <2>4, FS_Injection
  <2>6. QED
    BY <2>5 DEF Surjection
<1>7. ASSUME NEW o \in pending
      PROVE  Has(work, FailingKey(o))
  <2>1. PICK i \in 1..n : keys[i] = o
    BY <1>6
  <2>2. work[i] \in FailingKey(o)
    <3>1. Item("failKey", o, TRUE) \in FailingKey(o)
      BY DEF FailingKey, Item
    <3>2. QED
      BY <1>3, <2>1, <3>1, Zenon
  <2>3. QED
    BY <1>4, <2>2 DEF Has
<1>8. QED
  BY <1>5, <1>7

\* Reading the keys changes no account.
LEMMA FailPendingData ==
  ASSUME Data, NEW item, NEW rest, Takes(item, rest), item.do = "failPending",
         FailPending(rest)
  PROVE  Data'
<1>1. PICK keys \in [1..Cardinality(pending) -> pending] :
        /\ \A i, j \in DOMAIN keys : i < j => keys[i] < keys[j]
        /\ agenda' = [i \in DOMAIN keys |-> Item("failKey", keys[i], TRUE)] \o rest
  BY DEF FailPending
<1> DEFINE work == [i \in DOMAIN keys |-> Item("failKey", keys[i], TRUE)]
<1>2. Quiet(work) /\ agenda' = work \o rest
  BY <1>1, FailPendingWork
<1> HIDE DEF work
<1>3. QED
  BY <1>2, QuietData DEF FailPending, CarryingNames

\* A message that was pending is given up and told, once.
LEMMA FailKeyData ==
  ASSUME Data, NEW item, NEW rest, Takes(item, rest), item.do = "failKey",
         FailKey(item.op, rest)
  PROVE  Data'
<1>1. WireOK'
  <2>1. /\ UNCHANGED ops /\ UNCHANGED <<sender, links, state>> /\ crashed' \in BOOLEAN
        /\ indicatedError' \in BOOLEAN /\ senderCloseOccurred' \in BOOLEAN
    BY DEF FailKey, Takes, fsm, wire, closing, Data, TypeOK
  <2>2. QED
    BY <2>1, SameWire
<1>2. QED
  BY <1>1, PendingTold, QuietWork DEF FailKey, CarryingNames, fsm

\* The callback of the transition is called.
LEMMA TellData ==
  ASSUME Data, NEW item, NEW rest, Takes(item, rest), item.do = "tell",
         Tell(item.op, item.err, rest)
  PROVE  Data'
<1> DEFINE work == IF item.op = Undefined /\ item.err THEN Owner ELSE Called(item.op)
<1>1. /\ rest = Tail(agenda) /\ \A o : Taken(o) = IF item.op = o THEN 1 ELSE 0
  BY TakesFacts DEF Takes, CarryingNames
<1>2. Quiet(work) /\ agenda' = work \o rest
  BY QuietWork DEF Tell
<1> HIDE DEF work
<1>3. WireOK'
  BY SameAll DEF Takes, Tell, fsm
<1>4. Runs(work)
  BY <1>1, <1>2, <1>3 DEF Runs, Takes, Quiet
<1>5. QED
  BY <1>1, <1>2, <1>4, ItemAnswered DEF Tell, fsm

\* What the deferred inputs carry moves to the agenda.
LEMMA ReplayData ==
  ASSUME Data, NEW item, NEW rest, Takes(item, rest), item.do = "replay",
         Replay(rest)
  PROVE  Data'
<1>1. /\ \A o \in Ops : Taken(o) = 0
      /\ rest = Tail(agenda) /\ rest = <<>> \o rest /\ ops \in Seq(Methods)
  BY NothingTaken, TakesFacts DEF CarryingNames, Takes
<1>2. WireOK'
  BY SameAll DEF Takes, Replay
<1>3. CASE state = "detached"
  <2>1. queue \in Seq(Deferred) /\ queue \in Agendas
    BY DeferredFacts, SeqWiden DEF Data, Shapes, Queues, Agendas
  <2>2. agenda' = queue \o rest /\ queue' = <<>>
    BY <1>3 DEF Replay
  <2>3. Runs(queue)
    BY <1>1, <1>2, <2>1, <2>2 DEF Runs, Takes
  <2>4. QueueBalance(queue)
    <3> SUFFICES ASSUME NEW o \in Ops
                 PROVE  Count(queue, Carrying(o)) + InQueue(o)' = Taken(o) + InQueue(o)
      BY DEF QueueBalance
    <3>1. InQueue(o)' = Count(<<>>, Carrying(o)) /\ Count(<<>>, Carrying(o)) = 0
      BY <2>2, CountEmpty DEF InQueue, Carrying
    <3>2. InQueue(o) = Count(queue, Carrying(o)) /\ InQueue(o) \in Nat
      BY Naturals DEF InQueue
    <3>3. QED
      BY <1>1, <3>1, <3>2
  <2>5. queue' \in Queues
    BY <2>2 DEF Queues
  <2>6. QED
    BY <2>3, <2>4, <2>5, QueueMoves DEF Replay
<1>4. CASE state # "detached"
  <2>1. UNCHANGED <<fsm, messages, callbacks, closing, wire, answers, crashed>>
    BY <1>4 DEF Replay, fsm
  <2>2. agenda' = <<>> \o rest
    BY <1>1, <1>4 DEF Replay
  <2>3. QED
    BY <2>1, <2>2, QuietWork, QuietData DEF CarryingNames
<1>5. QED
  BY <1>3, <1>4

\* Once attached, the first message waiting starts the sending.
LEMMA SendUnsentData ==
  ASSUME Data, NEW item, NEW rest, Takes(item, rest), item.do = "sendUnsent",
         SendUnsent(rest)
  PROVE  Data'
<1> DEFINE work == IF unsent = <<>> THEN <<>> ELSE <<Step("send")>>
<1>1. Quiet(work) /\ agenda' = work \o rest
  BY QuietWork DEF SendUnsent, QuietNames, Plain, EventNames
<1> HIDE DEF work
<1>2. QED
  BY <1>1, QuietData DEF SendUnsent, CarryingNames

\* Some work is put before what the agenda holds.
LEMMA PushedFacts ==
  ASSUME ops \in Seq(Methods), UNCHANGED ops, agenda \in Agendas,
         NEW work \in Agendas, agenda' = work \o agenda
  PROVE  /\ agenda' \in Agendas
         /\ \A S : Has(agenda', S) <=> Has(work, S) \/ Has(agenda, S)
         /\ \A o : /\ InAgenda(o)' = InAgenda(o) + Count(work, Carrying(o))
                   /\ InAgenda(o)' \in Nat /\ InAgenda(o) \in Nat
                   /\ Count(work, Carrying(o)) \in Nat
<1>1. agenda \in Seq(Work) /\ work \in Seq(Work)
  BY DEF Agendas
<1>2. agenda' \in Seq(Work)
  BY <1>1, ConcatProperties
<1>3. ASSUME NEW S
      PROVE  Has(agenda', S) <=> Has(work, S) \/ Has(agenda, S)
  <2>1. Has(work \o agenda, S) <=> Has(work, S) \/ Has(agenda, S)
    BY <1>1, HasConcat
  <2>2. QED
    BY <2>1, Zenon
<1>4. ASSUME NEW o
      PROVE  /\ InAgenda(o)' = InAgenda(o) + Count(work, Carrying(o))
             /\ InAgenda(o)' \in Nat /\ InAgenda(o) \in Nat
             /\ Count(work, Carrying(o)) \in Nat
  <2>1. Count(work \o agenda, Carrying(o))
          = Count(work, Carrying(o)) + Count(agenda, Carrying(o))
    BY <1>1, CountConcat
  <2>2. Count(work, Carrying(o)) \in Nat /\ Count(agenda, Carrying(o)) \in Nat
    BY <1>1, CountNat
  <2>3. /\ InAgenda(o)' = Count(work \o agenda, Carrying(o))
        /\ InAgenda(o) = Count(agenda, Carrying(o))
    BY DEF InAgenda, Carrying
  <2>4. QED
    BY <2>1, <2>2, <2>3
<1>5. QED
  BY <1>2, <1>3, <1>4 DEF Agendas

\* Messages go through while the agenda holds what it held.
LEMMA MessagesGo ==
  ASSUME Data, UNCHANGED <<ops, preSettled>>, UNCHANGED <<queue, callbacks>>, WireOK',
         agenda' \in Agendas, \A o \in Ops : InAgenda(o)' = InAgenda(o),
         Kept, Ordered', MessagesBalance
  PROVE  Data'
<1>1. /\ Ops' = Ops /\ Sends' = Sends /\ Attaches' = Attaches
      /\ Detaches' = Detaches /\ Agendas' = Agendas /\ Queues' = Queues
  BY SameOps
<1>2. Shapes'
  BY <1>1 DEF Shapes, Kept
<1>3. ASSUME NEW o \in Ops
      PROVE  Accounts(o)' = Accounts(o)
  <2>1. /\ InAgenda(o) \in Nat /\ InQueue(o) \in Nat /\ InAttaching(o) \in Nat
        /\ InDetaching(o) \in Nat /\ InUnsent(o) \in Nat /\ InPending(o) \in Nat
        /\ Told(o) \in Nat
    BY Naturals
  <2>2. InUnsent(o)' \in Nat /\ InPending(o)' \in Nat /\ Told(o)' \in Nat
    BY CountNat DEF InUnsent, InPending, Told, Kept
  <2>3. /\ InAgenda(o)' = InAgenda(o) /\ InQueue(o)' = InQueue(o)
        /\ InAttaching(o)' = InAttaching(o) /\ InDetaching(o)' = InDetaching(o)
    BY DEF InQueue, InAttaching, InDetaching, Carrying, callbacks
  <2>4. /\ Accounts(o) = InAgenda(o) + (InQueue(o) + InAttaching(o) + InDetaching(o)
                          + InUnsent(o) + InPending(o) + Told(o))
        /\ Accounts(o)' = InAgenda(o)' + (InQueue(o)' + InAttaching(o)'
                           + InDetaching(o)' + InUnsent(o)' + InPending(o)' + Told(o)')
    BY DEF Accounts, Around
  <2>5. InUnsent(o)' + InPending(o)' + Told(o)'
          = InUnsent(o) + InPending(o) + Told(o)
    BY DEF MessagesBalance
  <2>6. PICK k \in Nat : k = InQueue(o) + InAttaching(o) + InDetaching(o)
    BY <2>1
  <2>7. PICK m \in Nat : m = InUnsent(o) + InPending(o) + Told(o)
    BY <2>1
  <2>8. Accounts(o) = InAgenda(o) + (k + m)
    BY <2>1, <2>4, <2>6, <2>7
  <2>9. Accounts(o)' = InAgenda(o) + (k + m)
    BY <2>1, <2>2, <2>3, <2>4, <2>5, <2>6, <2>7
  <2>10. QED
    BY <2>8, <2>9
<1>4. QED
  BY <1>2, <1>3, Balance DEF Kept

\* rhea takes the oldest message: it is answered at once, or waits in the
\* dictionary, where it was not yet.
LEMMA TransmitData ==
  ASSUME Data, UNCHANGED <<ops, preSettled>>, NEW rest, Transmit(rest)
  PROVE  Data'
<1>1. /\ ops \in Seq(Methods) /\ unsent # <<>> /\ unsent' = Tail(unsent)
      /\ transmitted' = Append(transmitted, Head(unsent))
      /\ UNCHANGED <<queue, callbacks>> /\ UNCHANGED <<state, closing, sender, crashed>>
      /\ agenda \in Agendas
  BY DEF Data, TypeOK, Shapes, Transmit, fsm
<1>2. /\ Head(unsent) \in Sends /\ Tail(unsent) \in Seq(Sends) /\ Ordered'
      /\ \A o : Count(unsent, {o}) = (IF Head(unsent) = o THEN 1 ELSE 0)
                                       + Count(Tail(unsent), {o})
  BY <1>1, OldestFacts
<1>3. PICK op \in Sends : op = Head(unsent)
  BY <1>2
<1>4. op \in Ops
  BY <1>1, OpsFacts
<1>5. transmitted' \in Seq(Ops)
  BY <1>1, <1>3, <1>4, AppendProperties DEF Data, TypeOK
<1>6. ASSUME NEW o \in Ops
      PROVE  /\ InUnsent(o)' \in Nat /\ InUnsent(o) \in Nat
             /\ InPending(o) \in Nat /\ Told(o) \in Nat
             /\ o = op => InUnsent(o) = 1 + InUnsent(o)'
             /\ o # op => InUnsent(o) = InUnsent(o)'
  <2>1. InUnsent(o) = Count(unsent, {o}) /\ InUnsent(o)' = Count(Tail(unsent), {o})
    BY <1>1 DEF InUnsent
  <2>2. Count(Tail(unsent), {o}) \in Nat
    BY <1>2, CountNat
  <2>3. Count(unsent, {o}) = (IF op = o THEN 1 ELSE 0) + Count(Tail(unsent), {o})
    BY <1>2, <1>3
  <2>4. QED
    BY <2>1, <2>2, <2>3, Naturals
<1>7. CASE preSettled
  <2>1. Answer({op}) /\ UNCHANGED <<pending, links>> /\ agenda' = Owner \o agenda
    BY <1>3, <1>7 DEF Transmit
  <2>2. /\ answers' \in [Ops -> Nat]
        /\ \A o \in Ops : Told(o)' = Told(o) + (IF o \in {op} THEN 1 ELSE 0)
    BY <2>1, AnswerFacts
  <2>3. WireOK'
    BY <1>1, <2>1, SameAll DEF wire
  <2>4. Quiet(Owner) /\ Owner \in Agendas
    BY QuietWork DEF Quiet
  <2>5. agenda' \in Agendas /\ \A o \in Ops : InAgenda(o)' = InAgenda(o)
    <3>1. /\ agenda' \in Agendas
          /\ \A o : /\ InAgenda(o)' = InAgenda(o) + Count(Owner, Carrying(o))
                    /\ InAgenda(o) \in Nat
      BY <1>1, <2>1, <2>4, PushedFacts
    <3>2. \A o : Count(Owner, Carrying(o)) = 0
      BY <2>4, QuietFacts
    <3>3. QED
      BY <3>1, <3>2
  <2>6. Kept
    BY <1>1, <1>2, <1>5, <2>1, <2>2 DEF Kept, Data, Shapes, callbacks
  <2>7. ASSUME NEW o \in Ops
        PROVE  InUnsent(o)' + InPending(o)' + Told(o)'
                 = InUnsent(o) + InPending(o) + Told(o)
    <3>1. InPending(o)' = InPending(o)
      BY <2>1 DEF InPending
    <3>2. CASE o = op
      <4>1. Told(o)' = Told(o) + 1
        BY <2>2, <3>2
      <4>2. InUnsent(o) = 1 + InUnsent(o)'
        BY <1>6, <3>2
      <4>3. QED
        BY <1>6, <3>1, <4>1, <4>2
    <3>3. CASE o # op
      <4>1. Told(o)' = Told(o) + 0
        BY <2>2, <3>3
      <4>2. InUnsent(o) = InUnsent(o)'
        BY <1>6, <3>3
      <4>3. QED
        BY <1>6, <3>1, <4>1, <4>2
    <3>4. QED
      BY <3>2, <3>3
  <2>8. MessagesBalance
    BY <2>7 DEF MessagesBalance
  <2>9. QED
    BY <1>1, <1>2, <2>3, <2>5, <2>6, <2>8, MessagesGo
<1>8. CASE ~preSettled
  <2>1. /\ pending' = pending \cup {op} /\ UNCHANGED <<answers, agenda>>
        /\ sender # 0
        /\ links' = [links EXCEPT ![sender].flight = @ \cup {op}]
    BY <1>3, <1>8 DEF Transmit
  <2>2. WireOK'
    <3> DEFINE link == [links[sender] EXCEPT !.flight = @ \cup {op}]
    <3>1. /\ links \in Seq(Links) /\ sender \in 1..Len(links) /\ Len(links) \in Nat
          /\ sender = 0 => state = "detached"
          /\ state \in {"detached", "attaching", "attached", "detaching"}
          /\ indicatedError \in BOOLEAN /\ senderCloseOccurred \in BOOLEAN
          /\ crashed \in BOOLEAN
      BY <2>1, LenProperties DEF Data, TypeOK
    <3>2. links[sender] \in Links
      BY <3>1, LinkFacts
    <3>3. link \in Links
      BY <1>4, <3>2 DEF Links
    <3>4. links' = [links EXCEPT ![sender] = link]
      BY <2>1
    <3> HIDE DEF link
    <3>5. links' \in Seq(Links) /\ Len(links') = Len(links)
      BY <3>1, <3>3, <3>4, LinkFacts
    <3>6. Links' = Links
      BY SameOps
    <3>7. /\ sender' = sender /\ state' = state /\ indicatedError' = indicatedError
          /\ senderCloseOccurred' = senderCloseOccurred /\ crashed' = crashed
      BY <1>1 DEF closing
    <3>8. links' \in Seq(Links') /\ sender' \in 0..Len(links')
      BY <3>1, <3>5, <3>6, <3>7
    <3>9. QED
      BY <2>1, <3>1, <3>7, <3>8 DEF WireOK
  <2>3. agenda' \in Agendas /\ \A o \in Ops : InAgenda(o)' = InAgenda(o)
    BY <1>1, <2>1 DEF InAgenda, Carrying
  <2>4. Kept
    BY <1>1, <1>2, <1>5, <1>8, <2>1 DEF Kept, Data, Shapes, TypeOK, callbacks
  <2>5. op \notin pending
    <3>1. Accounts(op) <= 1
      BY <1>4 DEF Data, Accounted
    <3>2. /\ InAgenda(op) \in Nat /\ InQueue(op) \in Nat /\ InAttaching(op) \in Nat
          /\ InDetaching(op) \in Nat /\ InUnsent(op) \in Nat /\ InPending(op) \in Nat
          /\ Told(op) \in Nat
      BY <1>4, Naturals
    <3>3. Accounts(op) = InAgenda(op) + (InQueue(op) + InAttaching(op)
             + InDetaching(op) + InUnsent(op) + InPending(op) + Told(op))
      BY DEF Accounts, Around
    <3>4. InUnsent(op) = 1 + InUnsent(op)' /\ InUnsent(op)' \in Nat
      BY <1>4, <1>6
    <3>5. PICK k \in Nat : k = InAgenda(op) + InQueue(op) + InAttaching(op)
                                + InDetaching(op) + Told(op)
      BY <3>2
    <3>6. Accounts(op) = k + InUnsent(op) + InPending(op)
      BY <3>2, <3>3, <3>5
    <3>7. PICK u \in Nat : InUnsent(op) = 1 + u
      BY <3>4
    <3>8. InPending(op) # 1
      BY <3>1, <3>2, <3>6, <3>7
    <3>9. QED
      BY <3>8 DEF InPending
  <2>6. ASSUME NEW o \in Ops
        PROVE  InUnsent(o)' + InPending(o)' + Told(o)'
                 = InUnsent(o) + InPending(o) + Told(o)
    <3>1. Told(o)' = Told(o)
      BY <2>1 DEF Told
    <3>2. CASE o = op
      <4>1. InPending(o)' = 1 /\ InPending(o) = 0
        BY <2>1, <2>5, <3>2 DEF InPending
      <4>2. InUnsent(o) = 1 + InUnsent(o)'
        BY <1>6, <3>2
      <4>3. QED
        BY <1>6, <3>1, <4>1, <4>2
    <3>3. CASE o # op
      <4>1. InPending(o)' = InPending(o)
        BY <2>1, <3>3 DEF InPending
      <4>2. InUnsent(o) = InUnsent(o)'
        BY <1>6, <3>3
      <4>3. QED
        BY <1>6, <3>1, <4>1, <4>2
    <3>4. QED
      BY <3>2, <3>3
  <2>7. MessagesBalance
    BY <2>6 DEF MessagesBalance
  <2>8. QED
    BY <1>1, <1>2, <2>2, <2>3, <2>4, <2>7, MessagesGo
<1>9. QED
  BY <1>7, <1>8

\* What a call adds to the operations and to what may be on the agenda.
LEMMA CallFacts ==
  ASSUME ops \in Seq(Methods), NEW kind \in Methods, NEW n \in Nat,
         n = Len(ops) + 1, ops' = Append(ops, kind)
  PROVE  /\ ops' \in Seq(Methods) /\ Ops' = Ops \cup {n} /\ n \notin Ops
         /\ \A o \in Ops : o < n
         /\ Sends' = Sends \cup (IF kind = "send" THEN {n} ELSE {})
         /\ Attaches' = Attaches \cup (IF kind = "attach" THEN {n} ELSE {})
         /\ Detaches' = Detaches \cup (IF kind = "detach" THEN {n} ELSE {})
         /\ Work \subseteq Work' /\ Deferred \subseteq Deferred' /\ Links \subseteq Links'
         /\ \A err \in BOOLEAN : Item(kind, n, err) \in Work'
         /\ Carrying(n) \cap Work = {}
<1>1. /\ ops' \in Seq(Methods) /\ Len(ops') = n /\ Len(ops) \in Nat
      /\ Ops = 1..Len(ops) /\ Ops' = 1..Len(ops')
      /\ \A o \in Ops : ops'[o] = ops[o]
      /\ ops'[n] = kind
  <2>1. /\ Append(ops, kind) \in Seq(Methods)
        /\ Len(Append(ops, kind)) = Len(ops) + 1 /\ Len(ops) \in Nat
        /\ \A i \in 1..Len(ops) : Append(ops, kind)[i] = ops[i]
        /\ Append(ops, kind)[Len(ops) + 1] = kind
    BY AppendProperties, LenProperties
  <2>2. DOMAIN ops = 1..Len(ops)
    BY LenProperties
  <2>3. DOMAIN Append(ops, kind) = 1..Len(Append(ops, kind))
    BY <2>1, LenProperties
  <2>4. QED
    BY <2>1, <2>2, <2>3 DEF Ops
<1>2. /\ Ops' = Ops \cup {n} /\ n \notin Ops /\ \A o \in Ops : o < n
  BY <1>1
<1>3. /\ Sends' = {o \in Ops' : ops'[o] = "send"}
      /\ Attaches' = {o \in Ops' : ops'[o] = "attach"}
      /\ Detaches' = {o \in Ops' : ops'[o] = "detach"}
      /\ Payloads' = Ops' \cup NoOperation
  BY DEF Sends, Attaches, Detaches, Payloads, NoOperation
<1>4. Sends' = Sends \cup (IF kind = "send" THEN {n} ELSE {})
  BY <1>1, <1>2, <1>3 DEF Sends
<1>5. Attaches' = Attaches \cup (IF kind = "attach" THEN {n} ELSE {})
  BY <1>1, <1>2, <1>3 DEF Attaches
<1>6. Detaches' = Detaches \cup (IF kind = "detach" THEN {n} ELSE {})
  BY <1>1, <1>2, <1>3 DEF Detaches
<1>7. /\ Attaches \subseteq Attaches' /\ Detaches \subseteq Detaches'
      /\ Payloads \subseteq Payloads' /\ n \in Payloads' /\ Ops \subseteq Ops'
  BY <1>2, <1>3, <1>5, <1>6 DEF Payloads
<1>8. /\ Work' = [do : {"attach"}, op : Attaches', err : BOOLEAN]
            \cup [do : {"detach"}, op : Detaches', err : BOOLEAN]
            \cup [do : {"toDetached", "tell"},
                  op : Attaches' \cup Detaches' \cup NoOperation, err : BOOLEAN]
            \cup [do : Plain, op : Payloads', err : BOOLEAN]
      /\ Deferred' = [do : {"attach"}, op : Attaches', err : BOOLEAN]
               \cup [do : {"send", "rejected"}, op : Payloads', err : BOOLEAN]
  BY DEF Work, Deferred, Plain, NoOperation, EventNames
<1>9. Work \subseteq Work'
  BY <1>7, <1>8 DEF Work
<1>10. Deferred \subseteq Deferred'
  BY <1>7, <1>8 DEF Deferred
<1>11. Links \subseteq Links'
  BY <1>7 DEF Links
<1>12. \A err \in BOOLEAN : Item(kind, n, err) \in Work'
  BY <1>5, <1>6, <1>7, <1>8 DEF Item, Methods, Plain
<1>13. Carrying(n) \cap Work = {}
  <2>1. n \notin Attaches /\ n \notin Detaches /\ n \notin NoOperation
    BY <1>2 DEF Attaches, Detaches, NoOperation, Undefined, Silent
  <2>2. QED
    BY <2>1 DEF Carrying, Work, Plain, EventNames
<1>14. QED
  BY <1>1, <1>2, <1>4, <1>5, <1>6, <1>9, <1>10, <1>11, <1>12, <1>13

\* The places of a new operation, and of the ones before it.
LEMMA CallAccounts ==
  ASSUME Data, NEW kind \in Methods, NEW err \in BOOLEAN, Call(kind, err),
         NEW n \in Nat, n = Len(ops) + 1, NEW o \in Ops'
  PROVE  /\ o # n => Accounts(o)' = Accounts(o)
         /\ o = n => Accounts(o)' = IF kind = "forceDetach" THEN 0 ELSE 1
<1>1. /\ ops \in Seq(Methods) /\ agenda \in Seq(Work) /\ queue \in Seq(Deferred)
      /\ unsent \in Seq(Sends) /\ pending \subseteq Sends
      /\ attachingCallback \in Attaches \cup NoOperation
      /\ detachingCallback \in Detaches \cup {Undefined}
      /\ answers \in [Ops -> Nat]
  BY DEF Data, TypeOK, Shapes, Agendas, Queues
<1>2. /\ Ops' = Ops \cup {n} /\ n \notin Ops /\ Carrying(n) \cap Work = {}
      /\ Work \subseteq Work' /\ Item(kind, n, err) \in Work'
  BY <1>1, CallFacts DEF Call
<1>3. /\ Sends \subseteq Ops /\ Attaches \subseteq Ops /\ Detaches \subseteq Ops
      /\ Undefined \notin Ops' /\ Silent \notin Ops'
  <2>1. Undefined # n /\ Silent # n
    BY DEF Undefined, Silent
  <2>2. QED
    BY <1>1, <1>2, <2>1, OpsFacts DEF Undefined, Silent
<1>4. /\ answers' = Append(answers, 0)
      /\ unsent' = IF kind = "send" THEN Append(unsent, n) ELSE unsent
      /\ agenda' = <<Item(kind, n, err)>> \o agenda
      /\ UNCHANGED <<queue, pending, attachingCallback, detachingCallback>>
  BY DEF Call, fsm, callbacks
<1>5. InAgenda(o)' = (IF Item(kind, n, err) \in Carrying(o) THEN 1 ELSE 0) + InAgenda(o)
  <2>1. agenda \in Seq(Work')
    BY <1>1, <1>2, SeqWiden
  <2>2. Count(<<Item(kind, n, err)>> \o agenda, Carrying(o))
          = (IF Item(kind, n, err) \in Carrying(o) THEN 1 ELSE 0)
              + Count(agenda, Carrying(o))
    BY <1>2, <2>1, CountExtended
  <2>3. QED
    BY <1>4, <2>2 DEF InAgenda, Carrying
<1>6. Item(kind, n, err) \in Carrying(o)
        <=> kind \in {"attach", "detach"} /\ o = n
  BY CarryingFacts DEF Methods
<1>7. InUnsent(o)' = (IF kind = "send" /\ o = n THEN 1 ELSE 0) + InUnsent(o)
  <2>1. InUnsent(o) = Count(unsent, {o}) /\ InUnsent(o)' = Count(unsent', {o})
    BY DEF InUnsent
  <2>2. CASE kind # "send"
    <3>1. Count(unsent, {o}) \in Nat
      BY <1>1, CountNat
    <3>2. Count(unsent', {o}) = Count(unsent, {o})
      BY <1>4, <2>2
    <3>3. QED
      BY <2>1, <2>2, <3>1, <3>2
  <2>3. CASE kind = "send"
    <3>1. unsent \in Seq(Ops') /\ n \in Ops'
      BY <1>1, <1>2, <1>3, SeqWiden
    <3>2. /\ n \in {o} => Count(Append(unsent, n), {o}) = Count(unsent, {o}) + 1
          /\ n \notin {o} => Count(Append(unsent, n), {o}) = Count(unsent, {o})
          /\ Count(unsent, {o}) \in Nat
      BY <3>1, CountAppend, CountNat
    <3>3. unsent' = Append(unsent, n)
      BY <1>4, <2>3
    <3>4. QED
      BY <2>1, <2>3, <3>2, <3>3
  <2>4. QED
    BY <2>2, <2>3
<1>8. /\ InQueue(o)' = InQueue(o) /\ InAttaching(o)' = InAttaching(o)
      /\ InDetaching(o)' = InDetaching(o) /\ InPending(o)' = InPending(o)
  BY <1>4 DEF InQueue, InAttaching, InDetaching, InPending, Carrying
<1>9. /\ o # n => Told(o)' = Told(o)
      /\ o = n => Told(o)' = 0
  <2>1. Len(answers) = Len(ops) /\ answers \in Seq(Nat)
    <3>1. Ops = 1..Len(ops) /\ Len(ops) \in Nat
      BY <1>1, OpsFacts
    <3>2. answers \in [1..Len(ops) -> Nat]
      BY <1>1, <3>1
    <3>3. QED
      BY <3>1, <3>2
  <2>2. /\ \A i \in 1..Len(answers) : Append(answers, 0)[i] = answers[i]
        /\ Append(answers, 0)[Len(answers) + 1] = 0
    BY <2>1, AppendProperties
  <2>3. Ops = 1..Len(ops)
    BY <1>1, OpsFacts
  <2>4. QED
    BY <1>2, <1>4, <2>1, <2>2, <2>3 DEF Told
<1>10. /\ Accounts(o) = InAgenda(o) + (InQueue(o) + InAttaching(o) + InDetaching(o)
                           + InUnsent(o) + InPending(o) + Told(o))
       /\ Accounts(o)' = InAgenda(o)' + (InQueue(o)' + InAttaching(o)'
                           + InDetaching(o)' + InUnsent(o)' + InPending(o)' + Told(o)')
  BY DEF Accounts, Around
<1>11. CASE o # n
  <2>1. o \in Ops
    BY <1>2, <1>11
  <2>2. InAgenda(o) \in Nat /\ InUnsent(o) \in Nat
    BY <2>1, Naturals
  <2>3. InAgenda(o)' = InAgenda(o) /\ InUnsent(o)' = InUnsent(o) /\ Told(o)' = Told(o)
    BY <1>5, <1>6, <1>7, <1>9, <1>11, <2>2
  <2>4. QED
    BY <1>8, <1>10, <1>11, <2>3, Zenon
<1>12. CASE o = n
  <2>1. o \notin Ops
    BY <1>2, <1>12
  <2>2. InAgenda(o) = 0
    BY <1>1, <1>2, <1>12, CountNone DEF InAgenda
  <2>3. InQueue(o) = 0
    <3>1. queue \in Seq(Work)
      BY <1>1, DeferredFacts, SeqWiden
    <3>2. QED
      BY <1>2, <1>12, <3>1, CountNone DEF InQueue
  <2>4. InUnsent(o) = 0
    <3>1. {o} \cap Sends = {}
      BY <1>3, <2>1
    <3>2. QED
      BY <1>1, <3>1, CountNone DEF InUnsent
  <2>5. InPending(o) = 0
    BY <1>1, <1>3, <2>1 DEF InPending
  <2>6. InAttaching(o) = 0 /\ InDetaching(o) = 0
    BY <1>1, <1>3, <2>1 DEF InAttaching, InDetaching, NoOperation
  <2>7. /\ InAgenda(o)' = IF kind \in {"attach", "detach"} THEN 1 ELSE 0
        /\ InUnsent(o)' = IF kind = "send" THEN 1 ELSE 0
    BY <1>5, <1>6, <1>7, <1>12, <2>2, <2>4
  <2>8. InQueue(o)' = 0 /\ InAttaching(o)' = 0 /\ InDetaching(o)' = 0
        /\ InPending(o)' = 0 /\ Told(o)' = 0
    BY <1>8, <1>9, <1>12, <2>3, <2>5, <2>6
  <2>9. Accounts(o)' = InAgenda(o)' + InUnsent(o)'
    <3>1. InAgenda(o)' \in Nat /\ InUnsent(o)' \in Nat
      BY <2>7
    <3>2. QED
      BY <1>10, <2>8, <3>1
  <2>10. Accounts(o)' = IF kind = "forceDetach" THEN 0 ELSE 1
    BY <2>7, <2>9 DEF Methods
  <2>11. QED
    BY <1>12, <2>10
<1>13. QED
  BY <1>11, <1>12

\* A call is new, and the youngest.
LEMMA CallData ==
  ASSUME Data, NEW kind \in Methods, NEW err \in BOOLEAN, Call(kind, err),
         UNCHANGED preSettled
  PROVE  Data'
<1>1. /\ ops \in Seq(Methods) /\ agenda \in Seq(Work) /\ queue \in Seq(Deferred)
      /\ unsent \in Seq(Sends) /\ pending \subseteq Sends
      /\ transmitted \in Seq(Ops) /\ answers \in [Ops -> Nat]
  BY DEF Data, TypeOK, Shapes, Agendas, Queues
<1>2. PICK n \in Nat : n = Len(ops) + 1
  BY <1>1, LenProperties
<1>3. /\ ops' \in Seq(Methods) /\ Ops' = Ops \cup {n} /\ n \notin Ops
      /\ \A o \in Ops : o < n
      /\ Sends' = Sends \cup (IF kind = "send" THEN {n} ELSE {})
      /\ Attaches' = Attaches \cup (IF kind = "attach" THEN {n} ELSE {})
      /\ Detaches' = Detaches \cup (IF kind = "detach" THEN {n} ELSE {})
      /\ Work \subseteq Work' /\ Deferred \subseteq Deferred' /\ Links \subseteq Links'
      /\ Item(kind, n, err) \in Work'
  BY <1>1, <1>2, CallFacts DEF Call
<1>4. /\ Sends \subseteq Ops /\ Ops \subseteq Nat /\ Sends \subseteq Sends'
      /\ Ops \subseteq Ops'
  BY <1>1, <1>3, OpsFacts
<1>5. /\ answers' = Append(answers, 0)
      /\ unsent' = IF kind = "send" THEN Append(unsent, n) ELSE unsent
      /\ agenda' = <<Item(kind, n, err)>> \o agenda
      /\ UNCHANGED <<state, queue, pending, transmitted, attachingCallback,
                     detachingCallback, indicatedError, senderCloseOccurred,
                     sender, links, crashed>>
  BY <1>2 DEF Call, fsm, callbacks, closing, wire
<1>6. agenda' \in Seq(Work')
  <2>1. agenda \in Seq(Work')
    BY <1>1, <1>3, SeqWiden
  <2>2. QED
    BY <1>3, <1>5, <2>1, CountExtended
<1>7. queue' \in Seq(Deferred')
  BY <1>1, <1>3, <1>5, SeqWiden
<1>8. unsent' \in Seq(Sends')
  <2>1. unsent \in Seq(Sends')
    BY <1>1, <1>4, SeqWiden
  <2>2. CASE kind = "send"
    <3>1. n \in Sends'
      BY <1>3, <2>2
    <3>2. QED
      BY <1>5, <2>1, <2>2, <3>1, AppendProperties
  <2>3. CASE kind # "send"
    BY <1>5, <2>1, <2>3
  <2>4. QED
    BY <2>2, <2>3
<1>9. transmitted' \in Seq(Ops') /\ links' \in Seq(Links')
  <2>1. links \in Seq(Links)
    BY DEF Data, TypeOK
  <2>2. transmitted \in Seq(Ops') /\ links \in Seq(Links')
    BY <1>1, <1>3, <1>4, <2>1, SeqWiden
  <2>3. QED
    BY <1>5, <2>2
<1>10. Shapes'
  <2>1. pending' \subseteq Sends' /\ (preSettled' => pending' = {})
    BY <1>3, <1>5 DEF Data, Shapes
  <2>2. /\ attachingCallback' \in Attaches' \cup NoOperation
        /\ detachingCallback' \in Detaches' \cup {Undefined}
    BY <1>3, <1>5 DEF Data, Shapes
  <2>3. QED
    BY <1>6, <1>7, <1>8, <2>1, <2>2 DEF Shapes, Agendas, Queues, NoOperation
<1>11. answers' \in [Ops' -> Nat]
  <2>1. Ops = 1..Len(ops) /\ Ops' = 1..n /\ Len(ops) \in Nat
    BY <1>1, <1>2, <1>3, OpsFacts
  <2>2. answers \in Seq(Nat) /\ Len(answers) = Len(ops)
    <3>1. answers \in [1..Len(ops) -> Nat]
      BY <1>1, <2>1
    <3>2. QED
      BY <2>1, <3>1
  <2>3. answers' \in Seq(Nat) /\ Len(answers') = n
    BY <1>2, <1>5, <2>2, AppendProperties
  <2>4. QED
    BY <2>1, <2>3, LenProperties
<1>12. TypeOK'
  <2>1. \A item \in ToSet(queue') \cup ToSet(agenda') : item \in Work'
    <3>1. Deferred' \subseteq Work'
      BY DEF Deferred, Work, Plain
    <3>2. queue' \in Seq(Work')
      BY <1>7, <3>1, SeqWiden
    <3>3. QED
      BY <1>6, <3>2, LenProperties, ElementOfSeq DEF ToSet
  <2>2. \A item \in ToSet(queue') \cup ToSet(agenda') :
          item.op \in Ops' \cup {Undefined, Silent} /\ item.err \in BOOLEAN
    <3>1. Payloads' = Ops' \cup {Undefined, Silent}
      BY DEF Payloads, NoOperation
    <3>2. \A item \in Work' : item.op \in Payloads' /\ item.err \in BOOLEAN
      <4>1. Attaches' \subseteq Payloads' /\ Detaches' \subseteq Payloads'
            /\ NoOperation \subseteq Payloads'
        BY DEF Attaches, Detaches, Payloads, NoOperation
      <4>2. Work' = [do : {"attach"}, op : Attaches', err : BOOLEAN]
               \cup [do : {"detach"}, op : Detaches', err : BOOLEAN]
               \cup [do : {"toDetached", "tell"},
                     op : Attaches' \cup Detaches' \cup NoOperation, err : BOOLEAN]
               \cup [do : Plain, op : Payloads', err : BOOLEAN]
        BY DEF Work, Plain, NoOperation, EventNames
      <4>3. QED
        BY <4>1, <4>2
    <3>3. QED
      BY <2>1, <3>1, <3>2
  <2>3. unsent' \in Seq(Ops') /\ pending' \subseteq Ops'
    <3>1. Sends' \subseteq Ops'
      BY DEF Sends
    <3>2. QED
      BY <1>8, <1>10, <3>1, SeqWiden DEF Shapes
  <2>4. {attachingCallback', detachingCallback'} \subseteq Ops' \cup {Undefined, Silent}
    BY <1>4, <1>5 DEF Data, TypeOK
  <2>5. /\ preSettled' \in BOOLEAN
        /\ state' \in {"detached", "attaching", "attached", "detaching"}
        /\ indicatedError' \in BOOLEAN /\ senderCloseOccurred' \in BOOLEAN
        /\ sender' \in 0..Len(links') /\ (sender' = 0 => state' = "detached")
        /\ crashed' \in BOOLEAN
    BY <1>5 DEF Data, TypeOK
  <2>6. QED
    BY <1>3, <1>9, <1>11, <2>2, <2>3, <2>4, <2>5 DEF TypeOK, ToSet
<1>13. Ordered'
  <2>1. Ordered
    BY DEF Data
  <2>2. CASE kind = "send"
    <3>1. unsent \in Seq(Ops)
      BY <1>1, <1>4, SeqWiden
    <3>2. /\ DOMAIN unsent' = 1..(Len(unsent) + 1) /\ DOMAIN unsent = 1..Len(unsent)
          /\ \A i \in DOMAIN unsent : unsent'[i] = unsent[i] /\ unsent[i] \in Ops
          /\ unsent'[Len(unsent) + 1] = n /\ Len(unsent) \in Nat
      <4>1. unsent' = Append(unsent, n)
        BY <1>5, <2>2
      <4>2. /\ Append(unsent, n) \in Seq(Ops')
            /\ Len(Append(unsent, n)) = Len(unsent) + 1
            /\ \A i \in 1..Len(unsent) : Append(unsent, n)[i] = unsent[i]
            /\ Append(unsent, n)[Len(unsent) + 1] = n
        <5>1. unsent \in Seq(Ops') /\ n \in Ops'
          BY <1>3, <1>4, <3>1, SeqWiden
        <5>2. QED
          BY <5>1, AppendProperties
      <4>3. /\ DOMAIN Append(unsent, n) = 1..Len(Append(unsent, n))
            /\ DOMAIN unsent = 1..Len(unsent) /\ Len(unsent) \in Nat
        BY <3>1, <4>2, LenProperties
      <4>4. QED
        BY <3>1, <4>1, <4>2, <4>3, ElementOfSeq
    <3>3. \A i \in DOMAIN transmitted : transmitted[i] \in Ops
      BY <1>1, ElementOfSeq, LenProperties
    <3>4. \A i, j \in DOMAIN unsent' : i < j => unsent'[i] < unsent'[j]
      <4> SUFFICES ASSUME NEW i \in DOMAIN unsent', NEW j \in DOMAIN unsent', i < j
                   PROVE  unsent'[i] < unsent'[j]
        OBVIOUS
      <4>1. i \in DOMAIN unsent
        BY <3>2
      <4>2. CASE j \in DOMAIN unsent
        BY <2>1, <3>2, <4>1, <4>2 DEF Ordered
      <4>3. CASE j \notin DOMAIN unsent
        <5>1. j = Len(unsent) + 1
          BY <3>2, <4>3
        <5>2. unsent'[i] \in Ops /\ unsent'[j] = n
          BY <3>2, <4>1, <5>1
        <5>3. QED
          BY <1>3, <5>2
      <4>4. QED
        BY <4>2, <4>3
    <3>5. \A i \in DOMAIN transmitted, j \in DOMAIN unsent' :
            transmitted[i] < unsent'[j]
      <4> SUFFICES ASSUME NEW i \in DOMAIN transmitted, NEW j \in DOMAIN unsent'
                   PROVE  transmitted[i] < unsent'[j]
        OBVIOUS
      <4>1. CASE j \in DOMAIN unsent
        BY <2>1, <3>2, <4>1 DEF Ordered
      <4>2. CASE j \notin DOMAIN unsent
        <5>1. j = Len(unsent) + 1
          BY <3>2, <4>2
        <5>2. transmitted[i] \in Ops /\ unsent'[j] = n
          BY <3>2, <3>3, <5>1
        <5>3. QED
          BY <1>3, <5>2
      <4>3. QED
        BY <4>1, <4>2
    <3>6. SentInOrder' /\ transmitted' = transmitted
      BY <1>5, <2>1 DEF Ordered, SentInOrder
    <3>7. QED
      BY <3>4, <3>5, <3>6 DEF Ordered
  <2>3. CASE kind # "send"
    BY <1>5, <2>1, <2>3, SameOrder
  <2>4. QED
    BY <2>2, <2>3
<1>14. Accounted'
  <2> SUFFICES ASSUME NEW o \in Ops'
               PROVE  /\ Accounts(o)' <= 1
                      /\ o \in Sends' \cup Detaches' => Accounts(o)' = 1
    BY DEF Accounted
  <2>1. /\ o # n => Accounts(o)' = Accounts(o)
        /\ o = n => Accounts(o)' = IF kind = "forceDetach" THEN 0 ELSE 1
    BY <1>2, CallAccounts
  <2>2. CASE o # n
    <3>1. /\ o \in Ops /\ (o \in Sends' => o \in Sends)
          /\ (o \in Detaches' => o \in Detaches)
      BY <1>3, <2>2
    <3>2. QED
      BY <2>1, <2>2, <3>1 DEF Data, Accounted
  <2>3. CASE o = n
    <3>1. Accounts(o)' = IF kind = "forceDetach" THEN 0 ELSE 1
      BY <2>1, <2>3
    <3>2. o \in Sends' \cup Detaches' => kind # "forceDetach"
      <4>1. n \notin Sends /\ n \notin Detaches
        BY <1>3, <1>4 DEF Detaches
      <4>2. QED
        BY <1>3, <2>3, <4>1
    <3>3. QED
      BY <3>1, <3>2
  <2>4. QED
    BY <2>2, <2>3
<1>15. QED
  BY <1>10, <1>12, <1>13, <1>14 DEF Data

\* What an event of a rhea link changes, and what it puts on the agenda.
LEMMA PeerFacts ==
  ASSUME Data, NEW l \in DOMAIN links, Peer(l)
  PROVE  /\ agenda = <<>>
         /\ UNCHANGED <<fsm, messages, callbacks, closing, sender, ops, answers, crashed>>
         /\ \E link \in Links : links' = [links EXCEPT ![l] = link]
         /\ \/ agenda' \in Bursts
            \/ \E name \in {"send", "accepted", "rejected"}, op \in Payloads :
                 agenda' = <<Item(name, op, FALSE)>>
<1>1. links \in Seq(Links) /\ links[l] \in Links
  BY ElementOfSeq, LenProperties DEF Data, TypeOK
<1>2. CASE PeerOpens(l)
  <2> DEFINE link == [links[l] EXCEPT !.peer = "open"]
  <2>1. link \in Links /\ links' = [links EXCEPT ![l] = link]
    BY <1>1, <1>2 DEF PeerOpens, Links
  <2>2. agenda' \in Bursts
    BY <1>2 DEF PeerOpens, Event, Bursts
  <2>3. /\ agenda = <<>>
        /\ UNCHANGED <<fsm, messages, callbacks, closing, sender, ops, answers, crashed>>
    BY <1>2 DEF PeerOpens, Event, Idle
  <2> HIDE DEF link
  <2>4. QED
    BY <2>1, <2>2, <2>3
<1>3. ASSUME NEW err \in BOOLEAN, PeerCloses(l, err)
      PROVE  /\ agenda = <<>> /\ agenda' \in Bursts
             /\ UNCHANGED <<fsm, messages, callbacks, closing, sender, ops, answers, crashed>>
             /\ \E link \in Links : links' = [links EXCEPT ![l] = link]
  <2> DEFINE link == [[links[l] EXCEPT !.peer = IF err THEN "failed" ELSE "closed"]
                       EXCEPT !.flight = {}]
  <2>1. link \in Links
    BY <1>1 DEF Links
  <2>2. links' = [links EXCEPT ![l] = link]
    BY <1>1, <1>3, LenProperties DEF PeerCloses
  <2>3. agenda' \in Bursts
    BY <1>3 DEF PeerCloses, Event, Bursts
  <2>4. /\ agenda = <<>>
        /\ UNCHANGED <<fsm, messages, callbacks, closing, sender, ops, answers, crashed>>
    BY <1>3 DEF PeerCloses, Event, Idle
  <2> HIDE DEF link
  <2>5. QED
    BY <2>1, <2>2, <2>3, <2>4
<1>4. ASSUME NEW op \in links[l].flight, NEW outcome \in {"accepted", "rejected"},
             PeerSettles(l, op, outcome)
      PROVE  /\ agenda = <<>> /\ op \in Payloads
             /\ agenda' = <<Item(outcome, op, FALSE)>>
             /\ UNCHANGED <<fsm, messages, callbacks, closing, sender, ops, answers, crashed>>
             /\ \E link \in Links : links' = [links EXCEPT ![l] = link]
  <2> DEFINE link == [links[l] EXCEPT !.flight = @ \ {op}]
  <2>1. link \in Links /\ op \in Ops
    BY <1>1, <1>4 DEF Links
  <2>2. links' = [links EXCEPT ![l] = link]
    BY <1>4 DEF PeerSettles
  <2>3. /\ agenda = <<>> /\ agenda' = <<Item(outcome, op, FALSE)>>
        /\ UNCHANGED <<fsm, messages, callbacks, closing, sender, ops, answers, crashed>>
    BY <1>4 DEF PeerSettles, Event, Idle
  <2> HIDE DEF link
  <2>4. QED
    BY <2>1, <2>2, <2>3 DEF Payloads
<1>5. CASE PeerGivesCredit(l)
  <2>1. links' = [links EXCEPT ![l] = links[l]]
    BY <1>1, <1>5, LenProperties DEF PeerGivesCredit
  <2>2. /\ agenda = <<>> /\ agenda' = <<Item("send", Undefined, FALSE)>>
        /\ UNCHANGED <<fsm, messages, callbacks, closing, sender, ops, answers, crashed>>
    BY <1>5 DEF PeerGivesCredit, Event, Idle, Step
  <2>3. Undefined \in Payloads
    BY DEF Payloads, NoOperation
  <2>4. QED
    BY <1>1, <2>1, <2>2, <2>3
<1>6. QED
  BY <1>2, <1>3, <1>4, <1>5 DEF Peer

\* An event carries no callback.
LEMMA PeerData ==
  ASSUME Data, NEW l \in DOMAIN links, Peer(l), UNCHANGED preSettled
  PROVE  Data'
<1>1. /\ ops \in Seq(Methods) /\ agenda = <<>>
      /\ UNCHANGED <<fsm, messages, callbacks, closing, sender, ops, answers, crashed>>
      /\ links \in Seq(Links) /\ l \in 1..Len(links)
  BY PeerFacts, LenProperties DEF Data, TypeOK
<1>2. agenda' \in Seq(Work) /\ \A i \in DOMAIN agenda' : agenda'[i].do \in Plain
  <2>1. CASE agenda' \in Bursts
    <3> DEFINE a == Step("senderOpenEvent")
               b == Step("senderCloseEvent")
               c == Step("senderErrorEvent")
    <3>1. a \in Work /\ b \in Work /\ c \in Work
      <4>1. /\ "senderOpenEvent" \in Plain /\ "senderCloseEvent" \in Plain
            /\ "senderErrorEvent" \in Plain
        BY DEF Plain, EventNames
      <4>2. QED
        BY <4>1, StepItems, Zenon
    <3>2. a.do \in Plain /\ b.do \in Plain /\ c.do \in Plain
      BY DEF Plain, EventNames, Step, Item
    <3>3. agenda' \in {<<a>>, <<b>>, <<c, b>>}
      BY <2>1 DEF Bursts
    <3> HIDE DEF a, b, c
    <3>4. <<a>> \in Seq(Work) /\ <<b>> \in Seq(Work) /\ <<c, b>> \in Seq(Work)
      BY <3>1
    <3>5. /\ \A i \in DOMAIN <<a>> : <<a>>[i].do \in Plain
          /\ \A i \in DOMAIN <<b>> : <<b>>[i].do \in Plain
          /\ \A i \in DOMAIN <<c, b>> : <<c, b>>[i].do \in Plain
      BY <3>2
    <3>6. QED
      BY <3>3, <3>4, <3>5, Zenon
  <2>2. ASSUME NEW name \in {"send", "accepted", "rejected"}, NEW op \in Payloads,
               agenda' = <<Item(name, op, FALSE)>>
        PROVE  agenda' \in Seq(Work) /\ \A i \in DOMAIN agenda' : agenda'[i].do \in Plain
    <3>1. name \in Plain /\ FALSE \in BOOLEAN
      BY DEF Plain
    <3>2. Item(name, op, FALSE) \in Work
      BY <3>1, WorkItems, Zenon
    <3>3. Item(name, op, FALSE).do = name
      BY DEF Item
    <3>4. PICK w \in Work : w = Item(name, op, FALSE)
      BY <3>2
    <3>5. w.do \in Plain
      BY <3>1, <3>3, <3>4
    <3>6. <<w>> \in Seq(Work)
      OBVIOUS
    <3>7. \A i \in DOMAIN <<w>> : <<w>>[i].do \in Plain
      BY <3>5
    <3>8. QED
      BY <2>2, <3>4, <3>6, <3>7, Zenon
  <2>3. QED
    BY <2>1, <2>2, PeerFacts
<1>3. ASSUME NEW o \in Ops
      PROVE  InAgenda(o)' = InAgenda(o)
  <2>1. {i \in DOMAIN agenda' : agenda'[i] \in Carrying(o)} = {}
    BY <1>2 DEF Carrying, Plain, EventNames
  <2>2. Count(agenda', Carrying(o)) = 0
    BY <2>1, FS_EmptySet DEF Count
  <2>3. Count(agenda, Carrying(o)) = 0
    BY <1>1, CountEmpty
  <2>4. QED
    BY <2>2, <2>3 DEF InAgenda, Carrying
<1>4. WireOK'
  <2>1. PICK link \in Links : links' = [links EXCEPT ![l] = link]
    BY PeerFacts
  <2>2. links' \in Seq(Links) /\ Len(links') = Len(links)
    BY <1>1, <2>1, LinkFacts
  <2>3. Links' = Links
    BY <1>1, SameOps
  <2>4. links' \in Seq(Links') /\ Len(links') = Len(links)
    BY <2>2, <2>3
  <2>5. /\ state' = state /\ indicatedError' = indicatedError
        /\ senderCloseOccurred' = senderCloseOccurred /\ sender' = sender
        /\ crashed' = crashed
    BY <1>1 DEF fsm, closing
  <2>6. QED
    BY <2>4, <2>5 DEF WireOK, Data, TypeOK
<1>5. /\ queue' = queue /\ unsent' = unsent /\ pending' = pending
      /\ transmitted' = transmitted /\ answers' = answers
      /\ attachingCallback' = attachingCallback
      /\ detachingCallback' = detachingCallback
  BY <1>1 DEF fsm, messages, callbacks
<1>6. Kept
  BY <1>5 DEF Kept, Data, Shapes, TypeOK
<1>7. Ordered'
  BY <1>5, SameOrder DEF Data
<1>8. MessagesBalance
  BY <1>5 DEF MessagesBalance, InUnsent, InPending, Told
<1>9. agenda' \in Agendas
  BY <1>2 DEF Agendas
<1>10. QED
  BY <1>1, <1>3, <1>4, <1>5, <1>6, <1>7, <1>8, <1>9, MessagesGo DEF callbacks

\* A step of the program keeps Data, if no two detaches meet.
LEMMA RunData ==
  ASSUME Data, Run, UNCHANGED preSettled,
         state = "attached" => detachingCallback = Undefined,
         state = "detached" /\ Head(agenda).do = "toDetached"
           => Head(agenda).op \notin Detaches
  PROVE  Data'
<1> DEFINE item == Head(agenda)
           rest == Tail(agenda)
<1>1. Takes(item, rest)
  BY DEF Run, Takes, Idle
<1>2. \/ item.do \in Inputs /\ Handle(item, rest)
      \/ item.do = "owner" /\ Ignore(rest)
      \/ item.do = "toDetached" /\ ToDetached(item.op, item.err, rest)
      \/ item.do = "failUnsent" /\ FailUnsent(rest)
      \/ item.do = "failPending" /\ FailPending(rest)
      \/ item.do = "failKey" /\ FailKey(item.op, rest)
      \/ item.do = "tell" /\ Tell(item.op, item.err, rest)
      \/ item.do = "replay" /\ Replay(rest)
      \/ item.do = "sendUnsent" /\ SendUnsent(rest)
      \/ item.do = "transmit" /\ Ignore(rest)
  BY DEF Run
<1>3. state = "detached" /\ item.do = "toDetached" => item.op \notin Detaches
  OBVIOUS
<1> HIDE DEF item, rest
<1>4. CASE item.do \in Inputs /\ Handle(item, rest)
  <2>1. CASE HandleDetached(item, rest)
    BY <1>1, <1>4, <2>1, DetachedData
  <2>2. CASE HandleAttaching(item, rest)
    BY <1>1, <2>2, AttachingData
  <2>3. CASE HandleAttached(item, rest)
    <3>1. detachingCallback = Undefined
      BY <2>3 DEF HandleAttached
    <3>2. QED
      BY <1>1, <2>3, <3>1, AttachedData
  <2>4. CASE HandleDetaching(item, rest)
    BY <1>1, <2>4, DetachingData
  <2>5. QED
    BY <1>4, <2>1, <2>2, <2>3, <2>4 DEF Handle
<1>5. CASE item.do \in {"owner", "transmit"} /\ Ignore(rest)
  <2>1. \A o \in Ops : Taken(o) = 0
    BY <1>1, <1>5, NothingTaken DEF CarryingNames
  <2>2. QED
    BY <1>1, <1>5, <2>1, IgnoreData
<1>6. CASE item.do = "toDetached" /\ ToDetached(item.op, item.err, rest)
  BY <1>1, <1>3, <1>6, ToDetachedData
<1>7. CASE item.do = "failUnsent" /\ FailUnsent(rest)
  BY <1>1, <1>7, FailUnsentData
<1>8. CASE item.do = "failPending" /\ FailPending(rest)
  BY <1>1, <1>8, FailPendingData
<1>9. CASE item.do = "failKey" /\ FailKey(item.op, rest)
  BY <1>1, <1>9, FailKeyData
<1>10. CASE item.do = "tell" /\ Tell(item.op, item.err, rest)
  BY <1>1, <1>10, TellData
<1>11. CASE item.do = "replay" /\ Replay(rest)
  BY <1>1, <1>11, ReplayData
<1>12. CASE item.do = "sendUnsent" /\ SendUnsent(rest)
  BY <1>1, <1>12, SendUnsentData
<1>13. QED
  BY <1>2, <1>4, <1>5, <1>6, <1>7, <1>8, <1>9, <1>10, <1>11, <1>12

-----------------------------------------------------------------------------
(* The steps keep Control.                                                 *)

\* Some work takes the place of the head of the agenda; the calls may change.
Moved(T, work) ==
  /\ agenda \in Seq(T) /\ agenda # <<>> /\ work \in Seq(T)
  /\ agenda' = work \o Tail(agenda)

\* What the agenda has then.
LEMMA MovedHas ==
  ASSUME NEW T, NEW work, Moved(T, work), NEW S
  PROVE  /\ Has(agenda', S) <=> Has(work, S) \/ Has(Tail(agenda), S)
         /\ Has(agenda, S) <=> Head(agenda) \in S \/ Has(Tail(agenda), S)
<1>1. agenda \in Seq(T) /\ agenda # <<>> /\ work \in Seq(T) /\ Tail(agenda) \in Seq(T)
  BY HeadTailProperties DEF Moved
<1>2. Has(work \o Tail(agenda), S) <=> Has(work, S) \/ Has(Tail(agenda), S)
  BY <1>1, HasConcat
<1>3. Has(agenda, S) <=> Head(agenda) \in S \/ Has(Tail(agenda), S)
  BY <1>1, HasHeadTail
<1>4. agenda' = work \o Tail(agenda)
  BY DEF Moved
<1>5. QED
  BY <1>2, <1>3, <1>4, Zenon

\* The end of a sequence has nothing the sequence has not.
LEMMA TailHas ==
  ASSUME NEW T, NEW s \in Seq(T), s # <<>>, NEW S, Has(Tail(s), S)
  PROVE  Has(s, S)
BY HasHeadTail

\* What was due to the messages is still due, or done.
LEMMA FailingMoves ==
  ASSUME Failing, NEW T, NEW work, Moved(T, work),
         state' = "detached" /\ unsent' # <<>> =>
           \/ Has(work, FailsUnsent)
           \/ state = "detached" /\ unsent # <<>> /\ Head(agenda) \notin FailsUnsent,
         state' = "detached" /\ queue' # <<>> =>
           \/ Has(work, Replays)
           \/ state = "detached" /\ queue # <<>> /\ Head(agenda) \notin Replays,
         state' \in {"detached", "attaching"} =>
           \/ Has(work, FailsPending)
           \/ \A o \in pending' : Has(work, FailingKey(o))
           \/ /\ state \in {"detached", "attaching"}
              /\ Head(agenda) \notin FailsPending
              /\ \A o \in pending' : o \in pending /\ Head(agenda) \notin FailingKey(o)
  PROVE  Failing'
<1>1. \A S : /\ Has(agenda', S) <=> Has(work, S) \/ Has(Tail(agenda), S)
             /\ Has(agenda, S) <=> Head(agenda) \in S \/ Has(Tail(agenda), S)
  BY MovedHas
<1>2. state' = "detached" /\ unsent' # <<>> => Has(agenda', FailsUnsent)
  BY <1>1, Zenon DEF Failing
<1>3. state' = "detached" /\ queue' # <<>> => Has(agenda', Replays)
  BY <1>1, Zenon DEF Failing
<1>4. state' \in {"detached", "attaching"}
        => \/ Has(agenda', FailsPending)
           \/ \A o \in pending' : Has(agenda', FailingKey(o))
  BY <1>1, Zenon DEF Failing
<1>5. QED
  BY <1>2, <1>3, <1>4 DEF Failing, FailsUnsent, Replays, FailsPending, FailingKey, Named

\* A sending loop is the only one.
LEMMA LoopsMove ==
  ASSUME Uninterrupted, NEW T, NEW work, Moved(T, work), UNCHANGED preSettled,
         preSettled \/ ~Has(work, Loops)
  PROVE  Uninterrupted'
<1>1. Has(agenda', Loops) <=> Has(work, Loops) \/ Has(Tail(agenda), Loops)
  BY MovedHas
<1>2. Has(agenda, Loops) <=> Head(agenda) \in Loops \/ Has(Tail(agenda), Loops)
  BY MovedHas
<1>3. preSettled \/ ~Has(agenda', Loops)
  BY <1>1, <1>2 DEF Uninterrupted
<1>4. QED
  BY <1>3 DEF Uninterrupted, Loops, Named

\* What an event sets off comes after the event, or is its second half.
LEMMA EventsMove ==
  ASSUME EventsAlone, NEW T, NEW work, Moved(T, work), ~Has(work, Events),
         Head(agenda).do = "senderErrorEvent" => work = <<>>
  PROVE  EventsAlone'
<1>1. Has(agenda', Events) <=> Has(work, Events) \/ Has(Tail(agenda), Events)
  BY MovedHas
<1>2. Has(agenda, Events) <=> Head(agenda) \in Events \/ Has(Tail(agenda), Events)
  BY MovedHas
<1>3. ASSUME Has(agenda', Events)
      PROVE  agenda' \in Bursts
  <2> DEFINE b == Step("senderCloseEvent")
             c == Step("senderErrorEvent")
  <2>1. agenda \in Bursts /\ Has(Tail(agenda), Events)
    BY <1>1, <1>2, <1>3 DEF EventsAlone
  <2>2. agenda = <<c, b>>
    <3>1. ASSUME NEW e
          PROVE  ~Has(Tail(<<e>>), Events)
      <4>1. Tail(<<e>>) = <<>>
        BY OneElement
      <4>2. QED
        BY <4>1, HasOne
    <3>2. QED
      BY <2>1, <3>1 DEF Bursts
  <2>3. c.do = "senderErrorEvent"
    BY DEF Step, Item
  <2> HIDE DEF c, b
  <2>4. Head(agenda) = c /\ Tail(agenda) = <<b>>
    BY <2>2
  <2>5. work = <<>>
    BY <2>3, <2>4
  <2>6. agenda' = <<b>>
    BY <2>4, <2>5 DEF Moved
  <2>7. QED
    BY <2>6 DEF Bursts, b
<1>4. QED
  BY <1>3 DEF EventsAlone, Events, Bursts, Named, EventNames, Step, Item, Undefined

\* When an event runs, nothing else waits but the other half of it.
LEMMA EventLast ==
  ASSUME EventsAlone, NEW T, agenda \in Seq(T), agenda # <<>>,
         Head(agenda) \in Named({"senderOpenEvent", "senderCloseEvent"})
  PROVE  Tail(agenda) = <<>>
<1> DEFINE a == Step("senderOpenEvent")
           b == Step("senderCloseEvent")
           c == Step("senderErrorEvent")
<1>1. Named({"senderOpenEvent", "senderCloseEvent"}) \subseteq Events
  BY DEF Events, Named, EventNames
<1>2. agenda \in {<<a>>, <<b>>, <<c, b>>}
  BY <1>1, HasHeadTail DEF EventsAlone, Bursts
<1>3. c.do = "senderErrorEvent"
  BY DEF Step, Item
<1>4. Head(agenda).do # "senderErrorEvent"
  BY DEF Named
<1>5. ASSUME NEW e, agenda = <<e>>
      PROVE  Tail(agenda) = <<>>
  BY <1>5, OneElement
<1> HIDE DEF a, b, c
<1>6. ASSUME agenda = <<c, b>>
      PROVE  Head(agenda).do = "senderErrorEvent"
  BY <1>3, <1>6
<1>7. QED
  BY <1>2, <1>4, <1>5, <1>6, Zenon

\* A transition that carries a callback is a transition.
LEMMA TellingFacts ==
  ASSUME NEW s
  PROVE  /\ Telling \subseteq Transitions
         /\ Has(s, Telling) => Has(s, Transitions)
<1>1. Telling \subseteq Transitions
  BY DEF Telling, Transitions, Named
<1>2. QED
  BY <1>1 DEF Has

\* No transition covers one that carries a callback: what follows the head, what
\* is put before it, and a head of its own.
LEMMA UncoveredTail ==
  ASSUME NEW T, NEW s \in Seq(T), s # <<>>
  PROVE  /\ Uncovered(s) => Uncovered(Tail(s))
         /\ Uncovered(s) /\ Head(s) \in Transitions => ~Has(Tail(s), Telling)
         /\ ~Has(Tail(s), Telling) => Uncovered(s)
<1>1. /\ DOMAIN s = 1..Len(s) /\ DOMAIN Tail(s) = 1..(Len(s) - 1) /\ Len(s) \in Nat
      /\ Len(s) >= 1 /\ s[1] = Head(s)
      /\ \A i \in 1..(Len(s) - 1) : Tail(s)[i] = s[i + 1]
  <2>1. /\ Tail(s) \in Seq(T) /\ Len(Tail(s)) = Len(s) - 1
        /\ \A i \in 1..Len(Tail(s)) : Tail(s)[i] = s[i + 1]
    BY HeadTailProperties
  <2>2. /\ DOMAIN s = 1..Len(s) /\ DOMAIN Tail(s) = 1..Len(Tail(s))
        /\ Len(s) \in Nat
    BY <2>1, LenProperties
  <2>3. Len(s) >= 1
    BY <2>2, EmptySeq
  <2>4. QED
    BY <2>1, <2>2, <2>3
<1>2. Uncovered(s) => Uncovered(Tail(s))
  <2> SUFFICES ASSUME Uncovered(s), NEW i \in DOMAIN Tail(s), NEW j \in DOMAIN Tail(s),
                      j < i, Tail(s)[i] \in Telling
               PROVE  Tail(s)[j] \notin Transitions
    BY DEF Uncovered
  <2>1. /\ i + 1 \in DOMAIN s /\ j + 1 \in DOMAIN s /\ j + 1 < i + 1
        /\ s[i + 1] = Tail(s)[i] /\ s[j + 1] = Tail(s)[j]
    BY <1>1
  <2>2. QED
    BY <2>1 DEF Uncovered
<1>3. Uncovered(s) /\ Head(s) \in Transitions => ~Has(Tail(s), Telling)
  <2> SUFFICES ASSUME Uncovered(s), Head(s) \in Transitions,
                      NEW i \in DOMAIN Tail(s), Tail(s)[i] \in Telling
               PROVE  FALSE
    BY DEF Has
  <2>1. i + 1 \in DOMAIN s /\ 1 \in DOMAIN s /\ 1 < i + 1 /\ s[i + 1] = Tail(s)[i]
    BY <1>1
  <2>2. s[1] \in Transitions
    BY <1>1
  <2>3. QED
    BY <2>1, <2>2 DEF Uncovered
<1>4. ~Has(Tail(s), Telling) => Uncovered(s)
  <2> SUFFICES ASSUME ~Has(Tail(s), Telling), NEW i \in DOMAIN s, NEW j \in DOMAIN s,
                      j < i, s[i] \in Telling
               PROVE  FALSE
    BY DEF Uncovered
  <2>1. i - 1 \in DOMAIN Tail(s) /\ Tail(s)[i - 1] = s[i]
    BY <1>1
  <2>2. QED
    BY <2>1 DEF Has
<1>5. QED
  BY <1>2, <1>3, <1>4

\* Work without a transition covers nothing.
LEMMA UncoveredConcat ==
  ASSUME NEW T, NEW s \in Seq(T), NEW t \in Seq(T), ~Has(s, Transitions), Uncovered(t)
  PROVE  Uncovered(s \o t)
<1>1. /\ DOMAIN s = 1..Len(s) /\ DOMAIN t = 1..Len(t)
      /\ Len(s) \in Nat /\ Len(t) \in Nat
      /\ DOMAIN (s \o t) = 1..(Len(s) + Len(t))
      /\ \A i \in 1..(Len(s) + Len(t)) :
           (s \o t)[i] = IF i <= Len(s) THEN s[i] ELSE t[i - Len(s)]
  BY ConcatProperties, LenProperties
<1> SUFFICES ASSUME NEW i \in DOMAIN (s \o t), NEW j \in DOMAIN (s \o t), j < i,
                    (s \o t)[i] \in Telling, (s \o t)[j] \in Transitions
             PROVE  FALSE
  BY DEF Uncovered
<1>2. CASE j <= Len(s)
  <2>1. j \in DOMAIN s /\ (s \o t)[j] = s[j]
    BY <1>1, <1>2
  <2>2. QED
    BY <2>1 DEF Has
<1>3. CASE ~(j <= Len(s))
  <2>1. /\ i - Len(s) \in DOMAIN t /\ j - Len(s) \in DOMAIN t
        /\ j - Len(s) < i - Len(s)
        /\ (s \o t)[i] = t[i - Len(s)] /\ (s \o t)[j] = t[j - Len(s)]
    BY <1>1, <1>3
  <2>2. QED
    BY <2>1 DEF Uncovered
<1>4. QED
  BY <1>2, <1>3

\* In a state that was not just entered from attached, what waits behind the
\* head carries no callback to a transition.
LEMMA TransitingFacts ==
  ASSUME Transiting, NEW T, agenda \in Seq(T), agenda # <<>>
  PROVE  /\ Uncovered(Tail(agenda))
         /\ Head(agenda) \in Transitions => ~Has(Tail(agenda), Telling)
         /\ state # "attaching" => ~Has(Tail(agenda), Telling)
         /\ state = "attached" => ~Has(Tail(agenda), Transitions)
         /\ state = "attaching" /\ attachingCallback # Undefined
              => ~Has(Tail(agenda), Telling)
         /\ state = "detached" => ~Has(agenda, Telling)
         /\ state # "detaching" => detachingCallback = Undefined
<1>1. \A S : Has(agenda, S) <=> Head(agenda) \in S \/ Has(Tail(agenda), S)
  BY HasHeadTail
<1>2. /\ Uncovered(Tail(agenda))
      /\ Head(agenda) \in Transitions => ~Has(Tail(agenda), Telling)
  BY UncoveredTail DEF Transiting
<1>3. Has(Tail(agenda), Transitions) => Has(agenda, Transitions)
  BY <1>1, Zenon
<1>4. Has(Tail(agenda), Telling) => Has(agenda, Telling)
  BY <1>1, Zenon
<1>5. QED
  BY <1>2, <1>3, <1>4 DEF Transiting

\* What is put on the agenda without a transition, in the same state, leaves the
\* transitions as they were.
LEMMA TransitingMoves ==
  ASSUME Transiting, NEW T, NEW work, Moved(T, work), ~Has(work, Transitions),
         UNCHANGED <<state, callbacks>>
  PROVE  Transiting'
<1>1. agenda \in Seq(T) /\ agenda # <<>> /\ work \in Seq(T) /\ Tail(agenda) \in Seq(T)
  BY HeadTailProperties DEF Moved
<1>2. agenda' = work \o Tail(agenda)
  BY DEF Moved
<1>3. /\ Uncovered(Tail(agenda))
      /\ state # "attaching" => ~Has(Tail(agenda), Telling)
      /\ state = "attached" => ~Has(Tail(agenda), Transitions)
  BY <1>1, TransitingFacts
<1>4. Uncovered(agenda')
  BY <1>1, <1>2, <1>3, UncoveredConcat
<1>5. /\ Has(agenda', Transitions) <=> Has(Tail(agenda), Transitions)
      /\ Has(agenda', Transitions) => Has(agenda, Transitions)
  BY MovedHas
<1>6. /\ Has(agenda', Telling) => Has(Tail(agenda), Telling)
      /\ Has(agenda', Telling) => Has(agenda, Telling)
  BY MovedHas, TellingFacts
<1>7. state = "attached" => ~Has(agenda', Transitions)
  BY <1>3, <1>5
<1>8. state = "detaching" /\ Has(agenda', Transitions) => detachingCallback = Undefined
  BY <1>5 DEF Transiting
<1>9. Has(agenda', Telling) => state = "attaching" /\ attachingCallback = Undefined
  BY <1>3, <1>6 DEF Transiting
<1>10. detachingCallback # Undefined => state = "detaching"
  BY DEF Transiting
<1>11. /\ state' = state /\ attachingCallback' = attachingCallback
       /\ detachingCallback' = detachingCallback
  BY DEF callbacks
<1>12. QED
  BY <1>4, <1>7, <1>8, <1>9, <1>10, <1>11
     DEF Transiting, Uncovered, Telling, Transitions, Named

\* What is due to the messages after a step: the work has it, or it was due
\* already and the item that ran was not it.
StillDue(item, work) ==
  /\ state' = "detached" /\ unsent' # <<>> =>
       \/ Has(work, FailsUnsent)
       \/ state = "detached" /\ unsent # <<>> /\ item.do \notin {"failUnsent", "send"}
  /\ state' = "detached" /\ queue' # <<>> =>
       \/ Has(work, Replays)
       \/ state = "detached" /\ queue # <<>> /\ item.do # "replay"
  /\ state' \in {"detached", "attaching"} =>
       \/ Has(work, FailsPending)
       \/ \A o \in pending' : Has(work, FailingKey(o))
       \/ /\ state \in {"detached", "attaching"} /\ item.do # "failPending"
          /\ \A o \in pending' : o \in pending /\ ~(item.do = "failKey" /\ item.op = o)

\* A step that runs the head of the agenda keeps all of Control that is not about
\* the transitions.
LEMMA DueMoves ==
  ASSUME Data, Control, NEW item, NEW rest, Takes(item, rest),
         NEW work, work \in Agendas, agenda' = work \o rest, StillDue(item, work),
         ~Has(work, Events), item.do = "senderErrorEvent" => work = <<>>
  PROVE  /\ Moved(Work, work) /\ Failing' /\ EventsAlone'
         /\ preSettled \/ ~Has(work, Loops) => Uninterrupted'
<1>1. item = Head(agenda) /\ rest = Tail(agenda) /\ UNCHANGED preSettled
  BY DEF Takes
<1>2. Moved(Work, work)
  BY <1>1 DEF Moved, Takes, Data, Shapes, Agendas
<1>3. item \in FailsUnsent => item.do \in {"failUnsent", "send"}
  BY DEF FailsUnsent, Named
<1>4. item \in Replays => item.do = "replay"
  BY DEF Replays, Named
<1>5. item \in FailsPending => item.do = "failPending"
  BY DEF FailsPending, Named
<1>6. \A o : item \in FailingKey(o) => item.do = "failKey" /\ item.op = o
  BY DEF FailingKey
<1>7. Failing'
  <2>1. state' = "detached" /\ unsent' # <<>> =>
           \/ Has(work, FailsUnsent)
           \/ state = "detached" /\ unsent # <<>> /\ Head(agenda) \notin FailsUnsent
    BY <1>1, <1>3, Zenon DEF StillDue
  <2>2. state' = "detached" /\ queue' # <<>> =>
           \/ Has(work, Replays)
           \/ state = "detached" /\ queue # <<>> /\ Head(agenda) \notin Replays
    BY <1>1, <1>4, Zenon DEF StillDue
  <2>3. state' \in {"detached", "attaching"} =>
           \/ Has(work, FailsPending)
           \/ \A o \in pending' : Has(work, FailingKey(o))
           \/ /\ state \in {"detached", "attaching"}
              /\ Head(agenda) \notin FailsPending
              /\ \A o \in pending' : o \in pending /\ Head(agenda) \notin FailingKey(o)
    BY <1>1, <1>5, <1>6, Zenon DEF StillDue
  <2>4. Failing
    BY DEF Control
  <2>5. QED
    BY <1>2, <2>1, <2>2, <2>3, <2>4, FailingMoves
<1>8. preSettled \/ ~Has(work, Loops) => Uninterrupted'
  BY <1>1, <1>2, LoopsMove DEF Control
<1>9. EventsAlone'
  BY <1>1, <1>2, EventsMove DEF Control
<1>10. QED
  BY <1>2, <1>7, <1>8, <1>9

\* A step that stays in its state and keeps the callbacks keeps Control.
LEMMA StayControl ==
  ASSUME Data, Control, NEW item, NEW rest, Takes(item, rest),
         NEW work, work \in Agendas, agenda' = work \o rest, StillDue(item, work),
         preSettled \/ ~Has(work, Loops), ~Has(work, Events), ~Has(work, Transitions),
         item.do = "senderErrorEvent" => work = <<>>, UNCHANGED <<state, callbacks>>
  PROVE  Control'
<1>1. Moved(Work, work) /\ Failing' /\ Uninterrupted' /\ EventsAlone'
  BY DueMoves
<1>2. Transiting'
  BY <1>1, TransitingMoves DEF Control
<1>3. QED
  BY <1>1, <1>2 DEF Control

\* So does one that puts quiet work on the agenda.
LEMMA QuietControl ==
  ASSUME Data, Control, NEW item, NEW rest, Takes(item, rest),
         NEW work, Quiet(work), agenda' = work \o rest, StillDue(item, work),
         item.do = "senderErrorEvent" => work = <<>>, UNCHANGED <<state, callbacks>>
  PROVE  Control'
<1>1. ~Has(work, Loops) /\ ~Has(work, Events) /\ ~Has(work, Transitions)
  BY QuietFacts
<1>2. work \in Agendas
  BY DEF Quiet
<1>3. QED
  BY <1>1, <1>2, StayControl

\* Nothing is put on the agenda, and nothing else changes.
LEMMA IgnoreControl ==
  ASSUME Data, Control, NEW item, NEW rest, Takes(item, rest), Ignore(rest),
         item.do \notin {"failUnsent", "replay", "failPending", "failKey"},
         item.do = "send" => state # "detached" \/ unsent = <<>>
  PROVE  Control'
<1>1. Quiet(<<>>) /\ agenda' = <<>> \o rest
  BY TakesFacts, QuietWork DEF Ignore
<1>2. StillDue(item, <<>>)
  BY DEF StillDue, Ignore, fsm, messages
<1>3. UNCHANGED <<state, callbacks>>
  BY DEF Ignore, fsm
<1>4. QED
  BY <1>1, <1>2, <1>3, QuietControl

\* In the states that are not being left a step owes the messages nothing.
LEMMA StayingDue ==
  ASSUME NEW item, NEW work, state \in {"attached", "detaching"}, UNCHANGED state
  PROVE  StillDue(item, work)
BY DEF StillDue

\* The detached and attaching states owe what they owed.
LEMMA KeepingDue ==
  ASSUME NEW item, NEW work, UNCHANGED <<state, queue, messages>>,
         item.do \notin {"send", "failUnsent", "replay", "failPending", "failKey"}
  PROVE  StillDue(item, work)
BY DEF StillDue, messages

\* What the transitions of the next state have to be.
LEMMA TransitingNext ==
  ASSUME Uncovered(agenda'),
         state' = "attached" /\ Has(agenda', Transitions)
           => ~Has(Tail(agenda'), Transitions),
         state' = "detaching" /\ Has(agenda', Transitions)
           => detachingCallback' = Undefined,
         Has(agenda', Telling) =>
           \/ state' = "attaching" /\ attachingCallback' = Undefined
           \/ state' = "detaching" /\ ~Has(Tail(agenda'), Telling),
         detachingCallback' # Undefined => state' = "detaching"
  PROVE  Transiting'
BY DEF Transiting, Uncovered, Telling, Transitions, Named

\* A transition takes the place of the item that runs, perhaps after the owner's
\* turn.
LEMMA LeavingAgenda ==
  ASSUME Data, Control, NEW item, NEW rest, Takes(item, rest),
         NEW quiet, Quiet(quiet), NEW op \in Attaches \cup Detaches \cup NoOperation,
         NEW err \in BOOLEAN, ~Has(rest, Telling),
         agenda' = quiet \o <<Item("toDetached", op, err)>> \o rest
  PROVE  LET work == quiet \o <<Item("toDetached", op, err)>> IN
         /\ work \in Agendas /\ agenda' = work \o rest /\ Uncovered(agenda')
         /\ ~Has(work, Loops) /\ ~Has(work, Events)
         /\ Has(agenda', Telling) => op # Undefined
<1> DEFINE w == Item("toDetached", op, err)
           work == quiet \o <<w>>
<1>1. quiet \in Seq(Work) /\ rest \in Seq(Work) /\ ops \in Seq(Methods) /\ op \in Int
  <2>1. quiet \in Seq(Work) /\ rest \in Seq(Work) /\ ops \in Seq(Methods)
    BY TakesFacts DEF Quiet, Agendas
  <2>2. QED
    BY <2>1, OpsFacts DEF NoOperation, Undefined, Silent
<1>2. w \in Work
  BY WorkItems
<1>3. /\ w \notin Loops /\ w \notin Events /\ (w \in Telling <=> op # Undefined)
  BY <1>1 DEF Loops, Events, EventNames, Telling, Named, Item
<1> HIDE DEF w
<1>4. <<w>> \in Seq(Work) /\ work \in Seq(Work)
  BY <1>1, <1>2, ConcatProperties
<1>5. /\ <<w>> \o rest \in Seq(Work) /\ <<w>> \o rest # <<>>
      /\ Tail(<<w>> \o rest) = rest
  BY <1>1, <1>2, ExtendedHeadTail
<1>6. agenda' = quiet \o (<<w>> \o rest) /\ agenda' = work \o rest
  BY <1>1, <1>4, ConcatAssociative DEF w
<1>7. ~Has(quiet, Transitions) /\ ~Has(quiet, Telling)
      /\ ~Has(quiet, Loops) /\ ~Has(quiet, Events)
  BY QuietFacts
<1>8. Uncovered(<<w>> \o rest)
  BY <1>5, UncoveredTail
<1>9. Uncovered(agenda')
  BY <1>1, <1>5, <1>6, <1>7, <1>8, UncoveredConcat
<1>10. ~Has(work, Loops) /\ ~Has(work, Events)
  BY <1>1, <1>3, <1>4, <1>7, HasConcat, HasOne, ZenonT(60)
<1>11. Has(agenda', Telling) => op # Undefined
  <2>1. Has(agenda', Telling) => Has(work, Telling) \/ Has(rest, Telling)
    <3>1. Has(work \o rest, Telling) <=> Has(work, Telling) \/ Has(rest, Telling)
      BY <1>1, <1>4, HasConcat
    <3>2. QED
      BY <1>6, <3>1, Zenon
  <2>2. Has(work, Telling) => Has(quiet, Telling) \/ w \in Telling
    BY <1>1, <1>4, HasConcat, HasOne
  <2>3. QED
    BY <1>3, <1>7, <2>1, <2>2
<1>12. QED
  BY <1>4, <1>6, <1>9, <1>10, <1>11 DEF Agendas, w

\* A transition takes the place of the item that runs.
LEMMA LeavingAtOnce ==
  ASSUME Data, Control, NEW item, NEW rest, Takes(item, rest),
         NEW op \in Attaches \cup Detaches \cup NoOperation,
         NEW err \in BOOLEAN, ~Has(rest, Telling),
         agenda' = <<Item("toDetached", op, err)>> \o rest
  PROVE  LET work == <<Item("toDetached", op, err)>> IN
         /\ work \in Agendas /\ agenda' = work \o rest /\ Uncovered(agenda')
         /\ ~Has(work, Loops) /\ ~Has(work, Events)
         /\ Has(agenda', Telling) => op # Undefined
         /\ Tail(agenda') = rest
<1> DEFINE w == Item("toDetached", op, err)
<1>1. rest \in Seq(Work) /\ ops \in Seq(Methods) /\ op \in Int
  <2>1. rest \in Seq(Work) /\ ops \in Seq(Methods)
    BY TakesFacts DEF Agendas
  <2>2. QED
    BY <2>1, OpsFacts DEF NoOperation, Undefined, Silent
<1>2. w \in Work
  BY WorkItems
<1>3. /\ w \notin Loops /\ w \notin Events /\ (w \in Telling <=> op # Undefined)
  BY <1>1 DEF Loops, Events, EventNames, Telling, Named, Item
<1>4. agenda' = <<w>> \o rest
  OBVIOUS
<1> HIDE DEF w
<1>5. /\ <<w>> \o rest \in Seq(Work) /\ <<w>> \o rest # <<>>
      /\ Tail(<<w>> \o rest) = rest /\ <<w>> \in Seq(Work)
  BY <1>1, <1>2, ExtendedHeadTail
<1>6. ~Has(<<w>>, Loops) /\ ~Has(<<w>>, Events)
  BY <1>3, HasOne
<1>7. Has(<<w>> \o rest, Telling) => op # Undefined
  BY <1>1, <1>3, <1>5, HasConcat, HasOne, ZenonT(60)
<1>8. Uncovered(<<w>> \o rest)
  BY <1>5, UncoveredTail
<1>9. QED
  BY <1>4, <1>5, <1>6, <1>7, <1>8, Zenon DEF Agendas, w

\* Attaching anew.
LEMMA AttachControl ==
  ASSUME Data, Control, NEW item, NEW rest, Takes(item, rest), state = "detached",
         item.do \in {"attach", "send"}, NEW op, Attach(op, rest)
  PROVE  Control'
<1>1. /\ <<>> \in Agendas /\ agenda' = <<>> \o rest /\ rest = Tail(agenda)
      /\ agenda \in Seq(Work) /\ agenda # <<>> /\ agenda' = rest
  BY TakesFacts DEF Agendas, Attach, Takes, Data, Shapes
<1>2. StillDue(item, <<>>)
  BY DEF StillDue, Attach, messages
<1>3. ~Has(<<>>, Loops) /\ ~Has(<<>>, Events)
  BY HasOne
<1>4. Moved(Work, <<>>) /\ Failing' /\ EventsAlone' /\ Uninterrupted'
  BY <1>1, <1>2, <1>3, DueMoves
<1>5. Uncovered(agenda') /\ ~Has(agenda', Telling) /\ detachingCallback' = Undefined
  <2>1. Transiting
    BY DEF Control
  <2>2. /\ Uncovered(Tail(agenda)) /\ ~Has(Tail(agenda), Telling)
        /\ detachingCallback = Undefined
    BY <1>1, <2>1, TransitingFacts
  <2>3. QED
    BY <1>1, <2>2 DEF Attach
<1>6. state' = "attaching"
  BY DEF Attach
<1>7. Transiting'
  BY <1>5, <1>6, TransitingNext
<1>8. QED
  BY <1>4, <1>7 DEF Control

\* The handlers of the detached state.
LEMMA DetachedControl ==
  ASSUME Data, Control, NEW item, NEW rest, Takes(item, rest), item.do \in Inputs,
         HandleDetached(item, rest)
  PROVE  Control'
<1>1. state = "detached"
  BY DEF HandleDetached
<1>2. CASE item.do = "attach" /\ Attach(item.op, rest)
  BY <1>1, <1>2, AttachControl
<1>3. CASE item.do = "send" /\ Attach(Silent, rest)
  BY <1>1, <1>3, AttachControl
<1>4. CASE /\ item.do = "detach"
           /\ Answer({item.op}) /\ agenda' = Owner \o rest
           /\ UNCHANGED <<fsm, messages, callbacks, closing, wire, crashed>>
  <2>1. UNCHANGED <<state, callbacks>> /\ UNCHANGED <<state, queue, messages>>
    BY <1>4 DEF fsm
  <2>2. StillDue(item, Owner)
    BY <1>4, <2>1, KeepingDue
  <2>3. QED
    BY <1>4, <2>1, <2>2, QuietWork, QuietControl
<1>5. CASE /\ item.do \notin {"attach", "detach"}
           /\ item.do = "send" => unsent = <<>>
           /\ Ignore(rest)
  BY <1>5, IgnoreControl DEF Inputs, Methods
<1>6. QED
  BY <1>2, <1>3, <1>4, <1>5 DEF HandleDetached

\* Leaving attaching by a call: the callback of the attach is told first, and the
\* transition carries the callback of a detach.
LEMMA DetachAttachingControl ==
  ASSUME Data, Control, NEW item, NEW rest, Takes(item, rest), state = "attaching",
         item.do \in {"detach", "forceDetach"},
         NEW op \in Detaches \cup {Undefined}, NEW err \in BOOLEAN,
         DetachAttaching(op, err, rest), ~crashed'
  PROVE  Control'
<1> DEFINE quiet == Called(attachingCallback)
           work == quiet \o <<Item("toDetached", op, err)>>
<1>1. /\ attachingCallback # Undefined /\ attachingCallback' = Undefined
      /\ agenda' = quiet \o <<Item("toDetached", op, err)>> \o rest
      /\ UNCHANGED <<state, queue, messages, detachingCallback>>
  BY DEF DetachAttaching, fsm
<1>2. Quiet(quiet)
  BY QuietWork
<1>3. /\ agenda \in Seq(Work) /\ agenda # <<>> /\ rest = Tail(agenda) /\ Transiting
  BY DEF Takes, Data, Shapes, Agendas, Control
<1>4. ~Has(rest, Telling) /\ detachingCallback = Undefined
  BY <1>1, <1>3, TransitingFacts
<1> HIDE DEF quiet
<1>5. /\ work \in Agendas /\ agenda' = work \o rest /\ Uncovered(agenda')
      /\ ~Has(work, Loops) /\ ~Has(work, Events)
  BY <1>1, <1>2, <1>4, LeavingAgenda DEF NoOperation
<1> HIDE DEF work
<1>6. StillDue(item, work)
  BY <1>1, KeepingDue
<1>7. Failing' /\ EventsAlone' /\ Uninterrupted'
  BY <1>5, <1>6, DueMoves
<1>8. state' = "attaching" /\ detachingCallback' = Undefined
  BY <1>1, <1>4
<1>9. Transiting'
  BY <1>1, <1>5, <1>8, TransitingNext
<1>10. QED
  BY <1>7, <1>9 DEF Control

\* The peer closes a link that waits for it: nothing else is left to do.
LEMMA ClosedControl ==
  ASSUME Data, Control, NEW item, NEW rest, Takes(item, rest),
         item.do = "senderCloseEvent", state \in {"attaching", "detaching"},
         NEW op \in Attaches \cup Detaches \cup NoOperation,
         agenda' = <<Item("toDetached", op, indicatedError)>> \o rest,
         UNCHANGED <<fsm, messages>>, detachingCallback' = Undefined,
         state = "attaching" => attachingCallback' = Undefined
  PROVE  Control'
<1> DEFINE work == <<Item("toDetached", op, indicatedError)>>
<1>1. /\ agenda \in Seq(Work) /\ agenda # <<>> /\ rest = Tail(agenda) /\ Transiting
      /\ item = Head(agenda) /\ EventsAlone /\ ops \in Seq(Methods)
      /\ item \in Work /\ indicatedError \in BOOLEAN
  BY TakesFacts DEF Takes, Data, Shapes, Agendas, Control, TypeOK
<1>2. item \in Named({"senderOpenEvent", "senderCloseEvent"})
  BY <1>1, WorkFacts DEF Named, Item
<1>3. rest = <<>>
  BY <1>1, <1>2, EventLast
<1>4. ~Has(rest, Telling)
  BY <1>3, HasOne
<1>5. /\ work \in Agendas /\ agenda' = work \o rest /\ Uncovered(agenda')
      /\ ~Has(work, Loops) /\ ~Has(work, Events) /\ Tail(agenda') = rest
  BY <1>1, <1>4, LeavingAtOnce
<1> HIDE DEF work
<1>6. UNCHANGED <<state, queue, messages>> /\ item.do = "senderCloseEvent"
  BY DEF fsm
<1>7. StillDue(item, work)
  BY <1>6, KeepingDue
<1>8. Failing' /\ EventsAlone' /\ Uninterrupted'
  BY <1>5, <1>6, <1>7, DueMoves
<1>9. state' = state
  BY DEF fsm
<1>10. Transiting'
  BY <1>4, <1>5, <1>9, TransitingNext
<1>11. QED
  BY <1>8, <1>10 DEF Control

\* The peer opens the link: nothing else is left to do.
LEMMA OpenedControl ==
  ASSUME Data, Control, NEW item, NEW rest, Takes(item, rest), state = "attaching",
         item.do = "senderOpenEvent", state' = "attached",
         agenda' = Called(attachingCallback) \o <<Step("sendUnsent")>> \o rest,
         UNCHANGED <<queue, messages, detachingCallback>>
  PROVE  Control'
<1> DEFINE work == Called(attachingCallback) \o <<Step("sendUnsent")>>
<1>1. /\ agenda \in Seq(Work) /\ agenda # <<>> /\ rest = Tail(agenda) /\ Transiting
      /\ item = Head(agenda) /\ EventsAlone /\ ops \in Seq(Methods)
      /\ item \in Work
  BY TakesFacts DEF Takes, Data, Shapes, Agendas, Control, TypeOK
<1>2. item \in Named({"senderOpenEvent", "senderCloseEvent"})
  BY <1>1, WorkFacts DEF Named, Item
<1>3. rest = <<>>
  BY <1>1, <1>2, EventLast
<1>4. Quiet(work) /\ agenda' = work \o rest
  BY QuietWork DEF QuietNames, Plain, EventNames
<1> HIDE DEF work
<1>5. /\ work \in Seq(Work) /\ work \in Agendas
      /\ ~Has(work, Loops) /\ ~Has(work, Events) /\ ~Has(work, Transitions)
  BY <1>4, QuietFacts DEF Quiet, Agendas
<1>6. agenda' = work
  BY <1>3, <1>4, <1>5, ConcatEmptySeq
<1>7. StillDue(item, work)
  BY DEF StillDue
<1>8. Failing' /\ EventsAlone' /\ Uninterrupted'
  BY <1>4, <1>5, <1>7, DueMoves
<1>9. ~Has(agenda', Transitions) /\ ~Has(agenda', Telling)
  BY <1>5, <1>6, TellingFacts
<1>10. Uncovered(agenda')
  BY <1>9 DEF Uncovered, Has
<1>11. detachingCallback' = Undefined
  BY <1>1, TransitingFacts
<1>12. Transiting'
  BY <1>9, <1>10, <1>11, TransitingNext
<1>13. QED
  BY <1>8, <1>12 DEF Control

\* The handlers of the attaching state.
LEMMA AttachingControl ==
  ASSUME Data, Control, NEW item, NEW rest, Takes(item, rest),
         HandleAttaching(item, rest), ~crashed'
  PROVE  Control'
<1>1. /\ state = "attaching" /\ ops \in Seq(Methods) /\ item \in Work
      /\ rest = <<>> \o rest
  BY TakesFacts DEF HandleAttaching
<1>2. /\ indicatedError \in BOOLEAN /\ item.err \in BOOLEAN
      /\ item.do = "detach" => item.op \in Detaches
  BY <1>1, WorkFacts DEF Data, TypeOK
<1>3. CASE /\ item.do = "senderOpenEvent"
           /\ state' = "attached"
           /\ attachingCallback' = Undefined
           /\ Answer({attachingCallback})
           /\ agenda' = Called(attachingCallback) \o <<Step("sendUnsent")>> \o rest
           /\ UNCHANGED <<queue, messages, detachingCallback, closing, wire, crashed>>
  BY <1>1, <1>3, OpenedControl
<1>4. CASE /\ item.do = "senderErrorEvent"
           /\ indicatedError' = TRUE /\ agenda' = rest
           /\ UNCHANGED <<fsm, messages, callbacks, senderCloseOccurred, wire,
                          answers, crashed>>
  <2>1. agenda' = <<>> \o rest
    BY <1>1, <1>4
  <2>2. UNCHANGED <<state, callbacks>> /\ UNCHANGED <<state, queue, messages>>
    BY <1>4 DEF fsm
  <2>3. StillDue(item, <<>>)
    BY <1>4, <2>2, KeepingDue
  <2>4. QED
    BY <2>1, <2>2, <2>3, QuietWork, QuietControl
<1>5. CASE /\ item.do = "senderCloseEvent"
           /\ links' = Unheard("open")
           /\ attachingCallback' = Undefined
           /\ indicatedError' = FALSE /\ senderCloseOccurred' = TRUE
           /\ agenda' = <<Item("toDetached", attachingCallback, indicatedError)>> \o rest
           /\ UNCHANGED <<fsm, messages, detachingCallback, sender, answers, crashed>>
  <2>1. attachingCallback \in Attaches \cup Detaches \cup NoOperation
    BY DEF Data, Shapes
  <2>2. detachingCallback' = Undefined
    BY <1>1, <1>5 DEF Control, Transiting
  <2>3. UNCHANGED <<fsm, messages>>
    BY <1>5
  <2>4. QED
    BY <1>1, <1>5, <2>1, <2>2, <2>3, ClosedControl
<1>6. CASE item.do = "detach" /\ DetachAttaching(item.op, TRUE, rest)
  BY <1>1, <1>2, <1>6, DetachAttachingControl
<1>7. CASE /\ item.do = "forceDetach"
           /\ DetachAttaching(Undefined, item.err \/ indicatedError, rest)
  <2>1. (item.err \/ indicatedError) \in BOOLEAN
    BY <1>2
  <2>2. QED
    BY <1>1, <1>7, <2>1, DetachAttachingControl
<1>8. CASE /\ item.do \in {"attach", "send", "accepted", "rejected"}
           /\ Ignore(rest)
  BY <1>1, <1>8, IgnoreControl
<1>9. QED
  BY <1>3, <1>4, <1>5, <1>6, <1>7, <1>8 DEF HandleAttaching

\* The detach of an attached link: no transition waits.
LEMMA DetachingControl ==
  ASSUME Data, Control, NEW item, NEW rest, Takes(item, rest), state = "attached",
         item.do = "detach", Detaching(item.op, item.err, rest)
  PROVE  Control'
<1>1. /\ agenda \in Seq(Work) /\ agenda # <<>> /\ rest = Tail(agenda) /\ Transiting
      /\ ops \in Seq(Methods) /\ item \in Work /\ rest = <<>> \o rest
      /\ rest \in Seq(Work)
  BY TakesFacts DEF Takes, Data, Shapes, Agendas, Control, TypeOK
<1>2. item.op \in Detaches /\ item.err \in BOOLEAN
  BY <1>1, WorkFacts
<1>3. /\ Uncovered(rest) /\ ~Has(rest, Telling) /\ ~Has(rest, Transitions)
      /\ detachingCallback = Undefined
  BY <1>1, TransitingFacts
<1>4. state' = "detaching" /\ UNCHANGED messages
  BY DEF Detaching
<1>5. \A work : StillDue(item, work)
  BY <1>4 DEF StillDue
<1>6. CASE senderCloseOccurred
  <2> DEFINE work == <<Item("toDetached", item.op, item.err)>>
  <2>1. agenda' = <<Item("toDetached", item.op, item.err)>> \o rest
        /\ detachingCallback' = Undefined
    BY <1>6 DEF Detaching
  <2>2. /\ work \in Agendas /\ agenda' = work \o rest /\ Uncovered(agenda')
        /\ ~Has(work, Loops) /\ ~Has(work, Events) /\ Tail(agenda') = rest
    BY <1>2, <1>3, <2>1, LeavingAtOnce
  <2> HIDE DEF work
  <2>3. Failing' /\ EventsAlone' /\ Uninterrupted'
    BY <1>5, <2>2, DueMoves
  <2>4. Transiting'
    BY <1>3, <1>4, <2>1, <2>2, TransitingNext
  <2>5. QED
    BY <2>3, <2>4 DEF Control
<1>7. CASE ~senderCloseOccurred
  <2>1. agenda' = rest /\ agenda' = <<>> \o rest
    BY <1>1, <1>7 DEF Detaching
  <2>2. <<>> \in Agendas
    BY DEF Agendas
  <2>3. ~Has(<<>>, Loops) /\ ~Has(<<>>, Events)
    BY HasOne
  <2>4. Failing' /\ EventsAlone' /\ Uninterrupted'
    BY <1>5, <2>1, <2>2, <2>3, DueMoves
  <2>5. Transiting'
    BY <1>3, <1>4, <2>1, TransitingNext
  <2>6. QED
    BY <2>4, <2>5 DEF Control
<1>8. QED
  BY <1>6, <1>7

\* A forced detach: the transition carries no callback, and no other waits that
\* does.
LEMMA ForcedControl ==
  ASSUME Data, Control, NEW item, NEW rest, Takes(item, rest),
         item.do = "forceDetach",
         \/ state = "attached" /\ UNCHANGED detachingCallback
         \/ state = "detaching" /\ detachingCallback' = Undefined,
         NEW err \in BOOLEAN, NEW called, Quiet(called),
         state = "attached" => called = <<>>,
         agenda' = called \o <<Item("toDetached", Undefined, err)>> \o rest,
         UNCHANGED state
  PROVE  Control'
<1> DEFINE work == called \o <<Item("toDetached", Undefined, err)>>
<1>1. /\ agenda \in Seq(Work) /\ agenda # <<>> /\ rest = Tail(agenda) /\ Transiting
  BY DEF Takes, Data, Shapes, Agendas, Control
<1>2. /\ ~Has(rest, Telling) /\ (state = "attached" => ~Has(rest, Transitions))
      /\ detachingCallback' = Undefined
  BY <1>1, TransitingFacts
<1>3. /\ work \in Agendas /\ agenda' = work \o rest /\ Uncovered(agenda')
      /\ ~Has(work, Loops) /\ ~Has(work, Events) /\ ~Has(agenda', Telling)
  BY <1>2, LeavingAgenda DEF NoOperation
<1>4. state = "attached" => Tail(agenda') = rest
  <2> SUFFICES ASSUME state = "attached"
               PROVE  Tail(agenda') = rest
    OBVIOUS
  <2> DEFINE w == Item("toDetached", Undefined, err)
  <2>1. called = <<>>
    OBVIOUS
  <2>2. w \in Work /\ rest \in Seq(Work)
    <3>1. rest \in Seq(Work)
      BY TakesFacts DEF Agendas
    <3>2. QED
      BY <3>1, WorkItems DEF NoOperation
  <2>3. agenda' = <<>> \o <<w>> \o rest
    BY <2>1
  <2> HIDE DEF w
  <2>4. <<>> \o <<w>> = <<w>>
    BY <2>2, ConcatEmptySeq
  <2>5. Tail(<<w>> \o rest) = rest
    BY <2>2, ExtendedHeadTail
  <2>6. QED
    BY <2>3, <2>4, <2>5, Zenon
<1> HIDE DEF work
<1>5. StillDue(item, work)
  BY StayingDue
<1>6. Failing' /\ EventsAlone' /\ Uninterrupted'
  BY <1>3, <1>5, DueMoves
<1>7. Transiting'
  BY <1>2, <1>3, <1>4, TransitingNext
<1>8. QED
  BY <1>6, <1>7 DEF Control

\* The sending starts: no other loop is running.
LEMMA SendingControl ==
  ASSUME Data, Control, NEW item, NEW rest, Takes(item, rest), state = "attached",
         item.do = "send", agenda' = <<Step("transmit")>> \o rest,
         UNCHANGED <<fsm, messages, callbacks>>
  PROVE  Control'
<1> DEFINE w == Step("transmit")
<1>1. /\ agenda \in Seq(Work) /\ agenda # <<>> /\ rest = Tail(agenda)
      /\ rest \in Seq(Work) /\ UNCHANGED preSettled
  BY TakesFacts DEF Takes, Data, Shapes, Agendas
<1>2. /\ w \in Work /\ w \in Loops /\ w \notin Events /\ w \notin Transitions
  <2>1. "transmit" \in Plain
    BY DEF Plain
  <2>2. w \in Work
    BY <2>1, StepItems
  <2>3. QED
    BY <2>2 DEF Loops, Events, EventNames, Transitions, Named, Step, Item, Undefined
<1> HIDE DEF w
<1>3. <<w>> \in Agendas /\ ~Has(<<w>>, Events) /\ ~Has(<<w>>, Transitions)
  BY <1>2, HasOne DEF Agendas
<1>4. agenda' = <<w>> \o rest /\ Tail(<<w>> \o rest) = rest
  BY <1>1, <1>2, ExtendedHeadTail DEF w
<1>5. UNCHANGED state /\ UNCHANGED <<state, callbacks>>
  BY DEF fsm
<1>6. StillDue(item, <<w>>)
  BY <1>5, StayingDue
<1>7. Moved(Work, <<w>>) /\ Failing' /\ EventsAlone'
  BY <1>3, <1>4, <1>6, DueMoves
<1>8. Transiting'
  BY <1>3, <1>5, <1>7, TransitingMoves DEF Control
<1>9. preSettled \/ ~Has(Tail(agenda'), Loops)
  <2>1. Has(rest, Loops) => Has(agenda, Loops)
    BY <1>1, TailHas
  <2>2. preSettled \/ ~Has(rest, Loops)
    BY <1>1, <2>1 DEF Control, Uninterrupted
  <2>3. QED
    BY <1>4, <2>2, Zenon
<1>10. Uninterrupted'
  BY <1>1, <1>5, <1>9 DEF Uninterrupted, Loops, Named
<1>11. QED
  BY <1>7, <1>8, <1>10 DEF Control

\* The handlers of the attached state.
LEMMA AttachedControl ==
  ASSUME Data, Control, NEW item, NEW rest, Takes(item, rest),
         HandleAttached(item, rest)
  PROVE  Control'
<1>1. /\ state = "attached" /\ ops \in Seq(Methods) /\ item \in Work
      /\ rest = <<>> \o rest /\ rest \in Seq(Work)
  BY TakesFacts DEF HandleAttached, Agendas
<1>2. item.err \in BOOLEAN
  BY <1>1, WorkFacts
<1>3. CASE /\ item.do = "senderErrorEvent"
           /\ indicatedError' = TRUE /\ agenda' = rest
           /\ UNCHANGED <<fsm, messages, callbacks, senderCloseOccurred, wire,
                          answers, crashed>>
  <2>1. agenda' = <<>> \o rest
    BY <1>1, <1>3
  <2>2. UNCHANGED <<state, callbacks>> /\ UNCHANGED state
    BY <1>3 DEF fsm
  <2>3. StillDue(item, <<>>)
    BY <1>1, <2>2, StayingDue
  <2>4. QED
    BY <2>1, <2>2, <2>3, QuietWork, QuietControl
<1>4. CASE \/ /\ item.do = "senderCloseEvent"
              /\ indicatedError' = FALSE /\ senderCloseOccurred' = TRUE
              /\ agenda' = Owner \o rest
              /\ UNCHANGED <<fsm, messages, callbacks, wire, answers, crashed>>
           \/ /\ item.do = "attach"
              /\ Answer({item.op}) /\ agenda' = Owner \o rest
              /\ UNCHANGED <<fsm, messages, callbacks, closing, wire, crashed>>
  <2>1. /\ agenda' = Owner \o rest /\ item.do # "senderErrorEvent"
        /\ UNCHANGED <<state, callbacks>> /\ UNCHANGED state
    BY <1>4 DEF fsm
  <2>2. StillDue(item, Owner)
    BY <1>1, <2>1, StayingDue
  <2>3. QED
    BY <2>1, <2>2, QuietWork, QuietControl
<1>5. CASE item.do \in {"accepted", "rejected"} /\ Settle(item.op, rest)
  <2> DEFINE work == IF item.op \in pending THEN Owner ELSE <<>>
  <2>1. Quiet(work) /\ agenda' = work \o rest
    BY <1>5, QuietWork DEF Settle
  <2> HIDE DEF work
  <2>2. UNCHANGED <<state, callbacks>> /\ UNCHANGED state
    BY <1>5 DEF fsm, Settle
  <2>3. StillDue(item, work)
    BY <1>1, <2>2, StayingDue
  <2>4. QED
    BY <1>5, <2>1, <2>2, <2>3, QuietControl
<1>6. CASE item.do = "detach" /\ Detaching(item.op, item.err, rest)
  BY <1>1, <1>6, DetachingControl
<1>7. CASE /\ item.do = "forceDetach"
           /\ links' = Unheard("removed")
           /\ agenda' = <<Item("toDetached", Undefined, item.err)>> \o rest
           /\ UNCHANGED <<fsm, messages, callbacks, closing, sender, answers, crashed>>
  <2>1. UNCHANGED detachingCallback /\ UNCHANGED state
    BY <1>7 DEF fsm, callbacks
  <2>2. agenda' = <<>> \o <<Item("toDetached", Undefined, item.err)>> \o rest
    <3>1. Item("toDetached", Undefined, item.err) \in Work
      BY <1>2, WorkItems DEF NoOperation
    <3>2. <<Item("toDetached", Undefined, item.err)>> \in Seq(Work)
      BY <3>1
    <3>3. <<>> \o <<Item("toDetached", Undefined, item.err)>>
            = <<Item("toDetached", Undefined, item.err)>>
      BY <3>2, ConcatEmptySeq
    <3>4. QED
      BY <1>7, <3>3, Zenon
  <2>3. PICK called : called = <<>>
    OBVIOUS
  <2>4. Quiet(called)
    BY <2>3, QuietWork
  <2>5. agenda' = called \o <<Item("toDetached", Undefined, item.err)>> \o rest
    BY <2>2, <2>3, Zenon
  <2>6. QED
    BY <1>1, <1>2, <1>7, <2>1, <2>3, <2>4, <2>5, ForcedControl
<1>8. CASE /\ item.do = "send"
           /\ agenda' = <<Step("transmit")>> \o rest
           /\ UNCHANGED <<fsm, messages, callbacks, closing, wire, answers, crashed>>
  BY <1>1, <1>8, SendingControl
<1>9. QED
  BY <1>3, <1>4, <1>5, <1>6, <1>7, <1>8 DEF HandleAttached

\* The handlers of the detaching state.
LEMMA DetachingStateControl ==
  ASSUME Data, Control, NEW item, NEW rest, Takes(item, rest),
         HandleDetaching(item, rest)
  PROVE  Control'
<1>1. /\ state = "detaching" /\ ops \in Seq(Methods) /\ item \in Work
      /\ rest = <<>> \o rest
  BY TakesFacts DEF HandleDetaching
<1>2. item.err \in BOOLEAN
  BY <1>1, WorkFacts
<1>3. CASE \/ /\ item.do = "senderErrorEvent"
              /\ indicatedError' = TRUE /\ agenda' = rest
              /\ UNCHANGED <<fsm, messages, callbacks, senderCloseOccurred, wire,
                             answers, crashed>>
           \/ /\ item.do \in {"attach", "send", "rejected"}
              /\ queue' = Append(queue, item) /\ agenda' = rest
              /\ UNCHANGED <<state, messages, callbacks, closing, wire, answers,
                             crashed>>
  <2>1. agenda' = <<>> \o rest
    BY <1>1, <1>3
  <2>2. UNCHANGED <<state, callbacks>> /\ UNCHANGED state
    BY <1>3 DEF fsm
  <2>3. StillDue(item, <<>>)
    BY <1>1, <2>2, StayingDue
  <2>4. QED
    BY <2>1, <2>2, <2>3, QuietWork, QuietControl
<1>4. CASE /\ item.do = "senderCloseEvent"
           /\ links' = Unheard("closed")
           /\ detachingCallback' = Undefined
           /\ indicatedError' = FALSE /\ senderCloseOccurred' = TRUE
           /\ agenda' = <<Item("toDetached", detachingCallback, indicatedError)>> \o rest
           /\ UNCHANGED <<fsm, messages, attachingCallback, sender, answers, crashed>>
  <2>1. detachingCallback \in Attaches \cup Detaches \cup NoOperation
    BY DEF Data, Shapes, NoOperation
  <2>2. UNCHANGED <<fsm, messages>>
    BY <1>4
  <2>3. QED
    BY <1>1, <1>4, <2>1, <2>2, ClosedControl
<1>5. CASE item.do = "accepted" /\ Settle(item.op, rest)
  <2> DEFINE work == IF item.op \in pending THEN Owner ELSE <<>>
  <2>1. Quiet(work) /\ agenda' = work \o rest
    BY <1>5, QuietWork DEF Settle
  <2> HIDE DEF work
  <2>2. UNCHANGED <<state, callbacks>> /\ UNCHANGED state
    BY <1>5 DEF fsm, Settle
  <2>3. StillDue(item, work)
    BY <1>1, <2>2, StayingDue
  <2>4. QED
    BY <1>5, <2>1, <2>2, <2>3, QuietControl
<1>6. CASE /\ item.do = "detach"
           /\ Answer({item.op}) /\ agenda' = Owner \o rest
           /\ UNCHANGED <<fsm, messages, callbacks, closing, wire, crashed>>
  <2>1. UNCHANGED <<state, callbacks>> /\ UNCHANGED state
    BY <1>6 DEF fsm
  <2>2. StillDue(item, Owner)
    BY <1>1, <2>1, StayingDue
  <2>3. QED
    BY <1>6, <2>1, <2>2, QuietWork, QuietControl
<1>7. CASE item.do = "forceDetach" /\ ForceDetaching(item.err, rest)
  <2>1. PICK called : called = Called(detachingCallback)
    OBVIOUS
  <2>2. Quiet(called)
    BY <2>1, QuietWork
  <2>3. /\ agenda' = called \o <<Item("toDetached", Undefined, item.err)>> \o rest
        /\ detachingCallback' = Undefined /\ UNCHANGED state
    BY <1>7, <2>1 DEF ForceDetaching, fsm
  <2>4. state # "attached"
    BY <1>1
  <2>5. QED
    BY <1>1, <1>2, <1>7, <2>2, <2>3, <2>4, ForcedControl
<1>8. QED
  BY <1>3, <1>4, <1>5, <1>6, <1>7 DEF HandleDetaching

\* Detached: all that is due to the messages is put on the agenda, and no other
\* transition waits that carries a callback.
LEMMA ToDetachedControl ==
  ASSUME Data, Control, NEW item, NEW rest, Takes(item, rest), item.do = "toDetached",
         ToDetached(item.op, item.err, rest)
  PROVE  Control'
<1>1. CASE state = "detached"
  <2>1. Ignore(rest)
    BY <1>1 DEF ToDetached
  <2>2. QED
    BY <1>1, <2>1, IgnoreControl
<1>2. CASE state # "detached"
  <2> DEFINE work == DetachedWork(item.op, item.err)
  <2>1. /\ agenda \in Seq(Work) /\ agenda # <<>> /\ rest = Tail(agenda)
        /\ item = Head(agenda) /\ item \in Work /\ rest \in Seq(Work)
        /\ ops \in Seq(Methods) /\ Transiting
    BY TakesFacts DEF Takes, Data, Shapes, Agendas, Control
  <2>2. item.op \in Attaches \cup Detaches \cup NoOperation /\ item.err \in BOOLEAN
    BY <2>1, WorkFacts
  <2>3. /\ work \in Agendas /\ ~Has(work, Loops) /\ ~Has(work, Events)
        /\ ~Has(work, Transitions) /\ ~Has(work, Telling)
        /\ Has(work, FailsUnsent) /\ Has(work, FailsPending) /\ Has(work, Replays)
    BY <2>1, <2>2, DetachedWorkFacts
  <2>4. agenda' = work \o rest /\ state' = "detached" /\ UNCHANGED callbacks
    BY <1>2 DEF ToDetached
  <2> HIDE DEF work
  <2>5. StillDue(item, work)
    BY <2>3, <2>4 DEF StillDue
  <2>6. Moved(Work, work) /\ Failing' /\ EventsAlone' /\ Uninterrupted'
    BY <2>3, <2>4, <2>5, DueMoves
  <2>7. item \in Transitions
    BY <2>1, WorkFacts DEF Transitions, Named, Item
  <2>8. ~Has(rest, Telling) /\ Uncovered(rest)
        /\ (state # "detaching" => detachingCallback = Undefined)
    BY <2>1, <2>7, TransitingFacts
  <2>9. ~Has(agenda', Telling)
    BY <2>1, <2>3, <2>6, <2>8, MovedHas
  <2>10. Uncovered(agenda')
    <3>1. work \in Seq(Work)
      BY <2>3 DEF Agendas
    <3>2. Uncovered(work \o rest)
      BY <2>1, <2>3, <2>8, <3>1, UncoveredConcat
    <3>3. QED
      BY <2>4, <3>2, Zenon
  <2>11. detachingCallback' = Undefined
    <3>1. Has(agenda, Transitions)
      BY <2>1, <2>7, HasHeadTail
    <3>2. detachingCallback = Undefined
      BY <2>8, <3>1 DEF Control, Transiting
    <3>3. QED
      BY <2>4, <3>2 DEF callbacks
  <2>12. Transiting'
    BY <2>4, <2>9, <2>10, <2>11, TransitingNext
  <2>13. QED
    BY <2>6, <2>12 DEF Control
<1>3. QED
  BY <1>1, <1>2

\* One message after the other is failed: the rest is still due.
LEMMA FailUnsentControl ==
  ASSUME Data, Control, NEW item, NEW rest, Takes(item, rest), item.do = "failUnsent",
         FailUnsent(rest)
  PROVE  Control'
<1>1. CASE unsent = <<>>
  <2>1. Quiet(<<>>) /\ agenda' = <<>> \o rest
    BY <1>1, TakesFacts, QuietWork DEF Ignore, FailUnsent
  <2>2. StillDue(item, <<>>) /\ UNCHANGED <<state, callbacks>>
    BY <1>1 DEF StillDue, Ignore, fsm, messages, FailUnsent
  <2>3. QED
    BY <2>1, <2>2, QuietControl
<1>2. CASE unsent # <<>>
  <2> DEFINE work == Owner \o <<Step("failUnsent")>>
  <2>1. Quiet(work) /\ Has(work, FailsUnsent)
    <3>1. Quiet(work) /\ Quiet(Owner) /\ Quiet(<<Step("failUnsent")>>)
      BY QuietWork DEF QuietNames, Plain, EventNames
    <3>2. Owner \in Seq(Work) /\ <<Step("failUnsent")>> \in Seq(Work)
      BY <3>1 DEF Quiet, Agendas
    <3>3. Step("failUnsent") \in FailsUnsent
      BY DEF FailsUnsent, Named, Step, Item, Undefined
    <3>4. Has(<<Step("failUnsent")>>, FailsUnsent)
      BY <3>3, HasOne
    <3>5. Has(Owner \o <<Step("failUnsent")>>, FailsUnsent)
      BY <3>2, <3>4, HasConcat
    <3>6. QED
      BY <3>1, <3>5
  <2>2. agenda' = work \o rest /\ item.do # "senderErrorEvent"
    BY <1>2 DEF FailUnsent
  <2> HIDE DEF work
  <2>3. StillDue(item, work) /\ UNCHANGED <<state, callbacks>>
    BY <1>2, <2>1 DEF StillDue, fsm, FailUnsent
  <2>4. QED
    BY <2>1, <2>2, <2>3, QuietControl
<1>3. QED
  BY <1>1, <1>2

\* The keys of the dictionary are read: each message that is pending has an item
\* of its own.
LEMMA FailPendingControl ==
  ASSUME Data, Control, NEW item, NEW rest, Takes(item, rest), item.do = "failPending",
         FailPending(rest)
  PROVE  Control'
<1>1. PICK keys \in [1..Cardinality(pending) -> pending] :
        /\ \A i, j \in DOMAIN keys : i < j => keys[i] < keys[j]
        /\ agenda' = [i \in DOMAIN keys |-> Item("failKey", keys[i], TRUE)] \o rest
  BY DEF FailPending
<1> DEFINE work == [i \in DOMAIN keys |-> Item("failKey", keys[i], TRUE)]
<1>2. /\ Quiet(work) /\ agenda' = work \o rest
      /\ \A o \in pending : Has(work, FailingKey(o))
  BY <1>1, FailPendingWork
<1> HIDE DEF work
<1>3. UNCHANGED <<state, callbacks>> /\ UNCHANGED <<state, queue, messages>>
  BY DEF FailPending, fsm
<1>4. StillDue(item, work)
  BY <1>2, <1>3 DEF StillDue, messages
<1>5. QED
  BY <1>2, <1>3, <1>4, QuietControl

\* One message that was pending is failed.
LEMMA FailKeyControl ==
  ASSUME Data, Control, NEW item, NEW rest, Takes(item, rest), item.do = "failKey",
         FailKey(item.op, rest)
  PROVE  Control'
<1>1. UNCHANGED <<state, callbacks>> /\ StillDue(item, Owner)
  BY DEF FailKey, fsm, StillDue
<1>2. Quiet(Owner) /\ agenda' = Owner \o rest
  BY QuietWork DEF FailKey
<1>3. QED
  BY <1>1, <1>2, QuietControl

\* The callback of the transition is called; nothing else changes.
LEMMA TellControl ==
  ASSUME Data, Control, NEW item, NEW rest, Takes(item, rest), item.do = "tell",
         Tell(item.op, item.err, rest)
  PROVE  Control'
<1> DEFINE work == IF item.op = Undefined /\ item.err THEN Owner ELSE Called(item.op)
<1>1. Quiet(work) /\ agenda' = work \o rest
  BY QuietWork DEF Tell
<1> HIDE DEF work
<1>2. UNCHANGED <<state, callbacks>> /\ UNCHANGED <<state, queue, messages>>
  BY DEF Tell, fsm
<1>3. StillDue(item, work)
  BY <1>2, KeepingDue
<1>4. QED
  BY <1>1, <1>2, <1>3, QuietControl

\* The deferred inputs are no events and no transitions.
LEMMA ReplayControl ==
  ASSUME Data, Control, NEW item, NEW rest, Takes(item, rest), item.do = "replay",
         Replay(rest)
  PROVE  Control'
<1>1. UNCHANGED <<state, callbacks>> /\ UNCHANGED <<state, messages>>
  BY DEF Replay
<1>2. CASE state = "detached"
  <2>1. queue \in Seq(Deferred) /\ queue \in Agendas
    BY DeferredFacts, SeqWiden DEF Data, Shapes, Queues, Agendas
  <2>2. agenda' = queue \o rest /\ queue' = <<>>
    BY <1>2 DEF Replay
  <2>3. ~Has(queue, Loops) /\ ~Has(queue, Events) /\ ~Has(queue, Transitions)
    <3>1. \A i \in DOMAIN queue : queue[i] \in Deferred
      BY <2>1, ElementOfSeq, LenProperties
    <3>2. /\ Deferred \cap Loops = {} /\ Deferred \cap Events = {}
          /\ Deferred \cap Transitions = {}
      BY DEF Deferred, Loops, Events, EventNames, Transitions, Named
    <3>3. QED
      BY <3>1, <3>2 DEF Has
  <2>4. StillDue(item, queue)
    BY <1>1, <2>2 DEF StillDue, messages
  <2>5. QED
    BY <1>1, <2>1, <2>2, <2>3, <2>4, StayControl
<1>3. CASE state # "detached"
  <2>1. Quiet(<<>>) /\ agenda' = <<>> \o rest
    BY <1>3, TakesFacts, QuietWork DEF Replay
  <2>2. StillDue(item, <<>>)
    BY <1>1, <1>3 DEF StillDue, messages
  <2>3. QED
    BY <1>1, <2>1, <2>2, QuietControl
<1>4. QED
  BY <1>2, <1>3

\* The sending is asked for; nothing else changes.
LEMMA SendUnsentControl ==
  ASSUME Data, Control, NEW item, NEW rest, Takes(item, rest), item.do = "sendUnsent",
         SendUnsent(rest)
  PROVE  Control'
<1> DEFINE work == IF unsent = <<>> THEN <<>> ELSE <<Step("send")>>
<1>1. Quiet(work) /\ agenda' = work \o rest
  BY QuietWork DEF SendUnsent, QuietNames, Plain, EventNames
<1> HIDE DEF work
<1>2. UNCHANGED <<state, callbacks>> /\ UNCHANGED <<state, queue, messages>>
  BY DEF SendUnsent, fsm
<1>3. StillDue(item, work)
  BY <1>2, KeepingDue
<1>4. QED
  BY <1>1, <1>2, <1>3, QuietControl

\* In the owner's turn, or in that of the sending loop, some work is put before
\* all that is left to do.
LEMMA PushControl ==
  ASSUME Control, NEW T, agenda \in Seq(T), agenda # <<>>,
         NEW work \in Seq(T), agenda' = work \o agenda,
         Head(agenda) \in Named({"owner", "transmit"}),
         ~Has(work, Events), ~Has(work, Transitions),
         preSettled \/ (~Has(work, Loops) /\ Head(agenda).do = "owner"),
         UNCHANGED <<preSettled, state, queue, callbacks, pending>>,
         state = "detached" /\ unsent' # <<>> => unsent # <<>> \/ Has(work, FailsUnsent)
  PROVE  Control'
<1> DEFINE h == Head(agenda)
           all == work \o <<h>>
<1>1. /\ h \notin Events /\ h \notin Transitions /\ h \notin FailsUnsent
      /\ h \notin Replays /\ h \notin FailsPending /\ \A o : h \notin FailingKey(o)
      /\ h.do # "senderErrorEvent" /\ (h.do = "owner" => h \notin Loops)
  BY DEF Events, EventNames, Transitions, FailsUnsent, Replays, FailsPending,
         FailingKey, Loops, Named
<1>2. h \in T /\ Tail(agenda) \in Seq(T) /\ <<h>> \in Seq(T)
  BY HeadTailProperties
<1>3. all \in Seq(T)
  BY <1>2, ConcatProperties
<1>4. agenda' = all \o Tail(agenda)
  <2>1. agenda = <<h>> \o Tail(agenda)
    OBVIOUS
  <2> HIDE DEF h
  <2>2. (work \o <<h>>) \o Tail(agenda) = work \o (<<h>> \o Tail(agenda))
    BY <1>2, ConcatAssociative
  <2>3. QED
    BY <2>1, <2>2
<1>5. Moved(T, all)
  BY <1>3, <1>4 DEF Moved
<1>6. ASSUME NEW S
      PROVE  Has(all, S) <=> Has(work, S) \/ h \in S
  BY <1>2, HasConcat, HasOne
<1> HIDE DEF all
<1>7. ~Has(all, Events) /\ ~Has(all, Transitions) /\ (preSettled \/ ~Has(all, Loops))
  BY <1>1, <1>6
<1>8. Failing'
  <2>1. Failing /\ state' = state /\ queue' = queue /\ pending' = pending
    BY DEF Control
  <2>2. state' = "detached" /\ unsent' # <<>> =>
           \/ Has(all, FailsUnsent)
           \/ state = "detached" /\ unsent # <<>> /\ Head(agenda) \notin FailsUnsent
    BY <1>1, <1>6, <2>1
  <2>3. state' = "detached" /\ queue' # <<>> =>
           \/ Has(all, Replays)
           \/ state = "detached" /\ queue # <<>> /\ Head(agenda) \notin Replays
    BY <1>1, <2>1
  <2>4. state' \in {"detached", "attaching"} =>
           \/ Has(all, FailsPending)
           \/ \A o \in pending' : Has(all, FailingKey(o))
           \/ /\ state \in {"detached", "attaching"}
              /\ Head(agenda) \notin FailsPending
              /\ \A o \in pending' : o \in pending /\ Head(agenda) \notin FailingKey(o)
    BY <1>1, <2>1
  <2>5. QED
    BY <1>5, <2>1, <2>2, <2>3, <2>4, FailingMoves
<1>9. Uninterrupted'
  BY <1>5, <1>7, LoopsMove DEF Control
<1>10. EventsAlone'
  BY <1>1, <1>5, <1>7, EventsMove DEF Control
<1>11. Transiting'
  BY <1>5, <1>7, TransitingMoves DEF Control
<1>12. QED
  BY <1>8, <1>9, <1>10, <1>11 DEF Control

\* The first work after nothing was left to do: an event, or one item.
LEMMA FreshControl ==
  ASSUME Control, agenda = <<>>,
         \/ agenda' \in Bursts
         \/ \E w : /\ agenda' = <<w>> /\ w \notin Events /\ w \notin Transitions
                   /\ w \notin Loops,
         UNCHANGED <<state, queue, callbacks, pending>>,
         state = "detached" /\ unsent' # <<>>
           => unsent # <<>> \/ Has(agenda', FailsUnsent)
  PROVE  Control'
<1>1. \A S : ~Has(agenda, S)
  BY HasOne
<1>2. /\ state = "detached" => unsent = <<>> /\ queue = <<>>
      /\ state \in {"detached", "attaching"} => pending = {}
      /\ detachingCallback # Undefined => state = "detaching"
  <2>1. state = "detached" => unsent = <<>> /\ queue = <<>>
    BY <1>1, Zenon DEF Control, Failing
  <2>2. state \in {"detached", "attaching"} => \A o \in pending : FALSE
    BY <1>1, Zenon DEF Control, Failing
  <2>3. QED
    BY <2>1, <2>2 DEF Control, Transiting
<1>3. ~Has(agenda', Transitions) /\ ~Has(agenda', Loops)
  <2>1. CASE agenda' \in Bursts
    <3> DEFINE a == Step("senderOpenEvent")
               b == Step("senderCloseEvent")
               c == Step("senderErrorEvent")
    <3>1. \A w \in {a, b, c} : w \notin Transitions /\ w \notin Loops
      BY DEF Transitions, Loops, Named, Step, Item
    <3>2. agenda' \in {<<a>>, <<b>>, <<c, b>>}
      BY <2>1 DEF Bursts
    <3> HIDE DEF a, b, c
    <3>3. \A s \in {<<a>>, <<b>>, <<c, b>>} : \A i \in DOMAIN s : s[i] \in {a, b, c}
      OBVIOUS
    <3>4. \A i \in DOMAIN agenda' : agenda'[i] \in {a, b, c}
      BY <3>2, <3>3
    <3>5. QED
      BY <3>1, <3>4 DEF Has
  <2>2. ASSUME NEW w, agenda' = <<w>>, w \notin Transitions, w \notin Loops
        PROVE  ~Has(agenda', Transitions) /\ ~Has(agenda', Loops)
    BY <2>2, HasOne
  <2>3. QED
    BY <2>1, <2>2
<1>4. EventsAlone'
  <2>1. ASSUME NEW w, agenda' = <<w>>, w \notin Events
        PROVE  ~Has(agenda', Events)
    BY <2>1, HasOne
  <2>2. Has(agenda', Events) => agenda' \in Bursts
    BY <2>1
  <2>3. QED
    BY <2>2 DEF EventsAlone, Events, Bursts, Named, EventNames, Step, Item, Undefined
<1>5. Failing'
  <2>1. state' = "detached" /\ unsent' # <<>> => Has(agenda', FailsUnsent)
    BY <1>2
  <2>2. state' = "detached" => queue' = <<>>
    BY <1>2
  <2>3. state' \in {"detached", "attaching"} => pending' = {}
    BY <1>2
  <2>4. QED
    BY <2>1, <2>2, <2>3 DEF Failing, FailsUnsent, Named
<1>6. Uninterrupted'
  BY <1>3 DEF Uninterrupted, Loops, Named
<1>7. Transiting'
  <2>1. ~Has(agenda', Telling) /\ Uncovered(agenda')
    BY <1>3, TellingFacts DEF Uncovered, Has
  <2>2. detachingCallback' # Undefined => state' = "detaching"
    BY <1>2 DEF callbacks
  <2>3. QED
    BY <1>3, <2>1, <2>2, TransitingNext
<1>8. QED
  BY <1>4, <1>5, <1>6, <1>7 DEF Control

\* A call comes first, in the owner's turn or when nothing is left to do.
LEMMA CallControl ==
  ASSUME Data, Control, NEW kind \in Methods, NEW err \in BOOLEAN, Call(kind, err),
         UNCHANGED preSettled
  PROVE  Control'
<1>1. /\ ops \in Seq(Methods) /\ agenda \in Seq(Work)
  BY DEF Data, TypeOK, Shapes, Agendas
<1>2. PICK n \in Nat : n = Len(ops) + 1
  BY <1>1, LenProperties
<1>3. PICK w : w = Item(kind, n, err)
  OBVIOUS
<1>4. /\ w \notin Events /\ w \notin Transitions /\ w \notin Loops
      /\ kind = "send" => w \in FailsUnsent
  BY <1>3 DEF Events, EventNames, Transitions, Loops, FailsUnsent, Named, Item, Methods
<1>5. /\ agenda' = <<w>> \o agenda
      /\ UNCHANGED <<preSettled, state, queue, callbacks, pending>>
      /\ kind # "send" => unsent' = unsent
  BY <1>2, <1>3 DEF Call, fsm
<1>6. w \in Work' /\ Work \subseteq Work'
  BY <1>1, <1>2, <1>3, CallFacts DEF Call
<1>7. agenda \in Seq(Work') /\ <<w>> \in Seq(Work')
  BY <1>1, <1>6, SeqWiden
<1>8. unsent' # <<>> => unsent # <<>> \/ Has(<<w>>, FailsUnsent)
  BY <1>4, <1>5, HasOne
<1>9. CASE agenda = <<>>
  <2>1. agenda' = <<w>>
    BY <1>5, <1>7, <1>9, ConcatEmptySeq
  <2>2. state = "detached" /\ unsent' # <<>> => unsent # <<>> \/ Has(agenda', FailsUnsent)
    BY <1>8, <2>1, Zenon
  <2>3. UNCHANGED <<state, queue, callbacks, pending>>
    BY <1>5
  <2>4. QED
    BY <1>4, <1>9, <2>1, <2>2, <2>3, FreshControl
<1>10. CASE agenda # <<>>
  <2>1. Head(agenda) \in Work /\ Head(agenda).do = "owner"
    BY <1>1, <1>10, HeadTailProperties DEF Call, Idle
  <2>2. Head(agenda) \in Named({"owner", "transmit"})
    BY <1>1, <2>1, WorkFacts DEF Named, Item
  <2>3. ~Has(<<w>>, Events) /\ ~Has(<<w>>, Transitions) /\ ~Has(<<w>>, Loops)
    BY <1>4, HasOne
  <2>4. QED
    BY <1>5, <1>7, <1>8, <1>10, <2>1, <2>2, <2>3, PushControl
<1>11. QED
  BY <1>9, <1>10

\* An event comes when nothing is left to do.
LEMMA PeerControl ==
  ASSUME Data, Control, NEW l \in DOMAIN links, Peer(l)
  PROVE  Control'
<1>1. /\ agenda = <<>> /\ ops \in Seq(Methods)
      /\ UNCHANGED <<fsm, messages, callbacks, closing, sender, ops, answers, crashed>>
      /\ \/ agenda' \in Bursts
         \/ \E name \in {"send", "accepted", "rejected"}, op \in Payloads :
              agenda' = <<Item(name, op, FALSE)>>
  BY PeerFacts DEF Data, TypeOK
<1>2. ASSUME NEW name \in {"send", "accepted", "rejected"}, NEW op
      PROVE  /\ Item(name, op, FALSE) \notin Events
             /\ Item(name, op, FALSE) \notin Transitions
             /\ Item(name, op, FALSE) \notin Loops
  BY DEF Events, EventNames, Transitions, Loops, Named, Item
<1>3. \/ agenda' \in Bursts
      \/ \E w : /\ agenda' = <<w>> /\ w \notin Events /\ w \notin Transitions
                /\ w \notin Loops
  BY <1>1, <1>2
<1>4. UNCHANGED <<state, queue, callbacks, pending>> /\ unsent' = unsent
  BY <1>1 DEF fsm, messages
<1>5. QED
  BY <1>1, <1>3, <1>4, FreshControl

\* The loop sends a message: of those that are not settled, in the attached state
\* alone.
LEMMA TransmitControl ==
  ASSUME Data, Control, RunTransmit, UNCHANGED preSettled
  PROVE  Control'
<1>1. /\ agenda \in Seq(Work) /\ agenda # <<>> /\ Head(agenda).do = "transmit"
      /\ ops \in Seq(Methods)
      /\ UNCHANGED <<fsm, callbacks>> /\ unsent # <<>>
  BY DEF Data, TypeOK, Shapes, Agendas, RunTransmit, Transmit, Idle
<1>2. Head(agenda) \in Work
  BY <1>1, HeadTailProperties
<1>3. Head(agenda) \in Named({"transmit"})
  BY <1>1, <1>2, WorkFacts DEF Named, Item
<1>4. CASE preSettled
  <2>1. agenda' = Owner \o agenda /\ UNCHANGED pending
    BY <1>4 DEF RunTransmit, Transmit
  <2>2. Quiet(Owner)
    BY QuietWork
  <2>3. Owner \in Seq(Work) /\ ~Has(Owner, Events) /\ ~Has(Owner, Transitions)
    BY <2>2, QuietFacts DEF Quiet, Agendas
  <2>4. Head(agenda) \in Named({"owner", "transmit"})
    BY <1>3 DEF Named
  <2>5. UNCHANGED <<preSettled, state, queue, callbacks, pending>>
    BY <1>1, <2>1 DEF fsm
  <2>6. state = "detached" /\ unsent' # <<>> => unsent # <<>> \/ Has(Owner, FailsUnsent)
    BY <1>1
  <2>7. QED
    BY <1>1, <1>4, <2>1, <2>3, <2>4, <2>5, <2>6, PushControl
<1>5. CASE ~preSettled
  <2>1. UNCHANGED agenda
    BY <1>5 DEF RunTransmit, Transmit
  <2>2. Has(agenda, Loops)
    BY <1>1, <1>3, HasHeadTail DEF Loops
  <2>3. state = "attached"
    BY <1>5, <2>2 DEF Control, Uninterrupted
  <2>4. state' = state /\ UNCHANGED callbacks
    BY <1>1 DEF fsm
  <2>5. Failing'
    BY <2>3, <2>4 DEF Failing
  <2>6. Uninterrupted' /\ EventsAlone'
    BY <2>1, <2>4 DEF Control, Uninterrupted, EventsAlone, Loops, Named, Events,
                      EventNames, Bursts, Step, Item, Undefined
  <2>7. Transiting'
    BY <2>1, <2>4, TransitingNext DEF Control, Transiting, callbacks
  <2>8. QED
    BY <2>5, <2>6, <2>7 DEF Control
<1>6. QED
  BY <1>4, <1>5

\* A step of the program keeps Control, unless it throws.
LEMMA RunControl ==
  ASSUME Data, Control, Run, UNCHANGED preSettled, ~crashed'
  PROVE  Control'
<1> DEFINE item == Head(agenda)
           rest == Tail(agenda)
<1>1. Takes(item, rest)
  BY DEF Run, Takes, Idle
<1>2. \/ item.do \in Inputs /\ Handle(item, rest)
      \/ item.do = "owner" /\ Ignore(rest)
      \/ item.do = "toDetached" /\ ToDetached(item.op, item.err, rest)
      \/ item.do = "failUnsent" /\ FailUnsent(rest)
      \/ item.do = "failPending" /\ FailPending(rest)
      \/ item.do = "failKey" /\ FailKey(item.op, rest)
      \/ item.do = "tell" /\ Tell(item.op, item.err, rest)
      \/ item.do = "replay" /\ Replay(rest)
      \/ item.do = "sendUnsent" /\ SendUnsent(rest)
      \/ item.do = "transmit" /\ Ignore(rest)
  BY DEF Run
<1> HIDE DEF item, rest
<1>3. CASE item.do \in Inputs /\ Handle(item, rest)
  <2>1. CASE HandleDetached(item, rest)
    BY <1>1, <1>3, <2>1, DetachedControl
  <2>2. CASE HandleAttaching(item, rest)
    BY <1>1, <2>2, AttachingControl
  <2>3. CASE HandleAttached(item, rest)
    BY <1>1, <2>3, AttachedControl
  <2>4. CASE HandleDetaching(item, rest)
    BY <1>1, <2>4, DetachingStateControl
  <2>5. QED
    BY <1>3, <2>1, <2>2, <2>3, <2>4 DEF Handle
<1>4. CASE item.do \in {"owner", "transmit"} /\ Ignore(rest)
  BY <1>1, <1>4, IgnoreControl
<1>5. CASE item.do = "toDetached" /\ ToDetached(item.op, item.err, rest)
  BY <1>1, <1>5, ToDetachedControl
<1>6. CASE item.do = "failUnsent" /\ FailUnsent(rest)
  BY <1>1, <1>6, FailUnsentControl
<1>7. CASE item.do = "failPending" /\ FailPending(rest)
  BY <1>1, <1>7, FailPendingControl
<1>8. CASE item.do = "failKey" /\ FailKey(item.op, rest)
  BY <1>1, <1>8, FailKeyControl
<1>9. CASE item.do = "tell" /\ Tell(item.op, item.err, rest)
  BY <1>1, <1>9, TellControl
<1>10. CASE item.do = "replay" /\ Replay(rest)
  BY <1>1, <1>10, ReplayControl
<1>11. CASE item.do = "sendUnsent" /\ SendUnsent(rest)
  BY <1>1, <1>11, SendUnsentControl
<1>12. QED
  BY <1>2, <1>3, <1>4, <1>5, <1>6, <1>7, <1>8, <1>9, <1>10, <1>11

-----------------------------------------------------------------------------
(* The invariant.                                                          *)

\* At first there is nothing.
LEMMA InitInvariant == Init => IInv
<1> SUFFICES ASSUME Init
             PROVE  IInv
  OBVIOUS
<1>1. Ops = {} /\ ops = <<>> /\ agenda = <<>> /\ queue = <<>> /\ unsent = <<>>
  BY DEF Init, Ops
<1>2. TypeOK
  <2>1. ToSet(queue) = {} /\ ToSet(agenda) = {}
    BY <1>1 DEF ToSet
  <2>2. answers \in [Ops -> Nat]
    BY <1>1 DEF Init
  <2>3. links \in Seq(Links) /\ Len(links) = 0 /\ sender = 0
    BY DEF Init
  <2>4. ops \in Seq(Methods) /\ unsent \in Seq(Ops) /\ transmitted \in Seq(Ops)
    BY <1>1 DEF Init
  <2>5. sender \in 0..Len(links)
    BY <2>3
  <2>6. QED
    BY <2>1, <2>2, <2>3, <2>4, <2>5 DEF Init, TypeOK
<1>3. Shapes
  <2>1. agenda \in Agendas /\ queue \in Queues /\ unsent \in Seq(Sends)
    BY <1>1 DEF Agendas, Queues
  <2>2. QED
    BY <2>1 DEF Shapes, Init, NoOperation
<1>4. Ordered
  BY DEF Ordered, SentInOrder, Init
<1>5. Accounted
  BY <1>1 DEF Accounted
<1>6. \A S : ~Has(agenda, S)
  BY <1>1, HasOne
<1>7. Failing /\ Uninterrupted /\ EventsAlone
  BY <1>1, <1>6 DEF Failing, Uninterrupted, EventsAlone, Init
<1>8. Transiting
  <2>1. Uncovered(agenda)
    BY <1>1 DEF Uncovered
  <2>2. QED
    BY <1>6, <2>1 DEF Transiting, Init
<1>9. QED
  BY <1>2, <1>3, <1>4, <1>5, <1>7, <1>8 DEF IInv, Data, Control

\* Every step keeps the invariant.
LEMMA StepInvariant == IInv /\ [Next]_vars => IInv'
<1> SUFFICES ASSUME IInv, [Next]_vars
             PROVE  IInv'
  OBVIOUS
<1>1. Data
  BY DEF IInv
<1>2. ASSUME UNCHANGED vars
      PROVE  IInv'
  <2>1. UNCHANGED <<preSettled, state, queue, agenda, unsent, pending, transmitted,
                    attachingCallback, detachingCallback, indicatedError,
                    senderCloseOccurred, sender, links, ops, answers, crashed>>
    BY <1>2 DEF vars, fsm, messages, callbacks, closing, wire
  <2>2. Data'
    <3>1. Ops' = Ops /\ Links' = Links
      BY <2>1, SameOps
    <3>2. WireOK' /\ UNCHANGED <<ops, preSettled>> /\ UNCHANGED <<queue, callbacks>>
      <4>1. WireOK'
        BY <1>1, <2>1, SameAll DEF closing, wire
      <4>2. QED
        BY <2>1, <4>1 DEF callbacks
    <3>3. agenda' \in Agendas /\ \A o \in Ops : InAgenda(o)' = InAgenda(o)
      BY <1>1, <2>1 DEF Data, Shapes, InAgenda, Carrying
    <3>4. Kept
      BY <1>1, <2>1 DEF Kept, Data, Shapes, TypeOK
    <3>5. Ordered'
      BY <1>1, <2>1, SameOrder DEF Data
    <3>6. MessagesBalance
      BY <2>1 DEF MessagesBalance, InUnsent, InPending, Told
    <3>7. QED
      BY <1>1, <3>2, <3>3, <3>4, <3>5, <3>6, MessagesGo
  <2>3. Control => Control'
    <3>1. ASSUME Control
          PROVE  Failing' /\ Uninterrupted' /\ EventsAlone'
      BY <2>1, <3>1 DEF Control, Failing, Uninterrupted, EventsAlone, FailsUnsent,
           Replays, FailsPending, FailingKey, Loops, Named, Events, EventNames,
           Bursts, Step, Item, Undefined
    <3>2. ASSUME Control
          PROVE  Transiting'
      BY <2>1, <3>2, TransitingNext DEF Control, Transiting
    <3>3. QED
      BY <3>1, <3>2 DEF Control
  <2>4. crashed' = crashed
    BY <2>1
  <2>5. QED
    BY <2>2, <2>3, <2>4, Zenon DEF IInv
<1>3. ASSUME Next
      PROVE  IInv'
  <2>1. ~crashed /\ UNCHANGED preSettled /\ Control
    BY <1>3 DEF Next, IInv
  <2>2. CASE OwnerCalls
    <3>1. PICK kind \in Methods, err \in BOOLEAN : Call(kind, err)
      BY <2>2, ConstantsAssumption DEF OwnerCalls
    <3>2. crashed' = crashed
      BY <3>1 DEF Call
    <3>3. Data'
      BY <1>1, <2>1, <3>1, CallData
    <3>4. Control'
      BY <1>1, <2>1, <3>1, CallControl
    <3>5. QED
      BY <3>3, <3>4 DEF IInv
  <2>3. CASE Run
    <3>1. Data'
      <4>1. agenda \in Seq(Work) /\ agenda # <<>> /\ ops \in Seq(Methods)
        BY <1>1, <2>3 DEF Data, TypeOK, Shapes, Agendas, Run, Idle
      <4>2. /\ state = "detached" => ~Has(agenda, Telling)
            /\ state # "detaching" => detachingCallback = Undefined
        BY <2>1, <4>1, TransitingFacts DEF Control
      <4>3. Head(agenda) \in Work
        BY <4>1, HeadTailProperties
      <4>4. Head(agenda).do = "toDetached" /\ Head(agenda).op \in Detaches
              => Head(agenda) \in Telling
        <5>1. Undefined \notin Detaches
          BY <4>1, OpsFacts
        <5>2. QED
          BY <4>1, <4>3, <5>1, WorkFacts DEF Telling, Item
      <4>5. Head(agenda) \in Telling => Has(agenda, Telling)
        BY <4>1, HasHeadTail
      <4>6. QED
        BY <1>1, <2>1, <2>3, <4>2, <4>4, <4>5, RunData
    <3>2. ~crashed' => Control'
      BY <1>1, <2>1, <2>3, RunControl
    <3>3. QED
      BY <3>1, <3>2 DEF IInv
  <2>4. CASE RunTransmit
    <3>1. PICK rest : Transmit(rest) /\ UNCHANGED ops
      BY <2>4 DEF RunTransmit
    <3>2. Data'
      BY <1>1, <2>1, <3>1, TransmitData
    <3>3. Control'
      BY <1>1, <2>1, <2>4, TransmitControl
    <3>4. QED
      BY <3>2, <3>3 DEF IInv
  <2>5. ASSUME NEW l \in DOMAIN links, Peer(l)
        PROVE  IInv'
    <3>1. Data'
      BY <1>1, <2>1, <2>5, PeerData
    <3>2. Control'
      BY <1>1, <2>1, <2>5, PeerControl
    <3>3. QED
      BY <3>1, <3>2 DEF IInv
  <2>6. QED
    BY <1>3, <2>2, <2>3, <2>4, <2>5 DEF Next
<1>4. QED
  BY <1>2, <1>3

\* The invariant holds in every state of the link.
LEMMA Invariant == Spec => []IInv
BY InitInvariant, StepInvariant, PTL DEF Spec

-----------------------------------------------------------------------------
(* What it says.                                                           *)

\* A message is not carried by anything that is left to do, nor deferred, nor
\* kept for the end of an attach or of a detach.
LEMMA MessagePlaces ==
  ASSUME Data, NEW o \in Sends
  PROVE  Occurrences(unsent, o) + (IF o \in pending THEN 1 ELSE 0) + answers[o] = 1
<1>1. /\ ops \in Seq(Methods) /\ agenda \in Seq(Work) /\ queue \in Seq(Deferred)
      /\ attachingCallback \in Attaches \cup NoOperation
      /\ detachingCallback \in Detaches \cup {Undefined}
  BY DEF Data, TypeOK, Shapes, Agendas, Queues
<1>2. /\ o \in Ops /\ o \notin Attaches /\ o \notin Detaches
      /\ o # Undefined /\ o # Silent
  BY <1>1, OpsFacts
<1>3. Carrying(o) \cap Work = {}
  BY <1>2 DEF Carrying, Work, Plain, EventNames, NoOperation
<1>4. InAgenda(o) = 0
  BY <1>1, <1>3, CountNone DEF InAgenda
<1>5. InQueue(o) = 0
  <2>1. queue \in Seq(Work)
    BY <1>1, DeferredFacts, SeqWiden
  <2>2. QED
    BY <1>3, <2>1, CountNone DEF InQueue
<1>6. InAttaching(o) = 0 /\ InDetaching(o) = 0
  BY <1>1, <1>2 DEF InAttaching, InDetaching, NoOperation
<1>7. InUnsent(o) = Occurrences(unsent, o)
  <2>1. {i \in DOMAIN unsent : unsent[i] \in {o}} = {i \in DOMAIN unsent : unsent[i] = o}
    OBVIOUS
  <2>2. QED
    BY <2>1 DEF InUnsent, Occurrences, Count
<1>8. Accounts(o) = 1
  BY <1>2 DEF Data, Accounted
<1>9. InUnsent(o) \in Nat /\ InPending(o) \in Nat /\ Told(o) \in Nat
  BY <1>2, Naturals
<1>10. Accounts(o) = InAgenda(o) + (InQueue(o) + InAttaching(o) + InDetaching(o)
                        + InUnsent(o) + InPending(o) + Told(o))
  BY DEF Accounts, Around
<1>11. InUnsent(o) + InPending(o) + Told(o) = 1
  BY <1>4, <1>5, <1>6, <1>8, <1>9, <1>10
<1>12. QED
  BY <1>7, <1>11 DEF InPending, Told

\* A detach that was not called back is kept, if nothing is left to do, and no
\* operation was called back twice.
LEMMA DetachPlaces ==
  ASSUME Data, NEW o \in Ops
  PROVE  /\ answers[o] <= 1
         /\ agenda = <<>> /\ o \in Detaches /\ answers[o] = 0 => detachingCallback = o
<1>1. /\ InAgenda(o) \in Nat /\ InQueue(o) \in Nat /\ InAttaching(o) \in Nat
      /\ InDetaching(o) \in Nat /\ InUnsent(o) \in Nat /\ InPending(o) \in Nat
      /\ Told(o) \in Nat
  BY Naturals
<1>2. Accounts(o) = InAgenda(o) + (InQueue(o) + InAttaching(o) + InDetaching(o)
                        + InUnsent(o) + InPending(o) + Told(o))
  BY DEF Accounts, Around
<1>3. answers[o] <= 1
  <2>1. Accounts(o) <= 1
    BY DEF Data, Accounted
  <2>2. PICK k \in Nat : k = InAgenda(o) + InQueue(o) + InAttaching(o)
                             + InDetaching(o) + InUnsent(o) + InPending(o)
    BY <1>1
  <2>3. Accounts(o) = k + Told(o)
    BY <1>1, <1>2, <2>2
  <2>4. Told(o) <= 1
    BY <1>1, <2>1, <2>3
  <2>5. QED
    BY <2>4 DEF Told
<1>4. ASSUME agenda = <<>>, o \in Detaches, answers[o] = 0
      PROVE  detachingCallback = o
  <2>1. /\ ops \in Seq(Methods) /\ queue \in Seq(Deferred) /\ unsent \in Seq(Sends)
        /\ pending \subseteq Sends
        /\ attachingCallback \in Attaches \cup NoOperation
    BY DEF Data, TypeOK, Shapes, Queues
  <2>2. o \notin Attaches /\ o \notin Sends /\ o # Undefined /\ o # Silent
    BY <1>4, <2>1, OpsFacts
  <2>3. InAgenda(o) = 0
    BY <1>4, CountEmpty DEF InAgenda
  <2>4. InQueue(o) = 0
    <3>1. Carrying(o) \cap Deferred = {}
      BY <2>2 DEF Carrying, Deferred
    <3>2. QED
      BY <2>1, <3>1, CountNone DEF InQueue
  <2>5. InUnsent(o) = 0
    <3>1. {o} \cap Sends = {}
      BY <2>2
    <3>2. QED
      BY <2>1, <3>1, CountNone DEF InUnsent
  <2>6. InAttaching(o) = 0 /\ InPending(o) = 0 /\ Told(o) = 0
    BY <1>4, <2>1, <2>2 DEF InAttaching, InPending, Told, NoOperation
  <2>7. Accounts(o) = 1
    BY <1>4 DEF Data, Accounted
  <2>8. InDetaching(o) = 1
    BY <1>1, <1>2, <2>3, <2>4, <2>5, <2>6, <2>7
  <2>9. QED
    BY <2>8 DEF InDetaching
<1>5. QED
  BY <1>3, <1>4

\* Every message given to the link is in one place: it waits to be sent, it waits
\* for its settlement, or its callback was called, once; and when the event loop
\* is idle, a detached link holds none back (sender_link.ts, send and the
\* handlers of the detached state).
THEOREM MessagesAnsweredOnce == Spec => []SendAnsweredOnce
<1>1. IInv => SendAnsweredOnce
  <2> SUFFICES ASSUME IInv
               PROVE  SendAnsweredOnce
    OBVIOUS
  <2>1. Data /\ TypeOK /\ (~crashed => Failing)
    BY DEF IInv, Data, Control
  <2>2. \A o \in Sends :
          Occurrences(unsent, o) + (IF o \in pending THEN 1 ELSE 0) + answers[o] = 1
    BY <2>1, MessagePlaces
  <2>3. ASSUME Idle, ~crashed
        PROVE  /\ state = "detached" => unsent = <<>> /\ queue = <<>>
               /\ state \in {"detached", "attaching"} => pending = {}
    <3>1. \A S : ~Has(agenda, S)
      BY <2>3, HasOne DEF Idle
    <3>2. state = "detached" => unsent = <<>> /\ queue = <<>>
      BY <2>1, <2>3, <3>1, Zenon DEF Failing
    <3>3. state \in {"detached", "attaching"} => \A o \in pending : FALSE
      BY <2>1, <2>3, <3>1, Zenon DEF Failing
    <3>4. QED
      BY <3>2, <3>3
  <2>4. QED
    BY <2>1, <2>2, <2>3 DEF SendAnsweredOnce
<1>2. QED
  BY <1>1, Invariant, PTL

\* Messages go out in the order in which they were given to the link, over all the
\* rhea links it opens and whatever its owner does in a callback (attached.send).
THEOREM MessagesInOrder == Spec => []SentInOrder
<1>1. IInv => SentInOrder
  BY DEF IInv, Data, Ordered
<1>2. QED
  BY <1>1, Invariant, PTL

\* No callback is called twice, and that of a detach is called, or kept for the
\* end of the detaching (detaching._onEnter, and forceDetach).
THEOREM DetachesKept == Spec => []DetachNotLost
<1>1. IInv => DetachNotLost
  <2> SUFFICES ASSUME IInv
               PROVE  DetachNotLost
    OBVIOUS
  <2>1. Data /\ (~crashed => Transiting)
    BY DEF IInv, Control
  <2>2. ASSUME NEW o \in Ops, Idle, ~crashed, ops[o] = "detach", answers[o] = 0
        PROVE  detachingCallback = o /\ state = "detaching"
    <3>1. o \in Detaches
      BY <2>2 DEF Detaches
    <3>2. detachingCallback = o
      BY <2>1, <2>2, <3>1, DetachPlaces DEF Idle
    <3>3. o # Undefined
      BY <2>1, OpsFacts DEF Data, TypeOK
    <3>4. QED
      BY <2>1, <2>2, <3>2, <3>3 DEF Transiting
  <2>3. QED
    BY <2>1, <2>2, DetachPlaces DEF DetachNotLost
<1>2. QED
  BY <1>1, Invariant, PTL
=============================================================================
