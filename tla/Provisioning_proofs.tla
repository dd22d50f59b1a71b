--------------------------- MODULE Provisioning_proofs ---------------------------
(***************************************************************************)
(* Proofs about the security client on a TPM, one of the components that   *)
(* Provisioning.tla runs (kind = "tpm"), for every number of calls: the    *)
(* key that it signs with is the one that the TPM has.                     *)
(*                                                                         *)
(* An activation takes the public part of the new key when it starts       *)
(* (_idKeyPub), and has the TPM persist the key eight commands later.  In  *)
(* between, what the client has is not what the TPM signs with, so the     *)
(* invariant says where the activation is: one of those commands is asked  *)
(* for, or answered and still to be handled (Activates).  A failure of one *)
(* ends in a transition to disconnected, where the public part is          *)
(* forgotten, and the next call reads it again; several calls can be doing *)
(* so at once, and a client that is connected can be told once more what   *)
(* it has (ReadsBack).                                                     *)
(***************************************************************************)
EXTENDS Provisioning, SequenceTheorems, TLAPS

-----------------------------------------------------------------------------
(* Types.                                                                  *)

Numbers == 0..MaxCalls
TpmCalls == {"srk", "regId", "sign", "signLong", "activate"}
TpmInputs == {"srk", "ek", "sign", "signLong", "activate"}
TpmStates == {"disconnected", "connecting", "connected"}

\* The commands of an activation up to the one that persists the key, and the rest.
Early == {"GetRandom", "StartAuthSession", "PolicySecret", "ActivateCredential",
          "Import", "Load", "EvictOld", "Persist"}
Commands ==
  {"GetRandom", "StartAuthSession", "PolicySecret", "ActivateCredential",
   "Import", "Load", "EvictOld", "Persist", "FlushKey", "FlushSession",
   "ReadPublic", "CreatePrimary", "EvictControl", "FlushContext", "ReadIdentity",
   "GetCapability", "HMAC", "HMAC_Start", "SequenceUpdate", "SequenceComplete"}
Names == Commands \cup {"user", "connected", "regId", "hashed"}

\* The commands of a signature are those of its call.
Fits(fn, op) ==
  /\ fn = "GetCapability" => op \in {"sign", "signLong"}
  /\ fn = "HMAC" => op = "sign"
  /\ fn \in {"HMAC_Start", "SequenceUpdate", "SequenceComplete"} => op = "signLong"

Closures ==
  {c \in [fn : Names, id : Numbers, op : TpmCalls, then : {"-", "EK", "SRK"}, err : BOOLEAN] :
     Fits(c.fn, c.op)}

\* A request is for the function that gets its answer; a signature that the machine
\* is asked for is the call's.
Shaped(x) ==
  /\ x.at = "machine" => x.do \in {"enter"} \cup TpmStates \cup TpmInputs
  /\ x.at = "machine" /\ x.do \in {"sign", "signLong"} => x.cb.op = x.do
  /\ x.at = "ask" => x.do \in Commands /\ x.do = x.cb.fn
  /\ x.at = "callback" => x.do \in {"call", "drop"}

Items ==
  {x \in [at : {"machine", "ask", "callback"},
          do : {"enter", "call", "drop"} \cup TpmStates \cup TpmInputs \cup Commands,
          cb : Closures, err : BOOLEAN] : Shaped(x)}
Inputs == {x \in Items : x.at = "machine" /\ x.do \in TpmInputs}
Deferrals == [input : Inputs, until : {"any"}]

Machines == [name : {"machine"}, state : TpmStates,
             deferred : Seq(Deferrals),
             pub : Numbers, known : BOOLEAN]
Requests == {a \in [do : Commands, cb : Closures, pub : Numbers] : a.do = a.cb.fn}
Callings == [op : TpmCalls, errors : Nat, results : Nat, dropped : Nat]
Tpms == [state : {"down"}, deferred : {<<>>}, sent : {{}}, left : {{}}, sasl : {"-"},
         key : Numbers, stale : BOOLEAN]

Typed ==
  /\ m \in Machines /\ agenda \in Seq(Items) /\ thrown = FALSE
  /\ below \in Tpms /\ asks \in SUBSET Requests
  /\ calls \in Seq(Callings) /\ Len(calls) <= MaxCalls

\* What a handler gives back.
Results == [m : Machines, now : Seq(Items)]

-----------------------------------------------------------------------------
(* The invariant.                                                          *)

\* An activation that has not had its key persisted yet is at this item.
Activates(x, n) ==
  /\ x.cb.fn \in Early /\ x.cb.id = n
  /\ \/ x.at = "ask"
     \/ x.at = "callback" /\ x.do = "call" /\ (x.cb.fn = "Persist" => x.err)
UnderWay(s, n) == \E i \in DOMAIN s : Activates(s[i], n)

\* The public part of the key of the TPM has been read.
ReadsBack(x) == x.at = "callback" /\ x.do = "call" /\ x.cb.fn = "ReadIdentity"

\* A client that is connected has the key of the TPM, or none, or that of an
\* activation that is under way, or is about to be told.
Known ==
  m.state = "connected" /\ ~below.stale =>
    \/ m.pub \in {0, below.key}
    \/ \E a \in asks : a.cb.fn \in Early /\ a.cb.id = m.pub
    \/ UnderWay(agenda, m.pub)
    \/ agenda # <<>> /\ ReadsBack(Head(agenda))

Inv == kind = "tpm" => Typed /\ Known

\* What a handler that has run the item x leaves is either right, or as it was.
Keeps(r, x) ==
  r.m.state = "connected" =>
    \/ r.m.pub \in {0, below.key}
    \/ UnderWay(r.now, r.m.pub)
    \/ m.state = "connected" /\ r.m.pub = m.pub /\ ~ReadsBack(x) /\ ~Activates(x, m.pub)

-----------------------------------------------------------------------------
(* Facts about closures and items.                                         *)

\* A closure has its fields.
LEMMA ClosureFields ==
  ASSUME NEW c \in Closures
  PROVE  /\ c.fn \in Names /\ c.id \in Numbers /\ c.op \in TpmCalls
         /\ c.then \in {"-", "EK", "SRK"} /\ c.err \in BOOLEAN /\ Fits(c.fn, c.op)
BY DEF Closures

\* It is renamed for the function that is to get the answer.
LEMMA Renamed ==
  ASSUME NEW c \in Closures, NEW fn \in Names, Fits(fn, c.op)
  PROVE  /\ [c EXCEPT !.fn = fn] \in Closures
         /\ [c EXCEPT !.fn = fn].fn = fn /\ [c EXCEPT !.fn = fn].id = c.id
         /\ [c EXCEPT !.fn = fn].op = c.op
BY DEF Closures

\* With the key that it is for.
LEMMA RenamedFor ==
  ASSUME NEW c \in Closures, NEW then \in {"EK", "SRK"}
  PROVE  /\ [c EXCEPT !.fn = "ReadPublic", !.then = then] \in Closures
         /\ [c EXCEPT !.fn = "ReadPublic", !.then = then].fn = "ReadPublic"
BY DEF Closures, Fits, Names, Commands

\* The closure of the call itself.
LEMMA UserClosure ==
  ASSUME NEW c \in Closures
  PROVE  ToUser(c) \in Closures /\ ToUser(c).fn = "user" /\ ToUser(c).id = c.id
BY DEF Closures, Fits, Names, ToUser

\* A new one, for a function of the client.
LEMMA NewClosure ==
  ASSUME NEW fn \in {"user", "connected", "regId", "hashed"}, NEW id \in Numbers,
         NEW op \in TpmCalls
  PROVE  /\ Closure(fn, id, op) \in Closures /\ Closure(fn, id, op).fn = fn
         /\ Closure(fn, id, op).id = id /\ Closure(fn, id, op).op = op
BY DEF Closures, Closure, Fits, Names

\* An item has its fields.
LEMMA ItemFields ==
  ASSUME NEW x \in Items
  PROVE  /\ x.at \in {"machine", "ask", "callback"} /\ x.cb \in Closures /\ x.err \in BOOLEAN
         /\ Shaped(x)
BY DEF Items

\* An item of one of the three places.
LEMMA InputItem ==
  ASSUME NEW do \in {"enter"} \cup TpmStates \cup TpmInputs, NEW cb \in Closures,
         NEW err \in BOOLEAN, do \in {"sign", "signLong"} => cb.op = do
  PROVE  /\ Input("machine", do, cb, err) \in Items
         /\ do \in TpmInputs => Input("machine", do, cb, err) \in Inputs
BY DEF Items, Inputs, Shaped, Input, TpmStates, TpmInputs, Commands

\* A call of the user, or one that is lost, as an item of the turn.
LEMMA CallItem ==
  ASSUME NEW cb \in Closures, NEW err \in BOOLEAN, NEW do \in {"call", "drop"}
  PROVE  Input("callback", do, cb, err) \in Items
BY DEF Items, Shaped, Input

\* A command for the TPM as an item of the turn.
LEMMA AskItem ==
  ASSUME NEW cb \in Closures, cb.fn \in Commands
  PROVE  Input("ask", cb.fn, cb, FALSE) \in Items
BY DEF Items, Shaped, Input

\* A turn of one item.
LEMMA OneItem ==
  ASSUME NEW x \in Items, NEW n, NEW s, s = <<x>>
  PROVE  /\ s \in Seq(Items) /\ s # <<>> /\ Head(s) = x
         /\ Activates(x, n) => UnderWay(s, n)
<1>1. s \in Seq(Items) /\ s # <<>> /\ Head(s) = x /\ 1 \in DOMAIN s /\ s[1] = x
  OBVIOUS
<1>2. QED
  BY <1>1 DEF UnderWay

\* The items of two turns, one after the other.
LEMMA TwoTurns ==
  ASSUME NEW s \in Seq(Items), NEW t \in Seq(Items), NEW n
  PROVE  /\ s \o t \in Seq(Items)
         /\ UnderWay(s, n) \/ UnderWay(t, n) => UnderWay(s \o t, n)
<1>1. /\ s \o t \in Seq(Items) /\ Len(s) \in Nat /\ Len(t) \in Nat
      /\ DOMAIN s = 1..Len(s) /\ DOMAIN t = 1..Len(t)
      /\ DOMAIN (s \o t) = 1..(Len(s) + Len(t))
      /\ \A i \in 1..(Len(s) + Len(t)) :
           (s \o t)[i] = IF i <= Len(s) THEN s[i] ELSE t[i - Len(s)]
  BY ConcatProperties, LenProperties
<1>2. ASSUME NEW i \in DOMAIN s, Activates(s[i], n)  PROVE UnderWay(s \o t, n)
  <2>1. i \in DOMAIN (s \o t) /\ (s \o t)[i] = s[i]
    BY <1>1
  <2>2. QED
    BY <1>2, <2>1, Zenon DEF UnderWay
<1>3. ASSUME NEW i \in DOMAIN t, Activates(t[i], n)  PROVE UnderWay(s \o t, n)
  <2>1. Len(s) + i \in DOMAIN (s \o t) /\ (s \o t)[Len(s) + i] = t[i]
    BY <1>1
  <2>2. QED
    BY <1>3, <2>1, Zenon DEF UnderWay
<1>4. QED
  BY <1>1, <1>2, <1>3 DEF UnderWay

\* The first item of a turn and the rest.
LEMMA FirstItem ==
  ASSUME NEW s \in Seq(Items), s # <<>>
  PROVE  /\ Head(s) \in Items /\ Tail(s) \in Seq(Items)
         /\ \A n : UnderWay(s, n) => Activates(Head(s), n) \/ UnderWay(Tail(s), n)
<1>1. Head(s) \in Items /\ Tail(s) \in Seq(Items) /\ Head(s) = s[1]
  BY HeadTailProperties
<1>2. ASSUME NEW n, NEW i \in DOMAIN s, Activates(s[i], n), i # 1
      PROVE  UnderWay(Tail(s), n)
  <2>1. i - 1 \in DOMAIN Tail(s) /\ Tail(s)[i - 1] = s[i]
    BY <1>2
  <2>2. QED
    BY <1>2, <2>1 DEF UnderWay
<1>3. QED
  BY <1>1, <1>2 DEF UnderWay

-----------------------------------------------------------------------------
(* The commands, in their order.                                           *)

\* A command that is there once is followed by the one after it.
LEMMA NextStep ==
  ASSUME NEW steps, NEW i \in DOMAIN steps,
         \A j \in DOMAIN steps : steps[j] = steps[i] => j = i
  PROVE  After(steps, steps[i]) = steps[1 + i]
<1>1. (CHOOSE j \in DOMAIN steps : steps[j] = steps[i]) = i
  OBVIOUS
<1>2. QED
  BY <1>1, Zenon DEF After

\* An activation stays one, up to the command that persists the key.
LEMMA AfterActivation ==
  ASSUME NEW step \in Early \cup {"FlushKey"}
  PROVE  /\ After(Activation, step) \in Early \cup {"FlushKey", "FlushSession"}
         /\ step \in Early \ {"Persist"} => After(Activation, step) \in Early
<1>1. /\ DOMAIN Activation = 1..10
      /\ Activation[1] = "GetRandom" /\ Activation[2] = "StartAuthSession"
      /\ Activation[3] = "PolicySecret" /\ Activation[4] = "ActivateCredential"
      /\ Activation[5] = "Import" /\ Activation[6] = "Load" /\ Activation[7] = "EvictOld"
      /\ Activation[8] = "Persist" /\ Activation[9] = "FlushKey"
      /\ Activation[10] = "FlushSession"
  BY DEF Activation
<1>2. \A i, j \in 1..10 : Activation[i] = Activation[j] => i = j
  BY <1>1
<1>3. PICK i \in 1..9 : /\ Activation[i] = step /\ (i = 9 \/ i \in 1..8)
                        /\ step # "Persist" /\ step # "FlushKey" => i \in 1..7
  BY <1>1 DEF Early
<1>4. After(Activation, step) = Activation[1 + i]
  BY <1>1, <1>2, <1>3, NextStep
<1>5. Activation[1 + i] \in Early \cup {"FlushKey", "FlushSession"}
  BY <1>1, <1>3 DEF Early
<1>6. step \in Early \ {"Persist"} => Activation[1 + i] \in Early
  BY <1>1, <1>3 DEF Early
<1>7. QED
  BY <1>4, <1>5, <1>6

\* So does the creation of a key.
LEMMA AfterCreation ==
  ASSUME NEW step \in {"ReadPublic", "CreatePrimary", "EvictControl"}
  PROVE  After(Creation, step) \in {"CreatePrimary", "EvictControl", "FlushContext"}
<1>1. /\ DOMAIN Creation = 1..4
      /\ Creation[1] = "ReadPublic" /\ Creation[2] = "CreatePrimary"
      /\ Creation[3] = "EvictControl" /\ Creation[4] = "FlushContext"
  BY DEF Creation
<1>2. PICK i \in 1..3 : Creation[i] = step
  BY <1>1
<1>3. After(Creation, step) = Creation[1 + i]
  <2>1. \A j \in 1..4 : Creation[j] = Creation[i] => j = i
    BY <1>1, <1>2
  <2>2. QED
    BY <1>1, <1>2, <2>1, NextStep
<1>4. QED
  BY <1>1, <1>2, <1>3

\* And a signature, short or long.
LEMMA AfterSigning ==
  ASSUME NEW op \in {"sign", "signLong"}, NEW step, Fits(step, op),
         step \in {"GetCapability", "HMAC_Start", "SequenceUpdate"}
  PROVE  /\ After(Signing[op], step) \in {"HMAC", "HMAC_Start", "SequenceUpdate",
                                          "SequenceComplete"}
         /\ Fits(After(Signing[op], step), op)
<1>1. CASE op = "sign"
  <2>1. /\ Signing[op] = <<"GetCapability", "HMAC">> /\ step = "GetCapability"
    BY <1>1 DEF Signing, Fits
  <2>2. PICK s : s = Signing[op] /\ DOMAIN s = 1..2 /\ s[1] = step /\ s[2] = "HMAC"
    BY <2>1
  <2>3. After(s, s[1]) = s[1 + 1]
    <3>1. 1 \in DOMAIN s /\ \A j \in DOMAIN s : s[j] = s[1] => j = 1
      BY <2>1, <2>2
    <3>2. QED
      BY <3>1, NextStep, Zenon
  <2>4. After(Signing[op], step) = "HMAC"
    BY <2>2, <2>3
  <2>5. QED
    BY <1>1, <2>4 DEF Fits
<1>2. CASE op = "signLong"
  <2>1. Signing[op] = <<"GetCapability", "HMAC_Start", "SequenceUpdate", "SequenceComplete">>
    BY <1>2 DEF Signing
  <2>2. PICK s : /\ s = Signing[op] /\ DOMAIN s = 1..4
                 /\ s[1] = "GetCapability" /\ s[2] = "HMAC_Start"
                 /\ s[3] = "SequenceUpdate" /\ s[4] = "SequenceComplete"
    BY <2>1
  <2>3. PICK i \in 1..3 : s[i] = step
    BY <2>2
  <2>4. After(s, s[i]) = s[1 + i]
    <3>1. i \in DOMAIN s /\ \A j \in DOMAIN s : s[j] = s[i] => j = i
      BY <2>2, <2>3
    <3>2. QED
      BY <3>1, NextStep, Zenon
  <2>5. After(Signing[op], step) \in {"HMAC_Start", "SequenceUpdate", "SequenceComplete"}
    BY <2>2, <2>3, <2>4
  <2>6. QED
    BY <1>2, <2>5 DEF Fits
<1>3. QED
  BY <1>1, <1>2

-----------------------------------------------------------------------------
(* What the handlers give back.                                            *)

\* The machine and the items of a handler.
LEMMA ResultFields ==
  ASSUME NEW n, NEW now
  PROVE  /\ Done(n, now).m = n /\ Done(n, now).now = now
         /\ n \in Machines /\ now \in Seq(Items) => Done(n, now) \in Results
BY DEF Done, Results

\* A function may run nothing at once.
LEMMA NothingFacts ==
  ASSUME NEW n \in Machines
  PROVE  Done(n, <<>>) \in Results /\ Done(n, <<>>).m = n
<1>1. <<>> \in Seq(Items)
  OBVIOUS
<1>2. PICK s \in Seq(Items) : s = <<>>
  BY <1>1, Zenon
<1>3. QED
  BY <1>2, ResultFields

\* The states and the commands that the functions name.
LEMMA Literals ==
  /\ "disconnected" \in TpmStates /\ "connecting" \in TpmStates /\ "connected" \in TpmStates
  /\ "ReadPublic" \in Commands /\ "CreatePrimary" \in Commands /\ "ReadIdentity" \in Commands
  /\ "GetCapability" \in Commands /\ "GetRandom" \in Commands
BY DEF TpmStates, Commands

\* A callback is called or lost.
LEMMA CallFacts ==
  ASSUME NEW n \in Machines, NEW cb \in Closures, NEW err \in BOOLEAN, NEW r,
         r = Done(n, Call(cb, err)) \/ r = Done(n, Dropped(cb))
  PROVE  r \in Results /\ r.m = n
<1>1. Call(cb, err) \in Seq(Items) /\ Dropped(cb) \in Seq(Items)
  BY CallItem, OneItem, Zenon DEF Call, Dropped
<1>2. PICK now \in Seq(Items) : r = Done(n, now)
  BY <1>1, Zenon
<1>3. QED
  BY <1>2, ResultFields

\* The machine is given an input.
LEMMA InputFacts ==
  ASSUME NEW n \in Machines, NEW do \in TpmInputs, NEW cb \in Closures,
         do \in {"sign", "signLong"} => cb.op = do, NEW r,
         r = Done(n, <<Input("machine", do, cb, FALSE)>>)
  PROVE  r \in Results /\ r.m = n
<1> DEFINE y == Input("machine", do, cb, FALSE)
<1>1. y \in Items
  BY InputItem
<1>2. PICK s : s = <<y>>
  OBVIOUS
<1>3. s \in Seq(Items)
  BY <1>1, <1>2, OneItem, Zenon
<1>4. QED
  BY <1>2, <1>3, ResultFields

\* The TPM is asked for a command.
LEMMA AskFacts ==
  ASSUME NEW n \in Machines, NEW cb \in Closures, cb.fn \in Commands, NEW r,
         r = Done(n, Ask(cb.fn, cb))
  PROVE  /\ r \in Results /\ r.m = n
         /\ cb.fn \in Early => UnderWay(r.now, cb.id)
<1> DEFINE x == Input("ask", cb.fn, cb, FALSE)
<1>1. x \in Items /\ (cb.fn \in Early => Activates(x, cb.id))
  BY AskItem DEF Activates, Input
<1>2. PICK s : s = Ask(cb.fn, cb) /\ s = <<x>>
  BY DEF Ask
<1>3. s \in Seq(Items) /\ (Activates(x, cb.id) => UnderWay(s, cb.id))
  BY <1>1, <1>2, OneItem, Zenon
<1>4. QED
  BY <1>1, <1>2, <1>3, ResultFields

\* Under the name of the command.
LEMMA AskTpmFacts ==
  ASSUME NEW n \in Machines, NEW cb \in Closures, NEW step \in Commands, Fits(step, cb.op)
  PROVE  /\ AskTpm(n, cb, step) \in Results /\ AskTpm(n, cb, step).m = n
         /\ step \in Early => UnderWay(AskTpm(n, cb, step).now, cb.id)
<1>1. PICK c \in Closures : c = [cb EXCEPT !.fn = step] /\ c.fn = step /\ c.id = cb.id
  BY Renamed DEF Names
<1>2. PICK r : r = AskTpm(n, cb, step) /\ r = Done(n, Ask(c.fn, c))
  BY <1>1, Zenon DEF AskTpm
<1>3. c \in Closures /\ c.fn \in Commands
  BY <1>1
<1>4. r \in Results /\ r.m = n /\ (c.fn \in Early => UnderWay(r.now, c.id))
  BY <1>2, <1>3, AskFacts
<1>5. QED
  BY <1>1, <1>2, <1>4

\* The fields of a machine, and a transition of it.
LEMMA MachineFields ==
  ASSUME NEW n \in Machines
  PROVE  /\ n.name = "machine" /\ n.state \in TpmStates /\ n.pub \in Numbers
         /\ n.deferred \in Seq(Deferrals)
         /\ \A to \in TpmStates :
              /\ [n EXCEPT !.state = to] \in Machines
              /\ [n EXCEPT !.state = to].state = to /\ [n EXCEPT !.state = to].pub = n.pub
         /\ \A p \in Numbers :
              /\ [n EXCEPT !.pub = p] \in Machines
              /\ [n EXCEPT !.pub = p].pub = p /\ [n EXCEPT !.pub = p].state = n.state
BY DEF Machines

\* A transition leaves the machine in the state it is to, with its key.
LEMMA MoveFacts ==
  ASSUME NEW n \in Machines, NEW to \in TpmStates, NEW cb \in Closures, NEW err \in BOOLEAN
  PROVE  /\ Move(n, to, cb, err) \in Results
         /\ Move(n, to, cb, err).m.state = to /\ Move(n, to, cb, err).m.pub = n.pub
<1>1. CASE to = n.state
  BY <1>1, CallFacts DEF Move
<1>2. CASE to # n.state
  <2> DEFINE moved == [n EXCEPT !.state = to]
             entered == <<Input(n.name, "enter", cb, err)>>
             replayed == IF n.deferred = <<>> THEN <<>> ELSE <<Input(n.name, to, cb, FALSE)>>
  <2>1. moved \in Machines /\ moved.state = to /\ moved.pub = n.pub /\ n.name = "machine"
    BY MachineFields
  <2>2. entered \in Seq(Items)
    BY <2>1, InputItem, OneItem, Zenon
  <2>3. replayed \in Seq(Items)
    <3>1. to \notin {"sign", "signLong"}
      BY DEF TpmStates
    <3>2. <<Input(n.name, to, cb, FALSE)>> \in Seq(Items)
      BY <2>1, <3>1, InputItem, OneItem, Zenon
    <3>3. <<>> \in Seq(Items)
      OBVIOUS
    <3>4. QED
      BY <3>2, <3>3
  <2>4. entered \o replayed \in Seq(Items)
    BY <2>2, <2>3, TwoTurns
  <2>5. Move(n, to, cb, err) = Done(moved, entered \o replayed)
    BY <1>2 DEF Move
  <2>6. Done(moved, entered \o replayed) \in Results
        /\ Done(moved, entered \o replayed).m = moved
    <3> HIDE DEF moved, entered, replayed
    <3>1. QED
      BY <2>1, <2>4, ResultFields
  <2> HIDE DEF moved, entered, replayed
  <2>7. QED
    BY <2>1, <2>5, <2>6
<1>3. QED
  BY <1>1, <1>2

\* To each of the states that the functions name.
LEMMA MovesTo ==
  ASSUME NEW n \in Machines, NEW cb \in Closures, NEW err \in BOOLEAN, NEW r,
         \/ r = Move(n, "disconnected", cb, err)
         \/ r = Move(n, "connecting", cb, err)
  PROVE  r \in Results /\ r.m.state # "connected"
<1>1. PICK to \in TpmStates : r = Move(n, to, cb, err) /\ to # "connected"
  BY Literals, Zenon
<1>2. QED
  BY <1>1, MoveFacts

\* Also when it is connected to, with a key that it has read.
LEMMA MovesToConnected ==
  ASSUME NEW n \in Machines, NEW cb \in Closures, NEW err \in BOOLEAN, NEW r,
         r = Move(n, "connected", cb, err)
  PROVE  r \in Results /\ r.m.pub = n.pub
<1>1. PICK to \in TpmStates : r = Move(n, to, cb, err)
  BY Literals, Zenon
<1>2. QED
  BY <1>1, MoveFacts

\* The commands that the functions of the client are told apart by.
LEMMA CommandSets ==
  /\ Range(Activation) = Early \cup {"FlushKey", "FlushSession"}
  /\ Range(Signing.sign) \cup Range(Signing.signLong)
       = {"GetCapability", "HMAC", "HMAC_Start", "SequenceUpdate", "SequenceComplete"}
<1>1. Range(Activation) = Early \cup {"FlushKey", "FlushSession"}
  BY DEF Range, Activation, Early
<1>2. Range(Signing.sign) = {"GetCapability", "HMAC"}
  BY DEF Range, Signing
<1>3. Range(Signing.signLong) = {"GetCapability", "HMAC_Start", "SequenceUpdate",
                                 "SequenceComplete"}
  BY DEF Range, Signing
<1>4. QED
  BY <1>1, <1>2, <1>3

\* The function that is called.
LEMMA Dispatched ==
  ASSUME NEW x, NEW r, r = TpmCallback(m, x.cb, x.err, below.key)
  PROVE  /\ x.cb.fn = "connected" =>
              r = Done(m, IF x.err THEN Call(Caller(x.cb), TRUE)
                          ELSE <<Input("machine", TpmOp(x.cb.op), Caller(x.cb), FALSE)>>)
         /\ x.cb.fn = "regId" => r = RegistrationId(m, x.cb)
         /\ x.cb.fn = "hashed" => r = Hashed(m, x.cb, x.err)
         /\ x.cb.fn = "ReadIdentity" => r = IdentityRead(m, x.cb, x.err, below.key)
         /\ x.cb.fn \in Early \cup {"FlushKey", "FlushSession"} =>
              r = Activating(m, x.cb, x.err)
         /\ x.cb.fn \in {"GetCapability", "HMAC", "HMAC_Start", "SequenceUpdate",
                         "SequenceComplete"} => r = SigningStep(m, x.cb, x.err)
         /\ x.cb.fn \in {"ReadPublic", "CreatePrimary", "EvictControl", "FlushContext"} =>
              r = Primary(m, x.cb, x.err)
<1>1. r = CASE x.cb.fn = "connected" ->
                 Done(m, IF x.err THEN Call(Caller(x.cb), TRUE)
                         ELSE <<Input("machine", TpmOp(x.cb.op), Caller(x.cb), FALSE)>>)
            [] x.cb.fn = "regId" -> RegistrationId(m, x.cb)
            [] x.cb.fn = "hashed" -> Hashed(m, x.cb, x.err)
            [] x.cb.fn = "ReadIdentity" -> IdentityRead(m, x.cb, x.err, below.key)
            [] x.cb.fn \in Early \cup {"FlushKey", "FlushSession"} ->
                 Activating(m, x.cb, x.err)
            [] x.cb.fn \in {"GetCapability", "HMAC", "HMAC_Start", "SequenceUpdate",
                            "SequenceComplete"} -> SigningStep(m, x.cb, x.err)
            [] OTHER -> Primary(m, x.cb, x.err)
  BY CommandSets DEF TpmCallback
<1>2. QED
  BY <1>1 DEF Early

-----------------------------------------------------------------------------
(* What the functions of the client leave.                                 *)

\* A function that has left the machine as it is, or not connected, or without a
\* key, or with that of the TPM, has kept what is known.
LEMMA KeepsEasily ==
  ASSUME NEW r, NEW x,
         \/ r.m.state # "connected"
         \/ r.m.pub = 0 \/ r.m.pub = below.key
         \/ r.m = m /\ ~ReadsBack(x) /\ ~Activates(x, m.pub)
  PROVE  Keeps(r, x)
BY DEF Keeps

\* An input of the machine is no activation under way.
LEMMA AtTheMachine ==
  ASSUME NEW x, x.at = "machine"
  PROVE  ~ReadsBack(x) /\ \A n : ~Activates(x, n)
BY DEF ReadsBack, Activates

\* The entry to a state.
LEMMA EnterKeeps ==
  ASSUME Typed, NEW x \in Items, x.at = "machine"
  PROVE  TpmEnter(m, x.cb, x.err) \in Results /\ Keeps(TpmEnter(m, x.cb, x.err), x)
<1> SUFFICES ASSUME NEW r, r = TpmEnter(m, x.cb, x.err)
             PROVE  r \in Results /\ Keeps(r, x)
  OBVIOUS
<1>1. m \in Machines /\ x.cb \in Closures /\ x.err \in BOOLEAN /\ ~ReadsBack(x)
      /\ ~Activates(x, m.pub)
  BY ItemFields, AtTheMachine DEF Typed
<1>2. CASE m.state = "disconnected"
  <2>1. PICK n \in Machines : n = [m EXCEPT !.pub = 0] /\ n.pub = 0
    <3>1. 0 \in Numbers
      BY ProvisioningAssumption DEF Numbers
    <3>2. [m EXCEPT !.pub = 0] \in Machines /\ [m EXCEPT !.pub = 0].pub = 0
      BY <1>1, <3>1, MachineFields
    <3>3. QED
      BY <3>2, Zenon
  <2>2. r = Done(n, Call(x.cb, x.err))
    BY <1>2, <2>1, Zenon DEF TpmEnter
  <2>3. r \in Results /\ r.m = n
    BY <1>1, <2>2, CallFacts
  <2>4. QED
    BY <2>1, <2>3, KeepsEasily
<1>3. CASE m.state = "connecting"
  <2>1. PICK c \in Closures : /\ c = [x.cb EXCEPT !.fn = "ReadPublic", !.then = "EK"]
                              /\ c.fn = "ReadPublic"
    BY <1>1, RenamedFor
  <2>2. r = Done(m, Ask(c.fn, c))
    BY <1>3, <2>1 DEF TpmEnter
  <2>3. r \in Results /\ r.m = m
    <3>1. m \in Machines /\ c \in Closures /\ c.fn \in Commands
      BY <1>1, <2>1, Literals
    <3>2. QED
      BY <2>2, <3>1, AskFacts
  <2>4. QED
    BY <1>1, <2>3, KeepsEasily
<1>4. CASE m.state = "connected"
  <2>1. r = Done(m, Call(x.cb, FALSE))
    BY <1>4 DEF TpmEnter
  <2>2. r \in Results /\ r.m = m
    BY <1>1, <2>1, CallFacts
  <2>3. QED
    BY <1>1, <2>2, KeepsEasily
<1>5. QED
  BY <1>1, <1>2, <1>3, <1>4, MachineFields DEF TpmStates

\* What is put off is handled again after the next transition, all of it.
LEMMA ReplayKeeps ==
  ASSUME Typed, NEW x \in Items, x.at = "machine", NEW to \in TpmStates
  PROVE  Replay(m, to) \in Results /\ Keeps(Replay(m, to), x)
<1> SUFFICES ASSUME NEW r, r = Replay(m, to)
             PROVE  r \in Results /\ Keeps(r, x)
  OBVIOUS
<1> DEFINE now == [i \in DOMAIN m.deferred |-> m.deferred[i].input]
           n == [m EXCEPT !.deferred = <<>>]
<1>1. m \in Machines /\ ~ReadsBack(x) /\ ~Activates(x, m.pub)
  BY AtTheMachine DEF Typed
<1>2. CASE m.state # to
  <2>1. r = Done(m, <<>>)
    BY <1>2 DEF Replay
  <2>2. r \in Results /\ r.m = m
    BY <1>1, <2>1, NothingFacts
  <2>3. QED
    BY <1>1, <2>2, KeepsEasily
<1>3. CASE m.state = to
  <2>1. /\ m.deferred \in Seq(Deferrals)
        /\ DOMAIN m.deferred = 1..Len(m.deferred) /\ Len(m.deferred) \in Nat
        /\ \A i \in DOMAIN m.deferred : m.deferred[i] \in Deferrals
    <3>1. m.deferred \in Seq(Deferrals)
      BY <1>1, MachineFields
    <3>2. QED
      BY <3>1, LenProperties, ElementOfSeq
  <2>2. \A i \in DOMAIN m.deferred :
          m.deferred[i].until \in {"any", to} /\ m.deferred[i].input \in Items
    BY <2>1 DEF Inputs, Deferrals
  <2>3. now \in Seq(Items)
    <3>1. /\ DOMAIN now = 1..Len(m.deferred)
          /\ \A i \in 1..Len(m.deferred) : now[i] \in Items
      BY <2>1, <2>2
    <3>2. QED
      BY <2>1, <2>2, <3>1, SeqDef
  <2>4. n \in Machines /\ n.state = m.state /\ n.pub = m.pub
    <3>1. <<>> \in Seq(Deferrals)
      OBVIOUS
    <3>2. QED
      BY <1>1, <3>1 DEF Machines
  <2>5. r = Done(n, now)
    BY <1>3, <2>2, Zenon DEF Replay
  <2>6. r \in Results /\ r.m = n
    <3> HIDE DEF now, n
    <3>1. QED
      BY <2>3, <2>4, <2>5, ResultFields
  <2> HIDE DEF now, n
  <2>7. QED
    BY <1>1, <2>4, <2>6 DEF Keeps
<1>4. QED
  BY <1>2, <1>3

\* A call of a client that is connected.
LEMMA ConnectedKeeps ==
  ASSUME Typed, NEW x \in Inputs
  PROVE  TpmConnected(m, x) \in Results /\ Keeps(TpmConnected(m, x), x)
<1> SUFFICES ASSUME NEW r, r = TpmConnected(m, x)
             PROVE  r \in Results /\ Keeps(r, x)
  OBVIOUS
<1>1. /\ m \in Machines /\ x \in Items /\ x.cb \in Closures /\ x.err \in BOOLEAN
      /\ x.do \in TpmInputs
      /\ x.do \in {"sign", "signLong"} => x.cb.op = x.do
      /\ ~ReadsBack(x) /\ ~Activates(x, m.pub)
  BY ItemFields, AtTheMachine DEF Typed, Inputs, Shaped
<1>2. CASE x.do \in {"ek", "srk"}
  <2>1. r = Done(m, Call(x.cb, FALSE))
    BY <1>2 DEF TpmConnected
  <2>2. r \in Results /\ r.m = m
    BY <1>1, <2>1, CallFacts
  <2>3. QED
    BY <1>1, <2>2, KeepsEasily
<1>3. CASE x.do \in {"sign", "signLong"} /\ m.pub = 0
  <2>1. r = Move(m, "disconnected", x.cb, TRUE)
    BY <1>3 DEF TpmConnected
  <2>2. r \in Results /\ r.m.state # "connected"
    BY <1>1, <2>1, MovesTo
  <2>3. QED
    BY <2>2, KeepsEasily
<1>4. CASE x.do \in {"sign", "signLong"} /\ m.pub # 0
  <2>1. r = AskTpm(m, x.cb, "GetCapability")
    BY <1>4 DEF TpmConnected
  <2>2. Fits("GetCapability", x.cb.op)
    BY <1>1, <1>4 DEF Fits
  <2>3. r \in Results /\ r.m = m
    BY <1>1, <2>1, <2>2, AskTpmFacts, Literals
  <2>4. QED
    BY <1>1, <2>3, KeepsEasily
<1>5. CASE x.do = "activate"
  <2>1. PICK n \in Machines : n = [m EXCEPT !.pub = x.cb.id] /\ n.pub = x.cb.id
    <3>1. m \in Machines /\ x.cb.id \in Numbers
      BY <1>1, ClosureFields
    <3>2. [m EXCEPT !.pub = x.cb.id] \in Machines /\ [m EXCEPT !.pub = x.cb.id].pub = x.cb.id
      BY <3>1, MachineFields
    <3>3. QED
      BY <3>2, Zenon
  <2>2. CASE x.err
    <3>1. r = Move(n, "disconnected", x.cb, TRUE)
      BY <1>5, <2>1, <2>2 DEF TpmConnected
    <3>2. r \in Results /\ r.m.state # "connected"
      BY <1>1, <3>1, MovesTo
    <3>3. QED
      BY <3>2, KeepsEasily
  <2>3. CASE ~x.err
    <3>1. r = AskTpm(n, x.cb, "GetRandom")
      BY <1>5, <2>1, <2>3 DEF TpmConnected
    <3>2. Fits("GetRandom", x.cb.op) /\ "GetRandom" \in Commands /\ "GetRandom" \in Early
      BY DEF Fits, Commands, Early
    <3>3. r \in Results /\ r.m = n /\ UnderWay(r.now, x.cb.id)
      BY <1>1, <3>1, <3>2, AskTpmFacts
    <3>4. QED
      BY <2>1, <3>3 DEF Keeps
  <2>4. QED
    BY <1>1, <2>2, <2>3
<1>6. QED
  BY <1>1, <1>2, <1>3, <1>4, <1>5 DEF TpmInputs

\* A call: the client connects first, and puts off what it is called meanwhile.
LEMMA HandleKeeps ==
  ASSUME Typed, NEW x \in Inputs
  PROVE  TpmHandle(m, x) \in Results /\ Keeps(TpmHandle(m, x), x)
<1> SUFFICES ASSUME NEW r, r = TpmHandle(m, x)
             PROVE  r \in Results /\ Keeps(r, x)
  OBVIOUS
<1>1. /\ m \in Machines /\ x \in Items /\ x.cb \in Closures
      /\ ~ReadsBack(x) /\ ~Activates(x, m.pub)
  BY ItemFields, AtTheMachine DEF Typed, Inputs
<1>2. CASE m.state = "disconnected"
  <2>1. PICK c \in Closures : c = Closure("connected", x.cb.id, x.cb.op)
    BY <1>1, ClosureFields, NewClosure
  <2>2. r = Move(m, "connecting", c, FALSE)
    BY <1>2, <2>1 DEF TpmHandle
  <2>3. r \in Results /\ r.m.state # "connected"
    BY <1>1, <2>2, MovesTo
  <2>4. QED
    BY <2>3, KeepsEasily
<1>3. CASE m.state = "connecting"
  <2> DEFINE d == [input |-> x, until |-> "any"]
             n == [m EXCEPT !.deferred = Append(m.deferred, d)]
  <2>1. d \in Deferrals
    BY DEF Deferrals
  <2>2. Append(m.deferred, d) \in Seq(Deferrals)
    BY <1>1, <2>1, MachineFields, AppendProperties
  <2>3. n \in Machines /\ n.state = m.state
    <3> HIDE DEF d
    <3>1. QED
      BY <1>1, <2>2 DEF Machines
  <2>4. r = Done(n, <<>>)
    BY <1>3 DEF TpmHandle, Defer
  <2> HIDE DEF n
  <2>5. r \in Results /\ r.m = n
    BY <2>3, <2>4, NothingFacts
  <2>6. QED
    BY <1>3, <2>3, <2>5, KeepsEasily
<1>4. CASE m.state = "connected"
  BY <1>4, ConnectedKeeps DEF TpmHandle
<1>5. QED
  BY <1>1, <1>2, <1>3, <1>4, MachineFields DEF TpmStates

\* The creation of a key: the next command, the next key, or the identity.
LEMMA PrimaryKeeps ==
  ASSUME Typed, NEW x \in Items, ~ReadsBack(x), \A n : ~Activates(x, n),
         x.cb.fn \in {"ReadPublic", "CreatePrimary", "EvictControl", "FlushContext"}
  PROVE  Primary(m, x.cb, x.err) \in Results /\ Keeps(Primary(m, x.cb, x.err), x)
<1> SUFFICES ASSUME NEW r, r = Primary(m, x.cb, x.err)
             PROVE  r \in Results /\ Keeps(r, x)
  OBVIOUS
<1>1. m \in Machines /\ x.cb \in Closures /\ x.err \in BOOLEAN
  BY ItemFields DEF Typed
<1>2. r \in Results /\ r.m = m => r \in Results /\ Keeps(r, x)
  BY KeepsEasily
<1>3. CASE x.err /\ x.cb.fn = "ReadPublic"
  <2>1. r = AskTpm(m, x.cb, "CreatePrimary")
    BY <1>3 DEF Primary
  <2>2. Fits("CreatePrimary", x.cb.op)
    BY DEF Fits
  <2>3. r \in Results /\ r.m = m
    BY <1>1, <2>1, <2>2, AskTpmFacts, Literals
  <2>4. QED
    BY <1>2, <2>3
<1>4. CASE x.err /\ x.cb.fn # "ReadPublic"
  <2>1. PICK c \in Closures : c = Closure("connected", x.cb.id, x.cb.op)
    BY <1>1, ClosureFields, NewClosure
  <2>2. r = Move(m, "disconnected", c, TRUE)
    BY <1>4, <2>1 DEF Primary
  <2>3. QED
    BY <1>1, <2>2, MovesTo, KeepsEasily
<1>5. CASE ~x.err /\ x.cb.fn \in {"ReadPublic", "FlushContext"}
  <2>1. r = PrimaryDone(m, x.cb)
    BY <1>5 DEF Primary
  <2>2. CASE x.cb.then = "EK"
    <3>1. PICK c \in Closures : /\ c = [x.cb EXCEPT !.fn = "ReadPublic", !.then = "SRK"]
                                /\ c.fn = "ReadPublic"
      BY <1>1, RenamedFor
    <3>2. r = Done(m, Ask(c.fn, c))
      BY <2>1, <2>2, <3>1 DEF PrimaryDone
    <3>3. m \in Machines /\ c \in Closures /\ c.fn \in Commands
      BY <1>1, <3>1, Literals
    <3>4. r \in Results /\ r.m = m
      BY <3>2, <3>3, AskFacts
    <3>5. QED
      BY <1>2, <3>4
  <2>3. CASE x.cb.then # "EK"
    <3>1. PICK c \in Closures : /\ c = [x.cb EXCEPT !.fn = "ReadIdentity"]
                                /\ c.fn = "ReadIdentity"
      <4>1. "ReadIdentity" \in Names /\ Fits("ReadIdentity", x.cb.op)
        BY Literals DEF Names, Fits
      <4>2. QED
        BY <1>1, <4>1, Renamed
    <3>2. r = Done(m, Ask(c.fn, c))
      BY <2>1, <2>3, <3>1 DEF PrimaryDone
    <3>3. m \in Machines /\ c \in Closures /\ c.fn \in Commands
      BY <1>1, <3>1, Literals
    <3>4. r \in Results /\ r.m = m
      BY <3>2, <3>3, AskFacts
    <3>5. QED
      BY <1>2, <3>4
  <2>4. QED
    BY <2>2, <2>3
<1>6. CASE ~x.err /\ x.cb.fn \in {"CreatePrimary", "EvictControl"}
  <2>1. PICK step : /\ step = After(Creation, x.cb.fn)
                    /\ step \in {"CreatePrimary", "EvictControl", "FlushContext"}
    BY <1>6, AfterCreation
  <2>2. r = AskTpm(m, x.cb, step)
    BY <1>6, <2>1 DEF Primary
  <2>3. step \in Commands /\ Fits(step, x.cb.op)
    BY <2>1 DEF Commands, Fits
  <2>4. r \in Results /\ r.m = m
    BY <1>1, <2>2, <2>3, AskTpmFacts
  <2>5. QED
    BY <1>2, <2>4
<1>7. QED
  BY <1>1, <1>3, <1>4, <1>5, <1>6

\* The identity that is read is the key of the TPM, or none.
LEMMA IdentityKeeps ==
  ASSUME Typed, NEW x \in Items
  PROVE  /\ IdentityRead(m, x.cb, x.err, below.key) \in Results
         /\ Keeps(IdentityRead(m, x.cb, x.err, below.key), x)
<1> SUFFICES ASSUME NEW r, r = IdentityRead(m, x.cb, x.err, below.key)
             PROVE  r \in Results /\ Keeps(r, x)
  OBVIOUS
<1>1. m \in Machines /\ x.cb \in Closures /\ x.err \in BOOLEAN /\ below.key \in Numbers
  BY ItemFields DEF Typed, Tpms
<1>2. PICK p \in Numbers : p = (IF x.err THEN 0 ELSE below.key) /\ p \in {0, below.key}
  BY <1>1, ProvisioningAssumption DEF Numbers
<1>3. PICK n \in Machines : n = [m EXCEPT !.pub = p] /\ n.pub = p
  <2>1. p \in Numbers /\ m \in Machines
    BY <1>1, <1>2
  <2>2. [m EXCEPT !.pub = p] \in Machines /\ [m EXCEPT !.pub = p].pub = p
    BY <2>1, MachineFields
  <2>3. QED
    BY <2>2, Zenon
<1>4. PICK c \in Closures : c = Closure("connected", x.cb.id, x.cb.op)
  BY <1>1, ClosureFields, NewClosure
<1>5. r = Move(n, "connected", c, FALSE)
  BY <1>2, <1>3, <1>4 DEF IdentityRead
<1>6. n \in Machines /\ c \in Closures
  BY <1>3, <1>4
<1>7. r \in Results /\ r.m.pub = n.pub
  BY <1>1, <1>5, <1>6, MovesToConnected
<1>8. r.m.pub \in {0, below.key}
  BY <1>2, <1>3, <1>7
<1>9. QED
  BY <1>7, <1>8, KeepsEasily

\* An activation goes on until it is over, or has the client disconnected.
LEMMA ActivatingKeeps ==
  ASSUME Typed, NEW x \in Items, x.at = "callback", x.do = "call",
         x.cb.fn \in Early \cup {"FlushKey", "FlushSession"}
  PROVE  /\ Activating(m, x.cb, x.err) \in Results
         /\ Keeps(Activating(m, x.cb, x.err), x)
<1> SUFFICES ASSUME NEW r, r = Activating(m, x.cb, x.err)
             PROVE  r \in Results /\ Keeps(r, x)
  OBVIOUS
<1>1. /\ m \in Machines /\ x.cb \in Closures /\ x.err \in BOOLEAN
      /\ ~ReadsBack(x)
  BY ItemFields DEF Typed, ReadsBack, Early
<1>2. PICK user \in Closures : user = ToUser(x.cb)
  BY <1>1, UserClosure
<1>3. CASE x.err /\ x.cb.fn # "EvictOld"
  <2>1. r = Move(m, "disconnected", user, TRUE)
    BY <1>2, <1>3 DEF Activating
  <2>2. QED
    BY <1>1, <2>1, MovesTo, KeepsEasily
<1>4. CASE ~(x.err /\ x.cb.fn # "EvictOld") /\ x.cb.fn = "FlushSession"
  <2>1. r = Done(m, Call(user, FALSE))
    BY <1>2, <1>4 DEF Activating
  <2>2. r \in Results /\ r.m = m
    BY <1>1, <2>1, CallFacts
  <2>3. ~Activates(x, m.pub)
    BY <1>4 DEF Activates, Early
  <2>4. QED
    BY <1>1, <2>2, <2>3, KeepsEasily
<1>5. CASE ~(x.err /\ x.cb.fn # "EvictOld") /\ x.cb.fn # "FlushSession"
  <2>1. PICK step : /\ step = After(Activation, x.cb.fn)
                    /\ step \in Early \cup {"FlushKey", "FlushSession"}
                    /\ x.cb.fn \in Early \ {"Persist"} => step \in Early
    BY <1>5, AfterActivation
  <2>2. r = AskTpm(m, x.cb, step)
    BY <1>5, <2>1 DEF Activating
  <2>3. step \in Commands /\ Fits(step, x.cb.op)
    BY <2>1 DEF Commands, Early, Fits
  <2>4. /\ r \in Results /\ r.m = m
        /\ step \in Early => UnderWay(r.now, x.cb.id)
    BY <1>1, <2>2, <2>3, AskTpmFacts
  <2>5. Activates(x, m.pub) => UnderWay(r.now, m.pub)
    <3>1. ASSUME Activates(x, m.pub)  PROVE x.cb.id = m.pub /\ x.cb.fn \in Early \ {"Persist"}
      BY <1>5, <3>1 DEF Activates
    <3>2. QED
      BY <2>1, <2>4, <3>1
  <2>6. QED
    BY <1>1, <2>4, <2>5 DEF Keeps
<1>6. QED
  BY <1>3, <1>4, <1>5

\* So does a signature.
LEMMA SigningKeeps ==
  ASSUME Typed, NEW x \in Items, ~ReadsBack(x), \A n : ~Activates(x, n),
         x.cb.fn \in {"GetCapability", "HMAC", "HMAC_Start", "SequenceUpdate",
                      "SequenceComplete"}
  PROVE  SigningStep(m, x.cb, x.err) \in Results /\ Keeps(SigningStep(m, x.cb, x.err), x)
<1> SUFFICES ASSUME NEW r, r = SigningStep(m, x.cb, x.err)
             PROVE  r \in Results /\ Keeps(r, x)
  OBVIOUS
<1>1. m \in Machines /\ x.cb \in Closures /\ x.err \in BOOLEAN /\ Fits(x.cb.fn, x.cb.op)
  BY ItemFields, ClosureFields DEF Typed
<1>2. PICK user \in Closures : user = ToUser(x.cb)
  BY <1>1, UserClosure
<1>3. CASE x.err /\ x.cb.fn # "SequenceUpdate"
  <2>1. r = Move(m, "disconnected", user, TRUE)
    BY <1>2, <1>3 DEF SigningStep
  <2>2. QED
    BY <1>1, <2>1, MovesTo, KeepsEasily
<1>4. CASE ~(x.err /\ x.cb.fn # "SequenceUpdate") /\ x.cb.fn \in {"HMAC", "SequenceComplete"}
  <2>1. r = Done(m, Call(user, FALSE))
    BY <1>2, <1>4 DEF SigningStep
  <2>2. r \in Results /\ r.m = m
    <3>1. m \in Machines /\ user \in Closures
      BY <1>1, <1>2
    <3>2. QED
      BY <2>1, <3>1, CallFacts
  <2>3. QED
    BY <1>1, <2>2, KeepsEasily
<1>5. CASE /\ ~(x.err /\ x.cb.fn # "SequenceUpdate")
           /\ x.cb.fn \notin {"HMAC", "SequenceComplete"}
  <2>1. x.cb.op \in {"sign", "signLong"}
    BY <1>1, <1>5 DEF Fits
  <2>2. PICK step : /\ step = After(Signing[x.cb.op], x.cb.fn) /\ Fits(step, x.cb.op)
                    /\ step \in {"HMAC", "HMAC_Start", "SequenceUpdate", "SequenceComplete"}
    BY <1>1, <1>5, <2>1, AfterSigning
  <2>3. r = AskTpm(m, x.cb, step)
    BY <1>5, <2>2 DEF SigningStep
  <2>4. step \in Commands
    BY <2>2 DEF Commands
  <2>5. r \in Results /\ r.m = m
    BY <1>1, <2>2, <2>3, <2>4, AskTpmFacts
  <2>6. QED
    BY <1>1, <2>5, KeepsEasily
<1>6. QED
  BY <1>3, <1>4, <1>5

\* The functions that are no commands: the transitions, and getRegistrationId.
LEMMA OthersKeep ==
  ASSUME Typed, NEW x \in Items, x.cb.fn \in {"connected", "regId", "hashed"}
  PROVE  /\ TpmCallback(m, x.cb, x.err, below.key) \in Results
         /\ Keeps(TpmCallback(m, x.cb, x.err, below.key), x)
<1> SUFFICES ASSUME NEW r, r = TpmCallback(m, x.cb, x.err, below.key)
             PROVE  r \in Results /\ Keeps(r, x)
  OBVIOUS
<1>1. /\ m \in Machines /\ x.cb \in Closures /\ x.err \in BOOLEAN
      /\ ~ReadsBack(x) /\ ~Activates(x, m.pub)
  BY ItemFields DEF Typed, ReadsBack, Activates, Early
<1>2. PICK c \in Closures : c = Caller(x.cb) /\ c.op = x.cb.op
  BY <1>1, ClosureFields, NewClosure DEF Caller
<1>3. r \in Results /\ r.m = m => r \in Results /\ Keeps(r, x)
  BY <1>1, KeepsEasily
<1>4. CASE x.cb.fn = "connected" /\ x.err
  <2>1. r = Done(m, Call(c, TRUE))
    BY <1>2, <1>4, Dispatched
  <2>2. r \in Results /\ r.m = m
    <3>1. m \in Machines /\ c \in Closures
      BY <1>1, <1>2
    <3>2. QED
      BY <2>1, <3>1, CallFacts
  <2>3. QED
    BY <1>3, <2>2
<1>5. CASE x.cb.fn = "connected" /\ ~x.err
  <2>1. PICK do : do = TpmOp(x.cb.op)
    OBVIOUS
  <2>2. r = Done(m, <<Input("machine", do, c, FALSE)>>)
    <3>1. r = Done(m, IF x.err THEN Call(Caller(x.cb), TRUE)
                      ELSE <<Input("machine", TpmOp(x.cb.op), Caller(x.cb), FALSE)>>)
      BY <1>5, Dispatched
    <3>2. QED
      BY <1>2, <1>5, <2>1, <3>1
  <2>3. do \in TpmInputs /\ (do \in {"sign", "signLong"} => c.op = do)
    BY <1>1, <1>2, <2>1, ClosureFields DEF TpmOp, TpmInputs, TpmCalls
  <2>4. r \in Results /\ r.m = m
    <3>1. m \in Machines /\ c \in Closures
      BY <1>1, <1>2
    <3>2. QED
      BY <2>2, <2>3, <3>1, InputFacts
  <2>5. QED
    BY <1>3, <2>4
<1>6. CASE x.cb.fn = "regId" /\ m.known
  <2>1. PICK user \in Closures : user = ToUser(x.cb)
    BY <1>1, UserClosure
  <2>2. r = Done(m, Call(user, FALSE))
    <3>1. r = RegistrationId(m, x.cb)
      BY <1>6, Dispatched
    <3>2. QED
      BY <1>6, <2>1, <3>1 DEF RegistrationId
  <2>3. r \in Results /\ r.m = m
    <3>1. m \in Machines /\ user \in Closures
      BY <1>1, <2>1
    <3>2. QED
      BY <2>2, <3>1, CallFacts
  <2>4. QED
    BY <1>3, <2>3
<1>7. CASE x.cb.fn = "regId" /\ ~m.known
  <2>1. PICK do \in TpmInputs : do = "ek" /\ do \notin {"sign", "signLong"}
    BY DEF TpmInputs
  <2>2. r = Done(m, <<Input("machine", do, c, FALSE)>>)
    <3>1. r = RegistrationId(m, x.cb)
      BY <1>7, Dispatched
    <3>2. QED
      BY <1>2, <1>7, <2>1, <3>1 DEF RegistrationId
  <2>3. r \in Results /\ r.m = m
    <3>1. /\ m \in Machines /\ c \in Closures
          /\ do \in TpmInputs /\ (do \in {"sign", "signLong"} => c.op = do)
      BY <1>1, <1>2, <2>1
    <3>2. QED
      BY <2>2, <3>1, InputFacts
  <2>4. QED
    BY <1>3, <2>3
<1>8. CASE x.cb.fn = "hashed"
  <2>1. PICK user \in Closures : user = ToUser(x.cb)
    BY <1>1, UserClosure
  <2>2. PICK n \in Machines : /\ n = [m EXCEPT !.known = @ \/ ~x.err]
                              /\ n.state = m.state /\ n.pub = m.pub
    <3>1. PICK b \in BOOLEAN : b = (m.known \/ ~x.err)
      OBVIOUS
    <3>2. /\ [m EXCEPT !.known = b] \in Machines /\ [m EXCEPT !.known = b].state = m.state
          /\ [m EXCEPT !.known = b].pub = m.pub
      BY <1>1 DEF Machines
    <3>3. QED
      BY <3>1, <3>2
  <2>3. r = Done(n, Call(user, x.err))
    <3>1. r = Hashed(m, x.cb, x.err)
      BY <1>8, Dispatched
    <3>2. QED
      BY <2>1, <2>2, <3>1 DEF Hashed
  <2>4. r \in Results /\ r.m = n
    BY <1>1, <2>3, CallFacts
  <2>5. QED
    BY <1>1, <2>2, <2>4 DEF Keeps
<1>9. QED
  BY <1>1, <1>4, <1>5, <1>6, <1>7, <1>8

\* A function of the client is called.
LEMMA CallbackKeeps ==
  ASSUME Typed, NEW x \in Items, x.at = "callback", x.do = "call", x.cb.fn # "user"
  PROVE  /\ TpmCallback(m, x.cb, x.err, below.key) \in Results
         /\ Keeps(TpmCallback(m, x.cb, x.err, below.key), x)
<1> SUFFICES ASSUME NEW r, r = TpmCallback(m, x.cb, x.err, below.key)
             PROVE  r \in Results /\ Keeps(r, x)
  OBVIOUS
<1>1. x.cb.fn \in Names
  BY ItemFields, ClosureFields
<1>2. CASE x.cb.fn \in {"connected", "regId", "hashed"}
  BY <1>2, OthersKeep
<1>3. CASE x.cb.fn = "ReadIdentity"
  <2>1. r = IdentityRead(m, x.cb, x.err, below.key)
    BY <1>3, Dispatched
  <2>2. QED
    BY <2>1, IdentityKeeps
<1>4. CASE x.cb.fn \in Early \cup {"FlushKey", "FlushSession"}
  <2>1. x.cb.fn \notin {"connected", "regId", "hashed", "ReadIdentity"}
    BY <1>4 DEF Early
  <2>2. r = Activating(m, x.cb, x.err)
    BY <1>4, <2>1, Dispatched
  <2>3. QED
    BY <1>4, <2>2, ActivatingKeeps
<1>5. CASE x.cb.fn \in {"GetCapability", "HMAC", "HMAC_Start", "SequenceUpdate",
                        "SequenceComplete"}
  <2>1. /\ x.cb.fn \notin {"connected", "regId", "hashed", "ReadIdentity"}
        /\ x.cb.fn \notin Early \cup {"FlushKey", "FlushSession"}
    BY <1>5 DEF Early
  <2>2. r = SigningStep(m, x.cb, x.err)
    BY <1>5, <2>1, Dispatched
  <2>3. ~ReadsBack(x) /\ \A n : ~Activates(x, n)
    BY <2>1 DEF ReadsBack, Activates
  <2>4. QED
    BY <1>5, <2>2, <2>3, SigningKeeps
<1>6. CASE x.cb.fn \in {"ReadPublic", "CreatePrimary", "EvictControl", "FlushContext"}
  <2>1. /\ x.cb.fn \notin {"connected", "regId", "hashed", "ReadIdentity"}
        /\ x.cb.fn \notin Early \cup {"FlushKey", "FlushSession"}
        /\ x.cb.fn \notin {"GetCapability", "HMAC", "HMAC_Start", "SequenceUpdate",
                           "SequenceComplete"}
    BY <1>6 DEF Early
  <2>2. r = Primary(m, x.cb, x.err)
    BY <1>6, Dispatched
  <2>3. ~ReadsBack(x) /\ \A n : ~Activates(x, n)
    BY <2>1 DEF ReadsBack, Activates
  <2>4. QED
    BY <1>6, <2>2, <2>3, PrimaryKeeps
<1>7. QED
  BY <1>1, <1>2, <1>3, <1>4, <1>5, <1>6 DEF Names, Commands, Early

-----------------------------------------------------------------------------
(* The steps.                                                              *)

\* A turn of one item between two empty ones.
LEMMA AloneInTurn ==
  ASSUME NEW s \in Seq(Items)
  PROVE  <<>> \o s \o <<>> = s /\ <<>> \o s = s
BY ConcatEmptySeq

\* The turn goes on with what a handler has run at once.
LEMMA Advanced ==
  ASSUME Typed, Known, agenda # <<>>, NEW r \in Results, Keeps(r, Head(agenda)),
         Advance(r, Tail(agenda))
  PROVE  Typed' /\ Known'
<1> DEFINE rest == Tail(agenda)
<1>1. r.m \in Machines /\ r.now \in Seq(Items)
  BY DEF Results
<1>2. /\ Head(agenda) \in Items /\ rest \in Seq(Items)
      /\ UnderWay(agenda, m.pub) => Activates(Head(agenda), m.pub) \/ UnderWay(rest, m.pub)
  BY FirstItem DEF Typed
<1>3. \A i \in DOMAIN r.now : r.now[i].at # "tick"
  <2>1. \A i \in DOMAIN r.now : r.now[i] \in Items
    BY <1>1, ElementOfSeq, LenProperties
  <2>2. QED
    BY <2>1 DEF Items
<1>4. /\ m' = r.m /\ agenda' = r.now \o rest
      /\ UNCHANGED <<thrown, below, asks, calls>>
  BY <1>3 DEF Advance
<1>5. /\ agenda' \in Seq(Items)
      /\ UnderWay(r.now, m'.pub) \/ UnderWay(rest, m'.pub) => UnderWay(agenda', m'.pub)
  BY <1>1, <1>2, <1>4, TwoTurns, Zenon
<1>6. Typed'
  BY <1>1, <1>4, <1>5 DEF Typed
<1>7. ASSUME m'.state = "connected", ~below.stale
      PROVE  \/ m'.pub \in {0, below.key}
             \/ \E a \in asks : a.cb.fn \in Early /\ a.cb.id = m'.pub
             \/ UnderWay(agenda', m'.pub)
  <2>1. CASE m'.pub \in {0, below.key} \/ UnderWay(r.now, m'.pub)
    BY <1>5, <2>1
  <2>2. CASE /\ m.state = "connected" /\ m'.pub = m.pub
             /\ ~ReadsBack(Head(agenda)) /\ ~Activates(Head(agenda), m.pub)
    BY <1>2, <1>5, <1>7, <2>2 DEF Known
  <2>3. QED
    BY <1>4, <1>7, <2>1, <2>2 DEF Keeps
<1>8. Known'
  BY <1>4, <1>7 DEF Known
<1>9. QED
  BY <1>6, <1>8

\* What is left of a turn after an item that changes nothing the client knows.
LEMMA GoneOn ==
  ASSUME Typed, Known, agenda # <<>>, agenda' = Tail(agenda),
         ~ReadsBack(Head(agenda)), ~Activates(Head(agenda), m.pub),
         UNCHANGED <<m, thrown, below, asks>>, calls' \in Seq(Callings), Len(calls') <= MaxCalls
  PROVE  Typed' /\ Known'
<1>1. /\ agenda' \in Seq(Items)
      /\ UnderWay(agenda, m.pub) => Activates(Head(agenda), m.pub) \/ UnderWay(agenda', m.pub)
  BY FirstItem DEF Typed
<1>2. Typed'
  BY <1>1 DEF Typed
<1>3. Known'
  BY <1>1 DEF Known
<1>4. QED
  BY <1>2, <1>3

\* The user is told.
LEMMA ToldFacts ==
  ASSUME Typed, Known, agenda # <<>>, NEW how \in {"errors", "results", "dropped"}, NEW id,
         Tell(id, how, Tail(agenda)),
         ~ReadsBack(Head(agenda)), ~Activates(Head(agenda), m.pub)
  PROVE  Typed' /\ Known'
<1>1. calls \in Seq(Callings) /\ Len(calls) <= MaxCalls
  BY DEF Typed
<1>2. calls' \in Seq(Callings) /\ Len(calls') = Len(calls)
  <2>1. CASE id = 0 \/ id \notin 1..Len(calls)
    <3>1. DOMAIN calls = 1..Len(calls)
      BY <1>1, LenProperties
    <3>2. calls' = calls
      <4>1. PICK q : id # 0 => calls' = [calls EXCEPT ![id] = q]
        BY DEF Tell
      <4>2. calls = [i \in DOMAIN calls |-> calls[i]]
        BY <1>1
      <4>3. id # 0 => calls' = [i \in DOMAIN calls |-> calls[i]]
        BY <2>1, <3>1, <4>1
      <4>4. QED
        BY <4>2, <4>3 DEF Tell
    <3>3. QED
      BY <1>1, <3>2
  <2>2. CASE id # 0 /\ id \in 1..Len(calls)
    <3> DEFINE c == [calls[id] EXCEPT ![how] = @ + 1]
    <3>1. calls[id] \in Callings
      BY <1>1, <2>2, ElementOfSeq
    <3>2. c \in Callings
      BY <3>1 DEF Callings
    <3>3. calls' = [calls EXCEPT ![id] = c]
      BY <2>2 DEF Tell
    <3> HIDE DEF c
    <3>4. QED
      BY <1>1, <2>2, <3>2, <3>3, ExceptSeq
  <2>3. QED
    BY <2>1, <2>2
<1>3. agenda' = Tail(agenda) /\ UNCHANGED <<m, thrown, below, asks>>
  BY DEF Tell
<1>4. QED
  BY <1>1, <1>2, <1>3, GoneOn

\* The TPM is asked.
LEMMA AskedStep ==
  ASSUME kind = "tpm", Typed, Known, agenda # <<>>, Head(agenda).at = "ask",
         Asked(Head(agenda), Tail(agenda))
  PROVE  Typed' /\ Known'
<1> DEFINE x == Head(agenda)
           a == [do |-> x.do, cb |-> x.cb, pub |-> m.pub]
<1>1. /\ x \in Items /\ Tail(agenda) \in Seq(Items)
      /\ UnderWay(agenda, m.pub) => Activates(x, m.pub) \/ UnderWay(Tail(agenda), m.pub)
  BY FirstItem DEF Typed
<1>2. x.do \in Commands /\ x.do = x.cb.fn /\ x.cb \in Closures
  BY <1>1, ItemFields DEF Shaped
<1>3. x.do # "sas" /\ x.do \notin OfBase \cup Connects
  BY <1>2 DEF Commands, OfBase, Connects
<1>4. /\ asks' = asks \cup {a} /\ agenda' = Tail(agenda)
      /\ UNCHANGED <<m, thrown, below, calls>>
  BY <1>3 DEF Asked
<1>5. a \in Requests /\ a.cb = x.cb
  <2>1. m.pub \in Numbers
    BY MachineFields DEF Typed
  <2>2. QED
    BY <1>2, <2>1 DEF Requests
<1>6. ~ReadsBack(x)
  BY DEF ReadsBack
<1> HIDE DEF a, x
<1>7. Typed'
  BY <1>1, <1>4, <1>5 DEF Typed
<1>8. Activates(x, m.pub) => \E b \in asks' : b.cb.fn \in Early /\ b.cb.id = m.pub
  BY <1>4, <1>5 DEF Activates
<1>9. Known'
  BY <1>1, <1>4, <1>6, <1>8 DEF Known, x
<1>10. QED
  BY <1>7, <1>9

\* A turn goes on.
LEMMA RunStep ==
  ASSUME kind = "tpm", Typed, Known, Run
  PROVE  Typed' /\ Known'
<1> DEFINE x == Head(agenda)
           rest == Tail(agenda)
<1>1. agenda # <<>>
  BY DEF Run
<1>2. x \in Items /\ rest \in Seq(Items)
  BY <1>1, FirstItem DEF Typed
<1>3. x.at \in {"machine", "ask", "callback"} /\ Shaped(x)
  BY <1>2, ItemFields
<1>4. CASE x.at = "ask"
  <2>1. Asked(x, rest)
    BY <1>4 DEF Run
  <2>2. QED
    BY <1>1, <1>4, <2>1, AskedStep
<1>5. CASE x.at = "machine"
  <2>1. Advance(Step(x), rest)
    BY <1>5 DEF Run
  <2>2. PICK r : r = Step(x)
    OBVIOUS
  <2>3. x.do \in {"enter"} \cup TpmStates \cup TpmInputs
    BY <1>3, <1>5 DEF Shaped
  <2>4. r \in Results /\ Keeps(r, x)
    <3>1. CASE x.do = "enter"
      <4>1. r = TpmEnter(m, x.cb, x.err)
        BY <2>2, <3>1 DEF Step, Enter, States
      <4>2. QED
        BY <1>2, <1>5, <4>1, EnterKeeps
    <3>2. CASE x.do \in TpmStates
      <4>1. r = Replay(m, x.do)
        BY <2>2, <3>2 DEF Step, TpmStates, States
      <4>2. QED
        BY <1>2, <1>5, <3>2, <4>1, ReplayKeeps
    <3>3. CASE x.do \in TpmInputs
      <4>1. r = TpmHandle(m, x)
        BY <2>2, <3>3 DEF Step, Handle, TpmInputs, States
      <4>2. x \in Inputs
        BY <1>2, <1>5, <3>3 DEF Inputs
      <4>3. QED
        BY <4>1, <4>2, HandleKeeps
    <3>4. QED
      BY <2>3, <3>1, <3>2, <3>3
  <2>5. QED
    BY <1>1, <2>1, <2>2, <2>4, Advanced
<1>6. CASE x.at = "callback"
  <2>1. CalledBack(x, rest)
    BY <1>6 DEF Run
  <2>2. x.do \in {"call", "drop"}
    BY <1>3, <1>6 DEF Shaped
  <2>3. CASE x.do = "drop" \/ x.cb.fn = "user"
    <3>1. ~ReadsBack(x) /\ ~Activates(x, m.pub)
      BY <1>6, <2>3 DEF ReadsBack, Activates, Early
    <3>2. PICK how \in {"errors", "results", "dropped"} : Tell(x.cb.id, how, rest)
      BY <2>1, <2>3 DEF CalledBack
    <3>3. QED
      BY <1>1, <3>1, <3>2, ToldFacts
  <2>4. CASE x.do = "call" /\ x.cb.fn # "user"
    <3>1. Advance(Callback(x.cb, x.err), rest)
      BY <2>1, <2>4 DEF CalledBack
    <3>2. PICK r : r = Callback(x.cb, x.err)
      OBVIOUS
    <3>3. r = TpmCallback(m, x.cb, x.err, below.key)
      BY <3>2 DEF Callback
    <3>4. r \in Results /\ Keeps(r, x)
      BY <1>2, <1>6, <2>4, <3>3, CallbackKeeps
    <3>5. QED
      BY <1>1, <3>1, <3>2, <3>4, Advanced
  <2>5. QED
    BY <2>2, <2>3, <2>4
<1>7. QED
  BY <1>3, <1>4, <1>5, <1>6

\* The user calls.
LEMMA UserCallsStep ==
  ASSUME kind = "tpm", Typed, Known, NEW op, NEW err \in BOOLEAN, UserCalls(op, err)
  PROVE  Typed' /\ Known'
<1> DEFINE cb == Closure("user", Len(calls) + 1, op)
           c == [op |-> op, errors |-> 0, results |-> 0,
                 dropped |-> IF op = "stop" THEN 1 ELSE 0]
<1>1. op \in TpmCalls /\ agenda = <<>> /\ Len(calls) < MaxCalls
      /\ UNCHANGED <<m, thrown, below, asks>>
  BY DEF UserCalls, Quiet, Ops, TpmCalls
<1>2. calls \in Seq(Callings) /\ Len(calls) \in Nat /\ Len(calls) + 1 \in Numbers
  BY <1>1, LenProperties, ProvisioningAssumption DEF Typed, Numbers
<1>3. calls' \in Seq(Callings) /\ Len(calls') <= MaxCalls
  <2>1. c \in Callings
    BY <1>1 DEF Callings
  <2>2. calls' = Append(calls, c)
    BY DEF UserCalls
  <2> HIDE DEF c
  <2>3. QED
    BY <1>1, <1>2, <2>1, <2>2, AppendProperties, ProvisioningAssumption
<1>4. agenda' \in Seq(Items)
  <2>1. PICK u \in Closures : u = cb /\ u.op = op
    BY <1>1, <1>2, NewClosure
  <2>2. CASE op = "regId"
    <3>1. PICK g \in Closures : g = [u EXCEPT !.fn = "regId"]
      <4>1. "regId" \in Names /\ Fits("regId", u.op)
        BY DEF Names, Fits
      <4>2. QED
        BY <2>1, <4>1, Renamed
    <3>2. agenda' = <<Input("callback", "call", g, FALSE)>>
      BY <2>1, <2>2, <3>1 DEF UserCalls, Call
    <3>3. QED
      BY <3>1, <3>2, CallItem, OneItem
  <2>3. CASE op # "regId"
    <3>1. agenda' = <<Input("machine", op, u, err)>>
      BY <1>1, <2>1, <2>3 DEF UserCalls, TpmCalls
    <3>2. op \in TpmInputs
      BY <1>1, <2>3 DEF TpmCalls, TpmInputs
    <3>3. Input("machine", op, u, err) \in Items
      BY <2>1, <3>2, InputItem
    <3>4. QED
      BY <3>1, <3>3, OneItem
  <2>4. QED
    BY <2>2, <2>3
<1>5. Typed'
  BY <1>1, <1>3, <1>4 DEF Typed
<1>6. ~UnderWay(agenda, m.pub)
  BY <1>1 DEF UnderWay
<1>7. Known'
  BY <1>1, <1>6 DEF Known
<1>8. QED
  BY <1>5, <1>7

\* The TPM answers: what the activation has done to its key is what the client
\* expects, or the client has lost track of it.
LEMMA AnswersStep ==
  ASSUME kind = "tpm", Typed, Known, NEW a \in asks, NEW how \in {"ok", "err", "throttled"},
         Answers(a, how)
  PROVE  Typed' /\ Known'
<1>1. /\ a \in Requests /\ a.do \in Commands /\ a.cb \in Closures /\ a.do = a.cb.fn
      /\ a.cb.id \in Numbers /\ below \in Tpms /\ below.key \in Numbers
      /\ below.deferred = <<>> /\ agenda = <<>>
  <2>1. a \in Requests /\ below \in Tpms
    BY DEF Typed
  <2>2. a.do \in Commands /\ a.cb \in Closures /\ a.do = a.cb.fn
    BY <2>1 DEF Requests
  <2>3. a.cb.id \in Numbers
    BY <2>2, ClosureFields
  <2>4. QED
    BY <2>1, <2>2, <2>3 DEF Tpms, Answers, Quiet
<1>2. a.do \notin OfBase \cup Connects /\ a.do # "request"
  BY <1>1 DEF Commands, OfBase, Connects
<1>3. how \in {"ok", "err"}
  BY <1>2 DEF Answers, MayAnswer, Connects
<1>4. PICK err \in BOOLEAN : err = (how = "err")
  OBVIOUS
<1>5. /\ asks' = asks \ {a} /\ below' = Effect(a, how)
      /\ UNCHANGED <<kind, m, thrown, calls>>
  BY DEF Answers
<1>6. agenda' = Call(a.cb, err)
  <2>1. Call(a.cb, err) \in Seq(Items)
    BY <1>1, CallItem, OneItem, Zenon DEF Call
  <2>2. agenda' = <<>> \o Call(a.cb, err) \o <<>>
    BY <1>1, <1>2, <1>3, <1>4 DEF Answers, Connects
  <2>3. QED
    BY <2>1, <2>2, AloneInTurn
<1> DEFINE x == Input("callback", "call", a.cb, err)
<1>7. agenda' \in Seq(Items) /\ agenda' # <<>> /\ Head(agenda') = x
      /\ \A n : Activates(x, n) => UnderWay(agenda', n)
  <2>1. x \in Items
    BY <1>1, CallItem
  <2>2. agenda' = <<x>>
    BY <1>6 DEF Call
  <2> HIDE DEF x
  <2>3. QED
    BY <2>1, <2>2, OneItem
<1>8. /\ a.do = "EvictOld" /\ how = "ok" =>
           below' = [below EXCEPT !.key = 0, !.stale = m.pub # a.cb.id]
      /\ a.do = "Persist" /\ how = "ok" =>
           below' = [below EXCEPT !.key = a.cb.id, !.stale = m.pub # a.cb.id]
      /\ a.do = "ReadIdentity" => below' = [below EXCEPT !.stale = FALSE]
      /\ a.do # "ReadIdentity" /\ ~(a.do \in {"EvictOld", "Persist"} /\ how = "ok") =>
           below' = below
  BY <1>2, <1>5 DEF Effect
<1>9. below' \in Tpms
  <2>1. 0 \in Numbers
    BY ProvisioningAssumption DEF Numbers
  <2>2. \A k \in Numbers, b \in BOOLEAN :
          [below EXCEPT !.key = k, !.stale = b] \in Tpms /\ [below EXCEPT !.stale = b] \in Tpms
    BY <1>1 DEF Tpms
  <2>3. PICK b \in BOOLEAN : b = (m.pub # a.cb.id)
    OBVIOUS
  <2>4. QED
    BY <1>1, <1>8, <2>1, <2>2, <2>3
<1>10. Typed'
  BY <1>5, <1>7, <1>9 DEF Typed
<1>11. CASE a.do = "ReadIdentity"
  <2>1. ReadsBack(x)
    BY <1>1, <1>11 DEF ReadsBack, Input
  <2>2. Known'
    BY <1>7, <2>1 DEF Known
  <2>3. QED
    BY <1>10, <2>2
<1>12. CASE a.do = "EvictOld" /\ how = "ok"
  <2>1. below' = [below EXCEPT !.key = 0, !.stale = m.pub # a.cb.id]
    BY <1>8, <1>12
  <2>2. below'.stale <=> m.pub # a.cb.id
    BY <1>1, <2>1 DEF Tpms
  <2>3. Activates(x, a.cb.id)
    BY <1>1, <1>12 DEF Activates, Early, Input
  <2>4. Known'
    BY <1>5, <1>7, <2>2, <2>3 DEF Known
  <2>5. QED
    BY <1>10, <2>4
<1>13. CASE a.do = "Persist" /\ how = "ok"
  <2>1. below' = [below EXCEPT !.key = a.cb.id, !.stale = m.pub # a.cb.id]
    BY <1>8, <1>13
  <2>2. (below'.stale <=> m.pub # a.cb.id) /\ below'.key = a.cb.id
    BY <1>1, <2>1 DEF Tpms
  <2>3. Known'
    BY <1>5, <2>2 DEF Known
  <2>4. QED
    BY <1>10, <2>3
<1>14. CASE a.do # "ReadIdentity" /\ ~(a.do \in {"EvictOld", "Persist"} /\ how = "ok")
  <2>1. below' = below
    BY <1>8, <1>14
  <2>2. a.cb.fn \in Early /\ a.cb.id = m.pub => Activates(x, m.pub)
    BY <1>1, <1>3, <1>4, <1>14 DEF Activates, Input
  <2>3. ~UnderWay(agenda, m.pub)
    BY <1>1 DEF UnderWay
  <2> HIDE DEF x
  <2>4. Known'
    BY <1>1, <1>5, <1>7, <2>1, <2>2, <2>3 DEF Known
  <2>5. QED
    BY <1>10, <2>4
<1>15. QED
  BY <1>3, <1>11, <1>12, <1>13, <1>14

\* The client starts disconnected, without a key.
LEMMA InvInit ==
  Init => Inv
<1> SUFFICES ASSUME Init, kind = "tpm"
             PROVE  Typed /\ Known
  BY DEF Inv
<1>1. m = TpmStart /\ agenda = <<>>
  BY DEF Init, Start
<1>2. 0 \in Numbers
  BY ProvisioningAssumption DEF Numbers
<1>3. m \in Machines
  BY <1>1, <1>2 DEF TpmStart, Machines, TpmStates
<1>4. below \in Tpms
  BY <1>2 DEF Init, Tpms
<1>5. agenda \in Seq(Items) /\ calls \in Seq(Callings) /\ Len(calls) = 0
  BY DEF Init
<1>6. Typed
  BY <1>3, <1>4, <1>5, ProvisioningAssumption DEF Init, Typed
<1>7. Known
  BY <1>1 DEF Known, TpmStart
<1>8. QED
  BY <1>6, <1>7

\* Every step keeps the kind, and the invariant.
LEMMA InvNext ==
  Inv /\ [Next]_vars => Inv'
<1> SUFFICES ASSUME Inv, [Next]_vars, kind' = "tpm"
             PROVE  Typed' /\ Known'
  BY DEF Inv
<1>1. CASE UNCHANGED vars
  <2>1. kind = "tpm"
    BY <1>1 DEF vars
  <2>2. Typed /\ Known
    BY <2>1 DEF Inv
  <2>3. UNCHANGED <<m, agenda, thrown, below, asks, calls>>
    BY <1>1 DEF vars
  <2>4. Typed'
    BY <2>2, <2>3 DEF Typed
  <2>5. Known'
    BY <2>2, <2>3 DEF Known, UnderWay
  <2>6. QED
    BY <2>4, <2>5
<1>2. CASE Next
  <2>1. kind = "tpm"
    BY <1>2 DEF Next, Run, Users, UserCalls, Timers, TimerFires, Below, Answers, NeverAnswers,
                Handshakes, Challenge, Closes, Closed, Lost, Service, Responds
  <2>2. Typed /\ Known
    BY <2>1 DEF Inv
  <2>3. \A a \in asks : a.do \notin {"handshake", "disconnect"}
    BY <2>2 DEF Typed, Requests, Commands
  <2>4. below.state # "up"
    BY <2>2 DEF Typed, Tpms
  <2>5. CASE Run
    BY <2>1, <2>2, <2>5, RunStep
  <2>6. CASE Users
    <3>1. PICK op \in UNION {Ops[k] : k \in Kinds}, err \in BOOLEAN : UserCalls(op, err)
      BY <2>6 DEF Users
    <3>2. QED
      BY <2>1, <2>2, <3>1, UserCallsStep
  <2>7. CASE Timers
    BY <2>1, <2>7 DEF Timers, TimerFires
  <2>8. CASE \E i \in 0..MaxCalls : Below(i)
    <3>1. CASE \E a \in asks, how \in {"ok", "err", "throttled"} : Answers(a, how)
      BY <2>1, <2>2, <3>1, AnswersStep
    <3>2. CASE \E a \in asks : NeverAnswers(a)
      BY <2>1, <3>2 DEF NeverAnswers
    <3>3. QED
      BY <2>8, <3>1, <3>2 DEF Below
  <2>9. CASE Handshakes
    BY <2>3, <2>9 DEF Handshakes, Challenge
  <2>10. CASE Closes
    BY <2>3, <2>10 DEF Closes, Closed
  <2>11. CASE Lost
    BY <2>4, <2>11 DEF Lost
  <2>12. CASE Service
    BY <2>4, <2>12 DEF Service, Responds
  <2>13. \/ Run \/ Users \/ Timers \/ (\E i \in 0..MaxCalls : Below(i))
         \/ Handshakes \/ Closes \/ Lost \/ Service
    BY <1>2, Zenon DEF Next
  <2>14. QED
    BY <2>5, <2>6, <2>7, <2>8, <2>9, <2>10, <2>11, <2>12, <2>13, SMTT(60)
<1>3. QED
  BY <1>1, <1>2

\* Between two turns no activation has been answered and is still to be handled, so
\* a client that activates none has the key of the TPM, or none.
LEMMA InvIsEnough ==
  Inv => (kind = "tpm" => KeyIsKnown)
<1> SUFFICES ASSUME kind = "tpm", Typed, Known
             PROVE  KeyIsKnown
  BY DEF Inv
<1>1. TypeOK
  <2>1. m \in Machines /\ below \in Tpms /\ Len(calls) <= MaxCalls
    BY DEF Typed
  <2>2. m.state \in States
    BY <2>1, MachineFields DEF TpmStates, States
  <2>3. below.state = "down" /\ below.key \in 0..MaxCalls
    BY <2>1 DEF Tpms, Numbers
  <2>4. QED
    BY <2>1, <2>2, <2>3 DEF TypeOK
<1>2. ASSUME Quiet, m.state = "connected", ~below.stale,
             \A a \in asks : a.do \notin Range(Activation)
      PROVE  m.pub \in {0, below.key}
  <2>1. agenda = <<>> /\ ~UnderWay(agenda, m.pub)
    BY <1>2 DEF Quiet, UnderWay
  <2>2. \A a \in asks : a.cb.fn \notin Early
    <3>1. \A a \in asks : a.do = a.cb.fn
      BY DEF Typed, Requests
    <3>2. QED
      BY <1>2, <3>1, CommandSets
  <2>3. QED
    BY <1>2, <2>1, <2>2 DEF Known
<1>3. QED
  BY <1>1, <1>2 DEF KeyIsKnown

\* A security client on a TPM that is connected, and activates no key, has in
\* _idKeyPub the key that the TPM signs with, or none (tpm.ts:432), whatever has
\* failed before and however many calls were under way.
THEOREM KeysAreKnown ==
  Spec => [](kind = "tpm" => KeyIsKnown)
<1>1. Init => Inv
  BY InvInit
<1>2. Inv /\ [Next]_vars => Inv'
  BY InvNext
<1>3. Inv => (kind = "tpm" => KeyIsKnown)
  BY InvIsEnough
<1>4. QED
  BY <1>1, <1>2, <1>3, PTL DEF Spec

=============================================================================
