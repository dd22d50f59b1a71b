------------------------------ MODULE SenderLink ------------------------------
(***************************************************************************)
(* The sending link of the AMQP transports:                                *)
(* common/transport/amqp/src/sender_link.ts (class SenderLink).            *)
(*                                                                         *)
(* The owner of the link calls attach, detach, forceDetach and send.  The  *)
(* peer opens and closes the rhea link, gives credit and settles messages. *)
(* Everything a call or an event sets off runs to its end before the next  *)
(* event, but the callbacks give control back to the owner in the middle   *)
(* of it, and the owner may call the link again from there.  The agenda is *)
(* that call stack: its head runs next, and the item "owner" is the code   *)
(* of the owner in a callback (or in a listener of 'error').               *)
(*                                                                         *)
(* An operation is one call, numbered in the order of the calls.  Messages *)
(* are the send operations.  rhea numbers deliveries in the order they are *)
(* sent, so the operation stands for its delivery id as well.              *)
(***************************************************************************)
EXTENDS Integers, Sequences, FiniteSets, SequencesExt

CONSTANTS
  Kinds,          \* the methods the owner calls
  CallbackKinds,  \* the methods it calls from inside a callback
  MaxOps,         \* bound on the number of calls
  MaxDeferred     \* bound on the credit given, and deferred, while detaching

Methods == {"attach", "detach", "forceDetach", "send"}

ASSUME ConstantsAssumption ==
  /\ Kinds \subseteq Methods /\ CallbackKinds \subseteq Kinds
  /\ MaxOps \in Nat /\ MaxDeferred \in Nat

VARIABLES
  preSettled,            \* the link is made to send settled (snd_settle_mode 1)
  state, queue,          \* the machina state machine and its deferred inputs
  agenda,                \* what the running event has left to do
  unsent,                \* _unsentMessageQueue
  pending,               \* _pendingMessageDictionary
  attachingCallback, detachingCallback,
  indicatedError, senderCloseOccurred,
  sender,                \* _rheaSender, an index of links, 0 for null
  links,                 \* every rhea link opened, in order
  ops, answers,          \* the calls made, how often each was called back
  transmitted,           \* the messages given to rhea, in order
  crashed                \* a TypeError reached the event loop

fsm == <<state, queue>>
messages == <<unsent, pending, transmitted>>
callbacks == <<attachingCallback, detachingCallback>>
closing == <<indicatedError, senderCloseOccurred>>
wire == <<sender, links>>
vars == <<preSettled, fsm, agenda, messages, callbacks, closing, wire, ops, answers,
          crashed>>

Undefined == 0    \* no callback
Silent == -1      \* the callback send gives to attach: it only logs

Ops == DOMAIN ops
Idle == agenda = <<>>

Links == [local  : {"open", "closed", "removed"},
          peer   : {"none", "open", "closed", "failed"},
          on     : BOOLEAN,       \* our listeners are registered
          flight : SUBSET Ops]    \* not settled by the peer

Item(name, op, err) == [do |-> name, op |-> op, err |-> err]
Step(name) == Item(name, Undefined, FALSE)

TypeOK ==
  /\ preSettled \in BOOLEAN
  /\ state \in {"detached", "attaching", "attached", "detaching"}
  /\ ops \in Seq(Methods)
  /\ \A item \in ToSet(queue) \cup ToSet(agenda) :
       item.op \in Ops \cup {Undefined, Silent} /\ item.err \in BOOLEAN
  /\ unsent \in Seq(Ops) /\ transmitted \in Seq(Ops)
  /\ pending \subseteq Ops
  /\ {attachingCallback, detachingCallback} \subseteq
       Ops \cup {Undefined, Silent}
  /\ indicatedError \in BOOLEAN /\ senderCloseOccurred \in BOOLEAN
  /\ links \in Seq(Links)
  /\ sender \in 0..Len(links)
  /\ sender = 0 => state = "detached"
  /\ answers \in [Ops -> Nat]
  /\ crashed \in BOOLEAN

Init ==
  /\ preSettled \in BOOLEAN
  /\ state = "detached" /\ queue = <<>> /\ agenda = <<>>
  /\ unsent = <<>> /\ pending = {} /\ transmitted = <<>>
  /\ attachingCallback = Undefined /\ detachingCallback = Undefined
  /\ indicatedError = FALSE /\ senderCloseOccurred = FALSE
  /\ sender = 0 /\ links = <<>>
  /\ ops = <<>> /\ answers = <<>>
  /\ crashed = FALSE

-----------------------------------------------------------------------------
(* Callbacks.                                                              *)

\* The owner has control, if it has calls left to make.
Owner == IF Len(ops) < MaxOps /\ CallbackKinds # {}
           THEN <<Step("owner")>> ELSE <<>>

Called(op) == IF op \in Ops THEN Owner ELSE <<>>

\* The callbacks of the operations called are called.
Answer(called) ==
  answers' = [o \in Ops |-> answers[o] + (IF o \in called THEN 1 ELSE 0)]

Ignore(rest) ==
  /\ agenda' = rest
  /\ UNCHANGED <<fsm, messages, callbacks, closing, wire, answers, crashed>>

-----------------------------------------------------------------------------
(* Entering the states.                                                    *)

\* attaching._onEnter: a rhea link of its own, with listeners.
Attach(op, rest) ==
  /\ state' = "attaching" /\ agenda' = rest
  /\ attachingCallback' = op
  /\ indicatedError' = FALSE /\ senderCloseOccurred' = FALSE
  /\ links' = Append(links, [local |-> "open", peer |-> "none",
                             on |-> TRUE, flight |-> {}])
  /\ sender' = Len(links) + 1
  /\ UNCHANGED <<queue, messages, detachingCallback, answers, crashed>>

\* What entering detached sets off (detached._onEnter, then machina's replay).
DetachedWork(op, err) ==
  <<Step("failUnsent"), Step("failPending"), Item("tell", op, err),
    Step("replay")>>

\* Mutant of Detaching: the close of the peer that already happened is awaited.
DetachingWaits(op, err, rest) ==
  /\ state' = "detaching"
  /\ links' = [links EXCEPT ![sender].local = "closed"]
  /\ UNCHANGED <<queue, messages, attachingCallback, senderCloseOccurred,
                 sender, answers, crashed>>
  /\ agenda' = rest /\ detachingCallback' = op /\ indicatedError' = err

\* detaching._onEnter: a link the peer already closed is detached at once.
Detaching(op, err, rest) ==
  /\ state' = "detaching"
  /\ links' = [links EXCEPT ![sender].local = "closed"]
  /\ UNCHANGED <<queue, messages, attachingCallback, senderCloseOccurred,
                 sender, answers, crashed>>
  /\ IF senderCloseOccurred
       THEN /\ agenda' = <<Item("toDetached", op, err)>> \o rest
            /\ detachingCallback' = Undefined /\ indicatedError' = FALSE
       ELSE /\ agenda' = rest
            /\ detachingCallback' = op /\ indicatedError' = err

\* manageSenderHandlers('removeListener'), with what became of our end.
Unheard(local) == [links EXCEPT ![sender].on = FALSE, ![sender].local = local]

\* Mutant of Settle: the entry stays in the dictionary.
SettleKeeps(op, rest) ==
  /\ Answer({op} \cap pending)
  /\ agenda' = (IF op \in pending THEN Owner ELSE <<>>) \o rest
  /\ UNCHANGED <<fsm, messages, callbacks, closing, wire, crashed>>

\* The answer of the peer to a message; nothing if nobody waits for it.
Settle(op, rest) ==
  /\ pending' = pending \ {op}
  /\ Answer({op} \cap pending)
  /\ agenda' = (IF op \in pending THEN Owner ELSE <<>>) \o rest
  /\ UNCHANGED <<fsm, unsent, transmitted, callbacks, closing, wire, crashed>>

-----------------------------------------------------------------------------
(* The handlers of the state machine.                                      *)

HandleDetached(input, rest) ==
  /\ state = "detached"
  /\ \/ input.do = "attach" /\ Attach(input.op, rest)
     \/ input.do = "send" /\ unsent # <<>> /\ Attach(Silent, rest)
     \/ /\ input.do = "detach"
        /\ Answer({input.op}) /\ agenda' = Owner \o rest
        /\ UNCHANGED <<fsm, messages, callbacks, closing, wire, crashed>>
     \/ /\ input.do \notin {"attach", "detach"}
        /\ input.do = "send" => unsent = <<>>
        /\ Ignore(rest)

\* attaching.detach and attaching.forceDetach: the callback of the attach is
\* called before the transition, and called even if it is undefined.  The rhea
\* link is neither closed nor removed.
DetachAttaching(op, err, rest) ==
  /\ links' = Unheard("open")
  /\ attachingCallback' = Undefined /\ indicatedError' = FALSE
  /\ Answer({attachingCallback})
  /\ agenda' = Called(attachingCallback) \o <<Item("toDetached", op, err)>>
                 \o rest
  /\ crashed' = (attachingCallback = Undefined)
  /\ UNCHANGED <<fsm, messages, detachingCallback, senderCloseOccurred, sender>>

HandleAttaching(input, rest) ==
  /\ state = "attaching"
  /\ \/ /\ input.do = "senderOpenEvent"
        /\ state' = "attached"
        /\ attachingCallback' = Undefined
        /\ Answer({attachingCallback})
        /\ agenda' = Called(attachingCallback) \o <<Step("sendUnsent")>> \o rest
        /\ UNCHANGED <<queue, messages, detachingCallback, closing, wire,
                       crashed>>
     \/ /\ input.do = "senderErrorEvent"
        /\ indicatedError' = TRUE /\ agenda' = rest
        /\ UNCHANGED <<fsm, messages, callbacks, senderCloseOccurred, wire,
                       answers, crashed>>
     \/ /\ input.do = "senderCloseEvent"
        /\ links' = Unheard("open")
        /\ attachingCallback' = Undefined
        /\ indicatedError' = FALSE /\ senderCloseOccurred' = TRUE
        /\ agenda' = <<Item("toDetached", attachingCallback, indicatedError)>>
                       \o rest
        /\ UNCHANGED <<fsm, messages, detachingCallback, sender, answers,
                       crashed>>
     \/ input.do = "detach" /\ DetachAttaching(input.op, TRUE, rest)
     \/ /\ input.do = "forceDetach"
        /\ DetachAttaching(Undefined, input.err \/ indicatedError, rest)
     \/ /\ input.do \in {"attach", "send", "accepted", "rejected"}  \* no handler
        /\ Ignore(rest)

\* The peer's close of an attached link makes no transition: our end is open
\* and the peer's is not, so there is always an error, and it is emitted on the
\* container, for the owner of the connection to act upon.
HandleAttached(input, rest) ==
  /\ state = "attached"
  /\ \/ /\ input.do = "senderErrorEvent"
        /\ indicatedError' = TRUE /\ agenda' = rest
        /\ UNCHANGED <<fsm, messages, callbacks, senderCloseOccurred, wire,
                       answers, crashed>>
     \/ /\ input.do = "senderCloseEvent"
        /\ indicatedError' = FALSE /\ senderCloseOccurred' = TRUE
        /\ agenda' = Owner \o rest
        /\ UNCHANGED <<fsm, messages, callbacks, wire, answers, crashed>>
     \/ input.do \in {"accepted", "rejected"} /\ Settle(input.op, rest)
     \/ /\ input.do = "attach"
        /\ Answer({input.op}) /\ agenda' = Owner \o rest
        /\ UNCHANGED <<fsm, messages, callbacks, closing, wire, crashed>>
     \/ input.do = "detach" /\ Detaching(input.op, input.err, rest)
     \/ /\ input.do = "forceDetach"
        /\ links' = Unheard("removed")
        /\ agenda' = <<Item("toDetached", Undefined, input.err)>> \o rest
        /\ UNCHANGED <<fsm, messages, callbacks, closing, sender, answers,
                       crashed>>
     \/ /\ input.do = "send"
        /\ agenda' = <<Step("transmit")>> \o rest
        /\ UNCHANGED <<fsm, messages, callbacks, closing, wire, answers,
                       crashed>>

\* Mutant of ForceDetaching: the callback is dropped.
ForceDetachingSilent(err, rest) ==
  /\ links' = Unheard("removed")
  /\ detachingCallback' = Undefined /\ indicatedError' = FALSE
  /\ Answer({})
  /\ agenda' = <<Item("toDetached", Undefined, err)>> \o rest
  /\ UNCHANGED <<fsm, messages, attachingCallback, senderCloseOccurred, sender,
                 crashed>>

\* detaching.forceDetach.
ForceDetaching(err, rest) ==
  /\ links' = Unheard("removed")
  /\ detachingCallback' = Undefined /\ indicatedError' = FALSE
  /\ Answer({detachingCallback})
  /\ agenda' = Called(detachingCallback)
                 \o <<Item("toDetached", Undefined, err)>> \o rest
  /\ UNCHANGED <<fsm, messages, attachingCallback, senderCloseOccurred, sender,
                 crashed>>

HandleDetaching(input, rest) ==
  /\ state = "detaching"
  /\ \/ /\ input.do = "senderErrorEvent"
        /\ indicatedError' = TRUE /\ agenda' = rest
        /\ UNCHANGED <<fsm, messages, callbacks, senderCloseOccurred, wire,
                       answers, crashed>>
     \/ /\ input.do = "senderCloseEvent"
        /\ links' = Unheard("closed")
        /\ detachingCallback' = Undefined
        /\ indicatedError' = FALSE /\ senderCloseOccurred' = TRUE
        /\ agenda' = <<Item("toDetached", detachingCallback, indicatedError)>>
                       \o rest
        /\ UNCHANGED <<fsm, messages, attachingCallback, sender, answers,
                       crashed>>
     \/ input.do = "accepted" /\ Settle(input.op, rest)
     \/ /\ input.do = "detach"
        /\ Answer({input.op}) /\ agenda' = Owner \o rest
        /\ UNCHANGED <<fsm, messages, callbacks, closing, wire, crashed>>
     \/ input.do = "forceDetach" /\ ForceDetaching(input.err, rest)
     \/ /\ input.do \in {"attach", "send", "rejected"}
        /\ queue' = Append(queue, input) /\ agenda' = rest
        /\ UNCHANGED <<state, messages, callbacks, closing, wire, answers,
                       crashed>>

-----------------------------------------------------------------------------
(* What a handler leaves to do around the callbacks it calls.              *)

\* _fsm.transition('detached', op, err); nothing if the owner did it already.
ToDetached(op, err, rest) ==
  IF state = "detached"
    THEN Ignore(rest)
    ELSE /\ state' = "detached" /\ sender' = 0
         /\ agenda' = DetachedWork(op, err) \o rest
         /\ UNCHANGED <<queue, messages, callbacks, closing, links, answers,
                        crashed>>

\* One message after the other, as long as there are any.
FailUnsent(rest) ==
  IF unsent = <<>>
    THEN Ignore(rest)
    ELSE /\ Answer({Head(unsent)})
         /\ unsent' = Tail(unsent)
         /\ agenda' = Owner \o <<Step("failUnsent")>> \o rest
         /\ UNCHANGED <<fsm, pending, transmitted, callbacks, closing, wire,
                        crashed>>

\* The keys of the dictionary, in the order of the delivery ids.
FailPending(rest) ==
  /\ \E keys \in [1..Cardinality(pending) -> pending] :
       /\ \A i, j \in DOMAIN keys : i < j => keys[i] < keys[j]
       /\ agenda' = [i \in DOMAIN keys |-> Item("failKey", keys[i], TRUE)]
                      \o rest
  /\ UNCHANGED <<fsm, messages, callbacks, closing, wire, answers, crashed>>

\* The entry was there when the keys were read; a callback may have had it
\* removed, and then op.callback throws.
FailKey(op, rest) ==
  /\ crashed' = (op \notin pending)
  /\ pending' = pending \ {op}
  /\ Answer({op} \cap pending)
  /\ agenda' = Owner \o rest
  /\ UNCHANGED <<fsm, unsent, transmitted, callbacks, closing, wire>>

\* The callback of the detached state, or without one the 'error' event.
Tell(op, err, rest) ==
  /\ Answer({op})
  /\ agenda' = (IF op = Undefined /\ err THEN Owner ELSE Called(op)) \o rest
  /\ UNCHANGED <<fsm, messages, callbacks, closing, wire, crashed>>

\* machina hands out the deferred inputs, if the state is still the one entered.
Replay(rest) ==
  /\ IF state = "detached"
       THEN agenda' = queue \o rest /\ queue' = <<>>
       ELSE agenda' = rest /\ UNCHANGED queue
  /\ UNCHANGED <<state, messages, callbacks, closing, wire, answers, crashed>>

\* The end of attached._onEnter.
SendUnsent(rest) ==
  /\ agenda' = (IF unsent = <<>> THEN <<>> ELSE <<Step("send")>>) \o rest
  /\ UNCHANGED <<fsm, messages, callbacks, closing, wire, answers, crashed>>

\* Mutant of Transmit: the newest message first.
TransmitNewest(rest) ==
  /\ unsent # <<>> /\ sender # 0 /\ links[sender].peer # "none"
  /\ LET op == Last(unsent) IN
     /\ unsent' = Front(unsent)
     /\ transmitted' = Append(transmitted, op)
     /\ IF preSettled
          THEN /\ Answer({op}) /\ UNCHANGED <<pending, links>>
               /\ agenda' = Owner \o agenda
          ELSE /\ pending' = pending \cup {op}
               /\ links' = [links EXCEPT ![sender].flight = @ \cup {op}]
               /\ UNCHANGED <<answers, agenda>>
  /\ UNCHANGED <<fsm, callbacks, closing, sender, crashed>>

\* One round of the loop of attached.send: rhea takes the oldest message.  The
\* loop goes on whatever the callback of a settled message did to the link.
Transmit(rest) ==
  /\ unsent # <<>> /\ sender # 0 /\ links[sender].peer # "none"
  /\ LET op == Head(unsent) IN
     /\ unsent' = Tail(unsent)
     /\ transmitted' = Append(transmitted, op)
     /\ IF preSettled
          THEN /\ Answer({op}) /\ UNCHANGED <<pending, links>>
               /\ agenda' = Owner \o agenda
          ELSE /\ pending' = pending \cup {op}
               /\ links' = [links EXCEPT ![sender].flight = @ \cup {op}]
               /\ UNCHANGED <<answers, agenda>>
  /\ UNCHANGED <<fsm, callbacks, closing, sender, crashed>>

-----------------------------------------------------------------------------
(* The steps.                                                              *)

\* The owner calls a method, from the event loop or inside a callback.
Call(kind, err) ==
  /\ \/ Idle
     \/ ~Idle /\ Head(agenda).do = "owner" /\ kind \in CallbackKinds
  /\ Len(ops) < MaxOps
  /\ ops' = Append(ops, kind)
  /\ answers' = Append(answers, 0)
  /\ unsent' = IF kind = "send" THEN Append(unsent, Len(ops) + 1) ELSE unsent
  /\ agenda' = <<Item(kind, Len(ops) + 1, err)>> \o agenda
  /\ UNCHANGED <<fsm, pending, transmitted, callbacks, closing, wire, crashed>>

Handle(input, rest) ==
  \/ HandleDetached(input, rest)
  \/ HandleAttaching(input, rest)
  \/ HandleAttached(input, rest)
  \/ HandleDetaching(input, rest)

Inputs == Methods \cup {"senderOpenEvent", "senderErrorEvent",
                        "senderCloseEvent", "accepted", "rejected"}

\* The head of the agenda runs.
Run ==
  /\ ~Idle
  /\ UNCHANGED ops
  /\ LET item == Head(agenda)
         rest == Tail(agenda)
     IN
     \/ item.do \in Inputs /\ Handle(item, rest)
     \/ item.do = "owner" /\ Ignore(rest)
     \/ item.do = "toDetached" /\ ToDetached(item.op, item.err, rest)
     \/ item.do = "failUnsent" /\ FailUnsent(rest)
     \/ item.do = "failPending" /\ FailPending(rest)
     \/ item.do = "failKey" /\ FailKey(item.op, rest)
     \/ item.do = "tell" /\ Tell(item.op, item.err, rest)
     \/ item.do = "replay" /\ Replay(rest)
     \/ item.do = "sendUnsent" /\ SendUnsent(rest)
     \/ item.do = "transmit" /\ Ignore(rest)    \* nothing to send, or no credit

\* The head of the agenda is the sending loop, and rhea has credit.
RunTransmit ==
  /\ ~Idle /\ Head(agenda).do = "transmit"
  /\ Transmit(Tail(agenda))
  /\ UNCHANGED ops

\* An event of the rhea link l.  What happens to a link nobody listens to any
\* more is left out, nobody sees it.
Event(l, inputs) ==
  /\ Idle
  /\ links[l].on /\ links[l].local # "removed"
  /\ agenda' = inputs
  /\ UNCHANGED <<fsm, messages, callbacks, closing, sender, ops, answers,
                 crashed>>

PeerOpens(l) ==
  /\ links[l].peer = "none"
  /\ links' = [links EXCEPT ![l].peer = "open"]
  /\ Event(l, <<Step("senderOpenEvent")>>)

\* A refused attach or a detach, with or without an error; also the peer's
\* answer to our own detach.
PeerCloses(l, err) ==
  /\ links[l].peer \in {"none", "open"}
  /\ links' = [links EXCEPT ![l].peer = IF err THEN "failed" ELSE "closed",
                            ![l].flight = {}]
  /\ Event(l, IF err THEN <<Step("senderErrorEvent"), Step("senderCloseEvent")>>
                     ELSE <<Step("senderCloseEvent")>>)

PeerSettles(l, op, outcome) ==
  /\ op \in links[l].flight
  /\ links' = [links EXCEPT ![l].flight = @ \ {op}]
  /\ Event(l, <<Item(outcome, op, FALSE)>>)

\* 'sendable'.  With nothing to send the event does nothing.  While detaching
\* each one is deferred.
PeerGivesCredit(l) ==
  /\ links[l].peer = "open"
  /\ unsent # <<>>
  /\ state = "detaching" => Len(queue) < MaxDeferred
  /\ UNCHANGED links
  /\ Event(l, <<Step("send")>>)

Peer(l) ==
  \/ PeerOpens(l)
  \/ \E err \in BOOLEAN : PeerCloses(l, err)
  \/ \E op \in links[l].flight, outcome \in {"accepted", "rejected"} :
       PeerSettles(l, op, outcome)
  \/ PeerGivesCredit(l)

OwnerCalls ==
  \E kind \in Kinds :
    \E err \in IF kind \in {"detach", "forceDetach"} THEN BOOLEAN ELSE {FALSE} :
      Call(kind, err)

Next ==
  /\ ~crashed /\ UNCHANGED preSettled
  /\ \/ OwnerCalls
     \/ Run
     \/ RunTransmit
     \/ \E l \in DOMAIN links : Peer(l)

Spec == Init /\ [][Next]_vars

-----------------------------------------------------------------------------
(* Fairness: the event loop runs what is due.  The peer of the current link *)
(* answers an attach and a detach, settles what it was sent and goes on     *)
(* giving credit.                                                           *)

PeerAnswers(l) ==
  \/ PeerOpens(l)
  \/ links[l].local = "closed" /\ \E err \in BOOLEAN : PeerCloses(l, err)
  \/ \E op \in links[l].flight, outcome \in {"accepted", "rejected"} :
       PeerSettles(l, op, outcome)

Fairness ==
  LET Due(step) == ~crashed /\ step /\ UNCHANGED preSettled
  IN  /\ WF_vars(Due(Run \/ RunTransmit))
      /\ SF_vars(Due(RunTransmit))
      /\ WF_vars(Due(sender # 0 /\ PeerAnswers(sender)))
      /\ SF_vars(Due(sender # 0 /\ PeerGivesCredit(sender)))

FairSpec == Spec /\ Fairness

-----------------------------------------------------------------------------
(* Properties.                                                             *)

Sends == {o \in Ops : ops[o] = "send"}
Occurrences(s, o) == Cardinality({i \in DOMAIN s : s[i] = o})

\* Every message is in exactly one place: in the queue, waiting for its
\* settlement, or answered, and answered once (send, 398-414; the dispositions;
\* detached._onEnter); between events a detached link holds none back, and one
\* being attached has none pending from the link before it.
SendAnsweredOnce ==
  /\ TypeOK
  /\ \A o \in Sends :
       Occurrences(unsent, o) + (IF o \in pending THEN 1 ELSE 0) + answers[o] = 1
  /\ Idle /\ ~crashed =>
       /\ state = "detached" => unsent = <<>> /\ queue = <<>>
       /\ state \in {"detached", "attaching"} => pending = {}

\* Messages go out in the order of the calls, over all links and however
\* callbacks send more while the queue is being worked off.
SentInOrder ==
  \A i, j \in DOMAIN transmitted : i < j => transmitted[i] < transmitted[j]

\* No callback is called twice, and none of a detach is lost: it was called, or
\* it is kept for the end of the detaching.
DetachNotLost ==
  /\ \A o \in Ops : answers[o] <= 1
  /\ \A o \in Ops :
       Idle /\ ~crashed /\ ops[o] = "detach" /\ answers[o] = 0
         => detachingCallback = o /\ state = "detaching"

\* Every message is answered, if nothing throws and unless the link waits in
\* the attached state for its owner to act upon the error of a closed link.
EverySendAnswered ==
  \A o \in 1..MaxOps :
    o \in Sends
      ~> \/ crashed
         \/ state = "attached" /\ senderCloseOccurred
         \/ o \in Ops /\ answers[o] = 1

=============================================================================
