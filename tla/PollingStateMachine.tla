------------------------- MODULE PollingStateMachine -------------------------
(***************************************************************************)
(* The registration of a device with the provisioning service:             *)
(* provisioning/device/src/polling_state_machine.ts (PollingStateMachine). *)
(*                                                                         *)
(* The registration classes call register, cancel and disconnect.  The     *)
(* transport is asked to send a request, to cancel and to disconnect, and  *)
(* calls back, at once or later; a request it may never answer.  The HTTP  *)
(* transport's cancel does nothing, so it may answer a request that was    *)
(* cancelled long ago; the MQTT and AMQP transports answer what they       *)
(* cancel in the next tick.  Timers bound the wait for an answer and pace  *)
(* the polling.                                                            *)
(*                                                                         *)
(* An operation is one call, numbered in the order of the calls.  A        *)
(* callback is the number of the operation it belongs to, 0 for the empty  *)
(* function of a timeout, and -o for the closure that goes on with the     *)
(* disconnect o after the cancellation it started with.                    *)
(***************************************************************************)
EXTENDS Integers, Sequences, FiniteSets

CONSTANTS
  MaxOps,        \* bound on the number of calls
  Transports     \* "mqtt" stands for the MQTT and the AMQP transport

Methods == {"register", "cancel", "disconnect"}

ASSUME ConstantsAssumption ==
  MaxOps \in Nat /\ Transports \subseteq {"http", "mqtt"}

VARIABLES
  transport,       \* the transport the state machine was made with
  state, queue,    \* the machina state machine and its deferred inputs
  agenda,          \* what the running event has left to do, innermost first
  current,         \* _currentOperationCallback, 0 for null
  waiting,         \* waitingToPoll's closure: whether it knows an operation id
  closing,         \* the callback the states cancelling and disconnecting keep
  ticks,           \* what was given to process.nextTick
  requests,        \* operations with a request the transport has not answered
  queryTimers,     \* operations whose query timer is running
  queryTimer,      \* the operation whose timer _queryTimer is, 0 for none
  robbed,          \* history: operations whose running timer was stopped by
                   \* the answer to another
  ops, answers     \* the calls made, how often each was called back

pollingVars ==
  <<transport, state, queue, agenda, current, waiting, closing, ticks,
    requests, queryTimers, queryTimer, robbed, ops, answers>>

Requesting == {"sendingRegistrationRequest", "polling"}
Busy == Requesting \cup {"waitingToPoll"}
Closing == {"cancelling", "disconnecting"}

Ops == DOMAIN ops
Idle == agenda = <<>> /\ ticks = <<>>

Item(name, callback) == [do |-> name, op |-> callback]
Items == [do : Methods \cup {"owner", "replay", "call", "answer"}, op : Int]

PollingTypeOK ==
  /\ transport \in Transports
  /\ state \in {"disconnected", "idle"} \cup Busy \cup Closing
  /\ queue \in Seq(Items) /\ agenda \in Seq(Items)
  /\ current \in Ops \cup {0} /\ queryTimer \in Ops \cup {0}
  /\ waiting \in BOOLEAN
  /\ closing \in {0} \cup Ops \cup {-o : o \in Ops}
  /\ ticks \in Seq(Items)
  /\ requests \subseteq Ops /\ queryTimers \subseteq Ops /\ robbed \subseteq Ops
  /\ ops \in Seq(Methods) /\ answers \in [Ops -> Nat]

PollingInit ==
  /\ transport \in Transports
  /\ state = "disconnected" /\ queue = <<>> /\ agenda = <<>>
  /\ current = 0 /\ waiting = FALSE /\ closing = 0
  /\ ticks = <<>>
  /\ requests = {} /\ queryTimers = {} /\ queryTimer = 0
  /\ robbed = {}
  /\ ops = <<>> /\ answers = <<>>

-----------------------------------------------------------------------------
(* machina and the callbacks.                                              *)

\* Whether the transport calls back from cancel and disconnect at once: the HTTP
\* transport always does, the others do where they need not close anything.
AtOnce == IF transport = "http" THEN {TRUE} ELSE BOOLEAN

\* A transition, what entering the state does first, then the deferred inputs.
Goto(s, work, rest) ==
  /\ state' = s
  /\ agenda' = work \o <<Item("replay", 0)>> \o rest

Answer(called) ==
  answers' = [o \in Ops |-> answers[o] + (IF o \in called THEN 1 ELSE 0)]

\* In its callback the caller has control, if it has calls left to make.
Owner == IF Len(ops) < MaxOps THEN <<Item("owner", 0)>> ELSE <<>>

SameTransport == UNCHANGED <<requests, queryTimers, queryTimer, robbed>>
SameOperation == UNCHANGED <<current, waiting, closing, ticks>>

-----------------------------------------------------------------------------
(* Entering the states.                                                    *)

\* Mutant of Request: no timer for the answer.
RequestUntimed(s, op, rest) ==
  /\ Goto(s, <<>>, rest)
  /\ current' = op
  /\ requests' = requests \cup {op}
  /\ robbed' = robbed \ {op}
  /\ UNCHANGED <<queue, waiting, closing, ticks, queryTimers, queryTimer, ops,
                 answers>>

\* sendingRegistrationRequest._onEnter and polling._onEnter: a timer and a
\* request.  The field _queryTimer is overwritten, whatever it holds.
Request(s, op, rest) ==
  /\ Goto(s, <<>>, rest)
  /\ current' = op
  /\ requests' = requests \cup {op}
  /\ queryTimers' = queryTimers \cup {op}
  /\ queryTimer' = op
  /\ robbed' = robbed \ {op}
  /\ UNCHANGED <<queue, waiting, closing, ticks, ops, answers>>

\* The next ticks: the operation fails; MQTT and AMQP answer its request.
Cancelled ==
  (IF current # 0 THEN <<Item("call", current)>> ELSE <<>>)
    \o (IF transport = "mqtt" /\ current \in requests
          THEN <<Item("answer", current)>> ELSE <<>>)

\* Entering a closing state whose transport calls back at once means leaving it
\* for the next one, which calls the callback back.
Close(through, next, callback, rest) ==
  \E atOnce \in AtOnce :
    IF atOnce
      THEN Goto(next, <<Item("call", callback)>>, rest) /\ UNCHANGED closing
      ELSE Goto(through, <<>>, rest) /\ closing' = callback

\* Mutant of Cancelling: the caller of register is not told.
CancellingSilently(callback, rest) ==
  /\ Close("cancelling", "idle", callback, rest)
  /\ current' = 0
  /\ UNCHANGED <<queue, waiting, ticks, ops, answers>>
  /\ SameTransport

\* cancelling._onEnter: the operation fails in the next tick, the transport is
\* asked to cancel.
Cancelling(callback, rest) ==
  /\ Close("cancelling", "idle", callback, rest)
  /\ ticks' = ticks \o Cancelled
  /\ current' = 0
  /\ requests' = IF transport = "mqtt" THEN requests \ {current} ELSE requests
  /\ UNCHANGED <<queue, waiting, queryTimers, queryTimer, robbed, ops, answers>>

\* disconnecting._onEnter: the timers are stopped, the transport is asked to
\* disconnect.
Disconnecting(callback, rest) ==
  /\ Close("disconnecting", "disconnected", callback, rest)
  /\ queryTimers' = queryTimers \ {queryTimer}
  /\ UNCHANGED <<queue, current, waiting, ticks, requests, queryTimer, robbed,
                 ops, answers>>

-----------------------------------------------------------------------------
(* The handlers of the state machine.                                      *)

\* The callback is called from the handler itself.
CallBack(op, rest) ==
  /\ Answer({op}) /\ agenda' = Owner \o rest
  /\ SameOperation /\ SameTransport /\ UNCHANGED <<state, queue, ops>>

\* disconnected and idle.
HandleAtRest(input, rest) ==
  /\ state \in {"disconnected", "idle"}
  /\ \/ /\ input.do = "register"
        /\ Request("sendingRegistrationRequest", input.op, rest)
     \/ input.do = "cancel" /\ CallBack(input.op, rest)
     \/ /\ input.do = "disconnect" /\ state = "disconnected"
        /\ CallBack(input.op, rest)
     \/ /\ input.do = "disconnect" /\ state = "idle"
        /\ Disconnecting(input.op, rest)

\* sendingRegistrationRequest, waitingToPoll (whose timer goes with the state)
\* and polling.
HandleBusy(input, rest) ==
  /\ state \in Busy
  /\ \/ input.do = "register" /\ CallBack(input.op, rest)
     \/ input.do = "cancel" /\ Cancelling(input.op, rest)
     \/ input.do = "disconnect" /\ Cancelling(-input.op, rest)

\* cancelling and disconnecting.
HandleClosing(input, rest) ==
  /\ state \in Closing
  /\ queue' = Append(queue, input) /\ agenda' = rest
  /\ SameOperation /\ SameTransport /\ UNCHANGED <<state, ops, answers>>

-----------------------------------------------------------------------------
(* The steps.                                                              *)

\* A method is called, by the event loop or inside a callback.
Call(kind) ==
  /\ Idle \/ (agenda # <<>> /\ Head(agenda).do = "owner")
  /\ Len(ops) < MaxOps
  /\ ops' = Append(ops, kind)
  /\ answers' = Append(answers, 0)
  /\ agenda' = <<Item(kind, Len(ops) + 1)>> \o agenda
  /\ SameOperation /\ SameTransport /\ UNCHANGED <<state, queue>>

\* A callback kept by the state machine is called on entering a state.
Callback(callback, rest) ==
  \/ callback > 0 /\ CallBack(callback, rest)
  \/ /\ callback <= 0
     /\ agenda' = (IF callback < 0 THEN <<Item("disconnect", -callback)>>
                   ELSE <<>>) \o rest
     /\ SameOperation /\ SameTransport
     /\ UNCHANGED <<state, queue, ops, answers>>

\* Mutant of Replay: the deferred inputs stay in the queue.
ReplayNothing(rest) ==
  /\ agenda' = rest
  /\ SameOperation /\ SameTransport /\ UNCHANGED <<state, queue, ops, answers>>

\* If a callback has moved the state machine on meanwhile, machina does not
\* replay; by then the queue is empty or its inputs would be deferred again.
Replay(rest) ==
  /\ agenda' = queue \o rest
  /\ queue' = <<>>
  /\ SameOperation /\ SameTransport /\ UNCHANGED <<state, ops, answers>>

\* The head of the agenda runs.
Run ==
  /\ agenda # <<>>
  /\ LET item == Head(agenda)
         rest == Tail(agenda)
     IN
     \/ /\ item.do \in Methods
        /\ \/ HandleAtRest(item, rest)
           \/ HandleBusy(item, rest)
           \/ HandleClosing(item, rest)
     \/ item.do = "call" /\ Callback(item.op, rest)
     \/ item.do = "replay" /\ Replay(rest)
     \/ /\ item.do = "owner" /\ agenda' = rest
        /\ SameOperation /\ SameTransport
        /\ UNCHANGED <<state, queue, ops, answers>>

\* clearTimeout(_queryTimer) in the answer to op's request.
StopTimer(op) ==
  /\ queryTimers' = queryTimers \ {queryTimer}
  /\ robbed' = robbed \cup ((queryTimers \cap {queryTimer}) \ {op})

\* process.nextTick runs before any other event.
NextTick ==
  /\ agenda = <<>> /\ ticks # <<>>
  /\ ticks' = Tail(ticks)
  /\ LET tick == Head(ticks) IN
     \/ /\ tick.do = "call"
        /\ Answer({tick.op}) /\ agenda' = Owner
        /\ SameTransport
     \/ /\ tick.do = "answer"
        /\ StopTimer(tick.op)
        /\ UNCHANGED <<agenda, answers, requests, queryTimer>>
  /\ UNCHANGED <<state, queue, current, waiting, closing, ops>>

\* The transport answers: with an error or a status that ends the registration
\* ("final"), or that the registration is being worked on ("assigning") or has
\* to be sent again ("registering").  Whoever it answers, the timer of the
\* latest request is stopped.  The states responseReceived, responseComplete
\* and responseError are left as soon as they are entered.
Responds(op, outcome) ==
  /\ Idle
  /\ op \in requests
  /\ requests' = requests \ {op}
  /\ StopTimer(op)
  /\ UNCHANGED <<queue, closing, ticks, queryTimer, ops, answers>>
  /\ \/ /\ op = current /\ outcome = "final"
        /\ current' = 0
        /\ Goto("idle", <<Item("call", op)>>, <<>>)
        /\ UNCHANGED waiting
     \/ /\ op = current /\ outcome \in {"assigning", "registering"}
        /\ waiting' = (outcome = "assigning")
        /\ Goto("waitingToPoll", <<>>, <<>>)
        /\ UNCHANGED current
     \/ /\ op # current
        /\ UNCHANGED <<state, agenda, current, waiting>>

\* _pollingTimer.
PollingTimerFires ==
  /\ Idle
  /\ state = "waitingToPoll"
  /\ Request(IF waiting THEN "polling" ELSE "sendingRegistrationRequest",
             current, <<>>)

\* The timer of a request, which looks whether its operation is still there.
QueryTimerFires(op) ==
  /\ Idle
  /\ op \in queryTimers
  /\ queryTimers' = queryTimers \ {op}
  /\ agenda' = IF current = op THEN <<Item("cancel", 0)>> ELSE <<>>
  /\ SameOperation
  /\ UNCHANGED <<state, queue, requests, queryTimer, robbed, ops, answers>>

\* The callback of transport.cancel.
TransportCancelled ==
  /\ Idle
  /\ state = "cancelling"
  /\ Goto("idle", <<Item("call", closing)>>, <<>>)
  /\ closing' = 0
  /\ UNCHANGED <<queue, current, waiting, ticks, ops, answers>>
  /\ SameTransport

\* The callback of transport.disconnect.
TransportDisconnected ==
  /\ Idle
  /\ state = "disconnecting"
  /\ Goto("disconnected", <<Item("call", closing)>>, <<>>)
  /\ closing' = 0
  /\ UNCHANGED <<queue, current, waiting, ticks, ops, answers>>
  /\ SameTransport

Step ==
  \/ \E kind \in Methods : Call(kind)
  \/ Run
  \/ NextTick
  \/ \E op \in requests, outcome \in {"final", "assigning", "registering"} :
       Responds(op, outcome)
  \/ PollingTimerFires
  \/ \E op \in queryTimers : QueryTimerFires(op)
  \/ TransportCancelled
  \/ TransportDisconnected

PollingNext == Step /\ UNCHANGED transport

PollingSpec == PollingInit /\ [][PollingNext]_pollingVars

\* The event loop runs what is due, timers fire, and the transports call back
\* from cancel and disconnect.  Nothing makes a request be answered.
Fairness ==
  LET Due(step) == step /\ UNCHANGED transport
  IN  /\ WF_pollingVars(Due(Run \/ NextTick))
      /\ WF_pollingVars(Due(PollingTimerFires))
      /\ \A op \in 1..MaxOps : WF_pollingVars(Due(QueryTimerFires(op)))
      /\ WF_pollingVars(Due(TransportCancelled \/ TransportDisconnected))

PollingFairSpec == PollingSpec /\ Fairness

-----------------------------------------------------------------------------
(* Properties.                                                             *)

\* How many closures of the state machine will call the callback of o.
Held(o) ==
  Cardinality({i \in DOMAIN queue : queue[i].op = o})
  + Cardinality({i \in DOMAIN agenda :
                   agenda[i].op = o \/ agenda[i] = Item("call", -o)})
  + Cardinality({i \in DOMAIN ticks : ticks[i] = Item("call", o)})
  + (IF current = o THEN 1 ELSE 0)
  + (IF closing \in {o, -o} /\ state \in Closing THEN 1 ELSE 0)

\* Every call is answered exactly once: as long as its callback was not called
\* exactly one part of the state machine holds it, afterwards none.
CallbackOwned == PollingTypeOK /\ \A o \in Ops : Held(o) + answers[o] = 1

\* The wait for an answer ends, by the answer or by the timer of the request,
\* unless the answer to a cancelled request has stopped that timer.
RequestEnds ==
  /\ state = "sendingRegistrationRequest"
       ~> state # "sendingRegistrationRequest" \/ current \in robbed
  /\ state = "polling" ~> state # "polling" \/ current \in robbed

\* A cancel or disconnect is answered, whatever the service and the calls that
\* were deferred with it do.
ClosingAnswered ==
  \A o \in 1..MaxOps :
    o \in Ops /\ ops[o] # "register" ~> o \in Ops /\ answers[o] = 1

=============================================================================
