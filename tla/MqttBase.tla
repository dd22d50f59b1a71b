------------------------------- MODULE MqttBase -------------------------------
(***************************************************************************)
(* The connection state machine under the MQTT transports:                 *)
(* common/transport/mqtt/src/mqtt_base.ts (class MqttBase) with the        *)
(* listeners of external_event_tracker.ts.                                 *)
(*                                                                         *)
(* Three parties take steps here.  The transport above calls connect,      *)
(* disconnect, publish, subscribe and updateSharedAccessSignature, at any  *)
(* time and also from inside the callbacks it is called back with.  The    *)
(* state machine (the machina library) handles a call, defers it to the    *)
(* next transition or ignores it.  The mqtt.js clients, of which there is  *)
(* one per connection attempt, report connect, error, close and the end of *)
(* end().                                                                  *)
(*                                                                         *)
(* An operation is one call, numbered in the order of the calls; 0 stands  *)
(* for no callback.  Messages on the wire are the ones OnTheWire.tla       *)
(* describes in detail; here they are answered by an acknowledgement, by a *)
(* timeout (both are PublishAnswered) or by the purge of a disconnection.  *)
(***************************************************************************)
EXTENDS Integers, Sequences, FiniteSets

CONSTANTS
  Kinds,      \* the calls made, a subset of AllKinds
  MaxOps      \* bound: calls made

AllKinds == {"connect", "disconnect", "publish", "subscribe", "updateSas"}

\* What a client was made for: a connect, a renewal, a renewal given up.
Purposes == {"connecting", "reconnecting", "forced"}

ASSUME MqttBaseAssumption ==
  /\ Kinds \subseteq AllKinds
  /\ MaxOps \in Nat

NoOp == 0
States == {"disconnected", "connecting", "connected", "disconnecting",
           "reconnecting"}

VARIABLES
  state,        \* of the machina state machine
  queue,        \* its inputQueue: deferred inputs
  agenda,       \* inputs under replay, and what the running event still owes
  inCallback,   \* a callback of the transport is on the stack
  clients,      \* the mqtt.js clients created so far; the last is _mqttClient
  ends,         \* calls of end() whose callback has not been called
  wire,         \* publishes in _onTheWirePublishes
  subs,         \* subscribes handed to mqtt.js
  ops,          \* history: kinds of the calls made
  answers,      \* history: how often the callback of each call was called
  errorEvents,  \* history: 'error' events emitted by MqttBase
  crashed,      \* a client emitted 'error' with no listener: node throws
  haunted       \* history: the late close of a client that is forgotten took
                \* the machine out of a state that another client is in

vars == <<state, queue, agenda, inCallback, clients, ends, wire, subs, ops,
          answers, errorEvents, crashed, haunted>>
outcome == <<crashed, haunted>>

Ops == 1..Len(ops)
Inputs == [kind : AllKinds \cup {"closeEvent", "forceDisconnect", "errorEvent"},
           op : Nat]

\* The listeners the code keeps on a client: the four that fail a connection
\* attempt, the one for 'connect', _errorCallback, _closeCallback and
\* _nullErrorCallback.
\* A client that reported an error may report its close too, failed.  It is
\* stale if its attempt was that of a renewal: the state machine has forgotten
\* it, and its listeners are still in place.
Listeners == {"opening", "connect", "error", "close", "null"}
Clients ==
  [phase : {"opening", "up", "failed", "stale", "closed", "ended", "aborted"},
   on    : SUBSET Listeners,
   for   : Purposes,
   op    : Nat]
Ends == [then : {"disconnected", "reconnect", "switched", "forced"},
         op : Nat, err : BOOLEAN]

TypeOK ==
  /\ state \in States
  /\ queue \in Seq(Inputs) /\ agenda \in Seq(Inputs)
  /\ inCallback \in BOOLEAN
  /\ clients \in Seq(Clients)
  /\ ends \subseteq Ends
  /\ wire \subseteq Ops /\ subs \subseteq Ops
  /\ ops \in Seq(AllKinds)
  /\ answers \in [Ops -> Nat]
  /\ errorEvents \in Nat
  /\ crashed \in BOOLEAN /\ haunted \in BOOLEAN

Init ==
  /\ state = "disconnected"
  /\ queue = <<>> /\ agenda = <<>>
  /\ inCallback = FALSE
  /\ clients = <<>>
  /\ ends = {}
  /\ wire = {} /\ subs = {}
  /\ ops = <<>> /\ answers = <<>>
  /\ errorEvents = 0
  /\ crashed = FALSE /\ haunted = FALSE

-----------------------------------------------------------------------------
(* machina.  A transition replays the deferred inputs before whatever the  *)
(* running event has left to do (rest).                                    *)

\* Mutant of Goto: the deferred inputs stay in the queue.
GotoNoReplay(s, rest) == state' = s /\ agenda' = rest /\ UNCHANGED queue

Goto(s, rest) == state' = s /\ agenda' = queue \o rest /\ queue' = <<>>
Stay(rest) == agenda' = rest /\ UNCHANGED <<state, queue>>
deferUntilTransition(input, rest) ==
  /\ queue' = Append(queue, input)
  /\ agenda' = rest
  /\ UNCHANGED state

\* The callbacks of the operations called are called, once each.  A call made
\* in this step (ops' is one longer) starts with none.
Answer(called) ==
  answers' = [o \in DOMAIN ops' |->
                (IF o \in DOMAIN answers THEN answers[o] ELSE 0)
                  + (IF o \in called THEN 1 ELSE 0)]

Quiet == Answer({}) /\ UNCHANGED errorEvents
SameWire == UNCHANGED <<wire, subs>>

-----------------------------------------------------------------------------
(* The mqtt.js clients.                                                    *)

\* _connectClient: a new client with listeners for the outcome of the attempt.
Connecting(why, op) ==
  Append(clients, [phase |-> "opening", on |-> {"opening", "connect"},
                   for |-> why, op |-> op])

\* _disconnectClient: all listeners of the current client are removed but for
\* one that swallows errors, and end() is called.
Ended(client) ==
  [client EXCEPT !.on = {"null"},
                 !.phase = IF @ = "opening" THEN "aborted" ELSE "ended"]
EndLast(cs) == [cs EXCEPT ![Len(cs)] = Ended(@)]

\* addTrackedListener: always on the latest client, whichever client reported.
Listen(cs, listener) == [cs EXCEPT ![Len(cs)].on = @ \cup {listener}]

-----------------------------------------------------------------------------
(* The states entered.  A transition to the current state does nothing,    *)
(* its arguments are dropped.                                              *)

\* disconnected._onEnter: outstanding publishes fail, then the callback is
\* called or the error emitted.
ToDisconnected(op, err, cs, rest) ==
  /\ clients' = cs
  /\ UNCHANGED subs
  /\ IF state = "disconnected"
       THEN Stay(rest) /\ Quiet /\ UNCHANGED wire
       ELSE /\ Goto("disconnected", rest)
            /\ wire' = {}
            /\ Answer(wire \cup {op})
            /\ errorEvents' = IF op = NoOp /\ err
                                THEN errorEvents + 1 ELSE errorEvents

\* Mutant of ToDisconnecting: the error is not kept for the disconnected state.
ToDisconnectingNoErr(op, err, cs, rest) ==
  /\ Quiet /\ SameWire
  /\ IF state = "disconnecting"
       THEN Stay(rest) /\ clients' = cs /\ UNCHANGED ends
       ELSE /\ Goto("disconnecting", rest)
            /\ clients' = EndLast(cs)
            /\ ends' = ends \cup {[then |-> "disconnected", op |-> op,
                                   err |-> FALSE]}

\* disconnecting._onEnter.
ToDisconnecting(op, err, cs, rest) ==
  /\ Quiet /\ SameWire
  /\ IF state = "disconnecting"
       THEN Stay(rest) /\ clients' = cs /\ UNCHANGED ends
       ELSE /\ Goto("disconnecting", rest)
            /\ clients' = EndLast(cs)
            /\ ends' = ends \cup {[then |-> "disconnected", op |-> op,
                                   err |-> err]}

\* connected._onEnter.
ToConnected(op, cs, rest) ==
  /\ SameWire
  /\ UNCHANGED <<ends, errorEvents>>
  /\ IF state = "connected"
       THEN Stay(rest) /\ clients' = cs /\ Answer({})
       ELSE /\ Goto("connected", rest)
            /\ clients' = Listen(cs, "close")
            /\ Answer({op})

-----------------------------------------------------------------------------
(* The handlers of the state machine.                                      *)

HandleDisconnected(input, rest) ==
  /\ state = "disconnected"
  /\ \/ /\ input.kind = "connect"
        /\ Goto("connecting", rest)
        /\ clients' = Connecting("connecting", input.op)
        /\ Quiet
     \/ /\ input.kind \in AllKinds \ {"connect"}
        /\ Answer({input.op})
        /\ Stay(rest)
        /\ UNCHANGED <<clients, errorEvents>>
     \/ /\ input.kind \notin AllKinds    \* no handler: ignored
        /\ Stay(rest) /\ Quiet /\ UNCHANGED clients
  /\ SameWire /\ UNCHANGED ends

\* Mutant of HandleConnecting: disconnect does not end the client.
HandleConnectingNoEnd(input, rest) ==
  /\ state = "connecting"
  /\ IF input.kind = "disconnect"
       THEN ToDisconnected(input.op, FALSE, clients, rest) /\ UNCHANGED ends
       ELSE /\ deferUntilTransition(input, rest)
            /\ Quiet /\ SameWire /\ UNCHANGED <<clients, ends>>

\* Only disconnect is not deferred; the connect it overtakes keeps waiting
\* for a client whose listeners are gone.
HandleConnecting(input, rest) ==
  /\ state = "connecting"
  /\ IF input.kind = "disconnect"
       THEN ToDisconnecting(input.op, FALSE, clients, rest)
       ELSE /\ deferUntilTransition(input, rest)
            /\ Quiet /\ SameWire /\ UNCHANGED <<clients, ends>>

HandleConnected(input, rest) ==
  /\ state = "connected"
  /\ \/ /\ input.kind = "connect"
        /\ Answer({input.op}) /\ Stay(rest)
        /\ SameWire /\ UNCHANGED <<clients, ends, errorEvents>>
     \/ /\ input.kind = "disconnect"
        /\ ToDisconnecting(input.op, FALSE, clients, rest)
     \/ /\ input.kind = "publish"
        /\ wire' = wire \cup {input.op}
        /\ Stay(rest) /\ Quiet /\ UNCHANGED <<clients, ends, subs>>
     \/ /\ input.kind = "subscribe"
        /\ subs' = subs \cup {input.op}
        /\ Stay(rest) /\ Quiet /\ UNCHANGED <<clients, ends, wire>>
     \/ /\ input.kind = "updateSas"
        /\ Goto("reconnecting", rest)
        /\ clients' = EndLast(clients)
        /\ ends' = ends \cup {[then |-> "reconnect", op |-> input.op,
                               err |-> FALSE]}
        /\ Quiet /\ SameWire
     \/ /\ input.kind = "closeEvent"
        /\ ToDisconnected(NoOp, TRUE, clients, rest)
        /\ UNCHANGED ends
     \/ /\ input.kind = "forceDisconnect"    \* no handler: ignored
        /\ Stay(rest) /\ Quiet /\ SameWire /\ UNCHANGED <<clients, ends>>

\* Mutant of HandleDisconnecting: no handler, machina ignores the input.
HandleDisconnectingDrops(input, rest) ==
  /\ state = "disconnecting"
  /\ Stay(rest)
  /\ Quiet /\ SameWire /\ UNCHANGED <<clients, ends>>

\* Everything waits for the end of the client.
HandleDisconnecting(input, rest) ==
  /\ state = "disconnecting"
  /\ deferUntilTransition(input, rest)
  /\ Quiet /\ SameWire /\ UNCHANGED <<clients, ends>>

HandleReconnecting(input, rest) ==
  /\ state = "reconnecting"
  /\ IF input.kind = "forceDisconnect"
       THEN /\ clients' = EndLast(clients)
            /\ ends' = ends \cup {[then |-> "forced", op |-> input.op,
                                   err |-> FALSE]}
            /\ Stay(rest) /\ Quiet /\ SameWire
       ELSE /\ deferUntilTransition(input, rest)
            /\ Quiet /\ SameWire /\ UNCHANGED <<clients, ends>>

\* _fsm.handle, and the listener of a client's error, which is no input of the
\* state machine but a transition from whatever state it is in.
handle(input, rest) ==
  IF input.kind = "errorEvent"
    THEN ToDisconnecting(NoOp, TRUE, clients, rest)
    ELSE \/ HandleDisconnected(input, rest)
         \/ HandleConnecting(input, rest)
         \/ HandleConnected(input, rest)
         \/ HandleDisconnecting(input, rest)
         \/ HandleReconnecting(input, rest)

-----------------------------------------------------------------------------
(* The steps.                                                              *)

\* The transport's code runs inside a step that called one of its callbacks
\* or emitted an error, as long as that step has inputs left to replay.
Reentrancy(still) ==
  inCallback' =
    /\ agenda' # <<>>
    /\ \/ still
       \/ \E o \in DOMAIN answers : answers'[o] > answers[o]
       \/ errorEvents' > errorEvents

Idle == agenda = <<>>

\* A public method is called, by the event loop or inside a callback.
Call(kind) ==
  /\ Idle \/ inCallback
  /\ Len(ops) < MaxOps
  /\ ops' = Append(ops, kind)
  /\ handle([kind |-> kind, op |-> Len(ops) + 1], agenda)
  /\ Reentrancy(inCallback \/ answers' # Append(answers, 0))

\* The next input of the replay.
Replay ==
  /\ ~Idle
  /\ UNCHANGED ops
  /\ handle(Head(agenda), Tail(agenda))
  /\ Reentrancy(FALSE)

InPhase(phases) == {c \in DOMAIN clients : clients[c].phase \in phases}

\* 'connect': the listeners for the failure of the attempt are removed, if the
\* tracker is still the one of this client, and the callback of
\* _connectClient makes the state machine connected.  After a forced
\* disconnect it does so without adding the error listener.
ClientConnects(c) ==
  LET up == [clients EXCEPT
               ![c].phase = "up",
               ![c].on = IF c = Len(clients) THEN @ \ {"opening"} ELSE @]
      client == clients[c]
  IN
  /\ Idle
  /\ client.phase = "opening"
  /\ UNCHANGED ops
  /\ ToConnected(client.op,
                 IF client.for = "forced" THEN up ELSE Listen(up, "error"),
                 <<>>)
  /\ Reentrancy(FALSE)

\* The connection attempt of client c failed: the callback of _connectClient.
AttemptFailed(c, cs, rest) ==
  IF clients[c].for = "connecting"
    THEN ToDisconnecting(clients[c].op, TRUE, cs, rest)
    ELSE ToDisconnected(clients[c].op, TRUE, cs, rest) /\ UNCHANGED ends

\* A client reports 'error' or 'close': first to the listeners of the attempt,
\* then (after everything that one sets off) to the other, as an input.
Report(c, phase, listener, input) ==
  LET on == clients[c].on
      cs == [clients EXCEPT ![c].phase = phase]
      event == [kind |-> input, op |-> NoOp]
  IN
  /\ Idle
  /\ UNCHANGED ops
  /\ \/ /\ "opening" \in on
        /\ AttemptFailed(c, cs, IF listener \in on THEN <<event>> ELSE <<>>)
     \/ /\ "opening" \notin on
        /\ agenda' = IF listener \in on THEN <<event>> ELSE <<>>
        /\ clients' = cs
        /\ Quiet /\ SameWire
        /\ UNCHANGED <<state, queue, ends>>
  /\ Reentrancy(FALSE)

ClientErrors(c) ==
  LET renewal == "opening" \in clients[c].on /\ clients[c].for # "connecting"
  IN
  /\ clients[c].phase \in {"opening", "up"}
  /\ Report(c, IF renewal THEN "stale" ELSE "failed", "error", "errorEvent")
  /\ crashed' = (clients[c].on \cap {"opening", "error", "null"} = {})
  /\ UNCHANGED haunted

ClientCloses(c) ==
  /\ clients[c].phase \in {"opening", "up", "failed"}
  /\ Report(c, "closed", "close", "closeEvent")
  /\ UNCHANGED outcome

\* The close after the error of a renewal's attempt fails the attempt again.
StaleCloses(c) ==
  /\ clients[c].phase = "stale"
  /\ Report(c, "closed", "close", "closeEvent")
  /\ haunted' = (haunted \/ state # "disconnected")
  /\ UNCHANGED crashed

\* The callback of end().  What it does was decided when end() was called,
\* except that a reconnection is given up to the forced one.
EndDone(end) ==
  /\ Idle
  /\ UNCHANGED ops
  /\ \/ /\ end.then = "disconnected"
        /\ ends' = ends \ {end}
        /\ ToDisconnected(end.op, end.err, clients, <<>>)
     \/ /\ end.then \in {"reconnect", "forced"}
        /\ ends' = ends \ {end}
        /\ clients' = Connecting(IF end.then = "forced" THEN "forced"
                                 ELSE "reconnecting", end.op)
        /\ Stay(<<>>) /\ Quiet /\ SameWire
     \/ /\ end.then = "switched"
        /\ ends' = ends \ {end}
        /\ Stay(<<>>) /\ Quiet /\ SameWire /\ UNCHANGED clients
  /\ Reentrancy(FALSE)

\* The 30 second timer of reconnecting, cleared by the callback of end().
DisconnectTimeout(end) ==
  /\ Idle
  /\ end.then = "reconnect"
  /\ agenda' = <<[kind |-> "forceDisconnect", op |-> end.op]>>
  /\ ends' = (ends \ {end}) \cup {[end EXCEPT !.then = "switched"]}
  /\ UNCHANGED <<state, queue, inCallback, clients, wire, subs, ops, answers,
                 errorEvents>>

\* PUBACK, publish error or timeout of a message on the wire.
PublishAnswered(o) ==
  /\ Idle
  /\ o \in wire
  /\ wire' = wire \ {o}
  /\ UNCHANGED ops
  /\ Answer({o})
  /\ UNCHANGED <<state, queue, agenda, inCallback, clients, ends, subs,
                 errorEvents>>

\* SUBACK or subscribe error: the callback was handed to mqtt.js as it is.
SubscribeAnswered(o) ==
  /\ Idle
  /\ o \in subs
  /\ subs' = subs \ {o}
  /\ UNCHANGED ops
  /\ Answer({o})
  /\ UNCHANGED <<state, queue, agenda, inCallback, clients, ends, wire,
                 errorEvents>>

User == \E kind \in Kinds : Call(kind)

Attempt(c) == ClientErrors(c) \/ ClientCloses(c)
                \/ (ClientConnects(c) /\ UNCHANGED outcome)

System ==
  \/ \E c \in DOMAIN clients : Attempt(c) \/ StaleCloses(c)
  \/ /\ \/ Replay
        \/ \E end \in ends : EndDone(end) \/ DisconnectTimeout(end)
        \/ \E o \in wire : PublishAnswered(o)
        \/ \E o \in subs : SubscribeAnswered(o)
     /\ UNCHANGED outcome

Next == ~crashed /\ ((User /\ UNCHANGED outcome) \/ System)

Spec == Init /\ [][Next]_vars

\* The event loop runs what is due; mqtt.js gives every connection attempt an
\* outcome (it has a connect timeout of a minute), calls the callback of end(),
\* and a message on the wire is at the latest answered by its timeout
\* (OnTheWire.tla).  Nothing makes an established connection fail.
Fairness ==
  /\ WF_vars(~crashed /\ Replay /\ UNCHANGED outcome)
  /\ \A c \in 1..MaxOps :
       WF_vars(/\ ~crashed
               /\ c \in DOMAIN clients /\ clients[c].phase = "opening"
               /\ Attempt(c))
  /\ WF_vars(~crashed /\ (\E end \in ends : EndDone(end)) /\ UNCHANGED outcome)
  /\ \A o \in 1..MaxOps :
       WF_vars(~crashed /\ PublishAnswered(o) /\ UNCHANGED outcome)

FairSpec == Spec /\ Fairness

-----------------------------------------------------------------------------
(* Properties.                                                             *)

\* Where the callback of an operation that was not called yet is kept.
QueuedOps == {queue[i].op : i \in DOMAIN queue} \cup
             {agenda[i].op : i \in DOMAIN agenda}
EndingOps == {end.op : end \in {e \in ends : e.then # "switched"}}
OpeningOps == {clients[c].op : c \in InPhase({"opening"})}

\* A connect whose attempt was aborted by a disconnect.
Overtaken(o) ==
  \E c \in InPhase({"aborted"}) :
    clients[c].op = o /\ clients[c].for = "connecting"

\* No callback is called twice, however connects, errors, closes and the 30
\* second timer are interleaved, and none is lost: an operation whose callback
\* was not called is still deferred, on the wire, or owned by a pending event of
\* a client, and one whose callback was called is nowhere any more.  That ends
\* where a stale client closes when the state machine is no longer
\* disconnected: it calls the callback of its renewal again and takes the
\* machine from the client it has by then.
NoCallbackLost ==
  /\ TypeOK
  /\ haunted
     \/ /\ \A o \in Ops : answers[o] <= 1
        /\ \A o \in Ops : (answers[o] = 0 /\ ~Overtaken(o))
             <=> o \in QueuedOps \cup EndingOps \cup OpeningOps \cup wire \cup subs

\* At most one client has or seeks a connection, and none when disconnected;
\* between events the machine is connected only if the latest client is: no
\* loss is missed while listeners are exchanged.  The stale client of a failed
\* renewal alone can end that, if it closes after the next connect began.
OneConnection ==
  \/ haunted
  \/ /\ state = "connected" /\ Idle /\ ~crashed => clients[Len(clients)].phase = "up"
     /\ Cardinality(InPhase({"opening", "up"})) <= 1
     /\ state = "disconnected" => InPhase({"opening", "up"}) = {}

\* Whenever the connection goes down someone above is told: the callback of an
\* operation other than a purged publish is called or 'error' is emitted.
LossReported ==
  [][state # "disconnected" /\ state' = "disconnected"
       => \/ \E o \in Ops \ wire : answers'[o] > answers[o]
          \/ errorEvents' > errorEvents]_vars

\* Every call of the transport but a subscribe is answered (mqtt.js answers a
\* subscribe, or not), unless a disconnect overtakes the connect or a stale
\* client takes the machine from the client that would have answered.
EveryCallAnswered ==
  \A o \in 1..MaxOps :
    o \in Ops /\ ops[o] # "subscribe"
      ~> o \in Ops /\ (crashed \/ haunted \/ Overtaken(o) \/ answers[o] > 0)

=============================================================================
