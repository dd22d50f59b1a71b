----------------------------- MODULE DeviceMqtt -----------------------------
(***************************************************************************)
(* The MQTT transport of the device client and what it is put together     *)
(* from: device/transport/mqtt/src/mqtt.ts (class Mqtt), the twin client of *)
(* mqtt_twin_client.ts, and the shared access key provider of              *)
(* device/core/src/sak_authentication_provider.ts, which signs at once, or *)
(* in iotedge_authentication_provider.ts with a request to the edge.       *)
(* MqttBase below is what its own module shows it to be: a machine of five *)
(* states that answers its calls, defers them while a connection is made,  *)
(* renewed or ended, and reports a loss.  The client of a renewal that      *)
(* failed may close late and take down what came after it.                 *)
(*                                                                         *)
(* Three state machines (the transport, MqttBase and one per twin topic)   *)
(* call each other, and the client above, in the middle of each other's    *)
(* handlers.  The stack holds what the running event still has to do,      *)
(* innermost first; an event starts when it is empty.                      *)
(*                                                                         *)
(* An operation is one call of the client, numbered in the order of the    *)
(* calls.  NoOp stands for the closures the transport makes on its own: the*)
(* one that emits 'disconnect' after a loss and the one of a new token.    *)
(***************************************************************************)
EXTENDS Integers, Sequences, FiniteSets

CONSTANTS
  Sessions,     \* the sets of calls made together, subsets of AllKinds
  Providers,    \* kinds of authentication, a subset of AllProviders
  MaxOps,       \* bound: calls made
  MaxRenewals   \* bound: times the renewal timer fires

\* enable and disable stand for those of C2D messages, methods and input
\* messages, twin for getTwin and updateTwinReportedProperties, respond for
\* sendMethodResponse, send for sendEvent and sendOutputEvent.
Opening == {"connect", "send", "enable", "enableTwin", "twin"}
AllKinds ==
  Opening \cup {"disconnect", "updateSas", "respond", "disable", "disableTwin"}
AllProviders == {"x509", "sas", "sak", "edge"}

ASSUME DeviceMqttAssumption ==
  /\ Sessions \subseteq SUBSET AllKinds
  /\ Providers \subseteq AllProviders
  /\ MaxOps \in Nat /\ MaxRenewals \in Nat

VARIABLES
  provider,     \* the authentication provider, chosen at the start
  state, queue, \* the transport's machine and its deferred inputs
  base, baseQueue,  \* MqttBase's machine and its deferred inputs
  owed,         \* the call whose callback MqttBase calls at the end of the
                \* connection attempt, renewal or disconnection under way
  wire, handed, \* publishes, and (un)subscribes, with mqtt.js
  stale,        \* the calls whose renewals failed with a client still to close
  subscribed,   \* topic.subscribed of the current TopicDescription
  mine,         \* calls whose (un)subscribe concerns that description
  topic, topicQueue,    \* the twin topics' machines and deferred inputs
  pending,      \* _pendingTwinRequests
  asked,        \* twin requests the hub may answer on this connection
  timer, token, \* _renewalTimeout is set; the token's age
  signing,      \* signatures asked for and not received
  renewals,     \* times the timer fired
  agent,        \* _userAgentString is known
  preparing,    \* connection attempts that wait for it
  borrowed,     \* somebody else's use of the provider armed the timer
  stack,        \* what the running event has left to do
  ops, answers, \* history: the calls made and the outcomes called back
  raced,        \* history: a disconnect came while MqttBase was busy
  dropped,      \* history: calls whose callback ignored a closed connection
  haunted       \* history: the call of the renewal whose client, closing late,
                \* took down what came after it

dev == <<state, queue>>
baseVars == <<base, baseQueue, owed, wire, handed, stale>>
feature == <<subscribed, mine>>
twin == <<topic, topicQueue, pending, asked>>
auth == <<timer, token, signing, renewals, agent, preparing, borrowed>>
hist == <<ops, answers, dropped, haunted>>
vars == <<provider, dev, baseVars, feature, twin, auth, stack, hist, raced>>

NoOp == 0
Ops == DOMAIN ops
Idle == stack = <<>>

Topics == {"response", "desired"}
topicOf(op) == IF ops[op] = "twin" THEN "response" ELSE "desired"
\* Calls that go through the twin client.
OfTwin == {"twin", "enableTwin", "disableTwin"}
\* What the client's call subscribes to or unsubscribes from.
request(op) ==
  IF ops[op] \in {"disable", "disableTwin"} THEN "unsubscribe" ELSE "subscribe"

Frame(do, kind, op, how) == [do |-> do, kind |-> kind, op |-> op, how |-> how]
Outcomes == {"ok", "err", "closed"}
BaseKinds == {"connect", "disconnect", "publish", "subscribe", "unsubscribe",
              "updateSas"}
States == {"disconnected", "connecting", "connected", "disconnecting"}
BaseStates == {"disconnected", "connecting", "connected", "disconnecting",
               "reconnecting"}
TopicStates == {"unsubscribed", "subscribing", "subscribed", "unsubscribing"}
Calls ==
  [kind : AllKinds \cup BaseKinds \cup {"error"}, op : 0..MaxOps, how : Outcomes]
Frames ==
  [do : {"replay", "baseReplay", "topicReplay", "handle", "base", "reply",
         "close", "topic", "topicDone", "credentials", "opened", "done",
         "client"},
   kind : AllKinds \cup BaseKinds \cup {"error"} \cup States \cup BaseStates
            \cup TopicStates,
   op : 0..MaxOps, how : Outcomes]

\* Type invariant: one machine of the transport, one of MqttBase and two of
\* the twin topics, and calls that are deferred or under way by number.
TypeOK ==
  /\ provider \in Providers
  /\ state \in States /\ base \in BaseStates
  /\ queue \in Seq([kind : AllKinds, op : 0..MaxOps])
  /\ baseQueue \in Seq([kind : BaseKinds, op : 0..MaxOps])
  /\ owed \in Calls
  /\ wire \in Seq(Ops) /\ handed \in Seq(Ops) /\ stale \in Seq(0..MaxOps)
  /\ mine \subseteq Ops /\ subscribed \in BOOLEAN
  /\ topic \in [Topics -> TopicStates]
  /\ topicQueue \in [Topics -> Seq(Ops)]
  /\ pending \subseteq Ops /\ asked \subseteq Ops /\ preparing \subseteq Ops
  /\ timer \in BOOLEAN /\ agent \in BOOLEAN /\ borrowed \in BOOLEAN
  /\ token \in {"none", "valid", "due"}
  /\ signing \subseteq [for : {"connect", "renew"}, op : Nat]
  /\ renewals \in 0..MaxRenewals
  /\ stack \in Seq(Frames)
  /\ ops \in Seq(AllKinds) /\ Len(ops) <= MaxOps
  /\ answers \in [Ops -> Seq({"ok", "err"})]
  /\ raced \in BOOLEAN /\ dropped \subseteq Ops /\ haunted \subseteq 0..MaxOps

Owed(f, how) == [kind |-> f.kind, op |-> f.op, how |-> how]
Nothing == [kind |-> "error", op |-> NoOp, how |-> "ok"]
Lost == [Nothing EXCEPT !.how = "err"]    \* an error to emit

Init ==
  /\ provider \in Providers
  /\ state = "disconnected" /\ queue = <<>>
  /\ base = "disconnected" /\ baseQueue = <<>> /\ owed = Nothing
  /\ wire = <<>> /\ handed = <<>> /\ stale = <<>>
  /\ subscribed = FALSE /\ mine = {}
  /\ topic = [t \in Topics |-> "unsubscribed"]
  /\ topicQueue = [t \in Topics |-> <<>>]
  /\ pending = {} /\ asked = {}
  /\ timer = FALSE /\ token = "none" /\ signing = {} /\ renewals = 0
  /\ agent = FALSE /\ preparing = {} /\ borrowed = FALSE
  /\ stack = <<>>
  /\ ops = <<>> /\ answers = <<>>
  /\ raced = FALSE /\ dropped = {} /\ haunted = {}

-----------------------------------------------------------------------------
(* The stack and machina.                                                  *)

Push(frames, rest) == stack' = frames \o rest

\* The client's code runs, if it has calls left to make.
Client == IF Len(ops) < MaxOps
            THEN <<Frame("client", "connect", NoOp, "ok")>> ELSE <<>>

\* A transition runs _onEnter, then the deferred inputs if the machine is still
\* in that state; a transition to the current state does nothing.
transition(s, frames, rest) ==
  IF state = s
    THEN stack' = rest /\ UNCHANGED state
    ELSE /\ state' = s
         /\ Push(frames \o <<Frame("replay", s, NoOp, "ok")>>, rest)

baseTransition(s, frames, rest) ==
  /\ base' = s
  /\ Push(frames \o <<Frame("baseReplay", s, NoOp, "ok")>>, rest)

Replay(f, rest) ==
  /\ f.do = "replay"
  /\ IF state = f.kind
       THEN /\ Push([i \in DOMAIN queue |->
                       Frame("handle", queue[i].kind, queue[i].op, "ok")], rest)
            /\ queue' = <<>>
       ELSE stack' = rest /\ UNCHANGED queue
  /\ UNCHANGED <<state, baseVars, feature, twin, auth, hist>>

BaseReplay(f, rest) ==
  /\ f.do = "baseReplay"
  /\ IF base = f.kind
       THEN /\ Push([i \in DOMAIN baseQueue |->
                       Frame("base", baseQueue[i].kind, baseQueue[i].op, "ok")],
                    rest)
            /\ baseQueue' = <<>>
       ELSE stack' = rest /\ UNCHANGED baseQueue
  /\ UNCHANGED <<dev, base, owed, wire, handed, stale, feature, twin, auth, hist>>

TopicReplay(f, rest) ==
  /\ f.do = "topicReplay"
  /\ LET t == topicOf(f.op) IN
     IF topic[t] = f.kind
       THEN /\ Push([i \in DOMAIN topicQueue[t] |->
                       Frame("topic", "connect", topicQueue[t][i], "ok")], rest)
            /\ topicQueue' = [topicQueue EXCEPT ![t] = <<>>]
       ELSE stack' = rest /\ UNCHANGED topicQueue
  /\ UNCHANGED <<dev, baseVars, feature, topic, pending, asked, auth, hist>>

-----------------------------------------------------------------------------
(* The authentication provider.                                            *)

Signs == provider \in {"sak", "edge"}

\* _scheduleNextExpiryTimeout, after _renewToken stored a new token.
Renewed == token' = "valid" /\ timer' = TRUE

\* getDeviceCredentials for the connection attempt of op, and the frames its
\* callback leaves.  A token that is due may or may not be within the margin.
getDeviceCredentials(op, frames) ==
  LET now == <<Frame("credentials", "connect", op, "ok")>> IN
  /\ UNCHANGED <<renewals, agent, preparing, borrowed>>
  /\ \/ /\ Signs => token # "none"
        /\ frames = now
        /\ UNCHANGED <<timer, token, signing>>
     \/ /\ provider = "sak" /\ token # "valid"
        /\ frames = now
        /\ Renewed /\ UNCHANGED signing
     \/ /\ provider = "edge" /\ token # "valid"
        /\ frames = <<>>
        /\ signing' = signing \cup {[for |-> "connect", op |-> op]}
        /\ UNCHANGED <<timer, token>>

\* stop, called on entering the state disconnected: nothing happens unless the
\* timer runs.
stop ==
  /\ timer' = FALSE
  /\ token' = IF timer THEN "none" ELSE token
  /\ borrowed' = FALSE
  /\ UNCHANGED <<signing, renewals, agent, preparing>>

\* getDeviceCredentials for somebody who shares the provider of the device client
\* and is not the transport, as an upload of a blob is, connected or not.
OtherUser ==
  /\ ~Idle => Head(stack).do = "client"
  /\ provider = "sak" /\ token = "none"
  /\ Renewed /\ borrowed' = TRUE
  /\ UNCHANGED <<dev, baseVars, feature, twin, signing, renewals, agent, preparing,
                 stack, hist>>

\* _expiryTimerHandler, by the timer or by setTokenRenewalValues.
ExpiryTimer ==
  /\ Idle /\ timer /\ renewals < MaxRenewals
  /\ renewals' = renewals + 1
  /\ \/ /\ provider = "sak"
        /\ Renewed /\ UNCHANGED signing
        /\ Push(<<Frame("handle", "updateSas", NoOp, "ok")>>, <<>>)
     \/ /\ provider = "edge"
        /\ timer' = FALSE /\ token' = "due"
        /\ signing' = signing \cup {[for |-> "renew", op |-> renewals]}
        /\ UNCHANGED stack
  /\ UNCHANGED <<dev, baseVars, feature, twin, agent, preparing, borrowed, hist>>

\* The edge answers a request to sign.  After a failed renewal the provider
\* emits 'error' and no timer runs.
Signed(s, how) ==
  /\ Idle
  /\ signing' = signing \ {s}
  /\ IF how = "ok" THEN Renewed ELSE UNCHANGED <<timer, token>>
  /\ \/ /\ s.for = "connect"
        /\ Push(<<Frame("credentials", "connect", s.op, how)>>, <<>>)
     \/ /\ s.for = "renew"
        /\ Push(IF how = "ok" THEN <<Frame("handle", "updateSas", NoOp, "ok")>>
                ELSE Client, <<>>)
  /\ UNCHANGED <<dev, baseVars, feature, twin, renewals, agent, preparing, borrowed,
                 hist>>

-----------------------------------------------------------------------------
(* The transport's state machine.                                          *)

Done(op, how) == Frame("done", "connect", op, how)
OnBase(kind, op) == Frame("base", kind, op, "ok")

\* Mutant of ToDisconnected: the provider is not stopped.
ToDisconnectedStopsNothing(frames, rest) ==
  transition("disconnected", frames, rest) /\ UNCHANGED auth

\* The four states entered.
ToDisconnected(frames, rest) ==
  /\ transition("disconnected", frames, rest)
  /\ IF state = "disconnected" THEN UNCHANGED auth ELSE stop

ToConnecting(op, rest) ==
  \E frames \in {<<>>, <<Frame("credentials", "connect", op, "ok")>>} :
    /\ getDeviceCredentials(op, frames)
    /\ transition("connecting", frames, rest)

\* The listeners of 'connected' run before the callback of the connection.
ToConnected(op, rest) ==
  transition("connected", Client \o <<Frame("opened", "connect", op, "ok")>>,
             rest)

ToDisconnecting(op, rest) ==
  transition("disconnecting", <<OnBase("disconnect", op)>>, rest)

HandleDisconnected(f, rest) ==
  /\ state = "disconnected"
  /\ \/ f.kind \in Opening /\ ToConnecting(f.op, rest)
     \/ /\ f.kind \in {"disconnect", "updateSas", "disable", "disableTwin"}
        /\ Push(<<Done(f.op, "ok")>>, rest)
        /\ UNCHANGED <<state, auth>>
     \/ /\ f.kind = "respond"
        /\ Push(<<Done(f.op, "err")>>, rest)
        /\ UNCHANGED <<state, auth>>
  /\ UNCHANGED <<queue, feature>>

\* Only disconnect is handled while connecting, and nothing while disconnecting.
HandleTransient(f, rest) ==
  /\ state \in {"connecting", "disconnecting"}
  /\ IF state = "connecting" /\ f.kind = "disconnect"
       THEN ToDisconnecting(f.op, rest) /\ UNCHANGED queue
       ELSE /\ queue' = Append(queue, [kind |-> f.kind, op |-> f.op])
            /\ stack' = rest
            /\ UNCHANGED state
  /\ UNCHANGED <<auth, feature>>

\* Subscribes and unsubscribes of the feature go to MqttBase only if the
\* current description says so.
HandleConnected(f, rest) ==
  /\ state = "connected"
  /\ \/ f.kind = "disconnect" /\ ToDisconnecting(f.op, rest) /\ UNCHANGED mine
     \/ /\ \/ f.kind = "connect"
           \/ f.kind = "enable" /\ subscribed
           \/ f.kind = "disable" /\ ~subscribed
        /\ Push(<<Done(f.op, "ok")>>, rest)
        /\ UNCHANGED <<state, mine>>
     \/ /\ \/ f.kind = "enable" /\ ~subscribed
           \/ f.kind = "disable" /\ subscribed
        /\ mine' = mine \cup {f.op}
        /\ Push(<<OnBase(request(f.op), f.op)>>, rest)
        /\ UNCHANGED state
     \/ /\ f.kind \in {"send", "respond"}
        /\ Push(<<OnBase("publish", f.op)>>, rest)
        /\ UNCHANGED <<state, mine>>
     \/ /\ f.kind = "send"    \* MessageTooLargeError
        /\ Push(<<Done(f.op, "err")>>, rest)
        /\ UNCHANGED <<state, mine>>
     \/ /\ f.kind = "updateSas"
        /\ Push(<<OnBase("updateSas", f.op)>>, rest)
        /\ UNCHANGED <<state, mine>>
     \/ /\ f.kind \in OfTwin
        /\ Push(<<Frame("topic", "connect", f.op, "ok")>>, rest)
        /\ UNCHANGED <<state, mine>>
  /\ UNCHANGED <<queue, subscribed, auth>>

Handle(f, rest) ==
  /\ f.do = "handle"
  /\ \/ HandleDisconnected(f, rest)
     \/ HandleTransient(f, rest)
     \/ HandleConnected(f, rest)
  /\ UNCHANGED <<baseVars, twin, hist>>

\* The callback of getDeviceCredentials: new topic descriptions, and MqttBase
\* connects once the agent string is known.
Credentials(f, rest) ==
  /\ f.do = "credentials"
  /\ \/ /\ f.how = "err"
        /\ ToDisconnected(<<Frame("opened", "connect", f.op, "err")>>, rest)
        /\ UNCHANGED feature
     \/ /\ f.how = "ok"
        /\ subscribed' = FALSE /\ mine' = {}
        /\ UNCHANGED <<state, timer, token, signing, renewals, borrowed>>
        /\ \/ /\ agent' = TRUE /\ UNCHANGED preparing
              /\ Push(<<OnBase("connect", f.op)>>, rest)
           \/ /\ ~agent /\ UNCHANGED agent
              /\ preparing' = preparing \cup {f.op}
              /\ stack' = rest
  /\ UNCHANGED <<queue, baseVars, twin, hist>>

\* The platform string was found (_ensureAgentString).
AgentReady(op) ==
  /\ Idle
  /\ agent' = TRUE
  /\ preparing' = preparing \ {op}
  /\ Push(<<OnBase("connect", op)>>, <<>>)
  /\ UNCHANGED <<dev, baseVars, feature, twin, timer, token, signing, renewals,
                 borrowed, hist>>

\* Mutant of Opened: a failed connection does not call back the call it was for.
OpenedSilently(f, rest) ==
  /\ f.do = "opened"
  /\ Push(IF ops[f.op] = "connect" THEN <<Done(f.op, f.how)>>
          ELSE IF f.how = "err" THEN <<>>
          ELSE <<Frame("handle", ops[f.op], f.op, "ok")>>, rest)
  /\ UNCHANGED <<dev, baseVars, feature, twin, auth, hist>>

\* The callback given to a connection attempt: that of connect, or the closure
\* that goes on with the call the connection was made for.
Opened(f, rest) ==
  /\ f.do = "opened"
  /\ Push(IF ops[f.op] = "connect" \/ f.how = "err" THEN <<Done(f.op, f.how)>>
          ELSE <<Frame("handle", ops[f.op], f.op, "ok")>>, rest)
  /\ UNCHANGED <<dev, baseVars, feature, twin, auth, hist>>

\* The client's callback; for NoOp, 'disconnect' is emitted after a loss or a
\* failed renewal, and a renewal that went well is nobody's business.
Finish(f, rest) ==
  /\ f.do = "done"
  /\ answers' = IF f.op = NoOp THEN answers
                ELSE [answers EXCEPT ![f.op] = Append(@, f.how)]
  /\ Push(IF f.op = NoOp /\ f.kind = "updateSas" /\ f.how = "ok"
          THEN <<>> ELSE Client, rest)
  /\ UNCHANGED <<dev, baseVars, feature, twin, auth, ops, dropped, haunted>>

\* The client's code returns.
Returns(f, rest) ==
  /\ f.do = "client"
  /\ stack' = rest
  /\ UNCHANGED <<dev, baseVars, feature, twin, auth, hist>>

\* The client calls the transport.  updateSharedAccessSignature also stores the
\* token in the provider, which announces it at once.
Call(kind) ==
  /\ ~Idle => Head(stack).do = "client"
  /\ Len(ops) < MaxOps
  /\ \E session \in Sessions : {kind} \cup {ops[o] : o \in Ops} \subseteq session
  /\ kind = "updateSas" => provider = "sas"
  /\ LET op == Len(ops) + 1
         called == Frame("handle", kind, op, "ok")
     IN /\ ops' = Append(ops, kind)
        /\ answers' = Append(answers, <<>>)
        /\ Push(IF kind = "updateSas" THEN <<[called EXCEPT !.op = NoOp], called>>
                ELSE <<called>>, stack)
  /\ UNCHANGED <<dev, baseVars, feature, twin, auth, dropped, haunted>>

-----------------------------------------------------------------------------
(* MqttBase, as its clients see it.                                        *)

Reply(kind, op, how) == Frame("reply", kind, op, how)

\* disconnected._onEnter: publishes fail, then the callback or an 'error',
\* which the transport handles as a disconnect of its own.
Down(last, rest) ==
  /\ baseTransition("disconnected",
       [i \in DOMAIN wire |-> Reply("publish", wire[i], "err")]
         \o IF last = Lost
              THEN <<Frame("handle", "disconnect", NoOp, "ok")>>
              ELSE <<Reply(last.kind, last.op, last.how)>>,
       rest)
  /\ wire' = <<>> /\ asked' = {}
  /\ owed' = Nothing
  /\ UNCHANGED handed

\* A connection ends, or an attempt starts; op's callback is owed.
Owing(s, last, rest) ==
  /\ baseTransition(s, <<>>, rest)
  /\ owed' = last
  /\ asked' = {}
  /\ UNCHANGED <<wire, handed>>

BaseAnswers(f, how, rest) ==
  /\ Push(<<Reply(f.kind, f.op, how)>>, rest)
  /\ UNCHANGED <<baseVars, asked>>

BaseDisconnected(f, rest) ==
  /\ base = "disconnected"
  /\ \/ /\ f.kind = "connect"
        /\ Owing("connecting", Owed(f, "ok"), rest) /\ UNCHANGED baseQueue
     \/ f.kind \in {"disconnect", "updateSas"} /\ BaseAnswers(f, "ok", rest)
     \/ /\ f.kind \in {"publish", "subscribe", "unsubscribe"}
        /\ BaseAnswers(f, "err", rest)

BaseConnected(f, rest) ==
  /\ base = "connected"
  /\ \/ f.kind = "connect" /\ BaseAnswers(f, "ok", rest)
     \/ /\ f.kind = "disconnect"
        /\ Owing("disconnecting", Owed(f, "ok"), rest) /\ UNCHANGED baseQueue
     \/ /\ f.kind = "updateSas"
        /\ Owing("reconnecting", Owed(f, "ok"), rest) /\ UNCHANGED baseQueue
     \/ /\ f.kind = "publish"
        /\ wire' = Append(wire, f.op) /\ stack' = rest
        /\ UNCHANGED <<base, baseQueue, owed, handed, asked>>
     \/ /\ f.kind \in {"subscribe", "unsubscribe"}
        /\ handed' = Append(handed, f.op) /\ stack' = rest
        /\ UNCHANGED <<base, baseQueue, owed, wire, asked>>

BaseTransient(f, rest) ==
  /\ base \in {"connecting", "disconnecting", "reconnecting"}
  /\ IF base = "connecting" /\ f.kind = "disconnect"
       THEN Owing("disconnecting", Owed(f, "ok"), rest) /\ UNCHANGED baseQueue
       ELSE /\ baseQueue' = Append(baseQueue, [kind |-> f.kind, op |-> f.op])
            /\ stack' = rest
            /\ UNCHANGED <<base, owed, wire, handed, asked>>

BaseHandle(f, rest) ==
  /\ f.do = "base"
  /\ \/ BaseDisconnected(f, rest)
     \/ BaseConnected(f, rest)
     \/ BaseTransient(f, rest)
  /\ UNCHANGED <<dev, stale, feature, topic, topicQueue, pending, auth, hist>>

\* What mqtt.js was handed is called back as its connection closes.
Closing ==
  [i \in DOMAIN handed |-> Reply(request(handed[i]), handed[i], "closed")]

SameAbove == UNCHANGED <<dev, baseQueue, feature, topic, topicQueue, pending,
                         auth, hist>>

\* A connection attempt or a renewal succeeds.
BaseUp ==
  /\ Idle /\ base \in {"connecting", "reconnecting"} /\ handed = <<>>
  /\ baseTransition("connected", <<Reply(owed.kind, owed.op, "ok")>>, <<>>)
  /\ owed' = Nothing
  /\ SameAbove /\ UNCHANGED <<wire, handed, stale, asked>>

\* An attempt fails and its client is ended, or a connection has an error.
BaseFails ==
  /\ Idle /\ base \in {"connecting", "connected"}
  /\ Owing("disconnecting",
           IF base = "connected" THEN Lost ELSE [owed EXCEPT !.how = "err"], <<>>)
  /\ SameAbove /\ UNCHANGED stale

\* The connection closes; while MqttBase ends it nobody else is told.
ConnectionCloses ==
  /\ Idle
  /\ base = "connected" \/ (base \in {"disconnecting", "reconnecting"}
                              /\ handed # <<>>)
  /\ handed' = <<>> /\ asked' = {}
  /\ Push(Closing, IF base = "connected"
                     THEN <<Frame("close", "error", NoOp, "ok")>> ELSE <<>>)
  /\ SameAbove /\ UNCHANGED <<base, owed, wire, stale>>

CloseEvent(f, rest) ==
  /\ f.do = "close"
  /\ IF base = "connected"
       THEN Down(Lost, rest)
       ELSE stack' = rest /\ UNCHANGED <<base, owed, wire, handed, asked>>
  /\ SameAbove /\ UNCHANGED stale

\* end() is done, or a renewal fails: because its client closes, or has an error,
\* and then it closes later.
BaseDown ==
  /\ Idle /\ base \in {"disconnecting", "reconnecting"} /\ handed = <<>>
  /\ Down(IF base = "reconnecting" THEN [owed EXCEPT !.how = "err"] ELSE owed,
          <<>>)
  /\ \/ UNCHANGED stale
     \/ base = "reconnecting" /\ stale' = Append(stale, owed.op)
  /\ SameAbove

\* The listeners of a failed renewal are in place when its client closes.  If the
\* machine is not disconnected the close takes it there, whatever it was doing,
\* and calls the callback of the renewal again.
StaleCloses(i) ==
  /\ Idle
  /\ stale' = [j \in 1..Len(stale) - 1 |-> stale[IF j < i THEN j ELSE j + 1]]
  /\ IF base = "disconnected"
       THEN UNCHANGED <<base, owed, wire, handed, asked, stack, haunted>>
       ELSE /\ Down([kind |-> "updateSas", op |-> stale[i], how |-> "err"], <<>>)
            /\ haunted' = {stale[i]}
  /\ UNCHANGED <<dev, baseQueue, feature, topic, topicQueue, pending, auth, ops,
                 answers, dropped>>

\* PUBACK, or an error or the timeout of a message on the wire.
PublishAnswered(i, how) ==
  /\ Idle
  /\ wire' = [j \in 1..Len(wire) - 1 |-> wire[IF j < i THEN j ELSE j + 1]]
  /\ Push(<<Reply("publish", wire[i], how)>>, <<>>)
  /\ UNCHANGED <<dev, base, baseQueue, owed, handed, stale, feature, twin, auth,
                 hist>>

\* SUBACK or UNSUBACK, or an error of mqtt.js.
SubscribeAnswered(i, how) ==
  /\ Idle
  /\ handed' = [j \in 1..Len(handed) - 1 |-> handed[IF j < i THEN j ELSE j + 1]]
  /\ Push(<<Reply(request(handed[i]), handed[i], how)>>, <<>>)
  /\ UNCHANGED <<dev, base, baseQueue, owed, wire, stale, feature, twin, auth,
                 hist>>

-----------------------------------------------------------------------------
(* The callbacks the transport and the twin client give to MqttBase.       *)

OnConnect(f, rest) ==
  /\ f.kind = "connect"
  /\ IF f.how = "ok"
       THEN ToConnected(f.op, rest) /\ UNCHANGED auth
       ELSE ToDisconnected(<<Frame("opened", "connect", f.op, "err")>>, rest)
  /\ UNCHANGED <<feature, twin, dropped>>

OnDisconnect(f, rest) ==
  /\ f.kind = "disconnect"
  /\ ToDisconnected(<<Done(f.op, f.how)>>, rest)
  /\ UNCHANGED <<feature, twin, dropped>>

\* Mutant of OnRenewal: a failed renewal leaves the state as it is.
OnRenewalStays(f, rest) ==
  /\ f.kind = "updateSas"
  /\ Push(<<[Done(f.op, f.how) EXCEPT !.kind = "updateSas"]>>, rest)
  /\ UNCHANGED <<state, auth, feature, twin, dropped>>

OnRenewal(f, rest) ==
  LET done == [Done(f.op, f.how) EXCEPT !.kind = "updateSas"] IN
  /\ f.kind = "updateSas"
  /\ IF f.how = "ok"
       THEN Push(<<done>>, rest) /\ UNCHANGED <<state, auth>>
       ELSE ToDisconnected(<<done>>, rest)
  /\ UNCHANGED <<feature, twin, dropped>>

\* A twin request that was sent waits for the hub's answer.
OnPublish(f, rest) ==
  /\ f.kind = "publish"
  /\ IF ops[f.op] = "twin"
       THEN /\ IF f.how = "ok"
                 THEN /\ stack' = rest /\ UNCHANGED pending
                      /\ asked' = IF base = "connected" THEN asked \cup {f.op}
                                  ELSE asked
                 ELSE /\ Push(<<Done(f.op, "err")>>, rest) /\ UNCHANGED asked
                      /\ pending' = pending \ {f.op}
       ELSE Push(<<Done(f.op, f.how)>>, rest) /\ UNCHANGED <<pending, asked>>
  /\ UNCHANGED <<state, auth, feature, topic, topicQueue, dropped>>

\* Callbacks that ignore 'Connection closed'.
Unless(closed, op) ==
  IF closed = "closed" THEN <<>> ELSE <<Done(op, closed)>>

\* _setupSubscription and _removeSubscription: a subscribe that fails sets
\* subscribed as well.
OnSubscribe(f, rest) ==
  /\ f.kind \in {"subscribe", "unsubscribe"} /\ ops[f.op] \notin OfTwin
  /\ subscribed' = IF f.op \in mine
                     THEN f.kind = "subscribe" \/ f.how # "ok" ELSE subscribed
  /\ Push(Unless(f.how, f.op), rest)
  /\ dropped' = IF f.how = "closed" THEN dropped \cup {f.op} ELSE dropped
  /\ UNCHANGED <<state, auth, mine, twin>>

\* Mutant of OnTwinSubscribe: a failed subscribe calls back without a transition.
OnTwinSubscribeStays(f, rest) ==
  /\ f.kind \in {"subscribe", "unsubscribe"} /\ ops[f.op] \in OfTwin
  /\ LET s == IF f.kind = "unsubscribe" THEN "unsubscribed"
              ELSE IF f.how = "ok" THEN "subscribed" ELSE "subscribing"
     IN /\ topic' = [topic EXCEPT ![topicOf(f.op)] = s]
        /\ Push(<<Frame("topicDone", "connect", f.op, f.how),
                  Frame("topicReplay", s, f.op, "ok")>>, rest)
  /\ UNCHANGED <<state, auth, feature, topicQueue, pending, asked, dropped>>

\* The topic is subscribed only if subscribing succeeded, and unsubscribed
\* whether unsubscribing did or not.
OnTwinSubscribe(f, rest) ==
  /\ f.kind \in {"subscribe", "unsubscribe"} /\ ops[f.op] \in OfTwin
  /\ LET s == IF f.kind = "subscribe" /\ f.how = "ok" THEN "subscribed"
              ELSE "unsubscribed"
     IN /\ topic' = [topic EXCEPT ![topicOf(f.op)] = s]
        /\ Push(<<Frame("topicDone", "connect", f.op, f.how),
                  Frame("topicReplay", s, f.op, "ok")>>, rest)
  /\ UNCHANGED <<state, auth, feature, topicQueue, pending, asked, dropped>>

BaseReplied(f, rest) ==
  /\ f.do = "reply"
  /\ \/ OnConnect(f, rest)
     \/ OnDisconnect(f, rest)
     \/ OnRenewal(f, rest)
     \/ OnPublish(f, rest)
     \/ OnSubscribe(f, rest)
     \/ OnTwinSubscribe(f, rest)
  /\ UNCHANGED <<queue, baseVars, ops, answers, haunted>>

-----------------------------------------------------------------------------
(* The twin client.                                                        *)

TopicHandle(f, rest) ==
  LET t == topicOf(f.op)
      current == IF request(f.op) = "subscribe" THEN "subscribed"
                 ELSE "unsubscribed"
  IN
  /\ f.do = "topic"
  /\ \/ /\ topic[t] \in {"subscribing", "unsubscribing"}
        /\ topicQueue' = [topicQueue EXCEPT ![t] = Append(@, f.op)]
        /\ stack' = rest
        /\ UNCHANGED topic
     \/ /\ topic[t] = current
        /\ Push(<<Frame("topicDone", "connect", f.op, "ok")>>, rest)
        /\ UNCHANGED <<topic, topicQueue>>
     \/ /\ topic[t] \in {"subscribed", "unsubscribed"} \ {current}
        /\ LET s == IF current = "subscribed" THEN "subscribing"
                    ELSE "unsubscribing"
           IN /\ topic' = [topic EXCEPT ![t] = s]
              /\ Push(<<OnBase(request(f.op), f.op),
                        Frame("topicReplay", s, f.op, "ok")>>, rest)
        /\ UNCHANGED topicQueue
  /\ UNCHANGED <<dev, baseVars, feature, pending, asked, auth, hist>>

\* The callbacks given to the topic machine: a request is published once the
\* response topic is subscribed (_sendTwinRequest).
TopicDone(f, rest) ==
  /\ f.do = "topicDone"
  /\ \/ /\ ops[f.op] # "twin"
        /\ Push(Unless(f.how, f.op), rest)
        /\ dropped' = IF f.how = "closed" THEN dropped \cup {f.op} ELSE dropped
        /\ UNCHANGED pending
     \/ /\ ops[f.op] = "twin" /\ f.how = "ok"
        /\ Push(<<OnBase("publish", f.op)>>, rest)
        /\ pending' = pending \cup {f.op} /\ UNCHANGED dropped
     \/ /\ ops[f.op] = "twin" /\ f.how # "ok"
        /\ Push(<<Done(f.op, "err")>>, rest)
        /\ UNCHANGED <<pending, dropped>>
  /\ UNCHANGED <<dev, baseVars, feature, topic, topicQueue, asked, auth, ops,
                 answers, haunted>>

\* A message on the response topic (_onResponseMessage).
Responds(op, how) ==
  /\ Idle /\ base = "connected" /\ op \in asked
  /\ asked' = asked \ {op}
  /\ pending' = pending \ {op}
  /\ Push(IF op \in pending THEN <<Done(op, how)>> ELSE <<>>, <<>>)
  /\ UNCHANGED <<dev, baseVars, feature, topic, topicQueue, auth, hist>>

-----------------------------------------------------------------------------

\* What the running event does next.
Run ==
  /\ ~Idle
  /\ LET f == Head(stack)
         rest == Tail(stack)
     IN \/ Replay(f, rest) \/ BaseReplay(f, rest) \/ TopicReplay(f, rest)
        \/ Handle(f, rest) \/ Credentials(f, rest) \/ Opened(f, rest)
        \/ Finish(f, rest) \/ Returns(f, rest)
        \/ BaseHandle(f, rest) \/ CloseEvent(f, rest) \/ BaseReplied(f, rest)
        \/ TopicHandle(f, rest) \/ TopicDone(f, rest)

Succeeds == {"ok", "err"}

Provider ==
  \/ ExpiryTimer
  \/ \E s \in signing, how \in Succeeds : Signed(s, how)
  \/ \E op \in preparing : AgentReady(op)
  \/ OtherUser

Connection ==
  \/ BaseUp \/ BaseFails \/ ConnectionCloses \/ BaseDown
  \/ \E i \in DOMAIN stale : StaleCloses(i)
  \/ \E i \in DOMAIN wire, how \in Succeeds : PublishAnswered(i, how)
  \/ \E i \in DOMAIN handed, how \in Succeeds : SubscribeAnswered(i, how)
  \/ \E op \in asked, how \in Succeeds : Responds(op, how)

\* A disconnect other than that of a loss is handled while a connection is
\* made, or while MqttBase is not connected though the transport is.
Races ==
  /\ ~Idle /\ Head(stack).do = "handle" /\ Head(stack).kind = "disconnect"
  /\ \/ state = "connecting"
     \/ /\ state = "connected" /\ base # "connected"
        /\ Head(stack).op = NoOp => base # "disconnected"

\* What a connection does that its machine has been taken away from is beyond this
\* module: it is followed to the end of the turn.
Followed == haunted = {} \/ ~Idle

Next ==
  /\ Followed
  /\ \/ \E kind \in UNION Sessions : Call(kind)
     \/ Run \/ Provider \/ Connection
  /\ raced' = (raced \/ Races)
  /\ UNCHANGED provider

Spec == Init /\ [][Next]_vars

-----------------------------------------------------------------------------
(* Properties.  Some except the behaviours in which a disconnect overtook a *)
(* connection attempt, a renewal or a loss (raced): a transition to the     *)
(* state the transport is in already then drops a callback; or in which the *)
(* late close of a client took down what came after it (haunted).          *)

Running == {stack[i] : i \in DOMAIN stack}
Held ==
  {queue[i].op : i \in DOMAIN queue} \cup
  {baseQueue[i].op : i \in DOMAIN baseQueue} \cup
  {wire[i] : i \in DOMAIN wire} \cup {handed[i] : i \in DOMAIN handed} \cup
  UNION {{topicQueue[t][i] : i \in DOMAIN topicQueue[t]} : t \in Topics} \cup
  {owed.op} \cup pending \cup preparing \cup
  {s.op : s \in {x \in signing : x.for = "connect"}} \cup
  {f.op : f \in {x \in Running : x.do # "topicReplay"}}

\* No callback of the client is called twice, whatever is deferred in one
\* machine and replayed in another: not even after a disconnect that overtook
\* something, and by a late close only that of the failed renewal.  A call that is not answered is still held by one of the queues,
\* by what waits for the other side, or by the running event: no closure that
\* would call it back was dropped.  A closed connection may drop the callback of a
\* subscribe on purpose (_ignoreConnectionClosedInErrorCallback).
NoCallbackLost ==
  /\ TypeOK
  /\ \A o \in Ops : Len(answers[o]) <= IF o \in haunted THEN 2 ELSE 1
  /\ ~raced /\ haunted = {} => \A o \in Ops : answers[o] = <<>> => o \in Held \cup dropped

Quiet ==
  /\ Idle /\ base \in {"disconnected", "connected"}
  /\ wire = <<>> /\ handed = <<>> /\ asked = {}
  /\ preparing = {} /\ signing = {}

\* When nothing is left that the network, the edge or a timer owes, nothing is
\* deferred in any machine and every call was answered: no machine waits for
\* another that waits for nothing.  What remains are twin requests whose answer
\* the connection took with it: they have no timeout of their own.
NothingLeftWaiting ==
  Quiet /\ ~raced /\ haunted = {} =>
    /\ state \in {"disconnected", "connected"}
    /\ queue = <<>> /\ baseQueue = <<>>
    /\ \A t \in Topics : topic[t] \in {"subscribed", "unsubscribed"}
                          /\ topicQueue[t] = <<>>
    /\ \A o \in Ops : answers[o] = <<>> => o \in pending \cup dropped

\* Between events the transport says it is connected only over a MqttBase that
\* is, or that renews or is ending a connection it lost and will say so: not
\* even an overtaken connection attempt makes it believe in one it has not.
\* With a shared access key the renewal timer runs from the time a connection is
\* made until it has ended: no connection outlives its token for want of a timer, and
\* no timer renews tokens for a transport that is disconnected unless somebody else
\* who uses the provider has armed it since.
ConnectedAbove ==
  Idle =>
    /\ state = "connected" =>
         base \in {"connected", "reconnecting"} \/ (base = "disconnecting" /\ owed = Lost)
    /\ provider = "sak" /\ ~raced => (timer <=> state # "disconnected" \/ borrowed)

=============================================================================
