------------------------------ MODULE ProvisioningMqtt ------------------------------
(***************************************************************************)
(* The MQTT transport of provisioning (provisioning/transport/mqtt/src).   *)
(* held is _operations: the callbacks that wait for a response.            *)
(***************************************************************************)
EXTENDS Machina

MqttStart == [name |-> "machine", state |-> "disconnected", deferred |-> <<>>,
              held |-> {}, subscribed |-> FALSE]

Exchanges == {"register", "query"}

\* disconnecting, after _cancelAllOperations.
Ending(m, cb, err) ==
  LET r == Move([m EXCEPT !.held = {}], "disconnecting", cb, err) IN
  Done(r.m, Ticks(m.held) \o r.now)

\* Without a callback an error is an event: somebody listens.
Disconnected(m, cb, err) == Done(m, IF cb = Nobody THEN <<>> ELSE Call(cb, err))

\* The callback of an operation that has to connect first: then it is handled again.
Reconnected(cb, err) ==
  IF err THEN Call(ToUser(cb), TRUE) ELSE <<Input("machine", cb.op, ToUser(cb), FALSE)>>

MqttEnter(m, cb, err) ==
  CASE m.state = "disconnected" -> Disconnected(m, cb, err)
    [] m.state = "connecting" -> Done(m, Ask("connect", Through(cb, "opened")))
    [] m.state = "connected" -> Done(m, Call(cb, FALSE))
    [] m.state = "disconnecting" ->
         LET next == [Through(cb, "unsubscribed") EXCEPT !.err = err] IN
         Done(m, IF m.subscribed THEN Ask("unsubscribe", next)
                 ELSE Ask("disconnect", [next EXCEPT !.fn = "closed"]))

\* disconnected.  The error of the connection has no callback to be given to.
MqttDisconnected(m, in) ==
  CASE in.do \in Exchanges ->
         Move([m EXCEPT !.held = @ \cup {in.cb}], "connecting",
              [in.cb EXCEPT !.fn = "connected"], FALSE)
    [] in.cb = Nobody -> Done(m, Throw)
    [] OTHER -> Done(m, Call(in.cb, in.err))

\* Mutant of MqttConnected: disconnect forgets what waits for a response.
MqttConnectedForgets(m, in) ==
  CASE in.do \in Exchanges ->
         Done([m EXCEPT !.held = @ \cup {in.cb}], Ask("publish", [in.cb EXCEPT !.fn = "published"]))
    [] in.do = "cancel" -> Done([m EXCEPT !.held = {}], Ticks(m.held) \o Call(in.cb, FALSE))
    [] in.do = "disconnect" -> Move([m EXCEPT !.held = {}], "disconnecting", in.cb, in.err)

MqttConnected(m, in) ==
  CASE in.do \in Exchanges ->
         Done([m EXCEPT !.held = @ \cup {in.cb}], Ask("publish", [in.cb EXCEPT !.fn = "published"]))
    [] in.do = "cancel" -> Done([m EXCEPT !.held = {}], Ticks(m.held) \o Call(in.cb, FALSE))
    [] in.do = "disconnect" -> Ending(m, in.cb, in.err)

MqttHandle(m, in) ==
  CASE m.state = "disconnected" -> MqttDisconnected(m, in)
    [] m.state = "connecting" /\ in.do \in {"cancel", "disconnect"} -> Ending(m, in.cb, in.err)
    [] m.state = "connected" -> MqttConnected(m, in)
    [] OTHER -> Defer(m, in, "any")

\* _connect, then a transition from whatever state the machine is in.
MqttOpened(m, cb, err) ==
  CASE err -> Move(m, "disconnecting", Back(cb), TRUE)
    [] cb.fn = "opened" -> Done(m, Ask("subscribe", [cb EXCEPT !.fn = "subscribed"]))
    [] cb.fn = "subscribed" -> Move([m EXCEPT !.subscribed = TRUE], "connected", Back(cb), FALSE)

\* _disconnect.
MqttClosed(m, cb, err) ==
  LET next == [cb EXCEPT !.fn = "closed", !.err = @ \/ err] IN
  IF cb.fn = "unsubscribed" THEN Done([m EXCEPT !.subscribed = FALSE], Ask("disconnect", next))
  ELSE Move(m, "disconnected", Back(cb), next.err)

\* A publish that fails has the callback called, even if it has been already.
Published(m, cb, err) ==
  IF err THEN Done([m EXCEPT !.held = @ \ {ToUser(cb)}], Call(ToUser(cb), TRUE)) ELSE Done(m, <<>>)

\* Mutant of Answered: the operation is not forgotten.
AnsweredTwice(m, cb, err) ==
  IF cb \in m.held THEN Done(m, Call(cb, err)) ELSE Done(m, <<>>)

\* responseHandler: a response that nobody waits for is ignored.
Answered(m, cb, err) ==
  IF cb \in m.held THEN Done([m EXCEPT !.held = @ \ {cb}], Call(cb, err)) ELSE Done(m, <<>>)

MqttCallback(m, cb, err) ==
  CASE cb.fn = "connected" -> Done(m, Reconnected(cb, err))
    [] cb.fn \in {"opened", "subscribed"} -> MqttOpened(m, cb, err)
    [] cb.fn \in {"unsubscribed", "closed"} -> MqttClosed(m, cb, err)
    [] cb.fn = "published" -> Published(m, cb, err)
    [] cb.fn = "response" -> Answered(m, ToUser(cb), err)

=============================================================================
