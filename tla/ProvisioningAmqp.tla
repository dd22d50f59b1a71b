------------------------------ MODULE ProvisioningAmqp ------------------------------
(***************************************************************************)
(* The AMQP transport of provisioning (provisioning/transport/amqp/src),   *)
(* with the SASL mechanism of a TPM.                                       *)
(***************************************************************************)
EXTENDS ProvisioningMqtt

\* awaits: the listeners of tpmConnectionComplete; challenged: _getSasTokenCallback
\* has been set once.
AmqpStart == [name |-> "machine", state |-> "disconnected", deferred |-> <<>>, held |-> {},
              sender |-> FALSE, receiver |-> FALSE, awaits |-> {}, challenged |-> FALSE]

\* disconnecting: the sender, the receiver, the connection; links are forced to
\* detach once there is an error.
DetachReceiver(m, cb) ==
  Done([m EXCEPT !.receiver = FALSE],
       IF m.receiver /\ ~cb.err THEN Ask("detach", [cb EXCEPT !.fn = "receiverDetached"])
       ELSE Ask("disconnect", [cb EXCEPT !.fn = "closed"]))
DetachSender(m, cb) ==
  IF m.sender /\ ~cb.err
  THEN Done([m EXCEPT !.sender = FALSE], Ask("detach", [cb EXCEPT !.fn = "senderDetached"]))
  ELSE DetachReceiver([m EXCEPT !.sender = FALSE], cb)

AmqpEnter(m, cb, err) ==
  CASE m.state = "disconnected" -> Disconnected(m, cb, err)
    [] m.state = "connecting" -> Done(m, Ask("connect", Through(cb, "opened")))
    [] m.state = "connectingTpm" -> Done(m, Ask("handshake", Through(cb, "tpmComplete")))
    [] m.state = "attaching" -> Done(m, Ask("attach", Through(cb, "receiverAttached")))
    [] m.state = "connected" -> Done(m, Call(cb, FALSE))
    [] m.state = "disconnecting" -> DetachSender(m, [Through(cb, "closed") EXCEPT !.err = err])

\* amqpError and tpmComplete are not handled here.
AmqpDisconnected(m, in) ==
  CASE in.do \in Exchanges ->
         Move([m EXCEPT !.held = @ \cup {in.cb}], "connecting",
              [in.cb EXCEPT !.fn = "connected"], FALSE)
    [] in.do = "challenge" -> Move(m, "connectingTpm", in.cb, FALSE)
    [] in.do = "respond" -> Done(m, Call(in.cb, TRUE))
    [] in.do \in {"cancel", "disconnect"} -> Done(m, Call(in.cb, FALSE))
    [] OTHER -> Done(m, <<>>)

\* connectingTpm.  Every listener has a transition made: only one of them is.
AmqpHandshake(m, in) ==
  CASE in.do = "respond" ->
         IF m.challenged THEN Done([m EXCEPT !.awaits = @ \cup {in.cb}], Ask("sas", Nobody))
         ELSE Done(m, Throw)
    [] in.do = "tpmComplete" ->
         LET s == SetToSortSeq(m.awaits, LAMBDA a, b : a.id < b.id) IN
         Done([m EXCEPT !.awaits = {}],
              [i \in DOMAIN s |-> Input("machine", "complete", s[i], in.err)])
    [] in.do \in {"cancel", "disconnect"} -> Ending(m, in.cb, FALSE)
    [] OTHER -> Defer(m, in, "any")

\* connected.  The end of the connection leaves what waits for a response.
AmqpConnected(m, in) ==
  CASE in.do \in Exchanges ->
         Done([m EXCEPT !.held = @ \cup {in.cb}], Ask("send", [in.cb EXCEPT !.fn = "published"]))
    [] in.do = "cancel" -> Done([m EXCEPT !.held = {}], Ticks(m.held) \o Call(in.cb, FALSE))
    [] in.do = "disconnect" -> Ending(m, in.cb, FALSE)
    [] in.do = "amqpError" -> Move(m, "disconnecting", Nobody, TRUE)
    [] in.do = "tpmComplete" -> Done(m, <<>>)
    [] OTHER -> Done(m, Dropped(in.cb))

AmqpHandle(m, in) ==
  CASE in.do = "complete" -> Move(m, IF in.err THEN "disconnected" ELSE "attaching", in.cb, in.err)
    [] m.state = "disconnected" -> AmqpDisconnected(m, in)
    [] m.state = "connectingTpm" -> AmqpHandshake(m, in)
    [] m.state \in {"connecting", "attaching"} /\ in.do \in {"cancel", "disconnect"} ->
         Ending(m, in.cb, FALSE)
    [] m.state = "connected" -> AmqpConnected(m, in)
    [] OTHER -> Defer(m, in, "any")

\* Mutant of LinkAttached: a sender that cannot be attached is not told.
LinkAttachedLoses(m, cb, err) ==
  CASE err /\ cb.fn = "senderAttached" -> Done(m, <<>>)
    [] err -> Move(m, "disconnecting", Back(cb), TRUE)
    [] cb.fn = "receiverAttached" ->
         Done([m EXCEPT !.receiver = TRUE], Ask("attach", [cb EXCEPT !.fn = "senderAttached"]))
    [] OTHER -> Move([m EXCEPT !.sender = TRUE], "connected", Back(cb), FALSE)

\* attachingLinks: the callbacks, whatever the state is.
LinkAttached(m, cb, err) ==
  CASE err -> Move(m, "disconnecting", Back(cb), TRUE)
    [] cb.fn = "receiverAttached" ->
         Done([m EXCEPT !.receiver = TRUE], Ask("attach", [cb EXCEPT !.fn = "senderAttached"]))
    [] cb.fn = "senderAttached" -> Move([m EXCEPT !.sender = TRUE], "connected", Back(cb), FALSE)

\* An operation that cannot connect is forgotten before it is told.
AmqpReconnected(m, cb, err) ==
  Done(IF err THEN [m EXCEPT !.held = @ \ {ToUser(cb)}] ELSE m, Reconnected(cb, err))

\* A request that is throttled is told registering or assigning: that is a result.
Throttled(m, cb) == Done([m EXCEPT !.held = @ \ {ToUser(cb)}], Call(ToUser(cb), FALSE))

\* The challenge has come, in segments: SaslTpm.step has the token asked for.
Challenged(m, cb) == Done([m EXCEPT !.challenged = TRUE], Call(Back(cb), FALSE))

AmqpCallback(m, cb, err) ==
  CASE cb.fn = "connected" -> AmqpReconnected(m, cb, err)
    [] cb.fn = "opened" -> Move(m, IF err THEN "disconnected" ELSE "attaching", Back(cb), err)
    [] cb.fn = "tpmComplete" -> Done(m, <<Input("machine", "tpmComplete", Nobody, err)>>)
    [] cb.fn \in {"receiverAttached", "senderAttached"} -> LinkAttached(m, cb, err)
    [] cb.fn = "senderDetached" -> DetachReceiver(m, [cb EXCEPT !.err = err])
    [] cb.fn = "receiverDetached" ->
         Done(m, Ask("disconnect", [cb EXCEPT !.fn = "closed", !.err = err]))
    [] cb.fn = "closed" -> Move(m, "disconnected", Back(cb), cb.err \/ err)
    [] cb.fn = "published" -> Published(m, cb, err)
    [] cb.fn = "throttled" -> Throttled(m, cb)
    [] cb.fn = "response" -> Answered(m, ToUser(cb), err)
    [] cb.fn = "challenged" -> Challenged(m, cb)

=============================================================================
