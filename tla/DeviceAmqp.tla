------------------------------- MODULE DeviceAmqp -------------------------------
(***************************************************************************)
(* The AMQP transport of a device (device/transport/amqp/src): Amqp, and   *)
(* the two clients it has for the twin and for direct methods.  The layer  *)
(* below (AmqpConnection.tla, Cbs.tla, SenderLink.tla) is what it answers. *)
(*                                                                         *)
(* Three machines (Machina.tla); agenda is the rest of the turn, first     *)
(* things first.                                                           *)
(***************************************************************************)
EXTENDS Machina

CONSTANTS
  Sessions,    \* the sets of operations a user may choose to work with
               \* ("x509": certificates, and no tokens to renew)
  MaxCalls,    \* bound: calls of the user
  MaxLosses    \* bound: connections that end by themselves

ASSUME DeviceAmqpAssumption == MaxCalls \in Nat \ {0} /\ MaxLosses \in Nat

VARIABLES
  kinds,           \* what the user calls; with "x509", its authentication
  transport,       \* Amqp: its machine, links and the listeners of its emitter
  twin, methods,   \* AmqpTwinClient and AmqpDeviceMethodClient
  agenda, thrown,  \* what is left of the turn; a handler threw
  amqp, asks,      \* the connection below; what it and the provider have to answer
  calls,           \* history: the calls, among them those of the transport to itself
  losses           \* how many connections have ended by themselves

vars == <<kinds, transport, twin, methods, agenda, thrown, amqp, asks, calls, losses>>

TwinOps == {"getTwin", "disableTwin"}
Ids == 1..(MaxCalls + MaxLosses)

\* A callback: the function, and what it has closed over: a call, the error of
\* the entry of disconnecting it is part of, an error so far, a link there was not.
Callback(fn, id) ==
  [fn |-> fn, id |-> id, forced |-> FALSE, final |-> FALSE, err |-> FALSE, lacks |-> "-"]
User(id) == Callback("user", id)
NoCallback == Callback("-", 0)

States == [transport |-> {"disconnected", "connecting", "authenticating", "authenticated",
                          "disconnecting"},
           twin |-> {"detached", "attaching", "attached", "detaching"},
           methods |-> {"detached", "attaching", "attached", "detaching"}]

Init ==
  /\ kinds \in Sessions
  /\ transport = [name |-> "transport", state |-> "disconnected", deferred |-> <<>>,
                  d2c |-> 0, c2d |-> 0,          \* the connection of the link, 0: none
                  waiting |-> [d2c |-> <<>>, c2d |-> <<>>],
                  late |-> {}]   \* history: links that came when not authenticated
  /\ twin = [name |-> "twin", state |-> "detached", deferred |-> <<>>, endpoint |-> FALSE,
             sender |-> 0, receiver |-> 0, hears |-> {}, pending |-> {}]
  /\ methods = [name |-> "methods", state |-> "detached", deferred |-> <<>>,
                sender |-> 0, receiver |-> 0]
  /\ agenda = <<>> /\ thrown = FALSE
  /\ amqp = [state |-> "down", conn |-> 0, cb |-> NoCallback, why |-> "asked",
              cut |-> FALSE]   \* its links were detached by force
  /\ asks = {} /\ calls = <<>> /\ losses = 0

-----------------------------------------------------------------------------
(* Amqp: the entry of the states.  The last callback of the series of       *)
(* disconnecting is that of a call of connect, disconnect or of a loss.     *)

EnterDisconnecting(t, cb, err) ==
  LET next == [cb EXCEPT !.fn = "methodsDetached", !.forced = err, !.final = err] IN
  Done(t, IF err THEN <<Input("methods", "forceDetach", NoCallback, FALSE)>> \o Call(next, FALSE)
          ELSE <<Input("methods", "detach", next, FALSE)>>)

Enter(t, cb, err) ==
  CASE t.state = "disconnected" -> Done(t, Call(cb, err))
    [] t.state = "connecting" -> Done(t, Ask("credentials", [cb EXCEPT !.fn = "credentials"]))
    [] t.state = "authenticating" ->
         IF "x509" \in kinds THEN Move(t, "authenticated", cb, FALSE)
         ELSE Done(t, Ask("cbs", [cb EXCEPT !.fn = "cbs"]))
    [] t.state = "authenticated" -> Done(t, Call(cb, FALSE))
    [] t.state = "disconnecting" -> EnterDisconnecting(t, cb, err)

(* The steps of the series. *)

TwinStep(t, cb) == Done(t, <<Input("twin", "detach", [cb EXCEPT !.fn = "twinDetached"], FALSE)>>)

\* Mutant of D2CStep: the link is kept, and used again by the next connection.
D2CStepKeeps(t, cb) ==
  LET after == [t EXCEPT !.waiting.d2c = <<>>]
      dropped == [i \in DOMAIN t.waiting.d2c |-> Dropped(User(t.waiting.d2c[i]))[1]]
      next == [cb EXCEPT !.fn = "d2cDetached"]
  IN Done(after, dropped \o IF t.d2c # 0 /\ ~cb.forced THEN Ask("detachLink", next)
                            ELSE Call(next, FALSE))

\* The sends that wait for the link lose their listeners.
D2CStep(t, cb) ==
  LET after == [t EXCEPT !.waiting.d2c = <<>>, !.d2c = 0]
      dropped == [i \in DOMAIN t.waiting.d2c |-> Dropped(User(t.waiting.d2c[i]))[1]]
      next == [cb EXCEPT !.fn = "d2cDetached"]
  IN Done(after, dropped \o IF t.d2c # 0 /\ ~cb.forced THEN Ask("detachLink", next)
                            ELSE Call(next, FALSE))

C2DStep(t, cb) ==
  LET after == [t EXCEPT !.waiting.c2d = <<>>, !.c2d = 0]
      dropped == [i \in DOMAIN t.waiting.c2d |-> Dropped(User(t.waiting.c2d[i]))[1]]
      next == [cb EXCEPT !.fn = "c2dDetached"]
  IN Done(after, dropped \o IF t.c2d # 0 /\ ~cb.forced THEN Ask("detachLink", next)
                            ELSE Call(next, FALSE))

Series(t, cb, err) ==
  LET next == [cb EXCEPT !.final = @ \/ err] IN
  CASE cb.fn = "methodsDetached" -> TwinStep(t, next)
    [] cb.fn = "twinDetached" -> D2CStep(t, next)
    [] cb.fn = "d2cDetached" -> C2DStep(t, next)
    [] cb.fn = "c2dDetached" -> Done(t, Ask("disconnect", [next EXCEPT !.fn = "down"]))
    [] cb.fn = "down" -> Move(t, "disconnected", Callback("connected", cb.id), next.final)

-----------------------------------------------------------------------------
(* Amqp: the handlers.  An operation on a feature connects first.           *)

HandleDisconnected(t, in) ==
  CASE in.do = "connect" -> Move(t, "connecting", Callback("connected", in.cb.id), FALSE)
    [] in.do \in {"sendEvent", "getTwin", "enableC2D", "enableMethods"} ->
         Done(t, <<Input("transport", "connect", in.cb, FALSE)>>)
    [] OTHER -> Done(t, Call(in.cb, FALSE))

\* connecting and authenticating.  The callback of connect is left to the
\* closures of what has been asked.
HandleConnecting(t, in) ==
  CASE in.do = "disconnect" -> Move(t, "disconnecting", in.cb, FALSE)
    [] in.do = "amqpConnectionClosed" -> Move(t, "disconnecting", in.cb, in.err)
    [] in.do = "renew" /\ t.state = "connecting" -> Done(t, Call(in.cb, FALSE))
    [] OTHER -> Defer(t, in, "any")

\* sendEvent and enableC2D: the first that waits for the link has it attached.
UseLink(t, link, in) ==
  IF t[link] # 0
  THEN Done(t, IF link = "c2d" THEN Call(in.cb, FALSE) ELSE Ask("send", in.cb))
  ELSE Done([t EXCEPT !.waiting[link] = Append(@, in.cb.id)],
            IF t.waiting[link] = <<>> THEN Ask("attach", Callback(link, 0)) ELSE <<>>)

HandleAuthenticated(t, in) ==
  CASE in.do = "connect" -> Done(t, Call(Callback("connected", in.cb.id), FALSE))
    [] in.do = "disconnect" -> Move(t, "disconnecting", in.cb, FALSE)
    [] in.do = "amqpConnectionClosed" -> Move(t, "disconnecting", in.cb, in.err)
    [] in.do = "sendEvent" -> UseLink(t, "d2c", in)
    [] in.do = "enableC2D" -> UseLink(t, "c2d", in)
    [] in.do = "disableC2D" ->
         IF t.c2d = 0 THEN Done(t, Call(in.cb, FALSE))
         ELSE Done([t EXCEPT !.c2d = 0], Ask("detachLink", in.cb))
    [] in.do = "renew" -> Done(t, Ask("token", [in.cb EXCEPT !.fn = "put"]))
    [] in.do \in TwinOps -> Done(t, <<Input("twin", in.do, in.cb, FALSE)>>)
    [] in.do = "enableMethods" -> Done(t, <<Input("methods", "attach", in.cb, FALSE)>>)
    [] in.do = "disableMethods" -> Done(t, <<Input("methods", "detach", in.cb, FALSE)>>)

\* complete, reject and abandon are no input of the machine.
Settle(t, cb) == Done(t, IF t.c2d # 0 THEN Ask("detachLink", cb) ELSE Call(cb, TRUE))

\* _d2cErrorListener.  An error of the other link is only passed on.
D2CError(t) == Done([t EXCEPT !.d2c = 0], <<>>)

TransportStep(t, in) ==
  CASE in.do = "enter" -> Enter(t, in.cb, in.err)
    [] in.do \in States.transport -> Replay(t, in.do)
    [] in.do = "settle" -> Settle(t, in.cb)
    [] in.do = "d2cError" -> D2CError(t)
    [] t.state = "disconnected" -> HandleDisconnected(t, in)
    [] t.state \in {"connecting", "authenticating"} -> HandleConnecting(t, in)
    [] t.state = "authenticated" -> HandleAuthenticated(t, in)
    [] OTHER -> Defer(t, in, "any")

(* The callbacks given to the layer below and to the provider. *)

Connecting(t, cb, err) ==
  LET to == Callback("connected", cb.id)
      Step(state, what, fn) == IF err THEN Move(t, state, to, TRUE)
                               ELSE Done(t, Ask(what, [cb EXCEPT !.fn = fn]))
  IN CASE cb.fn = "credentials" -> Step("disconnected", "connect", "connection")
       [] cb.fn = "connection" ->
            Move(t, IF err THEN "disconnected" ELSE "authenticating", to, err)
       [] cb.fn = "cbs" -> Step("disconnecting", "credentials", "tokenCredentials")
       [] cb.fn = "tokenCredentials" -> Step("disconnecting", "token", "authorized")
       [] cb.fn = "authorized" ->
            Move(t, IF err THEN "disconnecting" ELSE "authenticated", to, err)

\* The event senderLinkAttached or receiverLinkAttached.
LinkAttached(t, link, err) ==
  LET ids == t.waiting[link]
      told == [i \in DOMAIN ids |-> IF err \/ link = "c2d" THEN Call(User(ids[i]), err)[1]
                                    ELSE Ask("send", User(ids[i]))[1]]
  IN Done([t EXCEPT !.waiting[link] = <<>>, ![link] = IF err THEN @ ELSE amqp.conn,
                    !.late = IF err THEN @ ELSE IF t.state = "authenticated" THEN @ \ {link}
                             ELSE @ \cup {link}], told)

\* A token that is refused ends the connection below, not the transport.
Put(t, cb, err) ==
  Done(t, IF err THEN Ask("disconnect", [cb EXCEPT !.fn = "refused"])
          ELSE Call([cb EXCEPT !.fn = "renewed"], FALSE))

\* The listener of newTokenAvailable disconnects then, the user may not.
Renewed(t, cb, err) ==
  Done(t, IF err /\ calls[cb.id].op = "newToken"
          THEN <<Input("transport", "disconnect", User(cb.id), FALSE)>>
          ELSE Call(User(cb.id), err))

\* connect first, then the operation.
Connected(t, cb, err) ==
  Done(t, IF err \/ calls[cb.id].op \notin {"sendEvent", "getTwin", "enableC2D", "enableMethods"}
          THEN Call(User(cb.id), err)
          ELSE <<Input("transport", calls[cb.id].op, User(cb.id), FALSE)>>)

TransportCallback(t, cb, err) ==
  CASE cb.fn = "connected" -> Connected(t, cb, err)
    [] cb.fn \in {"d2c", "c2d"} -> LinkAttached(t, cb.fn, err)
    [] cb.fn = "put" -> Put(t, cb, err)
    [] cb.fn = "refused" -> Renewed(t, cb, TRUE)
    [] cb.fn = "renewed" -> Renewed(t, cb, err)
    [] cb.fn \in {"credentials", "connection", "cbs", "tokenCredentials", "authorized"} ->
         Connecting(t, cb, err)
    [] OTHER -> Series(t, cb, err)

-----------------------------------------------------------------------------
(* AmqpTwinClient.  Only the series of disconnecting detaches it.           *)

\* A detach that comes before the credentials have given the endpoint throws.
TwinEnter(w, cb, err) ==
  CASE w.state = "detached" -> Done(w, IF cb = NoCallback THEN <<>> ELSE Call(cb, err))
    [] w.state = "attaching" -> Done(w, Ask("credentials", [cb EXCEPT !.fn = "endpoint"]))
    [] w.state = "attached" -> Done(w, Call(cb, FALSE))
    [] w.state = "detaching" ->
         Done(w, IF w.endpoint
                 THEN Ask("detach", [cb EXCEPT !.fn = "twinSenderDetached", !.err = err,
                                       !.lacks = IF w.sender = 0 THEN "sender"
                                                 ELSE IF w.receiver = 0 THEN "receiver" ELSE "-"])
                 ELSE <<Input("twin", "throw", NoCallback, FALSE)>>)

TwinHandle(w, in) ==
  CASE w.state = "detached" ->
         (CASE in.do = "getTwin" -> Move(w, "attaching", [in.cb EXCEPT !.fn = "twinAttached"], FALSE)
            [] in.do \in {"disableTwin", "detach"} -> Done(w, Call(in.cb, FALSE))
            [] OTHER -> Done(w, <<>>))
    [] w.state = "attaching" /\ in.do \in {"handleLinkError", "detach"} ->
         Move(w, "detaching", in.cb, in.err)
    [] w.state = "attached" ->
         IF in.do \in TwinOps
         THEN Done([w EXCEPT !.pending = @ \cup {in.cb.id}],
                   Ask("request", [in.cb EXCEPT !.fn = "requested"]))
         ELSE Move(w, "detaching", in.cb, in.err)
    [] OTHER -> Defer(w, in, "any")

TwinStepOf(w, in) ==
  CASE in.do = "enter" -> TwinEnter(w, in.cb, in.err)
    [] in.do \in States.twin -> Replay(w, in.do)
    [] OTHER -> TwinHandle(w, in)

\* The callbacks: endpoint and the two links of attaching, the two of detaching.
\* The callback of detaching is the series' own, or there is none.
TwinCallback(w, cb, err) ==
  LET attached == [cb EXCEPT !.fn = "twinAttached"]
      detached == IF cb.id = 0 THEN NoCallback ELSE [cb EXCEPT !.fn = "twinDetached", !.err = FALSE, !.lacks = "-"]
  IN CASE cb.fn = "twinAttached" ->
            Done(w, IF err THEN Call(User(cb.id), TRUE)
                    ELSE <<Input("twin", calls[cb.id].op, User(cb.id), FALSE)>>)
       [] cb.fn \in {"endpoint", "twinSender", "twinReceiver"} /\ err ->
            LET l == [w EXCEPT !.endpoint = @ \/ cb.fn # "endpoint"] IN
            Move(l, "detached", attached, TRUE)
       [] cb.fn = "endpoint" ->
            Done([w EXCEPT !.endpoint = TRUE], Ask("attach", [cb EXCEPT !.fn = "twinSender"]))
       [] cb.fn = "twinSender" ->
            Done([w EXCEPT !.sender = amqp.conn, !.hears = @ \cup {"sender"}],
                 Ask("attach", [cb EXCEPT !.fn = "twinReceiver"]))
       [] cb.fn = "twinReceiver" ->
            Move([w EXCEPT !.receiver = amqp.conn, !.hears = @ \cup {"receiver"}],
                 "attached", attached, FALSE)
       \* The links of the entry: there may be none yet, and then this throws.
       [] cb.fn = "twinSenderDetached" ->
            IF cb.lacks = "sender" THEN Done(w, <<Input("twin", "throw", NoCallback, FALSE)>>)
            ELSE Done([w EXCEPT !.hears = @ \ {"sender"}],
                      Ask("detach", [cb EXCEPT !.fn = "twinReceiverDetached", !.err = @ \/ err]))
       [] cb.fn = "twinReceiverDetached" ->
            IF cb.lacks = "receiver" THEN Done(w, <<Input("twin", "throw", NoCallback, FALSE)>>)
            ELSE Move([w EXCEPT !.hears = @ \ {"receiver"}], "detached", detached, cb.err \/ err)

\* The callback of a send calls the user's, answered already or not.
Requested(w, cb, err) ==
  IF err THEN Done([w EXCEPT !.pending = @ \ {cb.id}], Call(User(cb.id), TRUE)) ELSE Done(w, <<>>)

\* Mutant of Response: the request stays pending.
ResponseKeeps(w, id, err) == Done(w, Call(User(id), err))

\* _onResponseMessage.
Response(w, id, err) == Done([w EXCEPT !.pending = @ \ {id}], Call(User(id), err))

-----------------------------------------------------------------------------
(* AmqpDeviceMethodClient.                                                  *)

\* A link that is detached already answers its detach at once.
Gone(conn) == conn # amqp.conn \/ amqp.state = "down" \/ amqp.cut

\* The callback of detaching: of the user, or the first of the series.
MethodsEnter(h, cb, err) ==
  CASE h.state = "detached" ->
         Done([h EXCEPT !.sender = 0, !.receiver = 0],
              IF cb = NoCallback THEN <<>> ELSE Call(cb, err))
    [] h.state = "attaching" -> Done(h, Ask("credentials", [cb EXCEPT !.fn = "methodEndpoint"]))
    [] h.state = "attached" -> Done(h, Call(cb, FALSE))
    [] h.state = "detaching" ->
         LET next == [cb EXCEPT !.fn = IF @ = "methodsDetached" THEN "methodLinksSeries"
                                       ELSE "methodLinks", !.err = err] IN
         Done(h, IF \A conn \in {h.sender, h.receiver} \ {0} : Gone(conn) THEN Call(next, FALSE)
                 ELSE Ask("detachLink", next))

\* Mutant of MethodsHandle: a detach that comes while attaching is not put off.
MethodsHandleLoses(h, in) ==
  CASE in.do = "forceDetach" -> IF h.state \in {"attaching", "attached"}
                                THEN Move(h, "detached", NoCallback, FALSE) ELSE Done(h, <<>>)
    [] h.state = "detached" /\ in.do = "attach" -> Move(h, "attaching", in.cb, FALSE)
    [] h.state = "attached" /\ in.do = "detach" -> Move(h, "detaching", in.cb, FALSE)
    [] h.state = "detaching" -> Defer(h, in, "detached")
    [] OTHER -> Done(h, <<>>)

\* attach is not expected while attaching, and a response then is too late.
MethodsHandle(h, in) ==
  CASE h.state = "detaching" -> Defer(h, in, "detached")
    [] in.do = "forceDetach" -> IF h.state = "detached" THEN Done(h, <<>>)
                                ELSE Move(h, "detached", NoCallback, FALSE)
    [] in.do = "attach" ->
         (CASE h.state = "detached" -> Move(h, "attaching", in.cb, FALSE)
            [] h.state = "attaching" -> Done(h, Dropped(in.cb))
            [] h.state = "attached" -> Done(h, Call(in.cb, FALSE)))
    [] in.do = "detach" ->
         (CASE h.state = "detached" -> Done(h, Call(in.cb, FALSE))
            [] h.state = "attaching" -> Defer(h, in, "any")
            [] h.state = "attached" -> Move(h, "detaching", in.cb, FALSE))
    [] in.do = "respond" -> Done(h, IF h.state = "attached" THEN Ask("respond", in.cb)
                                    ELSE Call(in.cb, TRUE))

\* The receiver's error is a transition, whatever the state.
MethodsStep(h, in) ==
  CASE in.do = "enter" -> MethodsEnter(h, in.cb, in.err)
    [] in.do \in States.methods -> Replay(h, in.do)
    [] in.do = "error" -> Move(h, "detaching", NoCallback, TRUE)
    [] OTHER -> MethodsHandle(h, in)

MethodsCallback(h, cb, err) ==
  LET user == IF cb.id = 0 THEN NoCallback ELSE User(cb.id) IN
  CASE cb.fn = "methodEndpoint" ->
         IF err THEN Move(h, "detached", user, TRUE)
         ELSE Done(h, Ask("attach", [cb EXCEPT !.fn = "methodSender"]))
    [] cb.fn \in {"methodSender", "methodReceiver"} /\ err -> Move(h, "detaching", user, TRUE)
    [] cb.fn = "methodSender" ->
         Done([h EXCEPT !.sender = amqp.conn], Ask("attach", [cb EXCEPT !.fn = "methodReceiver"]))
    [] cb.fn = "methodReceiver" -> Move([h EXCEPT !.receiver = amqp.conn], "attached", user, FALSE)
    [] cb.fn = "methodLinks" -> Move(h, "detached", user, cb.err)
    [] cb.fn = "methodLinksSeries" ->
         Move(h, "detached", [cb EXCEPT !.fn = "methodsDetached", !.err = FALSE], cb.err)

-----------------------------------------------------------------------------
(* The turn.                                                               *)

TwinFns == {"twinAttached", "endpoint", "twinSender", "twinReceiver", "twinSenderDetached",
            "twinReceiverDetached"}
MethodFns == {"methodEndpoint", "methodSender", "methodReceiver", "methodLinks",
              "methodLinksSeries"}

RunTransport(r, rest) == transport' = r.m /\ agenda' = r.now \o rest
                         /\ UNCHANGED <<twin, methods, thrown, asks, calls>>
RunTwin(r, rest) == twin' = r.m /\ agenda' = r.now \o rest
                    /\ UNCHANGED <<transport, methods, thrown, asks, calls>>
RunMethods(r, rest) == methods' = r.m /\ agenda' = r.now \o rest
                       /\ UNCHANGED <<transport, twin, thrown, asks, calls>>

\* The user's callback is called, or is lost.
Answer(id, how, rest) ==
  /\ calls' = IF id = 0 \/ (how = "dropped" /\ calls[id].answer # "none") THEN calls
              ELSE [calls EXCEPT ![id].answer = how,
                                 ![id].answered = IF how = "dropped" THEN @ ELSE @ + 1]
  /\ agenda' = rest
  /\ UNCHANGED <<transport, twin, methods, thrown, asks>>

\* The calls whose callback one failure calls a second time.
Doubled(ids) == [i \in DOMAIN calls |-> IF i \in ids THEN [calls[i] EXCEPT !.again = TRUE]
                                        ELSE calls[i]]

\* A send that fails after its response.
RunRequested(r, in, rest) ==
  /\ twin' = r.m /\ agenda' = r.now \o rest
  /\ calls' = Doubled(IF in.err /\ in.cb.id \notin twin.pending THEN {in.cb.id} ELSE {})
  /\ UNCHANGED <<transport, methods, thrown, asks>>

RunCallback(in, rest) ==
  CASE in.do = "drop" -> Answer(in.cb.id, "dropped", rest)
    [] in.cb.fn = "user" -> Answer(in.cb.id, IF in.err THEN "err" ELSE "ok", rest)
    [] in.cb.fn \in TwinFns -> RunTwin(TwinCallback(twin, in.cb, in.err), rest)
    [] in.cb.fn = "requested" -> RunRequested(Requested(twin, in.cb, in.err), in, rest)
    [] in.cb.fn = "response" -> RunTwin(Response(twin, in.cb.id, in.err), rest)
    [] in.cb.fn \in MethodFns -> RunMethods(MethodsCallback(methods, in.cb, in.err), rest)
    [] OTHER -> RunTransport(TransportCallback(transport, in.cb, in.err), rest)

\* What the layer below says when it is disconnected.  A response to a method is
\* not handled then, and its callback is lost.
OfBase == {"attach", "cbs", "token", "respond", "detach", "disconnect"}
Refusal(a) == IF a.do = "respond" THEN Dropped(a.cb)
              ELSE Call(a.cb, a.do \in {"attach", "cbs", "token"})
Refusals(as) ==
  LET s == SetToSeq({a \in as : a.do \in OfBase}) IN [i \in DOMAIN s |-> Refusal(s[i])[1]]
NoConnect == \A a \in asks : a.do # "connect"

\* A request to the layer below, on the connection of the link it is made on.
Asked(in, rest) ==
  LET a == [do |-> in.do, cb |-> in.cb,
            on |-> CASE in.do = "send" -> transport.d2c [] in.do = "request" -> twin.sender
                     [] OTHER -> amqp.conn]
  IN /\ IF in.do \in OfBase /\ amqp.state = "down" /\ NoConnect
        THEN agenda' = Refusal(a) \o rest /\ UNCHANGED asks
        ELSE agenda' = rest /\ asks' = asks \cup {a}
     /\ UNCHANGED <<transport, twin, methods, thrown, calls>>

Threw == /\ thrown' = TRUE /\ agenda' = <<>>
         /\ UNCHANGED <<transport, twin, methods, asks, calls>>

Run ==
  /\ agenda # <<>>
  /\ LET in == Head(agenda)
         rest == Tail(agenda)
     IN CASE in.do = "throw" -> Threw
          [] in.at = "ask" -> Asked(in, rest)
          [] in.at = "callback" -> RunCallback(in, rest)
          [] in.at = "transport" -> RunTransport(TransportStep(transport, in), rest)
          [] in.at = "twin" -> RunTwin(TwinStepOf(twin, in), rest)
          [] in.at = "methods" -> RunMethods(MethodsStep(methods, in), rest)
  /\ UNCHANGED <<kinds, amqp, losses>>

Quiet == agenda = <<>> /\ ~thrown

-----------------------------------------------------------------------------
(* The user and the provider.                                               *)

UserCalls(op) ==
  /\ Quiet /\ op \in kinds \ {"x509"} /\ Len(SelectSeq(calls, LAMBDA c : c.op # "loss")) < MaxCalls
  /\ LET id == Len(calls) + 1 IN
     /\ calls' = Append(calls, [op |-> op, answer |-> "none", answered |-> 0, again |-> FALSE])
     /\ agenda' = <<CASE op = "newToken" -> Input("transport", "renew", User(id), FALSE)
                      [] op = "respond" -> Input("methods", "respond", User(id), FALSE)
                      [] OTHER -> Input("transport", op, User(id), FALSE)>>
  /\ UNCHANGED <<kinds, transport, twin, methods, thrown, amqp, asks, losses>>

-----------------------------------------------------------------------------
(* The layer below.                                                        *)

\* What the layer below may answer to a request, apart from its connection's
\* end: it puts off what comes while it connects, and a disconnect goes first.
Open == amqp.state = "up" /\ \A a \in asks : a.do # "disconnect"
MayAnswer(a, err) ==
  CASE a.do \in {"credentials", "detachLink"} -> TRUE
    [] a.do = "connect" -> amqp.state = "down" \/ (Open /\ ~err)
    [] a.do \in {"send", "request"} -> Open /\ a.on = amqp.conn
    [] OTHER -> Open

\* A connection that fails to open: what was put off is refused.
BelowAnswers(a, err) ==
  LET connects == a.do = "connect" /\ amqp.state = "down" IN
  /\ Quiet /\ MayAnswer(a, err)
  /\ amqp' = IF connects /\ ~err THEN [amqp EXCEPT !.state = "up", !.conn = @ + 1] ELSE amqp
  /\ asks' = {o \in asks \ {a} : connects /\ err => o.do \notin OfBase}
  /\ agenda' = Call(a.cb, err) \o (IF connects /\ err THEN Refusals(asks) ELSE <<>>)
  /\ UNCHANGED <<kinds, transport, twin, methods, thrown, calls, losses>>

ServiceResponds(id, err) ==
  /\ Quiet /\ id \in twin.pending
  /\ Open /\ twin.receiver = amqp.conn /\ "receiver" \in twin.hears
  /\ agenda' = Call(Callback("response", id), err)
  /\ UNCHANGED <<kinds, transport, twin, methods, thrown, amqp, asks, calls, losses>>

\* The end of a connection answers what its links had under way with an error.
\* The agent drops what it had, or takes itself for attached if it is forced.
OfLinks == {a \in asks : a.do = "attach" \/ (a.do \in {"send", "request"} /\ a.on = amqp.conn)}
OfAgent == {a \in asks : a.do \in {"cbs", "token"}}
Attaching == {a \in asks : a.do = "attach"}

TellAll(as, Told(_)) == LET s == SetToSeq(as) IN FlattenSeq([i \in DOMAIN s |-> Told(s[i])])
FlushAgent(agents) ==
  TellAll(OfAgent, LAMBDA a : IF agents = "dropped" THEN Dropped(a.cb)
                              ELSE Call(a.cb, agents = "err" \/ a.do = "token"))
FlushSends == TellAll(OfLinks \ Attaching, LAMBDA a : Call(a.cb, TRUE))

\* A link that is detached by force while it is attached calls its callback and
\* then emits the error to it (sender_link.ts:289, amqp.ts:492).
FlushAttaches(twice) ==
  TellAll(Attaching, LAMBDA a : IF twice THEN Call(a.cb, TRUE) \o Call(a.cb, TRUE)
                                ELSE Call(a.cb, TRUE))

\* The links emit the error to those that listen still.
Emit(conn, hears, at, what) ==
  IF conn = amqp.conn /\ hears THEN <<Input(at, what, NoCallback, TRUE)>> ELSE <<>>
SendersEmit ==
  Emit(transport.d2c, TRUE, "transport", "d2cError")
  \o Emit(twin.sender, "sender" \in twin.hears, "twin", "handleLinkError")
ReceiversEmit ==
  Emit(twin.receiver, "receiver" \in twin.hears, "twin", "handleLinkError")
  \o Emit(methods.receiver, TRUE, "methods", "error")

BelowDisconnects(a) ==
  /\ Quiet /\ a.do = "disconnect" /\ amqp.state = "up"
  /\ asks' = ((asks \ {a}) \ OfLinks) \ OfAgent
  /\ amqp' = [amqp EXCEPT !.state = "closing", !.cb = a.cb, !.why = "asked"]
  /\ agenda' = FlushAgent("dropped") \o FlushSends \o FlushAttaches(FALSE)
  /\ UNCHANGED <<kinds, transport, twin, methods, thrown, calls, losses>>

\* The connection ends by itself, with or without an error.  Its links are
\* detached by force, senders first, if it is disconnected or its session has
\* closed: with no error, one that is being attached is taken for attached, and
\* this throws.
ConnectionLost(err, forced, agents) ==
  /\ Quiet /\ amqp.state = "up" /\ losses < MaxLosses
  /\ losses' = losses + 1
  /\ asks' = (asks \ OfLinks) \ OfAgent
  /\ amqp' = [amqp EXCEPT !.state = "closing", !.why = IF err THEN "lost" ELSE "ended",
                          !.cut = forced]
  /\ agenda' = FlushAgent(agents) \o FlushSends
               \o (IF err /\ forced THEN SendersEmit \o FlushAttaches(TRUE) \o ReceiversEmit
                   ELSE IF forced /\ Attaching # {}
                   THEN <<Input("transport", "throw", NoCallback, FALSE)>>
                   ELSE FlushAttaches(FALSE))
  /\ calls' = Doubled(IF err /\ forced THEN {a.cb.id : a \in Attaching} ELSE {})
  /\ UNCHANGED <<kinds, transport, twin, methods, thrown>>

\* The owner hears of it first: from disconnect, or from the handler it has set.
BelowClosed(err) ==
  LET first == IF amqp.why = "asked" THEN Call(amqp.cb, err)
               ELSE <<Input("transport", "amqpConnectionClosed", User(Len(calls) + 1),
                            amqp.why = "lost")>>
  IN /\ Quiet /\ amqp.state = "closing"
     /\ amqp' = [amqp EXCEPT !.state = "down", !.cut = FALSE]
     /\ calls' = IF amqp.why = "asked" THEN calls
                 ELSE Append(calls, [op |-> "loss", answer |-> "none", answered |-> 0, again |-> FALSE])
     /\ asks' = {o \in asks : NoConnect => o.do \notin OfBase}
     /\ agenda' = first \o (IF NoConnect THEN Refusals(asks) ELSE <<>>)
     /\ UNCHANGED <<kinds, transport, twin, methods, thrown, losses>>

User_ == \E op \in UNION Sessions : UserCalls(op)
Below == \E err \in BOOLEAN : \/ \E a \in asks : BelowAnswers(a, err)
                              \/ BelowClosed(err)
                              \/ \E id \in Ids : ServiceResponds(id, err)
Ends == \E a \in asks : BelowDisconnects(a)
Loses == \E err, forced \in BOOLEAN, agents \in {"ok", "err", "dropped"} :
           ConnectionLost(err, forced, agents)

Next == Run \/ User_ \/ Below \/ Ends \/ Loses

\* The process runs; the layer below and the service answer; the user may stop.
Spec == Init /\ [][Next]_vars /\ WF_vars(Run) /\ WF_vars(Below) /\ WF_vars(Ends)

-----------------------------------------------------------------------------
(* Properties.                                                             *)

\* Between turns, the links of an authenticated transport are of the connection
\* there is (amqp.ts:543, :571).  A link that was attached when the transport
\* was not authenticated any more is not: nothing forgets it.
LinksAreCurrent ==
  Quiet /\ transport.state = "authenticated" /\ amqp.state = "up" =>
    \A link \in {"d2c", "c2d"} :
      transport[link] \in {0, amqp.conn} \/ link \in transport.late

TypeOK ==
  /\ transport.state \in States.transport
  /\ twin.state \in States.twin /\ methods.state \in States.methods
  /\ transport.d2c \in 0..amqp.conn /\ transport.c2d \in 0..amqp.conn
  /\ twin.pending \subseteq Ids /\ Len(calls) <= MaxCalls + MaxLosses

\* A callback is called once at most, and a second time by two failures alone: a
\* request of the twin whose send fails after its response (amqp_twin_client.ts:367),
\* and a connection whose end detaches by force the links that the twin or the
\* methods are attaching (amqp_device_method_client.ts:113, :119).
AnsweredOnce ==
  TypeOK /\ \A i \in DOMAIN calls : calls[i].answered <= IF calls[i].again THEN 2 ELSE 1

\* A send on the link of a connection that is gone, a request of the twin that
\* was sent on it: nothing answers them (amqp.ts:543, amqp_twin_client.ts:366).
Lost(i) ==
  \/ \E a \in asks : /\ a.cb.id = i /\ a.do \in {"send", "request"}
                     /\ a.on # amqp.conn \/ amqp.state # "up"
  \/ i \in twin.pending /\ (amqp.state # "up" \/ twin.receiver # amqp.conn)

\* Every call is answered, unless its callback is among those that the code
\* drops, or the process has thrown (disconnecting, or a loss, while the links of
\* the twin are attached for the first time, amqp_twin_client.ts:232; links
\* detached by force with no error).
EveryCallAnswered ==
  \A i \in Ids :
    (i \in DOMAIN calls /\ calls[i].answer = "none")
      ~> (thrown \/ (i \in DOMAIN calls /\ (calls[i].answer # "none" \/ Lost(i))))

=============================================================================
