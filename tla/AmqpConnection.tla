----------------------------- MODULE AmqpConnection -----------------------------
(***************************************************************************)
(* The AMQP connection, its session, and the links attached on it          *)
(* (common/transport/amqp/src/amqp.ts).                                    *)
(*                                                                         *)
(* The state machine runs a handler to its end, with whatever it calls     *)
(* synchronously, before it hears of anything else: agenda holds the rest  *)
(* of the turn, first things first.  A link is what SenderLink.tla shows   *)
(* of it: it is attached or refused by the peer, and an attach or a detach *)
(* of it is answered when it detaches.  The claims based security agent    *)
(* (Cbs.tla) is the link "cbs".                                            *)
(***************************************************************************)
EXTENDS Integers, Sequences, FiniteSets

CONSTANTS
  Repertoires,  \* bound: the sets of methods that are called together
  MaxRequests,  \* bound: calls of the owner
  MaxConns,     \* bound: calls of connect, the first of which comes first
  MaxTroubles   \* bound: unsolicited events of the network and the peer

ASSUME AmqpConnectionAssumption ==
  /\ MaxRequests \in Nat \ {0} /\ MaxConns \in 1..MaxRequests /\ MaxTroubles \in Nat
  /\ Repertoires \subseteq
       SUBSET {"connect", "disconnect", "attach", "detach", "send", "initializeCBS", "putToken"}

VARIABLES
  repertoire,   \* the methods that are called, one of Repertoires
  state, deferred, \* the machina machine: its state, what waits for any state or one
  agenda,       \* what is left to do in this turn
  thrown,       \* a handler threw: the process ends
  connectionCallback, sessionCallback,
  disconnectionOccurred, sessionCloseOccurred, connectionCloseOccurred,
  conn, session, \* _rheaConnection, and the connection of _rheaSession
  heard,        \* the connections with listeners
  links,        \* _senders, _receivers and _cbs
  rundowns,     \* the closures made by entering disconnecting
  net,          \* what the network and the peer hold of each connection
  requests,     \* history: the calls of the owner and their answers
  events        \* how many unsolicited events there were

fsm == <<state, deferred, agenda, thrown>>
rhea == <<conn, session>>
callbacks == <<connectionCallback, sessionCallback>>
occurred == <<disconnectionOccurred, sessionCloseOccurred, connectionCloseOccurred>>
connectionVars ==
  <<repertoire, fsm, callbacks, occurred, rhea, heard, links, rundowns, net, requests, events>>

Kinds == {"sender", "receiver", "cbs"}
Conns == 1..MaxConns
None == 0
NoLink == [phase |-> "none", op |-> None]
NothingDeferred == [any |-> <<>>, disconnected |-> <<>>]
NoConnection == [up |-> FALSE, conn |-> "none", sess |-> "none"]

\* Owners of a callback: a call, or a rundown as a negative number.
Owner == (-MaxConns)..MaxRequests
Item(do, id, err) == [do |-> do, id |-> id, err |-> err, to |-> "-"]
Replaying(to) == [do |-> "replay", id |-> None, err |-> FALSE, to |-> to]

ConnectMethods == {"connect", "disconnect", "attach"}
LinkMethods == {"connect", "attach", "detach", "send"}
CbsMethods == {"connect", "disconnect", "initializeCBS", "putToken"}
AllRepertoires == {ConnectMethods, LinkMethods, CbsMethods}

\* Type invariant: one rundown at most per connection, and one queue and one
\* callback of each sort however the events and the calls come.
ConnectionTypeOK ==
  /\ repertoire \in Repertoires
  /\ state \in {"disconnected", "connecting", "connecting_session", "connected",
                "disconnecting"}
  /\ thrown \in BOOLEAN
  /\ connectionCallback \in Owner /\ sessionCallback \in Owner
  /\ disconnectionOccurred \in BOOLEAN /\ sessionCloseOccurred \in BOOLEAN
  /\ connectionCloseOccurred \in BOOLEAN
  /\ conn \in 0..MaxConns /\ session \in 0..conn /\ heard \subseteq Conns
  /\ \A k \in Kinds :
       /\ links[k].phase \in {"none", "attaching", "attached", "detaching", "detached"}
       /\ links[k].op \in 0..MaxRequests
  /\ Len(rundowns) <= conn
  /\ \A v \in DOMAIN rundowns :
       rundowns[v].waits \in {"-", "cbs", "links", "session", "connection"}
  /\ \A c \in Conns :
       /\ net[c].conn \in {"none", "opening", "open", "closing", "closed"}
       /\ net[c].sess \in {"none", "opening", "open", "closing", "closed"}
  /\ Len(requests) <= MaxRequests /\ events \in 0..MaxTroubles

ConnectionInit ==
  /\ repertoire \in Repertoires
  /\ state = "disconnected" /\ deferred = NothingDeferred /\ agenda = <<>> /\ thrown = FALSE
  /\ connectionCallback = None /\ sessionCallback = None
  /\ disconnectionOccurred = FALSE /\ sessionCloseOccurred = FALSE
  /\ connectionCloseOccurred = FALSE
  /\ conn = 0 /\ session = 0 /\ heard = {} /\ links = [k \in Kinds |-> NoLink] /\ rundowns = <<>>
  /\ net = [c \in Conns |-> NoConnection]
  /\ requests = <<>> /\ events = 0

-----------------------------------------------------------------------------
(* Answers, transitions, deferred inputs.                                  *)

\* The callback of a call: answered counts, again counts the second times it
\* was called by one failure, answer is the last one.
Again(how) == IF how = "twice" THEN 1 ELSE 0
Answer(id, how) ==
  requests' = IF id <= None THEN requests
           ELSE [requests EXCEPT ![id].answer = how, ![id].answered = @ + 1 + Again(how),
                                 ![id].again = @ + Again(how)]
ErrOr(err, how) == IF err THEN "err" ELSE how

\* A transition to the state the machine is in does nothing.
Transition(to, id, err, rest) ==
  IF to = state THEN UNCHANGED state /\ agenda' = rest
  ELSE /\ state' = to
       /\ agenda' = <<Item("enter", id, err), Replaying(to)>> \o rest

Defer(input, until, rest) ==
  /\ deferred' = [deferred EXCEPT ![until] = Append(@, input)]
  /\ agenda' = rest
  /\ UNCHANGED <<state, callbacks, occurred, rhea, heard, links, rundowns, net, requests>>

Ignore(rest) ==
  /\ agenda' = rest
  /\ UNCHANGED <<state, deferred, callbacks, occurred, rhea, heard, links,
                 rundowns, net, requests>>

AnswerNow(id, how, rest) ==
  /\ Answer(id, how) /\ agenda' = rest
  /\ UNCHANGED <<state, deferred, callbacks, occurred, rhea, heard, links,
                 rundowns, net>>

\* What waits for the transition that was just made, unless _onEnter went on
\* to another state.  What waits for disconnected was put off first: a machine
\* that is disconnecting has nothing left that waits for any transition.
Replay(to, rest) ==
  IF state # to THEN Ignore(rest)
  ELSE /\ agenda' = (IF to = "disconnected" THEN deferred.disconnected ELSE <<>>)
                      \o deferred.any \o rest
       /\ deferred' = [any |-> <<>>,
                       disconnected |-> IF to = "disconnected" THEN <<>> ELSE deferred.disconnected]
       /\ UNCHANGED <<state, callbacks, occurred, rhea, heard, links, rundowns,
                      net, requests>>

Call(kind, k) ==
  [kind |-> kind, to |-> k, answer |-> "none", answered |-> 0, again |-> 0]
MayConnect ==
  /\ Len(requests) < MaxRequests
  /\ Cardinality({i \in DOMAIN requests : requests[i].kind = "connect"}) < MaxConns

-----------------------------------------------------------------------------
(* _onEnter of the five states.                                            *)

\* The disconnect handler of the owner may call connect before it returns.
EnterDisconnected(id, err, rest) ==
  /\ \/ id # None /\ Answer(id, ErrOr(err, "disconnected")) /\ agenda' = rest
     \/ id = None /\ agenda' = rest /\ UNCHANGED requests
     \/ /\ id = None /\ MayConnect
        /\ requests' = Append(requests, Call("connect", "sender"))
        /\ agenda' = <<Item("connect", Len(requests) + 1, FALSE)>> \o rest
  /\ UNCHANGED <<state, deferred, callbacks, occurred, rhea, heard, links,
                 rundowns, net>>

EnterConnecting(id, rest) ==
  /\ connectionCallback' = id
  /\ disconnectionOccurred' = FALSE
  /\ sessionCloseOccurred' = FALSE
  /\ connectionCloseOccurred' = FALSE
  /\ conn' = conn + 1 /\ heard' = heard \cup {conn + 1}
  /\ net' = [net EXCEPT ![conn + 1] = [up |-> TRUE, conn |-> "opening", sess |-> "none"]]
  /\ agenda' = rest
  /\ UNCHANGED <<state, deferred, sessionCallback, session, links, rundowns, requests>>

EnterConnectingSession(id, rest) ==
  /\ sessionCallback' = id
  /\ session' = conn
  /\ net' = [net EXCEPT ![conn].sess = "opening"]
  /\ agenda' = rest
  /\ UNCHANGED <<state, deferred, connectionCallback, occurred, conn, heard,
                 links, rundowns, requests>>

\* The tables of links are emptied into the closure; _cbs is kept.
EnterDisconnecting(id, err, rest) ==
  /\ rundowns' = Append(rundowns,
       [conn |-> conn, callback |-> id, err |-> err, waits |-> "-", timer |-> TRUE,
        late |-> FALSE,
        links |-> [links EXCEPT !["cbs"] = NoLink]])
  /\ links' = [k \in Kinds |-> IF k = "cbs" THEN links[k] ELSE NoLink]
  /\ agenda' = <<Item("cbs", Len(rundowns) + 1, FALSE)>> \o rest
  /\ UNCHANGED <<state, deferred, callbacks, occurred, rhea, heard, net, requests>>

Enter(id, err, rest) ==
  CASE state = "disconnected" -> EnterDisconnected(id, err, rest)
    [] state = "connecting" -> EnterConnecting(id, rest)
    [] state = "connecting_session" -> EnterConnectingSession(id, rest)
    [] state = "connected" -> AnswerNow(id, "ok", rest)
    [] state = "disconnecting" -> EnterDisconnecting(id, err, rest)

-----------------------------------------------------------------------------
(* The handlers of the states.  input is an item of the agenda, rest what   *)
(* follows it there.                                                       *)

HandleDisconnected(input, rest) ==
  CASE input.do = "connect" ->
         /\ Transition("connecting", input.id, FALSE, rest)
         /\ UNCHANGED <<deferred, callbacks, occurred, rhea, heard, links,
                        rundowns, net, requests>>
    [] input.do \in {"disconnect", "detach"} -> AnswerNow(input.id, "ok", rest)
    [] input.do \in {"attach", "initializeCBS", "putToken"} ->
         AnswerNow(input.id, "err", rest)
    \* Nothing handles send and getReceiver: their callbacks are dropped.
    [] input.do = "send" -> AnswerNow(input.id, "dropped", rest)
    [] OTHER -> Ignore(rest)

HandleConnecting(input, rest) ==
  LET Leave(err) ==
        /\ connectionCallback' = None
        /\ heard' = heard \ {conn}
        /\ Transition("disconnected", connectionCallback, err, rest)
        /\ UNCHANGED <<deferred, sessionCallback, disconnectionOccurred,
                       sessionCloseOccurred, rhea, links, rundowns, net, requests>>
  IN CASE input.do = "connection_open" ->
            /\ connectionCallback' = None
            /\ Transition("connecting_session", connectionCallback, FALSE, rest)
            /\ UNCHANGED <<deferred, sessionCallback, occurred, rhea, heard, links,
                           rundowns, net, requests>>
       [] input.do = "connection_close" ->
            connectionCloseOccurred' = TRUE /\ Leave(input.err)
       [] input.do \in {"error", "disconnected"} ->
            UNCHANGED connectionCloseOccurred /\ Leave(TRUE)
       [] OTHER -> Defer(input, "any", rest)

HandleConnectingSession(input, rest) ==
  LET Leave(to, id, err) ==
        /\ Transition(to, id, err, rest)
        /\ UNCHANGED <<deferred, connectionCallback, disconnectionOccurred, rhea,
                       links, rundowns, net, requests>>
      Down(err, closed) ==
        /\ sessionCallback' = None
        /\ sessionCloseOccurred' = TRUE
        /\ connectionCloseOccurred' = (connectionCloseOccurred \/ closed)
        /\ UNCHANGED heard
        /\ Leave("disconnecting", sessionCallback, err)
  IN CASE input.do = "session_open" ->
            /\ sessionCallback' = None
            /\ UNCHANGED <<sessionCloseOccurred, connectionCloseOccurred, heard>>
            /\ Leave("connected", sessionCallback, FALSE)
       [] input.do = "session_close" -> Down(input.err, FALSE)
       [] input.do = "connection_close" -> Down(input.err, TRUE)
       [] input.do = "error" -> Down(TRUE, FALSE)
       [] input.do = "disconnected" ->
            /\ sessionCallback' = None /\ heard' = heard \ {conn}
            /\ UNCHANGED <<sessionCloseOccurred, connectionCloseOccurred>>
            /\ Leave("disconnected", sessionCallback, TRUE)
       \* The callback of connect is not passed on, and soon overwritten.
       [] input.do = "amqpError" ->
            /\ UNCHANGED <<sessionCallback, sessionCloseOccurred,
                           connectionCloseOccurred, heard>>
            /\ Leave("disconnecting", None, TRUE)
       [] OTHER -> Defer(input, "any", rest)

\* attachSenderLink, attachReceiverLink and initializeCBS make a new link.
AttachLink(k, id, rest) ==
  /\ links' = [links EXCEPT ![k] = [phase |-> "attaching", op |-> id]]
  /\ agenda' = rest
  /\ UNCHANGED <<state, deferred, callbacks, occurred, rhea, heard, rundowns,
                 net, requests>>

\* Mutant of DetachLink: the attach under way is not told.
DetachLinkSilently(k, id, rest) ==
  /\ links' = [links EXCEPT ![k] = IF @.phase = "attached"
                 THEN [phase |-> "detaching", op |-> id] ELSE NoLink]
  /\ agenda' = rest
  /\ IF links[k].phase = "attached" THEN UNCHANGED requests ELSE Answer(id, "ok")
  /\ UNCHANGED <<state, deferred, callbacks, occurred, rhea, heard, rundowns, net>>

\* detachSenderLink and detachReceiverLink.  A link that is attaching tells
\* both callbacks.
DetachLink(k, id, rest) ==
  IF links[k].phase = "attached"
  THEN /\ links' = [links EXCEPT ![k] = [phase |-> "detaching", op |-> id]]
       /\ agenda' = rest
       /\ UNCHANGED <<state, deferred, callbacks, occurred, rhea, heard,
                      rundowns, net, requests>>
  ELSE /\ links' = [links EXCEPT ![k] = NoLink]
       /\ agenda' = IF links[k].phase = "attaching"
                    THEN <<Item("refused", links[k].op, TRUE)>> \o rest ELSE rest
       /\ Answer(id, "ok")
       /\ UNCHANGED <<state, deferred, callbacks, occurred, rhea, heard,
                      rundowns, net>>

\* Mutant of LeaveConnected: only the owner ends a connection.
LeaveConnectedAsked(id, err, rest) ==
  /\ IF id = None THEN UNCHANGED state /\ agenda' = rest
     ELSE Transition("disconnecting", id, err, rest)
  /\ UNCHANGED <<deferred, callbacks, rhea, heard, links, rundowns, net, requests>>

LeaveConnected(id, err, rest) ==
  /\ Transition("disconnecting", id, err, rest)
  /\ UNCHANGED <<deferred, callbacks, rhea, heard, links, rundowns, net, requests>>

HandleConnected(input, rest) ==
  LET Leave(id, err) == LeaveConnected(id, err, rest)
  IN CASE input.do = "session_close" ->
            /\ sessionCloseOccurred' = TRUE /\ Leave(None, input.err)
            /\ UNCHANGED <<disconnectionOccurred, connectionCloseOccurred>>
       [] input.do = "connection_close" ->
            /\ connectionCloseOccurred' = TRUE /\ Leave(None, input.err)
            /\ UNCHANGED <<disconnectionOccurred, sessionCloseOccurred>>
       [] input.do = "disconnected" ->
            /\ disconnectionOccurred' = TRUE /\ Leave(None, TRUE)
            /\ UNCHANGED <<sessionCloseOccurred, connectionCloseOccurred>>
       [] input.do \in {"error", "amqpError"} -> Leave(None, TRUE) /\ UNCHANGED occurred
       [] input.do = "disconnect" -> Leave(input.id, FALSE) /\ UNCHANGED occurred
       [] input.do = "connect" -> AnswerNow(input.id, "ok", rest)
       [] input.do = "initializeCBS" -> AttachLink("cbs", input.id, rest)
       [] input.do = "putToken" ->
            IF links["cbs"].phase = "none" THEN AttachLink("cbs", input.id, rest)
            ELSE AnswerNow(input.id, "ok", rest)
       [] input.do = "attach" -> AttachLink(input.to, input.id, rest)
       [] input.do = "send" ->
            IF links[input.to].phase = "none" THEN AttachLink(input.to, input.id, rest)
            ELSE AnswerNow(input.id, "ok", rest)
       [] input.do = "detach" -> DetachLink(input.to, input.id, rest)
       [] OTHER -> Ignore(rest)

\* sessionEnd and disconnect have left their continuations in the callbacks.
HandleDisconnecting(input, rest) ==
  LET Continue(owner, step, err) ==
        IF owner = None THEN agenda' = rest /\ UNCHANGED requests
        ELSE IF owner < None
        THEN agenda' = <<Item(step, -owner, err)>> \o rest /\ UNCHANGED requests
        ELSE agenda' = rest /\ Answer(owner, ErrOr(err, "disconnected"))
  IN CASE input.do = "session_close" ->
            /\ sessionCallback' = None
            /\ sessionCloseOccurred' = TRUE
            /\ Continue(sessionCallback, "connection", input.err)
            /\ UNCHANGED <<state, deferred, connectionCallback, disconnectionOccurred,
                           connectionCloseOccurred, rhea, heard, links, rundowns, net>>
       [] input.do = "connection_close" ->
            /\ connectionCloseOccurred' = TRUE
            /\ Continue(connectionCallback, "finish", input.err)
            /\ UNCHANGED <<state, deferred, callbacks, disconnectionOccurred,
                           sessionCloseOccurred, rhea, heard, links, rundowns, net>>
       [] input.do = "disconnected" ->
            /\ disconnectionOccurred' = TRUE
            /\ agenda' = rest
            /\ UNCHANGED <<state, deferred, callbacks, sessionCloseOccurred,
                           connectionCloseOccurred, rhea, heard, links, rundowns,
                           net, requests>>
       [] input.do \in {"error", "amqpError"} -> Ignore(rest)
       [] OTHER -> Defer(input, "disconnected", rest)

Handle(input, rest) ==
  CASE state = "disconnected" -> HandleDisconnected(input, rest)
    [] state = "connecting" -> HandleConnecting(input, rest)
    [] state = "connecting_session" -> HandleConnectingSession(input, rest)
    [] state = "connected" -> HandleConnected(input, rest)
    [] state = "disconnecting" -> HandleDisconnecting(input, rest)

-----------------------------------------------------------------------------
(* The rundown: the agent, the other links, the session, the connection.   *)
(* v is the number of the closure that runs.                               *)

Forced == sessionCloseOccurred \/ disconnectionOccurred

LinkTold(link, phase, do) ==
  IF link.phase = phase THEN <<Item(do, link.op, TRUE)>> ELSE <<>>

WaitsFor(v, for) == rundowns' = [rundowns EXCEPT ![v].waits = for]

\* The agent that is forced to detach while it attaches tells its callback that
\* it is attached (Cbs.tla); one that is asked to detach then forgets it; and
\* one that is detaching already is not hurried by force.
RundownCbs(v, rest) ==
  LET cbs == links["cbs"] IN
  /\ IF cbs.phase \in {"none", "detached"} \/ Forced
     THEN /\ links' = [links EXCEPT !["cbs"] =
                         [phase |-> IF cbs.phase = "attaching" \/ cbs.phase = "attached"
                                    THEN "detached" ELSE cbs.phase, op |-> None]]
          /\ agenda' = (IF cbs.phase = "attaching" THEN <<Item("opened", cbs.op, FALSE)>>
                        ELSE <<>>) \o <<Item("links", v, FALSE)>> \o rest
          /\ UNCHANGED <<rundowns, requests>>
     ELSE /\ links' = [links EXCEPT !["cbs"] = [phase |-> "detaching", op |-> None]]
          /\ WaitsFor(v, "cbs")
          /\ Answer(cbs.op, "dropped")
          /\ agenda' = rest
  /\ UNCHANGED <<state, deferred, callbacks, occurred, rhea, heard, net>>

\* Forced, a link that is attaching gives its callback the error of the
\* rundown, and then emits it to the listener that calls the callback again:
\* without an error the callback takes the link for attached, looks it up in
\* the emptied table, and throws.  A link that is detaching answers, which
\* may bring the closure that waited for it to its end first.
\* Asked, an attached link answers when the peer has; any other answers with an
\* error, which ends the wait for the others.
RundownLinks(v, rest) ==
  LET r == rundowns[v]
      In(phase) == {k \in Kinds : r.links[k].phase = phase}
      Tell(phase, do) == LinkTold(r.links["sender"], phase, do)
                           \o LinkTold(r.links["receiver"], phase, do)
      next == <<Item("session", v, FALSE)>>
      early == In("attaching") \cup In("detaching") # {}
                 \/ In("attached") = {} \/ (r.err /\ In("detached") # {})
      left == [k \in Kinds |-> IF r.links[k].phase \in {"attached", "detaching"}
                               THEN [r.links[k] EXCEPT !.phase = "detaching"] ELSE NoLink]
  IN /\ IF Forced /\ In("attaching") # {} /\ ~r.err
        THEN thrown' = TRUE /\ agenda' = <<>> /\ UNCHANGED rundowns
        ELSE /\ UNCHANGED thrown
             /\ IF Forced
                THEN /\ agenda' = Tell("attaching", "failed") \o Tell("detaching", "detached")
                           \o (IF r.waits = "links" THEN next ELSE <<>>) \o next \o rest
                     /\ rundowns' = [rundowns EXCEPT ![v].waits = IF @ = "links" THEN "-" ELSE @,
                                       ![v].links = [k \in Kinds |-> NoLink]]
                ELSE /\ agenda' = Tell("attaching", "refused")
                           \o (IF early THEN next ELSE <<>>) \o rest
                     /\ rundowns' = [rundowns EXCEPT ![v].links = left,
                                       ![v].waits = IF early THEN "-" ELSE "links"]
     /\ UNCHANGED <<state, deferred, callbacks, occurred, rhea, heard, links, net, requests>>

RundownSession(v, rest) ==
  /\ IF disconnectionOccurred
     THEN UNCHANGED <<net, sessionCallback>> /\ agenda' = <<Item("connection", v, FALSE)>> \o rest
     ELSE /\ net' = [net EXCEPT ![session].sess =
                       IF @ \in {"opening", "open"} THEN "closing" ELSE @]
          /\ IF sessionCloseOccurred
             THEN agenda' = <<Item("connection", v, FALSE)>> \o rest /\ UNCHANGED sessionCallback
             ELSE sessionCallback' = -v /\ agenda' = rest
  /\ UNCHANGED <<state, deferred, connectionCallback, occurred, rhea, heard, links,
                 rundowns, requests>>

RundownConnection(v, err, rest) ==
  /\ rundowns' = [rundowns EXCEPT ![v].err = @ \/ err]
  /\ IF disconnectionOccurred
     THEN UNCHANGED <<net, connectionCallback>> /\ agenda' = <<Item("finish", v, FALSE)>> \o rest
     ELSE /\ net' = [net EXCEPT ![conn].conn =
                       IF @ \in {"opening", "open"} THEN "closing" ELSE @]
          /\ IF connectionCloseOccurred
             THEN agenda' = <<Item("finish", v, FALSE)>> \o rest /\ UNCHANGED connectionCallback
             ELSE connectionCallback' = -v /\ agenda' = rest
  /\ UNCHANGED <<state, deferred, sessionCallback, occurred, rhea, heard, links, requests>>

\* Mutant of RundownFinish: the timer is left to run.
RundownFinishTimed(v, err, rest) ==
  /\ rundowns' = [rundowns EXCEPT ![v].err = @ \/ err]
  /\ heard' = heard \ {conn}
  /\ Transition("disconnected", rundowns[v].callback, rundowns[v].err \/ err, rest)
  /\ UNCHANGED <<deferred, callbacks, occurred, rhea, links, net, requests>>

RundownFinish(v, err, rest) ==
  /\ rundowns' = [rundowns EXCEPT ![v].timer = FALSE]
  /\ heard' = heard \ {conn}
  /\ Transition("disconnected", rundowns[v].callback, rundowns[v].err \/ err, rest)
  /\ UNCHANGED <<deferred, callbacks, occurred, rhea, links, net, requests>>

\* The function of the timer.
RundownForced(v, rest) ==
  /\ disconnectionOccurred' = TRUE
  /\ agenda' = <<Item("cbs", v, FALSE)>> \o rest
  /\ UNCHANGED <<state, deferred, callbacks, sessionCloseOccurred,
                 connectionCloseOccurred, rhea, heard, links, rundowns, net, requests>>

-----------------------------------------------------------------------------
(* The callbacks given to a link, and the turn.                             *)

\* An attach is answered: putToken goes on to hand over its token.
Opened(id, rest) ==
  IF id # None /\ requests[id].kind = "putToken"
  THEN /\ agenda' = <<Item("putToken", id, FALSE)>> \o rest
       /\ UNCHANGED <<state, deferred, callbacks, occurred, rhea, heard, links,
                      rundowns, net, requests>>
  ELSE AnswerNow(id, "ok", rest)

Run ==
  /\ agenda # <<>>
  /\ LET item == Head(agenda) rest == Tail(agenda) IN
     CASE item.do = "links" -> RundownLinks(item.id, rest)
       [] OTHER ->
          /\ UNCHANGED thrown
          /\ CASE item.do = "enter" -> Enter(item.id, item.err, rest)
               [] item.do = "replay" -> Replay(item.to, rest)
               [] item.do = "cbs" -> RundownCbs(item.id, rest)
               [] item.do = "session" -> RundownSession(item.id, rest)
               [] item.do = "connection" -> RundownConnection(item.id, item.err, rest)
               [] item.do = "finish" -> RundownFinish(item.id, item.err, rest)
               [] item.do = "force" -> RundownForced(item.id, rest)
               [] item.do = "opened" -> Opened(item.id, rest)
               [] item.do = "refused" -> AnswerNow(item.id, "err", rest)
               [] item.do = "failed" -> AnswerNow(item.id, "twice", rest)
               [] item.do = "detached" -> AnswerNow(item.id, "ok", rest)
               [] OTHER -> Handle(item, rest)
  /\ UNCHANGED <<repertoire, events>>

-----------------------------------------------------------------------------
(* The owner, the network and the peer.                                     *)

Unanswered(i) == i \in DOMAIN requests /\ requests[i].answered = 0

\* The owner attaches a link when it has none, and asks once that it detaches;
\* it sets up the agent once.
OwnerMay(kind, k) ==
  LET UnderWay(kinds, to) ==
        \E i \in DOMAIN requests : requests[i].kind \in kinds /\ requests[i].to \in to /\ Unanswered(i)
  IN CASE kind = "attach" -> /\ ~UnderWay({"attach", "detach", "send"}, {k})
                             /\ links[k].phase \in {"none", "detached"}
       [] kind = "send" -> ~UnderWay({"attach", "detach", "send"}, {k})
       [] kind = "detach" -> ~UnderWay({"detach"}, {k})
       [] kind \in {"initializeCBS", "putToken"} ->
            ~UnderWay({"initializeCBS", "putToken"}, {"sender"})
       [] OTHER -> TRUE

\* The public methods.
OwnerCalls ==
  /\ agenda = <<>> /\ ~thrown /\ Len(requests) < MaxRequests
  /\ \E kind \in repertoire, k \in {"sender", "receiver"} :
       /\ kind \in {"connect", "disconnect", "initializeCBS", "putToken"} => k = "sender"
       /\ kind = "connect" => MayConnect
       /\ requests = <<>> => kind = "connect"
       /\ OwnerMay(kind, k)
       /\ requests' = Append(requests, Call(kind, k))
       /\ agenda' = <<[Item(kind, Len(requests) + 1, FALSE) EXCEPT !.to = k]>>
  /\ UNCHANGED <<repertoire, state, deferred, thrown, callbacks, occurred, rhea, heard,
                 links, rundowns, net, events>>

\* The listeners of rhea's events hand them to the machine.
Hears(c, item, listening) ==
  /\ agenda' = IF listening THEN <<item>> ELSE <<>>
  /\ UNCHANGED <<repertoire, state, deferred, thrown, callbacks, occurred, rhea, heard,
                 requests>>

Event(solicited) ==
  /\ agenda = <<>> /\ ~thrown
  /\ IF solicited THEN UNCHANGED events
     ELSE events < MaxTroubles /\ events' = events + 1

PeerOpensConnection(c) ==
  /\ net[c].up /\ net[c].conn = "opening"
  /\ Event(TRUE)
  /\ net' = [net EXCEPT ![c].conn = "open"]
  /\ Hears(c, Item("connection_open", None, FALSE), c \in heard)
  /\ UNCHANGED <<links, rundowns>>

\* rhea tells of the error of a close before the close.
PeerClosesConnection(c, err) ==
  /\ net[c].up /\ net[c].conn \in {"opening", "open", "closing"}
  /\ Event(net[c].conn = "closing")
  /\ net' = [net EXCEPT ![c].conn = "closed", ![c].up = FALSE]
  /\ Hears(c, Item("connection_close", None, err), c \in heard)
  /\ UNCHANGED <<links, rundowns>>

SocketLost(c) ==
  /\ net[c].up
  /\ Event(FALSE)
  /\ net' = [net EXCEPT ![c].up = FALSE]
  /\ Hears(c, Item("disconnected", None, FALSE), c \in heard)
  /\ UNCHANGED <<links, rundowns>>

\* rhea has met an error of the connection of its own.
ConnectionErrs(c) ==
  /\ net[c].up /\ c \in heard
  /\ Event(FALSE)
  /\ Hears(c, Item("error", None, TRUE), TRUE)
  /\ UNCHANGED <<net, links, rundowns>>

PeerOpensSession(c) ==
  /\ net[c].up /\ net[c].sess = "opening"
  /\ Event(TRUE)
  /\ net' = [net EXCEPT ![c].sess = "open"]
  /\ Hears(c, Item("session_open", None, FALSE), TRUE)
  /\ UNCHANGED <<links, rundowns>>

\* The listeners of a session are never removed.  The peer answers the links it
\* was asked to detach before the session.
PeerClosesSession(c, err) ==
  /\ net[c].up /\ net[c].sess \in {"opening", "open", "closing"}
  /\ \A v \in DOMAIN rundowns, k \in Kinds :
       rundowns[v].conn = c => rundowns[v].links[k].op = None
  /\ Event(net[c].sess = "closing")
  /\ net' = [net EXCEPT ![c].sess = "closed"]
  /\ Hears(c, Item("session_close", None, err), TRUE)
  /\ UNCHANGED <<links, rundowns>>

LinksServed(c) == c # 0 /\ net[c].up /\ net[c].sess \in {"open", "closing"}

LinkOpened(k) ==
  /\ LinksServed(session) /\ links[k].phase = "attaching"
  /\ Event(TRUE)
  /\ links' = [links EXCEPT ![k] = [phase |-> "attached", op |-> None]]
  /\ Hears(conn, Item("opened", links[k].op, FALSE), TRUE)
  /\ UNCHANGED <<net, rundowns>>

\* Refused without an error, the link is taken for attached.
LinkRefused(k, err) ==
  /\ LinksServed(session) /\ links[k].phase = "attaching"
  /\ Event(FALSE)
  /\ links' = [links EXCEPT ![k] =
       IF err /\ k # "cbs" THEN NoLink ELSE [phase |-> "detached", op |-> None]]
  /\ Hears(conn, Item(IF err THEN "refused" ELSE "opened", links[k].op, err), TRUE)
  /\ UNCHANGED <<net, rundowns>>

\* The peer ends a link.  Only a receiver may end without an error.
LinkEnded(k, err) ==
  /\ LinksServed(session) /\ links[k].phase = "attached"
  /\ err \/ k = "receiver"
  /\ Event(FALSE)
  /\ links' = IF err THEN links ELSE [links EXCEPT ![k].phase = "detached"]
  /\ Hears(conn, Item("amqpError", None, TRUE), err)
  /\ UNCHANGED <<net, rundowns>>

LinkDetached(k) ==
  /\ LinksServed(session) /\ links[k].phase = "detaching" /\ k # "cbs"
  /\ Event(TRUE)
  /\ links' = [links EXCEPT ![k] = NoLink]
  /\ Hears(conn, Item("detached", links[k].op, FALSE), TRUE)
  /\ UNCHANGED <<net, rundowns>>

\* A link that a rundown asked to detach has.
RundownLinkDetached(v, k, err) ==
  LET r == rundowns[v]
      others == \E o \in Kinds \ {k} : r.links[o].phase = "detaching"
      onward == r.waits = "links" /\ (err \/ r.err \/ ~others)
  IN /\ LinksServed(r.conn) /\ r.links[k].phase = "detaching"
     /\ Event(TRUE)
     /\ rundowns' = [rundowns EXCEPT ![v].links[k] = NoLink,
                                     ![v].waits = IF onward THEN "-" ELSE @]
     /\ agenda' = <<Item("detached", r.links[k].op, FALSE)>>
                    \o (IF onward THEN <<Item("session", v, FALSE)>> ELSE <<>>)
     /\ UNCHANGED <<repertoire, state, deferred, thrown, callbacks, occurred, rhea,
                    heard, links, net, requests>>

RundownCbsDetached(v) ==
  /\ LinksServed(rundowns[v].conn) /\ rundowns[v].waits = "cbs"
  /\ Event(TRUE)
  /\ rundowns' = [rundowns EXCEPT ![v].waits = "-", ![v].late = ~rundowns[v].timer]
  /\ links' = [links EXCEPT !["cbs"] = [phase |-> "detached", op |-> None]]
  /\ Hears(conn, Item("links", v, FALSE), TRUE)
  /\ UNCHANGED net

\* 45 seconds after the rundown began.
Timer(v) ==
  /\ rundowns[v].timer
  /\ Event(TRUE)
  /\ rundowns' = [rundowns EXCEPT ![v].timer = FALSE]
  /\ Hears(conn, Item("force", v, FALSE), TRUE)
  /\ UNCHANGED <<net, links>>

PeerAnswers ==
  \/ \E c \in Conns :
       \/ PeerOpensConnection(c) \/ PeerOpensSession(c)
       \/ net[c].conn = "closing" /\ PeerClosesConnection(c, FALSE)
       \/ net[c].sess = "closing" /\ PeerClosesSession(c, FALSE)
  \/ \E k \in Kinds : LinkOpened(k) \/ LinkDetached(k)
  \/ \E v \in DOMAIN rundowns :
       \/ RundownCbsDetached(v)
       \/ \E k \in Kinds : RundownLinkDetached(v, k, FALSE)

Trouble ==
  \/ \E c \in Conns : SocketLost(c) \/ ConnectionErrs(c)
  \/ \E c \in Conns, err \in BOOLEAN : PeerClosesConnection(c, err) \/ PeerClosesSession(c, err)
  \/ \E k \in Kinds, err \in BOOLEAN : LinkRefused(k, err) \/ LinkEnded(k, err)
  \/ \E v \in DOMAIN rundowns, k \in Kinds : RundownLinkDetached(v, k, TRUE)

ConnectionNext == Run \/ OwnerCalls \/ PeerAnswers \/ Trouble \/ \E v \in DOMAIN rundowns : Timer(v)

ConnectionSpec == ConnectionInit /\ [][ConnectionNext]_connectionVars

\* A turn ends, a timer fires, and the peer answers as long as there is a
\* socket.
Fairness ==
  /\ WF_connectionVars(Run) /\ WF_connectionVars(PeerAnswers)
  /\ \A v \in Conns : WF_connectionVars(v \in DOMAIN rundowns /\ Timer(v))

FairSpec == ConnectionSpec /\ Fairness

-----------------------------------------------------------------------------
(* Properties.                                                             *)

\* The agent answers a rundown that its timer has ended before: the rundown
\* comes to its end once more, in whatever connection there is by then.
LateRundown == \E v \in DOMAIN rundowns : rundowns[v].late

\* Safety: a callback is called once, and once more only where a forced rundown
\* fails the attach of a link, which tells its callback and emits the error to
\* it; as long as no rundown comes back late.
AnsweredOnce ==
  /\ ConnectionTypeOK
  /\ LateRundown \/ \A i \in DOMAIN requests :
       requests[i].answered <= 1 + requests[i].again /\ requests[i].again <= 1

\* Safety: between two turns, a machine that is connected listens to a
\* connection with an open session, whatever events of it were deferred and
\* whatever befell it while it was set up, as long as no rundown comes back.
ConnectedMeansUp ==
  ~LateRundown /\ state = "connected" /\ agenda = <<>> =>
    conn \in heard /\ net[conn].up /\ net[conn].conn = "open" /\ net[conn].sess = "open"

\* A call that was deferred until a disconnected state which the disconnect
\* handler has left at once waits for the next one.
Stranded(i) ==
  /\ state # "disconnecting"
  /\ \E d \in DOMAIN deferred.disconnected : deferred.disconnected[d].id = i

\* A detach whose link is asked again by a rundown is answered by the peer only.
Forgotten(i) ==
  \E v \in DOMAIN rundowns, k \in Kinds :
    rundowns[v].links[k].op = i /\ ~LinksServed(rundowns[v].conn)

\* Liveness: every call is answered, or was dropped where the code drops it: no
\* state, loss or rundown leaves a callback behind.
EveryCallAnswered ==
  \A i \in 1..MaxRequests :
    Unanswered(i) ~>
      ~Unanswered(i) \/ Stranded(i) \/ Forgotten(i) \/ LateRundown \/ thrown

=============================================================================
