----------------------------- MODULE AmqpInvariant -----------------------------
(***************************************************************************)
(* What is always true of the AMQP connection (Inv), and what its steps do *)
(* in the terms of that invariant.  AmqpConnection_proofs proves it.       *)
(*                                                                         *)
(* The types come with a budget: every connection and every rundown is one *)
(* of a connect of the owner.  Unless the agent has answered a rundown     *)
(* that was over, the rest of Inv holds too.  Control says where in a turn *)
(* the machine can be: what the network holds of its connection, who is    *)
(* listened to, what may follow what in a turn, which callbacks are left   *)
(* and who waits for them.  Accounted counts the places in which the       *)
(* callback of a call is.                                                  *)
(***************************************************************************)
EXTENDS AmqpConnection, CountingLemmas

OwnerMethods ==
  {"connect", "disconnect", "attach", "detach", "send", "initializeCBS", "putToken"}
PeerEvents ==
  {"connection_open", "connection_close", "disconnected", "error", "session_open",
   "session_close", "amqpError"}
Tellings == {"opened", "refused", "failed", "detached"}
Steps == {"cbs", "links", "session", "connection", "finish", "force"}
ConnectionStates ==
  {"disconnected", "connecting", "connecting_session", "connected", "disconnecting"}
TwoLinks == {"sender", "receiver"}
Acts == OwnerMethods \cup PeerEvents \cup Tellings \cup Steps \cup {"enter", "replay"}

\* What a turn consists of, when there are n rundowns.
Items(n) ==
  {x \in [do : Acts, id : Owner, err : BOOLEAN, to : TwoLinks \cup ConnectionStates \cup {"-"}] :
     /\ x.do \in Steps => x.id \in 1..n
     /\ x.do = "enter" => -x.id <= n
     /\ x.do \notin Steps \cup {"enter"} => x.id >= 0
     /\ x.do = "replay" => x.to \in ConnectionStates
     /\ x.do \in {"attach", "detach", "send"} => x.to \in TwoLinks}

\* An entry of a state, a first step of a rundown and its last ones come first.
LeadingSteps == {"cbs", "force", "connection", "finish"}
Later(n) == {x \in Items(n) : x.do \notin LeadingSteps \cup {"enter"}}
Kept == {x \in Items(0) : x.do \in OwnerMethods \cup PeerEvents}

LinkRecords == [phase : {"none", "attaching", "attached", "detaching", "detached"},
                op : 0..MaxRequests]
Rundowns(n) ==
  {r \in [conn : 0..MaxConns, callback : Owner, err : BOOLEAN,
          waits : {"-", "cbs", "links"}, timer : BOOLEAN, late : BOOLEAN,
          links : [Kinds -> LinkRecords]] :
     -r.callback <= n /\ r.links["cbs"] = NoLink}
Stages == {"none", "opening", "open", "closing", "closed"}
Nets == [up : BOOLEAN, conn : Stages, sess : Stages]
Requested ==
  {r \in [kind : OwnerMethods, to : TwoLinks,
          answer : {"none", "ok", "err", "twice", "dropped", "disconnected"},
          answered : Nat, again : Nat] : 2 * r.again <= r.answered}

One(b) == IF b THEN 1 ELSE 0
HeadDo(s) == IF s = <<>> THEN "-" ELSE Head(s).do
Entering == HeadDo(agenda) = "enter"
Newest == Len(rundowns)

\* How many items of a turn are of a kind.
Do(S) == {x \in Items(MaxConns) : x.do \in S}
Connects(s) == Count(s, Do({"connect"}))
LinkSteps(s) == Count(s, Do({"links"}))
SessionSteps(s) == Count(s, Do({"session"}))
Closings(s) == Count(s, Do({"session_close", "replay"}))

\* A turn over n rundowns.
Turns(n) == {s \in Seq(Items(n)) : s # <<>> => Tail(s) \in Seq(Later(n))}

Typed ==
  /\ repertoire \in Repertoires /\ state \in ConnectionStates /\ thrown \in BOOLEAN
  /\ deferred \in [any : Seq(Kept), disconnected : Seq(Kept)]
  /\ agenda \in Turns(Newest)
  /\ connectionCallback \in Owner /\ -connectionCallback <= Newest
  /\ sessionCallback \in Owner /\ -sessionCallback <= Newest
  /\ disconnectionOccurred \in BOOLEAN /\ sessionCloseOccurred \in BOOLEAN
  /\ connectionCloseOccurred \in BOOLEAN
  /\ conn \in 0..MaxConns /\ session \in 0..conn /\ heard \in SUBSET Conns
  /\ links \in [Kinds -> LinkRecords] /\ rundowns \in Seq(Rundowns(Newest))
  /\ net \in [Conns -> Nets]
  /\ requests \in Seq(Requested) /\ Len(requests) <= MaxRequests
  /\ events \in 0..MaxTroubles

Connections == Count(requests, {r \in Requested : r.kind = "connect"})
Underway == \/ state \in {"connecting_session", "connected"}
            \/ state = "connecting" /\ ~Entering
            \/ state = "disconnecting" /\ Entering
Budget ==
  /\ conn + Connects(agenda) + Connects(deferred.any) + Connects(deferred.disconnected)
       + One(state = "connecting" /\ Entering) <= Connections
  /\ Connections <= MaxConns
  /\ Newest + One(Underway) <= conn
LateHasNoTimer == \A v \in DOMAIN rundowns : rundowns[v].late => ~rundowns[v].timer

Connected == \/ state \in {"connecting_session", "connected", "disconnecting"}
             \/ state = "connecting" /\ ~Entering
Running == state = "disconnecting" /\ ~Entering
Ends == {"connection_close", "disconnected", "session_close"}
Listening == heard = IF Connected THEN {conn} ELSE {}
Network ==
  /\ state = "connecting" /\ ~Entering =>
       /\ net[conn].sess = "none" /\ session < conn
       /\ \/ net[conn].up /\ net[conn].conn = "opening" /\ HeadDo(agenda) # "connection_open"
          \/ net[conn].up /\ net[conn].conn = "open" /\ HeadDo(agenda) = "connection_open"
          \/ HeadDo(agenda) \in {"connection_close", "disconnected"}
  /\ state = "connecting_session" /\ Entering =>
       net[conn].up /\ net[conn].conn = "open" /\ net[conn].sess = "none"
  /\ state = "connecting_session" /\ ~Entering =>
       \/ /\ net[conn].up /\ net[conn].conn = "open"
          /\ \/ net[conn].sess = "opening" /\ HeadDo(agenda) # "session_open"
             \/ net[conn].sess = "open" /\ HeadDo(agenda) = "session_open"
       \/ HeadDo(agenda) \in Ends
  /\ state = "connected" =>
       \/ net[conn].up /\ net[conn].conn = "open" /\ net[conn].sess = "open"
       \/ HeadDo(agenda) \in Ends
  /\ state \in {"connecting_session", "connected", "disconnecting"} => net[conn].conn # "opening"
  /\ state \in {"connected", "disconnecting"} \/ (state = "connecting_session" /\ ~Entering)
       => session = conn
  /\ \A c \in Conns : net[c].up /\ net[c].sess = "opening" =>
       c = conn /\ (state = "disconnecting" \/ (state = "connecting_session" /\ ~Entering))
  /\ HeadDo(agenda) \in {"connection_close", "disconnected"} => Connected /\ ~net[conn].up

Unlinked ==
  /\ state \in {"disconnected", "connecting", "connecting_session"} \/ Running =>
       links["sender"] = NoLink /\ links["receiver"] = NoLink
  /\ state \in {"disconnected", "connecting", "connecting_session"}
       \/ (Running /\ HeadDo(agenda) # "cbs")
       => links["cbs"].phase \in {"none", "detaching", "detached"}

Deferrals ==
  /\ deferred.any \in Seq(Do(OwnerMethods \cup {"session_close"}))
  /\ deferred.disconnected \in Seq(Do(OwnerMethods))

\* How many steps a turn still has, and whether it begins a rundown.
Load(s) == One(HeadDo(s) \in LeadingSteps) + LinkSteps(s) + SessionSteps(s)
Leading(s) == HeadDo(s) \in {"cbs", "force"} \/ LinkSteps(s) > 0
Alone == PeerEvents \ {"session_close"}
Following ==
  OwnerMethods \cup Tellings \cup {"session_close", "replay", "links", "session"}
OfNewest == {x \in Items(MaxConns) : x.do \in Steps => x.id = Newest}
Turn ==
  /\ agenda # <<>> => Tail(agenda) \in Seq(Do(Following))
  /\ HeadDo(agenda) \in Alone => Tail(agenda) = <<>>
  /\ HeadDo(agenda) = "connection_open" => state = "connecting"
  /\ HeadDo(agenda) = "session_open" => state = "connecting_session"
  /\ HeadDo(agenda) = "amqpError" => state = "connected"
  /\ SessionSteps(agenda) > 0 => Running \/ state \in {"disconnected", "connecting"}
  /\ HeadDo(agenda) \in {"connection", "finish"} => Running \/ state = "disconnected"
  /\ Leading(agenda) =>
       /\ Running /\ Load(agenda) = 1
       /\ (connectionCallback = None /\ sessionCallback = None) \/ Closings(agenda) = 0
  /\ Running => agenda \in Seq(OfNewest)
  /\ thrown => agenda = <<>>

Owners ==
  /\ Entering => Head(agenda).id >= 0
  /\ \A v \in DOMAIN rundowns : rundowns[v].callback >= 0
  /\ state = "disconnected" => connectionCallback <= 0 /\ sessionCallback <= 0
  /\ state = "connecting" =>
       /\ IF Entering THEN connectionCallback <= 0 ELSE connectionCallback >= 0
       /\ sessionCallback <= 0
  /\ state = "connecting_session" =>
       /\ connectionCallback = None
       /\ IF Entering THEN sessionCallback <= 0 ELSE sessionCallback >= 0
  /\ state = "connected" \/ (state = "disconnecting" /\ Entering) =>
       connectionCallback = None /\ sessionCallback = None
  /\ Running => connectionCallback \in {None, -Newest} /\ sessionCallback \in {None, -Newest}
  /\ state \in {"connecting_session", "connected"} \/ (state = "connecting" /\ ~Entering)
       => ~disconnectionOccurred
  /\ state = "connecting" /\ ~Entering => ~sessionCloseOccurred

Waiting ==
  /\ Running => Newest > 0
  /\ \A v \in DOMAIN rundowns :
       /\ rundowns[v].timer => Running /\ v = Newest
       /\ rundowns[v].waits = "links" =>
            Running /\ v = Newest /\ (rundowns[v].timer \/ Leading(agenda) \/ thrown)
       /\ rundowns[v].waits # "-" /\ rundowns[v].timer /\ ~thrown =>
            connectionCallback = None /\ sessionCallback = None /\ Load(agenda) = 0
  /\ (HeadDo(agenda) = "cbs" \/ LinkSteps(agenda) > 0) /\ ~disconnectionOccurred =>
       /\ rundowns[Newest].timer /\ rundowns[Newest].waits = "-"
       /\ connectionCallback = None /\ sessionCallback = None

NeverOpened ==
  state = "disconnecting" /\ net[conn].up /\ net[conn].sess = "opening" =>
    /\ ~disconnectionOccurred /\ sessionCloseOccurred
    /\ HeadDo(agenda) \in {"enter", "cbs", "links", "session"}
    /\ links["sender"] = NoLink /\ links["receiver"] = NoLink
    /\ links["cbs"].phase \notin {"attaching", "attached"}
    /\ Running => rundowns[Newest].links = [k \in Kinds |-> NoLink]

Control ==
  Listening /\ Network /\ Unlinked /\ Deferrals /\ Turn /\ Owners /\ Waiting /\ NeverOpened

\* Where the callback of a call is; one that was called again was told once.
Of(i) == {x \in Items(MaxConns) : x.id = i /\ x.do \notin Steps}
Linked(k, i) == {r \in Rundowns(MaxConns) : r.links[k].op = i}
Told(i) == IF i \in DOMAIN requests THEN requests[i].answered - requests[i].again ELSE 0
InDeferred(i) == Count(deferred.any, Of(i)) + Count(deferred.disconnected, Of(i))
InCallbacks(i) == One(connectionCallback = i) + One(sessionCallback = i)
InLinks(i) ==
  One(links["sender"].op = i) + One(links["receiver"].op = i) + One(links["cbs"].op = i)
InRundowns(i) == Count(rundowns, Linked("sender", i)) + Count(rundowns, Linked("receiver", i))
InClosure(i) == One(Running /\ rundowns[Newest].callback = i)
Places(i) == Count(agenda, Of(i)) + InDeferred(i) + InCallbacks(i) + InLinks(i)
               + InRundowns(i) + InClosure(i) + Told(i)
Accounted == \A i \in Nat \ {0} : Places(i) <= One(i \in DOMAIN requests)

Inv == /\ Typed /\ Budget /\ LateHasNoTimer
       /\ LateRundown \/ (Control /\ Accounted)

-----------------------------------------------------------------------------
(* Facts about turns.                                                      *)

\* What a turn a holds, that first holds s and then t.
Sums(a, s, t) ==
  /\ Connects(a) = Connects(s) + Connects(t) /\ LinkSteps(a) = LinkSteps(s) + LinkSteps(t)
  /\ SessionSteps(a) = SessionSteps(s) + SessionSteps(t) /\ Closings(a) = Closings(s) + Closings(t)
  /\ \A i : Count(a, Of(i)) = Count(s, Of(i)) + Count(t, Of(i))

\* What a turn a holds, that begins with item x and goes on with s.
Begins(a, x, s) ==
  /\ a # <<>> /\ Head(a) = x /\ Tail(a) = s /\ HeadDo(a) = x.do
  /\ Connects(a) = One(x.do = "connect") + Connects(s)
  /\ LinkSteps(a) = One(x.do = "links") + LinkSteps(s)
  /\ SessionSteps(a) = One(x.do = "session") + SessionSteps(s)
  /\ Closings(a) = One(x.do \in {"session_close", "replay"}) + Closings(s)
  /\ \A i : Count(a, Of(i)) = One(x.id = i /\ x.do \notin Steps) + Count(s, Of(i))

\* What is counted in a turn is a number.
Numbers(s) ==
  /\ Connects(s) \in Nat /\ LinkSteps(s) \in Nat /\ SessionSteps(s) \in Nat
  /\ Closings(s) \in Nat /\ \A i : Count(s, Of(i)) \in Nat

\* What follows the first item of a turn over n rundowns.
Rest(s, n) ==
  /\ s \in Seq(Later(n)) /\ s \in Seq(Items(n)) /\ s \in Turns(n)
  /\ HeadDo(s) \notin LeadingSteps \cup {"enter"} /\ Numbers(s)

-----------------------------------------------------------------------------
(* A step of a turn.                                                       *)

\* x is run, and rest follows it.
Takes(x, rest) == agenda # <<>> /\ x = Head(agenda) /\ rest = Tail(agenda)

\* What a turn is that enters a state.
Enters(a, id, err, to, rest, n) ==
  /\ a \in Turns(n) /\ a # <<>> /\ Head(a) = Item("enter", id, err) /\ Head(a).id = id
  /\ Tail(a) = <<Replaying(to)>> \o rest /\ HeadDo(a) = "enter"
  /\ Connects(a) = Connects(rest) /\ LinkSteps(a) = LinkSteps(rest)
  /\ SessionSteps(a) = SessionSteps(rest)
  /\ \A i \in Nat \ {0} : Count(a, Of(i)) = One(id = i) + Count(rest, Of(i))

\* The calls and what they were told are as before but for one more answer to id.
Answers(id) ==
  /\ requests' \in Seq(Requested) /\ Len(requests') = Len(requests)
  /\ DOMAIN requests' = DOMAIN requests /\ Connections' = Connections
  /\ \A i \in Nat \ {0} : Told(i)' = Told(i) + One(i = id /\ i \in DOMAIN requests)

-----------------------------------------------------------------------------
(* Quiet steps: the machine stays where it is.                             *)

\* What neither is a step of a rundown nor moves the machine by itself.
Loose == OwnerMethods \cup Tellings \cup {"session_close"}

\* The item that is run does not concern the state of the machine.
QuietItem(x) ==
  /\ x.do \notin Steps
  /\ state = "connecting" => x.do \notin {"enter", "connection_open", "connection_close", "disconnected"}
  /\ state = "connecting_session" => x.do \notin {"enter", "session_open"} \cup Ends
  /\ state = "connected" => x.do \notin Ends
  /\ state = "disconnecting" => x.do # "enter"

\* The turn goes on with rest after x, and what it is about stays as it is.
QuietTurn(x, rest) ==
  /\ HeadDo(agenda') \notin LeadingSteps \cup {"enter"} /\ Numbers(agenda')
  /\ HeadDo(agenda') \in Loose \/ HeadDo(agenda') = HeadDo(rest)
  /\ LinkSteps(agenda') = LinkSteps(rest) /\ SessionSteps(agenda') = SessionSteps(rest)
  /\ Closings(agenda') = Closings(rest) \/ x.do = "replay"
  /\ agenda' # <<>> => Tail(agenda') \in Seq(Do(Following))
  /\ Running => agenda' \in Seq(OfNewest)

-----------------------------------------------------------------------------
(* Where the callbacks are, and what a step keeps of the budget.           *)

\* What a quiet step may do: the calls to come and the callbacks that are put
\* somewhere else are not more than before.
QuietEffect(x, new) ==
  /\ links' \in [Kinds -> LinkRecords] /\ (UNCHANGED links \/ state = "connected")
  /\ deferred' \in [any : Seq(Kept), disconnected : Seq(Kept)]
  /\ ~LateRundown /\ Control => Deferrals'
  /\ requests' \in Seq(Requested) /\ Len(requests') <= MaxRequests /\ Connections' <= MaxConns
  /\ Connects(new) + Connects(deferred'.any) + Connects(deferred'.disconnected) + Connections
       <= One(x.do = "connect") + Connects(deferred.any) + Connects(deferred.disconnected)
            + Connections'
  /\ \A i \in Nat \ {0} :
       Count(new, Of(i)) + InDeferred(i)' + InLinks(i)' + Told(i)' + One(i \in DOMAIN requests)
         <= One(x.id = i /\ x.do \notin Steps) + InDeferred(i) + InLinks(i) + Told(i)
              + One(i \in DOMAIN requests')

\* Loose items are put before the rest of the turn.
Puts(new, rest, x) ==
  /\ new \in Seq(Later(Newest)) /\ agenda' = new \o rest
  /\ ~LateRundown => /\ new \in Seq(Do(Loose))
                     /\ new \in Seq(Do(OwnerMethods \cup Tellings)) \/ x.do = "replay"

-----------------------------------------------------------------------------
(* The quiet handlers.                                                     *)

\* What Run leaves alone, but for one step.
Calm == UNCHANGED <<repertoire, thrown, events>>

\* A state an input may wait for, and what may wait for it.
Waits(until, x) ==
  \/ until = "any" /\ x.do \in OwnerMethods \cup {"session_close"}
  \/ until = "disconnected" /\ x.do \in OwnerMethods

\* A link is replaced.
Relinks(k, r) == links' = [links EXCEPT ![k] = r]

\* The others are as before, and of the callbacks of links its own has changed.
Relinked(k, r) ==
  /\ links' \in [Kinds -> LinkRecords]
  /\ links'[k] = r /\ \A o \in Kinds \ {k} : links'[o] = links[o]
  /\ \A i \in Nat \ {0} : InLinks(i)' + One(links[k].op = i) = InLinks(i) + One(r.op = i)

\* The callbacks of x and of the links are more than those in new, in the links
\* and answered.
Hands(x, new, a) ==
  \A i \in Nat \ {0} :
    Count(new, Of(i)) + InLinks(i)' + One(i = a)
      <= One(x.id = i /\ x.do \notin Steps) + InLinks(i)

-----------------------------------------------------------------------------
(* Transitions.                                                            *)

\* A transition to another state, and what the step keeps of every variable.
Leaves(x, id, err, to) ==
  /\ to \in ConnectionStates /\ to # state
  /\ id \in Owner /\ -id <= Newest /\ err \in BOOLEAN
  /\ to = "connecting" => x.do = "connect"
  /\ to \in {"connecting_session", "connected", "disconnecting"} => Underway
  /\ connectionCallback' \in Owner /\ -connectionCallback' <= Newest
  /\ sessionCallback' \in Owner /\ -sessionCallback' <= Newest
  /\ disconnectionOccurred' \in BOOLEAN /\ sessionCloseOccurred' \in BOOLEAN
  /\ connectionCloseOccurred' \in BOOLEAN
  /\ heard' \in SUBSET Conns
  /\ rundowns' \in Seq(Rundowns(Newest)) /\ Len(rundowns') = Len(rundowns)
  /\ LateHasNoTimer' /\ (LateRundown' <=> LateRundown)
  /\ UNCHANGED <<repertoire, thrown, events, deferred, rhea, links, net, requests>>

\* What the machine is connected to when it goes on to the state to.
Reaches(to) ==
  /\ heard' = IF to \in {"connecting_session", "connected", "disconnecting"} THEN {conn} ELSE {}
  /\ to = "connecting_session" =>
       net[conn].up /\ net[conn].conn = "open" /\ net[conn].sess = "none"
  /\ to = "connected" => net[conn].up /\ net[conn].conn = "open" /\ net[conn].sess = "open"
  /\ to \in {"connecting_session", "connected", "disconnecting"} => net[conn].conn # "opening"
  /\ to \in {"connected", "disconnecting"} => session = conn
  /\ \A c \in Conns : net[c].up /\ net[c].sess = "opening" => c = conn /\ to = "disconnecting"
  /\ to \in {"disconnected", "connecting", "connecting_session"} =>
       /\ links["sender"] = NoLink /\ links["receiver"] = NoLink
       /\ links["cbs"].phase \in {"none", "detaching", "detached"}
  /\ to = "disconnecting" /\ net[conn].up /\ net[conn].sess = "opening" =>
       /\ ~disconnectionOccurred' /\ sessionCloseOccurred'
       /\ links["sender"] = NoLink /\ links["receiver"] = NoLink
       /\ links["cbs"].phase \notin {"attaching", "attached"}

\* Whose callbacks there are when it does, and what is left of the turn.
Brings(x, rest, id, to) ==
  /\ LinkSteps(rest) = 0 /\ (SessionSteps(rest) > 0 => to \in {"disconnected", "connecting"})
  /\ ~thrown /\ id >= 0
  /\ \A v \in DOMAIN rundowns' :
       rundowns'[v].callback >= 0 /\ ~rundowns'[v].timer /\ rundowns'[v].waits # "links"
  /\ to \in {"disconnected", "connecting"} => connectionCallback' <= 0 /\ sessionCallback' <= 0
  /\ to \in {"connecting_session", "connected", "disconnecting"} => connectionCallback' = None
  /\ to = "connecting_session" => sessionCallback' <= 0
  /\ to \in {"connected", "disconnecting"} => sessionCallback' = None
  /\ to \in {"connecting_session", "connected"} => ~disconnectionOccurred'

\* The callback the transition passes on was somewhere before.
Passes(x, id) ==
  \A i \in Nat \ {0} :
    One(id = i) + InCallbacks(i)' + InRundowns(i)'
      <= One(x.id = i /\ x.do \notin Steps) + InCallbacks(i) + InRundowns(i) + InClosure(i)

-----------------------------------------------------------------------------
(* Entering connecting and connecting_session.                             *)

\* Items are put before the rest of the turn.
GoesOn(new, rest) == rest \in Seq(Items(Newest')) /\ new \in Seq(Items(Newest')) /\ agenda' = new \o rest

\* The callbacks of x and of what a step changes are not more after it.
Carries(x, new) ==
  \A i \in Nat \ {0} :
    Count(new, Of(i)) + InCallbacks(i)' + InLinks(i)' + InRundowns(i)' + InClosure(i)' + Told(i)'
      <= One(x.id = i /\ x.do \notin Steps) + InCallbacks(i) + InLinks(i) + InRundowns(i)
           + InClosure(i) + Told(i)

-----------------------------------------------------------------------------
(* Entering disconnecting.                                                 *)

\* What a rundown that begins is about.
Closing(r, id) ==
  /\ r.callback = id /\ r.waits = "-" /\ r.timer = TRUE /\ r.late = FALSE
  /\ r.links["sender"] = links["sender"] /\ r.links["receiver"] = links["receiver"]
  /\ r.links["cbs"] = NoLink

-----------------------------------------------------------------------------
(* A rundown goes on.                                                      *)

\* The turn of a rundown goes on.
TurnsOn ==
  /\ HeadDo(agenda') \in Following \cup LeadingSteps \cup {"-"}
  /\ agenda' # <<>> => Tail(agenda') \in Seq(Do(Following))
  /\ agenda' \in Seq(OfNewest)
  /\ thrown' => agenda' = <<>>
  /\ Leading(agenda') =>
       /\ Load(agenda') = 1
       /\ (connectionCallback' = None /\ sessionCallback' = None) \/ Closings(agenda') = 0

\* The callbacks, the links and the network while a rundown goes on.
HoldsOn ==
  /\ connectionCallback' \in {None, -Newest} /\ sessionCallback' \in {None, -Newest}
  /\ links'["sender"] = links["sender"] /\ links'["receiver"] = links["receiver"]
  /\ HeadDo(agenda') # "cbs" => links'["cbs"].phase \in {"none", "detaching", "detached"}
  /\ \A c \in Conns :
       /\ net'[c].up = net[c].up
       /\ net'[c].sess = "opening" => net[c].sess = "opening"
       /\ net'[c].conn = "opening" => net[c].conn = "opening"

\* What the newest rundown waits for.
WaitsOn ==
  /\ Newest > 0
  /\ \A v \in DOMAIN rundowns' :
       /\ v # Newest => rundowns'[v] = rundowns[v]
       /\ rundowns'[v].callback >= 0
       /\ v = Newest /\ rundowns'[v].waits = "links" =>
            rundowns'[v].timer \/ Leading(agenda') \/ thrown'
       /\ v = Newest /\ rundowns'[v].waits # "-" /\ rundowns'[v].timer /\ ~thrown' =>
            connectionCallback' = None /\ sessionCallback' = None /\ Load(agenda') = 0
  /\ (HeadDo(agenda') = "cbs" \/ LinkSteps(agenda') > 0) /\ ~disconnectionOccurred' =>
       /\ rundowns'[Newest].timer /\ rundowns'[Newest].waits = "-"
       /\ connectionCallback' = None /\ sessionCallback' = None

\* The owner of a callback goes on: nobody, a rundown with a step, or a call
\* that is answered.
Continues(owner, step, err, rest) ==
  IF owner = None THEN agenda' = rest /\ UNCHANGED requests
  ELSE IF owner < None
  THEN agenda' = <<Item(step, -owner, err)>> \o rest /\ UNCHANGED requests
  ELSE agenda' = rest /\ Answer(owner, ErrOr(err, "disconnected"))

\* What a machine that runs down does when the session, the connection or the
\* socket ends.
Ended(x, rest, owner, step, err) ==
  /\ \/ owner = sessionCallback /\ x.do = "session_close"
     \/ owner = connectionCallback /\ x.do = "connection_close"
     \/ owner = 0
  /\ step \in {"connection", "finish"} /\ err \in BOOLEAN /\ Continues(owner, step, err, rest)
  /\ sessionCallback' \in {sessionCallback, 0}
  /\ owner = sessionCallback /\ x.do = "session_close" => sessionCallback' = 0
  /\ disconnectionOccurred' \in {disconnectionOccurred, TRUE}
  /\ sessionCloseOccurred' \in BOOLEAN /\ connectionCloseOccurred' \in BOOLEAN
  /\ UNCHANGED <<state, deferred, rhea, heard, links, rundowns, net, connectionCallback>>

-----------------------------------------------------------------------------
(* The end of a rundown.                                                   *)

\* A rundown that is closed is not heard of any more, but may still take a step.
IdlesOn ==
  /\ HeadDo(agenda') \in Following \cup {"-"}
       \cup (IF state = "disconnected" THEN {"connection", "finish"} ELSE {})
  /\ agenda' # <<>> => Tail(agenda') \in Seq(Do(Following))
  /\ LinkSteps(agenda') = 0
  /\ connectionCallback' = connectionCallback \/ (state = "disconnected" /\ connectionCallback' <= 0)
  /\ sessionCallback' <= 0
  /\ \A v \in DOMAIN rundowns' :
       rundowns'[v].callback >= 0 /\ ~rundowns'[v].timer /\ rundowns'[v].waits # "links"
  /\ state = "connecting" => net'[conn] = net[conn]
  /\ \A c \in Conns : net'[c].up = net[c].up /\ (net'[c].sess = "opening" => net[c].sess = "opening")

\* The record of a rundown is replaced.
Replaces(v, r) == rundowns' = [rundowns EXCEPT ![v] = r]

\* What that makes of the rundowns.
Replaced(v, r) ==
  /\ rundowns' \in Seq(Rundowns(Newest)) /\ Newest' = Newest
  /\ DOMAIN rundowns = 1..Newest /\ DOMAIN rundowns' = DOMAIN rundowns
  /\ rundowns[v] \in Rundowns(Newest)
  /\ rundowns'[v] = r /\ \A w \in DOMAIN rundowns : w # v => rundowns'[w] = rundowns[w]
  /\ \A i \in Nat \ {0} :
       InRundowns(i)' + One(rundowns[v].links["sender"].op = i)
                      + One(rundowns[v].links["receiver"].op = i)
         = InRundowns(i) + One(r.links["sender"].op = i) + One(r.links["receiver"].op = i)

\* What is left of a turn after a step of a rundown: the rest, or one step more.
GoesStep(do, v, err, rest) == agenda' = rest \/ agenda' = <<Item(do, v, err)>> \o rest

\* What the rundown of the session or of the connection keeps.
Stepping(x, rest, do) ==
  /\ GoesStep(do, x.id, FALSE, rest) /\ do \in {"connection", "finish"}
  /\ connectionCallback' \in {connectionCallback, -x.id}
  /\ sessionCallback' \in {sessionCallback, -x.id}
  /\ \A c \in Conns :
       /\ net'[c].up = net[c].up
       /\ net'[c].sess = "opening" => net[c].sess = "opening"
       /\ net'[c].conn = "opening" => net[c].conn = "opening"
  /\ DOMAIN rundowns' = DOMAIN rundowns
  /\ \A v \in DOMAIN rundowns :
       /\ v # x.id => rundowns'[v] = rundowns[v]
       /\ rundowns'[v].callback = rundowns[v].callback /\ rundowns'[v].timer = rundowns[v].timer
       /\ rundowns'[v].waits = rundowns[v].waits /\ rundowns'[v].links = rundowns[v].links
  /\ UNCHANGED <<state, deferred, rhea, heard, links, occurred, requests>>

\* A rundown keeps the error it meets.
Errs(v, err) == rundowns' = [rundowns EXCEPT ![v].err = @ \/ err]

\* A rundown stops its timer.
Stops(v) == rundowns' = [rundowns EXCEPT ![v].timer = FALSE]

-----------------------------------------------------------------------------
(* The links of a rundown.                                                 *)

\* A callback of a link that is told.
Telling(T, op, told) ==
  /\ T \in Seq(Items(Newest)) /\ T \in Seq(Later(Newest)) /\ T \in Seq(Do(Tellings))
  /\ \A i \in Nat \ {0} : Count(T, Of(i)) = One(told /\ op = i)
  /\ ~told => T = <<>>

\* What tells callbacks, one after the other.
Tells(T) == T \in Seq(Items(Newest)) /\ T \in Seq(Later(Newest)) /\ T \in Seq(Do(Tellings))

\* The steps that a turn goes on with.
Onward(s) ==
  /\ s \in Seq(Items(Newest)) /\ s \in Seq(Later(Newest)) /\ s \in Seq(Do({"links", "session"}))
  /\ Numbers(s)

\* What a turn holds that tells callbacks and then takes steps.
ToldOn(T, s, rest) ==
  /\ GoesOn(T \o s, rest) /\ agenda' \in Turns(Newest') /\ ~Entering'
  /\ HeadDo(agenda') \notin LeadingSteps
  /\ T = <<>> /\ s # <<>> => HeadDo(agenda') = HeadDo(s)
  /\ Connects(agenda') = Connects(rest) /\ Closings(agenda') = Closings(rest)
  /\ LinkSteps(agenda') = LinkSteps(s) + LinkSteps(rest)
  /\ SessionSteps(agenda') = SessionSteps(s) + SessionSteps(rest)
  /\ \A i : Count(T \o s, Of(i)) = Count(T, Of(i))
  /\ rest \in Seq(Do(Following)) => agenda' \in Seq(Do(Following))
  /\ rest \in Seq(OfNewest) /\ s \in Seq(OfNewest) => agenda' \in Seq(OfNewest)

\* One such step of a rundown.
NextStep(s, do, v) == s = <<Item(do, v, FALSE)>>

\* It is a turn of that step.
IsNextStep(s, do, v) ==
  /\ Onward(s) /\ s # <<>> /\ HeadDo(s) = do
  /\ LinkSteps(s) = One(do = "links") /\ SessionSteps(s) = One(do = "session")
  /\ v = Newest => s \in Seq(OfNewest)

\* The agent has nothing to do, or is forced.
CbsDone(v, rest) ==
  LET cbs == links["cbs"] IN
  /\ links' = [links EXCEPT !["cbs"] =
                 [phase |-> IF cbs.phase = "attaching" \/ cbs.phase = "attached"
                            THEN "detached" ELSE cbs.phase, op |-> None]]
  /\ agenda' = (IF cbs.phase = "attaching" THEN <<Item("opened", cbs.op, FALSE)>> ELSE <<>>)
                 \o <<Item("links", v, FALSE)>> \o rest
  /\ UNCHANGED <<rundowns, requests>>
  /\ UNCHANGED <<state, deferred, callbacks, occurred, rhea, heard, net>>

\* The agent is asked to detach: it drops the callback of its attach.
CbsAsked(v, rest) ==
  /\ links["cbs"].phase \notin {"none", "detached"} /\ ~Forced
  /\ links' = [links EXCEPT !["cbs"] = [phase |-> "detaching", op |-> None]]
  /\ WaitsFor(v, "cbs")
  /\ Answer(links["cbs"].op, "dropped")
  /\ agenda' = rest
  /\ UNCHANGED <<state, deferred, callbacks, occurred, rhea, heard, net>>

\* How the links of a rundown go on: T tells their callbacks, s goes on.
LinksOn(x, rest, T, s, q) ==
  /\ agenda' = (T \o s) \o rest
  /\ Tells(T) /\ Onward(s) /\ LinkSteps(s) = 0 /\ (x.id = Newest => s \in Seq(OfNewest))
  /\ q \in Rundowns(Newest) /\ rundowns' = [rundowns EXCEPT ![x.id] = q]
  /\ q.callback = rundowns[x.id].callback /\ q.timer = rundowns[x.id].timer
  /\ q.late = rundowns[x.id].late
  /\ q.waits = "links" => ~disconnectionOccurred
  /\ q.waits \in {"-", rundowns[x.id].waits} \/ (s = <<>> /\ ~disconnectionOccurred)
  /\ sessionCloseOccurred /\ rundowns[x.id].links = [k \in Kinds |-> NoLink] =>
       T = <<>> /\ s # <<>> /\ HeadDo(s) = "session" /\ q.links = [k \in Kinds |-> NoLink]
  /\ UNCHANGED <<state, deferred, callbacks, occurred, rhea, heard, links, net, requests, thrown>>

\* What the callbacks that are told and the links that are kept were before.
LinksKept(r, T, q) ==
  \A i \in Nat \ {0} :
    Count(T, Of(i)) + One(q.links["sender"].op = i) + One(q.links["receiver"].op = i)
      <= One(r.links["sender"].op = i) + One(r.links["receiver"].op = i)

\* What tells the callbacks of the links of a rundown.
LinksTold(ls, phase, do) ==
  LinkTold(ls["sender"], phase, do) \o LinkTold(ls["receiver"], phase, do)

\* A rundown of which the wait and the links change.
Rewaits(r, waits, ls) == [[r EXCEPT !.waits = waits] EXCEPT !.links = ls]
Rewaiting(v, waits, ls) ==
  \/ rundowns' = [rundowns EXCEPT ![v].waits = waits, ![v].links = ls]
  \/ rundowns' = [rundowns EXCEPT ![v].links = ls, ![v].waits = waits]

\* Such a change.
IsRewaited(v, waits, ls, q) ==
  /\ q \in Rundowns(Newest) /\ q.waits = waits /\ q.links = ls
  /\ q.callback = rundowns[v].callback /\ q.timer = rundowns[v].timer
  /\ q.late = rundowns[v].late
  /\ rundowns' = [rundowns EXCEPT ![v] = q]

\* No link.
NoLinks == [k \in Kinds |-> NoLink]

\* The links are forced.
LinksForced(v, rest) ==
  LET r == rundowns[v]
      next == <<Item("session", v, FALSE)>> IN
  /\ Forced
  /\ agenda' = LinksTold(r.links, "attaching", "failed") \o LinksTold(r.links, "detaching", "detached")
                 \o (IF r.waits = "links" THEN next ELSE <<>>) \o next \o rest
  /\ rundowns' = [rundowns EXCEPT ![v].waits = IF @ = "links" THEN "-" ELSE @, ![v].links = NoLinks]
  /\ UNCHANGED <<state, deferred, callbacks, occurred, rhea, heard, links, net, requests, thrown>>

\* The links are asked to detach.
LinksAsked(v, rest) ==
  LET r == rundowns[v]
      next == <<Item("session", v, FALSE)>>
      left == [k \in Kinds |-> IF r.links[k].phase \in {"attached", "detaching"}
                               THEN [r.links[k] EXCEPT !.phase = "detaching"] ELSE NoLink] IN
  /\ ~Forced
  /\ \E early \in BOOLEAN :
       /\ agenda' = LinksTold(r.links, "attaching", "refused") \o (IF early THEN next ELSE <<>>) \o rest
       /\ rundowns' = [rundowns EXCEPT ![v].links = left,
                                       ![v].waits = IF early THEN "-" ELSE "links"]
  /\ UNCHANGED <<state, deferred, callbacks, occurred, rhea, heard, links, net, requests, thrown>>

\* A callback throws.
LinksThrown(v) ==
  /\ Forced /\ \E k \in Kinds : rundowns[v].links[k].phase = "attaching"
  /\ thrown' = TRUE /\ agenda' = <<>>
  /\ UNCHANGED <<state, deferred, callbacks, occurred, rhea, heard, links, net, requests, rundowns>>

-----------------------------------------------------------------------------
(* The owner, the network and the peer.                                    *)

\* A turn that begins with what is heard, if anything.
Hearing(do, id, listening) ==
  /\ agenda' \in Turns(Newest') /\ ~Entering'
  /\ HeadDo(agenda') = IF listening THEN do ELSE "-"
  /\ agenda' # <<>> => Tail(agenda') = <<>>
  /\ Connects(agenda') = One(listening /\ do = "connect")
  /\ LinkSteps(agenda') = 0 /\ SessionSteps(agenda') = 0 /\ agenda' \in Seq(OfNewest)
  /\ \A i \in Nat \ {0} : Count(agenda', Of(i)) = One(listening /\ id = i)

\* What is heard where.
Fits(do) ==
  /\ do = "connection_open" => state = "connecting"
  /\ do = "session_open" => state = "connecting_session"
  /\ do = "amqpError" => state = "connected"

\* The rundowns wait as before, whatever link one of them has lost.
SameWaits ==
  /\ Newest' = Newest /\ DOMAIN rundowns' = DOMAIN rundowns
  /\ \A v \in DOMAIN rundowns :
       /\ rundowns'[v].callback = rundowns[v].callback /\ rundowns'[v].timer = rundowns[v].timer
       /\ rundowns'[v].waits = rundowns[v].waits

\* What an event makes of the callbacks.
Meets ==
  \A i \in Nat \ {0} :
    Count(agenda', Of(i)) + InLinks(i)' + InRundowns(i)' + InClosure(i)' + Told(i)'
        + One(i \in DOMAIN requests)
      <= InLinks(i) + InRundowns(i) + InClosure(i) + Told(i) + One(i \in DOMAIN requests')

\* What is heard hands over a callback of a link at most.
HeardLinks(id, listening) ==
  \A i \in Nat \ {0} : One(listening /\ id = i) + InLinks(i)' <= InLinks(i)

\* The item of a call.
Calls(e, kind, k, id) == e = [Item(kind, id, FALSE) EXCEPT !.to = k]

\* A machine between two turns and the connection it has.
Settled ==
  /\ state # "disconnected" => conn \in Conns /\ heard = {conn}
  /\ state = "disconnected" => heard = {}
  /\ state = "connecting" =>
       net[conn].up /\ net[conn].conn = "opening" /\ net[conn].sess = "none" /\ session < conn
  /\ state = "connecting_session" =>
       net[conn].up /\ net[conn].conn = "open" /\ net[conn].sess = "opening" /\ session = conn
  /\ state = "connected" =>
       net[conn].up /\ net[conn].conn = "open" /\ net[conn].sess = "open" /\ session = conn
  /\ state = "disconnecting" => net[conn].conn # "opening" /\ session = conn
  /\ \A c \in Conns : net[c].up /\ net[c].sess = "opening" => c = conn /\ state = "connecting_session"

\* A link hands over its callback at most.
Hearkens(r, k, id) ==
  /\ r \in LinkRecords /\ links' = [links EXCEPT ![k] = r]
  /\ id \in {None, links[k].op}
  /\ r.op = None \/ (r.op = links[k].op /\ id = None)

\* A step of a rundown is heard of while no other is taken.
Steps1(do, v) ==
  /\ agenda' = <<Item(do, v, FALSE)>>
  /\ UNCHANGED <<repertoire, state, deferred, thrown, callbacks, occurred, rhea, heard, net,
                 requests, events>>

\* The agent that a rundown asked to detach has.
CbsLeft(v) ==
  rundowns' = [rundowns EXCEPT ![v].waits = "-", ![v].late = ~rundowns[v].timer]

\* A link of a rundown is gone.
LinkLeft(v, k, onward) ==
  rundowns' = [rundowns EXCEPT ![v].links[k] = NoLink,
                               ![v].waits = IF onward THEN "-" ELSE @]

\* The turn in which the callback of the link is called, and the rundown goes on
\* when that was the last of its links.
Detaches(op, v, onward) ==
  agenda' = <<Item("detached", op, FALSE)>>
              \o (IF onward THEN <<Item("session", v, FALSE)>> ELSE <<>>)

DetachedTurn(op, v, onward) ==
  /\ agenda' \in Turns(Newest') /\ ~Entering' /\ HeadDo(agenda') = "detached"
  /\ agenda' # <<>> /\ Tail(agenda') \in Seq(Do(Following))
  /\ Connects(agenda') = 0 /\ LinkSteps(agenda') = 0
  /\ \A i \in Nat \ {0} : Count(agenda', Of(i)) = One(op = i)
  /\ v = Newest => agenda' \in Seq(OfNewest)
  /\ ~onward => Hearing("detached", op, TRUE)

\* The step of a turn that does not throw: what the first item asks for.
Runs(x, rest) ==
  CASE x.do = "enter" -> Enter(x.id, x.err, rest)
    [] x.do = "replay" -> Replay(x.to, rest)
    [] x.do = "cbs" -> RundownCbs(x.id, rest)
    [] x.do = "session" -> RundownSession(x.id, rest)
    [] x.do = "connection" -> RundownConnection(x.id, x.err, rest)
    [] x.do = "finish" -> RundownFinish(x.id, x.err, rest)
    [] x.do = "force" -> RundownForced(x.id, rest)
    [] x.do = "opened" -> Opened(x.id, rest)
    [] x.do = "refused" -> AnswerNow(x.id, "err", rest)
    [] x.do = "failed" -> AnswerNow(x.id, "twice", rest)
    [] x.do = "detached" -> AnswerNow(x.id, "ok", rest)
    [] OTHER -> Handle(x, rest)

=============================================================================
