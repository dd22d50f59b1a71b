----------------------------------- MODULE Cbs ----------------------------------
(***************************************************************************)
(* The claims based security agent                                         *)
(* (common/transport/amqp/src/amqp_cbs.ts): it puts tokens over a sender   *)
(* and hears of them over a receiver, both of them on $cbs.                *)
(*                                                                         *)
(* agenda is the rest of the turn, first things first.  The owner may call *)
(* again from inside one of its callbacks.                                 *)
(***************************************************************************)
EXTENDS ReceiverLink, FiniteSets

CONSTANTS
  MaxCalls,     \* bound: calls of the owner
  MaxEvents     \* bound: refusals, ends of links and losses of the connection

ASSUME CbsAssumption == MaxCalls \in Nat \ {0} /\ MaxEvents \in Nat

VARIABLES
  state, deferred,   \* the machine of the agent
  each,              \* the async.each of the last entry of detaching
  links,             \* _senderLink and _receiverLink
  unsent, pending,   \* the sender's messages, by the number of their call
  notYetSent, outstanding, timer,  \* _putTokensNotYetSent and _putToken; the timer it
                         \* knows is armed, and so are strays it knows no more
  listening,         \* there is a listener of the receiver's messages
  agenda, thrown,    \* what is left of the turn; a handler threw
  examining, expired, \* _removeExpiredPutTokens runs; its expiredPutTokens
  inside,            \* the owner is inside one of its callbacks
  up, asked,         \* the connection is up; tokens the service has to answer
  calls, granted, left,  \* history: the calls; tokens the service accepted; tokens
                         \* outstanding when the agent detached
  events             \* how many events there were

vars == <<state, deferred, each, links, unsent, pending, notYetSent, outstanding,
          timer, listening, agenda, thrown, examining, expired, inside, up, asked, calls,
          granted, left, events>>

fsm == <<state, deferred>>
sends == <<unsent, pending>>
tokens == <<notYetSent, outstanding, timer>>
peer == <<up, asked, granted>>

Ids == 1..MaxCalls
\* doubled is history: the examination of the tokens found a timer armed.
NoTimer == [known |-> FALSE, strays |-> 0, doubled |-> FALSE]
Agent(do, id, err) == Input("cbs", do, Callback("owner", id), err)

TypeOK ==
  /\ state \in {"detached", "attaching", "attached", "detaching"}
  /\ \A k \in DOMAIN links :
       links[k].state \in {"detached", "attaching", "attached", "detaching"}
  /\ unsent \in Seq(Ids) /\ pending \subseteq Ids
  /\ notYetSent \in Seq(Ids) /\ outstanding \in Seq(Ids)
  /\ expired \in Seq(Ids)
  /\ each.left \in 0..2 /\ timer \in [known : BOOLEAN, strays : Nat, doubled : BOOLEAN]
  /\ Len(calls) <= MaxCalls /\ events <= MaxEvents

Init ==
  /\ state = "detached" /\ deferred = <<>>
  /\ each = [gen |-> 0, left |-> 0, id |-> 0, err |-> FALSE]
  /\ links = [k \in {"sender", "receiver"} |-> NewLink(k)]
  /\ unsent = <<>> /\ pending = {}
  /\ notYetSent = <<>> /\ outstanding = <<>> /\ timer = NoTimer
  /\ listening = FALSE /\ agenda = <<>> /\ thrown = FALSE
  /\ examining = FALSE /\ expired = <<>> /\ inside = FALSE
  /\ up = TRUE /\ asked = {}
  /\ calls = <<>> /\ granted = {} /\ left = {} /\ events = 0

-----------------------------------------------------------------------------
(* Answers and transitions.                                                *)

\* The callbacks of the calls ids.
AnswerAll(ids, err) ==
  calls' = [i \in DOMAIN calls |-> IF i \in ids
              THEN [calls[i] EXCEPT !.answer = IF err THEN "err" ELSE "ok",
                                    !.answered = @ + 1]
              ELSE calls[i]]
\* A callback that nobody holds any more.
Drop(id) == calls' = [i \in DOMAIN calls |->
                        IF i = id THEN [calls[i] EXCEPT !.answer = "dropped"] ELSE calls[i]]

\* A transition to the state the machine is in drops its callback.
Transition(to, id, err, rest) ==
  IF to = state THEN UNCHANGED state /\ agenda' = rest /\ Drop(id)
  ELSE state' = to /\ agenda' = <<Agent("enter", id, err)>> \o rest /\ UNCHANGED calls

\* A step of a turn that leaves all but the machine, the agenda and the calls.
OnlyMachine == UNCHANGED <<deferred, each, links, sends, tokens, listening, thrown, peer, left>>

Ignore(rest) == agenda' = rest /\ UNCHANGED <<state, calls>> /\ OnlyMachine

\* setTimeout and clearTimeout of _putToken.timeoutTimer.
Armed == [timer EXCEPT !.known = TRUE, !.strays = @ + IF timer.known THEN 1 ELSE 0]
Cleared == [timer EXCEPT !.known = FALSE]

-----------------------------------------------------------------------------
(* _onEnter of the four states.                                            *)

\* The tokens that are outstanding stay so, without a timer.
EnterDetached(id, err, rest) ==
  /\ timer' = Cleared
  /\ left' = left \cup ToSet(outstanding)
  /\ agenda' = <<Agent("failQueued", id, err)>> \o rest
  /\ UNCHANGED <<state, deferred, each, links, sends, notYetSent, outstanding, listening,
                 thrown, peer, calls>>

\* Mutant of FailQueued: the tokens never sent are kept.
FailQueuedNone(id, err, rest) ==
  /\ AnswerAll({id}, err)
  /\ agenda' = <<Agent("replay", 0, FALSE)>> \o rest
  /\ UNCHANGED state /\ OnlyMachine

\* One by one the tokens never sent are told of the error, if any, and then
\* the callback.
FailQueued(id, err, rest) ==
  IF notYetSent = <<>>
  THEN /\ AnswerAll({id}, err)
       /\ agenda' = <<Agent("replay", 0, FALSE)>> \o rest
       /\ UNCHANGED state /\ OnlyMachine
  ELSE /\ AnswerAll({Head(notYetSent)}, err)
       /\ notYetSent' = Tail(notYetSent)
       /\ agenda' = <<Agent("failQueued", id, err)>> \o rest
       /\ UNCHANGED <<state, deferred, each, links, sends, outstanding, timer, listening,
                      thrown, peer, left>>

\* What waits for detached, unless a callback has made the agent leave it.
Replay(rest) ==
  IF state # "detached" THEN Ignore(rest)
  ELSE /\ agenda' = deferred \o rest /\ deferred' = <<>>
       /\ UNCHANGED <<state, each, links, sends, tokens, listening, thrown, peer, left, calls>>

EnterAttaching(id, rest) ==
  /\ agenda' = <<Input("sender", "attach", Callback("sender", id), FALSE)>> \o rest
  /\ UNCHANGED <<state, calls>> /\ OnlyMachine

EnterAttached(id, rest) ==
  /\ AnswerAll({id}, FALSE)
  /\ agenda' = <<Agent("putQueued", 0, FALSE)>> \o rest
  /\ UNCHANGED state /\ OnlyMachine

\* One by one the tokens not yet sent are put.
PutQueued(rest) ==
  IF notYetSent = <<>> THEN Ignore(rest)
  ELSE /\ notYetSent' = Tail(notYetSent)
       /\ agenda' = <<Agent("putToken", Head(notYetSent), FALSE),
                      Agent("putQueued", 0, FALSE)>> \o rest
       /\ UNCHANGED <<state, deferred, each, links, sends, outstanding, timer, listening,
                      thrown, peer, left, calls>>

\* async.each over the two links.
EnterDetaching(id, err, rest) ==
  LET cb == Callback("each", each.gen + 1) IN
  /\ each' = [gen |-> each.gen + 1, left |-> 2, id |-> id, err |-> err]
  /\ agenda' = <<Input("sender", "detach", cb, err), Input("receiver", "detach", cb, err)>> \o rest
  /\ UNCHANGED <<state, deferred, links, sends, tokens, listening, thrown, peer, left, calls>>

Enter(id, err, rest) ==
  CASE state = "detached" -> EnterDetached(id, err, rest)
    [] state = "attaching" -> EnterAttaching(id, rest)
    [] state = "attached" -> EnterAttached(id, rest)
    [] state = "detaching" -> EnterDetaching(id, err, rest)

-----------------------------------------------------------------------------
(* The callbacks given to the links.                                        *)

SenderAttached(id, err, rest) ==
  /\ IF err THEN Transition("detaching", id, TRUE, rest)
     ELSE /\ agenda' = <<Input("receiver", "attach", Callback("receiver", id), FALSE)>> \o rest
          /\ UNCHANGED <<state, calls>>
  /\ OnlyMachine

\* A listener of 'message' has the receiver attach, if it is not attached.
ReceiverAttached(id, err, rest) ==
  IF err THEN Transition("detaching", id, TRUE, rest) /\ OnlyMachine
  ELSE /\ listening' = TRUE
       /\ agenda' = <<Input("receiver", "attach", NoCallback, FALSE),
                      Agent("toAttached", id, FALSE)>> \o rest
       /\ UNCHANGED <<state, calls, deferred, each, links, sends, tokens, thrown, peer, left>>

\* async.each ends with the first error.
Each(gen, err, rest) ==
  IF gen # each.gen \/ each.left = 0 THEN Ignore(rest)
  ELSE /\ each' = [each EXCEPT !.left = IF err THEN 0 ELSE @ - 1]
       /\ IF err \/ each.left = 1 THEN Transition("detached", each.id, each.err, rest)
          ELSE agenda' = rest /\ UNCHANGED <<state, calls>>
       /\ UNCHANGED <<deferred, links, sends, tokens, listening, thrown, peer, left>>

CallbackCalled(cb, err, rest) ==
  CASE cb.fn = "sender" -> SenderAttached(cb.id, err, rest)
    [] cb.fn = "receiver" -> ReceiverAttached(cb.id, err, rest)
    [] cb.fn = "each" -> Each(cb.id, err, rest)
    [] OTHER -> Ignore(rest)

-----------------------------------------------------------------------------
(* The tokens.                                                             *)

\* Mutant of PutToken: the timer is left to a token that is there.
PutTokenUntimed(id, rest) ==
  /\ outstanding' = Append(outstanding, id)
  /\ timer' = IF outstanding # <<>> THEN Armed ELSE timer
  /\ unsent' = Append(unsent, id)
  /\ agenda' = <<Input("sender", "send", NoCallback, FALSE)>> \o rest
  /\ calls' = [calls EXCEPT ![id].put = TRUE]
  /\ UNCHANGED <<state, deferred, each, links, pending, notYetSent, listening, thrown,
                 peer, left>>

\* putToken of attached: the first outstanding token has the timer started.
PutToken(id, rest) ==
  /\ outstanding' = Append(outstanding, id)
  /\ timer' = IF outstanding = <<>> THEN Armed ELSE timer
  /\ unsent' = Append(unsent, id)
  /\ agenda' = <<Input("sender", "send", NoCallback, FALSE)>> \o rest
  /\ calls' = [calls EXCEPT ![id].put = TRUE]
  /\ UNCHANGED <<state, deferred, each, links, pending, notYetSent, listening, thrown,
                 peer, left>>

Without(s, id) == IF id \in ToSet(s) THEN RemoveAt(s, CHOOSE p \in DOMAIN s : s[p] = id) ELSE s

\* Mutant of Answered: a token that is answered stays outstanding.
AnsweredKeeps(id, err, rest) ==
  /\ AnswerAll({id} \cap ToSet(outstanding), err)
  /\ agenda' = rest
  /\ UNCHANGED state /\ OnlyMachine

\* The listener of the receiver's messages, and the callback of a send: a
\* token that is outstanding is so no more, and the last one stops the timer.
Answered(id, err, rest) ==
  /\ outstanding' = Without(outstanding, id)
  /\ timer' = IF outstanding # <<>> /\ outstanding' = <<>> THEN Cleared ELSE timer
  /\ AnswerAll({id} \cap ToSet(outstanding), err)
  /\ agenda' = rest
  /\ UNCHANGED <<state, deferred, each, links, sends, notYetSent, listening, thrown,
                 peer, left>>

\* detached._onEnter of the sender: all its messages are answered with an
\* error, one by one, those that callbacks put while it does so included.
FailSends(item, rest) ==
  LET keys == SetToSeq(pending) IN
  /\ unsent' = IF unsent = <<>> THEN <<>> ELSE Tail(unsent)
  /\ agenda' = (IF unsent = <<>> THEN [i \in DOMAIN keys |-> Agent("failKey", keys[i], TRUE)]
                ELSE <<Agent("answered", Head(unsent), TRUE), item>>) \o rest
  /\ UNCHANGED <<state, deferred, each, links, pending, tokens, listening, thrown, peer,
                 left, calls>>

\* A key is failed unless a callback has had the sender detach again: then its
\* operation is undefined, and to call its callback throws.
FailKey(id, rest) ==
  /\ pending' = pending \ {id}
  /\ thrown' = (id \notin pending)
  /\ agenda' = IF id \in pending THEN <<Agent("answered", id, TRUE)>> \o rest ELSE <<>>
  /\ UNCHANGED <<state, deferred, each, links, unsent, tokens, listening, peer, left, calls>>

\* What an attached sender has to send; a detached one attaches first.
Send(rest) ==
  LET sender == links["sender"] IN
  CASE sender.state = "attached" ->
         /\ unsent' = <<>> /\ pending' = pending \cup ToSet(unsent)
         /\ asked' = IF up /\ ~sender.closed THEN asked \cup ToSet(unsent) ELSE asked
         /\ agenda' = rest
         /\ UNCHANGED <<state, deferred, each, links, tokens, listening, thrown, up,
                        granted, left, calls>>
    [] sender.state = "detached" /\ unsent # <<>> ->
         /\ agenda' = <<Input("sender", "attach", Callback("auto", 0), FALSE)>> \o rest
         /\ UNCHANGED <<state, calls>> /\ OnlyMachine
    [] sender.state = "detaching" ->
         /\ links' = [links EXCEPT !["sender"].deferred =
                        Append(@, Input("sender", "send", NoCallback, FALSE))]
         /\ agenda' = rest
         /\ UNCHANGED <<state, deferred, each, sends, tokens, listening, thrown, peer,
                        left, calls>>
    [] OTHER -> Ignore(rest)

-----------------------------------------------------------------------------
(* The handlers of the agent.                                              *)

Queue(id, rest) ==
  /\ notYetSent' = Append(notYetSent, id)
  /\ IF state = "detached"
     THEN state' = "attaching" /\ agenda' = <<Agent("enter", 0, FALSE)>> \o rest
     ELSE UNCHANGED state /\ agenda' = rest
  /\ UNCHANGED <<deferred, each, links, sends, outstanding, timer, listening, thrown,
                 peer, left, calls>>

AnswerNow(id, rest) ==
  AnswerAll({id}, FALSE) /\ agenda' = rest /\ UNCHANGED state /\ OnlyMachine

\* The links are told first, and their callbacks may say they are attached.
ForceDetach(order, rest) ==
  /\ agenda' = [i \in 1..2 |-> Input(order[i], "forceDetach", NoCallback, FALSE)]
                 \o <<Agent("toDetached", 0, FALSE)>> \o rest
  /\ UNCHANGED <<state, calls>> /\ OnlyMachine

HandleDetached(input, rest) ==
  CASE input.do = "attach" -> Transition("attaching", input.cb.id, FALSE, rest) /\ OnlyMachine
    [] input.do = "detach" -> AnswerNow(input.cb.id, rest)
    [] input.do = "putToken" -> Queue(input.cb.id, rest)
    [] OTHER -> Ignore(rest)

HandleAttaching(input, rest) ==
  CASE input.do = "detach" ->
         Transition("detaching", input.cb.id, input.err, rest) /\ OnlyMachine
    [] input.do = "forceDetach" -> ForceDetach(<<"sender", "receiver">>, rest)
    [] input.do = "putToken" -> Queue(input.cb.id, rest)
    \* Nothing handles attach.
    [] OTHER -> Drop(input.cb.id) /\ agenda' = rest /\ UNCHANGED state /\ OnlyMachine

HandleAttached(input, rest) ==
  CASE input.do = "attach" -> AnswerNow(input.cb.id, rest)
    [] input.do = "detach" ->
         Transition("detaching", input.cb.id, input.err, rest) /\ OnlyMachine
    [] input.do = "forceDetach" -> ForceDetach(<<"receiver", "sender">>, rest)
    [] input.do = "putToken" -> PutToken(input.cb.id, rest)

HandleDetaching(input, rest) ==
  /\ deferred' = Append(deferred, input)
  /\ agenda' = rest
  /\ UNCHANGED <<state, each, links, sends, tokens, listening, thrown, peer, left, calls>>

Handle(input, rest) ==
  CASE state = "detached" -> HandleDetached(input, rest)
    [] state = "attaching" -> HandleAttaching(input, rest)
    [] state = "attached" -> HandleAttached(input, rest)
    [] state = "detaching" -> HandleDetaching(input, rest)

RunAgent(item, rest) ==
  CASE item.do = "enter" -> Enter(item.cb.id, item.err, rest)
    [] item.do = "toAttached" -> Transition("attached", item.cb.id, FALSE, rest) /\ OnlyMachine
    [] item.do = "toDetached" -> Transition("detached", item.cb.id, FALSE, rest) /\ OnlyMachine
    [] item.do = "failQueued" -> FailQueued(item.cb.id, item.err, rest)
    [] item.do = "replay" -> Replay(rest)
    [] item.do = "putQueued" -> PutQueued(rest)
    [] item.do = "failKey" -> FailKey(item.cb.id, rest)
    [] item.do = "answered" -> Answered(item.cb.id, item.err, rest)
    [] OTHER -> Handle(item, rest)

\* A sender that is attached goes on to send.
RunLink(k, item, rest) ==
  LET done == LinkStep(links[k], item)
      sending == k = "sender" /\ item.do = "open" /\ links[k].state = "attaching"
  IN /\ links' = [links EXCEPT ![k] = done.link]
     /\ thrown' = done.throws
     /\ agenda' = IF done.throws THEN <<>>
                  ELSE done.now
                       \o (IF sending THEN <<Input(k, "send", NoCallback, FALSE)>> ELSE <<>>)
                       \o rest \o done.next
     /\ UNCHANGED <<state, deferred, each, sends, tokens, listening, peer, left, calls>>

\* Nobody listens to 'error' of the links: to emit it throws.
EmitError ==
  /\ thrown' = TRUE /\ agenda' = <<>>
  /\ UNCHANGED <<state, deferred, each, links, sends, tokens, listening, peer, left, calls>>

\* A callback of the owner is called that may call again: that of a detach is
\* part of the rundown of the connection, which does not.
Called ==
  \E i \in DOMAIN calls :
    calls'[i].answered # calls[i].answered /\ calls[i].kind # "detach"

Run ==
  /\ agenda # <<>>
  /\ LET item == Head(agenda) rest == Tail(agenda) IN
     IF item.at = "cbs" THEN RunAgent(item, rest)
     ELSE IF item.at = "callback" THEN CallbackCalled(item.cb, item.err, rest)
     ELSE CASE item.do = "failSends" ->
                 IF item.at = "sender" THEN FailSends(item, rest) ELSE Ignore(rest)
            [] item.do = "emitError" -> EmitError
            [] item.do = "send" -> Send(rest)
            [] OTHER -> RunLink(item.at, item, rest)
  /\ inside' = (Called /\ (agenda' # <<>> \/ examining))
  /\ UNCHANGED <<examining, expired, events>>

\* The end of _removeExpiredPutTokens: the timer is started for the tokens that
\* are left, or were put by the callbacks of those that expired.
Rearm ==
  /\ timer' = IF outstanding = <<>> THEN timer
              ELSE [Armed EXCEPT !.doubled = @ \/ timer.known]
  /\ examining' = FALSE /\ UNCHANGED <<expired, calls>>

\* _removeExpiredPutTokens calls the callbacks of the tokens that expired.
Examine ==
  /\ examining /\ agenda = <<>> /\ ~thrown
  /\ IF expired = <<>> THEN Rearm
     ELSE /\ AnswerAll({Head(expired)}, TRUE)
          /\ expired' = Tail(expired) /\ UNCHANGED <<timer, examining>>
  /\ inside' = Called
  /\ UNCHANGED <<state, deferred, each, links, sends, notYetSent, outstanding, listening,
                 agenda, thrown, peer, left, events>>

-----------------------------------------------------------------------------
(* The owner, the clock, the service.                                      *)

Quiet == agenda = <<>> /\ ~thrown /\ ~examining

\* The public methods.  forceDetach takes no callback.  Inside a callback the
\* owner puts a token, or detaches.
OwnerCalls ==
  /\ Quiet \/ inside
  /\ Len(calls) < MaxCalls
  /\ \E kind \in {"attach", "detach", "forceDetach", "putToken"}, err \in BOOLEAN :
       /\ err => kind = "detach"
       /\ inside => kind \in {"detach", "putToken"}
       /\ calls' = Append(calls, [kind |-> kind, answer |-> "none", put |-> FALSE,
                                  answered |-> IF kind = "forceDetach" THEN 1 ELSE 0])
       /\ agenda' = <<Agent(kind, Len(calls) + 1, err)>> \o agenda
  /\ inside' = FALSE
  /\ UNCHANGED <<state, examining, expired, events>> /\ OnlyMachine

\* _removeExpiredPutTokens, called 10 seconds after a timer was armed: the n
\* oldest tokens have been outstanding for 120 seconds.
TimerFires(n) ==
  /\ Quiet
  /\ \/ timer.known /\ timer' = Cleared
     \/ timer.strays > 0 /\ timer' = [timer EXCEPT !.strays = @ - 1]
  /\ outstanding' = SubSeq(outstanding, n + 1, Len(outstanding))
  /\ expired' = SubSeq(outstanding, 1, n) /\ examining' = TRUE /\ inside' = FALSE
  /\ UNCHANGED <<state, deferred, each, links, sends, notYetSent, listening, agenda, thrown,
                 peer, left, events, calls>>

Event(solicited) ==
  /\ Quiet /\ up /\ inside' = FALSE /\ UNCHANGED <<examining, expired>>
  /\ IF solicited THEN UNCHANGED events
     ELSE events < MaxEvents /\ events' = events + 1

Hears(items) ==
  /\ agenda' = items
  /\ UNCHANGED <<state, deferred, each, sends, tokens, listening, thrown, up, left, calls>>

PeerOpens(k) ==
  /\ Event(TRUE) /\ links[k].state = "attaching"
  /\ Hears(<<Input(k, "open", NoCallback, FALSE)>>)
  /\ UNCHANGED <<links, asked, granted>>

\* The peer ends a link it was asked to end, refuses one, or ends one.
PeerCloses(k, err) ==
  /\ Event(links[k].state = "detaching" /\ ~err)
  /\ links[k].state # "detached" /\ ~links[k].closed
  /\ k = "sender" /\ links[k].state = "attached" => err
  /\ Hears(<<Input(k, "close", NoCallback, err)>>)
  /\ UNCHANGED <<links, asked, granted>>

\* The disposition of a message.
PeerSettles(i, err) ==
  /\ Event(~err) /\ i \in pending /\ links["sender"].state \in {"attached", "detaching"}
  /\ ~links["sender"].closed
  /\ pending' = pending \ {i}
  /\ asked' = IF err THEN asked \ {i} ELSE asked
  /\ agenda' = IF err THEN <<Agent("answered", i, TRUE)>> ELSE <<>>
  /\ UNCHANGED <<state, deferred, each, links, unsent, tokens, listening, thrown, up,
                 granted, left, calls>>

\* A response is accepted, whatever it is about.
Response(i, err) ==
  /\ asked' = asked \ {i}
  /\ granted' = IF err THEN granted ELSE granted \cup {i}
  /\ links' = [links EXCEPT !["receiver"] = Received(@, i)]
  /\ Hears(<<[Input("receiver", "accept", NoCallback, FALSE) EXCEPT !.about = i],
             Agent("answered", i, err)>>)

ServiceAnswers(i, err) ==
  /\ Event(TRUE) /\ i \in asked /\ listening
  /\ links["receiver"].state \in {"attached", "detaching"} /\ ~links["receiver"].closed
  /\ Response(i, err)

ConnectionLost ==
  /\ Event(FALSE)
  /\ up' = FALSE
  /\ UNCHANGED <<state, deferred, each, links, sends, tokens, listening, agenda, thrown,
                 asked, granted, left, calls>>

PeerAnswers == \E k \in DOMAIN links :
  PeerOpens(k) \/ (links[k].state = "detaching" /\ PeerCloses(k, FALSE))

Trouble ==
  \/ \E k \in DOMAIN links, err \in BOOLEAN : PeerCloses(k, err)
  \/ \E i \in Ids, err \in BOOLEAN : PeerSettles(i, err) \/ ServiceAnswers(i, err)
  \/ ConnectionLost

Next ==
  \/ Run \/ Examine \/ OwnerCalls \/ PeerAnswers \/ Trouble
  \/ \E n \in 0..Len(outstanding) : TimerFires(n)

Spec == Init /\ [][Next]_vars

\* A turn ends; a timer that fires again and again comes to fire when the tokens
\* are 120 seconds old; the peer answers an attach and a detach while there is a
\* connection.
Fairness == WF_vars(Run \/ Examine) /\ WF_vars(PeerAnswers)
              /\ SF_vars(TimerFires(Len(outstanding)))

FairSpec == Spec /\ Fairness

-----------------------------------------------------------------------------
(* Properties.                                                             *)

\* The agent has detached with a token outstanding: the timer is not started
\* for the tokens that join it later.
Leftover == left # {}

\* Safety: between two turns the agent knows of a timer while a token is
\* outstanding, whichever way tokens were answered and whatever the owner put
\* from inside their callbacks, but for an agent that detached with tokens
\* outstanding.  It runs only then, and alone, as long as no callback of a token
\* that expired put another: the end of the examination starts a second timer
\* beside the one that token has.  And each token is in one place.
TimerWatchesTokens ==
  /\ TypeOK
  /\ Quiet /\ ~Leftover => (outstanding # <<>> => timer.known)
  /\ ~timer.doubled => timer.strays = 0 /\ (timer.known => outstanding # <<>>)
  /\ IsInjective(notYetSent \o outstanding)
  /\ ToSet(unsent) \cap pending = {}

\* Safety: no callback is called twice, with a response, an error of the send,
\* a detach and the timer racing.  A token is taken for accepted only if the
\* service said so, or if it was never sent and the agent detached without an
\* error.
TokenAnsweredRightly ==
  \A i \in DOMAIN calls :
    /\ calls[i].answered <= 1
    /\ calls[i].kind = "putToken" /\ calls[i].answer = "ok" =>
         i \in granted \/ ~calls[i].put

Unanswered(i) == i \in DOMAIN calls /\ calls[i].answered = 0 /\ calls[i].answer # "dropped"

\* Liveness: every call is answered, with the help of the timer where the
\* service does not answer; but for what the loss of the connection leaves
\* behind, and an agent that has detached with tokens outstanding.
EveryCallAnswered ==
  \A i \in Ids :
    Unanswered(i) ~> ~Unanswered(i) \/ thrown \/ Leftover
                     \/ (~up /\ (i \in ToSet(outstanding) => state # "attached"))

=============================================================================
