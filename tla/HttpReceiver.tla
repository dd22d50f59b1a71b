------------------------------- MODULE HttpReceiver -------------------------------
(***************************************************************************)
(* The HTTP transport of a device (device/transport/http/src): messages are *)
(* sent and settled by requests, and received by polling the hub.          *)
(***************************************************************************)
EXTENDS Machina

\* policy: which of the _opts says when to poll.  timer: which of _intervalObj,
\* _timeoutObj and _cronObj is set; spent: the timeout has fired, and stays set.
\* agent: _userAgentString has been made.
\* wanted: history, the last call that the user made of the receiver is not to stop
\* it, or one to start it was under way.
ReceiverStart == [agent |-> FALSE, policy |-> "interval", drain |-> TRUE, timer |-> "none",
                  spent |-> FALSE, started |-> FALSE, wanted |-> FALSE]

Timers == {"interval", "at", "cron"}
Policies == Timers \cup {"manual", "none"}

\* enableC2D, once the agent string is there: not again while a timer is set.
Enabled(m) ==
  IF m.timer # "none" THEN m
  ELSE [m EXCEPT !.timer = IF m.policy \in Timers THEN m.policy ELSE "none",
                 !.spent = FALSE, !.started = @ \/ m.policy # "none"]

\* disableC2D.  A request under way goes on, and so does the draining it began.
Disabled(m) ==
  [m EXCEPT !.timer = "none", !.spent = FALSE,
            !.started = @ /\ m.timer = "none" /\ m.policy # "manual"]

\* Mutant of Reconfigured: the receiver is started again even if it was stopped.
ReconfiguredStarts(m, policy, drain) ==
  IF policy \in Policies THEN Enabled([Disabled(m) EXCEPT !.policy = policy, !.drain = drain])
  ELSE IF m.started THEN Disabled(m) ELSE m

\* _setReceiverOptions: options that contradict each other throw when the receiver
\* has already been stopped.
Reconfigured(m, policy, drain) ==
  LET stopped == IF m.started THEN Disabled(m) ELSE m
      set == [stopped EXCEPT !.policy = policy, !.drain = drain]
  IN IF policy \notin Policies THEN stopped
     ELSE IF m.started THEN Enabled(set) ELSE set

\* _ensureAgentString.
WithAgent(m, cb) ==
  LET next == [cb EXCEPT !.fn = "agent"] IN
  Done(m, IF m.agent THEN Call(next, FALSE) ELSE Ask("agent", next))

Credentials(cb) == Ask("credentials", [cb EXCEPT !.fn = "credentials"])

\* starting: an enableC2D waits for the agent string.  Options that are not for the
\* receiver have setOptions call nobody back.
ReceiverHandle(m, in, starting) ==
  CASE in.do = "enable" -> WithAgent([m EXCEPT !.wanted = TRUE], in.cb)
    [] in.do \in {"receive", "send"} -> WithAgent(m, in.cb)
    [] in.do = "settle" -> Done(m, Credentials(in.cb))
    [] in.do = "disable" -> Done([Disabled(m) EXCEPT !.wanted = starting], Call(in.cb, FALSE))
    [] in.do = "disconnect" ->
         Done([(IF m.started THEN Disabled(m) ELSE m) EXCEPT !.wanted = starting], Call(in.cb, FALSE))
    [] in.do = "otherOptions" -> Done(m, Dropped(in.cb))
    [] OTHER -> Done(Reconfigured(m, in.do, ~in.err), Call(in.cb, in.do = "contradiction"))

\* found: the hub had a message for the request.  With drain the next one is asked
\* for before the message is given to the user.
ReceiverCallback(m, cb, err, found) ==
  IF cb.fn = "agent" /\ cb.op = "enable"
    THEN Done(Enabled([m EXCEPT !.agent = TRUE]), Call(ToUser(cb), FALSE))
  ELSE IF cb.fn = "agent" THEN Done([m EXCEPT !.agent = TRUE], Credentials(cb))
  ELSE IF cb.fn = "credentials" /\ ~err THEN Done(m, Ask("request", [cb EXCEPT !.fn = "answered"]))
  ELSE IF cb.op # "receive" THEN Done(m, Call(ToUser(cb), err))
  ELSE IF cb.fn = "answered" /\ ~err /\ found /\ m.drain THEN Done(m, Ask("request", cb))
  ELSE Done(m, <<>>)

=============================================================================
