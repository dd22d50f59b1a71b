--------------------------------- MODULE Machina ---------------------------------
(***************************************************************************)
(* The library machina, as the state machines of the packages use it: a    *)
(* machine is a record with its name, its state and the inputs it has put  *)
(* off; a handler is an operator from the machine and an input to the      *)
(* machine after it and to the items it has run at once, in order.  An     *)
(* item is an input of a machine, a callback that is called or lost, a     *)
(* request to what is below, or what process.nextTick puts after the turn. *)
(***************************************************************************)
EXTENDS Integers, SequencesExt

Input(at, do, cb, err) == [at |-> at, do |-> do, cb |-> cb, err |-> err]
Call(cb, err) == <<Input("callback", "call", cb, err)>>
Dropped(cb) == <<Input("callback", "drop", cb, FALSE)>>
Ask(what, cb) == <<Input("ask", what, cb, FALSE)>>

Done(m, now) == [m |-> m, now |-> now]

\* A transition to the state the machine is in does nothing: its callback is lost.
Move(m, to, cb, err) ==
  IF to = m.state THEN Done(m, Dropped(cb))
  ELSE Done([m EXCEPT !.state = to],
            <<Input(m.name, "enter", cb, err)>>
            \o (IF m.deferred = <<>> THEN <<>> ELSE <<Input(m.name, to, cb, FALSE)>>))

\* deferUntilTransition, to a state or to "any".
Defer(m, in, until) ==
  Done([m EXCEPT !.deferred = Append(@, [input |-> in, until |-> until])], <<>>)

\* What waits for the transition to a state, unless _onEnter has left it: all of it,
\* or what does not wait for another state.
Replay(m, to) ==
  LET Due(d) == d.until \in {"any", to}
      all == \A i \in DOMAIN m.deferred : Due(m.deferred[i])
      due == IF all THEN m.deferred ELSE SelectSeq(m.deferred, Due)
  IN IF m.state # to THEN Done(m, <<>>)
     ELSE Done([m EXCEPT !.deferred = IF all THEN <<>> ELSE SelectSeq(@, LAMBDA d : ~Due(d))],
               [i \in DOMAIN due |-> due[i].input])

\* A callback that closes over a call of the user, one more function to call
\* after it, and an error so far.
Closure(fn, id, op) == [fn |-> fn, id |-> id, op |-> op, then |-> "-", err |-> FALSE]
Nobody == Closure("-", 0, "-")
Through(cb, fn) == [cb EXCEPT !.fn = fn, !.then = cb.fn]
Back(cb) == [cb EXCEPT !.fn = cb.then, !.then = "-", !.err = FALSE]
ToUser(cb) == [cb EXCEPT !.fn = "user", !.then = "-", !.err = FALSE]

\* An exception that nothing catches.
Throw == <<Input("throw", "throw", Nobody, TRUE)>>

\* Callbacks that process.nextTick calls with an error, in the order of the calls.
Ticks(cbs) ==
  LET s == SetToSortSeq(cbs, LAMBDA a, b : a.id < b.id)
  IN [i \in DOMAIN s |-> Input("tick", "call", s[i], TRUE)]

=============================================================================
