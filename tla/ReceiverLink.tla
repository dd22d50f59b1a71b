------------------------------ MODULE ReceiverLink ------------------------------
(***************************************************************************)
(* The life of a link (common/transport/amqp/src/receiver_link.ts): the    *)
(* machina machine of a receiver as an operator from a link and an input   *)
(* to the link after it and to what the handler has called, in order.      *)
(* The machine of a sender (SenderLink.tla shows it in full) goes through  *)
(* the same states: of the two, only a receiver puts off most callbacks to *)
(* the next turn (process.nextTick).                                       *)
(***************************************************************************)
EXTENDS Integers, SequencesExt

\* A callback given to a link: the function, and what it has closed over.
Callback(fn, id) == [fn |-> fn, id |-> id]
NoCallback == Callback("-", 0)

\* A step of a turn: the input do of the machine at, or the call of a callback.
\* about is a message, until the event a deferred input waits for.
Input(at, do, cb, err) == [at |-> at, do |-> do, cb |-> cb, err |-> err, about |-> 0]
CallOf(cb, err) == IF cb = NoCallback THEN <<>> ELSE <<Input("callback", "call", cb, err)>>

\* A new link of a kind.
NewLink(kind) ==
  [kind |-> kind, state |-> "detached", attaching |-> NoCallback, detaching |-> NoCallback,
   err |-> FALSE,        \* _indicatedError
   closed |-> FALSE,     \* _receiverCloseOccurred, _senderCloseOccurred
   undisposed |-> {},    \* _undisposedDeliveries
   deferred |-> <<>>]

\* What a handler does: the link, what it calls at once and in the next turn,
\* and whether it throws.
Done(link, now, next) == [link |-> link, now |-> now, next |-> next, throws |-> FALSE]

\* _safeCallback.
Told(link, cb, err) ==
  IF link.kind = "receiver" THEN Done(link, <<>>, CallOf(cb, err))
  ELSE Done(link, CallOf(cb, err), <<>>)

\* detached._onEnter with a callback or else an error to emit, and machina's
\* replay of what was deferred until it.
Entered(link, cb, err) ==
  LET l == [link EXCEPT !.state = "detached", !.attaching = NoCallback,
                        !.detaching = NoCallback, !.err = FALSE]
      t == Told(l, cb, err)
  IN Done(l, <<Input(link.kind, "failSends", NoCallback, err)>> \o t.now
             \o (IF cb = NoCallback /\ err
                 THEN <<Input(link.kind, "emitError", NoCallback, TRUE)>> ELSE <<>>)
             \o <<Input(link.kind, "replay", NoCallback, FALSE)>>, t.next)

\* A callback is called before the transition to detached.
CallThenDetached(link, first, cb, err) ==
  Done([link EXCEPT !.attaching = NoCallback, !.detaching = NoCallback, !.err = FALSE],
       first \o <<Input(link.kind, "toDetached", cb, err)>>, <<>>)

\* attaching._onEnter: a rhea link of its own, with listeners.
Attach(link, cb) ==
  Done([link EXCEPT !.state = "attaching", !.attaching = cb, !.err = FALSE,
                    !.closed = FALSE], <<>>, <<>>)

\* detaching._onEnter: a link the peer has closed is detached at once.
Detach(link, cb, err) ==
  IF link.closed THEN Entered(link, cb, err)
  ELSE Done([link EXCEPT !.state = "detaching", !.detaching = cb, !.err = err], <<>>, <<>>)

\* accept, reject and abandon.  The states with a link that is not attached
\* call the callback, given or not.
Dispose(link, in) ==
  CASE link.state = "attached" ->
         LET known == in.about \in link.undisposed IN
         Told([link EXCEPT !.undisposed = @ \ {in.about}], in.cb, ~known)
    [] link.state = "detaching" -> Done([link EXCEPT !.deferred = Append(@, in)], <<>>, <<>>)
    [] OTHER -> [Done(link, CallOf(in.cb, TRUE), <<>>) EXCEPT !.throws = in.cb = NoCallback]

LinkDetached(link, in) ==
  CASE in.do = "attach" -> Attach(link, in.cb)
    [] in.do = "detach" -> Told(link, in.cb, in.err)
    [] in.do = "replay" -> Done([link EXCEPT !.deferred = <<>>], link.deferred, <<>>)
    [] OTHER -> Done(link, <<>>, <<>>)

\* A close without an error tells the callback of the attach nothing of it.  A
\* detach tells both callbacks; a forced one the error it has, if any.
LinkAttaching(link, in) ==
  CASE in.do = "open" ->
         Done([link EXCEPT !.state = "attached", !.attaching = NoCallback],
              CallOf(link.attaching, FALSE), <<>>)
    [] in.do = "close" -> Entered([link EXCEPT !.closed = TRUE], link.attaching, in.err)
    [] in.do = "detach" -> CallThenDetached(link, CallOf(link.attaching, TRUE), in.cb, TRUE)
    [] in.do = "forceDetach" ->
         [CallThenDetached(link, CallOf(link.attaching, in.err), NoCallback, in.err)
            EXCEPT !.throws = link.attaching = NoCallback]
    [] OTHER -> Done(link, <<>>, <<>>)

\* An error is for the owner of the connection to act upon.
LinkAttached(link, in) ==
  CASE in.do = "close" ->
         LET l == [link EXCEPT !.closed = TRUE] IN
         IF in.err \/ link.kind = "sender" THEN Done(l, <<>>, <<>>) ELSE Detach(l, NoCallback, FALSE)
    [] in.do = "attach" -> Told(link, in.cb, FALSE)
    [] in.do = "detach" -> Detach(link, in.cb, in.err)
    [] in.do = "forceDetach" -> Entered(link, NoCallback, in.err)
    [] OTHER -> Done(link, <<>>, <<>>)

LinkDetaching(link, in) ==
  CASE in.do = "close" -> Entered(link, link.detaching, link.err \/ in.err)
    [] in.do = "detach" -> Told(link, in.cb, TRUE)
    [] in.do = "forceDetach" -> CallThenDetached(link, CallOf(link.detaching, TRUE), NoCallback, in.err)
    [] in.do = "replay" -> Done(link, <<>>, <<>>)
    [] OTHER -> Done([link EXCEPT !.deferred = Append(@, in)], <<>>, <<>>)

\* The listener of rhea's message: it is kept until it is disposed of.
Received(link, message) == [link EXCEPT !.undisposed = @ \cup {message}]

LinkStep(link, in) ==
  IF in.do = "accept" THEN Dispose(link, in)
  ELSE IF in.do = "toDetached"
  THEN IF link.state = "detached" THEN Done(link, <<>>, <<>>) ELSE Entered(link, in.cb, in.err)
  ELSE CASE link.state = "detached" -> LinkDetached(link, in)
         [] link.state = "attaching" -> LinkAttaching(link, in)
         [] link.state = "attached" -> LinkAttached(link, in)
         [] link.state = "detaching" -> LinkDetaching(link, in)

=============================================================================
