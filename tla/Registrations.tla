------------------------------- MODULE Registrations -------------------------------
(***************************************************************************)
(* The registrations of a device (provisioning/device/src): with a TPM, a   *)
(* machine over the security client, the transport and the polling machine; *)
(* with a certificate or a symmetric key, a chain of callbacks.             *)
(***************************************************************************)
EXTENDS Machina

TpmRegistrationStart == [name |-> "machine", state |-> "notStarted", deferred |-> <<>>]

RegistrationEnter(m, cb, err) ==
  LET Asks(what) == Done(m, Ask(what, [cb EXCEPT !.fn = what])) IN
  CASE m.state = "notStarted" -> Done(m, Call(cb, err))
    [] m.state = "authenticating" -> Asks("ek")
    [] m.state = "responding" -> Asks("respond")
    [] m.state = "inProgress" -> Asks("poll")
    [] m.state = "storing" -> Asks("store")
    [] m.state = "completed" -> Asks("hangUp")

\* The inputs that a registration gives itself, and what each asks for.
Stages == [getStorageRootKey |-> "srk", getTpmChallenge |-> "challenge",
           activateSessionKey |-> "activate", createRegistrationSas |-> "sign"]

\* What is not expected is ignored: a registration that was cancelled while the
\* security client was busy, and a second one after the first is completed.
RegistrationHandle(m, in) ==
  CASE m.state = "notStarted" ->
         (CASE in.do = "register" -> Move(m, "authenticating", in.cb, FALSE)
            [] in.do = "cancel" -> Done(m, Call(in.cb, FALSE))
            [] OTHER -> Done(m, Dropped(in.cb)))
    [] m.state = "completed" ->
         Done(m, IF in.do = "cancel" THEN Call(in.cb, TRUE) ELSE Dropped(in.cb))
    [] m.state = "storing" /\ in.do = "cancel" -> Move(m, "notStarted", in.cb, FALSE)
    [] in.do = "cancel" -> Done(m, Ask("cancel", [in.cb EXCEPT !.fn = "cancelled"]))
    [] m.state = "authenticating" /\ in.do \in DOMAIN Stages ->
         Done(m, Ask(Stages[in.do], [in.cb EXCEPT !.fn = Stages[in.do]]))
    [] OTHER -> Defer(m, in, "any")

\* What follows an answer: a stage, or a transition from whatever the state is.
NextStage == [regId |-> "getStorageRootKey", srk |-> "getTpmChallenge",
              challenge |-> "activateSessionKey", activate |-> "createRegistrationSas"]
NextState == [sign |-> "responding", respond |-> "inProgress", poll |-> "storing",
              store |-> "completed"]

\* Mutant of RegistrationCallback: the secret is not stored when the TPM is asked
\* to, and nobody is told.
RegistrationCallbackLoses(m, cb, err) ==
  CASE cb.fn = "store" /\ err -> Done(m, <<>>)
    [] cb.fn = "hangUp" -> Done(m, Call(ToUser(cb), FALSE))
    [] cb.fn = "cancelled" \/ err -> Move(m, "notStarted", ToUser(cb), err)
    [] cb.fn = "ek" -> Done(m, Ask("regId", [cb EXCEPT !.fn = "regId"]))
    [] cb.fn \in DOMAIN NextStage -> Done(m, <<Input("machine", NextStage[cb.fn], ToUser(cb), FALSE)>>)
    [] cb.fn \in DOMAIN NextState -> Move(m, NextState[cb.fn], ToUser(cb), FALSE)

RegistrationCallback(m, cb, err) ==
  CASE cb.fn = "hangUp" -> Done(m, Call(ToUser(cb), FALSE))
    [] cb.fn = "cancelled" \/ err -> Move(m, "notStarted", ToUser(cb), err)
    [] cb.fn = "ek" -> Done(m, Ask("regId", [cb EXCEPT !.fn = "regId"]))
    [] cb.fn \in DOMAIN NextStage -> Done(m, <<Input("machine", NextStage[cb.fn], ToUser(cb), FALSE)>>)
    [] cb.fn \in DOMAIN NextState -> Move(m, NextState[cb.fn], ToUser(cb), FALSE)

-----------------------------------------------------------------------------
(* X509Registration and SymmetricKeyRegistration have no state of their own: *)
(* cancel goes to the transport.                                           *)

PlainStart == [name |-> "machine", state |-> "-", deferred |-> <<>>]

PlainRegistration(m, in) ==
  Done(m, CASE in.do = "cancel" -> Ask("cancel", [in.cb EXCEPT !.fn = "plainCancelled"])
            [] in.do = "registerX509" -> Ask("certificate", [in.cb EXCEPT !.fn = "credentials"])
            [] in.do = "registerKey" -> Ask("regId", [in.cb EXCEPT !.fn = "registrationId"]))

\* The polling machine is disconnected whatever has come of the registration.
PlainCallback(m, cb, err) ==
  Done(m, CASE cb.fn = "polled" -> Ask("hangUp", [cb EXCEPT !.fn = "plainClosed", !.err = err])
            [] cb.fn = "plainClosed" -> Call(ToUser(cb), cb.err)
            [] cb.fn = "plainCancelled" \/ err -> Call(ToUser(cb), err)
            [] cb.fn = "registrationId" -> Ask("createSas", [cb EXCEPT !.fn = "credentials"])
            [] cb.fn = "credentials" -> Ask("poll", [cb EXCEPT !.fn = "polled"]))

=============================================================================
