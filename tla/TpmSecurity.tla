-------------------------------- MODULE TpmSecurity --------------------------------
(***************************************************************************)
(* The security client of a TPM, and the authentication provider that signs *)
(* with it (security/tpm/src).  The TPM answers each command, or refuses it.*)
(***************************************************************************)
EXTENDS Machina

\* pub: _idKeyPub, the public part of the key of the activation with this
\* number, 0: none.  known: _registrationId has been computed.
TpmStart == [name |-> "machine", state |-> "disconnected", deferred |-> <<>>,
             pub |-> 0, known |-> FALSE]

TpmOp(op) == IF op = "regId" THEN "ek" ELSE op
Caller(cb) == Closure(IF cb.op = "regId" THEN "hashed" ELSE "user", cb.id, cb.op)

\* connecting reads the two keys, and creates the one that the TPM does not have.
TpmEnter(m, cb, err) ==
  CASE m.state = "disconnected" -> Done([m EXCEPT !.pub = 0], Call(cb, err))
    [] m.state = "connecting" -> Done(m, Ask("ReadPublic", [cb EXCEPT !.fn = "ReadPublic", !.then = "EK"]))
    [] m.state = "connected" -> Done(m, Call(cb, FALSE))

Creation == <<"ReadPublic", "CreatePrimary", "EvictControl", "FlushContext">>
Activation == <<"GetRandom", "StartAuthSession", "PolicySecret", "ActivateCredential", "Import",
                "Load", "EvictOld", "Persist", "FlushKey", "FlushSession">>
Signing == [sign |-> <<"GetCapability", "HMAC">>,
            signLong |-> <<"GetCapability", "HMAC_Start", "SequenceUpdate", "SequenceComplete">>]

After(steps, step) == steps[1 + CHOOSE i \in DOMAIN steps : steps[i] = step]
AskTpm(m, cb, step) == Done(m, Ask(step, [cb EXCEPT !.fn = step]))

\* The endorsement key, then the storage root key, then the identity.
PrimaryDone(m, cb) ==
  IF cb.then = "EK" THEN Done(m, Ask("ReadPublic", [cb EXCEPT !.fn = "ReadPublic", !.then = "SRK"]))
  ELSE Done(m, Ask("ReadIdentity", [cb EXCEPT !.fn = "ReadIdentity"]))

\* _createPersistentPrimary: only the key that cannot be read is created.
Primary(m, cb, err) ==
  IF err THEN IF cb.fn = "ReadPublic" THEN AskTpm(m, cb, "CreatePrimary")
              ELSE Move(m, "disconnected", Closure("connected", cb.id, cb.op), TRUE)
  ELSE IF cb.fn \in {"ReadPublic", "FlushContext"} THEN PrimaryDone(m, cb)
  ELSE AskTpm(m, cb, After(Creation, cb.fn))

\* A device without an identity is connected too; key is what the TPM has read.
IdentityRead(m, cb, err, key) ==
  Move([m EXCEPT !.pub = IF err THEN 0 ELSE key], "connected",
       Closure("connected", cb.id, cb.op), FALSE)

\* The public part is taken before the TPM has the key.
TpmConnected(m, in) ==
  CASE in.do \in {"ek", "srk"} -> Done(m, Call(in.cb, FALSE))
    [] in.do \in {"sign", "signLong"} ->
         IF m.pub = 0 THEN Move(m, "disconnected", in.cb, TRUE)
         ELSE AskTpm(m, in.cb, "GetCapability")
    [] in.do = "activate" ->
         LET taken == [m EXCEPT !.pub = in.cb.id] IN
         IF in.err THEN Move(taken, "disconnected", in.cb, TRUE)
         ELSE AskTpm(taken, in.cb, "GetRandom")

TpmHandle(m, in) ==
  CASE m.state = "disconnected" ->
         Move(m, "connecting", Closure("connected", in.cb.id, in.cb.op), FALSE)
    [] m.state = "connecting" -> Defer(m, in, "any")
    [] m.state = "connected" -> TpmConnected(m, in)

\* Mutant of Activating: the client stays connected after a failure.
ActivatingStays(m, cb, err) ==
  LET user == ToUser(cb) IN
  IF err /\ cb.fn # "EvictOld" THEN Done(m, Call(user, TRUE))
  ELSE IF cb.fn = "FlushSession" THEN Done(m, Call(user, FALSE))
  ELSE AskTpm(m, cb, After(Activation, cb.fn))

\* _activateIdentityKey.  There may be no old key to evict.
Activating(m, cb, err) ==
  LET user == ToUser(cb) IN
  IF err /\ cb.fn # "EvictOld" THEN Move(m, "disconnected", user, TRUE)
  ELSE IF cb.fn = "FlushSession" THEN Done(m, Call(user, FALSE))
  ELSE AskTpm(m, cb, After(Activation, cb.fn))

\* _signData.  The updates of a sequence are not looked at.
SigningStep(m, cb, err) ==
  IF err /\ cb.fn # "SequenceUpdate" THEN Move(m, "disconnected", ToUser(cb), TRUE)
  ELSE IF cb.fn \in {"HMAC", "SequenceComplete"} THEN Done(m, Call(ToUser(cb), FALSE))
  ELSE AskTpm(m, cb, After(Signing[cb.op], cb.fn))

\* getRegistrationId: the hash of the endorsement key, computed once.
RegistrationId(m, cb) ==
  Done(m, IF m.known THEN Call(ToUser(cb), FALSE)
          ELSE <<Input("machine", "ek", Caller(cb), FALSE)>>)
Hashed(m, cb, err) == Done([m EXCEPT !.known = @ \/ ~err], Call(ToUser(cb), err))

TpmCallback(m, cb, err, key) ==
  CASE cb.fn = "connected" ->
         Done(m, IF err THEN Call(Caller(cb), TRUE)
                 ELSE <<Input("machine", TpmOp(cb.op), Caller(cb), FALSE)>>)
    [] cb.fn = "regId" -> RegistrationId(m, cb)
    [] cb.fn = "hashed" -> Hashed(m, cb, err)
    [] cb.fn = "ReadIdentity" -> IdentityRead(m, cb, err, key)
    [] cb.fn \in Range(Activation) -> Activating(m, cb, err)
    [] cb.fn \in Range(Signing.sign) \cup Range(Signing.signLong) -> SigningStep(m, cb, err)
    [] OTHER -> Primary(m, cb, err)

-----------------------------------------------------------------------------
(* TpmAuthenticationProvider.  timers: its timer, and those it has lost     *)
(* track of.                                                               *)

ProviderStart == [name |-> "machine", state |-> "inactive", deferred |-> <<>>,
                  timer |-> FALSE, others |-> 0]

ProviderEnter(m, cb, err) ==
  CASE m.state = "inactive" ->
         Done([m EXCEPT !.timer = FALSE], IF cb = Nobody THEN <<>> ELSE Call(cb, err))
    [] m.state = "activating" -> Done(m, Ask("sign", Through(cb, "signed")))
    [] m.state = "active" -> Done(m, Call(cb, FALSE))

\* stop is not expected when inactive, even if a signature is under way.
ProviderHandle(m, in) ==
  CASE in.do = "signingFailed" -> Move(m, "inactive", Nobody, FALSE)
    [] m.state = "inactive" ->
         IF in.do = "credentials" THEN Move(m, "activating", [in.cb EXCEPT !.fn = "connected"], FALSE)
         ELSE Done(m, <<>>)
    [] m.state = "activating" -> Defer(m, in, "any")
    [] in.do = "credentials" -> Done(m, Call(in.cb, FALSE))
    [] OTHER -> Move(m, "inactive", Nobody, in.do = "signingError")

Armed(m) == [m EXCEPT !.timer = TRUE, !.others = IF m.timer THEN @ + 1 ELSE @]

\* A refused signature: the callback is called before the transition.
ProviderCallback(m, cb, err) ==
  CASE cb.fn = "connected" -> Done(m, IF err THEN Call(ToUser(cb), TRUE)
                                     ELSE <<Input("machine", cb.op, ToUser(cb), FALSE)>>)
    [] cb.fn = "signed" ->
         IF err THEN Done(m, Call(Back(cb), TRUE) \o <<Input("machine", "signingFailed", Nobody, TRUE)>>)
         ELSE Move(Armed(m), "active", Back(cb), FALSE)
    [] cb.fn = "renewed" ->
         IF err THEN Done(m, <<Input("machine", "signingError", Nobody, TRUE)>>)
         ELSE Done(Armed(m), <<>>)

\* _renewToken: a timer has fired, and the one it knows is cleared.
Renew(m, own) ==
  Done([m EXCEPT !.timer = FALSE, !.others = IF own THEN @ ELSE @ - 1],
       Ask("sign", Closure("renewed", 0, "renew")))

=============================================================================
