----------------------------- MODULE DeviceClient -----------------------------
(***************************************************************************)
(* The client objects of the SDK: InternalClient with its two subclasses,  *)
(* Client of a device and ModuleClient of a module, the Twin, and the      *)
(* response of a direct method (device/core/src).                          *)
(*                                                                         *)
(* Every operation runs in a RetryOperation over the transport.  The       *)
(* transport is what the interface DeviceTransport promises: it connects   *)
(* on demand, carries out what it is handed in order and answers it, and   *)
(* emits 'disconnect' when a connection is lost, which ends every feature  *)
(* enabled on it and fails the calls under way; some of those it never     *)
(* answers (mqtt.ts drops the callbacks of a subscription whose connection *)
(* closed, and the twin requests sent on it).                              *)
(***************************************************************************)
EXTENDS Integers, FiniteSets, Sequences, Bags, BagsExt

CONSTANTS
  Clients,      \* the kinds of client, a subset of {"device", "module"}
  Sessions,     \* bound: the sets of methods that are called together
  MaxCalls,     \* bound: calls of the user
  MaxLosses,    \* bound: connections lost
  MaxEvents,    \* bound: calls and connections lost together
  MaxTries,     \* bound: attempts of an operation within its maximum timeout
  MaxPatches    \* bound: changes of the desired property by the service

ASSUME DeviceClientAssumption ==
  /\ Clients \subseteq {"device", "module"}
  /\ MaxCalls \in Nat /\ MaxLosses \in Nat /\ MaxPatches \in Nat
  /\ MaxEvents \in Nat
  /\ MaxTries \in Nat \ {0}

VARIABLES
  client,       \* device or module
  methods,      \* the methods that are called, one of Sessions
  made,         \* how far the factory of the client is
  held,         \* a getTwin has given the user the Twin
  registered,   \* the features with a listener of the user
  listening,    \* the client's listeners of 'disconnect' are on the transport
  policy,       \* _retryPolicy
  wire,         \* operations handed to the transport, in order
  delayed,      \* those that read a file, were failed or have a timer, a bag
  up, enabled,  \* the transport is connected; the features enabled on it
  down,         \* what the hub has sent about the twin on this connection
  hub, cached,  \* the twin of the hub and the one of the Twin object
  response,     \* the DeviceMethodResponse of a direct method
  fresh,        \* history: cached holds a document the hub read while it was
                \* telling of changes on this connection ("yes"); or it is
                \* merged with what is older than the document ("mixed"),
                \* received for a get made before it or on the connection
                \* closed before it, or misses an update that the hub carried
                \* out though its answer to it was an error
  told,         \* history: features the user was told about since they were
                \* last asked for: an error or a disconnect was emitted
  calls, losses, patches

user == <<client, methods, made, held, registered, listening, policy>>
transportState == <<up, enabled>>
twin == <<hub, cached, fresh>>
bounds == <<calls, losses, patches>>
clientVars == <<user, wire, delayed, transportState, down, twin, response, told, bounds>>

\* c2d and inputs are the one feature that differs between the two clients.
Features ==
  {"methods", "twin", IF client = "device" THEN "c2d" ELSE "inputs"}
Absent == 0
Twins == [desired : 0..2, reported : 0..1]
NoFeature == "none"
NoOperation == [call |-> "none", feature |-> NoFeature, policy |-> "none", tries |-> 1]

\* The methods that share state: the twin, the features, and the options and
\* the policy of whatever is under way.
TwinMethods == {"getTwin", "desired", "update", "onDeviceMethod"}
FeatureMethods == {"message", "removeListener", "onDeviceMethod", "close"}
MessageMethods == {"open", "sendEvent", "complete", "close", "message"}
PolicyMethods == {"setOptions", "setRetryPolicy", "onDeviceMethod", "send"}
StatelessMethods == {"updateSharedAccessSignature", "sendOutputEvent", "close"}
AllSessions ==
  {TwinMethods, FeatureMethods, MessageMethods, PolicyMethods, StatelessMethods}
TransportCalls ==
  {"connect", "send", "enable", "disable", "disconnect", "getTwin", "update",
   "respond", "setOptions", "updateSharedAccessSignature"}
Operations ==
  [call : TransportCalls, feature : Features \cup {NoFeature},
   policy : {"backoff", "none"}, tries : 1..MaxTries]

\* Type invariant: the features enabled are those of a connection, and no
\* operation makes more attempts than fit its maximum timeout.
ClientTypeOK ==
  /\ client \in Clients /\ methods \in Sessions /\ policy \in {"backoff", "none"}
  /\ made \in {"no", "trust", "file", "options", "failed", "ready"}
  /\ registered \subseteq Features /\ told \subseteq Features
  /\ held \in BOOLEAN /\ listening \in BOOLEAN /\ up \in BOOLEAN /\ fresh \in {"no", "yes", "mixed"}
  /\ wire \in Seq(Operations)
  /\ \A w \in DOMAIN delayed : w.op \in Operations /\ w.step \in {"file", "failed", "timer"}
  /\ enabled \subseteq Features /\ (enabled # {} => up)
  /\ hub \in Twins /\ cached \in Twins
  /\ \A i \in DOMAIN down : down[i].type \in {"get", "ack", "patch"}
  /\ response \in {"none", "open", "complete"}
  /\ calls \in 0..MaxCalls /\ losses \in 0..MaxLosses /\ patches \in 0..MaxPatches

\* No operation is under way and the hub has nothing more to say.
Quiet == wire = <<>> /\ delayed = EmptyBag /\ down = <<>>

ClientInit ==
  /\ client \in Clients /\ methods \in Sessions
  /\ made = IF client = "device" THEN "ready" ELSE "no"
  /\ held = FALSE /\ registered = {} /\ listening = TRUE /\ policy = "backoff"
  /\ wire = <<>> /\ delayed = EmptyBag
  /\ up = FALSE /\ enabled = {} /\ down = <<>>
  /\ hub = [desired |-> 1, reported |-> Absent]
  /\ cached = [desired |-> Absent, reported |-> Absent]
  /\ response = "none" /\ fresh = "no" /\ told = {}
  /\ calls = 0 /\ losses = 0 /\ patches = 0

-----------------------------------------------------------------------------
(* RetryOperation.                                                         *)

Operation(call, feature) ==
  [call |-> call, feature |-> feature, policy |-> policy, tries |-> 1]

\* retry() makes the first attempt at once.
retry(op) == wire' = Append(wire, op) /\ UNCHANGED delayed

retriable(how, withPolicy) == how = "transient" /\ withPolicy = "backoff"

\* The calls that are made without a RetryOperation.
Once == {"disable", "disconnect", "respond"}

\* Mutant of Ends: a feature that could not be enabled is not told.
EndsSilently(op, how) ==
  /\ UNCHANGED told
  /\ made' = IF op.call = "setOptions" /\ made = "options"
             THEN IF how = "ok" THEN "ready" ELSE "failed"
             ELSE made

\* The final callback is called.
Ends(op, how) ==
  /\ told' = IF how # "ok" /\ op.call \in {"enable", "disable"}
             THEN told \cup {op.feature} ELSE told
  /\ made' = IF op.call = "setOptions" /\ made = "options"
             THEN IF how = "ok" THEN "ready" ELSE "failed"
             ELSE made

\* An attempt failed: the operation waits for the next one, which the end of
\* the maximum timeout may forbid, or ends.  others is what else waits.
Answered(op, how, others) ==
  \/ /\ op.call \notin Once /\ op.tries < MaxTries /\ retriable(how, op.policy)
     /\ delayed' = BagAdd(others, [step |-> "timer", op |-> op])
     /\ UNCHANGED <<told, made>>
  \/ delayed' = others /\ Ends(op, how)

-----------------------------------------------------------------------------
(* Calls of the user.                                                      *)

Called(method) ==
  /\ method \in methods /\ made = "ready"
  /\ calls < MaxCalls /\ calls + losses < MaxEvents
  /\ calls' = calls + 1
  /\ UNCHANGED <<client, methods, made, held, transportState, down, hub, losses, patches>>

\* An operation that has no state of its own in the client.
Simple(method, call) ==
  /\ Called(method)
  /\ retry(Operation(call, NoFeature))
  /\ UNCHANGED <<registered, listening, policy, cached, fresh, response, told>>

open == Simple("open", "connect")
updateSharedAccessSignature ==
  Simple("updateSharedAccessSignature", "updateSharedAccessSignature")
\* sendEvent and sendEventBatch.
sendEvent == Simple("sendEvent", "send")
sendOutputEvent == client = "module" /\ Simple("sendOutputEvent", "send")
\* complete, reject and abandon.
settle == Simple("complete", "send")

\* A certificate among the options is read from its file before the operation
\* starts.
setOptions ==
  /\ Called("setOptions")
  /\ LET op == Operation("setOptions", NoFeature) IN
     \/ retry(op)
     \/ delayed' = BagAdd(delayed, [step |-> "file", op |-> op]) /\ UNCHANGED wire
  /\ UNCHANGED <<registered, listening, policy, cached, fresh, response, told>>

setRetryPolicy ==
  /\ Called("setRetryPolicy")
  /\ policy' = IF policy = "none" THEN "backoff" ELSE "none"
  /\ UNCHANGED <<registered, listening, wire, delayed, cached, fresh,
                 response, told>>

Enable(method, feature) ==
  /\ Called(method)
  /\ registered' = registered \cup {feature}
  /\ told' = told \ {feature}
  /\ retry(Operation("enable", feature))
  /\ UNCHANGED <<listening, policy, cached, fresh, response>>

\* onDeviceMethod and onMethod.
onDeviceMethod == Enable("onDeviceMethod", "methods")
\* The listener of 'newListener' in the two constructors.
NewC2dListener == client = "device" /\ Enable("message", "c2d")
NewInputListener == client = "module" /\ Enable("message", "inputs")
\* _handleNewListener of the Twin.
NewDesiredListener == held /\ Enable("desired", "twin")

\* A listener of any event was removed: without one of messages left, the
\* client disables them, whether it had enabled them or not.
Disable(feature) ==
  /\ Called("removeListener")
  /\ registered' = registered \ {feature}
  /\ told' = told \ {feature}
  /\ retry(Operation("disable", feature))
  /\ UNCHANGED <<listening, policy, cached, fresh, response>>
C2dListenerRemoved == client = "device" /\ Disable("c2d")
InputListenerRemoved == client = "module" /\ Disable("inputs")

\* close removes the listeners of 'disconnect' before it disconnects.
close ==
  /\ Called("close")
  /\ listening' = FALSE
  /\ retry(Operation("disconnect", NoFeature))
  /\ UNCHANGED <<registered, policy, cached, fresh, response, told>>

\* Mutant of _clearCachedProperties: the cache keeps what it holds.
KeepCachedProperties == cached' = cached /\ fresh' = "no"

_clearCachedProperties ==
  /\ cached' = [desired |-> Absent, reported |-> Absent]
  /\ fresh' = "no"

getTwin ==
  /\ Called("getTwin")
  /\ _clearCachedProperties
  /\ retry(Operation("getTwin", NoFeature))
  /\ UNCHANGED <<registered, listening, policy, response, told>>

_updateReportedProperties ==
  /\ Called("update") /\ held
  /\ retry(Operation("update", NoFeature))
  /\ UNCHANGED <<registered, listening, policy, cached, fresh, response, told>>

\* The user answers a direct method after its callback has returned.
send ==
  /\ Called("send") /\ response = "open"
  /\ response' = "complete"
  /\ retry(Operation("respond", NoFeature))
  /\ UNCHANGED <<registered, listening, policy, cached, fresh, told>>

User ==
  \/ open \/ updateSharedAccessSignature \/ sendEvent \/ sendOutputEvent
  \/ settle \/ setOptions \/ setRetryPolicy \/ close
  \/ onDeviceMethod \/ NewC2dListener \/ NewInputListener
  \/ NewDesiredListener \/ C2dListenerRemoved \/ InputListenerRemoved
  \/ getTwin \/ _updateReportedProperties \/ send

-----------------------------------------------------------------------------
(* ModuleClient.fromEnvironment.                                           *)

\* With a connection string in the environment the client is made at once or
\* after the file of the certificate was read, else the edge is asked for it.
fromEnvironment ==
  /\ made = "no"
  /\ made' \in {"trust", "file", "ready", "failed"}
  /\ UNCHANGED <<client, methods, held, registered, listening, policy, wire, delayed,
                 transportState, down, twin, response, told, bounds>>

\* setOptions of the transport is not waited for.
_fromEnvironmentEdge ==
  /\ made = "trust" /\ made' \in {"ready", "failed"}
  /\ UNCHANGED <<client, methods, held, registered, listening, policy, wire, delayed,
                 transportState, down, twin, response, told, bounds>>

_fromEnvironmentNormal ==
  /\ made = "file"
  /\ \/ made' = "failed" /\ UNCHANGED <<wire, delayed>>
     \/ made' = "options" /\ retry(Operation("setOptions", NoFeature))
  /\ UNCHANGED <<client, methods, held, registered, listening, policy, transportState, down, twin,
                 response, told, bounds>>

-----------------------------------------------------------------------------
(* The transport and the hub.                                              *)

\* The calls that the transport answers when the hub has: it sends a document
\* or an acknowledgement.
Requests == {"getTwin", "update"}

Connects(call) == call \notin 
  {"disable", "disconnect", "respond", "setOptions", "updateSharedAccessSignature"}

\* The messages that answer an operation.
Answers == {i \in DOMAIN down : down[i].type # "patch"}

\* The operations at these places of wire and down fail.
AllFail(handed, sent) ==
  LET failing == {wire[i] : i \in handed} \cup {down[i].op : i \in sent}
  IN delayed (+) [w \in [step : {"failed"}, op : failing] |->
                    Cardinality({i \in handed : wire[i] = w.op})
                    + Cardinality({i \in sent : down[i].op = w.op})]

\* The transport carries out the first call it was handed.
Executes ==
  /\ wire # <<>>
  /\ LET op == Head(wire) c == op.call f == op.feature IN
     /\ wire' = Tail(wire)
     /\ up' = CASE Connects(c) -> TRUE [] c = "disconnect" -> FALSE [] OTHER -> up
     /\ enabled' = CASE c = "enable" -> enabled \cup {f}
                     [] c = "disable" -> enabled \ {f}
                     [] c = "disconnect" -> {}
                     [] OTHER -> enabled
     /\ hub' = IF c = "update" THEN [hub EXCEPT !.reported = 1] ELSE hub
     /\ CASE c \in Requests ->
               /\ down' = Append(down,
                    [type |-> IF c = "update" THEN "ack" ELSE "get", op |-> op,
                     doc |-> hub, telling |-> "twin" \in enabled])
               /\ UNCHANGED <<delayed, told, made, fresh>>
          [] c = "disconnect" ->
               \* What the hub still had to say is lost; the requests it had
               \* not answered fail or are forgotten.
               /\ delayed' \in {delayed, AllFail({}, Answers)}
               /\ down' = <<>> /\ fresh' = "mixed"
               /\ Ends(op, "ok")
          [] OTHER -> Ends(op, "ok") /\ UNCHANGED <<delayed, down, fresh>>
  /\ UNCHANGED <<client, methods, held, registered, listening, policy, cached,
                 response, bounds>>

\* It fails without a connection lost: the connection could not be made, or
\* the service refused.
Refuses ==
  /\ wire # <<>>
  /\ \E how \in {"transient", "fatal"} : Answered(Head(wire), how, delayed)
  /\ wire' = Tail(wire)
  /\ UNCHANGED <<client, methods, held, registered, listening, policy, transportState,
                 down, twin, response, bounds>>

\* The calls whose callback may be forgotten when their connection is lost.
Forgettable == Requests \cup {"enable", "disable"}

\* Mutant of Handlers: the twin is left to its user.
HandlersWithoutTwin(how) ==
  IF listening /\ retriable(how, policy)
  THEN registered \ {"twin"} ELSE {}

\* What the listeners of 'disconnect' enable again: _disconnectHandler of
\* InternalClient the methods and the twin, _deviceDisconnectHandler the
\* messages, _moduleDisconnectHandler the inputs.
Handlers(how) ==
  IF listening /\ retriable(how, policy) THEN registered ELSE {}

\* The order in which they do.
Again(feature, how) ==
  IF feature \in Handlers(how) THEN <<Operation("enable", feature)>> ELSE <<>>
_disconnectHandler(how) == Again("methods", how) \o Again("twin", how)
_deviceDisconnectHandler(how) ==
  IF client = "device" THEN Again("c2d", how) ELSE <<>>
_moduleDisconnectHandler(how) ==
  IF client = "module" THEN Again("inputs", how) ELSE <<>>

\* A connection is lost.  The operations under way fail, or are forgotten, and
\* the listeners of 'disconnect' start new ones.
Loses(how, forgets) ==
  LET Fail(op) == ~(forgets /\ op.call \in Forgettable)
  IN /\ up /\ losses < MaxLosses /\ calls + losses < MaxEvents
     /\ losses' = losses + 1
     /\ up' = FALSE /\ enabled' = {} /\ down' = <<>> /\ fresh' = "no"
     /\ delayed' = AllFail({i \in DOMAIN wire : Fail(wire[i])},
                           {i \in Answers : Fail(down[i].op)})
     /\ wire' = _disconnectHandler(how) \o _deviceDisconnectHandler(how)
                  \o _moduleDisconnectHandler(how)
     /\ told' = IF listening /\ ~retriable(how, policy)
                THEN told \cup registered ELSE told
     /\ UNCHANGED <<user, hub, cached, response, calls, patches>>

ConnectionLost ==
  \E how \in {"transient", "fatal"}, forgets \in BOOLEAN : Loses(how, forgets)

AttemptFails ==
  \E w \in DOMAIN delayed :
    /\ w.step = "failed"
    /\ Answered(w.op, "transient", BagRemove(delayed, w))
    /\ UNCHANGED <<client, methods, held, registered, listening, policy, wire,
                   transportState, down, twin, response, bounds>>

FileRead ==
  \E w \in DOMAIN delayed :
    /\ w.step = "file"
    /\ delayed' = BagRemove(delayed, w)
    /\ wire' = Append(wire, Operation(w.op.call, w.op.feature))
    /\ UNCHANGED <<user, transportState, down, twin, response, told, bounds>>

Attempt(w) ==
  /\ w.step = "timer"
  /\ delayed' = BagRemove(delayed, w)
  /\ wire' = Append(wire, [w.op EXCEPT !.tries = @ + 1])
  /\ IF w.op.call = "getTwin" THEN _clearCachedProperties
     ELSE UNCHANGED <<cached, fresh>>
  /\ UNCHANGED <<user, transportState, down, hub, response, told, bounds>>

\* Mutant of AttemptsAgain: the next attempt waits for somebody else to connect.
RetriesConnected == up /\ \E w \in DOMAIN delayed : Attempt(w)

\* The timer of the next attempt.  Each attempt of a get clears the cache.
AttemptsAgain == \E w \in DOMAIN delayed : Attempt(w)

\* lodash merges what a document has and leaves what it does not mention; a
\* null in a patch removes the property.
_mergePatch(dest, m) ==
  CASE m.type = "patch" -> [dest EXCEPT !.desired = m.doc.desired]
    [] m.type = "ack" -> [dest EXCEPT !.reported = 1]
    [] m.type = "get" ->
         [desired |-> IF m.doc.desired = Absent THEN dest.desired
                      ELSE m.doc.desired,
          reported |-> IF m.doc.reported = Absent THEN dest.reported
                       ELSE m.doc.reported]

\* The twin receives a document, an acknowledgement or a patch.
Merges(m) ==
  /\ cached' = _mergePatch(cached, m)
  /\ held' = (held \/ m.type = "get")
  /\ fresh' = IF m.type # "get" \/ (m.telling /\ fresh # "no") THEN fresh
              ELSE IF m.telling THEN "yes" ELSE "mixed"
  /\ IF m.type = "patch" THEN UNCHANGED <<told, made>> ELSE Ends(m.op, "ok")
  /\ UNCHANGED delayed

\* It receives an error.
Errs(m) ==
  /\ m.type # "patch"
  /\ \E how \in {"transient", "fatal"} : Answered(m.op, how, delayed)
  /\ fresh' = IF m.type = "ack" /\ fresh = "yes" THEN "mixed" ELSE fresh
  /\ UNCHANGED <<cached, held>>

Receives ==
  /\ down # <<>>
  /\ Merges(Head(down)) \/ Errs(Head(down))
  /\ down' = Tail(down)
  /\ UNCHANGED <<client, methods, registered, listening, policy, wire,
                 transportState, hub, response, bounds>>

\* The service changes the desired property, or removes it.
_onDesiredPropertiesUpdate ==
  /\ patches < MaxPatches
  /\ patches' = patches + 1
  /\ \E v \in 0..2 \ {hub.desired} : hub' = [hub EXCEPT !.desired = v]
  /\ down' = IF "twin" \in enabled
             THEN Append(down, [type |-> "patch", op |-> NoOperation, doc |-> hub',
                                telling |-> TRUE])
             ELSE down
  /\ UNCHANGED <<user, wire, delayed, transportState, cached, fresh, response,
                 told, calls, losses>>

\* A direct method is called: the callback of the user answers it, keeps the
\* response for later, or throws, which answers it with an error.
MethodCalled ==
  /\ "methods" \in enabled \cap registered /\ response = "none"
  /\ \/ response' = "open" /\ UNCHANGED <<wire, delayed>>
     \/ response' = "complete" /\ retry(Operation("respond", NoFeature))
  /\ UNCHANGED <<user, transportState, down, twin, told, bounds>>

System ==
  \/ fromEnvironment \/ _fromEnvironmentEdge \/ _fromEnvironmentNormal
  \/ FileRead \/ Executes \/ Refuses \/ AttemptFails \/ AttemptsAgain \/ Receives

ClientNext ==
  \/ User \/ System \/ ConnectionLost \/ _onDesiredPropertiesUpdate
  \/ MethodCalled

ClientSpec == ClientInit /\ [][ClientNext]_clientVars /\ WF_clientVars(System)
-----------------------------------------------------------------------------
(* Properties.                                                             *)

\* When every operation has ended, a feature the user listens to is enabled on
\* the connection there is, however many were lost meanwhile, unless the user
\* was told that it could not be: the disconnect handlers of the clients
\* (internal_client.ts:88, device_client.ts:98, module_client.ts:96).
RegisteredIsEnabled ==
  /\ ClientTypeOK
  /\ (Quiet /\ listening) => registered \ told \subseteq enabled

\* The properties of the Twin are those of the hub once its answer to a get,
\* read while it was telling of changes, and all it sent after have arrived:
\* get clears what an earlier connection left (twin.ts:90, 164, 207), unless it
\* comes before the rest of an older get or of a connection being closed.
CacheIsHub == (fresh = "yes" /\ down = <<>>) => cached = hub

\* Every operation of the client ends, with success or with the error of its
\* last attempt, unless the transport forgot its callback: again and again there
\* is none under way (retry_operation.ts, and its calls in internal_client.ts:135-263).
EveryOpAnswered == []<>Quiet
===============================================================================
