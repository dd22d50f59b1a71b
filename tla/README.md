# Formal models of the Azure IoT device SDK for Node.js

This directory holds TLA+ models of the parts of the SDK in which callbacks,
timers, state machines and connections interact, the TLC configurations that
check them, and proofs checked by TLAPS. The inventory below names every part of
the SDK, modelled or not; `PROJECT.json` maps every definition to its source
lines. Paths are relative to the repository.

## 1. The system

The SDK is single-threaded JavaScript: a step is one turn of the event loop, and
concurrency is the order of the turns. Three things make the code hard.

- **Re-entrancy.** A callback of the user, or of the layer above, runs in the
  middle of a method and may call the same object again.
- **machina.** Most layers are machina state machines. An input is handled,
  deferred to the next transition or silently ignored; entering a state runs
  `_onEnter` and then replays what was deferred; a transition to the state the
  machine is in does nothing and drops its arguments.
- **Late events.** mqtt.js, rhea and HTTP answer after a request was cancelled,
  a connection lost or a link closed, and a failed client reports several events.

### Inventory

| Component (source) | State | Operations and events | Talks to | What makes it correct |
|---|---|---|---|---|
| Publishes on the wire (`common/transport/mqtt/src/mqtt_base.ts:24-136`) | messages by identifier, one timer | add, complete, purge, setTimeoutInSeconds, `_timeout` | MqttBase | one answer per message, bounded wait, no early timeout |
| MQTT connection (`mqtt_base.ts`, `external_event_tracker.ts`) | machine state, deferred inputs, mqtt.js client and its listeners | connect, disconnect, publish, subscribe, updateSharedAccessSignature; connect, error, close, end | device and provisioning transports above, mqtt.js below | one answer per call, one connection, losses reported |
| Retry (`common/core/src/retry_*.ts`) | start time, attempt count | retry; success, failure, timer | every client operation | ends with one final callback within the limit |
| AMQP sender link (`common/transport/amqp/src/sender_link.ts`) | machine state, unsent and pending messages, rhea link | attach, detach, forceDetach, send; open, error, close, credit, dispositions | Amqp, Cbs, device AMQP transport above, rhea below | messages answered once, in order, none left behind |
| AMQP receiver link (`receiver_link.ts`) | machine state, link | attach, detach, complete, reject, abandon; message | the same | as above, for settlement by the owner |
| AMQP connection (`amqp.ts`) | machine state, session, attached links | connect, disconnect, attach/detachSenderLink, send, initializeCBS, putToken | device and provisioning AMQP transports | one answer per call, links torn down with the session |
| CBS (`amqp_cbs.ts`) | machine state, queue of token operations with timeouts | attach, detach, putToken; response, timer | Amqp | a token operation answered once, by its own answer |
| Device MQTT transport (`device/transport/mqtt/src/mqtt.ts`) | machine state, topics subscribed | connect, disconnect, sendEvent, enable/disable features, twin and method calls | InternalClient above, MqttBase below | features are enabled only on a live, subscribed connection |
| MQTT twin client (`mqtt_twin_client.ts`) | subscription state per topic, requests by id | getTwin, updateTwinReportedProperties, enable | device MQTT transport | answers go to their requests |
| Device AMQP transport (`device/transport/amqp/src/*.ts`) | machine states of the transport, of the twin and of the method client | as the MQTT one, over links | InternalClient, Amqp | as above; links belong to the connection there is |
| Device HTTP transport (`device/transport/http/src/http.ts`) | receiver options, poll timer, agent string | sendEvent, enable/disableC2D, setOptions, settle; timers | InternalClient, REST | it polls when it was started, and not after it was stopped |
| Device and module client (`device/core/src/internal_client.ts`, `device_client.ts`, `module_client.ts`) | registered listeners, retry policy | open, close, sendEvent, onDeviceMethod, getTwin, setRetryPolicy; disconnect | transport, Twin, RetryOperation | features are re-enabled after a loss |
| Twin (`device/core/src/twin.ts`) | cached desired and reported properties | get, update; patch | transport, RetryOperation | the cache follows the hub |
| Authentication providers (`sak_`, `sas_`, `x509_`, `iotedge_`, `tpm_authentication_provider.ts`) | token, expiry, renewal timer | getDeviceCredentials, stop, timer | transports | tokens are renewed before they expire and not after stop |
| Direct methods (`device/core/src/device_method`) | whether a response was sent | send | device client | a response is sent once |
| Blob upload (`device/core/src/blob_upload`) | none beyond one upload | uploadToBlob | HTTP, storage | the hub is told of what the storage has |
| Provisioning polling (`provisioning/device/src/polling_state_machine.ts`) | machine state, current operation, two timers | register, cancel, disconnect; answers, timers | registration clients above, provisioning transports below | one answer per call, waits end |
| Registration clients (`symmetric_`, `tpm_`, `x509_registration.ts`) | TPM: machine state | register, cancel | PollingStateMachine, security clients | cancel answers the registration |
| Provisioning transports (`provisioning/transport/*`) | machine state, operations by request id | registrationRequest, queryOperationStatus, cancel, disconnect | MqttBase, Amqp, HTTP | as the polling machine expects |
| TPM and keys (`security/*`) | TPM: machine state | activateIdentityKey, signWithIdentity, ... | tpm_registration | one command at a time |
| Provisioning service (`provisioning/service`) | continuation token | REST calls, query | service | a query resumes where it stopped |
| REST client (`common/transport/http/src/rest_api_client.ts`, `http.ts`) | access token | executeApiCall | credentials, service | each request answered once |
| Values of the common package, tests, samples, tools | none | | | conversions |

### Hazards

`PROJECT.json` lists them with their lines. The most important families are:
answers that arrive after the cancellation, timeout or purge of what they answer;
callbacks that re-enter a method in the middle of a loop over its own lists;
two ends of one connection (an error and a close, the end of the old client and
the connection of the new one) reaching the code in either order; calls deferred
in a state that is left by another way than the expected one; one timer shared by
many waits; deadlines compared at a moment other than the one they are about; a
connection taken down in many steps while calls, links and tokens are under way;
handshakes of several requests, each of which may fail or come late; a token of
continuation read and written at the two ends of a request; one step failing after
others have taken effect. Each of them has a property that a run checks.

## 2. Modules

How they compose: the machines below a device or a service are in modules that hold
one component each, and a module above states at its head which module below it
relies on and what of it remains. The layers are

    DeviceClient                      (device/core, over any transport)
      DeviceMqtt    DeviceAmqp    HttpReceiver (in Http)
        MqttBase      AmqpConnection
          OnTheWire     SenderLink   Cbs (ReceiverLink)
    Registrations  PollingStateMachine  RetryOperation  RestCalls (in Http)
    ProvisioningMqtt  ProvisioningAmqp  TpmSecurity     (in Provisioning)

DeviceMqtt, Cbs, DeviceAmqp, Provisioning and Http run several machines of the code
against each other; the other modules describe one. Where a machine is a component
that several instances or modules share, its handlers are operators from the machine
and an input to the machine after it and to what it has run (Machina, ReceiverLink),
and the module that runs it keeps an `agenda`: the rest of the turn. `thrown` records
that a handler threw: the process ends there, and nothing is claimed of it.

A module `X_proofs` EXTENDS the module `X` and holds its theorems; section 5 says what
they establish. Timers_proofs EXTENDS the components that timers and retries drive,
OnTheWire, RetryOperation, PollingStateMachine and DeviceClient, which is why the names of
the latter three are their own (`RetryInit`, `clock`, `PollingSpec`, `queryTimers`,
`ClientSpec`). CountingLemmas is what several of them share: how many elements of a sequence
belong to a set, after it was appended to, concatenated, cut or replaced at one position.
With it the proofs count the places where a callback is kept. AmqpInvariant is between
AmqpConnection and AmqpConnection_proofs: the inductive invariant and the kinds of steps.

### OnTheWire and Timers_proofs

`OnTheWireMessageContainer`, with a clock in milliseconds, because the code compares
whole seconds: the time of publishing rounded down (`Floor`) and the time of the check
rounded to the nearest second (`Round`). `add`, `complete`, `purge`,
`setTimeoutInSeconds` and `timeout` are the methods; `timeout` is the whole body
of `_timeout`: the expired messages are removed and their callbacks called, each
of which may `add` again, before the timer is set anew. `timers` are the timers
of Node.js that will fire, of which the code remembers one. `MaxLate` bounds how
late a timer fires; `Tick` moves on to any later one of the `Instants`, those milliseconds of a
second (`Millis`) at which something happens, but not past the last moment of a timer.
The two properties say exactly what the rounding costs: a message may be failed up to 1499 ms
before its timeout, published in the last millisecond of a second and checked in the middle
of one, and may wait for up to 501 ms less than its timeout, a period and the
lateness of the timer together. A bound one millisecond tighter is violated in either.

### MqttBase and MqttBase_proofs

`state`, `queue` and `agenda` are the machina machine, its deferred inputs and the
inputs it still has to replay in the running event; `clients` are the mqtt.js
clients, one for each attempt, with the listeners the code has on them (`on`).
`Call` is a call by the transport, possible at any time and from inside a
callback (`inCallback`); the `Handle...` operators are the handlers of a state;
`ClientConnects`, `ClientErrors`, `ClientCloses`, `StaleCloses`, `EndDone`,
`DisconnectTimeout`, `PublishAnswered` and `SubscribeAnswered` are the other turns. Messages
on the wire, which OnTheWire describes in detail, are a set here.

A client that failed may report its close after its error, as mqtt.js does when the server
refuses a connection. That of a failed renewal is then `"stale"`: the machine is
disconnected and has forgotten it, but its listeners are in place. `haunted` remembers that
such a close came when the machine was no longer disconnected (section 4).

### RetryOperation, MCRetryOperation and Timers_proofs

One operation retried by `RetryOperation.retry`, with the policy's formula. The
policy's parameters are constants; `randomJitter` is any value that
`Math.random()` can give on the grid of the instance. A timer fires up to
`RetryLateness` late. MCRetryOperation gives the default parameters in scaled units.

### SenderLink and SenderLink_proofs

`state`, `queue` and `agenda` as above, with `agenda` as the call stack: an entry
`owner` is the owner of the link in control inside one of its callbacks, so a
callback may attach, detach or send between two iterations of the loop over failed
messages. `links` are the rhea links created (local side, peer's side, whether the
code listens); `unsent`, `pending` and `transmitted` hold the messages.

### ReceiverLink, Cbs and Cbs_proofs

ReceiverLink has the handlers of `receiver_link.ts` as operators, with a `kind`: the
sender that Cbs runs goes through the same states. Cbs is `amqp_cbs.ts`: its machine
(`state`, `deferred`), `async.each` of the last detaching (`each`), the two links and
the tokens: not yet sent, outstanding and watched by the timer the agent knows. `asked` are
the tokens that the service still has to answer, `granted` those it accepted, `left` (history)
those that the agent left outstanding when it detached.

The callbacks of the owner are called one at a time, and inside one (`inside`) it may put
another token, or detach: so the loops over the tokens never sent (`FailQueued`,
`PutQueued`), over the sender's messages (`FailSends`, `FailKey`) and over the tokens that
expired (`Examine`) are steps of their own, and go on with what the callbacks have left.
`timer` has the timer that is known, the `strays` armed beside it and, as history, that the
end of an examination (`Rearm`) found one armed (`doubled`).

### AmqpConnection, AmqpInvariant and AmqpConnection_proofs

`amqp.ts`: the machine, the rhea connection and session with what the network and the
peer hold of each (`net`), the two callbacks and the three `...Occurred` fields, the
attached links, and one `rundowns` entry for each time disconnecting was entered, with
its own 45 second timer. A link is what SenderLink shows of it. What the machine defers
waits for any transition or for the state disconnected (`deferred`). The calls of the owner
(`requests`) are made from one of the `Repertoires`, sets of methods called together;
`MaxTroubles` bounds the errors and closes that nobody asked for, which come in any state.

### DeviceMqtt

The MQTT transport (`device/transport/mqtt/src/mqtt.ts`), its twin client
(`mqtt_twin_client.ts`) and the authentication provider
(`sak_authentication_provider.ts`, and `iotedge_authentication_provider.ts` where a
signature is a request of its own). Three kinds of state machine call each other in
the middle of their handlers: the transport (`state`, `queue`), MqttBase (`base`,
`baseQueue`, `owed`: the callback of the attempt, renewal or disconnection under
way) and one machine for each twin topic (`topic`, `topicQueue`). `stack` is the call
stack: a frame says which handler or callback runs next, and `Run` runs the one on
top; only with an empty stack may another event come. A frame `client` is the code
above in control inside a callback or a listener, where it may call again.

`Handle...` are the handlers of the states of the transport, `To...` the states
entered, `On...` the callbacks it and the twin client give to MqttBase.
`enable` and `disable` stand for those of C2D messages, methods and input messages,
which differ in the topic alone. `agent` and `preparing` are the wait for the agent
string, `signing` the signatures asked of the edge. MqttBase is an abstraction here:
the five states of `mqtt_base.ts`, its deferrals and the callbacks it owes, without
the mqtt.js clients of the module MqttBase but for those of failed renewals that are still
to close (`stale`, `StaleCloses`). A late close that finds the machine at something else
takes it to disconnected and calls the callback of the renewal a second time, whose owner
then is disconnected too; the turn is followed to its end (`haunted`, `Followed`). The
client that the machine was taken away from may go on, as the module MqttBase has it;
here the behaviour ends. `OtherUser` is somebody else with the provider of the client, as
the upload of blobs is, whose request for credentials arms the renewal timer (`borrowed`).

### Machina and DeviceAmqp

Machina is the library as the code uses it: `Move` is a transition (to the state the
machine is in it does nothing and loses the callback), `Defer` puts an input off,
`Replay` gives back what waits for a transition. DeviceAmqp runs the three machines of
`device/transport/amqp/src`: the transport, AmqpTwinClient and AmqpDeviceMethodClient,
over `amqp` and `asks`: what the connection below, the agent and the provider have still
to answer. The last is answered in any order. A link carries the number of the
connection it was attached on. `ConnectionLost` is the end of a connection by itself, with
an error or without, whose links are detached by force (a disconnection, a session that
closed) or not: by force and with an error, an attach under way is failed twice, as in
AmqpConnection, and what is attached emits the error.

### DeviceClient, with its part of Timers_proofs

`internal_client.ts`, `device_client.ts`, `module_client.ts` and `twin.ts` over a
transport that does what the interface DeviceTransport says: it carries out what it is
handed in order (`wire`), answers it, and emits `disconnect` when the connection is lost
(`ConnectionLost`), which ends the features enabled and fails what is under way; some
callbacks it forgets, as DeviceMqtt and DeviceAmqp do. Every operation is retried, in
`delayed` while its timer runs: RetryOperation says when it stops, here after `MaxTries`.
`hub` is the twin of the service and `down` what it has sent on this connection.
`fresh` (history) says what `cached` is: "yes" from the arrival of a document that the hub
read while it was telling of changes; "mixed" once that cannot be relied on, because a
patch or an acknowledgement was merged into properties of another age, because the transport
carried out a disconnect (which clears nothing), or because the hub took an update that the
client was told had failed. The next get clears the cache, and starts again.

### PollingStateMachine, with its part of Timers_proofs

`current` is the operation whose callback the machine holds, `requests` the
transport requests not answered, `timers` the query timers, `queryTimer` the one the
code remembers. `transport` is chosen at the start: the HTTP transport calls back
from cancel and disconnect at once and still answers what was cancelled
(`provisioning/transport/http/src/http.ts:137`); `mqtt` stands for the MQTT and AMQP
transports, which answer what they cancel in the next tick
(`provisioning/transport/mqtt/src/mqtt.ts:402`) and call back at once or later.

### Operations, Provisioning and Provisioning_proofs

Operations is the abstract specification of what a user of the provisioning
components is promised: after an operation has begun it is told one result at most, and
a bounded number of errors. Provisioning runs one component (`kind`) with its
environment, and implements it by the refinement mapping `Abstract` (from the history
`calls`, which every callback that reaches the user goes through). The kinds are the
transports over MQTT (ProvisioningMqtt) and AMQP with the SASL handshake of the TPM
(ProvisioningAmqp), the one over HTTP, the security client of the TPM with the provider
that signs with it (TpmSecurity), the registration with a TPM and those with a
certificate or a symmetric key (Registrations). `below` is the connection, `asks` what
is to be answered, in any order and by an error too. The connection is the base's machine
as its callers see it: it puts off what it is asked while it connects or disconnects
(`below.deferred`, replayed after the next transition), answers a connect at once when
it is connected, with no challenge (`amqp.ts`), and over MQTT a disconnect overtakes the
connection being opened, whose callback is lost, unless that is already failing
(`mqtt_base.ts`).

### HttpReceiver, RestCalls, Http and Http_proofs

Http runs one component (`kind`) that speaks HTTP: the device transport with its
receiver (HttpReceiver: the options, the timers and what the transport believes of
them), and in RestCalls the provisioning service client with its token and queries, the
upload of a blob in its steps (credentials, storage parameters, upload, notification)
and the methods a module invokes. `asks` is what a component waits for: requests
overlap, are answered in any order and fail.

## 3. Runs

| Run | Instance | What it shows |
|---|---|---|
| wire | 3 messages, timeouts 2-3, check period 2, 6 seconds of which the milliseconds 0, 499, 500 and 999 count, timers up to 500 ms late | answers once, timer armed while needed, wait bounded, never early |
| base | 4 calls of every kind, clients that close after their error, of renewals too, fairness | callbacks called once and not lost and one live client, until a stale client takes the machine; losses reported; every call answered unless a disconnect overtakes a connect |
| retry | default parameters, late timers, fairness | one final callback, within the limit plus one wait, back-off respected |
| sender | 4 calls of every kind, settled or not, callbacks that call again, fairness | messages answered once, in order and in the end; detaches reported |
| cbs | 3 calls, also from inside callbacks, 2 refusals, ends or losses, late answers, the timers | a timer is known while a token waits, and one alone unless an examination starts a second; a token is taken for accepted only if it was; every call answered |
| amqp | 3 calls of 3 repertoires, 2 connections, 2 unsolicited events, the timer at any time | callbacks called once, but for an attach that a forced rundown fails; connected means an open session; every call answered |
| polling | 5 calls, both kinds of transport, fairness | each callback has one owner, waits end, cancel and disconnect are answered |
| devmqtt | 3 calls in 2 sessions, 1 renewal, three kinds of provider | callbacks called once, none lost and no machine left waiting unless a disconnect overtakes something; connected only over a connection, and with its renewal timer |
| devamqp | 3 calls in 5 sessions, 1 loss | callbacks called once, but for the two failures of section 4; the links are those of the connection; every call answered or one of those the code loses |
| client | both clients, 4 calls in 5 sessions, 2 losses, 2 tries | what the user listens to is enabled after losses; the cached twin is the hub's; every operation ends |
| prov | 7 components, 3 calls, 1 loss, 2 timers | the promise of Operations; the TPM client knows the key it signs with; calls answered |
| http | 4 components, 3 calls, 1 poll, 2 messages, 2 pages | the receiver polls when started and not after stop; callers are told what the service has, and are told |

Each temporal property is checked under the fairness of its run. `TypeOK` of a module
that has one is an invariant of its own in `wire` and the first conjunct of another
invariant elsewhere.

**Bounds.** `MaxOps`, `MaxCalls` and `MaxRequests` bound the calls made, in order; every
other event is bounded by them (each call makes at most one client, link or request) or by a
constant of its own, for what comes without a call: `MaxLosses`, `MaxEvents`, `MaxTroubles`,
`MaxRenewals`, `MaxPolls`, `MaxTimers`, `MaxPatches`. Four or five calls are enough for two
complete sessions with an operation in the second that the first may interfere with
(connect, disconnect, connect, publish), which is the longest chain a field of these classes
spans. DeviceMqtt, DeviceAmqp, DeviceClient and the provisioning transports connect on
demand, so three calls give as much: an operation that connects, one that overtakes or ends
the connection, one in the next. DeviceClient has four: a get, a close that overtakes it and
two calls after it are what it takes for an answer to meet a cache of another age. Where
there are many operations, `Sessions` and `Repertoires` are the sets called together: the
operations of a set share fields and callbacks, and those of two sets meet in connect and
disconnect, which the sets that are about them contain (with certificates, "x509", where
tokens would only add renewals). The X.509 provider of DeviceMqtt, which does what the
shared access signature does without its updates, is left out of the run. `MaxDeferred`
bounds the credit deferred while a link detaches: a second one is handled as the first.
`MaxKey` 3 allows a message before, in and after one check; time runs past two checks. Two
pages are the first page and a continuation, two messages one that a poll gets and one that
the draining gets. Deadlock checking is off where every call has been made and answered: the
program is then idle.

`CallbackKinds` of SenderLink leaves out a forced detach from inside a callback: made
in a callback of a detach while the link attaches, it calls the attach callback that
the detach has just cleared (`sender_link.ts:289`) and throws a TypeError. `crashed`
records it; nothing is claimed of the state after it.

**Fairness.** Weak fairness is assumed for what the event loop, mqtt.js, rhea, the TPM
and the timers do, never for the calls of the user, losses or refusals: the rest of a
turn runs, a timer fires, the callback of
`end()` is called, a connection attempt ends one way or another, a request of a
component below is answered or fails. Where several requests are under way, each call's
is answered in the end: strong fairness per call in `prov` and `http`, since the turns of the
others come between and disable it. The peer of an AMQP
link answers while there is a connection and, however often the credit runs out, gives
it again (strong fairness, since a detach may come between); in `amqp` a silent peer is what the
rundown timer ends, in `cbs` the timer is run until the tokens are 120 seconds old. The
answers of the provisioning service
are not assumed to come in `polling`: the timers are what ends those waits.

## 4. Where the code and its documents differ

No run is kept only to show a disagreement. Those found, at their lines:

- A failed reconnection of MqttBase does not end its client and leaves its listeners
  (`mqtt_base.ts:290-293`). Its close after the error is ignored while the machine is
  disconnected; if the next connect has begun, it calls the callback of
  `updateSharedAccessSignature` again (against the test at `_mqtt_base_test.js:227`) and
  takes the machine to disconnected, where the new client can still connect. `haunted`
  records it: `NoCallbackLost`, `OneConnection` and `EveryCallAnswered` hold until then,
  `LossReported` always. After a forced reconnection the new client has no error listener.
- The immediate first retry is never immediate (`retry_operation.ts:59`): the policy
  is given a count of one at the first retry, and waits for none only at zero.
- The late answer of a cancelled registration stops the timer of the next request
  (against `polling_state_machine_requirements.md:32`; `robbed` in `RequestEnds`), and a
  late answer is told from a current one by comparing callbacks
  (`polling_state_machine.ts:68`), so not when the same function is passed twice.
- A disconnect that MqttBase defers, because it is ending a failed attempt or renewing
  a connection, finds the device transport disconnected already: the transition does
  nothing and the callback is dropped (against `mqtt_requirements.md:85`).
- A subscribe that failed is recorded as a subscription (`mqtt.ts:815`, against
  `mqtt_requirements.md:300`): the next enable succeeds without one.
- AMQP: a connect may be called back with "disconnected", or with neither a connection
  nor an error; a second attach of a link while it attaches is ignored and never called
  back (`sender_link.ts:264`).
- The device AMQP transport emits a disconnect when its connection closes in the state
  disconnected, where its requirement SRS_NODE_DEVICE_AMQP_16_080 has it ignored.
- The TPM: the comment at `tpm.ts:535` says that a failure does not matter; it ends
  the activation with an error.

The passing properties state, rather than hide, where the code does less than its
documents say or than its users expect.

**MQTT, retry and links.** A connect overtaken by a disconnect is never called back
(`Overtaken` in `NoCallbackLost` and `EveryCallAnswered` of MqttBase); an attempt may start
up to one interval after the maximum timeout (`StartedBeforeLimit`, against
`retry_operation_requirements.md:36`); the jitter has no lower end, against
`retry_policy_requirements.md:53`, so `BackoffRespected` says only that a retry waits
between `cMin` and the upper end of the documented formula, and it lets the first retry be
immediate where the documents want that, though in the code it never is; a link that the
peer closed without an error stays attached until its owner acts (`EverySendAnswered`,
against `sender_link_requirements.md:82`). In DeviceMqtt `raced` records that a disconnect
was handled while a connection was being made, or while MqttBase was not connected under a
connected transport: then callbacks of the overtaken call, of calls deferred behind it or of
the disconnect are lost, and with an agent string or a signature still to come a connection
may be made, without a timer, that nobody asked for any more. `haunted` is the late close of
the client of a failed renewal: it has the callback of the renewal called twice
(`mqtt.ts:301`; `NoCallbackLost` allows it that), takes down the connection made since,
being made or being ended, and so loses the callbacks of what was under way; what the
connection left behind does next, which is to answer those callbacks late and connect a
transport whose timer was stopped, is not followed. `dropped` records the calls to enable or
disable whose callback ignores a closed connection: the comment at `mqtt.ts:1034` expects a
disconnect event to follow, but during a renewal none does. With the edge a signature that
ends after the disconnection arms the renewal timer again (against
SRS_NODE_DEVICE_MQTT_16_085), as does `stop` during any signature under way
(`sak_authentication_provider.ts:107`), so `ConnectedAbove` claims the timer only for the
key that signs at once. There, too, a blob uploaded while the transport is disconnected arms
the timer until the next disconnection (`borrowed`; `file_upload_api.ts:68` with the
provider of `device_client.ts:331`). A message sent while a connection is made that then
fails is tried again instead of failing (against SRS_NODE_DEVICE_MQTT_16_035). The
subscription state of the twin topics is not reset by a disconnection
(`mqtt_twin_client.ts:62`).

**AMQP connection and agent.** A rundown that forces its links to detach fails the attach of
one with its error twice: the link calls the callback of the attach (`sender_link.ts:289`)
and then emits `error` to the listener that calls it again (`amqp.ts:467`, `:492`). `again`
counts it, and `AnsweredOnce` allows a call that one time more and no other. A rundown that
its timer has ended is brought to its end once more by an agent that answers late
(`LateRundown`). Calls put off until the machine is disconnected are stranded when the
disconnect handler connects at once (`Stranded`). The connect callback is dropped by an
error while the session opens, send and the request for a receiver are dropped when
disconnected, and a forced detach of a link being attached throws without an error. An agent
forced to detach while attaching tells its callback that it is attached; it sends tokens on
a detached sender, and those it leaves outstanding have no timer, nor have later ones
(`Leftover`). When the callback of a token that expired puts another, that one has a timer
started (`amqp_cbs.ts:255`) and the end of the examination starts a second one (`:370`),
which forgets the first: it can no more be cancelled, goes on firing, and may start more
(`doubled` in `TimerWatchesTokens`). A callback that makes the sender detach while its
dictionary is emptied has the loop find an undefined operation and throw
(`sender_link.ts:170`). A token that was never sent, because the links ended without an
error, is told success (`put`).

**Device AMQP.** A link whose attach is answered while the transport disconnects stays
set (`late`), and what is sent on it in the next connection is never answered. Waiting
sends lose their listeners, twin requests on a dead connection have no timeout
(`Lost`). Two failures call the callback of the user twice: a send of the twin that fails
after its response (`amqp_twin_client.ts:367`), and a loss of the connection that fails
the attach of a link with an error twice, as said above, while the methods are enabled
(`amqp_device_method_client.ts:113`, `:119`) or, when another request of the twin waits,
while its links are attached (`amqp_twin_client.ts:170`, `:176`). `again` marks the calls
these failures meet, and `AnsweredOnce` allows those one time more and no other. An
enable of methods while they attach is dropped.
Disconnecting while the twin's links are first attached throws, and so do a loss while
the second of them is, and a session that closes without an error while any link is attached.

**Clients and twin.** A patch that arrives between a get and its answer is merged into
properties of another age, a get asked before a close is answered over a cache that the
close has not cleared, and an update that the hub took and answered with an error is missing
from the cache (`fresh` in `CacheIsHub` is "mixed" then). Closing removes
the disconnect listeners for good (`internal_client.ts:481`): a client opened again
does not enable its features after a loss (`listening` in `RegisteredIsEnabled`). A
retry of an enable after its listener was removed enables the feature again.

**Provisioning.** A publish that fails after the answer, or after cancel, answers the
operation again: three errors at most (`MaxErrors`). What was published or sent on a
connection that ends is unanswered until a later cancel; a handshake that fails before its
challenge is never called back; an error of the base while it disconnects has the process
throw (`mqtt.ts:150`), as a loss does that emits `error` to nobody. Cancel of a registration
with a TPM leaves its callback uncalled, and an answer of the security client after it
revives the registration. Overlapping activations of the TPM mix their keys, and one that
outlives its connection changes the key behind the client (`stale` in `KeyIsKnown`). The
provider arms its timer again when stop came during a renewal.

**HTTP.** The first enableC2D waits for the agent string: a disable in between is followed
by polling (`wanted` in `ReceiverStops`). Options that contradict each other throw after the
receiver was stopped; an "at" timer that has fired stays set, so enabling again does
nothing; a request and its draining go on after disable; setOptions without receiver options
never calls back. A page asked for through a promise is always the first (`query.ts:65`),
where its comment promises the next (`query.ts:48`), so the order of pages is claimed of
queries asked with callbacks alone; overlapping pages use one continuation token (`overlap`
in `ToldWhatIs`). A bulk operation through a promise never settles; credentials that fail in
an upload or an invocation have the process throw.

## 5. Proofs

Every theorem holds for every value of its module's constants: any number of calls, of
losses, of time, and any set of methods called together. The assumptions are the ASSUMEs
of the modules (bounds are naturals, periods and timeouts are positive, sets of methods
are sets of methods); no theorem has a hypothesis of its own.

| Module | Theorem | Property | Inductive invariant |
|---|---|---|---|
| Timers_proofs | TypeCorrect, CallbackOnce, AlwaysChecked, WaitIsBounded, TimeoutsNotEarly | `TypeOK`, `AnsweredOnce`, `TimerArmed`, `BoundedWait`, `NeverEarly` | `Bookkeeping`, `Timing` |
| MqttBase_proofs | CallbacksKept, OneConnectionKept, LossIsReported | `NoCallbackLost`, `OneConnection`, `LossReported` | `Typed`, `Control`, `Accounted` |
| Timers_proofs | AttemptsEnd, BackoffKept | `StartedBeforeLimit`, `BackoffRespected` | `RetryInv` |
| SenderLink_proofs | MessagesAnsweredOnce, MessagesInOrder, DetachesKept | `SendAnsweredOnce`, `SentInOrder`, `DetachNotLost` | `Data`, `Control` |
| Timers_proofs | CallbacksAreOwned | `CallbackOwned` | `Shapes`, `BusyWithOne`, `Accounts` |
| AmqpConnection_proofs | CallsAnsweredOnce, ConnectedIsUp | `AnsweredOnce`, `ConnectedMeansUp` | `Typed`, `Budget`, `Control`, `Accounted` |
| Timers_proofs | FeaturesKept, TwinIsHub | `RegisteredIsEnabled`, `CacheIsHub` | `ClientShapes`, `Enabling`, `Twinned` |
| Cbs_proofs | TimerKept, TokensToldRightly | `TimerWatchesTokens`, `TokenAnsweredRightly` | `Typed`, `Accounted`, `Granted`, `Watched` |
| Http_proofs | ReceiverIsStopped, UsersAreToldWhatIs | `ReceiverStops`, `ToldWhatIs` | `Typed`, `Polling`, `Uploading`, `Paging` |
| Provisioning_proofs | KeysAreKnown | `KeyIsKnown`, of the TPM | `Typed`, `Known` |

**Publishes on the wire.** `Bookkeeping` is `TypeOK` and `AnsweredOnce`: the messages on
the wire are exactly the ones not answered, so that removing one and calling it back are
the same event. `Timing` says when the entries were stamped (`Stamped`), that the Map is in
the order of the stamps (`Sorted`, which the loop of `_timeout` relies on), that what
the last check kept had not expired for it (`Punctual`), that the remembered timer
is armed while a message waits (`TimerArmed`), and that it comes within a period
and the lateness of its arming (`ChecksInTime`). `BoundedWait` follows from `Punctual` and
`ChecksInTime`.

**Callbacks.** "Called once and not lost" is not inductive: nothing in it says that a
callback in a queue is not also in a field. The invariants of MqttBase, SenderLink,
PollingStateMachine and AmqpConnection count, for each call, the places that keep its
callback (the deferred inputs, the rest of the turn, the fields, the clients or requests
under way) and how often it was called, and say that the sum is one (`Accounted`,
`Accounts`). Each handler moves a callback from one place to another. That it overwrites
none, and drops none in a transition to the state it is in, needs what the state says of the
fields, which is the other part:

- PollingStateMachine: an operation is carried out in the busy states and no other
  (`BusyWithOne`), so a registration that begins finds no other's callback.
- MqttBase: `Control` says which clients, and which calls of `end()`, there are in each
  state, what may still be replayed, and that a stale client has the listeners of its
  attempt: its close is then ignored by a machine that is disconnected and, by `haunted`,
  ends `Control` and `Accounted` in any other state. The invariant is `Typed` and, until
  then, both. `LossIsReported` needs the types only.
- SenderLink: the owner may attach, detach and send in any callback, in the middle of the
  loops over the messages. `Failing` says that sent messages nobody will settle have their
  failure left to do, `Uninterrupted` that one loop sends, and only while attached,
  `EventsAlone` that the events of rhea find nothing else left to do, and `Transiting` that
  a transition that carries a callback is not overtaken, with `detachingCallback` set only
  while detaching. `Control` holds until the process crashes, `Data` always.
  `Ordered` (what was sent is older than what was not) gives `SentInOrder`.

**AMQP connection.** No call is answered once too often, and a connected machine has an open
session, because the machine is where its turn and its network say. `Inv` (AmqpInvariant)
has two halves. The first holds always: the types (`Typed`: which items may come after
others in a turn, and whose callbacks may be where), a budget (`Budget`: each connection is
one of a connect of the owner and begins one rundown at most, so that the rundowns are as
few as the connects and a rundown has a number), and that a rundown answered late has no
timer left. The second, `Control` and `Accounted`, holds until the agent answers a rundown
that is over (`LateRundown`): such an answer closes what there is by then, and nothing more
is claimed. `Control` follows the connection through its states: who listens (`Listening`),
what the network holds of it (`Network`: connected means open, or its end comes first in the
turn), that no link outlives it (`Unlinked`), what is deferred and for which state
(`Deferrals`), what may begin, follow and end a turn (`Turn`: one rundown at a time has
steps in it), whose the two callbacks are in each state (`Owners`: an operation's, or the
rundown's own), and who waits for the agent, the links and the timer (`Waiting`). A session
that closed before it opened needs a part of its own (`NeverOpened`): its rundown is forced,
and has no link to detach. `Accounted` counts, for each call, the items of the turn, the
deferred inputs, the two callbacks, the links, the links of the rundowns (`links` of each),
the callback of the rundown under way and the times it was called, less the second time of
the forced rundown: one at most. Callbacks are dropped where section 4 says, so it is a
bound. `AnsweredOnce` follows from `Accounted` and `ConnectedMeansUp` from `Network` and
`Listening`, whose exceptions are a turn that is not over.

**Claims based security.** The callbacks are counted here too, and they travel further: that
of an attach or a detach from the turn into a link, back as the link's call of it, and into
`async.each` (`Chain`); that of a token from the turn to the tokens not sent (`Waiting`), to
the outstanding ones and those that expired (`Out`). `Accounted` says that for each call
these and the times it was called make one at most. `Linear` is what both links owe the
agent: no handler of a link gives, at once, in the next turn or in its fields, more of a
callback than it had, which `LinkStepFacts` proves handler by handler. `Granted` ties an
answer to what the service said: a token that was put waits nowhere else, and the step that
says it is accepted comes after the service accepted it. `Watched` is the timer: an
examination under way stands for the one it will start, and until it finds one armed there
is one at most. A callback may be lost (a transition to the state the machine is in drops
it, as does an error nobody listens to), so the counts are bounds and not equations; that
every call is answered is liveness.

**Retries.** A waiting retry was scheduled before the deadline and within the interval of
the policy for the error of the last attempt and the number of attempts. The rest is the
formula: a power of two is at least one, being the number of subsets of a set, so the
random part of a wait is neither negative nor more than the documented upper end grown with
the attempts, and the wait lies between `cMin` and that end, or `cMax`, for the kind of
error.

**Clients and twin.** `Enabling` follows a feature the user listens to: it is enabled, or
handed to the transport, or waits for its retry (`Coming`), and each disable handed to the
transport has an enable behind it (`Remains`). `Twinned` follows the twin from the hub to
the cache: the messages of the hub tell every change since it began to tell of changes
(`Chain`); the cached desired property is what the hub had before the next of them
(`Synced`), or a document is on its way (`Getting`); a reported property that the cache
lacks has its acknowledgement under way (`Acknowledged`). The attempt to prove `CacheIsHub`
showed the history `fresh` to be too weak, and TLC confirmed it with a fourth call: a get
asked before a close is answered after it, over a cache that the close has not cleared, and
an update that the hub took and the client was told had failed leaves the cache behind. The
code does both (`twin.ts:90`, `twin.ts:207`); `fresh` now tells them from what
the Twin promises, and the run `client` has four calls.

**HTTP.** A turn of these components is one item long: what a handler does at once is one
request or one callback (`Follows`), for the call that it was given. So the invariants follow
the closure of a call from the turn to what waits for an answer and back, with what has
become true meanwhile. `Polling`: an `enableC2D` that waits for the agent string is one the
user has not taken back, and the options set while it waits keep timer, policy and
`_receiverStarted` together (`Consistent`). `Uploading`: from the moment that the client is
to notify the hub of a success the storage has the blob (`Saying`, what is asked for;
`Heard`, what came back), through the credentials asked for in between. `Paging`: while the
requests of a query do not overlap, the page under way is the one that the continuation
token stands for, and the token is as far as the pages that the user got (`InOrder`).

**The key of the TPM.** An activation takes the public part of its key when it begins and
has the TPM persist the key eight commands later, so `KeyIsKnown` does not hold in
between. `Known` is what does: a client that is connected has the key of the TPM, or none,
or that of an activation that has a command asked for or its answer still to handle, or is
about to be told what it has read. Each command leads to the next or, when it fails, to
disconnected, where the public part is forgotten and read again by the next call. A
handler is therefore shown either to leave what is right, or not to touch the state and
the key (`Keeps`). `TypeOK` in `KeyIsKnown` is proved for the TPM alone: of the
other components of Provisioning the property says nothing more than their types. TLC
checked `Known` for four calls (2 325 350 states) before the proof.

**Cases.** A CASE with two guards true is any of its branches to the provers, and the first
to TLC. The proofs found such guards in the steps of the links and of the agent, and in the
handlers of HttpReceiver, RestCalls and TpmSecurity; the code tests them in order, and so
do now the definitions (IF, ELSE IF).

**Only model-checked.** The invariants of DeviceMqtt and DeviceAmqp, `TypeOK` of the
components of Provisioning other than the TPM, and the refinement of Operations by
Provisioning: their inductive invariants, of several machines that call each other, are not
stated. All
liveness, which with ENABLED is out of the prover's reach. What a definition by recursion
or a fold computes for every input needs an induction that the provers cannot make: where a
proof needed such a fact the model states the result by concatenation, sums of bags or
quantifiers instead (`FailPending` of SenderLink, `AllFail` and `Again` of DeviceClient).

## 6. Plan

1. (done) OnTheWire with proofs, MqttBase, RetryOperation, SenderLink,
   PollingStateMachine, DeviceMqtt.
2. (done) The clients and the Twin; the receiver link, the agent and the AMQP connection;
   the device AMQP transport; the provisioning transports, the TPM and the registrations
   with their abstract specification; the HTTP receiver, blob upload and queries.
3. (done) Proofs of the safety properties of MqttBase, RetryOperation, SenderLink,
   PollingStateMachine, AmqpConnection, DeviceClient, Cbs, Http and the TPM in
   Provisioning. Left, in order of what they say: the invariants of DeviceMqtt and
   DeviceAmqp, and the steps of `ImplementsOperations` of Provisioning.
4. A refinement from MqttBase to the part of DeviceMqtt that stands for it, and from
   AmqpConnection and Cbs to the layer below DeviceAmqp.

## 7. Not modelled

`setOptions` of the MQTT transport and the messages that arrive (they are handed to
listeners as they come) are not in DeviceMqtt, which is why that component is listed as
partly modelled. A twin response comes after the callback of its publish: mqtt.js calls
that of QoS 0 when the packet is written.

Parsing and formatting, the classes that only carry data (messages, results,
errors, connection strings, credentials), among them the AMQP messages and the mapping
of AMQP and HTTP errors, headers and bodies, logging, the options handed to the
libraries, samples, tests and tools. Promises are an adapter of the callbacks, and are
modelled where they change what happens (the queries and the bulk operation). mqtt.js,
rhea, machina, async, the TPM, the storage of blobs and Node.js timers are modelled from
how the code uses them and are marked external in the map. The layer below DeviceAmqp,
DeviceClient, Provisioning and Http is what the modules below, or the interface of the
transport, show of it: compositions of all the layers in one state space are beyond a
run.
