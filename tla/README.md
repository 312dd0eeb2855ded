# Verification of Orvibo Lan

TLA+ models of the Home Assistant integration in `custom_components/orvibo_lan`,
checked with TLC on small instances; every safety property of the passing runs
is also proved with TLAPS, for every value of the constants (in two modules under a
hypothesis that the code needs too, `OneSurprise` and `FansOfOneNumber` below).

## The system

All code runs in one asyncio event loop: a coroutine runs alone until it awaits,
so the steps of the models end at the awaits that can suspend. Nothing is
persisted apart from Home Assistant's own config entry.

| Part | State it keeps | Operations | Talks to |
| --- | --- | --- | --- |
| `state_store.py` | whitelist; per device a nested dictionary, a version per leaf, a generation per source | `add_devices`, `retain_devices`, `apply`, `snapshot` | called by the coordinator |
| `lib/gateway_connection.py` | transport, session, pending futures, single-flight slot, request/write/lifecycle locks, reader and heartbeat task | `connect`, `request`, `send`, `close`; reader and heartbeat loops | gateway over TCP; push callback into the coordinator |
| `gateway_manager.py` | one record (cloud host, active host, connection) and one lock per UID, `_closed` | `ensure`, `reconnect`, `send`, `async_update_cloud_gateways`, `discover`, `close` | creates and closes connections; `lib/discovery.py` |
| `coordinator.py` | state store, device tables, generations, event watermarks, debounce, discovery and cloud-push tasks | set-up, refresh, lock event, LAN push, control, clean-up | everything above, `CloudClient`, `CloudPushClient`, Home Assistant |
| `lib/cloud_push.py` | TLS stream, session key, credentials, stop flag | `run`, `async_update_credentials`, `close` | cloud port 10002; callback into the coordinator |
| `lib/cloud_client.py` | tokens, family, binary credentials | `login`, `fetch_devices` | cloud HTTPS |
| `__init__.py` | per entry: coordinator, runtime data, platforms, update and start listeners; one service for all | set-up, unload, migration, area job | Home Assistant, coordinator |
| `light.py`, `climate.py`, `fan.py`, `cover.py`, `entity.py` | the device's profile; the rest is the coordinator's state | service calls, views, availability | coordinator, builders |
| `lib/device_control.py`, `device_profiles.py`, `profiles.py` | none | payload builders, normalisation of rows and states, profile tables | called by entities and coordinator |
| `sensor.py`, `binary_sensor.py`, `config_flow.py`, `selection.py` | forms, views | reauthentication | Home Assistant |
| `lib/discovery.py`, `lib/protocol.py`, `lib/packet.py`, `lib/serial.py` | serial counter | pure or I/O helpers | |
| `lib/lan_controller.py`, `lib/https_client.py` | | earlier clients, which only their tests use | |

What is hard: requests, responses, heartbeat, reader and close interleave on one
connection; senders, refresh, discovery and close contend for one gateway;
cloud snapshots, lock events and LAN pushes arrive late, stale, twice or never;
every lock is held across awaits that may hang; set-up, clean-up and reload of an
entry overlap with what the entry started; service calls build commands from a
state that other calls are changing. The full list of hazards, each at
its line with the properties that cover it, is in `PROJECT.json`.

What makes the parts correct:

- *store*: each field shows the newest write, LAN before cloud; removed devices leave nothing;
- *connection*: answers reach the request they answer; nobody waits on a dead transport; no transport is lost; commands go only to the gateway whose identity was established;
- *manager*: at most one session per gateway, none lost, none after `close()`; UDP addresses are trusted only after a login;
- *coordinator*: newer door states are never undone by older ones, and everything shown gets published, at once, by the debounce or by the return of the refresh;
- *cloud push*: a stream logged in with the current credentials, reopened after every failure, and no client that nobody owns; events in order;
- *cloud client*: a bounded number of requests per call, the right failure reported, recovery once the server serves;
- *lifecycle*: no stream, task or connection without a loaded entry, a set-up or a clean-up; registrations follow the load state, and the entities of a loaded entry use its open coordinator; a closed coordinator starts nothing;
- *entities*: the view shows what was asked once the reports are merged, an attribute is not lost by setting another, and the outcome of a call is true.

## Modules

| Module | Models | Role |
| --- | --- | --- |
| `StateMerge` | the merge of one device entry (`apply`, `_is_newer`, `_set_path`) | operators, used by `StateStore` and `CoordinatorState` |
| `StateStore` | `StateStore` | actions `AddDevices`, `RetainDevices`, `Apply` |
| `GatewaySession` | what a connection promises its owner | abstract specification |
| `GatewayConnection` | `GatewayConnection`, one object | handshake, requests, routing, heartbeat, disconnect, close; implements `GatewaySession` |
| `GatewayManager` | `GatewayManager`, one UID | lock, ensure/reconnect/send, refresh, discovery, close |
| `CoordinatorState` | refresh, lock events, LAN pushes and publication of `OrviboLanCoordinator` | extends `StateMerge` |
| `CloudPush` | `CloudPushClient` and the coordinator's start, rotation and stop of it | run loop, stream, server, owners |
| `CloudClient` | `CloudClient`, and set-up and refresh of the coordinator as its callers | one HTTPS request per step |
| `EntryLifecycle` | `__init__.py` with `async_setup` and `async_cleanup` of the coordinator | set-up, unload, reload, listeners, background work |
| `DeviceControl` | `lib/device_control.py` and the properties of the control entities | builders and views as operators |
| `DeviceInventory` | `profiles.py`, `device_profiles.py` | rows and states to devices, as operators |
| `EntityControl` | one control entity, its device and the commands between them | extends the two above |
| `*Proofs` | | TLAPS proofs about the module they are named after |
| `MC*` | | model values and finite sets for TLC |

Operators whose comment starts with "Mutant:" are deliberate bugs. They are not
used by the specifications; each shows that some property can fail.

### StateMerge and StateStore

A device entry holds `values`, `versions` and `generations` as in the code; a
field is a path, and `Clash` relates paths of which one is a prefix of the other,
such as the scalar and the mapping form of one property, which
`device_profiles.py:122` both accepts. `log` is a history variable with every
write offered since the device was added. Argument validation is not modelled.

### GatewayConnection

The manager makes one object per attempt, so an object has at most one transport;
`active` stands for reader, writer and `_closed`, `tasksHeld` for generation 1.
`call[r]` is a request with its future, `pending[r]` the correlation fields it is
registered under. Users' requests with both fields and those without any (the
single-flight path) are distinguished; hello, login and heartbeat carry a serial
only. Every request is written in a step of its own after the write lock, drains,
waits, and may be cut by its deadline anywhere. The gateway may answer what it was
sent at any time, again, late or never, with any of the fields, and may push.
Cancelling a task and running its `finally` clauses is one step. `ready` is set by
`LoginAnswered` whether or not the transport is still there, as in the code.
Serials are assumed distinct.

### GatewaySession

What the owner of a connection may rely on, without locks, futures, routes and
tasks: `link` is new, open, serving or lost, in that order; a request begins and
is sent only while the session serves; one outcome is its last; and once the
session is lost, only a request whose response is already there can still succeed.
`GatewayConnection` maps its state to it with `Link` and `Seen` (after `close()` or
the loss of the transport the session is lost, though the object may keep `_ready`).

### GatewayManager

Records and connections are objects with an identity, because coroutines keep
references to them across awaits. `lock` is the queue of an `asyncio.Lock`: an
uncontended lock is taken in the step that asks for it (`Enters`), a contended one
is handed over in order. A connection is reduced to what `GatewayConnection`
shows of it: connecting, up, down (the transport has gone, perhaps before
`connect()` returned) or closed. Closing takes effect before its first suspension,
hence with the step that calls it. Coroutines can be cancelled at every await.

### CoordinatorState

One device with a door field, reported by snapshots and by lock events, and a
level field, reported by snapshots and LAN pushes. Door values are numbered, so
that a roll-back is visible; the server stamps each with a second. A refresh is the
start of the fetch, the server's answer (perhaps old data), the merge and, after the awaits
on the stream and the gateways, the return (`RefreshReturns`, `RefreshRaises`). The
merge publishes what it shows, except a snapshot without any device: that discards the
store, and only the return tells Home Assistant. `succeeded` is Home Assistant's
`last_update_success`, which decides whether a refresh that raises makes the entities
look again (`Fail`). The reception time `now` grows with every reception. Payload validation, derived sensor
fields and device resolution are abstracted to "the push passes its checks".

### CloudPush

`client[c]` is a `CloudPushClient` with its task and its stream: `pc` is the await
at which `run()` stands (connection, hello, login, stream, heartbeat, the closing of
the writer, the wait before the next attempt). `owner` are the two coroutines that
may stop a client, a refresh and `async_cleanup`; the coordinator's refreshes
follow each other, so one suffices. A client is used again only when neither the
coordinator nor an owner refers to it and its task has ended. `inbox` holds what
was received and not read: closing the stream from this side ends it only after
that, so a response or an event may still be handled after a rotation or a stop.
A frame of which one half has come can be interrupted by the heartbeat interval;
its second half is then not a frame. The callback does not suspend, and what it
does is in `CoordinatorState`. The family of a client never changes, and a pair
of user name and password is one member of `Credentials`.

### CloudClient

The calls of one coordinator's client follow each other: Home Assistant sets up,
then refreshes one at a time. A call stands `at` its next HTTPS request (login,
family list, table); `stage` tells the login of the set-up, the first attempt and the
repetition after a rejected token. The server is two facts, whether it accepts the
token (`alive`) and the password (`accepted`), which may change between any two
requests; an answer is what decides the code's next step: transport error, HTTP
4xx or 5xx, wrong JSON or schema, a rejection, or data. `excuse` and `answers` are
history. A call that ends with "auth_failed" is repeated only by somebody: the user, who
gives the reauthentication flow an accepted password, whereupon the entry is reloaded
(`Reauthenticate`), or whoever asks for a refresh. `sent` stops counting at `MaxCount`, one more than the code can reach.

### EntryLifecycle

Each entry has coordinator objects, used in turn; an object that nobody refers to
and that is quiet stands for a new one (`Free`, `Kept`). `co` holds what outlives a
step: the cloud stream, the discovery and debounce tasks, the manager, the state,
a refresh under way. `entities` are the coordinators that entities of the entry use:
a set-up may fail after some platforms were loaded (`ForwardFails`), and its undo may
leave them, since it suppresses the exceptions of the unload and does not look at its
result (`Undone`). The clean-up has the three awaits of `async_cleanup`. Home
Assistant runs one set-up or unload of an entry at a time and repeats them;
refreshes, LAN pushes, reconfigurations and the start of Home Assistant come
at any time between. It is assumed that Home Assistant does not cancel a set-up.
`Busy` are the entries to which such things happen, that have devices and whose platforms
may load in part; the other one only comes and goes, which is all that the shared service
depends on. `MaxReloads` bounds the reloads
asked for and not begun.

### DeviceControl, DeviceInventory and EntityControl

`DeviceControl` has one operator per builder and one per property of an entity,
with the arithmetic of the code (percent, mired, two temperatures in one number).
A command keeps the order, four numbers and properties; identifiers, serials
and versions are left out. `DeviceInventory` decides which rows and states
become a device, and through which gateway it is controlled.

`EntityControl` puts an entity between them and a device. `Ask` is a service call up
to the hand-over to the gateway manager; the command on the `wire` remembers the
state it was built from (`basis`). A device executes commands in any order, a zero that
the code uses for "not given" either sets the value or keeps it, and it may be
operated by hand. A device's `State` is its four numbers and its properties, within the
ranges the builders keep to (`MinKelvin`, `MaxKelvin`). Reports come in order from the gateway
that passed the command on. They are merged if the device is known and still under
that gateway, otherwise dropped (`Merge`), or lost with the local network. A refresh finds the device
where it was, moved, deleted or gone, and merges the cloud's state of it, which may be old: a state
that no gateway has reported is replaced; reported fields stay, except that properties
in the cloud's other shape erase them (`CloudMerged`, the merge of `StateMerge` reduced to
whole states). `asked` and `missed` are history. Reports are well-formed.
What a command must not disturb is `ClimateKeeps` and `LightKeeps`.

## Runs

| Run | Bounds | Shows |
| --- | --- | --- |
| `state_store` | 1 device, 3 paths (2 clashing), 2 values, 2 times, 2 generations, 3 writes | newest write wins, values come from writes |
| `gateway_connection` | 2 user requests, one correlated, one not; handshake, 1 heartbeat at a time; missing UID allowed | six safety invariants, refinement of `GatewaySession` |
| `gateway_connection_live` | 2 uncorrelated requests, which contend for both locks | every request, connect and close ends; a silent gateway is noticed |
| `gateway_manager` | 1 sender, refresh, discovery, closer; 2 cloud hosts, 2 UDP hosts, one of them common; either discovery or removal | ownership, one pushing session, trusted hosts, close |
| `gateway_manager_live` | 1 sender, refresh, discovery, closer | everybody gets the lock or an error |
| `coordinator_state` | 3 door changes, 4 receptions, with server stamps and without; refreshes that return or raise | no roll-back, repair, publication; without stamps, protection by reception order alone |
| `cloud_push` | 2 client objects, 2 credentials, 2 events, 2 packets received and not read; reconnections, rotations and stops unbounded | current credentials, ownership, order of events; silence noticed, stops return, another attempt after every failure |
| `cloud_client` | 2 families, 2 stream passwords; calls, failures, expiries, password changes and reauthentications unbounded | failures blamed rightly, at most seven requests, recovery |
| `entry_lifecycle` | 2 entries, one of them busy, 2 coordinator objects each, 2 reloads asked for; set-ups, failures, failed undos and unloads unbounded | nothing orphaned, registrations, closed coordinators |
| `entity_control` | 8 kinds of device, 1 gateway or none, 2 overlapping calls (symmetric), 2 calls in all, 1 change elsewhere, disconnection or refresh, 2 reports; the values at which the roundings and bounds of the code turn | views, settings kept, outcomes |

Two requests suffice for contention of each lock and for an answer that reaches
the wrong request; two hosts and four coroutines for every order of lock requests
between two generations of a record; three door changes for two in one second and
one later, and four receptions for a fetch that spans an event and a second fetch;
two clients for one that is being stopped while the next one runs, and two events
for one that is overtaken; two coordinator objects for one whose refresh is in
flight while its successor is set up; two commands for one built from a state
that the other makes stale, or executed after it although it was sent before.
The values of `entity_control` are the least and a middle brightness, a colour where the
rounding of mired is worst, both ends of the temperatures, and both sides of the fan's and cover's
thresholds. With one gateway, reports are dropped when the device comes under none; a move
between gateways is covered by the proofs only.
`MaxObjects` (4) is larger than the number of objects ever referred to at once,
otherwise a connection could not be opened and the deadlock check or `EveryTaskEnds`
would tell. `CHECK_DEADLOCK FALSE` appears where the system really ends: a closed
connection is never used again, and the counters of `coordinator_state` and
`entity_control` are bounded.

Runs that are expected to fail, each a disagreement of the code with its documentation:

- `state_store_lan_priority`: a cloud leaf of the other shape erases a LAN value.
- `gateway_manager_stale_record`: discovery attaches a connection to a record that was removed while it waited; it is never closed. `gateway_manager` keeps removal and discovery apart (`network`), and there the ownership of connections holds.

Other disagreements, which the models show as well but no run is spent on:

- A request without correlation fields that timed out leaves its response to the next such request (`lib/gateway_connection.py:559`), against `ARCHITECTURE.md:58`; `AnswersMatch` excludes exactly these.
- A live connection survives a change of its address in the cloud (`gateway_manager.py:215`), against `ARCHITECTURE.md:60` and `:67`.
- `ensure` returns a connection whose transport has gone since the login, because `_ready` is set without looking (`lib/gateway_connection.py:278`, `gateway_manager.py:87`). The request then fails.
- A cloud property in the other shape hides from a light what its gateway reported (`light.py:97`), which is the first of the runs above at work; `AskedIsShown` excuses it.
- Entities can outlive a failed set-up on a closed coordinator (`__init__.py:204-221`), although the unload is said to release the platforms before the resources they share (`__init__.py:227`); `RegistrationsFollowLoad` excuses these, and an unload keeps the order.
- `ARCHITECTURE.md:52` has the coordinator's tasks stop before the platforms are unloaded; `async_unload_entry` unloads the platforms first. A refresh in flight across `async_cleanup` fills the cleared state again (`coordinator.py:721`); `ClosedStartsNothing` shows what it cannot do.
- Options that change while the entry is being set up cause no reload, since the listener is registered after the coordinator has read them (`__init__.py:188`).
- `DEVICE_PROTOCOL_REFERENCE.md:140` has the colour temperature in Kelvin, the code sends mired; `:185-189` gives values for switching an air conditioner off, the code sends zeros for the current mode, speed and temperature.
- The fan mode "auto" is sent as low (`climate.py:203`), and a fan of type 81 is commanded by `value1` and read from `value2`.
- A row marked as deleted comes back if a state of it can be read (`device_profiles.py:334`).

## Fairness

`GatewayConnection`: deadlines pass (`Timeout`, `ConnectFails`) and coroutines that
can run do run (clean-up, heartbeat, closing of the writer). Nothing is assumed of
the gateway, of `drain()`, or of the lock hand-over. `GatewayManager`: the holder of
the lock makes progress, because `connect()` ends by its deadline
(`EveryCallEnds` of `GatewayConnection`); probes may take for ever, callers
may never call. `CloudPush`: timers fire, attempts to connect end (`wait_for`), a
stream closed from this side ends once it is read, what has been received is read
or the interval passes, and the awaits of the owners return; nothing is assumed of
the server. The second part of `KeepsReconnecting` only speaks of behaviours in
which no packet arrives any more: a server that answers heartbeats may stay
connected for ever. `CloudClient`: requests end, because the session has a total
timeout, and Home Assistant repeats set-ups and refreshes (`Repeated`), but not after
`ConfigEntryAuthFailed`: then it waits for the user, of whom nothing is assumed.
`RecoversWithServer` only speaks of behaviours in which the server serves from
some point on, and allows that the client stays where a refused password has left it. The other modules have safety properties only, which need no
fairness.

## Proofs

`StateStoreProofs` proves, for all devices, paths, clash relations, values and
updates, under the assumptions `ClashAssumption`, `MissingAssumption` and
`UpdateAssumption`:

- `StoreTypeCorrect`: `Spec => []TypeOK`;
- `StoreHoldsNewest`: `Spec => []FieldsHoldNewest`;
- `StoreInventsNothing`: `Spec => []ValuesComeFromWrites`.

The inductive invariant is the conjunction of the three. The argument is that
"newer or the same" is transitive on versions (`NewerOrSameIsTransitive`), so the
winner of a merge dominates what the former winner dominated, that a merge
leaves every field of the update with some version, and that it shows no value
that neither the entry nor the update had.

`GatewayConnectionProofs` proves the six safety invariants of `GatewayConnection`
for any set of requests, any split into correlated and uncorrelated ones and
both values of `allow_missing_uid`, under `ConnectionAssumption`:
`ConnectionTypeCorrect`, `NoRequestIsStranded`, `EndedRequestsLeaveNothing`,
`RequestsGetTheirOwnAnswers`, `TransportsHaveAnOwner` and
`CommandsReachTheExpectedGateway`.

None of them is inductive alone. The inductive invariant `Inv` adds

- `Lifecycle`: the reader runs exactly while the transport is active, a detached
  writer is closed only once, and there is no heartbeat during the handshake
  (otherwise its `close()` could overtake `connect()`);
- `RequestsInTurn`: which request may exist at which stage, and that whatever
  drains, waits or is answered was written (otherwise a request could be
  registered again while its packet holds the write lock);
- `PeerKnown`: what the hello and the login response have established, of which
  `OnlyTheExpectedGateway` is a consequence;
- `SingleFlight`: only requests without correlation fields get into the slot
  (otherwise a packet without fields could answer a correlated request).

Four lemmas carry most actions: `FinishKeepsInv` for whatever ends requests with
the transport left alone, `LosingKeepsInv` for the disconnects and `close()`,
and `RegisterLeavesNothing` and `LeavesNothingMore` for routes and locks; each
action then has one step per conjunct.

It also proves `ConnectionImplementsSession`: the initial states
map to initial states and every step to a step of `GatewaySession` or a
stutter. It needs `Inv` and two facts more, that `_ready` is set exactly by the end of
the handshake while the transport is there (`ReadyWhenUp`), and that a request has
no result before it is registered and an error only after the loss (`FuturesFollow`).

`CoordinatorStateProofs` proves type correctness and the three properties of
`CoordinatorState` for any level values and any number of changes and receptions.
Its inductive invariant says that the server's stamps are ordered
(`ServerOrdered`), that a snapshot under way is of the past of the door
(`FetchOfThePast`), that a refresh about to return has left the device known exactly if its snapshot had it
(`ReturnsWhatItMerged`), that the store's generations and reception times are behind the
coordinator's (`StoreBehind`), and that the watermark lies between the door shown
and the last change (`WatermarkBetween`): what is below the watermark cannot be
newer than what is shown, and what the watermark drops has been seen.

`GatewayManagerProofs` proves the five invariants of `GatewayManager` for any senders,
hosts and number of objects, under `ManagerAssumption` and `OneSurprise`: a
gateway is either discovered or removed, never both (the violation run
`gateway_manager_stale_record` shows that ownership needs this). The invariant
relates the queue of the lock to the places of the coroutines (`LockInOrder`),
says which coroutine can be where (`Roles`), that the record a coroutine
keeps across its awaits is the current one (`RecordsKept`, which is where
`OneSurprise` comes in), and that a connection being opened has its record to
itself, apart from the one discovery would replace (`OpenedAlone`). The lemmas on opening,
aborting and installing a connection serve every path of `ensure`, `reconnect`
and `discover`.

`CloudPushProofs` proves type correctness, `SessionUsesCurrentCredentials`,
`NoOrphanClient` and `EventsInOrder` for any number of clients, credentials and
events. The argument is that at most one client runs (`OneRuns`), because whoever
drops a client waits for its task, that a client's place, writer and login fit
together (`Fits`), and that what a client has received and not read continues,
in order, what was delivered (`InOrder`).

`CloudClientProofs` proves type correctness, `FailuresAreBlamedRightly` and
`AtMostSevenRequests`. The counter is bounded by what the stage and place of the
call have left (`Budget`): a login that fell back to GET has used its one
repetition for the life of the client.

`EntryLifecycleProofs` proves the four safety properties of `EntryLifecycle` for any entries, any
coordinator objects and any number of reloads: `EntriesTypeCorrect`,
`NothingOrphaned`, `RegistrationsFollow` and the action property
`ClosedStaysQuiet`. None is inductive alone; the invariant `Inv` says, for each
place a set-up, an unload or a clean-up can stand at,

- what Home Assistant has of the entry (`HouseOf`): its listeners, runtime data and
  whether its clean-up was started by a failed set-up or by an unload;
- what its coordinators have (`CoordinatorsOf`): the present one is closed from
  the first step of the clean-up, which takes the stream, the tasks and the manager
  from it in this order; any other has nothing, except perhaps a refresh that
  was under way and that finds it closed;
- which coordinators entities use (`EntitiesOf`): the present one where platforms are loaded or
  loading, and any other only if it was closed and its set-up never succeeded.

`NoOrphanCoordinator` needs the second part: a refresh that ends in a coordinator
no entry refers to any more would otherwise start a stream. `ClosedStaysQuiet` goes over the
actions with one notion, `Calm`: a coordinator that is closed gains nothing in a
step.

`EntityControlProofs` proves the four properties of `EntityControl`, for any
profiles, brightnesses, colours, temperatures, percentages and positions within
`ControlAssumption` and any number of calls, changes and reports.

- `OutcomesAreTrue` rests on the calls alone: commands carry the numbers of
  distinct calls (`Numbered`), and a call has an answer only if its command has
  left the wire (`Answers`).
- `ControlTypeCorrect` and the two below rest on `DeviceInv`: a command on the wire is
  the one its call built from the state it remembers (`Commands`); the last
  report under way is of the device as it is, and with none under way and none missed the
  device is shown as it is, from a report that the cloud cannot replace (`Follows`); and the device is `Proper`, that is, it
  has numbers or properties as its kind says, and a lit light has a brightness.
  Without the last a colour would raise a light that is lit at brightness zero to 255,
  which `turn_on` takes for "no brightness known" (`light.py:199`); that no switch or scene leaves a
  light so is how the model has devices behave (`Manual`), and from there it is proved.
- `AskedComesBack` proves `AskedIsShown`. It is split in two: whatever executes a command,
  the device then shows what was asked (`ExecutedIsShown`, one lemma per kind of
  device), and the view is the device (`Follows`). The lemmas under it are about the numbers:
  a brightness comes back within 3 of 255 after the percent (`PercentFacts`), a
  colour within 36 K after two integer divisions (`ThereAndBack`,
  `MiredFacts`), and two temperatures packed into one number come apart again
  (`HalvesFacts`). Its hypothesis `FansOfOneNumber` leaves out fans of type 81, for
  which the property is false in the code: they are commanded by `value1` and read from
  `value2` (see the disagreements above).
- `SettingsKept` proves the action property `SettingsLostOnlyWhenStale`: a command
  built from the device's own state repeats the settings it is not about
  (`ExecutedKeeps`).

Two assumptions there are about how the models write "no value", not about the code:
`NoneAssumption` and `StateAssumption` say that `None` is neither a number nor a
state of a device. TLC evaluates them, with the others, in `entity_control`.

Only model-checked: the liveness properties (`SilentGatewayDetected`,
`EveryCallEnds`, `EveryTaskEnds`, `KeepsReconnecting`, `OwnersReturn`,
`RecoversWithServer`), which need fairness and ENABLED and are beyond the prover,
and the two runs that are expected to fail.

## Not modelled, and why

- Byte formats, CRC, AES, TLS and the datagrams of discovery: a packet that fails its checks is "the reader stops", a discovery round returns any candidate.
- Sensors and binary sensors: views of the coordinator's state without commands.
- Config flow and selection, the migration of entries: sequential forms and conversions, whose result is the configuration of `EntryLifecycle` and `CloudClient`.
- The builders no entity calls, the spellings of lock properties, the validation of payloads.
- `lib/lan_controller.py` and `lib/https_client.py`: the integration does not use them.
- Several gateways in one refresh, discovery or close loop; an error of one gateway that ends the loop for the others (`gateway_manager.py:159`) is therefore out of sight.
- Wrap-around of serials: two requests with one serial would have to be under way together although a million serials lie between them (`lib/serial.py:14`).
- Real time: debounces, deadlines and intervals end at any time. LAN pushes that postpone the publication for ever (`coordinator.py:577`) are possible in the code and in the model.

## Plan

1. *Core* (done): `StateMerge`, `StateStore`, `GatewayConnection`, `GatewayManager`, `CoordinatorState`, `CloudPush`.
2. *Around it* (done): `CloudClient`, `EntryLifecycle`, `EntityControl` with its operators; `GatewaySession` and its refinement.
3. *Proofs* (done): every safety property of every module, and the refinement of `GatewaySession`.
4. *Left*: the manager's view of a connection as an abstraction of `GatewaySession`; several gateways in one discovery loop; the discovery filter and the shapes of properties as operators with reference definitions; what the proofs of `EntityControl` know of one kind of device as a module of its own.
