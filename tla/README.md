# A TLA+ verification of the Inepro Metering integration

The repository is a Home Assistant integration for Inepro meters
(`custom_components/inepro_metering`) and the library it is built on
(`src/inepro_metering`). This directory models the parts of it in which
several tasks, a slow and lossy transport and partial failures meet.

## 1. Inventory

| Part | State it keeps | Operations | What makes it correct |
|---|---|---|---|
| Modbus client (`modbus.py`) | one pymodbus/BLE client or none, an asyncio lock | read, write with read-back, device identification, gateway blocks, ping, close | one task at a time uses the transport; a failed transport is never reused; a write that returned is held; close leaves nothing open; every call returns |
| Single-meter coordinator (`coordinator.py`) | last data, last gateway metadata, failure counter, cache of slaves without device identification | `_async_update_data` | snapshots are whole; stale data is shown for exactly the Bluetooth grace; what is known of the gateway never goes back to older |
| Bus coordinator (`coordinator.py`) | last data of every meter | `_async_update_data` | meters do not disturb each other; readings survive a silent meter |
| Wi-Fi provisioning (`commands.py`, `__init__.py`) | none; registers of the meter | `set_wifi_credentials`, the Wi-Fi switch | the meter never uses the name of one call with the password of another |
| Writable entities (`switch.py`, `number.py`, `select.py`, `text.py`) | the optimistic value | the service calls, the getter | what is shown becomes what the meter holds |
| Bluetooth transport (`ble.py`) | BleakClient, notification queue, pairing flags | connect, subscribe, transceive, pair on demand, send again, close | an answer belongs to its request; a frame is sent again for pairing only; nothing is left behind; every request ends |
| BlueZ pairing (`ble.py`, `_bluez_agent.py`) | two D-Bus connections, an agent, a discovery, a bond | pair, remove | nothing stays registered after a failure; the PIN is answered by the caller's agent; pairing ends |
| Bluetooth proxy (`ble_proxy.py`) | connected or not | one line of JSON over a TCP connection of its own per operation | no connection stays open; success means done |
| Config entries (`__init__.py`, `entry_data.py`, `routes.py`) | per entry: version, meters, routes, active routes, connection fields, unique id, and the running coordinator | migration, setup, retry, reload, unload, route updates by discovery | stored data can be used; routes lead to their meter; what was saved runs |
| Flows (`config_flow*.py`) | a form, the snapshots held across a validation | add an entry or a meter, change, add or switch a route, edit a bus, scan | no meter is lost or doubled, whichever flows overlap |
| Discovery (`discovery.py`) | what a scan has found so far | browse and probe for gateways, scan a bus, ask a Windows proxy | a scan reports what is there, with its own identity |
| Register grouping and decoding (`reading.py`) | none | `build_register_blocks`, `decode_sensor_value` | requests cover exactly the polled registers; readings are what registers held |
| Settings and gateway actions (`settings.py`, `gateway_settings.py`) | none; registers of the meter and of the gateway | normalize, encode, decode; revert, apply, apply-and-store | what was written comes back; an action is taken whole |
| Profiles, sensors, diagnostics, tooling | tables and functions | - | - |

How they interact: Home Assistant runs everything on one event loop. A
*coordinator* polls through the *client* on a timer; *entities* read the
coordinator's data, and their service calls write through the same client and
ask for a refresh. The *Wi-Fi service* finds a loaded entry and writes through
its coordinator. The client takes a lock for each public method, so polls,
writes and `async_close` (called on unload) alternate at that grain. Tasks are
switched only at an `await`; between two awaits a task is atomic, which is the
grain of the actions here.

What is hard to test: all interleavings at the awaits, cancellation at any of
them, a request that took effect although it failed, polls that return after a
write they did not see, and long sequences of failing and succeeding polls.
`PROJECT.json` lists these hazards with their source lines.

## 2. Modules

| Module | Models | Notes |
|---|---|---|
| `ModbusClient` | `IneproModbusClient` | one task per concurrent caller, `pc` per task; sessions stand for client objects |
| `TransportOwner` | its contract | only the owner opens or closes, one transport at a time |
| `MCModbusClient` | TLC instances | a poller, a writer and a closer |
| `EntryTeardown`, `MCEntryTeardown` | the unload of an entry whose client is in use | extends `ModbusClient`; callers of several calls each, and the task of the unload |
| `SingleCoordinator` | `IneproMeteringCoordinator` | one step per request of a poll; any transport |
| `StaleDataContract` | its contract | what a coordinator may show after a poll began, succeeded or failed |
| `BusCoordinator` | `IneproSerialBusCoordinator` and the availability of bus entities | one step per meter and block |
| `WifiCredentials` | register-write plans of two kinds of callers | one step per write with its verification |
| `OptimisticEntity` | the entity protocol of switch, number, select, text | calls queue for the lock, polls read and return later |
| `BleTransport` | `IneproBleModbusClient` | one request from connect to answer, step per `await`; the meter may answer late or twice |
| `BluezPairing` | `async_bluez_pair_device` and its agent | one step per D-Bus call, each of which may fail, time out or be cancelled |
| `BleProxy` | `IneproBleProxyModbusClient`, the one-off device information check | one step per network call |
| `BleLibrary` | the three of them side by side | independent but for the event loop; one run for all |
| `EntryRoutes` | `entry_data.py`, `routes.py`, `async_migrate_entry` | operators on the data of an entry |
| `EntryStore` | the life of an entry | extends `EntryRoutes`; the entries, their state and what runs |
| `EntryOptions` | options and reconfigure flow | extends `EntryStore`; a form, a validation, a save |
| `EntryCreation` | the flows that add entries | extends `EntryOptions` |
| `ConfigEntries`, `MCConfigEntries` | all of it interleaved; two meters on a bus, a LAN and Bluetooth | `EntryCreation` and its properties |
| `RegisterBlocks` | `reading.py` | operators: grouping, cutting, decoding |
| `MeterSettings` | `settings.py`, `gateway_settings.py` | operators: the tables, normalizing, encoding, decoding |
| `GatewayRoute` | an entry behind a gateway at work | polls, writes of settings, presses of buttons, over the registers of a meter and a gateway |
| `Discovery` | `discovery.py` | the three scans |
| `MCGatewayRoute` | either a scan or an entry at work | the devices and the settings; and that a configuration read covers every setting of the gateway (`SettingsAssumption`) |
| `*Proofs` | theorems | see section 4 |

Correspondence, module by module:

* **ModbusClient.** `lock` and `waiters` are the asyncio lock, `client` is
  `self._client`, `up` the transports that are open in the operating system,
  `failed` those on which a request raised or a write was not confirmed.
  `pc[t]` names the `await` a task is suspended in: `ensure`, `connecting`,
  `request`, `verify`, `drop`, `closing`, `sleep`. `Cancel` is
  `Task.cancel`, `LinkLost` a connection lost outside any request. Operations
  are drawn from `OpsOf[t]`; the payload of a register is one value.
* **EntryTeardown.** `busy` are the callers under way: a poll with its blocks, a
  service call with its writes, a refresh that Home Assistant has been asked for
  and has not begun. They begin only while the entry is loaded and go on after
  it is not, as nothing in the code waits for them. `entry` changes when the
  entities are gone and when the unload returned. `late` is a history variable.
  That an unloaded entry has nothing open is true only if `late` is empty: a
  caller under way makes its next call after the close, connects again and
  leaves the transport open, as `async_shutdown` neither waits for callers nor
  makes the client refuse them, and hides the method of Home Assistant's
  coordinator that would refuse further refreshes.
* **SingleCoordinator.** A reading is the number of the poll that read it, so
  "which poll is this from" is a comparison. `transport` is the entry's and
  never changes. `pc` is the request the poll awaits. `Unexpected` is any exception that is not an `IneproMeteringError`
  (a short answer makes `decode_sensor_value` raise), `Cancelled` the end of
  the task by Home Assistant. `ok` is `last_update_success`. `infoRead` is what
  the poll made of the gateway's metadata: nothing, because the gateway was not
  reached (what is known stays); an object without fields, because it answered
  with errors (`"lost"`: the object replaces what is known, so the metadata is
  forgotten); or the metadata. Partly read metadata counts as lost.
* **BusCoordinator.** The same for a list of meters. `Online` is the
  availability of a bus entity in `sensor.py`.
* **WifiCredentials.** A register's value is the number of the call that
  wrote it. `active` is what the meter uses since the last apply command,
  which is how the service's description explains that command (external).
* **OptimisticEntity.** `queue` holds the values of calls that have or await
  the client's lock, `poll` what the running poll has read. The history
  variables `disturbed` and `verified` are used by properties only. Every
  assignment in the code is followed by `async_write_ha_state` in the same
  step, therefore the state Home Assistant shows is the operator `Shown`. A
  gateway setting is written by one plan, as the last register of it.
* **BleTransport.** `pc` is the `await` the request is suspended in; `up` are
  the links open in the operating system, `client` is `self._client`, `queue`
  the notification queue. `coming` holds the answers the meter may still send: one
  may come late, after the request gave up. The pairing mode is chosen at the
  start. `agent` is the agent that pairing on demand keeps registered. What a
  request keeps for itself (`why`, `attempt`, `retry`, `gatt`, `sent`,
  `arrived`) is cleared where it ends (`Over`). A request for the Device
  Information ends in one of two failures: without the service, or a value of
  it, `modbus.py:275` raises and keeps the session (`GattFails`); any other
  exception closes the transport (`GattRaises`, line 278). `strays` are the
  links that `_reset_client` or a cancellation may have left up: a
  `disconnect()` that raises is logged only (`ble.py:460`). bleak is taken to
  leave no link when a connection attempt fails or is cancelled (external).
* **BluezPairing.** `bzAt` is the `await`; `bzBus`, `bzAgent`, `bzDiscovery`
  and `bzPairing` are what BlueZ knows of the caller (external: it forgets all
  of it when the D-Bus connection is closed). `bzEnd` is how the call will end
  once it has unwound.
* **BleProxy.** `px*` is a request over the proxy, `ck*` the reading of the
  device information on a link of its own. A proxy answer that is "ok" but
  holds no frame is `malformed`: the request fails and `_connected` is set all
  the same. `ckUndone` says that the `disconnect()` of the last read raised or
  was cancelled.
* **EntryRoutes.** An entry is a record of the fields that routes and flows
  read and write. A route is [transport, ep, line, slave, purpose]: `ep` stands
  for host and port, serial port or Bluetooth address, `line` for the line
  settings or the Bluetooth name; `Canonical` for the normalization of
  addresses in route keys. `Migrate` is `async_migrate_entry` from every
  version. Titles, software versions and timeouts are left out.
* **EntryStore, EntryOptions, EntryCreation.** `entries` is the storage of Home
  Assistant, `state` its state of an entry (loaded, setting up, waiting to try
  again, failed to unload), `running` the connection the coordinator was built
  with. A flow holds what its code holds across the `await` of a validation,
  which asks the meter behind the connection for its serial (`Answers`,
  external). `saved` is a history variable: entries a user saved last.
* **RegisterBlocks, MeterSettings.** Tables are translated with their register
  addresses; a reading is tagged with what it is. What a user
  enters in a number field is in tenths, because the code rounds it to an
  integer.
* **GatewayRoute.** `meter` and `staged` are registers; `active` and `stored`
  are what the gateway runs on and starts from, which is what the names and
  texts of its actions say (external, as is `clears`: whether the gateway
  clears an action register by itself). `held` and `seen` are history
  variables. A poll is a step per block, a write a step with its read-back:
  `WriteHolds`, `WriteUnconfirmed` (it took effect, the answers were lost),
  `WriteLost`. A device answers with as many registers as it was asked for.
* **Discovery.** A host or slave is a record of what it is and what its identity
  registers hold. `missed` counts lost requests. Host names, the expansion of
  scan targets and payload layouts are sets. `NamedBy` says what the identity
  registers of a meter make of it; it is what the scan has to find out.

## 3. What TLC checks

| Run | Bounds | Shows |
|---|---|---|
| `client_shared` | 3 tasks, 2 client objects, 2 values, 3 write attempts (as in the code), 2 identification pages, a close that suspends, cancellation everywhere but in it | mutual exclusion on the transport, no reuse after failure, write means held, no open transport that nobody refers to, refinement of `TransportOwner` |
| `client_ble` | a poll and a service call beside the unload of their entry, one client object and one value, a close that suspends, no cancellation | close leaves nothing open, what was closed with no caller under way stays closed, and every call returns |
| `client_ble_cancelled_close` | cancellation with a suspending close | **violated**: a cancelled close leaves a link that nothing refers to |
| `single` | every transport, 2 blocks, 7 polls, grace 3 (as in the code) | availability is exactly the grace, snapshots whole, metadata lost only when the gateway answers with errors, refinement of `StaleDataContract`, identification asked at most once after a failure |
| `bus` | 2 meters of 2 blocks behind a gateway, 3 polls | meters are independent, readings kept, a silent bus is no failure |
| `wifi_one_caller` | 6 calls in sequence | credentials belong together whatever failed before |
| `entity` | 3 values, 4 calls or foreign writes | what is shown agrees with the meter once the data does; liveness |
| `entity_reverted` | 2 values, 3 calls | **violated**: a stale poll reverts a verified value |
| `ble` | 2 requests with 2 links and every pairing mode, beside one BlueZ pairing and one proxy request | nothing left behind, an answer belongs to its request, requests and pairings end |
| `entries` | 2 entries found empty or in one of six older forms, 1 options flow and 2 adding flows with 2 forms each, 3 advertisements, 6 connections | stored data sound, routes lead to their meter, what was saved runs, no meter lost or doubled |
| `entries_polled` | the same | **violated**: a meter of a bus with another active route is polled on the bus, at the wrong slave |
| `gateway_route` | 3 hosts, 2 slaves, 2 proxy hosts and 2 lost requests; or 6 sensors, two of them names of one register, and 4 configuration registers with at most 4 registers in a read, 1 poll, 2 calls of 2 users, 1 fault, measurement or disabled entity | scans report what is there; requests cover exactly, readings are what registers held, settings read back, actions are whole |

Why the bounds are enough. A second task suffices to break mutual exclusion
and the third is the closer, which is the only method that does not connect;
two client objects are one to be closed and its successor. A close that does not
suspend is `ResetClient` and `Closed` in one step, so what `client_shared` shows
of a close that does is no less than what happens on a serial or TCP transport.
A close that is completed is taken to close its transport there; the
`disconnect()` of Bluetooth that raises is a matter of `BleTransport`. Seven polls are a
full grace, the poll that fills it, the one after it and the one that ends it,
with two to spare. Two blocks are one read and one skipped. Two meters are one
that answers and one that does not. Of the writes of an entity, three
overlapping calls and a foreign write already give every order of start, end
and poll. Two Bluetooth requests are one that fails or is given up and one that
may get its answer; a link that is lost has one successor. Two entries and
three flows are the fewest in which a flow finds, while it validates, that
another has changed its entry and a third has added the same meter. Four
registers are the fewest that hold two of the two-register sensors with a third
to be refused, so that the limit, gaps and neighbours all occur; the code's 120
only lengthens blocks. Two calls overlap, and a press of two writes can fail
between them. Where the theorems of section 4 apply, they remove these bounds.

`CHECK_DEADLOCK FALSE` is set where the bound on polls or calls ends the run,
and in `client_ble`, where nothing is left to do once the entry is unloaded.

Fairness. `client_ble` assumes `WF(Step(t))` for each task: every connect,
request and close of the transport libraries has a timeout, so a task does
not wait on the wire for ever, and asyncio resumes what can run. It does not
assume that requests succeed. `entity` assumes that calls and polls end (weak
fairness, the same reason) and, as strong fairness, that a poll which has read
the setting returns again and again: the coordinator polls for ever and a
meter that never answers would tell nothing about the entity. `ble` assumes
weak fairness of the request and of the pairing: every call to bleak has a
timeout, and a D-Bus call is answered or fails; the radio, the meter and
cancellation have none.

The violated runs are disagreements between the code and a sentence of the
repository; each is described with the sentence in `PROJECT.json` under
`findings`. Five more were found and are kept as hazards with a note instead of
a run; TLC violates the formula at once when it takes the place of the
properties of the module's run:

* `CachedSlavesDoNotAnswer` (`SingleCoordinator`): "slaves that do not support
  device identification" (`coordinator.py:71`) include every meter that failed
  to answer once.
* `OnlineMeansReadLast` (`BusCoordinator`): "online/offline status based on the
  last per-meter refresh result" (`sensor.py:718`) is not what a poll that
  raises leaves.
* `CredentialsBelongTogether` (`WifiCredentials` with two callers): the plans of
  two calls alternate.
* `AnswerBelongsToRequest` (`BleTransport`): a frame sent again on a link kept
  through pairing is answered twice, and the second answer is taken for the
  next request's.
* `ControlsAreRead` (`GatewayRoute`): "Configuration registers are still read
  because writable controls use them" (`coordinator.py:599`), but the register
  behind the Wi-Fi switch is a diagnostic sensor.

Five properties have exceptions that the code makes necessary, named in their
comments: `NothingLeftBehind` of `BleInv` (links of cancelled requests, links
whose disconnection raised, and the session that gave no Device Information),
`NothingLeftOpen` of `ProxyInv` (the link of a Device Information read whose
disconnection raised or was cancelled), `MetersStay` (the switch of a route writes back the bus as it was
before the validation), `FoundAsTheyAre` (with lost requests a scan may miss
devices, name a meter by its meter code, or take a GROW meter for a gateway) and
`ActionTakesAll` (a press that another entity's write came between).

Behaviour seen while modelling of which no property speaks, because the code and
its documents promise nothing there: editing the line settings of a bus leaves
its unique id (`config_flow_options_update.py:222`); adding meters to a known
port with other line settings leaves its meters without a route of the bus
(`config_flow_serial_bus.py:174`); `update_connection` changes nothing when
discovery has readdressed the route meanwhile (`config_flow_options_update.py:367`);
a discovery that updates an entry which is being set up causes no reload
(`config_flow_create_discovery.py:156`); one meter may be in an entry of its own
and on a bus (`config_flow_create_discovery.py:802`); a connection lost during a
bus scan makes the rest of the bus look empty (`discovery.py:427`);
`UnregisterAgent` has no timeout (`ble.py:1896`); a `disconnect()` that raises
may leave its link up, with nothing left that refers to it, in `_reset_client`
(`ble.py:459`) and in the one-off read of the Device Information, where a
cancellation does the same (`ble.py:202`); notifications of such a link still
go to the queue of the client's next session; a register write may be sent
twice when pairing comes between (`ble.py:785`).

One more consequence of the entity protocol is visible in `disturbed`: the
optimistic value is dropped only by a poll that agrees with it. When another
master, or `set_wifi_credentials`, writes the register before such a poll, or
when the last call is cancelled (`except Exception` does not see
`CancelledError`), the entity keeps showing the old command until its next
call. The properties of `entity` therefore speak of undisturbed entities.

## 4. What TLAPS proves

All theorems hold for every value of the constants under the named
assumptions of the modules.

* **ModbusClientProofs.** `Invariance` is the inductive invariant: types;
  the waiters are exactly the tasks at `waiting`, each once; a task inside a
  method holds the lock; `sess[t]` is the current client while `t` has a
  request on it; a failed client is on its way through `drop`; a transport is
  open only if it is the client or is being closed. The first and the last
  parts are needed together: that nobody else resets the client is what keeps
  a session current. From it follow `TypeCorrect`,
  `RequestsStayOnTheirClient`, `FailedTransportsAreDropped`,
  `WritesAreVerified` and, under the assumption `CloseCompletes` that a begun
  close is completed (no task is cancelled in a close that suspends: that of
  BLE, for which `client_ble_cancelled_close` shows what happens otherwise, and
  that of a serial port behind a URL, which runs in a thread and goes on there
  when its caller is cancelled, `modbus.py:379`), `NothingStaysOpen`, `CloseCloses` and `ImplementsContract`, the
  refinement of `TransportOwner`. The entry uses the same client
  (`EntryUsesClient`), so all of this holds under `TeardownSpec` too, and with
  `TeardownInv` it gives `QuietUnloadCloses`: with no late caller the unloader
  alone works on the client, and what its close leaves behind (`CloseCloses`)
  nobody changes.
* **SingleCoordinatorProofs.** `CoordinatorInvariance`: the published data is
  the remembered data, the failure counter is the number of misses capped at
  the grace, the readings at hand are of the running poll, and a snapshot
  without identification is of a slave in the cache. `Availability` and
  `SnapshotsAreWhole` are parts of it; the action properties
  `DataOnlyGetsNewer` and `IdentificationIsNotRetried` follow from it, and
  `CoordinatorImplementsContract` is the refinement of `StaleDataContract`,
  for entries of every transport.
* **BusCoordinatorProofs.** `BusInvariance`: what is published is what is
  remembered, some meter was read once there is data, and each result at hand
  is whole and of this poll or the remembered one. From it
  `MetersAreIndependent`, `SilenceIsTolerated` and `KnownReadingsStay`.
* **WifiCredentialsProofs.** Under the assumption `OneCaller` (no two calls
  overlap; otherwise they mix, section 3) `WifiInvariance`:
  a call in progress has its earlier writes in the meter, so that a call which
  reaches the apply command applies its own pair. From it
  `NoMixedCredentials` and `ReturnedIsInForce`.
* **OptimisticEntityProofs.** `OptimisticInvariance`: an undisturbed
  optimistic value is that of the last call in the queue or, with an empty
  queue, the register's. The queue is needed because the lock serves calls in
  the order of their start, so the last to set the optimistic value is the
  last to write. `ShownAgrees` follows. The lemmas on sequences say what
  joining and leaving a queue does to its last element.
* **GatewayRouteProofs.** Three invariants for `RouteSpec`, and one for
  `ScanSpec`, the specification of a scan on its own.
  - `PressInv` adds to `ActionTakesAll` what a press in progress has left to
    write and, between the two writes of apply-and-store, that an undisturbed
    press has the first in force; without that the second write would not
    establish the whole. `ActionsAreWhole` follows.
  - `PollInv`: during a poll every sensor it reads has a reading or is in a block
    still to read, unless a block failed; every reading so far is among the values
    its registers had; and when no block is left, a poll without failure has read
    them all. It rests on the grouping (`BlocksAre`, `GroupedCovers`): by
    induction over the sensors grouped so far, each is in exactly one block, and
    no sensor left begins before the last block, which is what makes a joined
    block free of gaps. `SliceIs` says that what is cut out of a block for a
    sensor is what its own registers hold. `RequestsAlwaysCover` and
    `ReadingsAlwaysAre` follow.
  - `HeldInv` relates the history variable `held` to the registers: what was last
    written for a setting is what its registers decode to. `MeterRoundTrip` and
    `GatewayRoundTrip` say that a value survives its encoding, for every setting of
    the two tables and every value that can be entered, `SettingsApart` that no two
    settings share a register, so that one write leaves the others alone.
    `SettingsReadBack`, an action property, follows from `HeldInv` and `PollInv`.

  The named assumptions are `InputsAssumption` (the settings are those of the
  tables and their sensors are in the profile; the meter measures into other
  registers; users enter what the forms admit) and `ProfileAssumption` (a finite
  profile of sensors with different keys that fit in a request, with some
  configuration sensors, as every GROW profile is). That sensors begin at
  different registers is not assumed: in the GROW tables some registers have
  two names.
  - `ScanInd` says of the scan that runs what the part already scanned shows.
    Of a network: what is found is a gateway, or a GROW meter whose block was
    not read, and, when no request was lost, every gateway asked is still to be
    asked, being asked, or found. Of a bus (`BusInd`): below the slave id it is at,
    what is found is what is supported, and the identity read so far is that of
    the slave it is at, or a lost register; that nothing stays of the slave before
    is what each identification needs. Of a proxy: the strongest advertisement of
    each meter among those read (`Strongest`), by induction over its answer.
    `FoundAlways` follows.

  The scans rest on three assumptions on constants: the tables of
  `discovery.py` name the meters sold rightly (`DevicesAssumption`, which also
  says that slave ids are counted from 1), GROW meters and gateways are told
  apart by their serial numbers (`HostsAssumption`), and the answer of a proxy is
  a list with signal strengths (`HeardAssumption`). So the theorem is about the
  scan, not about the contents of the tables.

* **BleLibraryProofs.** `LibraryInd` is the conjunction of the invariants of
  the transport (`BleInd`), of pairing (`BluezInd`) and of the proxy
  (`ProxyInd`). `BleInv` speaks of links in use and of answers, and is kept only
  because each request is known to be where its program says: which link it
  holds or has given back, that its frame is on the link it sent it on, that a
  repeat belongs to a link that was paired. Its exceptions are those of the
  property: of a link that is up and unknown to the client it is known that its
  request was cancelled or its disconnection raised (`Known`). `TransportSafe`, `PairingSafe` and
  `ProxySafely` are parts of the invariant; `OwnAnswerInFreshSession` follows
  from it, with the hypothesis of the property itself that on the links in
  use no request was cancelled, no disconnection raised and no frame repeated.
* **ConfigEntriesProofs.** `EntriesInvariant` says that every entry present is
  the data of an entry (`IsEntry`), that unique ids differ, that from the start
  of a setup the coordinator runs with what was saved, or a reload is due, and
  that what a form keeps over its validation is still data of its entry. The
  last part carries the proof: the entry may be written, set up or migrated
  while the form waits, so `Steady` says what no step changes of an entry. From
  it follow `SavedRunsAlways`, `OneDirectEntryAlways` and `MetersStayAlways`.
  `StoredDataAlways` and `RoutesLeadAlways` need a second invariant, `SoundInd`
  (`SoundInvariant`): every entry is as the version it has left it
  (`WasWritten`), the data and the connection that a form or a flow keeps while
  it waits are sound too, and every route among them, and every connection that
  waits to become one, leads to its meter (`LeadsTo`). A connection that a form
  keeps over its validation leads there only if the validation succeeds, so the
  invariant says of it where it may lead (`MayLeadTo`). For an entry of one meter, each way of writing it
  ends in `WithRoutes`, which makes a sound entry of any routes; the discoveries
  write routes themselves and carry the hard part. The lemmas on `Gathered` and
  `Deduplicate` (keys differ, none is lost, a list without duplicates stays)
  are inductions over positions, from the least position where they could fail.
  The named assumptions are on constants only: finitely many places and
  inputs; that what is stored was written by some version of the integration,
  with one entry for every unique id (`StoredAssumption`); that a meter has
  one Bluetooth address (`AddressAssumption`); and that a meter is where it
  advertises itself and answers at one slave on its own connections
  (`SlaveAssumption`). Without `AddressAssumption`,
  `update_single_meter_bluetooth_route_from_discovery`, which does not merge
  routes, may move a route to an address that another route of the entry
  already has, and leave two routes with one key. `SlaveAssumption` is about the
  devices: the discoveries write what is advertised into the routes without
  asking the meter, and a discovered route takes the slave of the connection
  that the entry has.

Only model-checked: the liveness properties `EveryCallReturns`,
`EventuallyShown`, `RequestEnds` and `PairingEnds` (fairness is beyond the
prover used). Every other property of the passing runs is stated by a theorem.
The properties of the violated runs are refuted, not proved.

## 5. Plan

Done: the client and its contract, both coordinators, Wi-Fi provisioning, the
entity protocol and the proofs about them; the Bluetooth library; config entries
with their flows and the end of an entry; settings, register grouping, gateway
actions and discovery.
Next: `BleTransport` as a refinement of one request of `ModbusClient`, which
would join the two transports of the project, and the setup of an entry again
while a late caller of the unload before it still holds the transport.

## 6. Not modelled

Profiles and register tables beyond the addresses of settings, scaling and
rounding of readings, the OCMF text, log and display text, diagnostics and
sensor entities, the forms of the config flows with their texts and defaults,
host expansion and payload formats of scans, and the SBOM script: they keep no
state across an `await` that another task shares, or are data. Devices and Home
Assistant are external and modelled as far as the code uses them; the map marks
these definitions. `PROJECT.json` gives the reason for each component.
