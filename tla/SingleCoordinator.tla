------------------------- MODULE SingleCoordinator -------------------------
(***************************************************************************)
(* The polling coordinator of a config entry with one meter,               *)
(* IneproMeteringCoordinator of custom_components/inepro_metering/         *)
(* coordinator.py, during the life of one coordinator object.              *)
(*                                                                         *)
(* A poll is a task that awaits one request of the Modbus client after the *)
(* other; a step is the answer to one request and what the task does up to *)
(* the next one.  A reading is represented by the number of the poll in    *)
(* which it was read, 0 when there is none.  Home Assistant's              *)
(* DataUpdateCoordinator starts the polls and keeps the result.            *)
(***************************************************************************)
EXTENDS Naturals

CONSTANTS
  NBlocks,     \* register blocks of the profile (build_register_blocks)
  GracePolls,  \* BLE_STALE_READ_GRACE_POLLS
  Answers4314, \* the meter supports device identification
  MaxPolls,    \* bound: polls
  NoData       \* None

Blocks == 1 .. NBlocks
Polls == 0 .. MaxPolls

ASSUME CoordinatorBounds ==
  NBlocks \in Nat \ {0} /\ GracePolls \in Nat /\ MaxPolls \in Nat
ASSUME CoordinatorFlags == Answers4314 \in BOOLEAN

\* What a poll makes of the gateway's metadata.
InfoResults == {"none", "lost", "read"}

\* What the code tells transports apart by: Bluetooth, directly or through a
\* proxy; those that reach a gateway's management registers; all the others.
Transports == {"ble", "gateway", "other"}

Snapshots == [poll : Polls \ {0}, blocks : [Blocks -> Polls], ident : Polls,
              gateway : Polls, settings : Polls]
ASSUME NoDataAssumption == NoData \notin Snapshots

VARIABLES
  transport,   \* of the entry the coordinator was built for; never changes
  pc,          \* the request the poll awaits
  poll,        \* number of the current or last poll
  blk,         \* the block it reads
  infoRead,    \* what gateway_info is: None, without fields, or read
  confRead,    \* the poll's gateway_configuration is not None
  readings,    \* the poll's readings, per block
  unsupported, \* the slave is in the cache of unsupported slaves
  last,        \* _last_data
  lastGateway,  \* _last_gateway: the poll that read it, 0: none or no fields
  lastSettings, \* _last_gateway_settings: the poll that read them
  failures,    \* _consecutive_failures
  data,        \* coordinator.data
  ok,          \* coordinator.last_update_success
  misses       \* history: polls that failed since the last one that did not

local == <<blk, infoRead, confRead, readings>>
kept == <<last, lastGateway, lastSettings, failures, data, ok, misses>>
vars == <<transport, pc, poll, local, unsupported, kept>>

Ble == transport = "ble"
Gateway == transport = "gateway"   \* supports_gateway_management

TypeOK ==
  /\ transport \in Transports
  /\ pc \in {"idle", "info", "config", "blocks", "ident"}
  /\ poll \in Polls
  /\ blk \in Blocks
  /\ infoRead \in InfoResults /\ confRead \in BOOLEAN
  /\ readings \in [Blocks -> Polls]
  /\ unsupported \in BOOLEAN
  /\ last \in Snapshots \cup {NoData}
  /\ lastGateway \in Polls /\ lastSettings \in Polls
  /\ failures \in 0 .. GracePolls
  /\ data \in Snapshots \cup {NoData}
  /\ ok \in BOOLEAN
  /\ misses \in Polls

Nothing == [b \in Blocks |-> 0]

Init ==
  /\ transport \in Transports
  /\ pc = "idle" /\ poll = 0
  /\ blk = 1 /\ infoRead = "none" /\ confRead = FALSE /\ readings = Nothing
  /\ unsupported = FALSE
  /\ last = NoData /\ lastGateway = 0 /\ lastSettings = 0 /\ failures = 0
  /\ data = NoData /\ ok = TRUE /\ misses = 0

-----------------------------------------------------------------------------
(* The end of a poll *)

\* Wrong on purpose: what the poll could not read is forgotten.
NewestOnly(read, known) == IF read THEN poll ELSE 0

\* What this poll read replaces what is known, unless it read nothing.
Newer(read, known) == IF read THEN poll ELSE known

\* What the poll leaves known of the gateway's metadata.  Requests answered with
\* errors make an IneproTcpGatewayInfo without fields, which replaces what was
\* known like any other.
Metadata == IF infoRead = "lost" THEN 0 ELSE Newer(infoRead = "read", lastGateway)

Snapshot(rs, id) ==
  [poll |-> poll, blocks |-> rs, ident |-> id,
   gateway |-> Metadata,
   settings |-> Newer(confRead, lastSettings)]

\* Wrong on purpose: the failures are not forgotten.
PollReturnsCounting(rs, id) ==
  /\ pc' = "idle"
  /\ last' = Snapshot(rs, id) /\ data' = Snapshot(rs, id)
  /\ lastGateway' = Metadata
  /\ lastSettings' = Newer(confRead, lastSettings)
  /\ ok' = TRUE /\ misses' = 0 /\ readings' = rs
  /\ UNCHANGED <<poll, blk, infoRead, confRead, failures>>

\* The poll returns: the snapshot is remembered and published.
PollReturns(rs, id) ==
  /\ pc' = "idle"
  /\ last' = Snapshot(rs, id)
  /\ data' = Snapshot(rs, id)
  /\ lastGateway' = Metadata
  /\ lastSettings' = Newer(confRead, lastSettings)
  /\ failures' = 0
  /\ ok' = TRUE
  /\ misses' = 0
  /\ readings' = rs
  /\ UNCHANGED <<poll, blk, infoRead, confRead>>

\* Wrong on purpose: the grace is not limited to Bluetooth.
KeepStaleDataAnywhere == last # NoData /\ failures < GracePolls

\* _should_keep_ble_stale_data
KeepStaleData == Ble /\ last # NoData /\ failures < GracePolls

\* The poll raised: on Bluetooth the last data is returned instead for a
\* while, otherwise UpdateFailed leaves the data and clears ok.
PollRaises ==
  /\ pc' = "idle"
  /\ failures' = IF KeepStaleData THEN failures + 1 ELSE failures
  /\ data' = IF KeepStaleData THEN last ELSE data
  /\ ok' = KeepStaleData
  /\ misses' = misses + 1
  /\ UNCHANGED <<poll, local, unsupported, last, lastGateway, lastSettings>>

-----------------------------------------------------------------------------
(* A poll *)

\* Wrong on purpose: the readings of the previous poll are kept.
StartPollOnOldReadings ==
  /\ pc = "idle"
  /\ poll < MaxPolls
  /\ poll = 0 \/ data # NoData
  /\ poll' = poll + 1
  /\ pc' = IF Gateway THEN "info" ELSE "blocks"
  /\ blk' = 1
  /\ infoRead' = "none" /\ confRead' = FALSE
  /\ UNCHANGED <<readings, unsupported, kept>>

\* Home Assistant polls a coordinator again only when its first refresh
\* succeeded; a failed setup drops the coordinator.
StartPoll ==
  /\ pc = "idle"
  /\ poll < MaxPolls
  /\ poll = 0 \/ data # NoData
  /\ poll' = poll + 1
  /\ pc' = IF Gateway THEN "info" ELSE "blocks"
  /\ blk' = 1
  /\ infoRead' = "none" /\ confRead' = FALSE
  /\ readings' = Nothing
  /\ UNCHANGED <<unsupported, kept>>

\* Gateway metadata is None when the gateway is not reached, and an object without
\* fields when it answers every request with an error; the poll goes on.
ReadInfo ==
  /\ pc = "info"
  /\ infoRead' \in InfoResults
  /\ pc' = "config"
  /\ UNCHANGED <<poll, blk, confRead, readings, unsupported, kept>>

ReadConfiguration ==
  /\ pc = "config"
  /\ confRead' \in BOOLEAN
  /\ pc' = "blocks"
  /\ UNCHANGED <<poll, blk, infoRead, readings, unsupported, kept>>

\* After the last block: the poll raises when no block was read, and reads
\* the device identification unless the slave is known not to answer.
AfterBlock(rs) ==
  \/ /\ blk < NBlocks
     /\ blk' = blk + 1
     /\ readings' = rs
     /\ UNCHANGED <<pc, poll, infoRead, confRead, unsupported, kept>>
  \/ /\ blk = NBlocks
     /\ rs # Nothing
     /\ ~unsupported
     /\ pc' = "ident"
     /\ readings' = rs
     /\ UNCHANGED <<poll, blk, infoRead, confRead, unsupported, kept>>
  \/ blk = NBlocks /\ rs # Nothing /\ unsupported /\ PollReturns(rs, 0)
       /\ UNCHANGED unsupported
  \/ blk = NBlocks /\ rs = Nothing /\ PollRaises

BlockRead == pc = "blocks" /\ AfterBlock([readings EXCEPT ![blk] = poll])

\* An IneproMeteringError skips the block.
BlockSkipped == pc = "blocks" /\ AfterBlock(readings)

IdentRead ==
  /\ pc = "ident"
  /\ Answers4314
  /\ PollReturns(readings, poll)
  /\ UNCHANGED unsupported

\* Wrong on purpose: the failure is forgotten.
IdentFailsUnnoticed ==
  /\ pc = "ident"
  /\ PollReturns(readings, 0)
  /\ UNCHANGED unsupported

\* Any IneproMeteringError puts the slave into the cache.
IdentFails ==
  /\ pc = "ident"
  /\ unsupported' = TRUE
  /\ PollReturns(readings, 0)

\* Any other exception ends the poll: a short answer that cannot be decoded.
Unexpected == pc # "idle" /\ PollRaises

\* Home Assistant cancels the task: CancelledError is no Exception.
Cancelled ==
  /\ pc # "idle"
  /\ pc' = "idle"
  /\ UNCHANGED <<poll, local, unsupported, kept>>

Step ==
  \/ StartPoll \/ ReadInfo \/ ReadConfiguration
  \/ BlockRead \/ BlockSkipped \/ IdentRead \/ IdentFails
  \/ Unexpected \/ Cancelled

Next == Step /\ UNCHANGED transport

Spec == Init /\ [][Next]_vars

-----------------------------------------------------------------------------
(* Properties *)

Tolerated == IF Ble THEN GracePolls ELSE 0

\* Once there is data, the entities are available exactly as long as no more
\* polls failed in a row than the transport's grace allows: a failing meter
\* is noticed in time, one good poll restores the whole grace, and a transient
\* failure does not blank a Bluetooth meter (_should_keep_ble_stale_data).
AvailableWithinGrace == data # NoData => (ok <=> misses <= Tolerated)

\* Data kept through failed polls is one poll's snapshot: at least one block
\* of that poll, and no reading of any other poll mixed into it.
OnePollPerSnapshot ==
  data # NoData =>
    /\ \A b \in Blocks : data.blocks[b] \in {0, data.poll}
    /\ data.blocks # Nothing
    /\ data.ident \in {0, data.poll}
    /\ data.gateway <= data.poll /\ data.settings <= data.poll

\* What the entities show never goes back to an older poll, and what is known of
\* the gateway is not forgotten by a poll that could not reach it: only one that
\* the gateway answered with errors publishes metadata without fields.
NeverOlder ==
  [][data # NoData =>
       /\ data' # NoData
       /\ data'.poll >= data.poll
       /\ data'.gateway < data.gateway => infoRead = "lost" /\ data'.poll = poll
       /\ data'.settings >= data.settings]_vars

\* Some meters close the connection when asked for their identification: once
\* a poll had to return without it, no later poll asks for it.
NotAskedAgain == [][data # NoData /\ data.ident = 0 => pc' # "ident"]_vars

\* The coordinator implements the contract of stale data.
Contract ==
  INSTANCE StaleDataContract
    WITH tolerated <- Tolerated, started <- poll,
         shown <- IF data = NoData THEN 0 ELSE data.poll

KeepsContract == Contract!Spec

\* "Return cached slaves that do not support device identification."
\* (_get_unsupported_device_identification_slaves)
CachedSlavesDoNotAnswer == unsupported => ~Answers4314

\* The inductive invariant: what is published is what is remembered; the
\* failure counter counts the misses up to the grace; the readings at hand
\* and the snapshots are never newer than the running poll; a snapshot without
\* identification is of a slave that is in the cache.
DataInv ==
  /\ data = last
  /\ data = NoData => lastGateway = 0 /\ lastSettings = 0 /\ failures = 0
  /\ data # NoData =>
       /\ data.poll <= poll /\ (pc # "idle" => data.poll < poll)
       /\ lastGateway = data.gateway /\ lastSettings = data.settings
       /\ data.ident = 0 => unsupported

CountInv ==
  /\ failures = IF ~Ble \/ data = NoData THEN 0
                ELSE IF misses <= GracePolls THEN misses ELSE GracePolls
  /\ misses <= poll /\ (pc # "idle" => misses < poll)

PollInv ==
  /\ \A b \in Blocks : readings[b] \in {0, poll}
  /\ pc # "idle" => poll > 0
  /\ pc = "ident" => readings # Nothing /\ ~unsupported

IInv == TypeOK /\ DataInv /\ CountInv /\ PollInv
          /\ AvailableWithinGrace /\ OnePollPerSnapshot

=============================================================================
