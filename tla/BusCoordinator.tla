--------------------------- MODULE BusCoordinator ---------------------------
(***************************************************************************)
(* The polling coordinator of a config entry with several meters on one    *)
(* RTU bus or behind one gateway, IneproSerialBusCoordinator of            *)
(* custom_components/inepro_metering/coordinator.py, with the availability *)
(* that the entities of sensor.py, switch.py, number.py and select.py      *)
(* derive from its data.                                                   *)
(*                                                                         *)
(* A step of a poll is the read of the gateway metadata, of the gateway    *)
(* configuration, or of one meter's whole profile (whose own steps are in  *)
(* SingleCoordinator and touch nothing that is shared).  A reading is      *)
(* represented by the number of the poll in which it was read.             *)
(***************************************************************************)
EXTENDS Naturals

CONSTANTS
  NMeters,  \* meters configured on the bus, possibly none behind a gateway
  NBlocks,  \* register blocks of a meter's profile
  Gateway,  \* the transport reaches a gateway's management registers
  MaxPolls, \* bound: polls
  NoData    \* None

Meters == 1 .. NMeters
Blocks == 1 .. NBlocks
Polls == 0 .. MaxPolls

ASSUME BusBounds ==
  NMeters \in Nat /\ NBlocks \in Nat \ {0} /\ MaxPolls \in Nat
ASSUME BusFlags == Gateway \in BOOLEAN

\* What a poll makes of the gateway's metadata: None when the gateway is not
\* reached, an object without fields when it answers every request with an error.
InfoResults == {"none", "lost", "read"}

\* MeterCoordinatorData: the readings, connection.available and
\* connection.last_successful_update.
MeterData == [blocks : [Blocks -> Polls], available : BOOLEAN, last : Polls]
BusData == [poll : Polls, meters : [Meters -> MeterData],
            gateway : Polls, settings : Polls]
ASSUME BusNoData == NoData \notin BusData

VARIABLES
  pc,           \* what the poll reads now
  poll,         \* number of the current or last poll
  meter,        \* the meter it reads
  infoRead,     \* what the poll made of the gateway's metadata
  confRead,     \* it read the gateway's configuration
  results,      \* meter_results of the poll
  lastMeters,   \* _last_meter_data
  lastGateway,  \* _last_gateway: the poll that read it, 0: none or no fields
  lastSettings, \* _last_gateway_settings: the poll that read them
  data,         \* coordinator.data
  ok,           \* coordinator.last_update_success
  ended         \* history: the last poll that returned or raised

local == <<meter, infoRead, confRead, results>>
kept == <<lastMeters, lastGateway, lastSettings, data, ok, ended>>
vars == <<pc, poll, local, kept>>

TypeOK ==
  /\ pc \in {"idle", "info", "config", "meters"}
  /\ poll \in Polls /\ ended \in Polls
  /\ meter \in 1 .. NMeters + 1
  /\ infoRead \in InfoResults /\ confRead \in BOOLEAN
  /\ results \in [Meters -> MeterData]
  /\ lastMeters \in [Meters -> MeterData]
  /\ lastGateway \in Polls /\ lastSettings \in Polls
  /\ data \in BusData \cup {NoData}
  /\ ok \in BOOLEAN

Nothing == [b \in Blocks |-> 0]

\* A meter that was never read; `previous` is None or has no readings.
NeverRead == [blocks |-> Nothing, available |-> FALSE, last |-> 0]

Init ==
  /\ pc = "idle" /\ poll = 0 /\ ended = 0
  /\ meter = 1 /\ infoRead = "none" /\ confRead = FALSE
  /\ results = [m \in Meters |-> NeverRead]
  /\ lastMeters = [m \in Meters |-> NeverRead]
  /\ lastGateway = 0 /\ lastSettings = 0
  /\ data = NoData /\ ok = TRUE

-----------------------------------------------------------------------------
(* A poll *)

\* Home Assistant polls again only when the first refresh succeeded.
StartPoll ==
  /\ pc = "idle"
  /\ poll < MaxPolls
  /\ poll = 0 \/ data # NoData
  /\ poll' = poll + 1
  /\ pc' = IF Gateway THEN "info" ELSE "meters"
  /\ meter' = 1
  /\ infoRead' = "none" /\ confRead' = FALSE
  /\ results' = [m \in Meters |-> NeverRead]
  /\ UNCHANGED kept

ReadInfo ==
  /\ pc = "info"
  /\ infoRead' \in InfoResults
  /\ pc' = "config"
  /\ UNCHANGED <<poll, meter, confRead, results, kept>>

ReadConfiguration ==
  /\ pc = "config"
  /\ confRead' \in BOOLEAN
  /\ pc' = "meters"
  /\ UNCHANGED <<poll, meter, infoRead, results, kept>>

Remember(d) ==
  /\ pc = "meters" /\ meter <= NMeters
  /\ results' = [results EXCEPT ![meter] = d]
  /\ meter' = meter + 1
  /\ UNCHANGED <<pc, poll, infoRead, confRead, kept>>

\* At least one block of the meter was read.
MeterRead ==
  \E read \in (SUBSET Blocks) \ {{}} :
    Remember([blocks |-> [b \in Blocks |-> IF b \in read THEN poll ELSE 0],
              available |-> TRUE, last |-> poll])

\* Wrong on purpose: a meter that does not answer stays as it was.
MeterFailsUnnoticed ==
  pc = "meters" /\ meter <= NMeters /\ Remember(lastMeters[meter])

\* Wrong on purpose: a meter that does not answer loses its readings.
MeterFailsBlank ==
  pc = "meters" /\ meter <= NMeters /\ Remember(NeverRead)

\* An IneproMeteringError: the meter keeps its readings and their time, and
\* is not available.
MeterFails ==
  pc = "meters" /\ meter <= NMeters /\
  Remember([lastMeters[meter] EXCEPT !.available = FALSE])

NoMeterAnswered == \A m \in Meters : ~results[m].available
NothingKnown == \A m \in Meters : lastMeters[m].blocks = Nothing

\* Wrong on purpose: what earlier polls read does not count.
UpdateFailedWhenSilent == NMeters > 0 /\ NoMeterAnswered

\* No meter answered and none ever did.
UpdateFailed == NMeters > 0 /\ NoMeterAnswered /\ NothingKnown

PollFails ==
  /\ pc' = "idle"
  /\ ok' = FALSE
  /\ ended' = poll
  /\ UNCHANGED <<poll, local, lastMeters, lastGateway, lastSettings, data>>

\* What this poll read replaces what is known, unless it read nothing.
Newer(read, known) == IF read THEN poll ELSE known

\* What the poll leaves known of the gateway's metadata.  Requests answered with
\* errors make an IneproTcpGatewayInfo without fields, which replaces what was
\* known like any other.
Metadata == IF infoRead = "lost" THEN 0 ELSE Newer(infoRead = "read", lastGateway)

Snapshot ==
  [poll |-> poll, meters |-> results,
   gateway |-> Metadata,
   settings |-> Newer(confRead, lastSettings)]

\* Every meter was read or failed; nothing is awaited any more.
AllTried == pc = "meters" /\ meter > NMeters

PollReturns ==
  /\ AllTried
  /\ \/ UpdateFailed /\ PollFails
     \/ /\ ~UpdateFailed
        /\ pc' = "idle"
        /\ lastMeters' = results
        /\ lastGateway' = Metadata
        /\ lastSettings' = Newer(confRead, lastSettings)
        /\ data' = Snapshot
        /\ ok' = TRUE
        /\ ended' = poll
        /\ UNCHANGED <<poll, local>>

\* Any other exception, such as that of an answer too short to decode, is
\* caught by nobody but Home Assistant: the whole poll is lost.
Unexpected == pc # "idle" /\ ~AllTried /\ PollFails

\* Home Assistant cancels the task.
Cancelled ==
  /\ pc # "idle" /\ ~AllTried
  /\ pc' = "idle"
  /\ UNCHANGED <<poll, local, kept>>

Next ==
  \/ StartPoll \/ ReadInfo \/ ReadConfiguration \/ MeterRead \/ MeterFails
  \/ PollReturns \/ Unexpected \/ Cancelled

Spec == Init /\ [][Next]_vars

-----------------------------------------------------------------------------
(* Entities *)

\* `available` of a meter's entities, and "online" of its status sensor: the
\* coordinator's own verdict on the last refresh is not consulted.
Online(m) == data # NoData /\ data.meters[m].available

-----------------------------------------------------------------------------
(* Properties *)

\* The data of a meter at poll n: read by one poll, the one its timestamp
\* names, and available exactly when that is n.
Whole(d, n) ==
  /\ \A b \in Blocks : d.blocks[b] \in {0, d.last}
  /\ d.last > 0 <=> d.blocks # Nothing
  /\ d.available <=> d.last = n
  /\ d.last <= n

\* What is shown of a meter was read by one poll, the one its timestamp names,
\* however many other polls failed or raised since; the meter is available
\* exactly when that is the poll the data is from, so neither another meter's
\* failure nor its success changes a meter's verdict.
EachMeterOnItsOwn ==
  data # NoData => \A m \in Meters : Whole(data.meters[m], data.poll)

\* Once the bus has data, meters that do not answer never fail it, not even
\* all of them in the polls that follow: a poll that tried every meter returns.
SilentMetersNeverFailTheBus ==
  [][data # NoData /\ AllTried /\ pc' = "idle" => ok' /\ data'.poll = poll]_vars

\* A meter that stops answering keeps its last readings and their time, and what
\* is known of the gateway stays unless the gateway itself answers with errors.
ReadingsAreKept ==
  [][data # NoData =>
       /\ data' # NoData
       /\ \A m \in Meters : data'.meters[m].last >= data.meters[m].last
       /\ data'.gateway < data.gateway => infoRead = "lost" /\ data'.poll = poll
       /\ data'.settings >= data.settings]_vars

\* "Return online/offline status based on the last per-meter refresh result."
\* (IneproBusStatusSensor.native_value)
OnlineMeansReadLast == \A m \in Meters : Online(m) => data.meters[m].last = ended

\* The inductive invariant: what is published is what is remembered, some
\* meter has been read once there is data, and the results at hand are whole
\* and either this poll's or the remembered ones.
DataInv ==
  /\ ended <= poll /\ (pc # "idle" => ended < poll)
  /\ data = NoData =>
       /\ lastMeters = [m \in Meters |-> NeverRead]
       /\ lastGateway = 0 /\ lastSettings = 0
  /\ data # NoData =>
       /\ 0 < data.poll /\ data.poll <= ended
       /\ lastMeters = data.meters
       /\ lastGateway = data.gateway /\ lastSettings = data.settings
       /\ lastGateway <= data.poll /\ lastSettings <= data.poll
       /\ NMeters > 0 => \E m \in Meters : data.meters[m].last > 0

PollInv ==
  pc # "idle" => \A m \in 1 .. meter - 1 :
    Whole(results[m], poll) /\ results[m].last \in {lastMeters[m].last, poll}

IInv == TypeOK /\ DataInv /\ PollInv
          /\ EachMeterOnItsOwn
=============================================================================
