------------------------ MODULE BusCoordinatorProofs ------------------------
(***************************************************************************)
(* Theorems about BusCoordinator, for every number of meters (none         *)
(* included), blocks and polls.  That silent meters never fail the bus     *)
(* again is not inductive by itself: it needs that some meter has been     *)
(* read once there is data (DataInv), which a poll preserves because each  *)
(* result is either this poll's or the remembered one (PollInv).           *)
(***************************************************************************)
EXTENDS BusCoordinator, TLAPS

USE BusBounds DEF Meters, Blocks, Polls

LEMMA NeverReadType == NeverRead \in MeterData
  BY DEF NeverRead, MeterData, Nothing

LEMMA InitInv == Init => IInv
<1> SUFFICES ASSUME Init PROVE IInv
  OBVIOUS
<1> USE DEF Init
<1>1. /\ results \in [Meters -> MeterData]
      /\ lastMeters \in [Meters -> MeterData]
  BY NeverReadType
<1>2. /\ data \in BusData \cup {NoData} /\ ok \in BOOLEAN
      /\ infoRead \in InfoResults /\ confRead \in BOOLEAN
  BY DEF InfoResults
<1>3. /\ poll \in Polls /\ ended \in Polls /\ lastGateway \in Polls
      /\ lastSettings \in Polls /\ meter \in 1 .. NMeters + 1
  OBVIOUS
<1>4. TypeOK
  BY <1>1, <1>2, <1>3 DEF TypeOK
<1>5. DataInv /\ PollInv
  BY DEF DataInv, PollInv
<1>6. EachMeterOnItsOwn
  BY DEF EachMeterOnItsOwn
<1> QED
  BY <1>4, <1>5, <1>6 DEF IInv

LEMMA StartInv == ASSUME IInv, StartPoll PROVE IInv'
<1> USE DEF IInv, TypeOK, StartPoll, kept
<1>1. results' \in [Meters -> MeterData]
  BY NeverReadType
<1>2. /\ poll' \in Polls /\ meter' = 1 /\ meter' \in 1 .. NMeters + 1
      /\ infoRead' = "none" /\ confRead' = FALSE /\ pc' \in {"info", "meters"}
  OBVIOUS
<1>3. TypeOK'
  BY <1>1, <1>2 DEF InfoResults
<1>4. DataInv'
  BY DEF DataInv
<1>5. PollInv'
  BY <1>2 DEF PollInv
<1>6. EachMeterOnItsOwn'
  BY DEF EachMeterOnItsOwn
<1> QED
  BY <1>3, <1>4, <1>5, <1>6

\* A poll that raises changes nothing that entities show of the meters.
LEMMA FailInv == ASSUME IInv, pc # "idle", PollFails PROVE IInv'
<1> USE DEF IInv, TypeOK, PollFails, local
<1>1. TypeOK'
  OBVIOUS
<1>3. data # NoData => data.poll \in Polls
  BY DEF BusData
<1>2. DataInv' /\ PollInv'
  BY <1>3 DEF DataInv, PollInv
<1>5. EachMeterOnItsOwn'
  BY DEF EachMeterOnItsOwn
<1> QED
  BY <1>1, <1>2, <1>5

\* A result that is whole and of this poll or remembered is kept in place.
LEMMA RememberInv ==
  ASSUME IInv, NEW d \in MeterData, Remember(d), Whole(d, poll),
         d.last \in {lastMeters[meter].last, poll}
  PROVE  IInv'
<1> USE DEF IInv, TypeOK, Remember, kept
<1>1. TypeOK'
  OBVIOUS
<1>2. DataInv'
  BY DEF DataInv
<1>3. PollInv'
  <2> SUFFICES ASSUME NEW m \in 1 .. meter' - 1
               PROVE  /\ Whole(results'[m], poll)
                      /\ results'[m].last \in {lastMeters[m].last, poll}
    BY DEF PollInv
  <2>1. CASE m = meter
    BY <2>1
  <2>2. CASE m # meter
    <3>1. m \in 1 .. meter - 1 /\ results'[m] = results[m]
      BY <2>2
    <3> QED
      BY <3>1 DEF PollInv
  <2> QED
    BY <2>1, <2>2
<1>4. EachMeterOnItsOwn'
  BY DEF EachMeterOnItsOwn
<1> QED
  BY <1>1, <1>2, <1>3, <1>4

LEMMA MeterReadInv == ASSUME IInv, MeterRead PROVE IInv'
<1>1. PICK read \in (SUBSET Blocks) \ {{}} :
        Remember([blocks |-> [b \in Blocks |-> IF b \in read THEN poll ELSE 0],
                  available |-> TRUE, last |-> poll])
  BY DEF MeterRead
<1> DEFINE bs == [b \in Blocks |-> IF b \in read THEN poll ELSE 0]
           d == [blocks |-> bs, available |-> TRUE, last |-> poll]
<1>2. poll > 0 /\ poll \in Polls
  BY <1>1 DEF Remember, IInv, TypeOK, DataInv
<1>3. bs # Nothing
  <2>0. read # {} /\ \A b \in read : b \in Blocks
    OBVIOUS
  <2>1. PICK b : b \in read /\ b \in Blocks
    BY <2>0
  <2>2. bs[b] = poll /\ Nothing[b] = 0
    BY <2>1 DEF Nothing
  <2> QED
    BY <2>2, <1>2
<1>4. bs \in [Blocks -> Polls]
  BY <1>2
<1>5. d \in MeterData
  BY <1>2, <1>4 DEF MeterData
<1>6. Whole(d, poll)
  BY <1>2, <1>3 DEF Whole
<1> QED
  BY <1>1, <1>5, <1>6, RememberInv

LEMMA MeterFailsInv == ASSUME IInv, MeterFails PROVE IInv'
<1> DEFINE p == lastMeters[meter]
           d == [p EXCEPT !.available = FALSE]
<1> USE DEF IInv, TypeOK
<1>1. meter \in Meters /\ Remember(d) /\ pc # "idle" /\ poll \in Polls
  BY DEF MeterFails
<1>2. p \in MeterData
  BY <1>1
<1>3. d \in MeterData /\ d.blocks = p.blocks /\ d.last = p.last /\ ~d.available
  BY <1>2 DEF MeterData
<1>4. /\ \A b \in Blocks : p.blocks[b] \in {0, p.last}
      /\ p.last > 0 <=> p.blocks # Nothing
      /\ p.last < poll
  <2>1. CASE data = NoData
    <3>1. p = NeverRead
      BY <1>1, <2>1 DEF DataInv
    <3> QED
      BY <1>1, <3>1 DEF NeverRead, Nothing, DataInv
  <2>2. CASE data # NoData
    <3>1. p = data.meters[meter] /\ data.poll < poll /\ data.poll \in Polls
      BY <1>1, <2>2 DEF DataInv, BusData
    <3>2. Whole(p, data.poll)
      BY <1>1, <2>2, <3>1 DEF EachMeterOnItsOwn
    <3>3. p.last \in Polls
      BY <1>2 DEF MeterData
    <3> QED
      BY <3>1, <3>2, <3>3 DEF Whole
  <2> QED
    BY <2>1, <2>2
<1>5. p.last \in Polls
  BY <1>2 DEF MeterData
<1>6. Whole(d, poll)
  BY <1>1, <1>3, <1>4, <1>5 DEF Whole
<1> QED
  BY <1>1, <1>3, <1>6, RememberInv

LEMMA ReturnInv == ASSUME IInv, PollReturns PROVE IInv'
<1>1. CASE UpdateFailed /\ PollFails
  BY <1>1, FailInv DEF PollReturns, AllTried
<1>2. CASE ~UpdateFailed /\ ~PollFails
  <2> USE DEF IInv, TypeOK
  <2>1. /\ pc = "meters" /\ meter > NMeters /\ pc' = "idle"
        /\ lastMeters' = results /\ data' = Snapshot /\ ok' = TRUE
        /\ lastGateway' = Metadata
        /\ lastSettings' = Newer(confRead, lastSettings)
        /\ ended' = poll /\ UNCHANGED <<poll, local>>
    BY <1>2 DEF PollReturns, AllTried
  <2>2. poll \in Polls /\ poll > 0 /\ meter = NMeters + 1
    BY <2>1 DEF DataInv
  <2>3. lastGateway <= poll /\ lastSettings <= poll
    <3>1. CASE data = NoData
      BY <2>2, <3>1 DEF DataInv
    <3>2. CASE data # NoData
      <4>1. data.poll \in Polls /\ data.poll < poll
        BY <2>1, <3>2 DEF DataInv, BusData
      <4>2. lastGateway <= data.poll /\ lastSettings <= data.poll
        BY <3>2 DEF DataInv
      <4> QED
        BY <4>1, <4>2, <2>2
    <3> QED
      BY <3>1, <3>2
  <2>4. /\ lastGateway' \in Polls /\ lastSettings' \in Polls
        /\ lastGateway' <= poll /\ lastSettings' <= poll
    BY <2>1, <2>2, <2>3 DEF Newer, Metadata
  <2>5. Snapshot \in BusData
    BY <2>1, <2>2, <2>4 DEF Snapshot, BusData
  <2>6. data' # NoData /\ data'.poll = poll /\ data'.meters = results
        /\ data'.gateway = lastGateway' /\ data'.settings = lastSettings'
    BY <2>1, <2>5, BusNoData DEF Snapshot
  <2>7. TypeOK'
    BY <2>1, <2>2, <2>4, <2>5 DEF local
  <2>8. \A m \in Meters : /\ Whole(results[m], poll)
                          /\ results[m].last \in {lastMeters[m].last, poll}
    BY <2>1, <2>2 DEF PollInv
  <2>9. NMeters > 0 => \E m \in Meters : results[m].last > 0
    <3> SUFFICES ASSUME NMeters > 0 PROVE \E m \in Meters : results[m].last > 0
      OBVIOUS
    <3>1. CASE \E m \in Meters : results[m].available
      BY <2>2, <2>8, <3>1 DEF Whole
    <3>2. CASE \E m \in Meters : lastMeters[m].blocks # Nothing
      <4>1. PICK m \in Meters : lastMeters[m].blocks # Nothing
        BY <3>2
      <4>2. lastMeters[m].last > 0
        <5>1. CASE data = NoData
          BY <4>1, <5>1 DEF DataInv, NeverRead
        <5>2. CASE data # NoData
          BY <4>1, <5>2 DEF DataInv, EachMeterOnItsOwn, Whole
        <5> QED
          BY <5>1, <5>2
      <4> QED
        BY <4>2, <2>2, <2>8
    <3> QED
      BY <1>2, <3>1, <3>2 DEF UpdateFailed, NoMeterAnswered, NothingKnown
  <2>10. DataInv'
    BY <2>1, <2>2, <2>4, <2>6, <2>9 DEF DataInv
  <2>11. PollInv'
    BY <2>1 DEF PollInv
  <2>12. EachMeterOnItsOwn'
    BY <2>1, <2>6, <2>8 DEF EachMeterOnItsOwn
  <2> QED
    BY <2>7, <2>10, <2>11, <2>12
<1>3. CASE ~UpdateFailed /\ PollFails
  BY <1>3, FailInv DEF PollReturns, AllTried
<1> QED
  BY <1>1, <1>2, <1>3 DEF PollReturns, AllTried

LEMMA StepInv == IInv /\ [Next]_vars => IInv'
<1> SUFFICES ASSUME IInv, [Next]_vars PROVE IInv'
  OBVIOUS
<1> USE DEF IInv, TypeOK, DataInv, PollInv, EachMeterOnItsOwn
<1>1. CASE StartPoll
  BY <1>1, StartInv
<1>2. CASE ReadInfo
  BY <1>2 DEF ReadInfo, kept
<1>3. CASE ReadConfiguration
  BY <1>3 DEF ReadConfiguration, kept
<1>4. CASE MeterRead
  BY <1>4, MeterReadInv
<1>5. CASE MeterFails
  BY <1>5, MeterFailsInv
<1>6. CASE PollReturns
  BY <1>6, ReturnInv
<1>7. CASE Unexpected
  BY <1>7, FailInv DEF Unexpected
<1>8. CASE Cancelled
  BY <1>8 DEF Cancelled, local, kept
<1>9. CASE UNCHANGED vars
  BY <1>9 DEF vars, local, kept
<1> QED
  BY <1>1, <1>2, <1>3, <1>4, <1>5, <1>6, <1>7, <1>8, <1>9 DEF Next

\* The inductive invariant of the bus coordinator.
THEOREM BusInvariance == Spec => []IInv
  BY InitInv, StepInv, PTL DEF Spec

\* One meter's failures and successes never show on another meter
\* (meter_results is built per meter).
THEOREM MetersAreIndependent == Spec => []EachMeterOnItsOwn
<1>1. IInv => EachMeterOnItsOwn
  BY DEF IInv
<1> QED
  BY <1>1, BusInvariance, PTL

\* UpdateFailed is raised for silent meters only before the first data.
THEOREM SilenceIsTolerated == Spec => SilentMetersNeverFailTheBus
<1>1. ASSUME IInv, [Next]_vars, data # NoData, AllTried, pc' = "idle"
      PROVE  ok' /\ data'.poll = poll
  <2>1. ~UpdateFailed
    <3>1. NMeters > 0 => \E m \in Meters : lastMeters[m].last > 0
      BY <1>1 DEF IInv, DataInv
    <3>2. ASSUME NEW m \in Meters, lastMeters[m].last > 0
          PROVE  lastMeters[m].blocks # Nothing
      BY <1>1, <3>2 DEF IInv, DataInv, EachMeterOnItsOwn, Whole
    <3> QED BY <3>1, <3>2 DEF UpdateFailed, NothingKnown
  <2>2. PollReturns
    BY <1>1 DEF Next, vars, AllTried, StartPoll, ReadInfo, ReadConfiguration,
                MeterRead, MeterFails, Remember, Unexpected, Cancelled
  <2> QED BY <2>1, <2>2 DEF PollReturns, Snapshot
<1> QED BY <1>1, BusInvariance, PTL DEF Spec, SilentMetersNeverFailTheBus

\* Whatever a poll does, no meter's readings and not the gateway's configuration
\* are replaced by older ones or by none, and its metadata only by a poll that the
\* gateway answered with errors: `previous` is carried into the data of a meter
\* that fails.
THEOREM KnownReadingsStay == Spec => ReadingsAreKept
<1>1. ASSUME IInv, [Next]_vars, data # NoData
      PROVE  /\ data' # NoData
             /\ \A m \in Meters : data'.meters[m].last >= data.meters[m].last
             /\ data'.gateway < data.gateway => infoRead = "lost" /\ data'.poll = poll
             /\ data'.settings >= data.settings
  <2>1. data \in BusData /\ poll \in Polls
    BY <1>1 DEF IInv, TypeOK
  <2>2. /\ \A m \in Meters : data.meters[m].last \in Polls
        /\ data.gateway \in Polls /\ data.settings \in Polls
        /\ data.poll \in Polls
    BY <2>1 DEF BusData, MeterData
  <2>3. CASE data' = data
    BY <1>1, <2>2, <2>3
  <2>4. CASE PollReturns /\ ~UpdateFailed
    <3>1. /\ pc = "meters" /\ meter = NMeters + 1 /\ data' = Snapshot
      BY <1>1, <2>4 DEF PollReturns, AllTried, IInv, TypeOK
    <3>2. /\ lastMeters = data.meters
          /\ lastGateway = data.gateway /\ lastSettings = data.settings
          /\ lastGateway <= data.poll /\ lastSettings <= data.poll
          /\ data.poll < poll
      BY <1>1, <2>1, <2>2, <3>1 DEF IInv, DataInv, TypeOK
    <3>3. /\ data'.meters = results
          /\ data'.gateway = Metadata
          /\ data'.settings = Newer(confRead, lastSettings)
      BY <3>1 DEF Snapshot
    <3>4. data' # NoData
      <4>1. IInv'
        BY <1>1, StepInv
      <4>2. Metadata \in Polls
            /\ Newer(confRead, lastSettings) \in Polls
        BY <2>1, <2>2, <3>2 DEF Newer, Metadata
      <4>3. Snapshot \in BusData
        BY <1>1, <2>1, <4>2 DEF Snapshot, BusData, IInv, TypeOK
      <4> QED
        BY <3>1, <4>3, BusNoData
    <3>5. ASSUME NEW m \in Meters PROVE results[m].last >= data.meters[m].last
      <4>1. results[m].last \in {lastMeters[m].last, poll}
        BY <1>1, <3>1 DEF IInv, PollInv
      <4>2. data.meters[m].last <= data.poll
        BY <1>1 DEF IInv, EachMeterOnItsOwn, Whole
      <4> QED
        BY <2>1, <2>2, <3>2, <4>1, <4>2
    <3>6. /\ data'.gateway < data.gateway => infoRead = "lost" /\ data'.poll = poll
          /\ data'.settings >= data.settings
      BY <2>1, <2>2, <3>1, <3>2, <3>3 DEF Newer, Metadata, Snapshot
    <3> QED
      BY <3>3, <3>4, <3>5, <3>6
  <2>5. data' = data \/ (PollReturns /\ ~UpdateFailed)
    BY <1>1 DEF Next, vars, kept, StartPoll, ReadInfo, ReadConfiguration,
                MeterRead, MeterFails, Remember, PollReturns, PollFails,
                Unexpected, Cancelled
  <2> QED
    BY <2>3, <2>4, <2>5
<1> QED BY <1>1, BusInvariance, PTL DEF Spec, ReadingsAreKept
=============================================================================
