---------------------- MODULE SingleCoordinatorProofs ----------------------
(***************************************************************************)
(* Theorems about SingleCoordinator, for every number of blocks, polls and *)
(* tolerated failures.  IInv is inductive: AvailableWithinGrace needs that *)
(* the failure counter is the number of misses cut off at the grace        *)
(* (CountInv), and OnePollPerSnapshot that the readings at hand are the    *)
(* running poll's (PollInv).                                               *)
(***************************************************************************)
EXTENDS SingleCoordinator, TLAPS

USE DEF Blocks, Polls

LEMMA NothingType == Nothing \in [Blocks -> Polls]
  BY CoordinatorBounds DEF Nothing

LEMMA InitInv == Init => IInv
<1> SUFFICES ASSUME Init PROVE IInv
  OBVIOUS
<1> USE CoordinatorBounds DEF Init
<1>a. readings \in [Blocks -> Polls]
  BY NothingType
<1>b. last \in Snapshots \cup {NoData} /\ data \in Snapshots \cup {NoData}
  OBVIOUS
<1>c. poll \in Polls /\ lastGateway \in Polls /\ lastSettings \in Polls
      /\ misses \in Polls /\ failures \in 0 .. GracePolls
  OBVIOUS
<1>d. blk \in Blocks
  OBVIOUS
<1>e. /\ infoRead \in InfoResults /\ confRead \in BOOLEAN
      /\ ok \in BOOLEAN /\ unsupported \in BOOLEAN
  BY DEF InfoResults
<1>1. TypeOK
  BY <1>a, <1>b, <1>c, <1>d, <1>e DEF TypeOK
<1>2. DataInv /\ CountInv
  BY DEF DataInv, CountInv
<1>3. PollInv
  BY DEF PollInv, Nothing
<1>4. AvailableWithinGrace /\ OnePollPerSnapshot
  BY DEF AvailableWithinGrace, OnePollPerSnapshot
<1> QED
  BY <1>1, <1>2, <1>3, <1>4 DEF IInv

\* What a poll read itself makes a proper snapshot.
LEMMA SnapshotIsData ==
  ASSUME IInv, pc # "idle", NEW rs \in [Blocks -> {0, poll}],
         NEW id \in {0, poll}
  PROVE  /\ Snapshot(rs, id) \in Snapshots
         /\ Snapshot(rs, id) # NoData
         /\ Metadata \in 0 .. poll
         /\ Newer(confRead, lastSettings) \in 0 .. poll
         /\ 0 .. poll \subseteq Polls
<1> USE DEF IInv, TypeOK, DataInv, PollInv
<1>a. poll \in Polls \ {0} /\ rs \in [Blocks -> Polls] /\ id \in Polls
  BY CoordinatorBounds
<1>b. lastGateway <= poll /\ lastSettings <= poll
  <2>1. CASE data = NoData
    BY <2>1, <1>a
  <2>2. CASE data # NoData
    <3>1. data \in Snapshots
      BY <2>2
    <3>2. /\ data.poll \in Polls /\ data.gateway \in Polls
          /\ data.settings \in Polls
      BY <3>1 DEF Snapshots
    <3>3. data.gateway <= data.poll /\ data.settings <= data.poll
      BY <2>2 DEF OnePollPerSnapshot
    <3> QED
      BY <2>2, <3>2, <3>3, <1>a, CoordinatorBounds
  <2> QED
    BY <2>1, <2>2
<1>2. /\ Metadata \in 0 .. poll
      /\ Newer(confRead, lastSettings) \in 0 .. poll
      /\ 0 .. poll \subseteq Polls
  BY <1>a, <1>b, CoordinatorBounds DEF Newer, Metadata
<1>3. Snapshot(rs, id) \in Snapshots
  BY <1>a, <1>2 DEF Snapshot, Snapshots
<1> QED
  BY <1>2, <1>3, NoDataAssumption

\* A poll that returns what it read itself publishes a proper snapshot.
LEMMA ReturnInv ==
  ASSUME IInv, pc # "idle", NEW rs \in [Blocks -> {0, poll}], rs # Nothing,
         NEW id \in {0, poll}, PollReturns(rs, id), transport' = transport,
         unsupported' \in BOOLEAN,
         id = 0 => unsupported'
  PROVE  IInv'
<1> USE DEF IInv, TypeOK, DataInv, CountInv, PollInv, PollReturns
<1>a. poll \in Polls \ {0} /\ rs \in [Blocks -> Polls] /\ id \in Polls
  BY CoordinatorBounds, SMTT(30)
<1>1. Snapshot(rs, id) \in Snapshots /\ Snapshot(rs, id) # NoData
  BY SnapshotIsData
<1>2. /\ Metadata \in Polls
      /\ Newer(confRead, lastSettings) \in Polls
      /\ Metadata <= poll
      /\ Newer(confRead, lastSettings) <= poll
  BY SnapshotIsData
<1>3. data' # NoData /\ data' = Snapshot(rs, id)
  BY <1>1
<1>4. TypeOK'
  BY <1>1, <1>2, <1>a, CoordinatorBounds
<1>5. DataInv'
  BY <1>2, <1>3, CoordinatorBounds DEF Snapshot
<1>6. CountInv' /\ AvailableWithinGrace'
  BY <1>3, CoordinatorBounds DEF AvailableWithinGrace, Tolerated, Ble
<1>7. PollInv'
  OBVIOUS
<1>8. OnePollPerSnapshot'
  BY <1>2, <1>3 DEF OnePollPerSnapshot, Snapshot
<1> QED
  BY <1>4, <1>5, <1>6, <1>7, <1>8

\* A poll that raises leaves the snapshot and counts the miss.
LEMMA RaiseInv ==
  ASSUME IInv, pc # "idle", PollRaises, transport' = transport
  PROVE  IInv'
<1> USE DEF IInv, TypeOK, DataInv, CountInv, PollInv, PollRaises, local
<1>b. Ble' <=> Ble
  BY DEF Ble
<1>1. data' = data /\ (KeepStaleData => failures < GracePolls)
  BY DEF KeepStaleData
<1>2. misses + 1 \in Polls /\ misses + 1 <= poll
  BY CoordinatorBounds
<1>3. failures' \in 0 .. GracePolls /\ ok' \in BOOLEAN
  BY <1>1, CoordinatorBounds DEF KeepStaleData
<1>a. ok' <=> KeepStaleData
  BY DEF PollRaises
<1>4. TypeOK'
  BY <1>1, <1>2, <1>3
<1>5. DataInv'
  BY <1>1, CoordinatorBounds DEF KeepStaleData
<1>6. CountInv'
  <2>1. misses' <= poll' /\ pc' = "idle"
    BY <1>2
  <2>2. CASE Ble /\ data # NoData
    <3>1. KeepStaleData <=> failures < GracePolls
      BY <2>2 DEF KeepStaleData
    <3> QED
      BY <1>1, <1>2, <1>b, <2>1, <2>2, <3>1, CoordinatorBounds
  <2>3. CASE ~Ble \/ data = NoData
    <3>1. ~KeepStaleData /\ failures = 0
      BY <2>3 DEF KeepStaleData
    <3> QED
      BY <1>1, <1>b, <2>1, <2>3, <3>1
  <2> QED
    BY <2>2, <2>3
<1>7. PollInv'
  OBVIOUS
<1>8. AvailableWithinGrace'
  <2>1. CASE Ble /\ data # NoData
    <3>1. failures < GracePolls <=> misses + 1 <= GracePolls
      BY <2>1, CoordinatorBounds
    <3>2. misses' = misses + 1 /\ data' # NoData
      BY <1>1, <2>1
    <3>3. ok' <=> failures < GracePolls
      BY <1>a, <2>1 DEF KeepStaleData
    <3> QED
      BY <2>1, <3>1, <3>2, <3>3 DEF AvailableWithinGrace, Tolerated, Ble
  <2>2. CASE ~Ble /\ data # NoData
    <3>1. ~ok'
      BY <1>a, <2>2 DEF KeepStaleData
    <3>2. misses' = misses + 1 /\ misses \in Nat
      BY CoordinatorBounds
    <3> QED
      BY <2>2, <3>1, <3>2 DEF AvailableWithinGrace, Tolerated, Ble
  <2>3. CASE data = NoData
    BY <1>1, <2>3 DEF AvailableWithinGrace
  <2> QED
    BY <2>1, <2>2, <2>3
<1>9. OnePollPerSnapshot'
  BY <1>1 DEF OnePollPerSnapshot
<1> QED
  BY <1>4, <1>5, <1>6, <1>7, <1>8, <1>9

\* What a block leaves behind, read or skipped.
LEMMA AfterBlockInv ==
  ASSUME IInv, pc = "blocks", NEW rs \in [Blocks -> {0, poll}], AfterBlock(rs),
         transport' = transport
  PROVE  IInv'
<1>0. (Ble' <=> Ble) /\ Tolerated' = Tolerated
  BY DEF Ble, Tolerated
<1> USE <1>0
<1>1. rs \in [Blocks -> Polls]
  BY CoordinatorBounds DEF IInv, TypeOK
<1>2. CASE blk < NBlocks /\ blk' = blk + 1 /\ readings' = rs
           /\ UNCHANGED <<pc, poll, infoRead, confRead, unsupported, kept>>
  <2> USE <1>1, <1>2, CoordinatorBounds DEF kept
  <2>1. TypeOK'
    BY DEF IInv, TypeOK
  <2>2. DataInv' /\ CountInv'
    BY DEF IInv, TypeOK, DataInv, CountInv
  <2>3. PollInv'
    BY DEF IInv, TypeOK, PollInv
  <2>4. AvailableWithinGrace' /\ OnePollPerSnapshot'
    BY DEF IInv, AvailableWithinGrace, OnePollPerSnapshot
  <2> QED
    BY <2>1, <2>2, <2>3, <2>4 DEF IInv
<1>3. CASE /\ blk = NBlocks /\ rs # Nothing /\ ~unsupported
           /\ pc' = "ident" /\ readings' = rs
           /\ UNCHANGED <<poll, blk, infoRead, confRead, unsupported, kept>>
  <2> USE <1>1, <1>3, CoordinatorBounds DEF kept
  <2>1. TypeOK'
    BY DEF IInv, TypeOK
  <2>2. DataInv' /\ CountInv'
    BY DEF IInv, TypeOK, DataInv, CountInv
  <2>3. PollInv'
    BY DEF IInv, TypeOK, PollInv
  <2>4. AvailableWithinGrace' /\ OnePollPerSnapshot'
    BY DEF IInv, AvailableWithinGrace, OnePollPerSnapshot
  <2> QED
    BY <2>1, <2>2, <2>3, <2>4 DEF IInv
<1>4. CASE /\ rs # Nothing /\ unsupported
           /\ PollReturns(rs, 0) /\ UNCHANGED unsupported
  BY <1>4, ReturnInv DEF IInv, TypeOK
<1>5. CASE PollRaises
  BY <1>5, RaiseInv
<1> QED
  BY <1>2, <1>3, <1>4, <1>5 DEF AfterBlock

LEMMA StepInv == IInv /\ [Next]_vars => IInv'
<1> SUFFICES ASSUME IInv, [Next]_vars PROVE IInv'
  OBVIOUS
<1>0. transport' = transport /\ (Ble' <=> Ble) /\ Tolerated' = Tolerated
  BY DEF Next, vars, Ble, Tolerated
<1> USE <1>0
<1> USE DEF IInv, TypeOK, DataInv, CountInv, PollInv, AvailableWithinGrace,
            OnePollPerSnapshot
<1>1. CASE StartPoll
  <2> USE CoordinatorBounds DEF StartPoll, kept
  <2>a. readings' \in [Blocks -> Polls]
    BY <1>1, NothingType
  <2>b. poll' \in Polls /\ misses' \in Polls
    BY <1>1
  <2>c. blk' \in Blocks
    BY <1>1
  <2>e. infoRead' = "none" /\ confRead' = FALSE
    BY <1>1
  <2>d. pc' \in {"info", "blocks"}
    BY <1>1
  <2>1. TypeOK'
    BY <1>1, <2>a, <2>b, <2>c, <2>d, <2>e DEF InfoResults
  <2>2. DataInv'
    <3>1. data # NoData => data.poll \in Polls
      BY DEF Snapshots
    <3> QED
      BY <1>1, <3>1
  <2>3. CountInv' /\ AvailableWithinGrace' /\ OnePollPerSnapshot'
    BY <1>1
  <2>4. PollInv'
    BY <1>1 DEF Nothing
  <2> QED
    BY <2>1, <2>2, <2>3, <2>4
<1>2. CASE ReadInfo
  BY <1>2 DEF ReadInfo, kept
<1>3. CASE ReadConfiguration
  BY <1>3 DEF ReadConfiguration, kept
<1>4. readings \in [Blocks -> {0, poll}]
  OBVIOUS
<1>5. CASE BlockRead
  BY <1>4, <1>5, AfterBlockInv DEF BlockRead
<1>6. CASE BlockSkipped
  BY <1>4, <1>6, AfterBlockInv DEF BlockSkipped
<1>7. CASE IdentRead
  BY <1>4, <1>7, ReturnInv DEF IdentRead
<1>8. CASE IdentFails
  BY <1>4, <1>8, ReturnInv DEF IdentFails
<1>9. CASE Unexpected
  BY <1>9, RaiseInv DEF Unexpected
<1>10. CASE Cancelled
  BY <1>10, CoordinatorBounds DEF Cancelled, local, kept
<1>11. CASE UNCHANGED vars
  BY <1>11 DEF vars, local, kept
<1> QED
  BY <1>1, <1>2, <1>3, <1>5, <1>6, <1>7, <1>8, <1>9, <1>10, <1>11 DEF Next, Step

\* The inductive invariant of the coordinator.
THEOREM CoordinatorInvariance == Spec => []IInv
  BY InitInv, StepInv, PTL DEF Spec

\* A failing meter is noticed after exactly the polls its transport tolerates,
\* and no sooner: availability as _async_update_data decides it.
THEOREM Availability == Spec => []AvailableWithinGrace
<1>1. IInv => AvailableWithinGrace
  BY DEF IInv
<1> QED
  BY <1>1, CoordinatorInvariance, PTL

\* The data the entities show was read by one poll (CoordinatorData is built
\* anew by each poll that returns).
THEOREM SnapshotsAreWhole == Spec => []OnePollPerSnapshot
<1>1. IInv => OnePollPerSnapshot
  BY DEF IInv
<1> QED
  BY <1>1, CoordinatorInvariance, PTL

-----------------------------------------------------------------------------
(* The coordinator implements StaleDataContract *)

Shown == IF data = NoData THEN 0 ELSE data.poll

LEMMA ShownType == IInv => Shown \in Polls
  BY CoordinatorBounds DEF IInv, TypeOK, Shown, Snapshots

\* A poll that returns is a Succeed of the contract.
LEMMA ReturnSucceeds ==
  ASSUME IInv, pc # "idle", NEW rs, NEW id, PollReturns(rs, id),
         Snapshot(rs, id) # NoData
  PROVE  Contract!Succeed
<1>1. Shown < poll
  BY DEF IInv, TypeOK, DataInv, PollInv, Shown
<1>2. data'.poll = poll /\ data' # NoData
  BY DEF PollReturns, Snapshot
<1> QED
  BY <1>1, <1>2 DEF PollReturns, Contract!Succeed, Shown

\* A poll that raises is a Fail of the contract, with the same verdict on
\* whether the entities stay available.
LEMMA RaiseFails ==
  ASSUME IInv, pc # "idle", PollRaises
  PROVE  Contract!Fail
<1> USE DEF IInv, TypeOK, DataInv, CountInv, PollRaises
<1>1. data' = data /\ poll' = poll /\ misses' = misses + 1
  BY DEF KeepStaleData
<1>2. data # NoData => data.poll > 0 /\ data.poll \in Nat
  BY CoordinatorBounds DEF Snapshots
<1>3. ok' <=> KeepStaleData
  OBVIOUS
<1>4. ok' \in BOOLEAN
  BY <1>3 DEF KeepStaleData
<1>5. KeepStaleData <=> Shown > 0 /\ misses + 1 <= Tolerated
  <2>1. CASE Ble /\ data # NoData
    <3>1. failures < GracePolls <=> misses + 1 <= GracePolls
      BY <2>1, CoordinatorBounds
    <3> QED
      BY <2>1, <3>1, <1>2 DEF KeepStaleData, Shown, Tolerated
  <2>2. CASE ~Ble
    <3>1. misses \in Nat /\ ~KeepStaleData
      BY <2>2, CoordinatorBounds DEF KeepStaleData
    <3> QED
      BY <2>2, <3>1 DEF Tolerated
  <2>3. CASE data = NoData
    BY <2>3 DEF KeepStaleData, Shown
  <2> QED
    BY <2>1, <2>2, <2>3
<1>6. ok' = (Shown > 0 /\ misses + 1 <= Tolerated)
  BY <1>3, <1>4, <1>5
<1> QED
  BY <1>1, <1>6 DEF Contract!Fail, Shown

LEMMA StepKeepsContract ==
  ASSUME IInv, [Next]_vars
  PROVE  [Contract!Next]_(Contract!contractVars)
<1>0. Tolerated' = Tolerated
  BY DEF Next, vars, Tolerated, Ble
<1> USE <1>0 DEF Contract!Next, Contract!contractVars
<1>1. CASE StartPoll
  BY <1>1 DEF StartPoll, kept, Contract!Start
<1>2. CASE ReadInfo \/ ReadConfiguration
  BY <1>2 DEF ReadInfo, ReadConfiguration, kept
<1>3. ASSUME NEW rs \in [Blocks -> {0, poll}], pc = "blocks", AfterBlock(rs)
      PROVE  [Contract!Next]_(Contract!contractVars)
  <2>1. CASE UNCHANGED <<poll, kept>>
    BY <2>1 DEF kept
  <2>2. CASE PollReturns(rs, 0)
    BY <1>3, <2>2, ReturnSucceeds, SnapshotIsData
  <2>3. CASE PollRaises
    BY <1>3, <2>3, RaiseFails
  <2> QED
    BY <1>3, <2>1, <2>2, <2>3 DEF AfterBlock
<1>4. readings \in [Blocks -> {0, poll}] /\ poll \in Polls
  BY DEF IInv, TypeOK, PollInv
<1>5. CASE BlockRead \/ BlockSkipped
  BY <1>3, <1>4, <1>5 DEF BlockRead, BlockSkipped
<1>6. CASE IdentRead \/ IdentFails
  BY <1>4, <1>6, ReturnSucceeds, SnapshotIsData DEF IdentRead, IdentFails
<1>7. CASE Unexpected
  BY <1>7, RaiseFails DEF Unexpected
<1>8. CASE Cancelled
  BY <1>8 DEF Cancelled, kept
<1>9. CASE UNCHANGED vars
  BY <1>9 DEF vars, kept
<1> QED
  BY <1>1, <1>2, <1>5, <1>6, <1>7, <1>8, <1>9 DEF Next, Step

\* The entities of a single-meter entry get what StaleDataContract promises.
THEOREM CoordinatorImplementsContract == Spec => KeepsContract
<1>1. Init => Contract!Init
  BY CoordinatorBounds DEF Init, Contract!Init, Tolerated, Ble
<1>2. IInv /\ [Next]_vars => [Contract!Next]_(Contract!contractVars)
  BY StepKeepsContract
<1> QED
  BY <1>1, <1>2, CoordinatorInvariance, PTL DEF Spec, KeepsContract, Contract!Spec

-----------------------------------------------------------------------------
(* What a step never does *)

\* A poll that returns replaces the data by newer data of its own, and what it
\* did not reach of the gateway by what is known of it.
LEMMA ReturnIsNewer ==
  ASSUME IInv, pc # "idle", NEW rs, NEW id, PollReturns(rs, id),
         Snapshot(rs, id) # NoData, data # NoData
  PROVE  /\ data' # NoData /\ data'.poll >= data.poll
         /\ data'.gateway < data.gateway => infoRead = "lost" /\ data'.poll = poll
         /\ data'.settings >= data.settings
<1> USE DEF IInv, TypeOK, DataInv
<1>1. /\ data.poll \in Nat /\ data.gateway \in Nat /\ data.settings \in Nat
      /\ poll \in Nat
  BY CoordinatorBounds DEF Snapshots
<1>2. data.poll < poll /\ data.gateway <= data.poll /\ data.settings <= data.poll
  BY DEF OnePollPerSnapshot
<1>3. /\ data' = Snapshot(rs, id)
      /\ lastGateway = data.gateway /\ lastSettings = data.settings
  BY DEF PollReturns
<1> QED
  BY <1>1, <1>2, <1>3 DEF Snapshot, Newer, Metadata

LEMMA StepKeepsOrReturns ==
  ASSUME IInv, [Next]_vars
  PROVE  \/ data' = data
         \/ /\ pc # "idle"
            /\ \E rs \in [Blocks -> {0, poll}], id \in {0, poll} :
                 PollReturns(rs, id)
<1>1. ASSUME PollRaises PROVE data' = data
  BY <1>1 DEF PollRaises, KeepStaleData, IInv, DataInv
<1>2. readings \in [Blocks -> {0, poll}] /\ poll \in Polls
  BY DEF IInv, TypeOK, PollInv
<1>3. ASSUME NEW rs \in [Blocks -> {0, poll}], pc = "blocks", AfterBlock(rs)
      PROVE  data' = data \/ PollReturns(rs, 0)
  BY <1>1, <1>3 DEF AfterBlock, kept
<1>4. CASE BlockRead \/ BlockSkipped
  BY <1>2, <1>3, <1>4 DEF BlockRead, BlockSkipped
<1>5. CASE IdentRead \/ IdentFails
  BY <1>2, <1>5 DEF IdentRead, IdentFails
<1>6. CASE Unexpected
  BY <1>1, <1>6 DEF Unexpected
<1>7. CASE StartPoll \/ ReadInfo \/ ReadConfiguration \/ Cancelled
            \/ UNCHANGED vars
  BY <1>7 DEF StartPoll, ReadInfo, ReadConfiguration, Cancelled, vars, kept
<1> QED
  BY <1>4, <1>5, <1>6, <1>7 DEF Next, Step

\* However polls fail, raise or are cancelled, the entities never go back to an
\* older poll, and what is known of the gateway is forgotten only by a poll that the
\* gateway answered with errors: _last_data, _last_gateway and
\* _last_gateway_settings are replaced by the poll's own or kept.
THEOREM DataOnlyGetsNewer == Spec => NeverOlder
<1>1. ASSUME IInv, [Next]_vars, data # NoData
      PROVE  /\ data' # NoData
             /\ data'.poll >= data.poll
             /\ data'.gateway < data.gateway => infoRead = "lost" /\ data'.poll = poll
             /\ data'.settings >= data.settings
  <2>1. CASE data' = data
    <3>1. data.poll \in Nat /\ data.gateway \in Nat /\ data.settings \in Nat
      BY <1>1, CoordinatorBounds DEF Snapshots, IInv, TypeOK
    <3> QED
      BY <1>1, <2>1, <3>1
  <2>2. ASSUME pc # "idle", NEW rs \in [Blocks -> {0, poll}],
               NEW id \in {0, poll}, PollReturns(rs, id)
        PROVE  /\ data' # NoData /\ data'.poll >= data.poll
               /\ data'.gateway < data.gateway => infoRead = "lost" /\ data'.poll = poll
               /\ data'.settings >= data.settings
    BY <1>1, <2>2, SnapshotIsData, ReturnIsNewer
  <2> QED
    BY <1>1, <2>1, <2>2, StepKeepsOrReturns
<1> QED
  BY <1>1, CoordinatorInvariance, PTL DEF Spec, NeverOlder

\* A slave whose identification a poll had to do without is never asked again:
\* the cache entry is made before that poll's data is published.
THEOREM IdentificationIsNotRetried == Spec => NotAskedAgain
<1>1. ASSUME IInv, [Next]_vars, data # NoData, data.ident = 0
      PROVE  pc' # "ident"
  <2>1. unsupported /\ pc # "ident"
    BY <1>1 DEF IInv, DataInv, PollInv
  <2>2. CASE BlockRead \/ BlockSkipped
    BY <1>1, <2>1, <2>2 DEF BlockRead, BlockSkipped, AfterBlock, PollReturns,
                            PollRaises
  <2> QED
    BY <1>1, <2>1, <2>2
    DEF Next, Step, vars, StartPoll, ReadInfo, ReadConfiguration, IdentRead,
        IdentFails, Unexpected, PollRaises, Cancelled
<1> QED
  BY <1>1, CoordinatorInvariance, PTL DEF Spec, NotAskedAgain
=============================================================================
