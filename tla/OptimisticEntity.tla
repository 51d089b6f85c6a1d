--------------------------- MODULE OptimisticEntity ---------------------------
(***************************************************************************)
(* An entity over one writable setting: the switches, numbers, selects and *)
(* texts of custom_components/inepro_metering share this protocol.         *)
(*                                                                         *)
(* A service call sets the optimistic value, writes the register behind    *)
(* the client's lock, and asks for a refresh; an exception takes the       *)
(* optimistic value back.  Home Assistant does not serialize the calls, so *)
(* several may wait for the lock, which is first come, first served.  The  *)
(* getter drops the optimistic value once the coordinator's data agrees    *)
(* with it.  Every assignment is followed by async_write_ha_state in the   *)
(* same step, so the state Home Assistant has is a function of the entity. *)
(*                                                                         *)
(* A write with its verification is one step (ModbusClient), and so is the *)
(* read of the setting's block, which is published later, when the poll    *)
(* returns.                                                                *)
(***************************************************************************)
EXTENDS Naturals, Sequences

CONSTANTS
  Values,       \* of the setting
  None,         \* no value
  Unavailable,  \* the state of an entity whose last update failed
  OtherValues,  \* what others write to the register
  Cancellations, \* Home Assistant cancels calls (a script in mode restart)
  Changes       \* bound: service calls and writes of others

ASSUME NoneIsNoValue == None \notin Values /\ Unavailable \notin Values \cup {None}
ASSUME OthersAssumption == OtherValues \subseteq Values /\ Cancellations \in BOOLEAN
ASSUME ChangesBound == Changes \in Nat

Known == Values \cup {None}

VARIABLES
  reg,        \* the register in the meter
  queue,      \* the values of the calls that have or await the lock, in order
  optimistic, \* the entity's _optimistic_value
  actual,     \* the setting in the coordinator's data
  available,  \* the entity is available
  poll,       \* what the poll in progress has read: <<>> or <<value>>
  changes,    \* calls and writes of others so far
  disturbed,  \* the optimistic value is not what the last write wrote: the
              \* call was cancelled or another master wrote after it
  verified    \* the last call returned and nobody wrote since

vars == <<reg, queue, optimistic, actual, available, poll, changes, disturbed, verified>>

TypeOK ==
  /\ reg \in Values
  /\ queue \in Seq(Values)
  /\ optimistic \in Known
  /\ actual \in Known
  /\ available \in BOOLEAN
  /\ poll \in {<<>>} \cup {<<v>> : v \in Known}
  /\ changes \in 0 .. Changes
  /\ disturbed \in BOOLEAN
  /\ verified \in BOOLEAN

Init ==
  /\ reg \in Values
  /\ queue = <<>>
  /\ optimistic = None
  /\ actual = reg
  /\ available = TRUE
  /\ poll = <<>>
  /\ changes = 0
  /\ disturbed = FALSE
  /\ verified = FALSE

\* The getter's effect: an optimistic value the data agrees with is dropped.
\* Home Assistant calls it only while the entity is available.
Settled(o, a, avail) == IF avail /\ o = a THEN None ELSE o

\* What the user sees.
Shown ==
  IF ~available THEN Unavailable
  ELSE IF optimistic # None THEN optimistic ELSE actual

\* async_turn_on, async_turn_off, async_set_native_value, ...: home assistant
\* leaves out unavailable entities.
Start(v) ==
  /\ available
  /\ changes < Changes
  /\ changes' = changes + 1
  /\ optimistic' = Settled(v, actual, available)
  /\ queue' = Append(queue, v)
  /\ disturbed' = FALSE
  /\ verified' = FALSE
  /\ UNCHANGED <<reg, actual, available, poll>>

\* The first call writes and verifies its value.
Written ==
  /\ queue # <<>>
  /\ reg' = Head(queue)
  /\ queue' = Tail(queue)
  /\ verified' = (queue' = <<>>)
  /\ UNCHANGED <<optimistic, actual, available, poll, changes, disturbed>>

\* What a write that did not return normally has done to the register.
MaybeWritten == reg' \in {reg, Head(queue)}

\* Wrong on purpose: a failed call keeps its optimistic value.
FailsKeeping ==
  /\ queue # <<>>
  /\ MaybeWritten
  /\ queue' = Tail(queue)
  /\ verified' = FALSE
  /\ UNCHANGED <<optimistic, actual, available, poll, changes, disturbed>>

\* The write of the first call raises: the optimistic value goes, even if it
\* is that of a later call.
Fails ==
  /\ queue # <<>>
  /\ MaybeWritten
  /\ queue' = Tail(queue)
  /\ optimistic' = None
  /\ verified' = FALSE
  /\ UNCHANGED <<actual, available, poll, changes, disturbed>>

\* A call is cancelled, waiting for the lock or with it: "except Exception"
\* does not see that.  The last call leaves its optimistic value behind.
Cancelled(i) ==
  /\ Cancellations
  /\ IF i = 1 THEN MaybeWritten ELSE reg' = reg
  /\ queue' = SubSeq(queue, 1, i - 1) \o SubSeq(queue, i + 1, Len(queue))
  /\ disturbed' = (disturbed \/ i = Len(queue))
  /\ verified' = FALSE
  /\ UNCHANGED <<optimistic, actual, available, poll, changes>>

\* Another master, or the set_wifi_credentials service, writes the register.
OtherWrites(v) ==
  /\ changes < Changes
  /\ changes' = changes + 1
  /\ reg' = v
  /\ disturbed' = (disturbed \/ queue = <<>>)
  /\ verified' = FALSE
  /\ UNCHANGED <<queue, optimistic, actual, available, poll>>

\* A poll reads the block of the setting.
PollReads ==
  /\ poll = <<>>
  /\ poll' = <<reg>>
  /\ UNCHANGED <<reg, queue, optimistic, actual, available, changes, disturbed, verified>>

\* A poll skips the block, or the register holds no option of the setting.
PollSkips ==
  /\ poll = <<>>
  /\ poll' = <<None>>
  /\ UNCHANGED <<reg, queue, optimistic, actual, available, changes, disturbed, verified>>

\* The poll returns and the entity writes its state.
PollReturns ==
  /\ poll # <<>>
  /\ actual' = poll[1]
  /\ available' = TRUE
  /\ optimistic' = Settled(optimistic, poll[1], TRUE)
  /\ poll' = <<>>
  /\ UNCHANGED <<reg, queue, changes, disturbed, verified>>

\* The poll fails: the data stays, and the entity is unavailable unless the
\* coordinator keeps the data (a Bluetooth entry, a bus meter that answered).
PollFails ==
  /\ poll' = <<>>
  /\ available' \in BOOLEAN
  /\ optimistic' = Settled(optimistic, actual, available')
  /\ UNCHANGED <<reg, queue, actual, changes, disturbed, verified>>

Next ==
  \/ \E v \in Values : Start(v)
  \/ \E v \in OtherValues : OtherWrites(v)
  \/ \E i \in 1 .. Len(queue) : Cancelled(i)
  \/ Written \/ Fails
  \/ PollReads \/ PollSkips \/ PollReturns \/ PollFails

\* Calls end, polls end, and polls that have read the setting return again and again:
\* the coordinator polls forever, and a meter that never answers tells nothing.
Fairness ==
  /\ WF_vars(Written \/ Fails)
  /\ WF_vars(PollReturns \/ (poll # <<>> /\ PollFails))
  /\ SF_vars(PollReads)
  /\ SF_vars(PollReturns /\ actual' # None)

Spec == Init /\ [][Next]_vars
FairSpec == Spec /\ Fairness

-----------------------------------------------------------------------------
(* Properties *)

\* The optimistic value is that of the last call in the queue or, with no
\* call in progress, what the meter holds.
OptimisticIsLastWrite ==
  optimistic # None /\ ~disturbed =>
    optimistic = IF queue = <<>> THEN reg ELSE queue[Len(queue)]

IInv == TypeOK /\ OptimisticIsLastWrite

\* Whatever overlapped or failed before: once no call is in progress and the
\* data agrees with the meter, so does what the user sees, unless the last
\* call was cancelled or overwritten before its value was seen.
ShowsTheMeter ==
  available /\ queue = <<>> /\ actual = reg /\ ~disturbed => Shown = reg

\* Once nobody writes any more, the user never again sees a value the meter
\* does not hold, and sees the one it holds again and again.
EventuallyShown ==
  /\ <>[](disturbed \/ Shown \in {reg, None, Unavailable})
  /\ []<>(disturbed \/ Shown = reg)

\* "A stale poll immediately after a verified write should not revert the UI
\* value." (test_settings.py)
StalePollsDoNotRevert ==
  [][verified /\ verified' /\ available' /\ Shown = reg /\ actual' # None
       => Shown' = reg]_vars
=============================================================================
