---------------------------- MODULE ConfigEntries ----------------------------
(***************************************************************************)
(* The entries with everything that changes them: the life of an entry,    *)
(* one options or reconfigure flow, the flows that add entries, and        *)
(* advertisements, interleaved between any two awaits.                     *)
(***************************************************************************)
EXTENDS EntryCreation

vars == <<store, options, cre>>

Init == StoreInit /\ OptionsInit /\ CreationInit

Next ==
  \/ StoreNext /\ UNCHANGED <<options, cre>>
  \/ OptionsNext /\ UNCHANGED cre
  \/ CreationNext

Spec == Init /\ [][Next]_vars

-----------------------------------------------------------------------------
(* Properties *)

\* Whatever flows, discoveries and migrations wrote, in any order, the data of
\* an entry can be used: its routes are distinct, the active one is among them,
\* and the connection fields, or the slave of the meter of a bus, are those of
\* the active route.
StoredDataSound ==
  \A id \in Present :
    LET e == entries[id] IN
    e.version = LatestVersion =>
      IF e.bus
        THEN \A i \in DOMAIN e.meters : MeterSound(e.meters[i])
        ELSE Mirrored(e)

\* A route of an entry of one meter leads to the meter of the entry: a route is
\* written only after the meter there was asked who it is, also when another
\* flow or a discovery wrote the entry during the validation.
RoutesLeadToMeter ==
  \A id \in Present :
    LET e == entries[id] IN
    ~e.bus /\ e.version = LatestVersion =>
      \A i \in DOMAIN Routes(e) : Answers(Routes(e)[i]) = e.serial

\* What the user saved is what runs, once the entry is set up and no reload is
\* due: a form may be saved while the entry is being set up with older data.
SavedIsRunning ==
  \A id \in saved :
    state[id] = "loaded" /\ id \notin reload => running[id] = Connection(entries[id])

\* Two entries of one meter never have the same meter, unless one of them is
\* older than the unique ids made of serials.
OneDirectEntry ==
  \A i, j \in Present :
    /\ ~entries[i].bus /\ ~entries[j].bus
    /\ entries[i].uid = entries[i].serial /\ entries[j].uid = entries[j].serial
    /\ entries[i].serial = entries[j].serial
    => i = j

\* No step loses a meter: the meter of an entry stays the meter of the entry,
\* and a meter of a bus stays on the bus.  The exception is the switch of a route,
\* which writes the whole bus as it was before the validation: a meter added to
\* the bus since then is lost.
MetersStay ==
  [][\A id \in Present :
       \/ entries[id].version < LatestVersion
       \/ opt.kind = "switch" /\ opt.id = id /\ opt.from # entries[id]
       \/ SerialsOf(entries[id]) \subseteq SerialsOf(entries'[id])]_vars

\* A bus asks every meter at the slave of its route to the bus.
PolledOnBusRoute ==
  \A id \in Present :
    LET e == entries[id] IN
    e.bus => \A i \in DOMAIN e.meters : e.meters[i].slave = OwnBusRoute(e.meters[i], e).slave
=============================================================================
