----------------------------- MODULE EntryStore -----------------------------
(***************************************************************************)
(* The config entries of the integration and their life: set up by         *)
(* async_setup_entry, unloaded, set up again after a failed first refresh  *)
(* or because somebody asked for a reload.                                 *)
(*                                                                         *)
(* A coordinator is built from the data the entry has when its setup       *)
(* begins and keeps to it: running[id] is what it connects to.  Home       *)
(* Assistant's part (states of an entry, retries, reloads) is modelled     *)
(* from how the integration uses it.                                       *)
(***************************************************************************)
EXTENDS EntryRoutes

CONSTANTS
  Ids,          \* places for entries, taken in order
  Reaches,      \* Reaches[<<endpoint, slave>>]: the serial that answers there
  StoredBefore  \* the sequences of entries a start may find stored

ASSUME IdsAssumption == Ids \in SUBSET (Nat \ {0}) /\ IsFiniteSet(Ids)

\* What is stored was written by some version of the integration.  Home Assistant
\* has one entry for every unique id.
ASSUME StoredAssumption ==
  \A stored \in StoredBefore :
    /\ DOMAIN stored \subseteq Ids
    /\ \A i \in DOMAIN stored : WasWritten(stored[i])
    /\ \A i, j \in DOMAIN stored : stored[i].uid = stored[j].uid => i = j

VARIABLES
  entries,  \* entries[id]: the data of the entry, NoEntry where there is none
  state,    \* state[id]: where its setup is
  reload,   \* the entries a reload is asked for
  running,  \* running[id]: what the coordinator of the entry connects to
  saved     \* the entries whose data was last written by a form the user sent

store == <<entries, state, reload, running, saved>>

NoEntry == [version |-> 0]
Absent(id) == entries[id] = NoEntry
Present == {id \in Ids : entries[id] # NoEntry}

\* What a coordinator of an entry connects to: the connection fields, and on a
\* bus the slave every meter is asked at.
Connection(e) ==
  [transport |-> e.transport, ep |-> e.ep, line |-> e.line,
   slaves |-> IF e.bus THEN {<<MeterKey(e.meters[i]), e.meters[i].slave>> : i \in DOMAIN e.meters}
              ELSE {<<"", e.slave>>}]
NotRunning == [transport |-> "none"]

StoreInit ==
  /\ \E stored \in StoredBefore :
       entries = [id \in Ids |-> IF id \in DOMAIN stored THEN stored[id] ELSE NoEntry]
  /\ state = [id \in Ids |-> "not_loaded"]
  /\ reload = {} /\ saved = {}
  /\ running = [id \in Ids |-> NotRunning]

-----------------------------------------------------------------------------
(* The life of an entry *)

\* async_migrate_entry, then async_setup_entry up to the first refresh
SetUp(id) ==
  /\ ~Absent(id) /\ state[id] = "not_loaded"
  /\ LET e == Migrate(entries[id]) IN
       /\ entries' = [entries EXCEPT ![id] = e]
       /\ running' = [running EXCEPT ![id] = Connection(e)]
  /\ state' = [state EXCEPT ![id] = "setup"]
  /\ UNCHANGED <<reload, saved>>

\* _async_update_gateway_entry_identity: the serial of the gateway becomes that
\* of the entry, whose meters have their own.
GatewayIdentity(e) ==
  IF e.bus /\ e.transport = "gateway" THEN [e EXCEPT !.serial = "gateway"] ELSE e

\* async_setup_entry after the first refresh
FirstRefreshOk(id) ==
  /\ state[id] = "setup"
  /\ state' = [state EXCEPT ![id] = "loaded"]
  /\ entries' = [entries EXCEPT ![id] = GatewayIdentity(@)]
  /\ UNCHANGED <<reload, running, saved>>

FirstRefreshFails(id) ==
  /\ state[id] = "setup"
  /\ state' = [state EXCEPT ![id] = "retry"]
  /\ running' = [running EXCEPT ![id] = NotRunning]
  /\ UNCHANGED <<entries, reload, saved>>

RetrySetup(id) ==
  /\ state[id] = "retry"
  /\ state' = [state EXCEPT ![id] = "not_loaded"]
  /\ UNCHANGED <<entries, reload, running, saved>>

\* async_unload_entry: a reload waits for a setup that is going on.
Unload(id) ==
  /\ id \in reload /\ state[id] \in {"loaded", "retry"}
  /\ reload' = reload \ {id}
  /\ state' = [state EXCEPT ![id] = "not_loaded"]
  /\ running' = [running EXCEPT ![id] = NotRunning]
  /\ UNCHANGED <<entries, saved>>

\* A platform does not unload: the entry stays as it is until a restart.
UnloadFails(id) ==
  /\ id \in reload /\ state[id] = "loaded"
  /\ reload' = reload \ {id}
  /\ state' = [state EXCEPT ![id] = "failed_unload"]
  /\ UNCHANGED <<entries, running, saved>>

StoreNext ==
  \E id \in Ids :
    \/ SetUp(id) \/ FirstRefreshOk(id) \/ FirstRefreshFails(id)
    \/ RetrySetup(id) \/ Unload(id) \/ UnloadFails(id)

-----------------------------------------------------------------------------
(* Writing an entry, for the flows *)

\* Wrong on purpose: a form is saved without a reload.
SavedUnloaded(id, e) ==
  /\ entries' = [entries EXCEPT ![id] = e]
  /\ saved' = saved \cup {id}
  /\ UNCHANGED <<reload, state, running>>

\* async_update_entry and async_reload: whatever the state of the entry is
Saved(id, e) ==
  /\ entries' = [entries EXCEPT ![id] = e]
  /\ saved' = saved \cup {id}
  /\ reload' = reload \cup {id}
  /\ UNCHANGED <<state, running>>

\* A discovery updates an entry.  Home Assistant asks for a reload when the data
\* changed and the entry is loaded or waits for a retry; an entry whose unique
\* id is not the serial is updated without.
Rediscovered(id, e, serial) ==
  LET changed == e # entries[id] IN
  /\ entries' = [entries EXCEPT ![id] = e]
  /\ saved' = IF changed THEN saved \ {id} ELSE saved
  /\ LET due == \/ state[id] = "retry"
                \/ changed /\ state[id] = "loaded"
     IN reload' = IF entries[id].uid = serial /\ due THEN reload \cup {id} ELSE reload
  /\ UNCHANGED <<state, running>>

\* async_create_entry: the entry is added and set up.
Created(e) ==
  LET id == CHOOSE i \in Ids \ Present : \A j \in Ids \ Present : i <= j IN
  /\ Present # Ids
  /\ entries' = [entries EXCEPT ![id] = e]
  /\ saved' = saved \cup {id}
  /\ UNCHANGED <<state, reload, running>>

-----------------------------------------------------------------------------
(* Looking for a meter in the entries *)

\* get_configured_meters, by serial
SerialsOf(e) ==
  IF e.bus THEN {e.meters[i].serial : i \in DOMAIN e.meters} \ {NoSerial}
  ELSE {IF e.serial # NoSerial THEN e.serial ELSE e.title} \ {NoSerial}

\* _find_entry_containing_meter_serial; 0 when there is none
EntryOf(serial) ==
  LET owners == {id \in Present : serial \in SerialsOf(entries[id])} IN
  IF owners = {} THEN 0 ELSE CHOOSE id \in owners : \A other \in owners : id <= other

UidTaken(uid) == \E id \in Present : entries[id].uid = uid

\* What answers on a connection
Answers(r) == Reaches[<<Canonical[r.ep], r.slave>>]
=============================================================================
