---------------------------- MODULE EntryTeardown ----------------------------
(***************************************************************************)
(* The end of a config entry while its client is in use: async_unload_entry *)
(* of custom_components/inepro_metering/__init__.py removes the entities   *)
(* and closes the client through async_shutdown of the coordinator; polls, *)
(* writes and service calls that are under way go on.                      *)
(*                                                                         *)
(* A caller makes any number of calls of ModbusClient, one after the       *)
(* other: the blocks of a poll, the writes of a service call, a write and  *)
(* the refresh it requested.                                               *)
(***************************************************************************)
EXTENDS ModbusClient

CONSTANT Unloader  \* the task of async_unload_entry

ASSUME UnloaderAssumption == Unloader \in Tasks /\ OpsOf[Unloader] = {"close"}

Callers == Tasks \ {Unloader}

VARIABLES
  entry, \* whether callers may begin, the client is to be closed, or was
  busy,  \* the callers under way
  late   \* history: the callers under way when the client was last to be closed

teardown == <<entry, busy, late>>
teardownVars == <<vars, teardown>>

TeardownInit == Init /\ entry = "loaded" /\ busy = {} /\ late = {}

\* Wrong on purpose: nobody asks whether the entry is loaded.
BeginAnyTime(t) ==
  /\ t \in Callers \ busy
  /\ busy' = busy \cup {t}
  /\ UNCHANGED <<vars, entry, late>>

\* Entities and their polls exist, and the service finds its coordinator, only
\* while the entry is loaded.
Begin(t) ==
  /\ entry = "loaded"
  /\ t \in Callers \ busy
  /\ busy' = busy \cup {t}
  /\ UNCHANGED <<vars, entry, late>>

Call(t) ==
  /\ t \in busy
  /\ \E o \in OpKinds : Start(t, o)
  /\ UNCHANGED teardown

End(t) ==
  /\ t \in busy /\ pc[t] = "idle"
  /\ busy' = busy \ {t}
  /\ UNCHANGED <<vars, entry, late>>

\* async_unload_platforms succeeded.
UnloadPlatforms ==
  /\ entry = "loaded"
  /\ entry' = "closing"
  /\ late' = busy
  /\ UNCHANGED <<vars, busy>>

\* async_shutdown closes the client and does no more: it hides that of Home
\* Assistant's coordinator, which would refuse refreshes from now on.  Home
\* Assistant may call it again.
Shutdown ==
  /\ entry = "closing"
  /\ Start(Unloader, "close")
  /\ late' = busy
  /\ UNCHANGED <<entry, busy>>

Unloaded ==
  /\ entry = "closing"
  /\ pc[Unloader] = "idle" /\ result[Unloader] = "ok"
  /\ entry' = "unloaded"
  /\ UNCHANGED <<vars, busy, late>>

\* What goes on inside a call, whoever made it; Home Assistant cancels tasks.
Work(t) == (Step(t) \/ Cancel(t) \/ CancelWaiting(t)) /\ UNCHANGED teardown
Lose(s) == LinkLost(s) /\ UNCHANGED teardown

TeardownNext ==
  \/ \E t \in Tasks : Begin(t) \/ Call(t) \/ End(t) \/ Work(t)
  \/ UnloadPlatforms \/ Shutdown \/ Unloaded
  \/ \E s \in Sessions : Lose(s)

TeardownSpec == TeardownInit /\ [][TeardownNext]_teardownVars

\* The transport libraries bound every connect, request and close with a
\* timeout, so a task inside a method never waits for ever on the wire.
Fairness == \A t \in Tasks : WF_teardownVars(Step(t) /\ UNCHANGED teardown)

FairTeardownSpec == TeardownSpec /\ Fairness

-----------------------------------------------------------------------------
(* Properties *)

\* An entry whose close was called with no caller under way has nothing open once
\* it is unloaded, and opens nothing ever after: the serial port or gateway slot
\* is free for the next coordinator, or for another program.  A caller under way
\* connects again after the close, and what it opens stays open.
QuietUnloadStaysClosed ==
  entry = "unloaded" /\ late = {} => up = {} /\ client = NoSession

\* The inductive invariant: whoever is inside a method is under way, and was
\* when the close was called; the unloader is inside async_close and nothing else;
\* and while nobody else is about, what its close has closed stays closed.
TeardownInv ==
  /\ entry \in {"loaded", "closing", "unloaded"} /\ busy \subseteq Callers
  /\ \A t \in Callers : pc[t] # "idle" => t \in busy
  /\ entry # "loaded" => busy \subseteq late
  /\ pc[Unloader] # "idle" => op[Unloader] = "close" /\ entry = "closing"
  /\ entry = "loaded" => result[Unloader] = "none"
  /\ entry = "unloaded" => result[Unloader] = "ok"
  /\ entry # "loaded" /\ late = {} /\ pc[Unloader] = "idle" /\ result[Unloader] = "ok"
       => up = {} /\ client = NoSession

=============================================================================
