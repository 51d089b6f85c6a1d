-------------------------- MODULE MCEntryTeardown --------------------------
(* Small instances of EntryTeardown: a poll and a service call of several  *)
(* writes, and the task that unloads the entry.                            *)
EXTENDS EntryTeardown, TLC

CONSTANTS poller, writer

MCTasks == {poller, writer, Unloader}

MCOpsOf == (poller :> {"gateway_config", "identify"}) @@ (writer :> {"write"})
           @@ (Unloader :> {"close"})
=============================================================================
