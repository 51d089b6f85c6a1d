--------------------------- MODULE MCModbusClient ---------------------------
(* Small instances of ModbusClient: a poller that reads, a writer and a    *)
(* task that closes the client.                                            *)
EXTENDS ModbusClient, TLC

CONSTANTS poller, writer, closer

MCTasks == {poller, writer, closer}

MCOpsOf == (poller :> {"gateway_info", "identify", "read"})
           @@ (writer :> {"write", "ping"})
           @@ (closer :> {"close"})

\* Enough to cancel a close
MCFewOpsOf == (poller :> {"gateway_config", "identify"})
              @@ (writer :> {"write"})
              @@ (closer :> {"close"})

Symmetry == Permutations(Sessions) \cup Permutations(Values)
=============================================================================
