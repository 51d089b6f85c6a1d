---------------------------- MODULE BluezPairing ----------------------------
(***************************************************************************)
(* Pairing a meter through BlueZ, async_bluez_pair_device of               *)
(* src/inepro_metering/ble.py: a temporary agent that answers the PIN      *)
(* request (_bluez_agent.py), a second D-Bus connection for the calls, and *)
(* the way back out of every step that fails, times out or is cancelled.   *)
(*                                                                         *)
(* bzAt is the await the task is suspended in.  BlueZ is external: it      *)
(* forgets the agent, the discovery and the pairing of a D-Bus connection  *)
(* that is closed.  A device path always names an adapter.                 *)
(***************************************************************************)
Buses == {"agent", "main"}

VARIABLES
  bzAt,        \* the await the task is suspended in
  bzPin,       \* a PIN or a PIN provider was given
  bzForce,     \* force_repair
  bzAgain,     \* Pair was called a second time
  bzSeen,      \* pairing_request_event
  bzTask,      \* the task that awaits the answer to Pair is running
  bzEnd,       \* how the call will end, once it has cleaned up
  bzResult,    \* how the last call ended
  bzBus,       \* open D-Bus connections
  bzAgent,     \* the agent as BlueZ knows it
  bzDiscovery, \* BlueZ discovers on behalf of the main connection
  bzPairing,   \* BlueZ pairs on behalf of the main connection
  bzLeaked     \* history: cancelled while the agent was being unregistered

bzCall == <<bzPin, bzForce>>
bzDaemon == <<bzBus, bzAgent, bzDiscovery, bzPairing>>
bzVars == <<bzAt, bzCall, bzAgain, bzSeen, bzTask, bzEnd, bzResult, bzDaemon,
            bzLeaked>>

\* CancelPairing is called in three places; what follows it there.
AfterCancel == [cancel_stale |-> "remove", cancel_timed_out |-> "disconnect",
                cancel_in_progress |-> "pause"]
Awaits ==
  {"idle", "agent_bus", "register", "default", "bus", "path", "remove",
   "discover", "rediscover", "stop", "pair", "pin", "disconnect", "pause", "cancel_cancelled", "trust",
   "unregister"} \cup DOMAIN AfterCancel
Ends == {"none", "paired", "failed", "unsupported", "raised", "cancelled"}

BluezTypeOK ==
  /\ bzAt \in Awaits
  /\ bzPin \in BOOLEAN /\ bzForce \in BOOLEAN /\ bzAgain \in BOOLEAN
  /\ bzSeen \in BOOLEAN /\ bzTask \in BOOLEAN
  /\ bzEnd \in Ends /\ bzResult \in Ends
  /\ bzBus \subseteq Buses
  /\ bzAgent \in {"none", "registered", "default"}
  /\ bzDiscovery \in BOOLEAN /\ bzPairing \in BOOLEAN /\ bzLeaked \in BOOLEAN

BluezInit ==
  /\ bzAt = "idle" /\ bzPin = FALSE /\ bzForce = FALSE
  /\ bzAgain = FALSE /\ bzSeen = FALSE /\ bzTask = FALSE
  /\ bzEnd = "none" /\ bzResult = "none"
  /\ bzBus = {} /\ bzAgent = "none"
  /\ bzDiscovery = FALSE /\ bzPairing = FALSE /\ bzLeaked = FALSE

-----------------------------------------------------------------------------
(* Leaving *)

\* The agent's connection is closed, and with it what BlueZ kept for it.
AgentGone(end) ==
  /\ bzBus' = {}
  /\ bzAgent' = "none"
  /\ bzAt' = "idle"
  /\ bzResult' = end

\* Wrong on purpose: the connection of the calls stays open.
UnwindKeepingBus(end) ==
  /\ IF bzAgent # "none"
       THEN /\ bzAt' = "unregister"
            /\ UNCHANGED <<bzBus, bzAgent, bzResult>>
       ELSE /\ bzBus' = bzBus \ {"agent"} /\ bzAt' = "idle" /\ bzResult' = end
            /\ UNCHANGED bzAgent
  /\ UNCHANGED <<bzDiscovery, bzPairing>>
  /\ bzEnd' = end

\* The `finally` clauses on the way out: the main connection is closed, then
\* the agent is unregistered.
Unwind(end) ==
  /\ bzDiscovery' = FALSE
  /\ bzPairing' = FALSE
  /\ bzEnd' = end
  /\ IF bzAgent # "none"
       THEN /\ bzAt' = "unregister"
            /\ bzBus' = bzBus \ {"main"}
            /\ UNCHANGED <<bzAgent, bzResult>>
       ELSE AgentGone(end)

Leave(end) ==
  /\ Unwind(end)
  /\ UNCHANGED <<bzCall, bzAgain, bzSeen, bzTask, bzLeaked>>

\* UnregisterAgent answered or failed.
Unregistered ==
  /\ bzAt = "unregister"
  /\ AgentGone(bzEnd)
  /\ UNCHANGED <<bzCall, bzAgain, bzSeen, bzTask, bzEnd, bzDiscovery, bzPairing,
                 bzLeaked>>

-----------------------------------------------------------------------------
(* async_bluez_pair_device *)

To(step) ==
  /\ bzAt' = step
  /\ UNCHANGED <<bzCall, bzAgain, bzSeen, bzTask, bzEnd, bzResult, bzLeaked>>

\* Only Linux hosts with dbus-fast can pair; without a PIN there is no agent.
PairDevice(pin, force, supported) ==
  /\ bzAt = "idle"
  /\ ~bzLeaked /\ ~bzTask
  /\ bzPin' = pin /\ bzForce' = force
  /\ bzAgain' = FALSE /\ bzSeen' = FALSE /\ bzEnd' = "none"
  /\ bzAt' = IF ~supported THEN "idle" ELSE IF pin THEN "agent_bus" ELSE "bus"
  /\ bzResult' = IF supported THEN "none" ELSE "unsupported"
  /\ UNCHANGED <<bzTask, bzDaemon, bzLeaked>>

\* The agent: its connection, RegisterAgent, RequestDefaultAgent.
AgentBusOk ==
  /\ bzAt = "agent_bus"
  /\ bzBus' = {"agent"}
  /\ To("register")
  /\ UNCHANGED <<bzAgent, bzDiscovery, bzPairing>>

RegisterOk ==
  /\ bzAt = "register"
  /\ bzAgent' = "registered"
  /\ To("default")
  /\ UNCHANGED <<bzBus, bzDiscovery, bzPairing>>

DefaultOk ==
  /\ bzAt = "default"
  /\ bzAgent' = "default"
  /\ To("bus")
  /\ UNCHANGED <<bzBus, bzDiscovery, bzPairing>>

BusOk ==
  /\ bzAt = "bus"
  /\ bzBus' = bzBus \cup {"main"}
  /\ To("path")
  /\ UNCHANGED <<bzAgent, bzDiscovery, bzPairing>>

\* Whatever fails before the main connection is open is raised as it is.
SetupFails ==
  /\ bzAt \in {"agent_bus", "register", "default", "bus"}
  /\ Leave("raised")

\* Pair is called in a task of its own.
CallPair(again) ==
  /\ bzAt' = "pair"
  /\ bzAgain' = again
  /\ bzTask' = TRUE
  /\ bzPairing' = TRUE
  /\ UNCHANGED <<bzCall, bzEnd, bzResult, bzBus, bzAgent, bzLeaked>>

\* The device path is known, or made up; a forced repair first removes the
\* device and waits until BlueZ has discovered it again.
PathOk ==
  /\ bzAt = "path"
  /\ \/ bzForce /\ To("cancel_stale") /\ UNCHANGED bzDaemon
     \/ ~bzForce /\ CallPair(FALSE) /\ UNCHANGED <<bzSeen, bzDiscovery>>

\* The errors of CancelPairing, RemoveDevice and StartDiscovery are logged only.
CancelPairingReturns ==
  /\ bzAt \in DOMAIN AfterCancel
  /\ To(AfterCancel[bzAt])
  /\ bzPairing' \in {FALSE, bzPairing}
  /\ UNCHANGED <<bzBus, bzAgent, bzDiscovery>>

RemoveReturns == bzAt = "remove" /\ To("discover") /\ UNCHANGED bzDaemon

DiscoverReturns ==
  /\ bzAt = "discover"
  /\ To("rediscover")
  /\ bzDiscovery' \in BOOLEAN
  /\ UNCHANGED <<bzBus, bzAgent, bzPairing>>

\* The wait for the device ends, found or not, or is cancelled; StopDiscovery
\* follows in every case.
Rediscovered(end) ==
  /\ bzAt = "rediscover"
  /\ bzAt' = "stop"
  /\ bzEnd' = end
  /\ UNCHANGED <<bzCall, bzAgain, bzSeen, bzTask, bzResult, bzDaemon, bzLeaked>>

StopReturns ==
  /\ bzAt = "stop"
  /\ \/ /\ bzEnd = "none"
        /\ CallPair(FALSE)
        /\ bzDiscovery' \in {FALSE, bzDiscovery}
        /\ UNCHANGED bzSeen
     \/ bzEnd # "none" /\ Leave(bzEnd)

\* RequestPinCode or RequestPasskey reaches the agent.
PinRequested ==
  /\ bzAt = "pair" /\ bzPairing /\ bzAgent = "default"
  /\ bzSeen' = TRUE
  /\ bzAt' = "pin"
  /\ UNCHANGED <<bzCall, bzAgain, bzTask, bzEnd, bzResult, bzDaemon, bzLeaked>>

\* Pair answered: the device is then marked trusted, if that works.
Paired ==
  /\ bzAt \in {"pair", "pin"}
  /\ bzAt' = "trust"
  /\ bzTask' = FALSE
  /\ bzPairing' = FALSE
  /\ UNCHANGED <<bzCall, bzAgain, bzSeen, bzEnd, bzResult, bzBus, bzAgent,
                 bzDiscovery, bzLeaked>>

TrustReturns == bzAt = "trust" /\ Leave("paired")

\* Wrong on purpose: "in progress" is met every time.
NotPairedForEver ==
  /\ bzAt \in {"pair", "pin"}
  /\ bzTask' = FALSE
  /\ bzAt' = "cancel_in_progress"
  /\ bzPairing' = FALSE
  /\ UNCHANGED <<bzCall, bzAgain, bzSeen, bzEnd, bzResult, bzBus, bzAgent,
                 bzDiscovery, bzLeaked>>

\* Pair failed or timed out: "in progress" is met once, by cancelling the
\* pairing that is in the way; anything else ends the call.
NotPaired ==
  /\ bzAt \in {"pair", "pin"}
  /\ bzTask' = FALSE
  /\ \/ /\ ~bzAgain
        /\ bzAt' = "cancel_in_progress"
        /\ bzPairing' = FALSE
        /\ UNCHANGED <<bzCall, bzAgain, bzSeen, bzEnd, bzResult, bzBus, bzAgent,
                       bzDiscovery, bzLeaked>>
     \/ /\ \E end \in {"failed", "unsupported"} : Unwind(end)
        /\ UNCHANGED <<bzCall, bzAgain, bzSeen, bzLeaked>>

PauseEnds ==
  /\ bzAt = "pause"
  /\ bzSeen' = FALSE
  /\ CallPair(TRUE)
  /\ UNCHANGED bzDiscovery

\* No PIN request came in time: the pairing is cancelled and the device
\* disconnected before the call fails.
PinTimesOut ==
  /\ bzAt = "pair" /\ ~bzSeen
  /\ bzAt' = "cancel_timed_out"
  /\ bzTask' = FALSE
  /\ UNCHANGED <<bzCall, bzAgain, bzSeen, bzEnd, bzResult, bzDaemon, bzLeaked>>

DisconnectReturns == bzAt = "disconnect" /\ Leave("failed")

\* GetManagedObjects failed.
PathFails == bzAt = "path" /\ Leave("failed")

-----------------------------------------------------------------------------
(* Cancellation *)

\* A cancelled first Pair is followed by CancelPairing; everywhere else the
\* way out begins at once.  asyncio.wait leaves the Pair task running when it
\* is cancelled; awaiting the task itself cancels it.
CancelPair ==
  /\ bzAt \in {"pair", "pin", "cancel_timed_out", "disconnect"} /\ ~bzAgain
  /\ bzAt' = "cancel_cancelled"
  /\ bzTask' = (bzTask /\ bzAt = "pair")
  /\ UNCHANGED <<bzCall, bzAgain, bzSeen, bzEnd, bzResult, bzDaemon, bzLeaked>>

CancelReturns == bzAt = "cancel_cancelled" /\ Leave("cancelled")

CancelElsewhere ==
  /\ bzAt \notin {"idle", "rediscover", "unregister"}
  /\ bzAt \in {"pair", "pin", "cancel_timed_out", "disconnect"} => bzAgain
  /\ Unwind("cancelled")
  /\ bzTask' = (bzTask /\ bzAt \in {"pair", "cancel_cancelled"})
  /\ UNCHANGED <<bzCall, bzAgain, bzSeen, bzLeaked>>

\* Nothing catches a cancellation while the agent is being unregistered.
CancelUnregister ==
  /\ bzAt = "unregister"
  /\ bzAt' = "idle"
  /\ bzResult' = "cancelled"
  /\ bzLeaked' = TRUE
  /\ UNCHANGED <<bzCall, bzAgain, bzSeen, bzTask, bzEnd, bzDaemon>>

\* The Pair task left behind runs into its own timeout.
OrphanEnds ==
  /\ bzTask
  /\ bzAt \in {"cancel_cancelled", "unregister", "idle"}
  /\ bzTask' = FALSE
  /\ UNCHANGED <<bzAt, bzCall, bzAgain, bzSeen, bzEnd, bzResult, bzDaemon,
                 bzLeaked>>

-----------------------------------------------------------------------------

BluezStep ==
  \/ AgentBusOk \/ RegisterOk \/ DefaultOk \/ BusOk \/ SetupFails
  \/ PathOk \/ PathFails \/ CancelPairingReturns
  \/ RemoveReturns \/ DiscoverReturns \/ StopReturns
  \/ Rediscovered("none") \/ Rediscovered("failed")
  \/ Paired \/ NotPaired \/ PauseEnds \/ PinTimesOut
  \/ DisconnectReturns \/ TrustReturns \/ CancelReturns \/ Unregistered
  \/ OrphanEnds

BluezOther ==
  \/ PinRequested
  \/ Rediscovered("cancelled") \/ CancelPair \/ CancelElsewhere \/ CancelUnregister
  \/ \E pin, force, supported \in BOOLEAN : PairDevice(pin, force, supported)

BluezNext == BluezStep \/ BluezOther

BluezSpec == BluezInit /\ [][BluezNext]_bzVars

-----------------------------------------------------------------------------
(* Properties *)

\* Whatever failed or was cancelled, and whenever, the call leaves no D-Bus
\* connection, agent, discovery or pairing behind, unless it was cancelled a
\* moment too late, in UnregisterAgent.
PairingReleased ==
  bzAt = "idle" /\ ~bzLeaked =>
    bzBus = {} /\ bzAgent = "none" /\ ~bzDiscovery /\ ~bzPairing

\* While BlueZ pairs for a caller with a PIN, the agent that knows the PIN is
\* its default agent; the second Pair waits for a PIN request of its own.
AgentAnswersPin ==
  /\ bzPairing /\ bzPin => bzAgent = "default"
  /\ bzAt = "pair" => ~bzSeen

\* _bluez_pair_device_once: the task that awaits the answer to Pair is awaited,
\* or cancelled and awaited, on every path; only a cancellation leaves it behind.
PairTaskAwaited ==
  bzTask => \/ bzAt \in {"pair", "pin", "cancel_cancelled"}
            \/ bzAt \in {"unregister", "idle"} /\ bzEnd = "cancelled"

BluezInv == BluezTypeOK /\ PairingReleased /\ AgentAnswersPin /\ PairTaskAwaited
=============================================================================
