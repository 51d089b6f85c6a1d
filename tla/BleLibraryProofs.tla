--------------------------- MODULE BleLibraryProofs ---------------------------
(***************************************************************************)
(* The Bluetooth library, for any number of links, requests and frames:    *)
(* what a failed, cancelled or finished use leaves behind, how often a     *)
(* frame is sent, and whose answer a request returns.                      *)
(***************************************************************************)
EXTENDS BleLibrary, TLAPS

-----------------------------------------------------------------------------
(* Pairing through BlueZ *)

\* The awaits before Pair is called, with the connections and the agent there.
Preparing == {"path", "cancel_stale", "remove", "discover", "rediscover", "stop"}
PairCalled == {"pair", "pin", "cancel_timed_out", "disconnect", "cancel_cancelled"}

\* What BlueZ holds for the call at every await: the agent of a call with a PIN
\* is the default agent as soon as it is set up, and stays it until the way out.
Holds ==
  /\ bzLeaked => bzAt = "idle"
  /\ bzAt \in {"idle", "agent_bus", "register"} => bzAgent = "none" \/ bzLeaked
  /\ bzAt = "unregister" => bzAgent # "none"
  /\ bzAt \in {"agent_bus", "register", "default"} => bzPin
  /\ bzAt \notin {"idle", "agent_bus", "register", "default", "unregister"}
       => bzAgent = IF bzPin THEN "default" ELSE "none"
  /\ bzAt \in {"idle", "agent_bus"} => bzBus = {} \/ bzLeaked
  /\ bzPairing => bzAt \in PairCalled \cup {"cancel_in_progress", "pause"}
  /\ bzDiscovery => bzAt \notin {"idle", "unregister"}

Unasked ==
  bzAt \in {"agent_bus", "register", "default", "bus", "pair"} \cup Preparing => ~bzSeen

BluezInd == BluezTypeOK /\ Holds /\ Unasked /\ PairTaskAwaited

\* The awaits one by one.
LEMMA AwaitsAre ==
  /\ DOMAIN AfterCancel = {"cancel_stale", "cancel_timed_out", "cancel_in_progress"}
  /\ AfterCancel["cancel_stale"] = "remove"
  /\ AfterCancel["cancel_timed_out"] = "disconnect"
  /\ AfterCancel["cancel_in_progress"] = "pause"
  /\ Awaits = {"idle", "agent_bus", "register", "default", "bus", "path", "remove", "discover",
               "rediscover", "stop", "pair", "pin", "disconnect", "pause", "cancel_cancelled",
               "trust", "unregister", "cancel_stale", "cancel_timed_out", "cancel_in_progress"}
  BY DEF AfterCancel, Awaits

LEMMA BluezInitially == BluezInit => BluezInd
  BY DEF BluezInit, BluezInd, PairTaskAwaited, BluezTypeOK, Holds, Unasked, Preparing, PairCalled, Awaits,
         Ends, Buses, AfterCancel

\* The answer to Pair stays awaited.
LEMMA PairTaskStays ==
  ASSUME BluezInd, [BluezNext]_bzVars
  PROVE  PairTaskAwaited'
<1>1. CASE bzTask' /\ ~bzTask
  <2>1. bzAt' = "pair"
    BY <1>1 DEF BluezNext, BluezStep, BluezOther, bzVars, AgentBusOk, RegisterOk, DefaultOk,
       BusOk, SetupFails, PathOk, PathFails, CancelPairingReturns, RemoveReturns,
       DiscoverReturns, StopReturns, Rediscovered, Paired, NotPaired, PauseEnds, PinTimesOut,
       DisconnectReturns, TrustReturns, CancelReturns, Unregistered, OrphanEnds, PinRequested,
       CancelPair, CancelElsewhere, CancelUnregister, PairDevice, To, CallPair, Leave,
       BluezInd, BluezTypeOK
  <2> QED BY <2>1 DEF PairTaskAwaited
<1>2. CASE bzTask /\ bzTask'
  <2>1. bzAt \in {"pair", "pin", "cancel_cancelled", "unregister", "idle"}
    BY <1>2 DEF BluezInd, PairTaskAwaited
  <2>2. CASE PinRequested \/ CancelPair
    BY <2>2 DEF PinRequested, CancelPair, PairTaskAwaited
  <2>3. CASE CancelReturns \/ CancelElsewhere
    BY <2>3 DEF CancelReturns, CancelElsewhere, Leave, Unwind, AgentGone, PairTaskAwaited
  <2>4. CASE CancelUnregister \/ Unregistered
    BY <1>2, <2>4 DEF CancelUnregister, Unregistered, AgentGone, BluezInd, PairTaskAwaited
  <2>5. CASE UNCHANGED bzVars
    BY <1>2, <2>5 DEF bzVars, BluezInd, PairTaskAwaited
  <2>6. \/ PinRequested \/ CancelPair \/ CancelReturns \/ CancelElsewhere
        \/ CancelUnregister \/ Unregistered \/ UNCHANGED bzVars
    BY <1>2, <2>1, AwaitsAre DEF BluezNext, BluezStep, BluezOther, AgentBusOk, RegisterOk,
       DefaultOk, BusOk, SetupFails, PathOk, PathFails, CancelPairingReturns, RemoveReturns,
       DiscoverReturns, StopReturns, Rediscovered, Paired, NotPaired, PauseEnds, PinTimesOut,
       DisconnectReturns, TrustReturns, OrphanEnds, PairDevice
  <2> QED BY <2>2, <2>3, <2>4, <2>5, <2>6
<1>3. CASE ~bzTask'
  BY <1>3 DEF PairTaskAwaited
<1> QED BY <1>1, <1>2, <1>3

LEMMA BluezStays == BluezInd /\ [BluezNext]_bzVars => BluezInd'
<1> SUFFICES ASSUME BluezInd, [BluezNext]_bzVars
             PROVE  BluezInd'
  OBVIOUS
<1>0. PairTaskAwaited'
  BY PairTaskStays
<1>1. CASE AgentBusOk
  <2>1. BluezTypeOK'
    BY <1>1, AwaitsAre DEF AgentBusOk, To, bzCall, BluezInd, BluezTypeOK, Ends, Buses
  <2>2. Holds'
    BY <1>1, AwaitsAre DEF AgentBusOk, To, bzCall, BluezInd, BluezTypeOK, Holds, PairCalled
  <2>3. Unasked'
    BY <1>1, AwaitsAre DEF AgentBusOk, To, bzCall, BluezInd, BluezTypeOK, Unasked, Preparing
  <2> QED BY <1>0, <2>1, <2>2, <2>3 DEF BluezInd
<1>2. CASE RegisterOk
  <2>1. BluezTypeOK'
    BY <1>2, AwaitsAre DEF RegisterOk, To, bzCall, BluezInd, BluezTypeOK, Ends, Buses
  <2>2. Holds'
    BY <1>2, AwaitsAre DEF RegisterOk, To, bzCall, BluezInd, BluezTypeOK, Holds, PairCalled
  <2>3. Unasked'
    BY <1>2, AwaitsAre DEF RegisterOk, To, bzCall, BluezInd, BluezTypeOK, Unasked, Preparing
  <2> QED BY <1>0, <2>1, <2>2, <2>3 DEF BluezInd
<1>3. CASE DefaultOk
  <2>1. BluezTypeOK'
    BY <1>3, AwaitsAre DEF DefaultOk, To, bzCall, BluezInd, BluezTypeOK, Ends, Buses
  <2>2. Holds'
    BY <1>3, AwaitsAre DEF DefaultOk, To, bzCall, BluezInd, BluezTypeOK, Holds, PairCalled
  <2>3. Unasked'
    BY <1>3, AwaitsAre DEF DefaultOk, To, bzCall, BluezInd, BluezTypeOK, Unasked, Preparing
  <2> QED BY <1>0, <2>1, <2>2, <2>3 DEF BluezInd
<1>4. CASE BusOk
  <2>1. BluezTypeOK'
    BY <1>4, AwaitsAre DEF BusOk, To, bzCall, BluezInd, BluezTypeOK, Ends, Buses
  <2>2. Holds'
    BY <1>4, AwaitsAre DEF BusOk, To, bzCall, BluezInd, BluezTypeOK, Holds, PairCalled
  <2>3. Unasked'
    BY <1>4, AwaitsAre DEF BusOk, To, bzCall, BluezInd, BluezTypeOK, Unasked, Preparing
  <2> QED BY <1>0, <2>1, <2>2, <2>3 DEF BluezInd
<1>5. CASE SetupFails
  <2>1. BluezTypeOK'
    BY <1>5, AwaitsAre DEF SetupFails, Leave, Unwind, AgentGone, bzCall, BluezInd,
       BluezTypeOK, Ends, Buses
  <2>2. Holds'
    BY <1>5, AwaitsAre DEF SetupFails, Leave, Unwind, AgentGone, bzCall, BluezInd,
       BluezTypeOK, Holds, PairCalled
  <2>3. Unasked'
    BY <1>5, AwaitsAre DEF SetupFails, Leave, Unwind, AgentGone, bzCall, BluezInd,
       BluezTypeOK, Unasked, Preparing
  <2> QED BY <1>0, <2>1, <2>2, <2>3 DEF BluezInd
<1>6. CASE PathFails
  <2>1. BluezTypeOK'
    BY <1>6, AwaitsAre DEF PathFails, Leave, Unwind, AgentGone, bzCall, BluezInd,
       BluezTypeOK, Ends, Buses
  <2>2. Holds'
    BY <1>6, AwaitsAre DEF PathFails, Leave, Unwind, AgentGone, bzCall, BluezInd,
       BluezTypeOK, Holds, PairCalled
  <2>3. Unasked'
    BY <1>6, AwaitsAre DEF PathFails, Leave, Unwind, AgentGone, bzCall, BluezInd,
       BluezTypeOK, Unasked, Preparing
  <2> QED BY <1>0, <2>1, <2>2, <2>3 DEF BluezInd
<1>7. CASE TrustReturns
  <2>1. BluezTypeOK'
    BY <1>7, AwaitsAre DEF TrustReturns, Leave, Unwind, AgentGone, bzCall, BluezInd,
       BluezTypeOK, Ends, Buses
  <2>2. Holds'
    BY <1>7, AwaitsAre DEF TrustReturns, Leave, Unwind, AgentGone, bzCall, BluezInd,
       BluezTypeOK, Holds, PairCalled
  <2>3. Unasked'
    BY <1>7, AwaitsAre DEF TrustReturns, Leave, Unwind, AgentGone, bzCall, BluezInd,
       BluezTypeOK, Unasked, Preparing
  <2> QED BY <1>0, <2>1, <2>2, <2>3 DEF BluezInd
<1>8. CASE DisconnectReturns
  <2>1. BluezTypeOK'
    BY <1>8, AwaitsAre DEF DisconnectReturns, Leave, Unwind, AgentGone, bzCall, BluezInd,
       BluezTypeOK, Ends, Buses
  <2>2. Holds'
    BY <1>8, AwaitsAre DEF DisconnectReturns, Leave, Unwind, AgentGone, bzCall, BluezInd,
       BluezTypeOK, Holds, PairCalled
  <2>3. Unasked'
    BY <1>8, AwaitsAre DEF DisconnectReturns, Leave, Unwind, AgentGone, bzCall, BluezInd,
       BluezTypeOK, Unasked, Preparing
  <2> QED BY <1>0, <2>1, <2>2, <2>3 DEF BluezInd
<1>9. CASE CancelReturns
  <2>1. BluezTypeOK'
    BY <1>9, AwaitsAre DEF CancelReturns, Leave, Unwind, AgentGone, bzCall, BluezInd,
       BluezTypeOK, Ends, Buses
  <2>2. Holds'
    BY <1>9, AwaitsAre DEF CancelReturns, Leave, Unwind, AgentGone, bzCall, BluezInd,
       BluezTypeOK, Holds, PairCalled
  <2>3. Unasked'
    BY <1>9, AwaitsAre DEF CancelReturns, Leave, Unwind, AgentGone, bzCall, BluezInd,
       BluezTypeOK, Unasked, Preparing
  <2> QED BY <1>0, <2>1, <2>2, <2>3 DEF BluezInd
<1>10. CASE PathOk
  <2>1. BluezTypeOK'
    <3>1. bzTask' \in BOOLEAN /\ bzPairing' \in BOOLEAN /\ bzAgain' \in BOOLEAN
      BY <1>10 DEF PathOk, To, CallPair, bzDaemon, BluezInd, BluezTypeOK
    <3>2. bzAt' \in Awaits
      BY <1>10, AwaitsAre DEF PathOk, To, CallPair
    <3>3. UNCHANGED <<bzCall, bzSeen, bzEnd, bzResult, bzBus, bzAgent, bzDiscovery, bzLeaked>>
      BY <1>10 DEF PathOk, To, CallPair, bzDaemon
    <3> QED BY <3>1, <3>2, <3>3 DEF BluezInd, BluezTypeOK, bzCall
  <2>2. Holds'
    BY <1>10, AwaitsAre DEF PathOk, To, CallPair, bzCall, bzDaemon, BluezInd, BluezTypeOK,
       Holds, PairCalled
  <2>3. Unasked'
    BY <1>10, AwaitsAre DEF PathOk, To, CallPair, bzCall, bzDaemon, BluezInd, BluezTypeOK,
       Unasked, Preparing
  <2> QED BY <1>0, <2>1, <2>2, <2>3 DEF BluezInd
<1>11. CASE CancelPairingReturns
  <2>1. BluezTypeOK'
    <3>1. bzPairing' \in BOOLEAN
      BY <1>11 DEF CancelPairingReturns, BluezInd, BluezTypeOK
    <3>2. /\ bzAt' \in Awaits
          /\ UNCHANGED <<bzCall, bzAgain, bzSeen, bzTask, bzEnd, bzResult, bzBus, bzAgent,
                        bzDiscovery, bzLeaked>>
      BY <1>11, AwaitsAre DEF CancelPairingReturns, To
    <3> QED BY <3>1, <3>2 DEF BluezInd, BluezTypeOK, bzCall
  <2>2. Holds'
    <3>1. bzPairing' => bzPairing
      BY <1>11 DEF CancelPairingReturns, BluezInd, BluezTypeOK
    <3>2. UNCHANGED <<bzCall, bzAgain, bzSeen, bzTask, bzEnd, bzResult, bzBus, bzAgent,
                      bzDiscovery, bzLeaked>>
      BY <1>11 DEF CancelPairingReturns, To
    <3>3. <<bzAt, bzAt'>> \in {<<"cancel_stale", "remove">>,
             <<"cancel_timed_out", "disconnect">>, <<"cancel_in_progress", "pause">>}
      BY <1>11, AwaitsAre DEF CancelPairingReturns, To
    <3> QED BY <3>1, <3>2, <3>3 DEF BluezInd, BluezTypeOK, Holds, PairCalled, bzCall
  <2>3. Unasked'
    BY <1>11, AwaitsAre DEF CancelPairingReturns, To, bzCall, BluezInd, BluezTypeOK,
       Unasked, Preparing
  <2> QED BY <1>0, <2>1, <2>2, <2>3 DEF BluezInd
<1>12. CASE RemoveReturns
  <2>1. BluezTypeOK'
    BY <1>12, AwaitsAre DEF RemoveReturns, To, bzCall, bzDaemon, BluezInd, BluezTypeOK,
       Ends, Buses
  <2>2. Holds'
    BY <1>12, AwaitsAre DEF RemoveReturns, To, bzCall, bzDaemon, BluezInd, BluezTypeOK,
       Holds, PairCalled
  <2>3. Unasked'
    BY <1>12, AwaitsAre DEF RemoveReturns, To, bzCall, bzDaemon, BluezInd, BluezTypeOK,
       Unasked, Preparing
  <2> QED BY <1>0, <2>1, <2>2, <2>3 DEF BluezInd
<1>13. CASE DiscoverReturns
  <2>1. BluezTypeOK'
    BY <1>13, AwaitsAre DEF DiscoverReturns, To, bzCall, BluezInd, BluezTypeOK, Ends, Buses
  <2>2. Holds'
    BY <1>13, AwaitsAre DEF DiscoverReturns, To, bzCall, BluezInd, BluezTypeOK, Holds,
       PairCalled
  <2>3. Unasked'
    BY <1>13, AwaitsAre DEF DiscoverReturns, To, bzCall, BluezInd, BluezTypeOK, Unasked,
       Preparing
  <2> QED BY <1>0, <2>1, <2>2, <2>3 DEF BluezInd
<1>14. CASE \E end \in {"none", "failed", "cancelled"} : Rediscovered(end)
  <2>1. BluezTypeOK'
    BY <1>14, AwaitsAre DEF Rediscovered, bzCall, bzDaemon, BluezInd, BluezTypeOK, Ends,
       Buses
  <2>2. Holds'
    BY <1>14, AwaitsAre DEF Rediscovered, bzCall, bzDaemon, BluezInd, BluezTypeOK, Holds,
       PairCalled
  <2>3. Unasked'
    BY <1>14, AwaitsAre DEF Rediscovered, bzCall, bzDaemon, BluezInd, BluezTypeOK, Unasked,
       Preparing
  <2> QED BY <1>0, <2>1, <2>2, <2>3 DEF BluezInd
<1>15. CASE StopReturns
  <2>1. BluezTypeOK'
    <3>1. CASE bzEnd = "none"
      <4>1. /\ bzTask' \in BOOLEAN /\ bzPairing' \in BOOLEAN /\ bzAgain' \in BOOLEAN
            /\ bzDiscovery' \in BOOLEAN
        BY <1>15, <3>1 DEF StopReturns, CallPair, BluezInd, BluezTypeOK
      <4>2. /\ bzAt' \in Awaits
            /\ UNCHANGED <<bzCall, bzSeen, bzEnd, bzResult, bzBus, bzAgent, bzLeaked>>
        BY <1>15, <3>1, AwaitsAre DEF StopReturns, CallPair
      <4> QED BY <4>1, <4>2 DEF BluezInd, BluezTypeOK, bzCall
    <3>2. CASE Leave(bzEnd)
      <4>1. /\ bzAt' \in Awaits /\ bzBus' \subseteq Buses
            /\ bzEnd' \in Ends /\ bzResult' \in Ends
            /\ bzAgent' \in {"none", "registered", "default"}
        BY <3>2, AwaitsAre DEF Leave, Unwind, AgentGone, BluezInd, BluezTypeOK
      <4>2. /\ bzDiscovery' \in BOOLEAN /\ bzPairing' \in BOOLEAN
            /\ UNCHANGED <<bzCall, bzAgain, bzSeen, bzTask, bzLeaked>>
        BY <3>2 DEF Leave, Unwind
      <4> QED BY <4>1, <4>2 DEF BluezInd, BluezTypeOK, bzCall
    <3> QED BY <1>15, <3>1, <3>2 DEF StopReturns
  <2>2. Holds'
    <3>1. CASE bzEnd = "none"
      <4>1. UNCHANGED <<bzCall, bzSeen, bzEnd, bzResult, bzBus, bzAgent, bzLeaked>>
        BY <1>15, <3>1 DEF StopReturns, CallPair
      <4>2. bzAt = "stop" /\ bzAt' = "pair"
        BY <1>15, <3>1 DEF StopReturns, CallPair
      <4> QED BY <4>1, <4>2 DEF BluezInd, BluezTypeOK, Holds, PairCalled, bzCall
    <3>2. CASE bzAt = "stop" /\ Leave(bzEnd)
      BY <3>2 DEF Leave, Unwind, AgentGone, bzCall, BluezInd, BluezTypeOK, Holds, PairCalled
    <3> QED BY <1>15, <3>1, <3>2 DEF StopReturns
  <2>3. Unasked'
    BY <1>15, AwaitsAre DEF StopReturns, CallPair, Leave, Unwind, AgentGone, bzCall,
       BluezInd, BluezTypeOK, Unasked, Preparing
  <2> QED BY <1>0, <2>1, <2>2, <2>3 DEF BluezInd
<1>16. CASE PinRequested
  <2>1. BluezTypeOK'
    BY <1>16, AwaitsAre DEF PinRequested, bzCall, bzDaemon, BluezInd, BluezTypeOK, Ends,
       Buses
  <2>2. Holds'
    BY <1>16, AwaitsAre DEF PinRequested, bzCall, bzDaemon, BluezInd, BluezTypeOK, Holds,
       PairCalled
  <2>3. Unasked'
    BY <1>16, AwaitsAre DEF PinRequested, bzCall, bzDaemon, BluezInd, BluezTypeOK, Unasked,
       Preparing
  <2> QED BY <1>0, <2>1, <2>2, <2>3 DEF BluezInd
<1>17. CASE Paired
  <2>1. BluezTypeOK'
    <3>1. bzTask' \in BOOLEAN /\ bzPairing' \in BOOLEAN
      BY <1>17 DEF Paired, bzDaemon, BluezInd, BluezTypeOK
    <3>2. /\ bzAt' \in Awaits
          /\ UNCHANGED <<bzCall, bzAgain, bzSeen, bzEnd, bzResult, bzBus, bzAgent,
                        bzDiscovery, bzLeaked>>
      BY <1>17, AwaitsAre DEF Paired, bzDaemon, BluezInd, BluezTypeOK
    <3> QED BY <3>1, <3>2 DEF BluezInd, BluezTypeOK, bzCall
  <2>2. Holds'
    BY <1>17, AwaitsAre DEF Paired, bzCall, BluezInd, BluezTypeOK, Holds, PairCalled
  <2>3. Unasked'
    BY <1>17, AwaitsAre DEF Paired, bzCall, BluezInd, BluezTypeOK, Unasked, Preparing
  <2> QED BY <1>0, <2>1, <2>2, <2>3 DEF BluezInd
<1>18. CASE PauseEnds
  <2>1. BluezTypeOK'
    BY <1>18, AwaitsAre DEF PauseEnds, CallPair, bzCall, BluezInd, BluezTypeOK, Ends, Buses
  <2>2. Holds'
    BY <1>18, AwaitsAre DEF PauseEnds, CallPair, bzCall, BluezInd, BluezTypeOK, Holds,
       PairCalled
  <2>3. Unasked'
    BY <1>18, AwaitsAre DEF PauseEnds, CallPair, bzCall, BluezInd, BluezTypeOK, Unasked,
       Preparing
  <2> QED BY <1>0, <2>1, <2>2, <2>3 DEF BluezInd
<1>19. CASE PinTimesOut
  <2>1. BluezTypeOK'
    <3>1. bzTask' \in BOOLEAN /\ bzPairing' \in BOOLEAN
      BY <1>19 DEF PinTimesOut, bzDaemon, BluezInd, BluezTypeOK
    <3>2. /\ bzAt' \in Awaits
          /\ UNCHANGED <<bzCall, bzAgain, bzSeen, bzEnd, bzResult, bzBus, bzAgent,
                        bzDiscovery, bzLeaked>>
      BY <1>19, AwaitsAre DEF PinTimesOut, bzDaemon, BluezInd, BluezTypeOK
    <3> QED BY <3>1, <3>2 DEF BluezInd, BluezTypeOK, bzCall
  <2>2. Holds'
    BY <1>19, AwaitsAre DEF PinTimesOut, bzCall, bzDaemon, BluezInd, BluezTypeOK, Holds,
       PairCalled
  <2>3. Unasked'
    BY <1>19, AwaitsAre DEF PinTimesOut, bzCall, bzDaemon, BluezInd, BluezTypeOK, Unasked,
       Preparing
  <2> QED BY <1>0, <2>1, <2>2, <2>3 DEF BluezInd
<1>20. CASE NotPaired
  <2>1. BluezTypeOK'
    <3>1. bzTask' \in BOOLEAN /\ bzPairing' \in BOOLEAN /\ bzDiscovery' \in BOOLEAN
      BY <1>20 DEF NotPaired, Unwind, BluezInd, BluezTypeOK
    <3>2. bzAt' \in Awaits
      BY <1>20, AwaitsAre DEF NotPaired, Unwind, AgentGone
    <3>3. bzEnd' \in Ends /\ bzResult' \in Ends
      BY <1>20 DEF NotPaired, Unwind, AgentGone, BluezInd, BluezTypeOK, Ends
    <3>4. bzBus' \subseteq Buses /\ bzAgent' \in {"none", "registered", "default"}
      BY <1>20 DEF NotPaired, Unwind, AgentGone, BluezInd, BluezTypeOK
    <3>5. UNCHANGED <<bzCall, bzAgain, bzSeen, bzLeaked>>
      BY <1>20 DEF NotPaired
    <3> QED BY <3>1, <3>2, <3>3, <3>4, <3>5 DEF BluezInd, BluezTypeOK, bzCall
  <2>2. Holds'
    BY <1>20, AwaitsAre DEF NotPaired, Unwind, AgentGone, bzCall, BluezInd, BluezTypeOK,
       Holds, PairCalled
  <2>3. Unasked'
    BY <1>20, AwaitsAre DEF NotPaired, Unwind, AgentGone, bzCall, BluezInd, BluezTypeOK,
       Unasked, Preparing
  <2> QED BY <1>0, <2>1, <2>2, <2>3 DEF BluezInd
<1>21. CASE CancelPair
  <2>1. BluezTypeOK'
    BY <1>21, AwaitsAre DEF CancelPair, bzCall, bzDaemon, BluezInd, BluezTypeOK, Ends, Buses
  <2>2. Holds'
    BY <1>21, AwaitsAre DEF CancelPair, bzCall, bzDaemon, BluezInd, BluezTypeOK, Holds,
       PairCalled
  <2>3. Unasked'
    BY <1>21, AwaitsAre DEF CancelPair, bzCall, bzDaemon, BluezInd, BluezTypeOK, Unasked,
       Preparing
  <2> QED BY <1>0, <2>1, <2>2, <2>3 DEF BluezInd
<1>22. CASE CancelUnregister
  <2>1. BluezTypeOK'
    BY <1>22, AwaitsAre DEF CancelUnregister, bzCall, bzDaemon, BluezInd, BluezTypeOK, Ends,
       Buses
  <2>2. Holds'
    BY <1>22, AwaitsAre DEF CancelUnregister, bzCall, bzDaemon, BluezInd, BluezTypeOK,
       Holds, PairCalled
  <2>3. Unasked'
    BY <1>22, AwaitsAre DEF CancelUnregister, bzCall, bzDaemon, BluezInd, BluezTypeOK,
       Unasked, Preparing
  <2> QED BY <1>0, <2>1, <2>2, <2>3 DEF BluezInd
<1>23. CASE CancelElsewhere
  <2>1. BluezTypeOK'
    BY <1>23, AwaitsAre DEF CancelElsewhere, Unwind, AgentGone, bzCall, BluezInd,
       BluezTypeOK, Ends, Buses
  <2>2. Holds'
    BY <1>23, AwaitsAre DEF CancelElsewhere, Unwind, AgentGone, bzCall, BluezInd,
       BluezTypeOK, Holds, PairCalled
  <2>3. Unasked'
    BY <1>23, AwaitsAre DEF CancelElsewhere, Unwind, AgentGone, bzCall, BluezInd,
       BluezTypeOK, Unasked, Preparing
  <2> QED BY <1>0, <2>1, <2>2, <2>3 DEF BluezInd
<1>24. CASE Unregistered
  <2>1. BluezTypeOK'
    BY <1>24, AwaitsAre DEF Unregistered, AgentGone, bzCall, BluezInd, BluezTypeOK, Ends,
       Buses
  <2>2. Holds'
    BY <1>24, AwaitsAre DEF Unregistered, AgentGone, bzCall, BluezInd, BluezTypeOK, Holds,
       PairCalled
  <2>3. Unasked'
    BY <1>24, AwaitsAre DEF Unregistered, AgentGone, bzCall, BluezInd, BluezTypeOK, Unasked,
       Preparing
  <2> QED BY <1>0, <2>1, <2>2, <2>3 DEF BluezInd
<1>25. CASE OrphanEnds
  <2>1. BluezTypeOK'
    <3>1. bzTask' \in BOOLEAN /\ bzPairing' \in BOOLEAN
      BY <1>25 DEF OrphanEnds, bzDaemon, BluezInd, BluezTypeOK
    <3>2. /\ bzAt' \in Awaits
          /\ UNCHANGED <<bzCall, bzAgain, bzSeen, bzEnd, bzResult, bzBus, bzAgent,
                        bzDiscovery, bzLeaked>>
      BY <1>25, AwaitsAre DEF OrphanEnds, bzDaemon, BluezInd, BluezTypeOK
    <3> QED BY <3>1, <3>2 DEF BluezInd, BluezTypeOK, bzCall
  <2>2. Holds'
    BY <1>25, AwaitsAre DEF OrphanEnds, bzCall, bzDaemon, BluezInd, BluezTypeOK, Holds,
       PairCalled
  <2>3. Unasked'
    BY <1>25, AwaitsAre DEF OrphanEnds, bzCall, bzDaemon, BluezInd, BluezTypeOK, Unasked,
       Preparing
  <2> QED BY <1>0, <2>1, <2>2, <2>3 DEF BluezInd
<1>26. CASE \E withPin, force, supported \in BOOLEAN : PairDevice(withPin, force, supported)
  <2>1. BluezTypeOK'
    BY <1>26, AwaitsAre DEF PairDevice, bzDaemon, BluezInd, BluezTypeOK, Ends, Buses
  <2>2. Holds'
    BY <1>26, AwaitsAre DEF PairDevice, bzDaemon, BluezInd, BluezTypeOK, Holds, PairCalled
  <2>3. Unasked'
    BY <1>26, AwaitsAre DEF PairDevice, bzDaemon, BluezInd, BluezTypeOK, Unasked, Preparing
  <2> QED BY <1>0, <2>1, <2>2, <2>3 DEF BluezInd
<1>27. CASE UNCHANGED bzVars
  <2>1. BluezTypeOK'
    BY <1>27, AwaitsAre DEF bzVars, bzCall, bzDaemon, BluezInd, BluezTypeOK, Ends, Buses
  <2>2. Holds'
    BY <1>27, AwaitsAre DEF bzVars, bzCall, bzDaemon, BluezInd, BluezTypeOK, Holds,
       PairCalled
  <2>3. Unasked'
    BY <1>27, AwaitsAre DEF bzVars, bzCall, bzDaemon, BluezInd, BluezTypeOK, Unasked,
       Preparing
  <2> QED BY <1>0, <2>1, <2>2, <2>3 DEF BluezInd
<1> QED BY <1>1, <1>2, <1>3, <1>4, <1>5, <1>6, <1>7, <1>8, <1>9, <1>10, <1>11, <1>12, <1>13,
   <1>14, <1>15, <1>16, <1>17, <1>18, <1>19, <1>20, <1>21, <1>22, <1>23, <1>24, <1>25,
   <1>26, <1>27
        DEF BluezNext, BluezStep, BluezOther

LEMMA BluezSafe == BluezInd => BluezInv
  BY DEF BluezInd, BluezInv, BluezTypeOK, Holds, Unasked, PairTaskAwaited, PairingReleased,
         AgentAnswersPin,
         PairCalled

-----------------------------------------------------------------------------
(* The proxy client and the Device Information read *)

\* The connection and the answer while a request is on its way, the link while
\* the read has none yet.
ProxyInd ==
  /\ ProxyInv
  /\ pxAt = "open" => ~pxOpen
  /\ pxAt = "close" /\ pxEnd = "ok" => pxDone
  /\ pxAt # "idle" => pxResult = "none"
  /\ ckAt \in {"resolve", "connect"} => ~ckLink

LEMMA ProxyInitially == ProxyInit => ProxyInd
  BY DEF ProxyInit, ProxyInd, ProxyInv, ProxyTypeOK, NothingLeftOpen, Endings, Readings

LEMMA ProxyStays ==
  ASSUME ProxyInd, \/ [ProxyNext]_pxVars /\ UNCHANGED ckVars
                   \/ [CheckNext]_ckVars /\ UNCHANGED pxVars
  PROVE  ProxyInd'
<1> USE DEF ProxyInd, ProxyInv, ProxyTypeOK, NothingLeftOpen, Endings, Readings
<1>1. ASSUME UNCHANGED ckVars, ProxyNext
      PROVE  ProxyInd'
  <2>1. CASE \E ping \in BOOLEAN : ProxyRequest(ping)
    <3>1. PICK ping \in BOOLEAN : ProxyRequest(ping)
      BY <2>1
    <3>2. /\ pxPing' \in BOOLEAN /\ pxDone' \in BOOLEAN
          /\ pxAt = "idle" /\ pxAt' = "open" /\ pxEnd' = "none" /\ pxResult' = "none"
          /\ UNCHANGED <<pxOpen, pxConnected>>
      BY <3>1 DEF ProxyRequest
    <3> QED BY <1>1, <3>2 DEF ckVars
  <2>2. CASE ProxyOpened
    BY <1>1, <2>2 DEF ProxyOpened, ckVars
  <2>3. CASE ProxyRefused
    BY <1>1, <2>3 DEF ProxyRefused, ckVars
  <2>4. CASE ProxySent
    BY <1>1, <2>4 DEF ProxySent, ckVars
  <2>5. CASE \E end \in Readings : ProxyRead(end)
    BY <1>1, <2>5 DEF ProxyRead, ckVars
  <2>6. CASE ProxyClosed
    BY <1>1, <2>6, ZenonT(30) DEF ProxyClosed, ckVars
  <2>7. CASE ProxyCancelled
    BY <1>1, <2>7, ZenonT(30) DEF ProxyCancelled, ckVars
  <2>8. CASE ProxyClose
    <3>1. pxConnected' \in BOOLEAN
      BY <2>8 DEF ProxyClose
    <3>2. UNCHANGED <<pxAt, pxPing, pxOpen, pxDone, pxEnd, pxResult>>
      BY <2>8 DEF ProxyClose
    <3> QED BY <1>1, <3>1, <3>2 DEF ckVars
  <2> QED BY <1>1, <2>1, <2>2, <2>3, <2>4, <2>5, <2>6, <2>7, <2>8 DEF ProxyNext
<1>2. ASSUME UNCHANGED pxVars, CheckNext
      PROVE  ProxyInd'
  <2>1. CASE CheckStart
    <3>1. ckLink' \in BOOLEAN /\ ckUndone' \in BOOLEAN
      BY <2>1 DEF CheckStart
    <3>2. ~ckLink' /\ ckAt' = "resolve" /\ ckResult' = "none"
      BY <2>1 DEF CheckStart
    <3> QED BY <1>2, <3>1, <3>2 DEF pxVars
  <2>6. CASE Resolved
    BY <1>2, <2>6 DEF Resolved, pxVars
  <2>2. CASE Linked \/ Disconnected \/ CheckLinkLost
    <3>1. ckLink' \in BOOLEAN /\ (ckLink' => ckAt' = "read")
      BY <2>2 DEF Linked, Disconnected, CheckLinkLost
    <3>2. /\ ckAt' \in {"idle", "resolve", "connect", "read", "disconnect"}
          /\ UNCHANGED <<ckResult, ckUndone>>
      BY <2>2 DEF Linked, Disconnected, CheckLinkLost
    <3> QED BY <1>2, <3>1, <3>2 DEF pxVars
  <2>5. CASE DisconnectRaises \/ DisconnectCancelled
    <3>1. /\ ckAt' = "idle" /\ ckLink' \in BOOLEAN /\ ckUndone' = TRUE
          /\ ckResult' \in Endings
      BY <2>5 DEF DisconnectRaises, DisconnectCancelled
    <3> QED BY <1>2, <3>1 DEF pxVars
  <2>3. CASE \E end \in {"raised", "cancelled"} : CheckFails(end)
    BY <1>2, <2>3 DEF CheckFails, pxVars
  <2>4. CASE \E end \in Endings \ {"none"} : InformationRead(end)
    BY <1>2, <2>4 DEF InformationRead, pxVars
  <2> QED BY <1>2, <2>1, <2>2, <2>3, <2>4, <2>5, <2>6 DEF CheckNext
<1>3. ASSUME UNCHANGED <<ckVars, pxVars>>
      PROVE  ProxyInd'
  BY <1>3 DEF ckVars, pxVars
<1> QED BY <1>1, <1>2, <1>3

LEMMA ProxySafe == ProxyInd => ProxyInv
  BY DEF ProxyInd

-----------------------------------------------------------------------------
(* The direct transport *)

\* A request is not over, and is on its way to a session.
Underway == pc \notin {"idle", "closing"} \/ (pc = "closing" /\ after # "idle")
Opening == \/ pc \in {"open", "dial", "subscribe", "sleep"}
           \/ pc = "closing" /\ after \in {"open", "sleep"}

Running ==
  /\ after \in {"idle", "open", "sleep"}
  /\ Underway => req # 0 /\ result = "none"

\* Pairing was started as often as the flag says; a frame is on its second way
\* exactly when the session is opened after pairing.
Sending ==
  /\ pairings = IF attempted THEN 1 ELSE 0
  /\ attempted => mode = "auto"
  /\ retry => attempted
  /\ pc = "pair" => retry
  /\ Opening => (retry <=> why \in {"plain", "pairing", "refresh"})
  /\ pc = "sleep" \/ (pc = "closing" /\ after = "sleep") => why = "connect"
  /\ sent = 2 => retry
  /\ Opening \/ pc = "pair" \/ (pc = "send" /\ ~arrived) => sent <= IF retry THEN 1 ELSE 0

\* The client knows every link that is up, but for those of cancelled requests
\* and failed disconnections.
Known ==
  /\ up \subseteq {client} \cup strays \cup (IF pc = "closing" THEN {old} ELSE {})
  /\ pc \in {"open", "dial", "sleep", "closing"} => client = NoLink
  /\ result \notin {"none", "ok", "cancelled", "no_information"} => client = NoLink
  /\ pc \in {"idle", "gatt"} \/ (pc = "closing" /\ after = "idle") => ~agent

\* No link was left by a cancelled request or a failed disconnection, and none
\* was used for a frame twice.
Fresh == strays \cup repeatedOn = {}

\* All that is still heard is the one answer to this request.
Due == \E a \in Answers :
         /\ a.req = req /\ a.key = key
         /\ \/ coming \subseteq {a} /\ queue = <<>>
            \/ coming = {} /\ queue = <<a>>

Hearing ==
  /\ \A a \in coming : a.link \in up
  /\ Fresh =>
       /\ pc \in {"idle", "gatt", "subscribe"} => coming = {}
       /\ pc = "send" /\ ~arrived => coming = {} /\ queue = <<>>
       /\ pc = "answer" \/ (pc = "send" /\ arrived) => Due

BleInd == BleTypeOK /\ Running /\ Sending /\ Known /\ Hearing

LEMMA BleInitially == BleInit => BleInd
<1> SUFFICES ASSUME BleInit
             PROVE  BleInd
  OBVIOUS
<1>1. BleTypeOK
  <2>1. /\ notify \in BOOLEAN /\ attempted \in BOOLEAN /\ agent \in BOOLEAN
        /\ retry \in BOOLEAN /\ gatt \in BOOLEAN /\ arrived \in BOOLEAN
    BY DEF BleInit
  <2>2. /\ pc \in PCs /\ after \in PCs /\ result \in Outcomes /\ req \in 0 .. MaxRequests
        /\ answered \in 0 .. MaxRequests /\ queue \in Seq(Answers)
    BY BleBounds DEF BleInit, PCs, Outcomes
  <2> QED BY <2>1, <2>2 DEF BleInit, BleTypeOK
<1>2. Running /\ Sending /\ Known /\ Hearing
  BY DEF BleInit, Running, Sending, Known, Hearing, Underway, Opening
<1> QED BY <1>1, <1>2 DEF BleInd

\* What forgetting the session leaves in its variables.
LEMMA ResetTypes ==
  ASSUME BleTypeOK, NEW next \in PCs, Reset(next)
  PROVE  /\ client' \in Links \cup {NoLink} /\ old' \in Links \cup {NoLink}
         /\ notify' \in BOOLEAN /\ queue' \in Seq(Answers)
         /\ after' \in PCs /\ pc' \in PCs
<1>1. notify' \in BOOLEAN
  BY DEF Reset
<1>2. /\ client' \in Links \cup {NoLink} /\ old' \in Links \cup {NoLink}
      /\ queue' \in Seq(Answers)
  BY DEF BleTypeOK, Reset
<1>3. after' \in PCs /\ pc' \in PCs
  BY DEF Reset, PCs
<1> QED BY <1>1, <1>2, <1>3

\* What the frame is written from.
LEMMA ReadyTypes ==
  ASSUME BleTypeOK, NEW info \in BOOLEAN, NEW again \in BOOLEAN, Ready(info, again)
  PROVE  /\ pc' \in PCs /\ agent' \in BOOLEAN /\ queue' \in Seq(Answers)
         /\ retry' \in BOOLEAN /\ arrived' \in BOOLEAN
<1>1. CASE info /\ pc' = "gatt" /\ agent' = FALSE /\ UNCHANGED <<queue, retry, arrived>>
  BY <1>1 DEF BleTypeOK, PCs
<1>2. CASE ToSend(again)
  <2>1. pc' \in PCs /\ queue' \in Seq(Answers)
    BY <1>2 DEF ToSend, PCs
  <2>2. agent' \in BOOLEAN /\ retry' \in BOOLEAN /\ arrived' \in BOOLEAN
    BY <1>2 DEF ToSend, BleTypeOK
  <2> QED BY <2>1, <2>2
<1> QED BY <1>1, <1>2 DEF Ready

LEMMA NewLink ==
  ASSUME up \subseteq Links, Links # up
  PROVE  /\ (CHOOSE l \in Links : l \notin up) \in Links
         /\ (CHOOSE l \in Links : l \notin up) \notin up
<1>1. \E l \in Links : l \notin up
  OBVIOUS
<1> QED BY <1>1

\* What is left of a request that ended.
LEMMA OverTypes ==
  ASSUME Over
  PROVE  /\ why' = "connect" /\ attempt' \in 1 .. 2 /\ retry' \in BOOLEAN
         /\ gatt' \in BOOLEAN /\ sent' \in 0 .. 2 /\ arrived' \in BOOLEAN
<1>1. why' = "connect" /\ attempt' \in 1 .. 2 /\ sent' \in 0 .. 2
  BY DEF Over
<1>2. retry' \in BOOLEAN /\ gatt' \in BOOLEAN /\ arrived' \in BOOLEAN
  BY DEF Over
<1> QED BY <1>1, <1>2

\* A request that fails closes its session.
LEMMA FailKeeps ==
  ASSUME BleInd, NEW outcome \in Outcomes, Fail(outcome), pc \notin {"idle", "closing"}
  PROVE  BleInd'
<1>1. BleTypeOK'
  <2>1. /\ client' \in Links \cup {NoLink} /\ old' \in Links \cup {NoLink}
        /\ notify' \in BOOLEAN /\ queue' \in Seq(Answers)
        /\ after' \in PCs /\ pc' \in PCs
    BY ResetTypes DEF Fail, BleInd, PCs
  <2>2. result' \in Outcomes /\ agent' \in BOOLEAN
    BY DEF Fail
  <2>3. UNCHANGED <<mode, pin, repair, attempted, up, subscribed, coming, req, key,
                    answered, pairings, strays, repeatedOn>>
    BY DEF Fail, config, radio, history
  <2>4. Over
    BY DEF Fail
  <2> QED BY <2>1, <2>2, <2>3, <2>4, OverTypes DEF BleInd, BleTypeOK
<1>2. Running'
  BY LinkAssumption DEF Fail, Over, Reset, config, object, radio, task, call, history, connected,
     BleInd, BleTypeOK, Running, Underway
<1>3. Sending'
  BY LinkAssumption DEF Fail, Over, Reset, config, object, radio, task, call, history, connected,
     BleInd, BleTypeOK, Running, Sending, Opening
<1>4. Known'
  BY LinkAssumption DEF Fail, Over, Reset, config, object, radio, task, call, history, connected,
     BleInd, BleTypeOK, Running, Known, Underway
<1>5. Hearing'
  BY LinkAssumption DEF Fail, Over, Reset, config, object, radio, task, call, history, connected,
     BleInd, BleTypeOK, Running, Known, Hearing, Fresh, Due, Underway
<1> QED BY <1>1, <1>2, <1>3, <1>4, <1>5 DEF BleInd

\* A session that could not be opened, and is opened again.
SessionRetried(purpose, next, nth) ==
  /\ Reset(next)
  /\ why' = purpose
  /\ attempt' = nth
  /\ agent' = FALSE
  /\ UNCHANGED <<config, attempted, radio, retry, sent, arrived, task, history>>

LEMMA SessionKeeps ==
  ASSUME BleInd, pc \in {"open", "dial", "subscribe"}, NEW purpose, NEW next,
         \/ why = "connect" /\ purpose = "connect" /\ next = "sleep"
         \/ why \in {"plain", "refresh"} /\ purpose = "pairing" /\ next = "open",
         SessionRetried(purpose, next, attempt)
  PROVE  BleInd'
<1>1. BleTypeOK'
  <2>1. /\ client' \in Links \cup {NoLink} /\ old' \in Links \cup {NoLink}
        /\ notify' \in BOOLEAN /\ queue' \in Seq(Answers)
        /\ after' \in PCs /\ pc' \in PCs
    BY ResetTypes DEF SessionRetried, BleInd, PCs
  <2>2. why' \in {"connect", "pairing"} /\ attempt' = attempt /\ agent' \in BOOLEAN
    BY DEF SessionRetried
  <2>3. UNCHANGED <<mode, pin, repair, attempted, up, subscribed, coming,
                    retry, gatt, req, key, sent, arrived, result, answered,
                    pairings, strays, repeatedOn>>
    BY DEF SessionRetried, config, radio, task, history
  <2> QED BY <2>1, <2>2, <2>3 DEF BleInd, BleTypeOK
<1>2. Running'
  BY LinkAssumption DEF SessionRetried, Reset, config, object, radio, task, call, history,
     connected, BleInd, BleTypeOK, Running, Underway
<1>3. Sending'
  BY LinkAssumption DEF SessionRetried, Reset, config, object, radio, task, call, history,
     connected, BleInd, BleTypeOK, Running, Sending, Opening
<1>4. Known'
  BY LinkAssumption DEF SessionRetried, Reset, config, object, radio, task, call, history,
     connected, BleInd, BleTypeOK, Running, Known, Underway
<1>5. Hearing'
  BY LinkAssumption DEF SessionRetried, Reset, config, object, radio, task, call, history,
     connected, BleInd, BleTypeOK, Running, Known, Hearing, Fresh, Due, Underway
<1> QED BY <1>1, <1>2, <1>3, <1>4, <1>5 DEF BleInd

\* The first failure of a frame starts pairing once, every other ends the request.
LEMMA FrameKeeps ==
  ASSUME BleInd, pc \in {"send", "answer"}, NEW e \in Errors, FrameFails(e)
  PROVE  BleInd'
<1>1. ASSUME mode = "auto", ~attempted, ~retry, StartPairing
      PROVE  BleInd'
  <2>1. BleTypeOK'
    <3>1. /\ attempted' \in BOOLEAN /\ retry' \in BOOLEAN /\ pairings' \in Nat
          /\ UNCHANGED <<mode, pin, repair, up, subscribed, coming, gatt, req,
                         key, sent, arrived, result, answered, strays,
                         repeatedOn>>
      BY <1>1 DEF StartPairing, config, radio, task, BleInd, BleTypeOK
    <3>2. CASE /\ pc' = "pair" /\ agent' = pin
               /\ UNCHANGED <<client, notify, queue, old, after, why, attempt>>
      BY <3>1, <3>2 DEF BleInd, BleTypeOK, PCs
    <3>3. CASE OpenSession("pairing", attempt) /\ agent' = FALSE
      <4>1. /\ client' \in Links \cup {NoLink} /\ old' \in Links \cup {NoLink}
            /\ notify' \in BOOLEAN /\ queue' \in Seq(Answers)
            /\ after' \in PCs /\ pc' \in PCs
        BY <3>3, ResetTypes DEF OpenSession, BleInd, PCs
      <4>2. why' = "pairing" /\ attempt' = attempt /\ agent' \in BOOLEAN
        BY <3>3 DEF OpenSession
      <4> QED BY <3>1, <4>1, <4>2 DEF BleInd, BleTypeOK
    <3> QED BY <1>1, <3>2, <3>3 DEF StartPairing
  <2>2. Running'
    BY <1>1, LinkAssumption DEF StartPairing, OpenSession, Reset, config, object, radio,
       task, call, history, connected, BleInd, BleTypeOK, Running, Underway
  <2>3. Sending'
    BY <1>1, LinkAssumption DEF StartPairing, OpenSession, Reset, config, object, radio,
       task, call, history, connected, BleInd, BleTypeOK, Running, Sending, Opening
  <2>4. Known'
    BY <1>1, LinkAssumption DEF StartPairing, OpenSession, Reset, config, object, radio,
       task, call, history, connected, BleInd, BleTypeOK, Running, Known, Underway
  <2>5. Hearing'
    BY <1>1, LinkAssumption DEF StartPairing, OpenSession, Reset, config, object, radio,
       task, call, history, connected, BleInd, BleTypeOK, Running, Known, Hearing, Fresh,
       Due, Underway
  <2> QED BY <2>1, <2>2, <2>3, <2>4, <2>5 DEF BleInd
<1>2. \A x \in Errors : Raised(x) \in Outcomes
  BY DEF Raised, Outcomes, Errors
<1>3. CASE Fail(Raised(e))
  BY <1>2, <1>3, FailKeeps
<1> QED BY <1>1, <1>3 DEF FrameFails, ShouldPair


LEMMA BleStays == BleInd /\ [BleNext]_bleVars => BleInd'
<1> SUFFICES ASSUME BleInd, [BleNext]_bleVars
             PROVE  BleInd'
  OBVIOUS
<1>1. CASE Closed
  <2>1. BleTypeOK'
    <3>1. /\ up' \subseteq Links /\ subscribed' \subseteq up' /\ coming' \subseteq Answers
          /\ strays' \subseteq Links
      BY <1>1 DEF Closed, Hush, Mute, BleInd, BleTypeOK
    <3>2. pc' \in PCs /\ old' = NoLink
      BY <1>1 DEF Closed, BleInd, BleTypeOK
    <3>3. UNCHANGED <<mode, pin, repair, client, notify, queue, attempted, agent, after, why,
                      attempt, retry, gatt, req, key, sent, arrived, result, answered,
                      pairings, repeatedOn>>
      BY <1>1 DEF Closed, config, object, task
    <3> QED BY <3>1, <3>2, <3>3 DEF BleInd, BleTypeOK
  <2>2. Running'
    BY <1>1, LinkAssumption DEF Closed, Hush, Mute, config, object, radio, task, call, history,
       connected, BleInd, BleTypeOK, Running, Underway
  <2>3. Sending'
    BY <1>1, LinkAssumption DEF Closed, Hush, Mute, config, object, radio, task, call, history,
       connected, BleInd, BleTypeOK, Running, Sending, Opening
  <2>4. Known'
    BY <1>1, LinkAssumption DEF Closed, Hush, Mute, config, object, radio, task, call, history,
       connected, BleInd, BleTypeOK, Running, Known, Underway
  <2>5. Hearing'
    BY <1>1, LinkAssumption DEF Closed, Hush, Mute, config, object, radio, task, call, history,
       connected, BleInd, BleTypeOK, Running, Known, Hearing, Fresh, Due, Answers, Underway
  <2> QED BY <2>1, <2>2, <2>3, <2>4, <2>5 DEF BleInd
<1>2. CASE Close
  <2>1. BleTypeOK'
    <3>1. /\ client' \in Links \cup {NoLink} /\ old' \in Links \cup {NoLink}
         /\ notify' \in BOOLEAN /\ queue' \in Seq(Answers)
         /\ after' \in PCs /\ pc' \in PCs
      BY <1>2, ResetTypes DEF Close, BleInd, PCs
    <3>2. UNCHANGED <<mode, pin, repair, attempted, agent, up, subscribed,
                     coming, why, attempt, retry, gatt, req, key, sent,
                     arrived, result, answered, pairings, strays,
                     repeatedOn>>
      BY <1>2 DEF Close, config, object, radio, task, call, history
    <3> QED BY <3>1, <3>2 DEF BleInd, BleTypeOK, PCs, Outcomes
  <2>2. Running'
    BY <1>2, LinkAssumption DEF Close, Reset, config, object, radio, task, call, history,
       connected, BleInd, BleTypeOK, Running, Underway
  <2>3. Sending'
    BY <1>2, LinkAssumption DEF Close, Reset, config, object, radio, task, call, history,
       connected, BleInd, BleTypeOK, Running, Sending, Opening
  <2>4. Known'
    BY <1>2, LinkAssumption DEF Close, Reset, config, object, radio, task, call, history,
       connected, BleInd, BleTypeOK, Running, Known, Underway
  <2>5. Hearing'
    BY <1>2, LinkAssumption DEF Close, Reset, config, object, radio, task, call, history,
       connected, BleInd, BleTypeOK, Running, Known, Hearing, Fresh, Due, Answers, Underway
  <2> QED BY <2>1, <2>2, <2>3, <2>4, <2>5 DEF BleInd
<1>3. CASE Resolve
  <2>1. BleTypeOK'
    <3>1. repair' \in BOOLEAN /\ agent' \in BOOLEAN
      BY <1>3 DEF Resolve, Pairing, BleInd, BleTypeOK
    <3>2. pc' \in PCs
      BY <1>3 DEF Resolve, PCs
    <3>3. UNCHANGED <<mode, pin, client, notify, queue, attempted, up,
                     subscribed, coming, after, old, why, attempt, retry,
                     gatt, req, key, sent, arrived, result, answered,
                     pairings, strays, repeatedOn>>
      BY <1>3 DEF Resolve, config, object, radio, task, call, history
    <3> QED BY <3>1, <3>2, <3>3 DEF BleInd, BleTypeOK, PCs, Outcomes
  <2>2. Running'
    BY <1>3, LinkAssumption DEF Resolve, Pairing, config, object, radio, task, call,
       history, connected, BleInd, BleTypeOK, Running, Underway
  <2>3. Sending'
    BY <1>3, LinkAssumption DEF Resolve, Pairing, config, object, radio, task, call,
       history, connected, BleInd, BleTypeOK, Running, Sending, Opening
  <2>4. Known'
    BY <1>3, LinkAssumption DEF Resolve, Pairing, config, object, radio, task, call,
       history, connected, BleInd, BleTypeOK, Running, Known, Underway
  <2>5. Hearing'
    BY <1>3, LinkAssumption DEF Resolve, Pairing, config, object, radio, task, call,
       history, connected, BleInd, BleTypeOK, Running, Known, Hearing, Fresh, Due, Answers,
       Underway
  <2> QED BY <2>1, <2>2, <2>3, <2>4, <2>5 DEF BleInd
<1>4. CASE DialOk
  <2>1. BleTypeOK'
    <3>1. /\ client' \in Links /\ up' \subseteq Links /\ subscribed \subseteq up'
         /\ strays' \subseteq Links /\ repeatedOn' \subseteq Links
      BY <1>4, NewLink DEF DialOk, BleInd, BleTypeOK
    <3>2. agent' \in BOOLEAN /\ pc' \in PCs
      BY <1>4 DEF DialOk, PCs
    <3>3. UNCHANGED <<mode, pin, repair, notify, queue, attempted, subscribed,
                     coming, after, old, why, attempt, retry, gatt, req, key,
                     sent, arrived, result, answered, pairings>>
      BY <1>4 DEF DialOk, config, object, radio, task, call, history
    <3> QED BY <3>1, <3>2, <3>3 DEF BleInd, BleTypeOK, PCs, Outcomes
  <2>2. Running'
    BY <1>4, LinkAssumption DEF DialOk, config, object, radio, task, call, history,
       connected, BleInd, BleTypeOK, Running, Underway
  <2>3. Sending'
    BY <1>4, LinkAssumption DEF DialOk, config, object, radio, task, call, history,
       connected, BleInd, BleTypeOK, Running, Sending, Opening
  <2>4. Known'
    BY <1>4, LinkAssumption DEF DialOk, config, object, radio, task, call, history,
       connected, BleInd, BleTypeOK, Running, Known, Underway
  <2>5. Hearing'
    <3>1. coming' = coming /\ up \subseteq up'
      BY <1>4 DEF DialOk, radio
    <3>2. CASE Fresh'
      <4>1. up = {}
        BY <1>4, <3>2, NewLink, LinkAssumption DEF DialOk, Fresh, BleInd, BleTypeOK, Known
      <4> QED BY <1>4, <3>1, <4>1 DEF DialOk, BleInd, Hearing
    <3> QED BY <1>4, <3>1, <3>2 DEF BleInd, Hearing
  <2> QED BY <2>1, <2>2, <2>3, <2>4, <2>5 DEF BleInd
<1>5. CASE SleepEnds
  <2>1. BleTypeOK'
    <3>1. /\ client' \in Links \cup {NoLink} /\ old' \in Links \cup {NoLink}
         /\ notify' \in BOOLEAN /\ queue' \in Seq(Answers)
         /\ after' \in PCs /\ pc' \in PCs
      BY <1>5, ResetTypes DEF SleepEnds, OpenSession, BleInd, PCs
    <3>2. why' = "connect" /\ attempt' = 2
      BY <1>5 DEF SleepEnds, OpenSession
    <3>3. UNCHANGED <<mode, pin, repair, attempted, agent, up, subscribed,
                     coming, retry, gatt, req, key, sent, arrived, result,
                     answered, pairings, strays, repeatedOn>>
      BY <1>5 DEF SleepEnds, config, object, radio, task, call, history
    <3> QED BY <3>1, <3>2, <3>3 DEF BleInd, BleTypeOK, PCs, Outcomes
  <2>2. Running'
    BY <1>5, LinkAssumption DEF SleepEnds, OpenSession, Reset, config, object, radio, task,
       call, history, connected, BleInd, BleTypeOK, Running, Underway
  <2>3. Sending'
    BY <1>5, LinkAssumption DEF SleepEnds, OpenSession, Reset, config, object, radio, task,
       call, history, connected, BleInd, BleTypeOK, Running, Sending, Opening
  <2>4. Known'
    BY <1>5, LinkAssumption DEF SleepEnds, OpenSession, Reset, config, object, radio, task,
       call, history, connected, BleInd, BleTypeOK, Running, Known, Underway
  <2>5. Hearing'
    BY <1>5, LinkAssumption DEF SleepEnds, OpenSession, Reset, config, object, radio, task,
       call, history, connected, BleInd, BleTypeOK, Running, Known, Hearing, Fresh, Due,
       Answers, Underway
  <2> QED BY <2>1, <2>2, <2>3, <2>4, <2>5 DEF BleInd
<1>6. CASE Subscribed
  <2>1. BleTypeOK'
    <3>1. notify' \in BOOLEAN /\ subscribed' \subseteq up
      BY <1>6 DEF Subscribed, connected, BleInd, BleTypeOK
    <3>2. /\ pc' \in PCs /\ agent' \in BOOLEAN /\ queue' \in Seq(Answers)
         /\ retry' \in BOOLEAN /\ arrived' \in BOOLEAN
      <4>1. PICK again \in BOOLEAN : Ready(gatt, again)
        <5>1. (why \in {"plain", "pairing", "refresh"}) \in BOOLEAN
          OBVIOUS
        <5> QED BY <1>6, <5>1, Zenon DEF Subscribed
      <4> QED BY <4>1, ReadyTypes DEF BleInd, BleTypeOK
    <3>3. UNCHANGED <<mode, pin, repair, client, attempted, up, coming, after,
                     old, why, attempt, gatt, req, key, sent, result,
                     answered, pairings, strays, repeatedOn>>
      BY <1>6 DEF Subscribed, config, object, radio, task, call, history
    <3> QED BY <3>1, <3>2, <3>3 DEF BleInd, BleTypeOK, PCs, Outcomes
  <2>2. Running'
    BY <1>6, LinkAssumption DEF Subscribed, Ready, ToSend, config, object, radio, task,
       call, history, connected, BleInd, BleTypeOK, Running, Underway
  <2>3. Sending'
    BY <1>6, LinkAssumption DEF Subscribed, Ready, ToSend, config, object, radio, task,
       call, history, connected, BleInd, BleTypeOK, Running, Sending, Opening
  <2>4. Known'
    BY <1>6, LinkAssumption DEF Subscribed, Ready, ToSend, config, object, radio, task,
       call, history, connected, BleInd, BleTypeOK, Running, Known, Underway
  <2>5. Hearing'
    BY <1>6, LinkAssumption DEF Subscribed, Ready, ToSend, config, object, radio, task,
       call, history, connected, BleInd, BleTypeOK, Running, Known, Hearing, Fresh, Due,
       Answers, Underway
  <2> QED BY <2>1, <2>2, <2>3, <2>4, <2>5 DEF BleInd
<1>7. CASE WriteOk
  <2>1. BleTypeOK'
    BY <1>7, LinkAssumption DEF WriteOk, config, object, radio, task, call, history,
       connected, BleInd, BleTypeOK, Running, Sending, Opening, Modes, PCs, Outcomes,
       Errors, Answers, Requests, Underway
  <2>2. Running'
    BY <1>7, LinkAssumption DEF WriteOk, config, object, radio, task, call, history,
       connected, BleInd, BleTypeOK, Running, Underway
  <2>3. Sending'
    BY <1>7, LinkAssumption DEF WriteOk, config, object, radio, task, call, history,
       connected, BleInd, BleTypeOK, Running, Sending, Opening
  <2>4. Known'
    BY <1>7, LinkAssumption DEF WriteOk, config, object, radio, task, call, history,
       connected, BleInd, BleTypeOK, Running, Known, Underway
  <2>5. Hearing'
    BY <1>7, LinkAssumption DEF WriteOk, config, object, radio, task, call, history,
       connected, BleInd, BleTypeOK, Running, Known, Hearing, Fresh, Due, Answers, Underway
  <2> QED BY <2>1, <2>2, <2>3, <2>4, <2>5 DEF BleInd
<1>8. CASE TakeAnswer
  <2>1. BleTypeOK'
    <3>1. queue' \in Seq(Answers) /\ Head(queue) \in Answers
      BY <1>8 DEF TakeAnswer, BleInd, BleTypeOK
    <3>2. agent' \in BOOLEAN
      BY <1>8 DEF TakeAnswer, BleInd, BleTypeOK
    <3>3. pc' \in PCs /\ result' \in Outcomes
      BY <1>8 DEF TakeAnswer, BleInd, BleTypeOK, PCs, Outcomes
    <3>4. answered' \in 0 .. MaxRequests
      <4>1. Head(queue).req \in 0 .. MaxRequests
        BY <3>1, BleBounds DEF Answers, Requests
      <4> QED BY <1>8, <4>1 DEF TakeAnswer, BleInd, BleTypeOK
    <3>5. UNCHANGED <<mode, pin, repair, client, notify, attempted, up,
                      subscribed, coming, after, old, req, key, pairings, strays,
                      repeatedOn>>
      BY <1>8 DEF TakeAnswer, config, radio, history
    <3>6. Over \/ UNCHANGED <<why, attempt, retry, gatt, sent, arrived>>
      BY <1>8 DEF TakeAnswer
    <3>7. /\ why' \in {"connect", "ensure", "plain", "pairing", "refresh"}
          /\ attempt' \in 1 .. 2 /\ retry' \in BOOLEAN /\ gatt' \in BOOLEAN
          /\ sent' \in 0 .. 2 /\ arrived' \in BOOLEAN
      BY <3>6, OverTypes DEF BleInd, BleTypeOK
    <3> QED BY <3>1, <3>2, <3>3, <3>4, <3>5, <3>7 DEF BleInd, BleTypeOK
  <2>2. Running'
    BY <1>8, LinkAssumption DEF TakeAnswer, Over, config, object, radio, task, call, history,
       connected, BleInd, BleTypeOK, Running, Underway
  <2>3. Sending'
    BY <1>8, LinkAssumption DEF TakeAnswer, Over, config, object, radio, task, call, history,
       connected, BleInd, BleTypeOK, Running, Sending, Opening
  <2>4. Known'
    BY <1>8, LinkAssumption DEF TakeAnswer, Over, config, object, radio, task, call, history,
       connected, BleInd, BleTypeOK, Running, Known, Underway
  <2>5. Hearing'
    BY <1>8, LinkAssumption DEF TakeAnswer, Over, config, object, radio, task, call, history,
       connected, BleInd, BleTypeOK, Running, Known, Hearing, Fresh, Due, Answers, Underway
  <2> QED BY <2>1, <2>2, <2>3, <2>4, <2>5 DEF BleInd
<1>9. CASE PairOk
  <2>1. BleTypeOK'
    <3>1. CASE connected
      <4>1. agent' \in BOOLEAN /\ notify' \in BOOLEAN /\ why' = "refresh" /\ pc' \in PCs
        BY <1>9, <3>1 DEF PairOk, PCs
      <4>2. subscribed' \subseteq up /\ repeatedOn' \subseteq Links
        BY <1>9, <3>1 DEF PairOk, connected, BleInd, BleTypeOK
      <4>3. UNCHANGED <<mode, pin, repair, client, queue, attempted, up, coming,
                       after, old, attempt, retry, gatt, req, key, sent,
                       arrived, result, answered, pairings, strays>>
        BY <1>9, <3>1 DEF PairOk, config, object, radio, task, call, history
      <4> QED BY <4>1, <4>2, <4>3 DEF BleInd, BleTypeOK, PCs, Outcomes
    <3>2. CASE ~connected
      <4>1. /\ client' \in Links \cup {NoLink} /\ old' \in Links \cup {NoLink}
           /\ notify' \in BOOLEAN /\ queue' \in Seq(Answers)
           /\ after' \in PCs /\ pc' \in PCs
        BY <1>9, <3>2, ResetTypes DEF PairOk, OpenSession, BleInd, PCs
      <4>2. why' = "plain" /\ attempt' = attempt /\ agent' \in BOOLEAN
        BY <1>9, <3>2 DEF PairOk, OpenSession
      <4>3. UNCHANGED <<mode, pin, repair, attempted, up, subscribed, coming,
                       retry, gatt, req, key, sent, arrived, result, answered,
                       pairings, strays, repeatedOn>>
        BY <1>9, <3>2 DEF PairOk, config, object, radio, task, call, history
      <4> QED BY <4>1, <4>2, <4>3 DEF BleInd, BleTypeOK, PCs, Outcomes
    <3> QED BY <3>1, <3>2
  <2>2. Running'
    BY <1>9, LinkAssumption DEF PairOk, OpenSession, Reset, config, object, radio, task,
       call, history, connected, BleInd, BleTypeOK, Running, Underway
  <2>3. Sending'
    BY <1>9, LinkAssumption DEF PairOk, OpenSession, Reset, config, object, radio, task,
       call, history, connected, BleInd, BleTypeOK, Running, Sending, Opening
  <2>4. Known'
    BY <1>9, LinkAssumption DEF PairOk, OpenSession, Reset, config, object, radio, task,
       call, history, connected, BleInd, BleTypeOK, Running, Known, Underway
  <2>5. Hearing'
    BY <1>9, LinkAssumption DEF PairOk, OpenSession, Reset, config, object, radio, task,
       call, history, connected, BleInd, BleTypeOK, Running, Known, Hearing, Fresh, Due,
       Answers, Underway
  <2> QED BY <2>1, <2>2, <2>3, <2>4, <2>5 DEF BleInd
<1>10. CASE PairFails
  <2>1. BleTypeOK'
    <3>1. /\ client' \in Links \cup {NoLink} /\ old' \in Links \cup {NoLink}
         /\ notify' \in BOOLEAN /\ queue' \in Seq(Answers)
         /\ after' \in PCs /\ pc' \in PCs
      BY <1>10, ResetTypes DEF PairFails, OpenSession, BleInd, PCs
    <3>2. why' = "pairing" /\ attempt' = attempt /\ agent' \in BOOLEAN
      BY <1>10 DEF PairFails, OpenSession
    <3>3. UNCHANGED <<mode, pin, repair, attempted, up, subscribed, coming,
                     retry, gatt, req, key, sent, arrived, result, answered,
                     pairings, strays, repeatedOn>>
      BY <1>10 DEF PairFails, config, object, radio, task, call, history
    <3> QED BY <3>1, <3>2, <3>3 DEF BleInd, BleTypeOK, PCs, Outcomes
  <2>2. Running'
    BY <1>10, LinkAssumption DEF PairFails, OpenSession, Reset, config, object, radio, task,
       call, history, connected, BleInd, BleTypeOK, Running, Underway
  <2>3. Sending'
    BY <1>10, LinkAssumption DEF PairFails, OpenSession, Reset, config, object, radio, task,
       call, history, connected, BleInd, BleTypeOK, Running, Sending, Opening
  <2>4. Known'
    BY <1>10, LinkAssumption DEF PairFails, OpenSession, Reset, config, object, radio, task,
       call, history, connected, BleInd, BleTypeOK, Running, Known, Underway
  <2>5. Hearing'
    BY <1>10, LinkAssumption DEF PairFails, OpenSession, Reset, config, object, radio, task,
       call, history, connected, BleInd, BleTypeOK, Running, Known, Hearing, Fresh, Due,
       Answers, Underway
  <2> QED BY <2>1, <2>2, <2>3, <2>4, <2>5 DEF BleInd
<1>11. CASE GattOk \/ GattFails
  <2>1. BleTypeOK'
    <3>1. pc' \in PCs /\ result' \in Outcomes /\ Over
      BY <1>11 DEF GattOk, GattFails, PCs, Outcomes
    <3>2. UNCHANGED <<mode, pin, repair, client, notify, queue, attempted, agent, up,
                      subscribed, coming, after, old, req, key, answered, pairings, strays,
                      repeatedOn>>
      BY <1>11 DEF GattOk, GattFails, config, object, radio, history
    <3> QED BY <3>1, <3>2, OverTypes DEF BleInd, BleTypeOK
  <2>2. Running'
    BY <1>11, LinkAssumption DEF GattOk, GattFails, Over, config, object, radio, task, call, history,
       connected, BleInd, BleTypeOK, Running, Underway
  <2>3. Sending'
    BY <1>11, LinkAssumption DEF GattOk, GattFails, Over, config, object, radio, task, call, history,
       connected, BleInd, BleTypeOK, Running, Sending, Opening
  <2>4. Known'
    BY <1>11, LinkAssumption DEF GattOk, GattFails, Over, config, object, radio, task, call, history,
       connected, BleInd, BleTypeOK, Running, Known, Underway
  <2>5. Hearing'
    BY <1>11, LinkAssumption DEF GattOk, GattFails, Over, config, object, radio, task, call, history,
       connected, BleInd, BleTypeOK, Running, Known, Hearing, Fresh, Due, Answers, Underway
  <2> QED BY <2>1, <2>2, <2>3, <2>4, <2>5 DEF BleInd
<1>12. CASE FrameArrives
  <2>1. BleTypeOK'
    BY <1>12, LinkAssumption DEF FrameArrives, Answer, config, object, radio, task, call,
       history, connected, BleInd, BleTypeOK, Running, Sending, Opening, Modes, PCs,
       Outcomes, Errors, Answers, Requests, Underway
  <2>2. Running'
    BY <1>12, LinkAssumption DEF FrameArrives, Answer, config, object, radio, task, call,
       history, connected, BleInd, BleTypeOK, Running, Underway
  <2>3. Sending'
    BY <1>12, LinkAssumption DEF FrameArrives, Answer, config, object, radio, task, call,
       history, connected, BleInd, BleTypeOK, Running, Sending, Opening
  <2>4. Known'
    BY <1>12, LinkAssumption DEF FrameArrives, Answer, config, object, radio, task, call,
       history, connected, BleInd, BleTypeOK, Running, Known, Underway
  <2>5. Hearing'
    <3>1. Answer \in Answers /\ Answer.req = req /\ Answer.key = key /\ Answer.link = client
      BY <1>12 DEF FrameArrives, Answer, connected, Answers, Requests, BleInd, BleTypeOK,
         Running, Underway, Sending
    <3>2. Fresh => Due'
      <4>1. Fresh => coming' \subseteq {Answer} /\ queue' = <<>> /\ req' = req /\ key' = key
        BY <1>12 DEF FrameArrives, object, task, BleInd, Hearing
      <4> QED BY <3>1, <4>1 DEF Due
    <3> QED BY <1>12, <3>1, <3>2 DEF FrameArrives, connected, history, BleInd, Hearing,
       Fresh
  <2> QED BY <2>1, <2>2, <2>3, <2>4, <2>5 DEF BleInd
<1>13. CASE \E a \in coming : Notified(a)
  <2>0. PICK a \in coming : Notified(a)
    BY <1>13
  <2>1. BleTypeOK'
    BY <2>0, LinkAssumption DEF Notified, config, object, radio, task, call, history,
       connected, BleInd, BleTypeOK, Running, Sending, Opening, Modes, PCs, Outcomes,
       Errors, Answers, Requests, Underway
  <2>2. Running'
    BY <2>0, LinkAssumption DEF Notified, config, object, radio, task, call, history,
       connected, BleInd, BleTypeOK, Running, Underway
  <2>3. Sending'
    BY <2>0, LinkAssumption DEF Notified, config, object, radio, task, call, history,
       connected, BleInd, BleTypeOK, Running, Sending, Opening
  <2>4. Known'
    BY <2>0, LinkAssumption DEF Notified, config, object, radio, task, call, history,
       connected, BleInd, BleTypeOK, Running, Known, Underway
  <2>5. Hearing'
    <3>1. \A x \in coming' : x.link \in up'
      BY <2>0 DEF Notified, BleInd, Hearing
    <3>2. ASSUME Fresh, pc = "answer" \/ (pc = "send" /\ arrived)
          PROVE  Due'
      <4>1. Due
        BY <3>2 DEF BleInd, Hearing
      <4>2. PICK due \in Answers : /\ due.req = req /\ due.key = key
                                   /\ coming \subseteq {due} /\ queue = <<>>
        BY <2>0, <4>1 DEF Due
      <4>3. coming' = {} /\ queue' = <<due>> /\ req' = req /\ key' = key
        BY <2>0, <4>2 DEF Notified, call, task
      <4> QED BY <4>1, <4>2, <4>3 DEF Due
    <3>3. (Fresh' <=> Fresh) /\ pc' = pc /\ arrived' = arrived /\ coming # {}
      BY <2>0 DEF Notified, call, history, Fresh
    <3> QED BY <3>1, <3>2, <3>3 DEF BleInd, Hearing
  <2> QED BY <2>1, <2>2, <2>3, <2>4, <2>5 DEF BleInd
<1>14. CASE \E l \in Links : LinkLost(l)
  <2>1. BleTypeOK'
    BY <1>14, LinkAssumption DEF LinkLost, Hush, Mute, config, object, radio, task, call, history,
       connected, BleInd, BleTypeOK, Running, Sending, Opening, Modes, PCs, Outcomes,
       Errors, Answers, Requests, Underway
  <2>2. Running'
    BY <1>14, LinkAssumption DEF LinkLost, Hush, Mute, config, object, radio, task, call, history,
       connected, BleInd, BleTypeOK, Running, Underway
  <2>3. Sending'
    BY <1>14, LinkAssumption DEF LinkLost, Hush, Mute, config, object, radio, task, call, history,
       connected, BleInd, BleTypeOK, Running, Sending, Opening
  <2>4. Known'
    BY <1>14, LinkAssumption DEF LinkLost, Hush, Mute, config, object, radio, task, call, history,
       connected, BleInd, BleTypeOK, Running, Known, Underway
  <2>5. Hearing'
    BY <1>14, LinkAssumption DEF LinkLost, Hush, Mute, config, object, radio, task, call, history,
       connected, BleInd, BleTypeOK, Running, Known, Hearing, Fresh, Due, Answers, Underway
  <2> QED BY <2>1, <2>2, <2>3, <2>4, <2>5 DEF BleInd
<1>15. CASE Cancel
  <2>1. BleTypeOK'
    <3>1. /\ pc' \in PCs /\ agent' \in BOOLEAN /\ result' \in Outcomes
          /\ strays' \subseteq Links
      BY <1>15 DEF Cancel, PCs, Outcomes, BleInd, BleTypeOK
    <3>2. up' \subseteq Links /\ subscribed' \subseteq up' /\ coming' \subseteq Answers
      BY <1>15 DEF Cancel, Hush, Mute, radio, connected, BleInd, BleTypeOK
    <3>3. UNCHANGED <<mode, pin, repair, client, notify, queue, attempted,
                      after, old, req, key, answered, pairings, repeatedOn>>
      BY <1>15 DEF Cancel, config, object
    <3>4. Over
      BY <1>15 DEF Cancel
    <3> QED BY <3>1, <3>2, <3>3, <3>4, OverTypes DEF BleInd, BleTypeOK
  <2>2. Running'
    BY <1>15, LinkAssumption DEF Cancel, Over, Hush, Mute, config, object, radio, task, call, history,
       connected, BleInd, BleTypeOK, Running, Underway
  <2>3. Sending'
    BY <1>15, LinkAssumption DEF Cancel, Over, Hush, Mute, config, object, radio, task, call, history,
       connected, BleInd, BleTypeOK, Running, Sending, Opening
  <2>4. Known'
    BY <1>15, LinkAssumption DEF Cancel, Over, Hush, Mute, config, object, radio, task, call, history,
       connected, BleInd, BleTypeOK, Running, Known, Underway
  <2>5. Hearing'
    BY <1>15, LinkAssumption DEF Cancel, Over, Hush, Mute, config, object, radio, task, call, history,
       connected, BleInd, BleTypeOK, Running, Known, Hearing, Fresh, Due, Answers, Underway
  <2> QED BY <2>1, <2>2, <2>3, <2>4, <2>5 DEF BleInd
<1>16. CASE \E k \in Keys, info \in BOOLEAN : Begin(k, info)
  <2>0. PICK k \in Keys, info \in BOOLEAN : Begin(k, info)
    BY <1>16
  <2>1. BleTypeOK'
    <3>1. /\ req' \in 0 .. MaxRequests /\ key' \in Keys /\ gatt' \in BOOLEAN
          /\ sent' \in 0 .. 2 /\ result' \in Outcomes
      BY <2>0, BleBounds DEF Begin, BleInd, BleTypeOK, Outcomes
    <3>2. UNCHANGED <<mode, pin, repair, attempted, up, subscribed, coming, answered,
                      pairings, strays, repeatedOn>>
      BY <2>0 DEF Begin, config, radio, history
    <3>3. CASE /\ connected /\ Ready(info, FALSE)
               /\ UNCHANGED <<client, notify, old, after, why, attempt>>
      <4>1. /\ pc' \in PCs /\ agent' \in BOOLEAN /\ queue' \in Seq(Answers)
            /\ retry' \in BOOLEAN /\ arrived' \in BOOLEAN
        BY <3>3, ReadyTypes DEF BleInd
      <4> QED BY <3>1, <3>2, <3>3, <4>1 DEF BleInd, BleTypeOK
    <3>4. CASE /\ pc' = "subscribe" /\ why' = "ensure" /\ retry' = FALSE
               /\ UNCHANGED <<client, notify, queue, agent, old, after, attempt, arrived>>
      <4>1. pc' \in PCs /\ retry' \in BOOLEAN
        BY <3>4 DEF PCs
      <4> QED BY <3>1, <3>2, <3>4, <4>1 DEF BleInd, BleTypeOK
    <3>5. CASE OpenSession("connect", 1) /\ retry' = FALSE /\ UNCHANGED <<agent, arrived>>
      <4>1. /\ client' \in Links \cup {NoLink} /\ old' \in Links \cup {NoLink}
            /\ notify' \in BOOLEAN /\ queue' \in Seq(Answers)
            /\ after' \in PCs /\ pc' \in PCs
        BY <3>5, ResetTypes DEF OpenSession, BleInd, PCs
      <4>2. why' = "connect" /\ attempt' = 1 /\ retry' \in BOOLEAN
        BY <3>5 DEF OpenSession
      <4> QED BY <3>1, <3>2, <3>5, <4>1, <4>2 DEF BleInd, BleTypeOK
    <3> QED BY <2>0, <3>3, <3>4, <3>5 DEF Begin
  <2>2. Running'
    <3>1. result' = "none" /\ req' # 0
      BY <2>0, BleBounds DEF Begin, BleInd, BleTypeOK
    <3>2. after' \in {"idle", "open", "sleep"}
      BY <2>0 DEF Begin, OpenSession, Reset, BleInd, Running
    <3> QED BY <3>1, <3>2 DEF Running
  <2>3. Sending'
    BY <2>0, LinkAssumption DEF Begin, Ready, ToSend, OpenSession, Reset, config, object,
       radio, task, call, history, connected, BleInd, BleTypeOK, Running, Sending, Opening
  <2>4. Known'
    BY <2>0, LinkAssumption DEF Begin, Ready, ToSend, OpenSession, Reset, config, object,
       radio, task, call, history, connected, BleInd, BleTypeOK, Running, Known, Underway
  <2>5. Hearing'
    BY <2>0, LinkAssumption DEF Begin, Ready, ToSend, OpenSession, Reset, config, object,
       radio, task, call, history, connected, BleInd, BleTypeOK, Running, Known, Hearing,
       Fresh, Due, Answers, Underway
  <2> QED BY <2>1, <2>2, <2>3, <2>4, <2>5 DEF BleInd
<1>17. CASE UNCHANGED bleVars
  <2>1. BleTypeOK'
    BY <1>17, LinkAssumption DEF bleVars, config, object, radio, task, call, history,
       connected, BleInd, BleTypeOK, Running, Sending, Opening, Modes, PCs, Outcomes,
       Errors, Answers, Requests, Underway
  <2>2. Running'
    BY <1>17, LinkAssumption DEF bleVars, config, object, radio, task, call, history,
       connected, BleInd, BleTypeOK, Running, Underway
  <2>3. Sending'
    BY <1>17, LinkAssumption DEF bleVars, config, object, radio, task, call, history,
       connected, BleInd, BleTypeOK, Running, Sending, Opening
  <2>4. Known'
    BY <1>17, LinkAssumption DEF bleVars, config, object, radio, task, call, history,
       connected, BleInd, BleTypeOK, Running, Known, Underway
  <2>5. Hearing'
    BY <1>17, LinkAssumption DEF bleVars, config, object, radio, task, call, history,
       connected, BleInd, BleTypeOK, Running, Known, Hearing, Fresh, Due, Answers, Underway
  <2> QED BY <2>1, <2>2, <2>3, <2>4, <2>5 DEF BleInd
<1>18. CASE OpenFails
  <2>1. PICK e \in Errors : SessionFails(e)
    BY <1>18 DEF OpenFails
  <2>2. pc \in {"open", "dial", "subscribe"}
    BY <1>18 DEF OpenFails
  <2>3. CASE why = "connect" /\ SessionRetried("connect", "sleep", attempt)
    BY <2>2, <2>3, SessionKeeps
  <2>4. CASE why \in {"plain", "refresh"} /\ SessionRetried("pairing", "open", attempt)
    BY <2>2, <2>4, SessionKeeps
  <2>5. CASE \E outcome \in Outcomes : Fail(outcome)
    BY <2>2, <2>5, FailKeeps
  <2> QED BY <2>1, <2>3, <2>4, <2>5 DEF SessionFails, OpenSession, SessionRetried, Outcomes,
     Errors
<1>19. CASE WriteFails
  <2>1. PICK e \in Errors \ {"timeout"} : FrameFails(e)
    BY <1>19 DEF WriteFails
  <2> QED BY <1>19, <2>1, FrameKeeps DEF WriteFails
<1>20. CASE AnswerTimesOut
  BY <1>20, FrameKeeps DEF AnswerTimesOut, Errors
<1>21. CASE GattRaises
  BY <1>21, FailKeeps DEF GattRaises, Outcomes, Errors
<1> QED BY <1>1, <1>2, <1>3, <1>4, <1>5, <1>6, <1>7, <1>8, <1>9, <1>10, <1>11, <1>12, <1>13,
   <1>14, <1>15, <1>16, <1>17, <1>18, <1>19, <1>20, <1>21 DEF BleNext, Step, Radio, Caller

LEMMA BleSafe == BleInd => BleInv
<1> SUFFICES ASSUME BleInd
             PROVE  BleInv
  OBVIOUS
<1>1. RepeatedOnlyForPairing
  BY DEF BleInd, Sending, RepeatedOnlyForPairing
<1>2. NothingLeftBehind
  BY LinkAssumption DEF BleInd, BleTypeOK, Known, NothingLeftBehind
<1> QED BY <1>1, <1>2 DEF BleInd, BleInv

\* Only the meter's answer ends a request that waits for it well, and the answer
\* that is still to come, or has come, is the one to this request.
LEMMA OwnAnswer ==
  ASSUME BleInd, BleNext, pc = "answer", result' = "ok", Fresh
  PROVE  answered' = req
<1>1. result = "none"
  BY DEF BleInd, Running, Underway
<1>2. CASE TakeAnswer
  <2>1. Due
    BY DEF BleInd, Hearing
  <2>2. PICK a \in Answers : a.req = req /\ (queue = <<>> \/ queue = <<a>>)
    BY <2>1 DEF Due
  <2>3. Head(queue).req = req
    BY <1>2, <2>2 DEF TakeAnswer
  <2> QED BY <1>1, <1>2, <2>3 DEF TakeAnswer
<1>3. CASE AnswerTimesOut
  <2>1. Raised("timeout") = "timeout"
    BY DEF Raised
  <2>2. result' = "timeout" \/ result' = result
    BY <1>3, <2>1 DEF AnswerTimesOut, FrameFails, Fail, StartPairing, task
  <2> QED BY <1>1, <2>2
<1>4. CASE Cancel
  BY <1>4 DEF Cancel
<1>5. CASE FrameArrives \/ (\E a \in coming : Notified(a)) \/ (\E l \in Links : LinkLost(l))
  BY <1>1, <1>5 DEF FrameArrives, Notified, LinkLost, call, task
<1>6. \/ TakeAnswer \/ AnswerTimesOut \/ Cancel
      \/ FrameArrives \/ (\E a \in coming : Notified(a)) \/ (\E l \in Links : LinkLost(l))
  BY DEF BleNext, Step, Radio, Caller, Closed, Resolve, DialOk, OpenFails, SleepEnds,
         Subscribed, WriteOk, WriteFails, PairOk, PairFails, GattOk, GattFails, GattRaises, Close, Begin
<1> QED BY <1>2, <1>3, <1>4, <1>5, <1>6

-----------------------------------------------------------------------------
(* The library *)

LibraryInd == BleInd /\ BluezInd /\ ProxyInd

LEMMA LibraryInitially == Init => LibraryInd
  BY BleInitially, BluezInitially, ProxyInitially DEF Init, LibraryInd

\* What a step of the library is to its three parts.
LEMMA LibrarySteps ==
  ASSUME [Next]_libraryVars
  PROVE  /\ [BleNext]_bleVars
         /\ [BluezNext]_bzVars
         /\ \/ [ProxyNext]_pxVars /\ UNCHANGED ckVars
            \/ [CheckNext]_ckVars /\ UNCHANGED pxVars
  BY Zenon DEF Next, Transport, BlueZ, Proxy, Check, Alone, BleNext, BluezNext, libraryVars

LEMMA LibraryStays == LibraryInd /\ [Next]_libraryVars => LibraryInd'
  BY LibrarySteps, BleStays, BluezStays, ProxyStays DEF LibraryInd

LEMMA LibraryAlways == Spec => []LibraryInd
<1>1. Init => LibraryInd
  BY LibraryInitially
<1>2. LibraryInd /\ [Next]_libraryVars => LibraryInd'
  BY LibraryStays
<1> QED BY <1>1, <1>2, PTL DEF Spec

\* async_transceive_frame and _reset_client: a request that failed leaves no
\* pairing agent and, unless what failed was to find Device Information, no link
\* and no subscription; whatever link is open between requests is known to the
\* client; of both, links of cancelled requests and links whose disconnection
\* raised are excepted.  A frame is sent twice only when pairing was started for
\* it, in auto mode, once per client.
THEOREM TransportSafe == Spec => []BleInv
<1>1. LibraryInd => BleInv
  BY BleSafe DEF LibraryInd
<1> QED BY <1>1, LibraryAlways, PTL

\* pair_device_via_bluez and its agent: however a pairing ends, the agent is gone
\* from BlueZ, its buses are closed and nothing is discovered or paired any more,
\* unless it was cancelled in UnregisterAgent; the task that awaits Pair is left
\* behind by a cancellation only; while BlueZ pairs for a caller with a PIN, the
\* agent that knows it is the default one.
THEOREM PairingSafe == Spec => []BluezInv
<1>1. LibraryInd => BluezInv
  BY BluezSafe DEF LibraryInd
<1> QED BY <1>1, LibraryAlways, PTL

\* The proxy client and the Device Information read: however a proxy request ends,
\* it leaves no connection open, and one that reports success was carried out;
\* however a read ends, it leaves no link up, unless the disconnection that ends it
\* raised or was cancelled.
THEOREM ProxySafely == Spec => []ProxyInv
<1>1. LibraryInd => ProxyInv
  BY ProxySafe DEF LibraryInd
<1> QED BY <1>1, LibraryAlways, PTL

\* _await_matching_response: as long as on the links in use no request was
\* cancelled, no disconnection raised and no frame sent twice, what a request
\* returns is the meter's answer to that request, through timeouts, late answers,
\* lost links and reconnects.
THEOREM OwnAnswerInFreshSession == Spec => AnswerIsOwnInFreshSession
<1>1. LibraryInd /\ [Next]_libraryVars
        => [pc = "answer" /\ result' = "ok" /\ strays \cup repeatedOn = {}
              => answered' = req]_bleVars
  BY LibrarySteps, OwnAnswer DEF LibraryInd, Fresh
<1> QED BY <1>1, LibraryAlways, PTL DEF Spec, AnswerIsOwnInFreshSession
=============================================================================
