----------------------------- MODULE BleLibrary -----------------------------
(***************************************************************************)
(* The Bluetooth library as a whole: one of its entry points is in use,    *)
(* the transport with its requests, pairing through BlueZ, or the proxy    *)
(* client and the Device Information read.                                 *)
(***************************************************************************)
EXTENDS BleTransport, BluezPairing, BleProxy

VARIABLE part \* the entry point in use

libraryVars == <<part, bleVars, bzVars, pxVars, ckVars>>

Init ==
  /\ part \in {"transport", "pairing", "proxy"}
  /\ BleInit /\ BluezInit /\ ProxyInit
  /\ part # "transport" => mode = "never" /\ ~pin /\ ~repair /\ key = CHOOSE k \in Keys : TRUE

Alone(p, next, others) == part = p /\ next /\ UNCHANGED <<part, others>>

Transport(next) == Alone("transport", next, <<bzVars, pxVars, ckVars>>)
BlueZ(next) == Alone("pairing", next, <<bleVars, pxVars, ckVars>>)
Proxy(next) == Alone("proxy", next, <<bleVars, bzVars, ckVars>>)
Check(next) == Alone("proxy", next, <<bleVars, bzVars, pxVars>>)

Next == \/ Transport(Step) \/ Transport(Radio) \/ Transport(Caller)
        \/ BlueZ(BluezStep) \/ BlueZ(BluezOther)
        \/ Proxy(ProxyNext) \/ Check(CheckNext)

\* Every await of a request and of a pairing is bounded by a timeout; the one
\* call of BlueZ without, UnregisterAgent, is answered.
Spec ==
  /\ Init /\ [][Next]_libraryVars
  /\ WF_libraryVars(Transport(Step))
  /\ WF_libraryVars(BlueZ(BluezStep))

\* A pairing ends, whatever BlueZ answers.
PairingEnds == (bzAt # "idle") ~> (bzAt = "idle")
=============================================================================
