--------------------------- MODULE TransportOwner ---------------------------
(***************************************************************************)
(* The contract of IneproModbusClient (src/inepro_metering/modbus.py), the *)
(* "shared client wrapper" around one transport: tasks own the transport   *)
(* one after the other, only the owner opens or closes it, and it is never *)
(* open twice.  ModbusClient implements it.                                *)
(***************************************************************************)
CONSTANTS Tasks, Sessions, NoTask

VARIABLES
  owner,  \* the task that may use the transport now
  open    \* the open transports

vars == <<owner, open>>

AtMostOne(S) == \A s, r \in S : s = r

Init == owner = NoTask /\ open = {}

\* A task becomes the owner; this alone opens and closes nothing.
Take(t) ==
  /\ owner = NoTask
  /\ owner' = t
  /\ open' = open

\* The owner closes what is open, or opens a transport when none is, and may
\* give up the ownership with the same step.
Work(t) ==
  /\ owner = t
  /\ owner' \in {t, NoTask}
  /\ \/ open' = open
     \/ open' = {}
     \/ open = {} /\ \E s \in Sessions : open' = {s}

\* The peer closes the transport.
Lose ==
  /\ open' = {}
  /\ owner' = owner

Next == Lose \/ \E t \in Tasks : Take(t) \/ Work(t)

Spec == Init /\ [][Next]_vars

\* There is never more than one open transport.
Exclusive == open \subseteq Sessions /\ AtMostOne(open)

=============================================================================
