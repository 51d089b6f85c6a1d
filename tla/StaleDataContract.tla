------------------------ MODULE StaleDataContract ------------------------
(***************************************************************************)
(* What a polling coordinator promises to its entities: they show the      *)
(* snapshot of one poll, and they are available exactly while at most      *)
(* tolerated polls have failed since that poll.  SingleCoordinator         *)
(* implements it.                                                          *)
(***************************************************************************)
EXTENDS Naturals

VARIABLES
  tolerated, \* failed polls in a row that entities do not notice; never changes
  started,  \* polls started so far
  shown,    \* the poll whose snapshot the entities show, 0 when there is none
  misses,   \* polls that failed since
  ok        \* whether the entities are available

contractVars == <<tolerated, started, shown, misses, ok>>

Init == tolerated \in Nat /\ started = 0 /\ shown = 0 /\ misses = 0 /\ ok = TRUE

Start == started' = started + 1 /\ UNCHANGED <<shown, misses, ok>>

Succeed ==
  /\ started > shown
  /\ shown' = started
  /\ misses' = 0
  /\ ok' = TRUE
  /\ UNCHANGED started

Fail ==
  /\ misses' = misses + 1
  /\ ok' = (shown > 0 /\ misses + 1 <= tolerated)
  /\ UNCHANGED <<started, shown>>

Next == (Start \/ Succeed \/ Fail) /\ UNCHANGED tolerated

Spec == Init /\ [][Next]_contractVars

=============================================================================
