------------------------------- MODULE MCLive -------------------------------
(***************************************************************************)
(* What must eventually happen, for TLC, in one of two scenarios: a run is *)
(* supervised, or a board is removed while a run and an attempt of a       *)
(* planner come and go.                                                    *)
(***************************************************************************)
EXTENDS Supervision

CONSTANTS b1, r1, a1, p1

VARIABLES
    scenario,
    claimed, at, worker, seen, attempt, inspected, slots, lease, guard, present, removal

B == INSTANCE Coordination WITH
        Board <- {b1}, Removable <- {b1}, Run <- {r1}, Attempt <- {a1}, Path <- {p1}, Wanted <- {p1},
        Registration <- {TRUE}, Limit <- 1, run <- claimed, pass <- inspected

removalVars == <<claimed, at, worker, seen, attempt, inspected, slots, lease, guard,
                 present, removal>>
liveVars == <<dispatchVars, scenario, removalVars>>

LiveInit == DispatchInit /\ B!CoordInit /\ scenario \in {"run", "removal"}

LiveNext ==
    \/ scenario = "run" /\ DispatchNext /\ UNCHANGED <<scenario, removalVars>>
    \/ scenario = "removal" /\ B!CoordNext /\ UNCHANGED <<scenario, dispatchVars>>

\* Nothing of the module that stands still is enabled, so both fairness
\* conditions hold of it as they are.
LiveSpec == LiveInit /\ [][LiveNext]_liveVars /\ DispatchFairness /\ B!CoordFairness

RemovalsRecovered == B!RemovalsRecovered
=============================================================================
