--------------------------- MODULE MCSupervision ---------------------------
(***************************************************************************)
(* Supervision for TLC: one task, so that every run competes for it.       *)
(* Either one run meets everything that can happen, or a task that failed  *)
(* without being counted is run again, in a worktree, after at most one    *)
(* crash or stop, while what the first run left may still be alive (the    *)
(* second run's worker asks for no ending: one run shows all of that).     *)
(***************************************************************************)
EXTENDS Terminations, TLC

VARIABLE scenario

Symmetry == Permutations(Run)

MCInit == RecordInit /\ scenario \in {"one run", "run again"}

OneRun == Cardinality({r \in Run : run'[r].status # "unused"}) <= 1

RunAgain ==
    /\ \A t \in Task : task'[t].failures = 0
    /\ \A r \in Run : run'[r].workspace # "dir" /\ "runtime" \notin clock'[r]
    /\ stops' <= 1
    /\ Cardinality({r \in Run : run'[r].status # "unused"}) = 2
       => \A r \in Run : Active(r)' => run'[r].request = "none"

MCNext ==
    /\ RecordNext
    /\ scenario = "one run" => OneRun
    /\ scenario = "run again" => RunAgain
    /\ UNCHANGED scenario

MCSpec == MCInit /\ [][MCNext]_<<recordVars, scenario>>
=============================================================================
