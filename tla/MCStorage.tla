----------------------------- MODULE MCStorage -----------------------------
(***************************************************************************)
(* What processes share behind the task rows, for TLC, one scenario at a   *)
(* time (`scenario` never changes, and what is of no scenario stands       *)
(* still):                                                                 *)
(*   removal, directory  the coordination database (MCCoordination);       *)
(*   together   the worktrees of two tasks, the second waiting for the     *)
(*              first, with everything that can happen to either;          *)
(*   in turn    four tasks and three runs one after the other, so that a   *)
(*              run has two prerequisites or a prerequisite is done again; *)
(*   console    the terminal board, two tasks and a person.                *)
(***************************************************************************)
EXTENDS MCCoordination, Worktrees, Console, TLC

CONSTANTS ta, tb, tc, td, te, r1, r2, r3

storageVars == <<coordVars, scenario, treeVars, consoleVars>>

-----------------------------------------------------------------------------
(* Worktrees: tc needs ta and tb, td and te need ta.                       *)

TreeTasks == {ta, tb, tc, td, te}
TreeLinks == {<<ta, tc>>, <<tb, tc>>, <<ta, td>>, <<ta, te>>}
TreeKinds == [t \in TreeTasks |-> IF t \in {tb, te} THEN "scratch"
                                  ELSE IF t = td THEN "dir" ELSE "worktree"]
TreeWrites == [r \in {r1, r2, r3} |-> {"commit", "edit", "rewrite"}]

Together == \A r \in {r1, r2, r3} : /\ treeRun'[r].task \in {ta, te, None}
                                    /\ r = r3 => treeRun'[r].status = "unused"

\* Of the runs one after the other, the first two do not fail.
InTurn ==
    LET begun == {r \in {r1, r2, r3} : treeRun'[r].task # None} IN
    /\ workdir = "git" \/ \A r \in begun : treeRun'[r].task \in {ta, tb, te}
    /\ Cardinality({treeRun'[r].task : r \in {x \in begun : task'[treeRun'[x].task] = "todo"}}) <= 1
    /\ Cardinality({r \in begun : proc'[r].step # "gone"}) <= 1
    /\ \A r \in {r1, r2} : /\ treeRun'[r].status \notin {"failed", "reclaimed"}
                           /\ ~tree'[r].dirty
                           /\ tree'[r] = NoTree \/ tree[r].head \subseteq tree'[r].head
                           /\ proc'[r].step # "crashed"
                           /\ proc'[r].step = "asked" => <<r, "commit">> \in tree'[r].head

TreeScenarios == /\ scenario \in {"together", "in turn"}
                 /\ TreeNext
                 /\ \/ scenario = "together" /\ Together
                    \/ scenario = "in turn" /\ InTurn

-----------------------------------------------------------------------------
(* The terminal board: tb is not ready at first; a load fails and a person *)
(* does one thing, or does two, or begins with a menu or a new task and    *)
(* goes through with it.  What was done before was done to an empty board. *)

Cards == {ta, tb}
CardOrder == <<ta, tb>>
Found == ("all" :> {ta, tb}) @@ ("one" :> {ta})
CardColumns == <<"ready", "running">>

ConsoleStart == /\ row[ta].status = "ready" /\ row[tb].status # "ready"
                /\ failures + keys = 2 \/ (failures = 1 /\ keys = 0)

ConsoleSteps == /\ ConsoleNext
                /\ keys = 0 /\ keys' = 1 => modal'.action = "create" \/ modal'.kind = "menu"
                /\ keys = 1 /\ keys' = 2 /\ modal # NoModal
                   => modal' # NoModal \/ mutation' # NoMutation

-----------------------------------------------------------------------------
StorageInit ==
    /\ CoordInit /\ TreeInit /\ ConsoleInit /\ ConsoleStart
    /\ scenario \in {"removal", "directory", "together", "in turn", "console"}
    /\ scenario # "in turn" => workdir = "git"
    /\ scenario # "console" => keys = 1 /\ row[tb] = Absent

StorageNext ==
    \/ MCNext /\ UNCHANGED <<treeVars, consoleVars>>
    \/ TreeScenarios /\ UNCHANGED <<coordVars, scenario, consoleVars>>
    \/ /\ scenario = "console" /\ ConsoleSteps
       /\ UNCHANGED <<coordVars, scenario, treeVars>>

StorageSpec == StorageInit /\ [][StorageNext]_storageVars
=============================================================================
