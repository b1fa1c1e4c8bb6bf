--------------------------- MODULE MCCoordination ---------------------------
(***************************************************************************)
(* Coordination for TLC, in two scenarios: a board is removed while two    *)
(* runs and an attempt of a planner come and go, or three runs want one    *)
(* directory, one of them from another board.  Each scenario leaves the    *)
(* contention of the other aside: one run at most wants the directory in   *)
(* the first, and no run a slot in the second.                             *)
(***************************************************************************)
EXTENDS Coordination

CONSTANT Third      \* the run only the directory is contended by
VARIABLE scenario

RemovalNext ==
    /\ CoordNext
    /\ run'[Third].status = "unused"
    /\ \A x \in Run : run'[x].board \in Removable \cup {None}
    /\ \A a \in Attempt : attempt'[a].board \in Removable \cup {None}
    /\ Cardinality({r \in Run : run'[r].path # None}) <= 1
    /\ \A r \in Run : run'[r].status # "unused" => run'[r].path # None \/ run'[r].registered

DirectoryNext == \E r \in Run :
    \/ Launch(r) /\ run'[r].path # None /\ ~run'[r].registered
                 /\ (run'[r].board \in Removable <=> r # Third)
    \/ End(r) \/ Inspect(r) \/ Recover(r)

MCNext ==
    /\ \/ scenario = "removal" /\ RemovalNext
       \/ scenario = "directory" /\ DirectoryNext
    /\ UNCHANGED scenario

\* A directory whose runs may be deleted.
DeletionSpec ==
    /\ CoordInit /\ scenario = "directory"
    /\ [][CoordNext /\ UNCHANGED scenario]_<<coordVars, scenario>>
=============================================================================
