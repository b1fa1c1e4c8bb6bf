------------------------------ MODULE Handovers ------------------------------
(***************************************************************************)
(* What the board promises about work that one task hands on to another,   *)
(* without directories, merges and processes: a task is worked on by one   *)
(* run at a time, which begins when every prerequisite has handed          *)
(* something over.  Its result is made in one step, at most once and       *)
(* before it ended, and is all that was handed over to its task with       *)
(* changes of nobody but the run.  It hands on when it ends, or gives up,  *)
(* and what a task was handed never changes again.                         *)
(***************************************************************************)
CONSTANTS
    Task,
    Run,
    Before,   \* pairs <<prerequisite, dependent>>
    Sort,     \* sorts of changes; a change is one of a run's
    None

VARIABLES
    keeping,  \* the tasks whose runs have to hand over a result
    works,    \* works[r]: the task r began to work on, or None
    over,     \* the runs that ended
    result,   \* result[r]: what r started from, and what it came to; or None
    handed    \* handed[e]: the run that handed over to the dependent, or "open"

vars == <<keeping, works, over, result, handed>>

Begun(r) == works[r] # None /\ r \notin over

\* The results handed over to t.
Inherited(t) == {result[q] : q \in {x \in {handed[e] : e \in {e \in Before : e[2] = t}} \cap Run :
                                       result[x] # None}}

Init ==
    /\ keeping \subseteq Task
    /\ works = [r \in Run |-> None]
    /\ over = {}
    /\ result = [r \in Run |-> None]
    /\ handed = [e \in Before |-> "open"]

Begin(t, r) ==
    /\ works[r] = None
    /\ \A q \in Run : works[q] = t => q \in over
    /\ \A e \in Before : e[2] = t => handed[e] # "open"
    /\ works' = [works EXCEPT ![r] = t]
    /\ UNCHANGED <<keeping, over, result, handed>>

\* The result has a base, and above it only changes of the run's own.
Make(r) ==
    /\ Begun(r) /\ result[r] = None
    /\ result' = [result EXCEPT ![r] = result'[r]]
    /\ result'[r] \in [base : SUBSET (Run \X Sort), head : SUBSET (Run \X Sort)]
    /\ result'[r].base \subseteq result'[r].head
    /\ result'[r].head \ result'[r].base \subseteq {r} \X Sort
    /\ \A found \in Inherited(works[r]) : found.head \subseteq result'[r].head
    /\ UNCHANGED <<keeping, works, over, handed>>

GiveUp(r) ==
    /\ Begun(r)
    /\ over' = over \cup {r}
    /\ UNCHANGED <<keeping, works, result, handed>>

HandOn(r) ==
    /\ Begun(r)
    /\ over' = over \cup {r}
    /\ works[r] \in keeping => result[r] # None
    /\ handed' = [e \in Before |-> IF e[1] = works[r] /\ handed[e] = "open" THEN r ELSE handed[e]]
    /\ UNCHANGED <<keeping, works, result>>

Next == \E r \in Run : \/ \E t \in Task : Begin(t, r)
                       \/ Make(r) \/ GiveUp(r) \/ HandOn(r)

Spec == Init /\ [][Next]_vars
=============================================================================
