------------------------------ MODULE RunFence ------------------------------
(***************************************************************************)
(* What the run table promises, stripped of everything else: a task has at *)
(* most one owner, an owner is a run that was never used before, and a run *)
(* that gave its task up never owns anything again.  A claim token belongs *)
(* to one run, so the token of a lost run is a fence: it opens nothing.    *)
(***************************************************************************)
CONSTANTS Task, Run, None

VARIABLES owner,    \* owner[t]: the run that owns t, or None
          spent     \* the runs that were ever used

vars == <<owner, spent>>

Init == owner = [t \in Task |-> None] /\ spent = {}

Acquire(t, r) ==
    /\ owner[t] = None
    /\ r \notin spent
    /\ owner' = [owner EXCEPT ![t] = r]
    /\ spent' = spent \cup {r}

\* Any one owner may let go while runs that never owned anything are spent.
Release(t) ==
    /\ owner' = [owner EXCEPT ![t] = None]
    /\ spent \subseteq spent'
    /\ spent' \subseteq Run

Next == \E t \in Task : Release(t) \/ \E r \in Run : Acquire(t, r)

Spec == Init /\ [][Next]_vars
=============================================================================
