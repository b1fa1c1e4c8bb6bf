---------------------------- MODULE MCTaskStore ----------------------------
(***************************************************************************)
(* TaskStore for TLC.  The whole next-state relation over three tasks is   *)
(* beyond an exhaustive search, so every behaviour takes the actions that  *)
(* one question is about, its scenario; together they take all of them.    *)
(***************************************************************************)
EXTENDS TaskStore, TLC

VARIABLE scenario

Symmetry == Permutations(Task) \cup Permutations(Run)

RunsUsed(n) == Cardinality({r \in Run : run'[r].status # "unused"}) <= n

\* A run that ends at once, for the questions that are not about how it ends.
RunToCompletion == \E r \in Run :
    \/ \E t \in Task : ClaimTask(t, r)
    \/ RequestRunCompletion(r)
    \/ FinalizeRunTerminal(r)

\* Tasks are created routed, as the planner and the swarm create them.
CreateRouted == \E t \in Task :
    \E parents \in SUBSET (Task \ {t}) : CreateTask(t, "default", TRUE, "none", MaxRetries, parents)

\* Retention reaching the completion of one task; all of them is a sequence.
ForgetCompletion(t) == GarbageCollectEvents({t}, {})

(* Handoffs: who satisfies a link, with which run, and what it outlives.   *)
HandoffNext ==
    \/ RunToCompletion \/ CreateRouted \/ Dependencies
    \/ \E t \in Task : \/ ArchiveTask(t) \/ DeleteTask(t) \/ ForgetCompletion(t)
                       \/ SetStatus(t, "todo") \/ SetStatus(t, "done")

(* Endings: every way a run ends, on one task; events are forgotten.       *)
EndingNext ==
    \/ Launch \/ Terminal \/ Recovery
    \/ \E t \in Task :
          /\ \A other \in Task \ {t} : ~Present(other)
          /\ \/ CreateTask(t, "ready", TRUE, "none", MaxRetries, {})
             \/ UnblockTask(t) \/ SpecifyTask(t)
             \/ \E r \in Run, kind \in Kinds, reason \in Reason : BlockTask(t, r, kind, reason)
             \/ \E forgotten, rerun \in SUBSET {t} : GarbageCollectEvents(forgotten, rerun)

(* Reruns: how a finished, blocked or waiting task comes back, by one run; *)
(* the tasks keep one limit, nothing here fails.                           *)
RerunNext ==
    /\ \/ RunToCompletion \/ CreateTasks \/ EditTasks \/ CompleteTasks \/ Time
       \/ Dependencies
    /\ RunsUsed(1)
    /\ \A t \in Task : task'[t].retries = MaxRetries

\* A failure, counted or not, that no operator asked for.
Fails == \E r \in Run, outcome \in Outcomes, reason \in Reason \ AuthReason :
    \/ \E limit \in FailureLimits : FailRun(r, outcome, TRUE, FALSE, reason, limit)
    \/ RecoverAbandonedRun(r, outcome, TRUE, reason)
    \/ FailRun(r, outcome, FALSE, TRUE, reason, 0)

(* Budgets: a task out of retries beside one that depends on it, or that   *)
(* it depends on, while limits are edited.                                 *)
BudgetNext ==
    \/ RunToCompletion \/ Fails \/ CreateRouted \/ Dependencies \/ Time
    \/ \E t \in Task : \/ TouchTask(t) \/ UnblockTask(t) \/ ArchiveTask(t) \/ DeleteTask(t)
                       \/ \E retries \in TaskLimits : EditRetries(t, retries)

Take(next) == next /\ UNCHANGED scenario

StoreNext ==
    \/ scenario = "handoffs" /\ Take(HandoffNext)
    \/ scenario = "endings" /\ Take(EndingNext)
    \/ scenario = "reruns" /\ Take(RerunNext)
    \/ scenario = "budgets" /\ Take(BudgetNext)

Choose(scenarios) == Init /\ scenario \in scenarios

HandoffSpec == Choose({"handoffs"}) /\ [][StoreNext]_<<vars, scenario>>
HistorySpec == Choose({"endings", "reruns", "budgets"}) /\ [][StoreNext]_<<vars, scenario>>
OrphanSpec == Choose({"reruns"}) /\ [][StoreNext]_<<vars, scenario>>
=============================================================================
