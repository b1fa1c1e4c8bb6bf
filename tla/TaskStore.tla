----------------------------- MODULE TaskStore -----------------------------
(***************************************************************************)
(* One board database of autogora: the tasks, the runs that execute them   *)
(* and the dependency links between tasks (src/internal/store).            *)
(*                                                                         *)
(* Every mutation of the store runs in one IMMEDIATE SQLite transaction    *)
(* (withWrite), so every mutation is one action.  The only mutation that   *)
(* reads before its transaction and relies on what it read, CompleteTask,  *)
(* is two actions.  Callers - the dispatcher, workers over MCP, the CLI,   *)
(* the dashboard - are not told apart: any of them may call anything.      *)
(*                                                                         *)
(* Abstractions.  A reason or error text is an element of Reason; the      *)
(* texts matching guardedRunError are AuthReason.  `routed' stands for     *)
(* "has an assignee and a runtime other than manual".  A timestamp         *)
(* scheduled_at is "none", "past" or "future".  Counters saturate at the   *)
(* largest limit they are compared with.  `guard' abstracts what           *)
(* respawnGuardReason reads from the run table and the event log, `gaveup' *)
(* what the event of the last counted failure says (failures against       *)
(* effectiveLimit).  A limit on running tasks only makes ClaimTask give    *)
(* up, which an action may always do by not being taken.                   *)
(***************************************************************************)
EXTENDS Integers, FiniteSets

CONSTANTS
    Task,           \* task identifiers of the board
    Run,            \* run identifiers; each is used once
    None,           \* "NULL" for a run, a task or a reason
    Reason,         \* block reasons and run errors
    AuthReason,     \* the reasons that name an authentication or quota error
    MaxRetries,     \* bound: the largest limit on failures anyone names
    TaskLimits,     \* values callers give to max_retries
    FailureLimits,  \* failure limits the callers of FailRun name (0: none)
    Kinds,          \* block kinds callers pass ("none": the kind is omitted)
    Outcomes,       \* outcomes callers give to unsuccessful runs
    Schedules,      \* values callers give to scheduled_at
    Workspaces,     \* kinds of prepared workspaces
    EditStatuses    \* statuses an administrative create or edit may name

TaskStatus == {"triage", "todo", "scheduled", "ready", "running", "blocked",
               "review", "done", "archived"}
UnsuccessfulOutcome == {"failed", "reclaimed", "crashed", "timed_out",
                        "rate_limited", "spawn_failed", "protocol_violation"}
EndedStatus == UnsuccessfulOutcome \cup {"completed", "blocked"}
RunStatus == EndedStatus \cup {"unused", "running", "deleted"}
BlockKind == {"none", "dependency", "needs_input", "capability", "transient"}
Schedule == {"none", "past", "future"}
Guard == {"none", "recent_success", "requeued", "blocker_auth"}
WorkspaceKind == {"none", "dir", "worktree"}
Request == {"none", "complete", "block"}
ReclaimIntent == {"none", "reclaimed", "timed_out"}
BlockRecurrenceLimit == 2
Failures == 0..MaxRetries
Retries == 1..MaxRetries
Recurrences == 0..BlockRecurrenceLimit

ASSUME NoneAssumption == None \notin Task \cup Run \cup Reason
ASSUME MarkAssumption == {"absent", "open", "never"} \cap (Run \cup {None}) = {}
ASSUME RetryAssumption == MaxRetries \in Nat \ {0}
ASSUME LimitAssumption == TaskLimits \subseteq Retries /\ FailureLimits \subseteq Failures
ASSUME InputAssumption ==
    /\ AuthReason \subseteq Reason
    /\ Kinds \subseteq BlockKind
    /\ Outcomes \subseteq UnsuccessfulOutcome
    /\ Schedules \subseteq Schedule
    /\ Workspaces \subseteq {"dir", "worktree"}
    /\ EditStatuses \subseteq TaskStatus \ {"running"}

VARIABLES
    task,       \* task[t]: the row of tasks for t, or Absent
    run,        \* run[r]: the row of task_runs for r with its satellite rows
    link,       \* link[<<p, c>>]: "absent", "open", or the completion it pins:
                \* a run, or None for a completion without a run
    preflight   \* tasks for which a CompleteTask call is before its transaction

vars == <<task, run, link, preflight>>

Edge == Task \X Task
Pin == Run \cup {None}

TaskRow == [status : TaskStatus \cup {"absent"}, current : Run \cup {None},
            routed : BOOLEAN, sched : Schedule,
            failures : Failures, retries : Retries, gaveup : BOOLEAN,
            kind : BlockKind, reason : Reason \cup {None}, recur : Recurrences, guard : Guard,
            completed : Pin \cup {"never"}]
RunRow == [status : RunStatus,
           task : Task \cup {None}, synthetic : BOOLEAN, managed : BOOLEAN,
           pid : BOOLEAN, workspace : WorkspaceKind,
           captured : BOOLEAN, request : Request,
           kind : BlockKind, reason : Reason \cup {None}, finalized : BOOLEAN,
           reclaim : ReclaimIntent]

Absent == [status |-> "absent", current |-> None, routed |-> FALSE,
           sched |-> "none", failures |-> 0, retries |-> MaxRetries,
           gaveup |-> FALSE, kind |-> "none", reason |-> None, recur |-> 0, guard |-> "none", completed |-> "never"]
Unused == [status |-> "unused", task |-> None, synthetic |-> FALSE,
           managed |-> FALSE, pid |-> FALSE, workspace |-> "none",
           captured |-> FALSE, request |-> "none", kind |-> "none",
           reason |-> None, finalized |-> FALSE, reclaim |-> "none"]

\* The row a run starts with; `human' marks the synthetic runs of operators.
NewRun(t, status, human) ==
    [Unused EXCEPT !.status = status, !.task = t, !.synthetic = human]

Init == /\ task = [t \in Task |-> Absent]
        /\ run = [r \in Run |-> Unused]
        /\ link = [e \in Edge |-> "absent"]
        /\ preflight = {}

-----------------------------------------------------------------------------
(* Reading the board *)

Present(t) == task[t].status # "absent"
NoActiveRun(t) == Present(t) /\ task[t].current = None
HasOpenParents(l, t) == \E p \in Task : l[<<p, t>>] = "open"

\* The run is running and still owns its task.
Active(r) == /\ run[r].status = "running"
             /\ run[r].task \in Task
             /\ task[run[r].task].status = "running"
             /\ task[run[r].task].current = r

PendingRequest(r) == run[r].request # "none" /\ ~run[r].finalized

(* b is a descendant of a, or a itself: b is in every set of tasks that     *)
(* holds a and, with a task, all its dependents.                           *)
Closed(l, S) == \A p \in S, c \in Task : l[<<p, c>>] # "absent" => c \in S
Reaches(l, a, b) == \A S \in SUBSET Task : a \in S /\ Closed(l, S) => b \in S

ValidPin(p, pin) == pin \in Run => /\ run[pin].task = p
                                   /\ run[pin].status = "completed"

\* What a new link to prerequisite p starts with.
Satisfaction(p) ==
    CASE task[p].status \notin {"done", "archived"} -> "open"
      [] task[p].status \in {"done", "archived"} /\ task[p].completed # "never"
            -> task[p].completed
      [] task[p].status = "done" /\ task[p].completed = "never" -> None
      [] OTHER -> "open"

-----------------------------------------------------------------------------
(* Rewriting one task row *)

\* An event of a kind that respawnGuardReason accepts as a deliberate rerun.
Requeued(row) ==
    IF row.guard = "recent_success" THEN [row EXCEPT !.guard = "requeued"] ELSE row

GuardAfter(reason) == IF reason \in AuthReason THEN "blocker_auth" ELSE "none"

Recomputed(row, open) ==
    CASE \/ row.status \notin {"todo", "ready", "scheduled"}
         \/ row.status = "scheduled" /\ row.sched \in {"none", "future"} -> row
      [] row.status \in {"todo", "ready"} /\ row.sched = "future" ->
            Requeued([row EXCEPT !.status = "scheduled"])
      [] OTHER -> [row EXCEPT !.status =
                      IF open \/ ~row.routed THEN "todo" ELSE "ready"]

\* Broken: the administrative completion does not clear current_run_id.
FinishedKeepingRun(row, pin) ==
    [row EXCEPT !.status = "done", !.sched = "none", !.failures = 0,
                !.gaveup = FALSE, !.kind = "none", !.reason = None, !.recur = 0, !.completed = pin]

Finished(row, pin) ==
    [row EXCEPT !.status = "done", !.current = None, !.sched = "none",
                !.failures = 0, !.gaveup = FALSE, !.kind = "none", !.reason = None,
                !.recur = 0, !.completed = pin]

Bump(row, kind, reason) ==
    IF kind # "none" /\ row.kind = kind /\ row.reason = reason
    THEN IF row.recur = BlockRecurrenceLimit THEN row.recur ELSE row.recur + 1
    ELSE 1

Blocked(row, kind, reason) ==
    LET recur == Bump(row, kind, reason)
        held == [row EXCEPT !.current = None, !.sched = "none",
                            !.kind = kind, !.reason = reason]
    IN  IF kind = "dependency" THEN [held EXCEPT !.status = "todo"]
        ELSE [held EXCEPT !.recur = recur, !.status =
                 IF recur >= BlockRecurrenceLimit /\ row.recur > 0
                 THEN "triage" ELSE "blocked"]

(* The limit in force at a failure: the one the caller names, else the     *)
(* one of the task as it is now.                                           *)
EffectiveLimit(row, limit) == IF limit = 0 THEN row.retries ELSE limit

GivesUp(row, counted, limit) ==
    counted /\ row.failures + 1 >= EffectiveLimit(row, limit)

\* Broken: one failure too many before the task is blocked.
FailedLate(row, open, counted, cooldown, reason, limit) ==
    LET exhausted == counted /\ row.failures + 1 > EffectiveLimit(row, limit)
    IN  [row EXCEPT
           !.current = None,
           !.failures = IF counted /\ row.failures < MaxRetries THEN @ + 1 ELSE @,
           !.gaveup = GivesUp(row, counted, limit),
           !.sched = IF ~exhausted /\ cooldown THEN "future" ELSE "none",
           !.reason = IF exhausted THEN reason ELSE @,
           !.guard = GuardAfter(reason),
           !.status = IF exhausted THEN "blocked"
                      ELSE IF cooldown THEN "scheduled"
                      ELSE IF open \/ ~row.routed THEN "todo" ELSE "ready"]

Failed(row, open, counted, cooldown, reason, limit) ==
    LET exhausted == GivesUp(row, counted, limit)
    IN  [row EXCEPT
           !.current = None,
           !.failures = IF counted /\ row.failures < MaxRetries THEN @ + 1 ELSE @,
           !.gaveup = exhausted,
           !.sched = IF ~exhausted /\ cooldown THEN "future" ELSE "none",
           !.reason = IF exhausted THEN reason ELSE @,
           !.guard = GuardAfter(reason),
           !.status = IF exhausted THEN "blocked"
                      ELSE IF cooldown THEN "scheduled"
                      ELSE IF open \/ ~row.routed THEN "todo" ELSE "ready"]

\* Broken: a rerun replaces the completions its dependents already pin.
SatisfiedAgain(l, p, pin) ==
    [e \in Edge |-> IF e[1] = p /\ l[e] # "absent" THEN pin ELSE l[e]]

(* satisfyOutgoingDependencies: every open link out of p pins the          *)
(* completion, and the dependents are recomputed against the new links.    *)
Satisfied(l, p, pin) ==
    [e \in Edge |-> IF e[1] = p /\ l[e] = "open" THEN pin ELSE l[e]]

\* Broken: the dependents are recomputed before their links are satisfied.
CompleteWithStaleLinks(p, row, pin) ==
    /\ link' = Satisfied(link, p, pin)
    /\ task' = [t \in Task |->
          IF t = p THEN row
          ELSE IF link[<<p, t>>] = "open"
               THEN Recomputed(task[t], HasOpenParents(link, t)) ELSE task[t]]

CompleteWith(p, row, pin) ==
    LET l == Satisfied(link, p, pin)
    IN  /\ link' = l
        /\ task' = [t \in Task |->
              IF t = p THEN row
              ELSE IF link[<<p, t>>] = "open"
                   THEN Recomputed(task[t], HasOpenParents(l, t))
                   ELSE task[t]]

-----------------------------------------------------------------------------
(* Claiming and launching a run *)

Candidate(t) == /\ task[t].status = "ready"
                /\ task[t].current = None
                /\ task[t].sched # "future"

\* Broken: a retry is claimed under the run, and so the token, of an old one.
ClaimTaskReusingRun(t, r) ==
    /\ Candidate(t)
    /\ ~HasOpenParents(link, t)
    /\ run[r].status # "running"
    /\ task' = [task EXCEPT ![t].status = "running", ![t].current = r]
    /\ run' = [run EXCEPT ![r] = NewRun(t, "running", FALSE)]
    /\ UNCHANGED <<link, preflight>>

Claimed(row, r) == [row EXCEPT !.status = "running", !.current = r]
Demoted(row) == [row EXCEPT !.status = "todo"]

(* ClaimTask walks the candidates in priority order, demoting those with   *)
(* an open prerequisite and passing over those under a respawn guard,      *)
(* until it can take one.  (A call that takes none changes nothing: by     *)
(* NoUnfinishedPrerequisite it finds no candidate to demote.)              *)
ClaimTask(t, r) ==
    /\ Candidate(t)
    /\ ~HasOpenParents(link, t)
    /\ task[t].guard \in {"none", "requeued"}
    /\ run[r].status = "unused"
    /\ \E demoted \in SUBSET {c \in Task : Candidate(c) /\ HasOpenParents(link, c)} :
          task' = [c \in Task |->
             IF c = t THEN Claimed(task[c], r)
             ELSE IF c \in demoted THEN Demoted(task[c]) ELSE task[c]]
    /\ run' = [run EXCEPT ![r] = NewRun(t, "running", FALSE)]
    /\ UNCHANGED <<link, preflight>>

MarkRunManaged(r) ==
    /\ Active(r)
    /\ run' = [run EXCEPT ![r].managed = TRUE]
    /\ UNCHANGED <<task, link, preflight>>

BindRunWorkspace(r, kind) ==
    /\ Active(r)
    /\ run[r].workspace = "none"
    /\ run' = [run EXCEPT ![r].workspace = kind]
    /\ UNCHANGED <<task, link, preflight>>

RecordSpawn(r) ==
    /\ Active(r)
    /\ run[r].request = "none"
    /\ run[r].reclaim = "none"
    /\ run' = [run EXCEPT ![r].pid = TRUE]
    /\ UNCHANGED <<task, link, preflight>>

\* Between two turns of a goal the run stays owned and has no process.
PauseGoalRun(r) ==
    /\ Active(r)
    /\ run' = [run EXCEPT ![r].pid = FALSE]
    /\ UNCHANGED <<task, link, preflight>>

-----------------------------------------------------------------------------
(* Ending a run: two-phase terminal requests *)

RequestRunCompletion(r) ==
    /\ Active(r)
    /\ run[r].request = "none"
    /\ ~HasOpenParents(link, run[r].task)
    /\ run' = [run EXCEPT ![r].request = "complete"]
    /\ UNCHANGED <<task, link, preflight>>

\* Broken: the two text columns of the request are swapped.
RequestRunBlockSwapped(r, kind, reason) ==
    /\ Active(r)
    /\ run[r].request = "none"
    /\ run' = [run EXCEPT ![r].request = "block", ![r].kind = reason,
                          ![r].reason = kind]
    /\ UNCHANGED <<task, link, preflight>>

RequestRunBlock(r, kind, reason) ==
    /\ Active(r)
    /\ run[r].request = "none"
    /\ run' = [run EXCEPT ![r].request = "block", ![r].kind = kind,
                          ![r].reason = reason]
    /\ UNCHANGED <<task, link, preflight>>

Discarded(row) == IF row.finalized THEN row
                  ELSE [row EXCEPT !.request = "none", !.kind = "none",
                                   !.reason = None]

DiscardRunTerminalRequest(r) ==
    /\ Active(r)
    /\ PendingRequest(r)
    /\ run' = [run EXCEPT ![r] = Discarded(@)]
    /\ UNCHANGED <<task, link, preflight>>

RecordRunChangeSet(r) ==
    /\ Active(r)
    /\ PendingRequest(r) /\ run[r].request = "complete"
    /\ ~run[r].captured
    /\ run' = [run EXCEPT ![r].captured = TRUE]
    /\ UNCHANGED <<task, link, preflight>>

\* Broken: a worktree completes without its change set.
FinalizeUncaptured(r) ==
    LET t == run[r].task IN
    /\ Active(r)
    /\ run[r].request = "complete"
    /\ ~HasOpenParents(link, t)
    /\ run' = [run EXCEPT ![r].status = "completed", ![r].finalized = TRUE]
    /\ CompleteWith(t, [Finished(task[t], r) EXCEPT !.guard = "recent_success"], r)
    /\ UNCHANGED preflight

FinalizeCompletion(r) ==
    LET t == run[r].task IN
    /\ Active(r)
    /\ run[r].request = "complete"
    /\ ~HasOpenParents(link, t)
    /\ run[r].workspace = "worktree" => run[r].captured
    /\ run' = [run EXCEPT ![r].status = "completed", ![r].finalized = TRUE]
    /\ CompleteWith(t, [Finished(task[t], r) EXCEPT !.guard = "recent_success"], r)
    /\ UNCHANGED preflight

FinalizeBlock(r) ==
    LET t == run[r].task IN
    /\ Active(r)
    /\ run[r].request = "block"
    /\ run' = [run EXCEPT ![r].status = "blocked", ![r].finalized = TRUE]
    /\ task' = [task EXCEPT ![t] =
          [Blocked(@, run[r].kind, run[r].reason)
             EXCEPT !.guard = GuardAfter(run[r].reason)]]
    /\ UNCHANGED <<link, preflight>>

FinalizeRunTerminal(r) == FinalizeCompletion(r) \/ FinalizeBlock(r)

-----------------------------------------------------------------------------
(* Ending a run: failure and recovery *)

\* Broken: a failing run leaves its pending terminal request behind.
FinishKeepingRequest(r, outcome, counted, cooldown, reason, limit) ==
    LET t == run[r].task IN
    /\ Active(r)
    /\ run' = [run EXCEPT ![r].status = outcome]
    /\ task' = [task EXCEPT ![t] =
          Failed(@, HasOpenParents(link, t), counted, cooldown, reason, limit)]
    /\ UNCHANGED <<link, preflight>>

FinishUnsuccessful(r, outcome, counted, cooldown, reason, limit) ==
    LET t == run[r].task IN
    /\ Active(r)
    /\ run' = [run EXCEPT ![r] = [Discarded(@) EXCEPT !.status = outcome]]
    /\ task' = [task EXCEPT ![t] =
          Failed(@, HasOpenParents(link, t), counted, cooldown, reason, limit)]
    /\ UNCHANGED <<link, preflight>>

FailRun(r, outcome, counted, cooldown, reason, limit) ==
    FinishUnsuccessful(r, outcome, counted, cooldown, reason, limit)

\* Recovery names no limit: that of the task counts.
RecoverAbandonedRun(r, outcome, counted, reason) ==
    FinishUnsuccessful(r, outcome, counted, FALSE, reason, 0)

RecoverRunBlocked(r, outcome, kind, reason) ==
    LET t == run[r].task
        k == IF kind = "none" THEN "needs_input" ELSE kind
    IN
    /\ Active(r)
    /\ kind # "dependency"
    /\ run' = [run EXCEPT ![r] = [Discarded(@) EXCEPT !.status = outcome]]
    /\ task' = [task EXCEPT ![t] =
          [@ EXCEPT !.status = "blocked", !.current = None, !.sched = "none",
                    !.kind = k, !.reason = reason, !.recur = Bump(task[t], k, reason),
                    !.guard = GuardAfter(reason)]]
    /\ UNCHANGED <<link, preflight>>

\* Broken: the intent to reclaim is written for a run that already ended.
DeferAnyRecovery(r, outcome) ==
    /\ run[r].status # "unused"
    /\ run' = [run EXCEPT ![r].reclaim = outcome]
    /\ UNCHANGED <<task, link, preflight>>

\* The run keeps its task; a later recovery pass reads the stored intent.
DeferRunRecovery(r, outcome) ==
    /\ run[r].status = "running"
    /\ run' = [run EXCEPT ![r].reclaim = outcome]
    /\ UNCHANGED <<task, link, preflight>>

-----------------------------------------------------------------------------
(* Administration *)

(* The default status looks at the schedule, the route and the parents; an *)
(* explicit status is kept unless a link changes it.  Linking reopens a    *)
(* task created "done" under an open parent and recomputes the rest.       *)
CreatedStatus(status, routed, sched, parents) ==
    CASE status # "default" -> status
      [] status = "default" /\ sched = "future" -> "scheduled"
      [] status = "default" /\ sched = "none" /\ routed /\ parents = {} -> "ready"
      [] OTHER -> "todo"

\* Broken: reopening for a dependency leaves no event that allows a rerun.
LinkedSilently(row, pin, open) ==
    Recomputed(IF pin = "open" /\ row.status = "done"
               THEN [row EXCEPT !.status = "todo", !.kind = "none",
                                !.reason = None, !.recur = 0]
               ELSE row, open)

Linked(row, pin, open) ==
    Recomputed(IF pin = "open" /\ row.status = "done"
               THEN Requeued([row EXCEPT !.status = "todo", !.kind = "none",
                                         !.reason = None, !.recur = 0])
               ELSE row, open)

CreateTask(t, status, routed, sched, retries, parents) ==
    LET l == [e \in Edge |-> IF e[2] = t /\ e[1] \in parents
                             THEN Satisfaction(e[1]) ELSE link[e]]
        open == HasOpenParents(l, t)
        row == [Absent EXCEPT !.routed = routed, !.sched = sched, !.retries = retries,
                   !.status = CreatedStatus(status, routed, sched, parents)]
        linked == IF parents = {} THEN row
                  ELSE Linked(row, IF open THEN "open" ELSE None, open)
    IN
    /\ ~Present(t) /\ t \notin preflight   \* a fresh identifier
    /\ \A p \in parents : Present(p) /\ ValidPin(p, Satisfaction(p))
    /\ link' = l
    /\ task' = [task EXCEPT ![t] =
          IF status = "ready" /\ open THEN [linked EXCEPT !.status = "todo"]
          ELSE linked]
    /\ UNCHANGED <<run, preflight>>

\* An edit that leaves every column alone but, say, the priority.
TouchTask(t) ==
    /\ Present(t)
    /\ task' = [task EXCEPT ![t] =
          Recomputed(Requeued(@), HasOpenParents(link, t))]
    /\ UNCHANGED <<run, link, preflight>>

\* UpdateTask of the route or the schedule, the status left alone.
EditTask(t, routed, sched) ==
    /\ NoActiveRun(t) /\ task[t].status # "running"
    /\ task' = [task EXCEPT ![t] =
          Recomputed(Requeued([@ EXCEPT !.routed = routed, !.sched = sched]),
                     HasOpenParents(link, t))]
    /\ UNCHANGED <<run, link, preflight>>

\* UpdateTask of max_retries: what the task has failed so far stands.
EditRetries(t, retries) ==
    /\ NoActiveRun(t) /\ task[t].status # "running"
    /\ task' = [task EXCEPT ![t] =
          Recomputed(Requeued([@ EXCEPT !.retries = retries]),
                     HasOpenParents(link, t))]
    /\ UNCHANGED <<run, link, preflight>>

\* Broken: marking a task done by hand leaves its dependents waiting.
SetStatusOnly(t, status) ==
    /\ NoActiveRun(t) /\ task[t].status # "running"
    /\ task' = [task EXCEPT ![t] =
          Recomputed(Requeued([@ EXCEPT !.status = status]), HasOpenParents(link, t))]
    /\ UNCHANGED <<run, link, preflight>>

\* UpdateTask naming a status.
SetStatus(t, status) ==
    LET row == Requeued([task[t] EXCEPT !.status = status, !.gaveup = FALSE])
        done == [row EXCEPT !.failures = 0, !.kind = "none", !.reason = None,
                            !.recur = 0]
    IN
    /\ NoActiveRun(t) /\ task[t].status # "running"
    /\ CASE status = "done" /\ task[t].status # "done" ->
              CompleteWith(t, [done EXCEPT !.completed = None], None)
         [] status = "done" /\ task[t].status = "done" ->
              /\ task' = [task EXCEPT ![t] = done]
              /\ UNCHANGED link
         [] OTHER ->
              /\ task' = [task EXCEPT ![t] = Recomputed(row, HasOpenParents(link, t))]
              /\ UNCHANGED link
    /\ UNCHANGED <<run, preflight>>

(* CompleteTask checks for an active run before its transaction and never  *)
(* again; between the two the task may change, be claimed or be deleted.   *)
BeginCompleteTask(t) ==
    /\ NoActiveRun(t)
    /\ t \notin preflight
    /\ preflight' = preflight \cup {t}
    /\ UNCHANGED <<task, run, link>>

\* r is the synthetic run, or None when neither summary nor metadata is given.
EndCompleteTask(t, r) ==
    /\ t \in preflight
    /\ preflight' = preflight \ {t}
    /\ task[t].status \notin {"absent", "archived", "done"}
    /\ IF r = None
       THEN /\ UNCHANGED run
            /\ CompleteWith(t, Finished(task[t], None), None)
       ELSE /\ run[r].status = "unused"
            /\ run' = [run EXCEPT ![r] = NewRun(t, "completed", TRUE)]
            /\ CompleteWith(t, [Finished(task[t], r) EXCEPT
                                  !.guard = "recent_success"], r)

\* An error before or in the transaction, or the task is already done.
AbandonCompleteTask(t) ==
    /\ t \in preflight
    /\ preflight' = preflight \ {t}
    /\ UNCHANGED <<task, run, link>>

BlockTask(t, r, kind, reason) ==
    /\ NoActiveRun(t)
    /\ task[t].status \notin {"done", "archived", "blocked"}
    /\ run[r].status = "unused"
    /\ run' = [run EXCEPT ![r] = NewRun(t, "blocked", TRUE)]
    /\ task' = [task EXCEPT ![t] =
          [Blocked(@, kind, reason) EXCEPT !.guard = GuardAfter(reason)]]
    /\ UNCHANGED <<link, preflight>>

UnblockTask(t) ==
    /\ task[t].status = "blocked"
    /\ task' = [task EXCEPT ![t] =
          Recomputed(Requeued([@ EXCEPT !.status = "todo", !.failures = 0,
                                        !.gaveup = FALSE]),
                     HasOpenParents(link, t))]
    /\ UNCHANGED <<run, link, preflight>>

PromoteTask(t) ==
    /\ task[t].status \in {"todo", "scheduled", "blocked", "triage", "review"}
    /\ task[t].current = None
    /\ task' = [task EXCEPT ![t] =
          Recomputed(Requeued([@ EXCEPT !.status = "todo", !.sched = "none",
                                        !.failures = 0, !.gaveup = FALSE]),
                     HasOpenParents(link, t))]
    /\ UNCHANGED <<run, link, preflight>>

ScheduleTask(t, sched) ==
    /\ NoActiveRun(t)
    /\ task' = [task EXCEPT ![t] =
          Requeued([@ EXCEPT !.status = "scheduled", !.sched = sched,
                             !.gaveup = FALSE])]
    /\ UNCHANGED <<run, link, preflight>>

SpecifyTask(t) ==
    /\ task[t].status = "triage"
    /\ task' = [task EXCEPT ![t] =
          Requeued([@ EXCEPT !.status = "todo", !.kind = "none", !.reason = None])]
    /\ UNCHANGED <<run, link, preflight>>

\* Broken: a running task is archived under its worker.
ArchiveAnyTask(t) ==
    /\ Present(t)
    /\ task[t].status # "archived"
    /\ task' = [task EXCEPT ![t] =
          [@ EXCEPT !.status = "archived", !.current = None, !.sched = "none"]]
    /\ UNCHANGED <<run, link, preflight>>

ArchiveTask(t) ==
    /\ NoActiveRun(t)
    /\ task[t].status # "archived"
    /\ task' = [task EXCEPT ![t] =
          [@ EXCEPT !.status = "archived", !.current = None, !.sched = "none"]]
    /\ UNCHANGED <<run, link, preflight>>

\* Broken: the links out of a deleted prerequisite survive it.
DeleteTaskKeepingHandoffs(t) ==
    /\ NoActiveRun(t)
    /\ \A c \in Task : link[<<t, c>>] # "absent" => task[c].status # "running"
    /\ link' = [e \in Edge |-> IF t = e[2] THEN "absent" ELSE link[e]]
    /\ run' = [r \in Run |-> IF run[r].task = t
                             THEN [Unused EXCEPT !.status = "deleted"] ELSE run[r]]
    /\ task' = [task EXCEPT ![t] = Absent]
    /\ UNCHANGED preflight

(* Deleting the row cascades to the runs and links of the task; a pin of   *)
(* one of these runs sits on a link out of the task and goes with it.      *)
DeleteTask(t) ==
    LET l == [e \in Edge |-> IF t \in {e[1], e[2]} THEN "absent" ELSE link[e]]
    IN
    /\ NoActiveRun(t)
    /\ \A c \in Task : link[<<t, c>>] # "absent" => task[c].status # "running"
    /\ link' = l
    /\ run' = [r \in Run |-> IF run[r].task = t
                             THEN [Unused EXCEPT !.status = "deleted"] ELSE run[r]]
    /\ task' = [c \in Task |->
          IF c = t THEN Absent
          ELSE IF link[<<t, c>>] # "absent"
               THEN Recomputed(task[c], HasOpenParents(l, c)) ELSE task[c]]
    /\ UNCHANGED preflight

-----------------------------------------------------------------------------
(* Dependencies *)

\* Broken: a new open prerequisite does not take a ready task back.
LinkTasksOnly(p, c) ==
    /\ Present(p) /\ Present(c)
    /\ task[c].status # "running"
    /\ link[<<p, c>>] = "absent"
    /\ ~Reaches(link, c, p)
    /\ ValidPin(p, Satisfaction(p))
    /\ link' = [link EXCEPT ![<<p, c>>] = Satisfaction(p)]
    /\ UNCHANGED <<task, run, preflight>>

\* Broken: the cycle check looks at the reverse link only.
LinkTasksShallow(p, c) ==
    LET pin == Satisfaction(p)
        l == [link EXCEPT ![<<p, c>>] = pin]
    IN
    /\ Present(p) /\ Present(c) /\ p # c
    /\ task[c].status # "running"
    /\ link[<<p, c>>] = "absent" /\ link[<<c, p>>] = "absent"
    /\ ValidPin(p, pin)
    /\ link' = l
    /\ task' = [task EXCEPT ![c] = Linked(@, pin, HasOpenParents(l, c))]
    /\ UNCHANGED <<run, preflight>>

LinkTasks(p, c) ==
    LET pin == Satisfaction(p)
        l == [link EXCEPT ![<<p, c>>] = pin]
    IN
    /\ Present(p) /\ Present(c)
    /\ task[c].status # "running"
    /\ link[<<p, c>>] = "absent"
    /\ ~Reaches(link, c, p)
    /\ ValidPin(p, pin)
    /\ link' = l
    /\ task' = [task EXCEPT ![c] = Linked(@, pin, HasOpenParents(l, c))]
    /\ UNCHANGED <<run, preflight>>

\* Broken: a prerequisite is taken away from a running dependent.
UnlinkAnyTasks(p, c) ==
    LET l == [link EXCEPT ![<<p, c>>] = "absent"]
    IN
    /\ Present(p) /\ Present(c)
    /\ link' = l
    /\ task' = [task EXCEPT ![c] = Recomputed(@, HasOpenParents(l, c))]
    /\ UNCHANGED <<run, preflight>>

UnlinkTasks(p, c) ==
    LET l == [link EXCEPT ![<<p, c>>] = "absent"]
    IN
    /\ Present(p) /\ Present(c)
    /\ task[c].status # "running"
    /\ link' = l
    /\ task' = [task EXCEPT ![c] = Recomputed(@, HasOpenParents(l, c))]
    /\ UNCHANGED <<run, preflight>>

-----------------------------------------------------------------------------
(* Time and retention *)

PromoteDueTasks ==
    LET due == {t \in Task : task[t].status = "scheduled" /\ task[t].sched = "past"}
    IN
    /\ due # {}
    /\ task' = [t \in Task |->
          IF t \in due
          THEN Recomputed(Requeued([task[t] EXCEPT !.status = "todo"]),
                          HasOpenParents(link, t))
          ELSE task[t]]
    /\ UNCHANGED <<run, link, preflight>>

ScheduleFallsDue(t) ==
    /\ task[t].sched = "future"
    /\ task' = [task EXCEPT ![t].sched = "past"]
    /\ UNCHANGED <<run, link, preflight>>

\* An hour after a run ended respawnGuardReason no longer looks at it.
GuardExpires(t) ==
    /\ task[t].guard # "none"
    /\ task' = [task EXCEPT ![t].guard = "none"]
    /\ UNCHANGED <<run, link, preflight>>

\* Event retention may forget a completion or a request to run again.
Forgetting(row, completion, rerun) ==
    [row EXCEPT !.completed = IF completion THEN "never" ELSE @,
                !.guard = IF rerun /\ @ = "requeued" THEN "recent_success" ELSE @]

GarbageCollectEvents(forgotten, rerun) ==
    /\ task' = [t \in Task |-> Forgetting(task[t], t \in forgotten, t \in rerun)]
    /\ UNCHANGED <<run, link, preflight>>

-----------------------------------------------------------------------------
(* The next-state relation, in the groups that the model-checking modules  *)
(* combine.                                                                *)

Launch == \E r \in Run :
    \/ \E t \in Task : ClaimTask(t, r)
    \/ MarkRunManaged(r)
    \/ \E kind \in Workspaces : BindRunWorkspace(r, kind)
    \/ RecordSpawn(r)
    \/ PauseGoalRun(r)

Terminal == \E r \in Run :
    \/ RequestRunCompletion(r)
    \/ \E kind \in Kinds, reason \in Reason : RequestRunBlock(r, kind, reason)
    \/ DiscardRunTerminalRequest(r)
    \/ RecordRunChangeSet(r)
    \/ FinalizeRunTerminal(r)

Recovery == \E r \in Run, outcome \in Outcomes, reason \in Reason :
    \/ \E counted, cooldown \in BOOLEAN, limit \in FailureLimits :
          FailRun(r, outcome, counted, cooldown, reason, limit)
    \/ \E counted \in BOOLEAN : RecoverAbandonedRun(r, outcome, counted, reason)
    \/ \E kind \in Kinds, o \in {outcome, "blocked"} : RecoverRunBlocked(r, o, kind, reason)
    \/ outcome \in {"reclaimed", "timed_out"} /\ DeferRunRecovery(r, outcome)

CreateTasks ==
    \E t \in Task, status \in EditStatuses \cup {"default"}, routed \in BOOLEAN,
       sched \in Schedules, retries \in TaskLimits : \E parents \in SUBSET (Task \ {t}) :
          CreateTask(t, status, routed, sched, retries, parents)

EditTasks == \E t \in Task :
    \/ TouchTask(t)
    \/ \E routed \in BOOLEAN, sched \in Schedules : EditTask(t, routed, sched)
    \/ \E retries \in TaskLimits : EditRetries(t, retries)
    \/ \E status \in EditStatuses : SetStatus(t, status)
    \/ UnblockTask(t)
    \/ PromoteTask(t)
    \/ \E sched \in Schedules : ScheduleTask(t, sched)
    \/ SpecifyTask(t)
    \/ ArchiveTask(t)
    \/ DeleteTask(t)

CompleteTasks == \E t \in Task :
    \/ BeginCompleteTask(t)
    \/ \E r \in Run \cup {None} : EndCompleteTask(t, r)
    \/ AbandonCompleteTask(t)

BlockTasks == \E t \in Task, r \in Run, kind \in Kinds, reason \in Reason :
    BlockTask(t, r, kind, reason)

Dependencies == \E p, c \in Task : LinkTasks(p, c) \/ UnlinkTasks(p, c)

Time == PromoteDueTasks \/ \E t \in Task : ScheduleFallsDue(t) \/ GuardExpires(t)

Retention == \E forgotten, rerun \in SUBSET Task : GarbageCollectEvents(forgotten, rerun)

Next == \/ Launch \/ Terminal \/ Recovery \/ CreateTasks \/ EditTasks
        \/ CompleteTasks \/ BlockTasks \/ Dependencies \/ Time \/ Retention

Spec == Init /\ [][Next]_vars

-----------------------------------------------------------------------------
(* Properties *)

Fence == INSTANCE RunFence WITH
            owner <- [t \in Task |-> task[t].current],
            spent <- {r \in Run : run[r].status # "unused"}

(* The store implements the fenced ownership of RunFence: a task is only   *)
(* ever claimed by a run that was never used, and never while it is owned. *)
RunsAreFenced == Fence!Spec

\* Every row has the shape of its table and the enumerations of schema.go.
TypeOK == /\ task \in [Task -> TaskRow]
          /\ run \in [Run -> RunRow]
          /\ link \in [Edge -> Pin \cup {"absent", "open"}]
          /\ preflight \subseteq Task

(* The run a task names as its current run is running, belongs to that     *)
(* task, and the task is "running" exactly while it names one: claiming,   *)
(* finalizing, failing, recovering and administration agree on who owns.   *)
RunOwnership ==
    \A t \in Task :
        /\ task[t].status = "running" <=> task[t].current # None
        /\ task[t].current # None =>
              /\ run[task[t].current].status = "running"
              /\ run[task[t].current].task = t

(* Nothing waits to run, or runs, while one of its prerequisites is open:  *)
(* every path into "ready" and every new link checks the other.            *)
NoUnfinishedPrerequisite ==
    \A t \in Task : task[t].status \in {"ready", "running"} => ~HasOpenParents(link, t)

(* The run a satisfied link pins is a completed run of the prerequisite,   *)
(* across failures, reruns, archiving and the deletion of tasks.           *)
PinsAreCompletions ==
    \A p, c \in Task : link[<<p, c>>] \in Run => ValidPin(p, link[<<p, c>>])

(* A task that is done keeps no dependent waiting.                         *)
DoneReleasesDependents ==
    \A p, c \in Task : task[p].status = "done" => link[<<p, c>>] # "open"

\* The links that are not there have no ends that are not there.
LinksJoinTasks ==
    \A p, c \in Task : link[<<p, c>>] # "absent" => Present(p) /\ Present(c)

\* No task waits for itself, however links, deletions and reopenings mix.
DependenciesAcyclic ==
    /\ LinksJoinTasks
    /\ \A p, c \in Task : link[<<p, c>>] # "absent" => ~Reaches(link, c, p)

(* What a dependent relies on, in every interleaving of claims, links,     *)
(* reruns, archiving and deletions: it is released when its prerequisites  *)
(* are done, never before, with completed work, and the links have no      *)
(* cycle.                                                                  *)
PrerequisitesSound ==
    /\ NoUnfinishedPrerequisite
    /\ PinsAreCompletions
    /\ DoneReleasesDependents
    /\ DependenciesAcyclic

(* A terminal request is finalized exactly when the run ended the way it   *)
(* asked for; a completed run is a finalized completion or a human's, and  *)
(* one that worked in a git worktree was captured before it completed.     *)
OutcomeMatchesRequest ==
    \A r \in Run :
        /\ run[r].finalized => \/ run[r].request = "complete" /\ run[r].status = "completed"
                               \/ run[r].request = "block" /\ run[r].status = "blocked"
        /\ PendingRequest(r) => run[r].status = "running"
        /\ run[r].status = "completed" => run[r].synthetic \/ run[r].finalized
        /\ run[r].status = "completed" /\ run[r].workspace = "worktree" => run[r].captured

(* The guard against accidental reruns never holds back a task that was    *)
(* sent back deliberately: whatever took a completed task out of "done"    *)
(* or "archived" left an event that lifts it (if events are retained).     *)
ReopenedTaskClaimable ==
    \A t \in Task : task[t].guard = "recent_success"
                       => task[t].status \in {"done", "archived"}

(* A counted failure that reaches the limit in force at that moment - the  *)
(* one the dispatcher names, or the task's own when a recovery names none, *)
(* however either was changed since - takes the task out of service: no    *)
(* link, deletion, edit, passing of time or second failure brings it back, *)
(* until an operator unblocks, promotes, reschedules or finishes it.       *)
ExhaustedNotRetried ==
    \A t \in Task : task[t].gaveup => task[t].status \in {"blocked", "archived"}

(* A running run owns its task.  README.md:714 says that administrative    *)
(* completion rejects a task with an active run.                           *)
NoOrphanRun == \A r \in Run : run[r].status = "running" => Active(r)

(* The only step that takes a task from a run and leaves the run running   *)
(* is the transaction of CompleteTask; every other administrative action   *)
(* refuses a task with an active run or ends the run.                      *)
OnlyCompletionOrphans ==
    [][\A r \in Run : Active(r) /\ run'[r].status = "running" /\ ~Active(r)'
          => run[r].task \in preflight \ preflight']_vars

(* A satisfied link keeps the completion it pinned until it is removed;    *)
(* an open one is satisfied only by the step that finishes its             *)
(* prerequisite.                                                           *)
HandoffsDurable ==
    [][\A p, c \in Task :
        /\ link[<<p, c>>] \in Pin => link'[<<p, c>>] \in {link[<<p, c>>], "absent"}
        /\ link[<<p, c>>] = "open" /\ link'[<<p, c>>] \in Pin =>
              task[p].status # "done" /\ task'[p].status = "done"]_vars

\* The prerequisites of a running task are the ones it was claimed with.
RunningPrerequisitesFrozen ==
    [][\A c \in Task : task[c].status = "running" /\ task'[c].status = "running"
          => \A p \in Task : link'[<<p, c>>] = link[<<p, c>>]]_vars

(* What a worker was given does not change under it: neither the completed *)
(* work a link handed on nor the prerequisites it was claimed with.        *)
HandoffsKept == HandoffsDurable /\ RunningPrerequisitesFrozen

(* A run that ended keeps its outcome, its request and its capture until   *)
(* its task is deleted: late calls with its token change nothing.          *)
EndedRunsFrozen ==
    [][\A r \in Run : run[r].status \in EndedStatus
          => run'[r] = run[r] \/ run'[r].status = "deleted"]_vars

(* No lost wake-up: the step that removes or satisfies the last open       *)
(* prerequisite of a waiting task makes it ready itself, or schedules it.  *)
LastPrerequisiteWakes ==
    [][\A c \in Task :
        /\ task[c].status = "todo" /\ HasOpenParents(link, c)
        /\ ~HasOpenParents(link', c) /\ task'[c].routed
        => task'[c].status \notin {"todo"}]_vars
=============================================================================
