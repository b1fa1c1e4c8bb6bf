-------------------------- MODULE TaskStoreProofs --------------------------
(***************************************************************************)
(* What holds of TaskStore for every set of tasks, runs and reasons.       *)
(***************************************************************************)
EXTENDS TaskStore, TLAPS

LEMMA CounterRanges == 0 \in Failures /\ 0 \in Recurrences /\ MaxRetries \in Retries
  BY RetryAssumption DEF Failures, Retries, Recurrences, BlockRecurrenceLimit

\* The values the model writes into enumerated columns.
LEMMA Members ==
  /\ {"done", "todo", "ready", "running", "scheduled", "blocked", "triage", "archived"}
       \subseteq TaskStatus
  /\ "absent" \notin TaskStatus
  /\ {"none", "past", "future"} \subseteq Schedule
  /\ {"none", "recent_success", "requeued", "blocker_auth"} \subseteq Guard
  /\ {"none", "needs_input"} \subseteq BlockKind
  /\ {"none", "complete", "block"} \subseteq Request
  /\ {"completed", "blocked"} \subseteq EndedStatus
  /\ EndedStatus \cup {"unused", "running", "deleted"} \subseteq RunStatus
  BY DEF TaskStatus, Schedule, Guard, BlockKind, Request, EndedStatus, RunStatus

(* How the status of a row may change in a step that neither creates,      *)
(* finishes nor deletes its task: `open' tells whether the task has an     *)
(* open prerequisite afterwards.                                           *)
Allowed(old, new, open) ==
    \/ new = old
    \/ new \notin {"absent", "done"} /\ (new \in {"ready", "running"} => ~open)

-----------------------------------------------------------------------------
(* What the operators that rewrite a task row return *)

\* Recording a rerun event changes no column but the guard.
LEMMA RequeuedRow ==
  ASSUME NEW row \in TaskRow
  PROVE  /\ Requeued(row) \in TaskRow
         /\ Requeued(row).status = row.status
         /\ Requeued(row).current = row.current
         /\ Requeued(row).completed = row.completed
         /\ Requeued(row).routed = row.routed
         /\ Requeued(row).sched = row.sched
  <1>1. CASE row.guard = "recent_success"
    <2>1. Requeued(row) = [row EXCEPT !.guard = "requeued"]
      BY <1>1 DEF Requeued
    <2> QED BY <2>1, Members DEF TaskRow
  <1>2. CASE row.guard # "recent_success"
    BY <1>2 DEF Requeued
  <1> QED BY <1>1, <1>2

\* recomputeReady moves a task between "todo", "ready" and "scheduled" only,
\* and never to "ready" while a prerequisite is open.
LEMMA RecomputedRow ==
  ASSUME NEW row \in TaskRow, NEW open \in BOOLEAN
  PROVE  /\ Recomputed(row, open) \in TaskRow
         /\ Recomputed(row, open).current = row.current
         /\ Recomputed(row, open).completed = row.completed
         /\ \/ Recomputed(row, open).status = row.status
            \/ /\ row.status \in {"todo", "ready", "scheduled"}
               /\ Recomputed(row, open).status \in {"todo", "ready", "scheduled"}
         /\ Recomputed(row, open).status = "ready" => ~open
  <1>1. CASE \/ row.status \notin {"todo", "ready", "scheduled"}
             \/ row.status = "scheduled" /\ row.sched \in {"none", "future"}
    BY <1>1 DEF Recomputed
  <1>2. CASE row.status \in {"todo", "ready"} /\ row.sched = "future"
    <2> DEFINE moved == [row EXCEPT !.status = "scheduled"]
    <2>1. moved \in TaskRow /\ moved.status = "scheduled" /\ moved.current = row.current
             /\ moved.completed = row.completed
      BY Members DEF TaskRow
    <2>2. Recomputed(row, open) = Requeued(moved)
      BY <1>2 DEF Recomputed
    <2> QED BY <1>2, <2>1, <2>2, RequeuedRow
  <1>3. CASE /\ row.status \in {"todo", "ready", "scheduled"}
             /\ ~(row.status = "scheduled" /\ row.sched \in {"none", "future"})
             /\ ~(row.status \in {"todo", "ready"} /\ row.sched = "future")
    <2>1. Recomputed(row, open) = [row EXCEPT !.status =
                      IF open \/ ~row.routed THEN "todo" ELSE "ready"]
      BY <1>3 DEF Recomputed
    <2> QED BY <1>3, <2>1, Members DEF TaskRow
  <1> QED BY <1>1, <1>2, <1>3

\* Completing a task clears its owner and everything a retry would count.
LEMMA FinishedRow ==
  ASSUME NEW row \in TaskRow, NEW pin \in Pin
  PROVE  /\ Finished(row, pin) \in TaskRow
         /\ Finished(row, pin).status = "done"
         /\ Finished(row, pin).current = None
  <1>1. /\ 0 \in Failures /\ 0 \in Recurrences /\ FALSE \in BOOLEAN /\ "done" \in TaskStatus
        /\ "none" \in Schedule /\ "none" \in BlockKind
    BY CounterRanges, Members
  <1>2. Finished(row, pin) \in TaskRow
    BY <1>1 DEF Finished, TaskRow
  <1>3. Finished(row, pin).status = "done" /\ Finished(row, pin).current = None
    BY DEF Finished, TaskRow
  <1> QED BY <1>2, <1>3

LEMMA LinkedRow ==
  ASSUME NEW row \in TaskRow, NEW pin, NEW open \in BOOLEAN
  PROVE  /\ Linked(row, pin, open) \in TaskRow
         /\ Linked(row, pin, open).current = row.current
         /\ \/ Linked(row, pin, open).status = row.status
            \/ /\ row.status \in {"todo", "ready", "scheduled", "done"}
               /\ Linked(row, pin, open).status \in {"todo", "ready", "scheduled"}
         /\ Linked(row, pin, open).status = "ready" => ~open
         /\ pin = "open" => Linked(row, pin, open).status # "done"
  <1> DEFINE reopened == [row EXCEPT !.status = "todo", !.kind = "none",
                                     !.reason = None, !.recur = 0]
  <1>1. /\ reopened \in TaskRow /\ reopened.status = "todo"
        /\ reopened.current = row.current
    BY CounterRanges, Members DEF TaskRow
  <1>2. CASE pin = "open" /\ row.status = "done"
    <2>1. Linked(row, pin, open) = Recomputed(Requeued(reopened), open)
      BY <1>2 DEF Linked
    <2>2. /\ Requeued(reopened) \in TaskRow /\ Requeued(reopened).status = "todo"
          /\ Requeued(reopened).current = row.current
      BY <1>1, RequeuedRow
    <2> HIDE DEF reopened
    <2> QED BY <1>2, <2>1, <2>2, RecomputedRow
  <1>3. CASE ~(pin = "open" /\ row.status = "done")
    <2>1. Linked(row, pin, open) = Recomputed(row, open)
      BY <1>3 DEF Linked
    <2> QED BY <1>3, <2>1, RecomputedRow
  <1> QED BY <1>2, <1>3

LEMMA BumpCount ==
  ASSUME NEW row \in TaskRow, NEW kind, NEW reason
  PROVE  Bump(row, kind, reason) \in Recurrences
  <1>1. row.recur \in Recurrences
    BY DEF TaskRow
  <1> QED BY <1>1 DEF Bump, Recurrences, BlockRecurrenceLimit

LEMMA BlockedRow ==
  ASSUME NEW row \in TaskRow, NEW kind \in BlockKind, NEW reason \in Reason \cup {None}
  PROVE  /\ Blocked(row, kind, reason) \in TaskRow
         /\ Blocked(row, kind, reason).current = None
         /\ Blocked(row, kind, reason).status \in {"todo", "triage", "blocked"}
  <1> DEFINE recur == Bump(row, kind, reason)
             held == [row EXCEPT !.current = None, !.sched = "none",
                                 !.kind = kind, !.reason = reason]
             status == IF recur >= BlockRecurrenceLimit /\ row.recur > 0
                       THEN "triage" ELSE "blocked"
  <1>1. recur \in Recurrences
    BY BumpCount
  <1>2. held \in TaskRow /\ held.current = None
    BY Members DEF TaskRow
  <1>3. Blocked(row, kind, reason) =
           IF kind = "dependency" THEN [held EXCEPT !.status = "todo"]
           ELSE [held EXCEPT !.recur = recur, !.status = status]
    BY DEF Blocked
  <1>4. status \in {"triage", "blocked"}
    OBVIOUS
  <1> HIDE DEF recur, held, status
  <1>5. CASE kind = "dependency"
    BY <1>2, <1>3, <1>5, Members DEF TaskRow
  <1>6. CASE kind # "dependency"
    <2>1. Blocked(row, kind, reason) = [held EXCEPT !.recur = recur, !.status = status]
      BY <1>3, <1>6
    <2>2. status \in TaskStatus
      BY <1>4, Members
    <2>3. [held EXCEPT !.recur = recur, !.status = status] \in TaskRow
      BY <1>1, <1>2, <2>2 DEF TaskRow
    <2> QED BY <1>2, <1>4, <2>1, <2>3 DEF TaskRow
  <1> QED BY <1>5, <1>6

\* A row that failed is unowned and not "ready" under an open prerequisite.
LEMMA FailedRow ==
  ASSUME NEW row \in TaskRow, NEW open, NEW counted \in BOOLEAN, NEW cooldown,
         NEW reason \in Reason, NEW limit
  PROVE  /\ Failed(row, open, counted, cooldown, reason, limit) \in TaskRow
         /\ Failed(row, open, counted, cooldown, reason, limit).current = None
         /\ Failed(row, open, counted, cooldown, reason, limit).status
               \in {"blocked", "scheduled", "todo", "ready"}
         /\ Failed(row, open, counted, cooldown, reason, limit).status = "ready" => ~open
  <1> DEFINE exhausted == GivesUp(row, counted, limit)
             failures == IF counted /\ row.failures < MaxRetries
                         THEN row.failures + 1 ELSE row.failures
             sched == IF ~exhausted /\ cooldown THEN "future" ELSE "none"
             why == IF exhausted THEN reason ELSE row.reason
             status == IF exhausted THEN "blocked"
                       ELSE IF cooldown THEN "scheduled"
                       ELSE IF open \/ ~row.routed THEN "todo" ELSE "ready"
  <1>1. failures \in Failures
    <2>1. row.failures \in Failures
      BY DEF TaskRow
    <2> QED BY <2>1, RetryAssumption DEF Failures
  <1>2. sched \in Schedule /\ why \in Reason \cup {None}
    BY Members DEF TaskRow
  <1>3. status \in {"blocked", "scheduled", "todo", "ready"} /\ (status = "ready" => ~open)
    OBVIOUS
  <1>4. GuardAfter(reason) \in Guard
    BY Members DEF GuardAfter
  <1>5. Failed(row, open, counted, cooldown, reason, limit) =
           [row EXCEPT !.current = None, !.failures = failures, !.gaveup = exhausted,
                       !.sched = sched, !.reason = why, !.guard = GuardAfter(reason), !.status = status]
    BY DEF Failed
  <1>6. status \in TaskStatus
    BY Members
  <1>9. exhausted \in BOOLEAN
    BY DEF GivesUp
  <1> HIDE DEF exhausted, failures, sched, why, status
  <1>7. [row EXCEPT !.current = None, !.failures = failures, !.gaveup = exhausted,
                    !.sched = sched, !.reason = why, !.guard = GuardAfter(reason), !.status = status]
           \in TaskRow
    BY <1>1, <1>2, <1>4, <1>6, <1>9 DEF TaskRow
  <1>8. /\ Failed(row, open, counted, cooldown, reason, limit).status = status
        /\ Failed(row, open, counted, cooldown, reason, limit).current = None
    BY <1>5 DEF TaskRow
  <1> QED BY <1>3, <1>5, <1>7, <1>8

LEMMA AbsentRow == Absent \in TaskRow
  BY CounterRanges, Members DEF Absent, TaskRow

LEMMA UnusedRow == Unused \in RunRow
  BY DEF Unused, RunRow, RunStatus, BlockKind, WorkspaceKind, Request, ReclaimIntent

\* A run that starts, or is recorded as already ended, on a task.
LEMMA NewRunRow ==
  ASSUME NEW t \in Task, NEW status \in EndedStatus \cup {"running"}, NEW human \in BOOLEAN
  PROVE  /\ NewRun(t, status, human) \in RunRow
         /\ NewRun(t, status, human).status = status
         /\ NewRun(t, status, human).task = t
  <1>1. status \in RunStatus
    BY DEF RunStatus
  <1> QED BY <1>1, UnusedRow DEF NewRun, RunRow

-----------------------------------------------------------------------------
(* Type correctness *)

LEMMA OpenIsBoolean ==
  ASSUME NEW l, NEW t
  PROVE  HasOpenParents(l, t) \in BOOLEAN
  BY DEF HasOpenParents

-----------------------------------------------------------------------------
(* The ways in which one step can change who owns what.  Every invariant   *)
(* about ownership is proved from this classification of the steps.        *)

OwnerKept(t) == /\ task'[t].current = task[t].current
                /\ task'[t].status = "running" <=> task[t].status = "running"
RunKept(r) == run'[r].status = run[r].status /\ run'[r].task = run[r].task
Freed(t) == task'[t].current = None /\ task'[t].status # "running"

Quiet == (\A t \in Task : OwnerKept(t)) /\ (\A r \in Run : RunKept(r))

Claims(t, r) ==
    /\ task[t].current = None /\ run[r].status = "unused"
    /\ task'[t].status = "running" /\ task'[t].current = r
    /\ run'[r].status = "running" /\ run'[r].task = t
    /\ \A u \in Task \ {t} : OwnerKept(u)
    /\ \A q \in Run \ {r} : RunKept(q)

Ends(t, r) ==
    /\ Active(r) /\ run[r].task = t
    /\ Freed(t)
    /\ run'[r].status \in EndedStatus /\ run'[r].task = t
    /\ \A u \in Task \ {t} : OwnerKept(u)
    /\ \A q \in Run \ {r} : RunKept(q)

Unowned(t) == task[t].current = None \/ task[t].status # "running"

(* An administrative outcome of t, with the runs S recorded as already      *)
(* ended; only the transaction of CompleteTask takes t from a run.          *)
Settles(t, S) ==
    /\ Unowned(t) \/ t \in preflight \ preflight'
    /\ Freed(t)
    /\ \A r \in S : run[r].status = "unused" /\ run'[r].status \in EndedStatus
    /\ \A u \in Task \ {t} : OwnerKept(u)
    /\ \A q \in Run \ S : RunKept(q)

Deletes(t) ==
    /\ task[t].current = None /\ task'[t].status = "absent"
    /\ Freed(t)
    /\ \A r \in Run : IF run[r].task = t THEN run'[r].status = "deleted" ELSE RunKept(r)
    /\ \A u \in Task \ {t} : OwnerKept(u)

-----------------------------------------------------------------------------
(* The ways in which one step can change links and statuses                *)

StatusAllowed(t) == Allowed(task[t].status, task'[t].status, HasOpenParents(link', t))

\* The links stay; no task is created, finished, deleted or wrongly readied.
Steady == link' = link /\ \A t \in Task : StatusAllowed(t)

\* p is finished by the completion pin.
Completes(p, pin) ==
    /\ link' = Satisfied(link, p, pin)
    /\ task[p].status \notin {"absent", "done"} /\ task'[p].status = "done"
    /\ pin \in Pin /\ ValidPin(p, pin)'
    /\ \A t \in Task \ {p} : StatusAllowed(t)

\* The links D are removed; a deleted task has no other links.
Drops(D) ==
    /\ link' = [e \in Edge |-> IF e \in D THEN "absent" ELSE link[e]]
    /\ \A p, c \in Task : <<p, c>> \in D /\ link[<<p, c>>] # "absent" =>
          task[c].status # "running" \/ task'[c].status # "running"
    /\ \A t \in Task : \/ StatusAllowed(t)
                       \/ /\ task'[t].status = "absent"
                          /\ \A u \in Task : {<<t, u>>, <<u, t>>} \subseteq D

\* The links and the status that CreateTask and LinkTasks write.
CreatedLinks(t, parents) ==
    [e \in Edge |-> IF e[2] = t /\ e[1] \in parents THEN Satisfaction(e[1]) ELSE link[e]]

Creates(t, parents) ==
    /\ ~Present(t) /\ parents \subseteq Task \ {t}
    /\ \A p \in parents : Present(p) /\ ValidPin(p, Satisfaction(p))
    /\ link' = CreatedLinks(t, parents)
    /\ task'[t].status \notin {"absent", "running"}
    /\ task'[t].status = "ready" => parents = {} \/ ~HasOpenParents(link', t)
    /\ \A u \in Task \ {t} : task'[u] = task[u]

Links(p, c) ==
    /\ Present(p) /\ Present(c) /\ task[c].status # "running"
    /\ link[<<p, c>>] = "absent" /\ ~Reaches(link, c, p)
    /\ ValidPin(p, Satisfaction(p))
    /\ link' = [link EXCEPT ![<<p, c>>] = Satisfaction(p)]
    /\ StatusAllowed(c)
    /\ task'[c].status = "ready" => ~HasOpenParents(link', c)
    /\ \A u \in Task \ {c} : task'[u] = task[u]

\* Finishing p rewrites p, pins its open links and recomputes its dependents.
LEMMA CompleteWithEffect ==
  ASSUME TypeOK, NEW p \in Task, NEW row \in TaskRow, NEW pin \in Pin,
         CompleteWith(p, row, pin)
  PROVE  /\ task' \in [Task -> TaskRow]
         /\ link' \in [Edge -> Pin \cup {"absent", "open"}]
         /\ link' = Satisfied(link, p, pin)
         /\ task'[p] = row
         /\ \A t \in Task \ {p} : OwnerKept(t) /\ StatusAllowed(t)
  <1> DEFINE l == Satisfied(link, p, pin)
  <1>1. /\ link' = l
        /\ task' = [t \in Task |->
              IF t = p THEN row
              ELSE IF link[<<p, t>>] = "open"
                   THEN Recomputed(task[t], HasOpenParents(l, t))
                   ELSE task[t]]
    BY DEF CompleteWith
  <1>2. l \in [Edge -> Pin \cup {"absent", "open"}]
    BY DEF TypeOK, Satisfied
  <1> HIDE DEF l
  <1>3. ASSUME NEW t \in Task \ {p}
        PROVE  /\ task'[t] \in TaskRow
               /\ OwnerKept(t)
               /\ Allowed(task[t].status, task'[t].status, HasOpenParents(l, t))
    <2>1. task[t] \in TaskRow /\ HasOpenParents(l, t) \in BOOLEAN
      BY OpenIsBoolean DEF TypeOK
    <2>2. CASE link[<<p, t>>] = "open"
      <3>1. task'[t] = Recomputed(task[t], HasOpenParents(l, t))
        BY <1>1, <2>2
      <3> QED BY <2>1, <3>1, RecomputedRow DEF OwnerKept, Allowed
    <2>3. CASE link[<<p, t>>] # "open"
      <3>1. task'[t] = task[t]
        BY <1>1, <2>3
      <3> QED BY <2>1, <3>1 DEF OwnerKept, Allowed
    <2> QED BY <2>2, <2>3
  <1>4. task'[p] = row
    BY <1>1
  <1>5. task' \in [Task -> TaskRow]
    <2>1. \A t \in Task : task'[t] \in TaskRow
      BY <1>3, <1>4
    <2> QED BY <1>1, <2>1
  <1>6. \A t \in Task \ {p} : OwnerKept(t) /\ StatusAllowed(t)
    BY <1>1, <1>3 DEF StatusAllowed
  <1> QED BY <1>1, <1>2, <1>4, <1>5, <1>6 DEF l

\* A step that rewrites one task row and neither gives nor takes ownership.
LEMMA RowUpdate ==
  ASSUME TypeOK, NEW t \in Task, NEW row \in TaskRow,
         row.current = task[t].current,
         row.status = "running" <=> task[t].status = "running",
         Allowed(task[t].status, row.status, HasOpenParents(link, t)),
         task' = [task EXCEPT ![t] = row], UNCHANGED <<run, link, preflight>>
  PROVE  TypeOK' /\ Quiet /\ Steady
  <1>1. TypeOK' /\ Quiet
    BY DEF TypeOK, Quiet, OwnerKept, RunKept
  <1>2. Steady
    BY DEF TypeOK, Steady, StatusAllowed, Allowed
  <1> QED BY <1>1, <1>2

\* A step that rewrites one run row and neither starts nor ends the run.
LEMMA RunUpdate ==
  ASSUME TypeOK, NEW r \in Run, NEW row \in RunRow,
         row.status = run[r].status, row.task = run[r].task,
         run' = [run EXCEPT ![r] = row], UNCHANGED <<task, link, preflight>>
  PROVE  TypeOK' /\ Quiet /\ Steady
  <1>1. TypeOK' /\ Quiet
    BY DEF TypeOK, Quiet, OwnerKept, RunKept
  <1>2. Steady
    BY DEF Steady, StatusAllowed, Allowed
  <1> QED BY <1>1, <1>2

\* A step that takes a run from its task with the given outcome.
LEMMA EndUpdate ==
  ASSUME TypeOK, NEW r \in Run, NEW row \in TaskRow, NEW ended \in RunRow,
         Active(r), row.current = None, row.status # "running",
         Allowed(task[run[r].task].status, row.status, HasOpenParents(link, run[r].task)),
         ended.status \in EndedStatus, ended.task = run[r].task,
         task' = [task EXCEPT ![run[r].task] = row],
         run' = [run EXCEPT ![r] = ended], UNCHANGED <<link, preflight>>
  PROVE  TypeOK' /\ Steady /\ \E t \in Task : Ends(t, r)
  <1> DEFINE t == run[r].task
  <1>1. t \in Task
    BY DEF Active
  <1>2. TypeOK'
    BY <1>1 DEF TypeOK
  <1>3. Ends(t, r)
    BY <1>1 DEF TypeOK, Ends, Freed, OwnerKept, RunKept
  <1>4. Steady
    BY <1>1 DEF TypeOK, Steady, StatusAllowed, Allowed
  <1> QED BY <1>1, <1>2, <1>3, <1>4

-----------------------------------------------------------------------------
(* Steps of the dispatcher and of workers *)

LEMMA ClaimStep ==
  ASSUME TypeOK, NEW t \in Task, NEW r \in Run, ClaimTask(t, r)
  PROVE  TypeOK' /\ Claims(t, r) /\ Steady
  <1> DEFINE claimed == Claimed(task[t], r)
             fresh == NewRun(t, "running", FALSE)
  <1>1. PICK demoted \in SUBSET {c \in Task : Candidate(c) /\ HasOpenParents(link, c)} :
           task' = [c \in Task |->
              IF c = t THEN Claimed(task[c], r)
              ELSE IF c \in demoted THEN Demoted(task[c]) ELSE task[c]]
    BY DEF ClaimTask
  <1>2. claimed \in TaskRow /\ claimed.status = "running" /\ claimed.current = r
    <2>1. task[t] \in TaskRow /\ "running" \in TaskStatus
      BY Members DEF TypeOK
    <2> QED BY <2>1 DEF TaskRow, Claimed
  <1>3. fresh \in RunRow /\ fresh.status = "running" /\ fresh.task = t
    BY NewRunRow
  <1> HIDE DEF claimed, fresh
  <1>4. ASSUME NEW c \in Task \ {t}
        PROVE  /\ task'[c] \in TaskRow /\ OwnerKept(c)
               /\ task'[c].status \in {task[c].status, "todo"}
    <2>0. task[c] \in TaskRow /\ "todo" \in TaskStatus
      BY Members DEF TypeOK
    <2>1. CASE c \in demoted
      <3>1. task'[c] = Demoted(task[c]) /\ task[c].status = "ready"
        BY <1>1, <2>1 DEF Candidate
      <3> QED BY <2>0, <3>1 DEF TaskRow, OwnerKept, Demoted
    <2>2. CASE c \notin demoted
      <3>1. task'[c] = task[c]
        BY <1>1, <2>2
      <3> QED BY <2>0, <3>1 DEF OwnerKept
    <2> QED BY <2>1, <2>2
  <1>5. task'[t] = claimed /\ task' \in [Task -> TaskRow]
    <2>1. task'[t] = claimed
      BY <1>1 DEF claimed
    <2>2. \A c \in Task : task'[c] \in TaskRow
      BY <1>2, <1>4, <2>1
    <2> QED BY <1>1, <2>1, <2>2
  <1>6. /\ run' = [run EXCEPT ![r] = fresh] /\ UNCHANGED <<link, preflight>>
        /\ task[t].current = None /\ run[r].status = "unused"
    BY DEF ClaimTask, Candidate, fresh
  <1>7. TypeOK'
    BY <1>3, <1>5, <1>6 DEF TypeOK
  <1>8. Claims(t, r)
    BY <1>2, <1>3, <1>4, <1>5, <1>6 DEF TypeOK, Claims, RunKept
  <1>9. Steady
    <2>1. link' = link /\ ~HasOpenParents(link, t)
      BY DEF ClaimTask
    <2> QED BY <1>2, <1>4, <1>5, <2>1 DEF Steady, StatusAllowed, Allowed
  <1> QED BY <1>7, <1>8, <1>9

LEMMA DiscardedRow ==
  ASSUME NEW row \in RunRow
  PROVE  /\ Discarded(row) \in RunRow
         /\ Discarded(row).status = row.status
         /\ Discarded(row).task = row.task
  <1>1. "none" \in Request /\ "none" \in BlockKind
    BY Members
  <1>2. CASE row.finalized
    BY <1>2 DEF Discarded
  <1>3. CASE ~row.finalized
    <2>1. Discarded(row) = [row EXCEPT !.request = "none", !.kind = "none",
                                       !.reason = None]
      BY <1>3 DEF Discarded
    <2> QED BY <1>1, <2>1 DEF RunRow
  <1> QED BY <1>2, <1>3

\* Steps of an active run that neither give nor take its task.
LEMMA LaunchStep ==
  ASSUME TypeOK, NEW r \in Run,
         \/ MarkRunManaged(r) \/ RecordSpawn(r) \/ PauseGoalRun(r)
         \/ \E kind \in Workspaces : BindRunWorkspace(r, kind)
  PROVE  TypeOK' /\ Quiet /\ Steady
  <1> DEFINE Same(row) == /\ row \in RunRow /\ row.status = run[r].status
                         /\ row.task = run[r].task
  <1>1. run[r] \in RunRow
    BY DEF TypeOK
  <1>3. CASE MarkRunManaged(r)
    <2> DEFINE row == [run[r] EXCEPT !.managed = TRUE]
    <2>1. Same(row)
      BY <1>1 DEF RunRow
    <2>2. run' = [run EXCEPT ![r] = row] /\ UNCHANGED <<task, link, preflight>>
      BY <1>3 DEF MarkRunManaged
    <2> QED BY <2>1, <2>2, RunUpdate
  <1>4. ASSUME NEW kind \in Workspaces, BindRunWorkspace(r, kind)
        PROVE  TypeOK' /\ Quiet /\ Steady
    <2> DEFINE row == [run[r] EXCEPT !.workspace = kind]
    <2>1. kind \in WorkspaceKind
      BY InputAssumption DEF WorkspaceKind
    <2>2. Same(row)
      BY <1>1, <2>1 DEF RunRow
    <2> HIDE DEF row
    <2>3. run' = [run EXCEPT ![r] = row] /\ UNCHANGED <<task, link, preflight>>
      BY <1>4 DEF BindRunWorkspace, row
    <2> QED BY <2>2, <2>3, RunUpdate
  <1>5. ASSUME NEW pid \in BOOLEAN, run' = [run EXCEPT ![r].pid = pid],
               UNCHANGED <<task, link, preflight>>
        PROVE  TypeOK' /\ Quiet /\ Steady
    <2> DEFINE row == [run[r] EXCEPT !.pid = pid]
    <2>1. Same(row)
      BY <1>1 DEF RunRow
    <2> HIDE DEF row
    <2>2. run' = [run EXCEPT ![r] = row]
      BY <1>5 DEF row
    <2> QED BY <1>5, <2>1, <2>2, RunUpdate
  <1>6. CASE RecordSpawn(r)
    BY <1>5, <1>6 DEF RecordSpawn
  <1>7. CASE PauseGoalRun(r)
    BY <1>5, <1>7 DEF PauseGoalRun
  <1> QED BY <1>3, <1>4, <1>6, <1>7

LEMMA BlockRequestStep ==
  ASSUME TypeOK, NEW r \in Run, NEW kind \in Kinds, NEW reason \in Reason,
         RequestRunBlock(r, kind, reason)
  PROVE  TypeOK' /\ Quiet /\ Steady
  <1> DEFINE row == [run[r] EXCEPT !.request = "block", !.kind = kind, !.reason = reason]
  <1>1. run[r] \in RunRow /\ kind \in BlockKind
    BY InputAssumption DEF TypeOK
  <1>2. row \in RunRow /\ row.status = run[r].status /\ row.task = run[r].task
    BY <1>1, Members DEF RunRow
  <1>3. run' = [run EXCEPT ![r] = row] /\ UNCHANGED <<task, link, preflight>>
    BY DEF RequestRunBlock
  <1> HIDE DEF row
  <1> QED BY <1>2, <1>3, RunUpdate

\* Writing, discarding or documenting a terminal request, or an intent to
\* reclaim, leaves the run running and its task owned.
LEMMA RequestStep ==
  ASSUME TypeOK, NEW r \in Run,
         \/ RequestRunCompletion(r)
         \/ \E kind \in Kinds, reason \in Reason : RequestRunBlock(r, kind, reason)
         \/ DiscardRunTerminalRequest(r) \/ RecordRunChangeSet(r)
         \/ \E outcome \in {"reclaimed", "timed_out"} : DeferRunRecovery(r, outcome)
  PROVE  TypeOK' /\ Quiet /\ Steady
  <1> DEFINE Same(row) == /\ row \in RunRow /\ row.status = run[r].status
                          /\ row.task = run[r].task
  <1>1. run[r] \in RunRow
    BY DEF TypeOK
  <1>2. ASSUME NEW row, Same(row), run' = [run EXCEPT ![r] = row],
               UNCHANGED <<task, link, preflight>>
        PROVE  TypeOK' /\ Quiet /\ Steady
    BY <1>2, RunUpdate
  <1>3. CASE RequestRunCompletion(r)
    <2> DEFINE row == [run[r] EXCEPT !.request = "complete"]
    <2>1. Same(row)
      BY <1>1, Members DEF RunRow
    <2>2. run' = [run EXCEPT ![r] = row] /\ UNCHANGED <<task, link, preflight>>
      BY <1>3 DEF RequestRunCompletion
    <2> QED BY <1>2, <2>1, <2>2
  <1>4. ASSUME NEW kind \in Kinds, NEW reason \in Reason, RequestRunBlock(r, kind, reason)
        PROVE  TypeOK' /\ Quiet /\ Steady
    BY <1>4, BlockRequestStep
  <1>5. CASE DiscardRunTerminalRequest(r)
    <2>1. Same(Discarded(run[r]))
      BY <1>1, DiscardedRow
    <2>2. /\ run' = [run EXCEPT ![r] = Discarded(run[r])]
          /\ UNCHANGED <<task, link, preflight>>
      BY <1>5 DEF DiscardRunTerminalRequest
    <2> QED BY <1>2, <2>1, <2>2
  <1>6. CASE RecordRunChangeSet(r)
    <2> DEFINE row == [run[r] EXCEPT !.captured = TRUE]
    <2>1. Same(row)
      BY <1>1 DEF RunRow
    <2>2. run' = [run EXCEPT ![r] = row] /\ UNCHANGED <<task, link, preflight>>
      BY <1>6 DEF RecordRunChangeSet
    <2> QED BY <1>2, <2>1, <2>2
  <1>7. ASSUME NEW outcome \in {"reclaimed", "timed_out"}, DeferRunRecovery(r, outcome)
        PROVE  TypeOK' /\ Quiet /\ Steady
    <2> DEFINE row == [run[r] EXCEPT !.reclaim = outcome]
    <2>1. Same(row)
      BY <1>1 DEF RunRow, ReclaimIntent
    <2>2. run' = [run EXCEPT ![r] = row] /\ UNCHANGED <<task, link, preflight>>
      BY <1>7 DEF DeferRunRecovery
    <2> QED BY <1>2, <2>1, <2>2
  <1> QED BY <1>3, <1>4, <1>5, <1>6, <1>7

LEMMA FinalizeStep ==
  ASSUME TypeOK, NEW r \in Run, FinalizeRunTerminal(r)
  PROVE  /\ TypeOK' /\ \E t \in Task : Ends(t, r)
         /\ Steady \/ \E t \in Task : Completes(t, r)
  <1>0. /\ Active(r) /\ run[r] \in RunRow
        /\ run[r].task \in Task
    BY DEF FinalizeRunTerminal, FinalizeCompletion, FinalizeBlock, Active, TypeOK
  <1> PICK t \in Task : t = run[r].task
    BY <1>0
  <1>1. /\ Active(r) /\ t \in Task /\ task[t] \in TaskRow /\ run[r] \in RunRow
        /\ run[r].task = t
    BY <1>0 DEF TypeOK
  <1>2. CASE FinalizeCompletion(r)
    <2> DEFINE row == [Finished(task[t], r) EXCEPT !.guard = "recent_success"]
               ended == [run[r] EXCEPT !.status = "completed", !.finalized = TRUE]
    <2>1. row \in TaskRow /\ row.status = "done" /\ row.current = None
      <3>1. r \in Pin
        BY DEF Pin
      <3> QED BY <1>1, <3>1, FinishedRow, Members DEF TaskRow
    <2>2. ended \in RunRow /\ ended.status = "completed" /\ ended.task = t
      BY <1>1, Members DEF RunRow
    <2>3. /\ run' = [run EXCEPT ![r] = ended] /\ UNCHANGED preflight
          /\ CompleteWith(t, row, r)
      BY <1>2 DEF FinalizeCompletion
    <2> HIDE DEF row, ended
    <2>4. /\ task' \in [Task -> TaskRow]
          /\ link' \in [Edge -> Pin \cup {"absent", "open"}]
          /\ link' = Satisfied(link, t, r)
          /\ task'[t] = row
          /\ \A u \in Task \ {t} : OwnerKept(u) /\ StatusAllowed(u)
      BY <1>1, <2>1, <2>3, CompleteWithEffect DEF Pin
    <2>5. TypeOK'
      BY <2>2, <2>3, <2>4 DEF TypeOK
    <2>6. Ends(t, r)
      <3>1. Freed(t)
        BY <2>1, <2>4 DEF Freed
      <3>2. \A u \in Task \ {t} : OwnerKept(u)
        BY <2>4
      <3>3. /\ run'[r] = ended /\ \A q \in Run \ {r} : RunKept(q)
        BY <2>3 DEF TypeOK, RunKept
      <3>4. Active(r) /\ run[r].task = t
        BY <1>1
      <3> QED BY <2>2, <3>1, <3>2, <3>3, <3>4, Members DEF Ends
    <2>7. Completes(t, r)
      <3>1. task[t].status = "running"
        BY <1>1 DEF Active
      <3>2. ValidPin(t, r)'
        <4>1. run'[r] = ended
          BY <2>3 DEF TypeOK
        <4> QED BY <2>2, <4>1 DEF ValidPin
      <3> QED BY <2>1, <2>4, <3>1, <3>2 DEF Completes, Pin
    <2> QED BY <1>1, <2>5, <2>6, <2>7
  <1>3. CASE FinalizeBlock(r)
    <2> DEFINE blocked == Blocked(task[t], run[r].kind, run[r].reason)
               row == [blocked EXCEPT !.guard = GuardAfter(run[r].reason)]
               ended == [run[r] EXCEPT !.status = "blocked", !.finalized = TRUE]
    <2>1. run[r].kind \in BlockKind /\ run[r].reason \in Reason \cup {None}
      BY <1>1 DEF RunRow
    <2>2. /\ blocked \in TaskRow /\ blocked.current = None
          /\ blocked.status \in {"todo", "triage", "blocked"}
      BY <1>1, <2>1, BlockedRow
    <2>3. GuardAfter(run[r].reason) \in Guard
      BY Members DEF GuardAfter
    <2> HIDE DEF blocked
    <2>4. /\ row \in TaskRow /\ row.current = None /\ row.status # "running"
          /\ Allowed(task[t].status, row.status, HasOpenParents(link, t))
      BY <2>2, <2>3 DEF TaskRow, Allowed
    <2>5. ended \in RunRow /\ ended.status \in EndedStatus /\ ended.task = t
      BY <1>1, Members DEF RunRow
    <2>6. /\ run' = [run EXCEPT ![r] = ended] /\ task' = [task EXCEPT ![t] = row]
          /\ UNCHANGED <<link, preflight>>
      BY <1>3 DEF FinalizeBlock, blocked
    <2> HIDE DEF row, ended
    <2> QED BY <1>1, <2>4, <2>5, <2>6, EndUpdate
  <1> QED BY <1>2, <1>3 DEF FinalizeRunTerminal

LEMMA FailStep ==
  ASSUME TypeOK, NEW r \in Run, NEW outcome \in Outcomes, NEW counted \in BOOLEAN,
         NEW cooldown \in BOOLEAN, NEW reason \in Reason, NEW limit \in Failures,
         FinishUnsuccessful(r, outcome, counted, cooldown, reason, limit)
  PROVE  TypeOK' /\ Steady /\ \E t \in Task : Ends(t, r)
  <1> DEFINE t == run[r].task
             open == HasOpenParents(link, t)
             row == Failed(task[t], open, counted, cooldown, reason, limit)
             discarded == Discarded(run[r])
             ended == [discarded EXCEPT !.status = outcome]
  <1>1. /\ Active(r) /\ t \in Task /\ task[t] \in TaskRow /\ run[r] \in RunRow
    BY DEF FinishUnsuccessful, Active, TypeOK
  <1>2. /\ row \in TaskRow /\ row.current = None /\ row.status # "running"
        /\ Allowed(task[t].status, row.status, open)
    <2>1. task[t] \in TaskRow /\ open \in BOOLEAN
      BY <1>1, OpenIsBoolean
    <2> HIDE DEF open
    <2>2. /\ row \in TaskRow /\ row.current = None
          /\ row.status \in {"blocked", "scheduled", "todo", "ready"}
          /\ row.status = "ready" => ~open
      BY <2>1, FailedRow
    <2> HIDE DEF row
    <2> QED BY <2>2 DEF Allowed
  <1>3. outcome \in EndedStatus /\ outcome \in RunStatus
    BY InputAssumption, Members DEF EndedStatus
  <1>4. discarded \in RunRow /\ discarded.task = t
    BY <1>1, DiscardedRow
  <1> HIDE DEF discarded
  <1>5. ended \in RunRow /\ ended.status = outcome /\ ended.task = t
    BY <1>3, <1>4 DEF RunRow
  <1>6. /\ run' = [run EXCEPT ![r] = ended] /\ task' = [task EXCEPT ![t] = row]
        /\ UNCHANGED <<link, preflight>>
    BY DEF FinishUnsuccessful, discarded
  <1> HIDE DEF row, ended
  <1> QED BY <1>1, <1>2, <1>3, <1>5, <1>6, EndUpdate

LEMMA RecoverBlockedStep ==
  ASSUME TypeOK, NEW r \in Run, NEW outcome \in Outcomes \cup {"blocked"},
         NEW kind \in Kinds, NEW reason \in Reason,
         RecoverRunBlocked(r, outcome, kind, reason)
  PROVE  TypeOK' /\ Steady /\ \E t \in Task : Ends(t, r)
  <1> DEFINE t == run[r].task
             k == IF kind = "none" THEN "needs_input" ELSE kind
             recur == Bump(task[t], k, reason)
             row == [task[t] EXCEPT
                       !.status = "blocked", !.current = None, !.sched = "none",
                       !.kind = k, !.reason = reason, !.recur = recur,
                       !.guard = GuardAfter(reason)]
             discarded == Discarded(run[r])
             ended == [discarded EXCEPT !.status = outcome]
  <1>1. /\ Active(r) /\ t \in Task /\ task[t] \in TaskRow /\ run[r] \in RunRow
    BY DEF RecoverRunBlocked, Active, TypeOK
  <1>2. /\ run' = [run EXCEPT ![r] = ended] /\ task' = [task EXCEPT ![t] = row]
        /\ UNCHANGED <<link, preflight>>
    BY DEF RecoverRunBlocked
  <1>3. k \in BlockKind
    BY InputAssumption, Members
  <1>4. recur \in Recurrences /\ GuardAfter(reason) \in Guard
    BY <1>1, BumpCount, Members DEF GuardAfter
  <1> HIDE DEF k, recur
  <1>5. /\ row \in TaskRow /\ row.current = None /\ row.status # "running"
        /\ Allowed(task[t].status, row.status, HasOpenParents(link, t))
    BY <1>1, <1>3, <1>4, Members DEF TaskRow, Allowed
  <1>6. outcome \in EndedStatus /\ outcome \in RunStatus
    BY InputAssumption, Members DEF EndedStatus
  <1>7. discarded \in RunRow /\ discarded.task = t
    BY <1>1, DiscardedRow
  <1> HIDE DEF discarded
  <1>8. ended \in RunRow /\ ended.status = outcome /\ ended.task = t
    BY <1>6, <1>7 DEF RunRow
  <1> HIDE DEF row, ended
  <1> QED BY <1>1, <1>2, <1>5, <1>6, <1>8, EndUpdate

-----------------------------------------------------------------------------
(* Steps of operators and of the clock *)

\* A step that rewrites the row of a task that no run owns.
LEMMA SettleUpdate ==
  ASSUME TypeOK, NEW t \in Task, NEW row \in TaskRow,
         Unowned(t), row.current = None, row.status # "running",
         Allowed(task[t].status, row.status, HasOpenParents(link, t)),
         task' = [task EXCEPT ![t] = row], UNCHANGED <<run, link, preflight>>
  PROVE  TypeOK' /\ Settles(t, {}) /\ Steady
  <1>1. TypeOK' /\ Settles(t, {})
    BY DEF TypeOK, Settles, Freed, OwnerKept, RunKept
  <1>2. Steady
    BY DEF TypeOK, Steady, StatusAllowed, Allowed
  <1> QED BY <1>1, <1>2

\* Administrative completion: the row is finished, its dependents recomputed.
LEMMA SettleComplete ==
  ASSUME TypeOK, NEW t \in Task, NEW row \in TaskRow, NEW pin \in Pin,
         row.current = None, row.status = "done", CompleteWith(t, row, pin),
         task[t].status \notin {"absent", "done"}, ValidPin(t, pin)'
  PROVE  /\ task' \in [Task -> TaskRow]
         /\ link' \in [Edge -> Pin \cup {"absent", "open"}]
         /\ Freed(t)
         /\ \A u \in Task \ {t} : OwnerKept(u)
         /\ Completes(t, pin)
  <1>1. /\ task' \in [Task -> TaskRow]
        /\ link' \in [Edge -> Pin \cup {"absent", "open"}]
        /\ link' = Satisfied(link, t, pin)
        /\ task'[t] = row
        /\ \A u \in Task \ {t} : OwnerKept(u) /\ StatusAllowed(u)
    BY CompleteWithEffect
  <1> QED BY <1>1 DEF Freed, Completes

\* A row that is edited and then recomputed.
LEMMA RecomputeStep ==
  ASSUME TypeOK, NEW t \in Task, NEW row \in TaskRow,
         row.current = task[t].current,
         row.status = task[t].status \/ (row.status = "todo" /\ task[t].status # "running"),
         task' = [task EXCEPT ![t] = Recomputed(row, HasOpenParents(link, t))],
         UNCHANGED <<run, link, preflight>>
  PROVE  TypeOK' /\ Quiet /\ Steady
  <1> DEFINE new == Recomputed(row, HasOpenParents(link, t))
  <1>1. /\ new \in TaskRow /\ new.current = task[t].current
        /\ new.status = "running" <=> task[t].status = "running"
        /\ Allowed(task[t].status, new.status, HasOpenParents(link, t))
    BY OpenIsBoolean, RecomputedRow DEF Allowed
  <1> HIDE DEF new
  <1> QED BY <1>1, RowUpdate DEF new

LEMMA TouchStep ==
  ASSUME TypeOK, NEW t \in Task, TouchTask(t)
  PROVE  TypeOK' /\ Quiet /\ Steady
  <1>1. task[t] \in TaskRow
    BY DEF TypeOK
  <1>2. /\ Requeued(task[t]) \in TaskRow /\ Requeued(task[t]).status = task[t].status
        /\ Requeued(task[t]).current = task[t].current
    BY <1>1, RequeuedRow
  <1>3. /\ task' = [task EXCEPT ![t] =
               Recomputed(Requeued(task[t]), HasOpenParents(link, t))]
        /\ UNCHANGED <<run, link, preflight>>
    BY DEF TouchTask
  <1> QED BY <1>2, <1>3, RecomputeStep

LEMMA EditStep ==
  ASSUME TypeOK, NEW t \in Task, NEW routed \in BOOLEAN, NEW sched \in Schedules,
         EditTask(t, routed, sched)
  PROVE  TypeOK' /\ Quiet /\ Steady
  <1> DEFINE edited == [task[t] EXCEPT !.routed = routed, !.sched = sched]
  <1>1. task[t] \in TaskRow /\ sched \in Schedule
    BY InputAssumption DEF TypeOK
  <1>2. /\ edited \in TaskRow /\ edited.status = task[t].status
        /\ edited.current = task[t].current
    BY <1>1 DEF TaskRow
  <1>3. /\ task' = [task EXCEPT ![t] =
               Recomputed(Requeued(edited), HasOpenParents(link, t))]
        /\ UNCHANGED <<run, link, preflight>>
    BY DEF EditTask
  <1> HIDE DEF edited
  <1>4. /\ Requeued(edited) \in TaskRow /\ Requeued(edited).status = task[t].status
        /\ Requeued(edited).current = task[t].current
    BY <1>2, RequeuedRow
  <1> QED BY <1>3, <1>4, RecomputeStep

LEMMA RetriesStep ==
  ASSUME TypeOK, NEW t \in Task, NEW retries \in TaskLimits, EditRetries(t, retries)
  PROVE  TypeOK' /\ Quiet /\ Steady
  <1> DEFINE edited == [task[t] EXCEPT !.retries = retries]
  <1>1. task[t] \in TaskRow /\ retries \in Retries
    BY LimitAssumption DEF TypeOK
  <1>2. /\ edited \in TaskRow /\ edited.status = task[t].status
        /\ edited.current = task[t].current
    BY <1>1 DEF TaskRow
  <1>3. /\ task' = [task EXCEPT ![t] =
               Recomputed(Requeued(edited), HasOpenParents(link, t))]
        /\ UNCHANGED <<run, link, preflight>>
    BY DEF EditRetries
  <1> HIDE DEF edited
  <1>4. /\ Requeued(edited) \in TaskRow /\ Requeued(edited).status = task[t].status
        /\ Requeued(edited).current = task[t].current
    BY <1>2, RequeuedRow
  <1> QED BY <1>3, <1>4, RecomputeStep

LEMMA SetStatusStep ==
  ASSUME TypeOK, NEW t \in Task, NEW status \in EditStatuses, SetStatus(t, status)
  PROVE  /\ TypeOK' /\ Settles(t, {})
         /\ Steady \/ Completes(t, None)
  <1> DEFINE edited == [task[t] EXCEPT !.status = status, !.gaveup = FALSE]
             row == Requeued(edited)
             done == [row EXCEPT !.failures = 0, !.kind = "none", !.reason = None,
                                 !.recur = 0]
             pinned == [done EXCEPT !.completed = None]
  <1>1. /\ task[t] \in TaskRow /\ status \in TaskStatus \ {"running"}
        /\ task[t].current = None /\ task[t].status # "absent"
    BY InputAssumption DEF TypeOK, SetStatus, NoActiveRun, Present
  <1>2. edited \in TaskRow /\ edited.status = status /\ edited.current = None
    BY <1>1 DEF TaskRow
  <1> HIDE DEF edited
  <1>3. row \in TaskRow /\ row.status = status /\ row.current = None
    BY <1>2, RequeuedRow
  <1> HIDE DEF row
  <1>4. done \in TaskRow /\ done.status = status /\ done.current = None
    BY <1>3, CounterRanges, Members DEF TaskRow
  <1> HIDE DEF done
  <1>5. None \in Pin
    BY DEF Pin
  <1>6. pinned \in TaskRow /\ pinned.status = status /\ pinned.current = None
    BY <1>4, <1>5 DEF TaskRow
  <1> HIDE DEF pinned
  <1>7. UNCHANGED <<run, preflight>> /\ Unowned(t)
    BY <1>1 DEF SetStatus, Unowned
  <1>8. CASE status = "done" /\ task[t].status # "done"
    <2>1. CompleteWith(t, pinned, None)
      BY <1>8 DEF SetStatus, edited, row, done, pinned
    <2>2. /\ task' \in [Task -> TaskRow]
          /\ link' \in [Edge -> Pin \cup {"absent", "open"}]
          /\ Freed(t)
          /\ \A u \in Task \ {t} : OwnerKept(u)
          /\ Completes(t, None)
      <3>1. ValidPin(t, None)'
        BY NoneAssumption DEF ValidPin
      <3> QED BY <1>1, <1>5, <1>6, <1>8, <2>1, <3>1, SettleComplete
    <2>3. TypeOK'
      BY <1>7, <2>2 DEF TypeOK
    <2>4. Settles(t, {})
      BY <1>7, <2>2 DEF Settles, RunKept
    <2> QED BY <2>2, <2>3, <2>4
  <1>9. CASE status = "done" /\ task[t].status = "done"
    <2>1. task' = [task EXCEPT ![t] = done] /\ UNCHANGED link
      BY <1>9 DEF SetStatus, edited, row, done
    <2>2. Allowed(task[t].status, done.status, HasOpenParents(link, t))
      BY <1>4, <1>9 DEF Allowed
    <2> QED BY <1>4, <1>7, <1>9, <2>1, <2>2, SettleUpdate
  <1>10. CASE status # "done"
    <2> DEFINE new == Recomputed(row, HasOpenParents(link, t))
    <2>1. task' = [task EXCEPT ![t] = new] /\ UNCHANGED link
      BY <1>10 DEF SetStatus, edited, row
    <2>2. /\ new \in TaskRow /\ new.current = None /\ new.status # "running"
          /\ \/ new.status = status
             \/ new.status \in {"todo", "ready", "scheduled"}
          /\ new.status = "ready" => ~HasOpenParents(link, t)
      BY <1>1, <1>3, OpenIsBoolean, RecomputedRow
    <2> HIDE DEF new
    <2>3. Allowed(task[t].status, new.status, HasOpenParents(link, t))
      <3>1. status # "absent"
        BY <1>1 DEF TaskStatus
      <3> QED BY <1>10, <2>2, <3>1 DEF Allowed
    <2> QED BY <1>7, <2>1, <2>2, <2>3, SettleUpdate
  <1> QED BY <1>8, <1>9, <1>10

LEMMA EndCompleteStep ==
  ASSUME TypeOK, NEW t \in Task, NEW r \in Run \cup {None}, EndCompleteTask(t, r)
  PROVE  TypeOK' /\ Settles(t, {r} \cap Run) /\ Completes(t, r)
  <1>1. /\ task[t] \in TaskRow /\ preflight' \subseteq Task /\ r \in Pin
        /\ t \in preflight \ preflight'
        /\ task[t].status \notin {"absent", "done"}
    BY DEF TypeOK, EndCompleteTask, Pin
  <1>2. CASE r = None
    <2> DEFINE row == Finished(task[t], None)
    <2>1. UNCHANGED run /\ CompleteWith(t, row, None)
      BY <1>2 DEF EndCompleteTask
    <2>2. /\ row \in TaskRow /\ row.current = None /\ row.status = "done"
          /\ ValidPin(t, None)'
      BY <1>1, <1>2, FinishedRow, NoneAssumption DEF ValidPin
    <2> HIDE DEF row
    <2>3. /\ task' \in [Task -> TaskRow]
          /\ link' \in [Edge -> Pin \cup {"absent", "open"}]
          /\ Freed(t)
          /\ \A u \in Task \ {t} : OwnerKept(u)
          /\ Completes(t, None)
      BY <1>1, <1>2, <2>1, <2>2, SettleComplete
    <2>4. {r} \cap Run = {}
      BY <1>2, NoneAssumption
    <2>5. TypeOK'
      BY <1>1, <2>1, <2>3 DEF TypeOK
    <2>6. Settles(t, {})
      BY <1>1, <2>1, <2>3 DEF Settles, RunKept
    <2> QED BY <1>2, <2>3, <2>4, <2>5, <2>6
  <1>3. CASE r # None
    <2> DEFINE done == Finished(task[t], r)
               row == [done EXCEPT !.guard = "recent_success"]
               fresh == NewRun(t, "completed", TRUE)
    <2>1. /\ run[r].status = "unused" /\ run' = [run EXCEPT ![r] = fresh]
          /\ CompleteWith(t, row, r)
      BY <1>3 DEF EndCompleteTask
    <2>2. done \in TaskRow /\ done.current = None /\ done.status = "done"
      BY <1>1, FinishedRow
    <2> HIDE DEF done
    <2>3. row \in TaskRow /\ row.current = None /\ row.status = "done"
      BY <2>2, Members DEF TaskRow
    <2>4. fresh \in RunRow /\ fresh.status = "completed" /\ fresh.task = t
      BY NewRunRow, Members
    <2> HIDE DEF row, fresh
    <2>0. ValidPin(t, r)'
      <3>1. r \in Run => run'[r] = fresh
        BY <2>1 DEF TypeOK
      <3> QED BY <2>4, <3>1 DEF ValidPin
    <2>5. /\ task' \in [Task -> TaskRow]
          /\ link' \in [Edge -> Pin \cup {"absent", "open"}]
          /\ Freed(t)
          /\ \A u \in Task \ {t} : OwnerKept(u)
          /\ Completes(t, r)
      BY <1>1, <2>0, <2>1, <2>3, SettleComplete
    <2>6. {r} \cap Run = {r} /\ r \in Run
      BY <1>3
    <2>7. TypeOK'
      BY <1>1, <2>1, <2>4, <2>5, <2>6 DEF TypeOK
    <2>8. Settles(t, {r})
      BY <1>1, <2>1, <2>4, <2>5, <2>6, Members DEF TypeOK, Settles, RunKept
    <2> QED BY <2>5, <2>6, <2>7, <2>8
  <1> QED BY <1>2, <1>3

LEMMA BlockStep ==
  ASSUME TypeOK, NEW t \in Task, NEW r \in Run, NEW kind \in Kinds,
         NEW reason \in Reason, BlockTask(t, r, kind, reason)
  PROVE  TypeOK' /\ Settles(t, {r}) /\ Steady
  <1> DEFINE blocked == Blocked(task[t], kind, reason)
             row == [blocked EXCEPT !.guard = GuardAfter(reason)]
             fresh == NewRun(t, "blocked", TRUE)
  <1>1. task[t] \in TaskRow /\ kind \in BlockKind /\ GuardAfter(reason) \in Guard
    BY InputAssumption, Members DEF TypeOK, GuardAfter
  <1>2. /\ blocked \in TaskRow /\ blocked.current = None
        /\ blocked.status \in {"todo", "triage", "blocked"}
    BY <1>1, BlockedRow
  <1> HIDE DEF blocked
  <1>3. /\ row \in TaskRow /\ row.current = None /\ row.status # "running"
        /\ Allowed(task[t].status, row.status, HasOpenParents(link, t))
    BY <1>1, <1>2 DEF TaskRow, Allowed
  <1>4. fresh \in RunRow /\ fresh.status \in EndedStatus
    BY NewRunRow, Members
  <1>5. /\ run[r].status = "unused" /\ run' = [run EXCEPT ![r] = fresh]
        /\ task' = [task EXCEPT ![t] = row] /\ UNCHANGED <<link, preflight>>
        /\ Unowned(t)
    BY DEF BlockTask, blocked, NoActiveRun, Unowned
  <1> HIDE DEF row, fresh
  <1>6. TypeOK'
    BY <1>3, <1>4, <1>5 DEF TypeOK
  <1>7. Settles(t, {r})
    BY <1>3, <1>4, <1>5 DEF TypeOK, Settles, Freed, OwnerKept, RunKept
  <1>8. Steady
    BY <1>3, <1>5 DEF TypeOK, Steady, StatusAllowed, Allowed
  <1> QED BY <1>6, <1>7, <1>8

\* Unblocking and promoting keep the owner (there is none) and recompute.
LEMMA ReopenStep ==
  ASSUME TypeOK, NEW t \in Task, UnblockTask(t) \/ PromoteTask(t)
  PROVE  TypeOK' /\ Quiet /\ Steady
  <1>1. task[t] \in TaskRow
    BY DEF TypeOK
  <1>2. CASE UnblockTask(t)
    <2> DEFINE edited == [task[t] EXCEPT !.status = "todo", !.failures = 0, !.gaveup = FALSE]
    <2>1. /\ edited \in TaskRow /\ edited.current = task[t].current
          /\ edited.status = "todo"
      BY <1>1, CounterRanges, Members DEF TaskRow
    <2>2. /\ task' = [task EXCEPT ![t] =
                 Recomputed(Requeued(edited), HasOpenParents(link, t))]
          /\ UNCHANGED <<run, link, preflight>>
          /\ task[t].status # "running"
      BY <1>2 DEF UnblockTask
    <2> HIDE DEF edited
    <2>3. /\ Requeued(edited) \in TaskRow /\ Requeued(edited).status = "todo"
          /\ Requeued(edited).current = task[t].current
      BY <2>1, RequeuedRow
    <2> QED BY <2>2, <2>3, RecomputeStep
  <1>3. CASE PromoteTask(t)
    <2> DEFINE edited == [task[t] EXCEPT !.status = "todo", !.sched = "none",
                                         !.failures = 0, !.gaveup = FALSE]
    <2>1. /\ edited \in TaskRow /\ edited.current = task[t].current
          /\ edited.status = "todo"
      BY <1>1, CounterRanges, Members DEF TaskRow
    <2>2. /\ task' = [task EXCEPT ![t] =
                 Recomputed(Requeued(edited), HasOpenParents(link, t))]
          /\ UNCHANGED <<run, link, preflight>>
          /\ task[t].status # "running"
      BY <1>3 DEF PromoteTask
    <2> HIDE DEF edited
    <2>3. /\ Requeued(edited) \in TaskRow /\ Requeued(edited).status = "todo"
          /\ Requeued(edited).current = task[t].current
      BY <2>1, RequeuedRow
    <2> QED BY <2>2, <2>3, RecomputeStep
  <1> QED BY <1>2, <1>3

\* Scheduling and archiving put an unowned task aside.
LEMMA ScheduleStep ==
  ASSUME TypeOK, NEW t \in Task, NEW sched \in Schedules, ScheduleTask(t, sched)
  PROVE  TypeOK' /\ Settles(t, {}) /\ Steady
  <1> DEFINE edited == [task[t] EXCEPT !.status = "scheduled", !.sched = sched,
                                       !.gaveup = FALSE]
             row == Requeued(edited)
  <1>1. task[t] \in TaskRow /\ sched \in Schedule
    BY InputAssumption DEF TypeOK
  <1>2. /\ task[t].current = None /\ task' = [task EXCEPT ![t] = row]
        /\ UNCHANGED <<run, link, preflight>>
        /\ Unowned(t)
    BY DEF ScheduleTask, NoActiveRun, Unowned
  <1>3. edited \in TaskRow /\ edited.status = "scheduled" /\ edited.current = None
    BY <1>1, <1>2, Members DEF TaskRow
  <1> HIDE DEF edited
  <1>4. row \in TaskRow /\ row.status = "scheduled" /\ row.current = None
    BY <1>3, RequeuedRow
  <1> HIDE DEF row
  <1>5. Allowed(task[t].status, row.status, HasOpenParents(link, t))
    BY <1>4 DEF Allowed
  <1> QED BY <1>2, <1>4, <1>5, SettleUpdate

LEMMA ArchiveStep ==
  ASSUME TypeOK, NEW t \in Task, ArchiveTask(t)
  PROVE  TypeOK' /\ Settles(t, {}) /\ Steady
  <1> DEFINE row == [task[t] EXCEPT !.status = "archived", !.current = None,
                                    !.sched = "none"]
  <1>1. task[t] \in TaskRow
    BY DEF TypeOK
  <1>2. row \in TaskRow /\ row.status = "archived" /\ row.current = None
    BY <1>1, Members DEF TaskRow
  <1>3. /\ task' = [task EXCEPT ![t] = row] /\ UNCHANGED <<run, link, preflight>>
        /\ Unowned(t)
    BY DEF ArchiveTask, NoActiveRun, Unowned
  <1> HIDE DEF row
  <1>4. Allowed(task[t].status, row.status, HasOpenParents(link, t))
    BY <1>2 DEF Allowed
  <1> QED BY <1>2, <1>3, <1>4, SettleUpdate

LEMMA SpecifyStep ==
  ASSUME TypeOK, NEW t \in Task, SpecifyTask(t)
  PROVE  TypeOK' /\ Quiet /\ Steady
  <1> DEFINE edited == [task[t] EXCEPT !.status = "todo", !.kind = "none",
                                       !.reason = None]
             row == Requeued(edited)
  <1>1. task[t] \in TaskRow
    BY DEF TypeOK
  <1>2. /\ edited \in TaskRow /\ edited.status = "todo"
        /\ edited.current = task[t].current
    BY <1>1, Members DEF TaskRow
  <1>3. /\ task' = [task EXCEPT ![t] = row] /\ UNCHANGED <<run, link, preflight>>
        /\ task[t].status # "running"
    BY DEF SpecifyTask
  <1> HIDE DEF edited
  <1>4. row \in TaskRow /\ row.status = "todo" /\ row.current = task[t].current
    BY <1>2, RequeuedRow
  <1> HIDE DEF row
  <1>5. Allowed(task[t].status, row.status, HasOpenParents(link, t))
    BY <1>4 DEF Allowed
  <1> QED BY <1>3, <1>4, <1>5, RowUpdate

LEMMA DeleteStep ==
  ASSUME TypeOK, NEW t \in Task, DeleteTask(t)
  PROVE  TypeOK' /\ Deletes(t) /\ \E D \in SUBSET Edge : Drops(D)
  <1> DEFINE l == [e \in Edge |-> IF t \in {e[1], e[2]} THEN "absent" ELSE link[e]]
             gone == [Unused EXCEPT !.status = "deleted"]
  <1>1. /\ task[t].current = None /\ UNCHANGED preflight /\ link' = l
        /\ run' = [r \in Run |-> IF run[r].task = t THEN gone ELSE run[r]]
        /\ task' = [c \in Task |->
             IF c = t THEN Absent
             ELSE IF link[<<t, c>>] # "absent"
                  THEN Recomputed(task[c], HasOpenParents(l, c)) ELSE task[c]]
    BY DEF DeleteTask, NoActiveRun
  <1>2. l \in [Edge -> Pin \cup {"absent", "open"}]
    BY DEF TypeOK
  <1>3. gone \in RunRow /\ gone.status = "deleted"
    BY UnusedRow, Members DEF RunRow
  <1> HIDE DEF l, gone
  <1>4. ASSUME NEW c \in Task \ {t}
        PROVE  task'[c] \in TaskRow /\ OwnerKept(c) /\ StatusAllowed(c)
    <2>1. task[c] \in TaskRow /\ HasOpenParents(l, c) \in BOOLEAN
      BY OpenIsBoolean DEF TypeOK
    <2>2. CASE link[<<t, c>>] # "absent"
      <3>1. task'[c] = Recomputed(task[c], HasOpenParents(l, c))
        BY <1>1, <2>2
      <3> QED BY <1>1, <2>1, <3>1, RecomputedRow DEF OwnerKept, StatusAllowed, Allowed
    <2>3. CASE link[<<t, c>>] = "absent"
      <3>1. task'[c] = task[c]
        BY <1>1, <2>3
      <3> QED BY <2>1, <3>1 DEF OwnerKept, StatusAllowed, Allowed
    <2> QED BY <2>2, <2>3
  <1>5. task'[t] = Absent
    BY <1>1
  <1>6. task' \in [Task -> TaskRow]
    <2>1. \A c \in Task : task'[c] \in TaskRow
      BY <1>4, <1>5, AbsentRow
    <2> QED BY <1>1, <2>1
  <1>7. TypeOK'
    BY <1>1, <1>2, <1>3, <1>6 DEF TypeOK
  <1>8. Freed(t) /\ task'[t].status = "absent"
    BY <1>5 DEF Freed, Absent
  <1>9. \A r \in Run : IF run[r].task = t THEN run'[r].status = "deleted" ELSE RunKept(r)
    BY <1>1, <1>3 DEF RunKept
  <1>10. \E D \in SUBSET Edge : Drops(D)
    <2> DEFINE D == {e \in Edge : t \in {e[1], e[2]}}
    <2>1. \A u \in Task : {<<t, u>>, <<u, t>>} \subseteq D
      BY DEF Edge
    <2>2. D \in SUBSET Edge /\ \A p, c \in Task : <<p, c>> \in D => p = t \/ c = t
      OBVIOUS
    <2>3. link' = [e \in Edge |-> IF e \in D THEN "absent" ELSE link[e]]
      BY <1>1 DEF l
    <2> HIDE DEF D
    <2>4. \A c \in Task : link[<<t, c>>] # "absent" => task[c].status # "running"
      BY DEF DeleteTask
    <2>5. task'[t].status = "absent"
      BY <1>5 DEF Absent
    <2>6. Drops(D)
      <3>1. \A p, c \in Task : <<p, c>> \in D /\ link[<<p, c>>] # "absent" =>
               task[c].status # "running" \/ task'[c].status # "running"
        BY <2>2, <2>4, <2>5
      <3>2. \A u \in Task : \/ StatusAllowed(u)
                           \/ /\ task'[u].status = "absent"
                              /\ \A v \in Task : {<<u, v>>, <<v, u>>} \subseteq D
        <4> TAKE u \in Task
        <4>1. CASE u = t
          BY <2>1, <2>5, <4>1
        <4>2. CASE u # t
          BY <1>4, <4>2
        <4> QED BY <4>1, <4>2
      <3> QED BY <2>3, <3>1, <3>2 DEF Drops
    <2> QED BY <2>2, <2>6
  <1> QED BY <1>1, <1>4, <1>7, <1>8, <1>9, <1>10 DEF Deletes

LEMMA SatisfactionType ==
  ASSUME TypeOK, NEW p \in Task
  PROVE  Satisfaction(p) \in Pin \cup {"absent", "open"}
  <1>1. task[p].completed \in Pin \cup {"never"}
    BY DEF TypeOK, TaskRow
  <1> QED BY <1>1 DEF Satisfaction, Pin

LEMMA CreatedStatusType ==
  ASSUME NEW status \in EditStatuses \cup {"default"}, NEW routed, NEW sched, NEW parents
  PROVE  /\ CreatedStatus(status, routed, sched, parents) \in TaskStatus
         /\ CreatedStatus(status, routed, sched, parents) # "running"
         /\ CreatedStatus(status, routed, sched, parents) = "ready" =>
               status = "ready" \/ parents = {}
  <1>1. CASE status # "default"
    <2>1. CreatedStatus(status, routed, sched, parents) = status
      BY <1>1 DEF CreatedStatus
    <2> QED BY <1>1, <2>1, InputAssumption
  <1>2. CASE status = "default"
    <2>1. /\ CreatedStatus(status, routed, sched, parents) \in {"scheduled", "ready", "todo"}
          /\ CreatedStatus(status, routed, sched, parents) = "ready" => parents = {}
      BY <1>2 DEF CreatedStatus
    <2> QED BY <2>1, Members
  <1> QED BY <1>1, <1>2

LEMMA CreateEffect ==
  ASSUME TypeOK, NEW t \in Task, NEW status \in EditStatuses \cup {"default"},
         NEW routed \in BOOLEAN, NEW sched \in Schedules, NEW retries \in TaskLimits,
         NEW parents \in SUBSET (Task \ {t}),
         CreateTask(t, status, routed, sched, retries, parents)
  PROVE  \E row \in TaskRow :
            /\ row.current = None /\ row.status \notin {"absent", "running"}
            /\ row.status = "ready" =>
                  (parents = {} /\ status # "ready") \/ ~HasOpenParents(link', t)
            /\ task' = [task EXCEPT ![t] = row]
            /\ link' = CreatedLinks(t, parents)
            /\ link' \in [Edge -> Pin \cup {"absent", "open"}]
            /\ UNCHANGED <<run, preflight>>
  <1> DEFINE l == CreatedLinks(t, parents)
             open == HasOpenParents(l, t)
             made == CreatedStatus(status, routed, sched, parents)
             row == [Absent EXCEPT !.routed = routed, !.sched = sched, !.retries = retries,
                                   !.status = made]
             pin == IF open THEN "open" ELSE None
             linked == IF parents = {} THEN row ELSE Linked(row, pin, open)
             new == IF status = "ready" /\ open THEN [linked EXCEPT !.status = "todo"]
                    ELSE linked
  <1>1. /\ link' = l /\ task' = [task EXCEPT ![t] = new]
        /\ UNCHANGED <<run, preflight>>
    BY DEF CreateTask, CreatedLinks
  <1>2. \A e \in Edge : e[1] \in Task
    BY DEF Edge
  <1>3. l \in [Edge -> Pin \cup {"absent", "open"}]
    BY <1>2, SatisfactionType DEF TypeOK, CreatedLinks
  <1>4. open \in BOOLEAN
    BY OpenIsBoolean
  <1>5. /\ made \in TaskStatus /\ made \notin {"absent", "running"}
        /\ made = "ready" => status = "ready" \/ parents = {}
    BY CreatedStatusType, Members
  <1> HIDE DEF l, open, made
  <1>6. sched \in Schedule /\ retries \in Retries
    BY InputAssumption, LimitAssumption
  <1>7. row \in TaskRow /\ row.status = made /\ row.current = None
    <2>1. Absent.current = None
      BY DEF Absent
    <2> QED BY <1>5, <1>6, <2>1, AbsentRow DEF TaskRow
  <1> HIDE DEF row, pin
  <1>8. /\ linked \in TaskRow /\ linked.current = None
        /\ linked.status \notin {"absent", "running"}
        /\ linked.status = "ready" => ~open \/ (parents = {} /\ made = "ready")
    <2>1. CASE parents = {}
      BY <1>5, <1>7, <2>1
    <2>2. CASE parents # {}
      <3>1. linked = Linked(row, pin, open)
        BY <2>2
      <3> QED BY <1>4, <1>5, <1>7, <3>1, LinkedRow
    <2> QED BY <2>1, <2>2
  <1> HIDE DEF linked
  <1>9. /\ new \in TaskRow /\ new.current = None
        /\ new.status \notin {"absent", "running"}
        /\ new.status = "ready" => (parents = {} /\ status # "ready") \/ ~open
    <2>1. CASE status = "ready" /\ open
      <3>1. new = [linked EXCEPT !.status = "todo"]
        BY <2>1
      <3> QED BY <1>8, <3>1, Members DEF TaskRow
    <2>2. CASE ~(status = "ready" /\ open)
      <3>1. new = linked
        BY <2>2
      <3> QED BY <1>8, <2>2, <3>1
    <2> QED BY <2>1, <2>2
  <1> QED BY <1>1, <1>3, <1>9 DEF l, open

LEMMA CreateStep ==
  ASSUME TypeOK, NEW t \in Task, NEW status \in EditStatuses \cup {"default"},
         NEW routed \in BOOLEAN, NEW sched \in Schedules, NEW retries \in TaskLimits,
         NEW parents \in SUBSET (Task \ {t}),
         CreateTask(t, status, routed, sched, retries, parents)
  PROVE  TypeOK' /\ Settles(t, {}) /\ Creates(t, parents)
  <1>1. PICK row \in TaskRow :
            /\ row.current = None /\ row.status \notin {"absent", "running"}
            /\ row.status = "ready" =>
                  (parents = {} /\ status # "ready") \/ ~HasOpenParents(link', t)
            /\ task' = [task EXCEPT ![t] = row]
            /\ link' = CreatedLinks(t, parents)
            /\ link' \in [Edge -> Pin \cup {"absent", "open"}]
            /\ UNCHANGED <<run, preflight>>
    BY CreateEffect
  <1>2. /\ ~Present(t)
        /\ \A p \in parents : Present(p) /\ ValidPin(p, Satisfaction(p))
    BY DEF CreateTask
  <1>3. TypeOK' /\ task'[t] = row /\ \A u \in Task \ {t} : task'[u] = task[u]
    BY <1>1 DEF TypeOK
  <1>4. Settles(t, {})
    BY <1>1, <1>2, <1>3 DEF Settles, Freed, OwnerKept, RunKept, Present, Unowned
  <1>5. Creates(t, parents)
    BY <1>1, <1>2, <1>3 DEF Creates
  <1> QED BY <1>3, <1>4, <1>5

\* A row that a link was added to or removed from is rewritten; its owner,
\* and whether it is running, is not.
LEMMA LinkStep ==
  ASSUME TypeOK, NEW p \in Task, NEW c \in Task, LinkTasks(p, c) \/ UnlinkTasks(p, c)
  PROVE  TypeOK' /\ Quiet /\ (Links(p, c) \/ Drops({<<p, c>>}))
  <1>1. ASSUME NEW row \in TaskRow, row.current = task[c].current,
               row.status = "running" <=> task[c].status = "running",
               link' \in [Edge -> Pin \cup {"absent", "open"}],
               Allowed(task[c].status, row.status, HasOpenParents(link', c)),
               task' = [task EXCEPT ![c] = row], UNCHANGED <<run, preflight>>
        PROVE  /\ TypeOK' /\ Quiet /\ \A u \in Task \ {c} : task'[u] = task[u]
               /\ \A u \in Task : StatusAllowed(u)
    <2>1. TypeOK' /\ Quiet /\ \A u \in Task \ {c} : task'[u] = task[u]
      BY <1>1 DEF TypeOK, Quiet, OwnerKept, RunKept
    <2>2. \A u \in Task : StatusAllowed(u)
      BY <1>1 DEF TypeOK, StatusAllowed, Allowed
    <2> QED BY <2>1, <2>2
  <1>2. task[c] \in TaskRow
    BY DEF TypeOK
  <1>3. CASE LinkTasks(p, c)
    <2> DEFINE pin == Satisfaction(p)
               l == [link EXCEPT ![<<p, c>>] = pin]
               row == Linked(task[c], pin, HasOpenParents(l, c))
    <2>1. /\ link' = l /\ task' = [task EXCEPT ![c] = row]
          /\ UNCHANGED <<run, preflight>>
      BY <1>3 DEF LinkTasks
    <2>2. l \in [Edge -> Pin \cup {"absent", "open"}]
      BY SatisfactionType DEF TypeOK
    <2> HIDE DEF l, pin
    <2>3. /\ row \in TaskRow /\ row.current = task[c].current
          /\ row.status = "running" <=> task[c].status = "running"
          /\ Allowed(task[c].status, row.status, HasOpenParents(l, c))
          /\ row.status = "ready" => ~HasOpenParents(l, c)
      BY <1>2, OpenIsBoolean, LinkedRow DEF Allowed
    <2> HIDE DEF row
    <2>4. /\ TypeOK' /\ Quiet /\ \A u \in Task \ {c} : task'[u] = task[u]
          /\ StatusAllowed(c)
          /\ task'[c].status = "ready" => ~HasOpenParents(link', c)
      BY <1>1, <2>1, <2>2, <2>3 DEF TypeOK
    <2>5. Links(p, c)
      BY <1>3, <2>1, <2>4 DEF LinkTasks, Links, l, pin
    <2> QED BY <2>4, <2>5
  <1>4. CASE UnlinkTasks(p, c)
    <2> DEFINE l == [link EXCEPT ![<<p, c>>] = "absent"]
               row == Recomputed(task[c], HasOpenParents(l, c))
    <2>1. /\ link' = l /\ task' = [task EXCEPT ![c] = row]
          /\ UNCHANGED <<run, preflight>> /\ task[c].status # "running"
      BY <1>4 DEF UnlinkTasks
    <2>2. /\ l \in [Edge -> Pin \cup {"absent", "open"}]
          /\ l = [e \in Edge |-> IF e \in {<<p, c>>} THEN "absent" ELSE link[e]]
      BY DEF TypeOK
    <2> HIDE DEF l
    <2>3. /\ row \in TaskRow /\ row.current = task[c].current
          /\ row.status = "running" <=> task[c].status = "running"
          /\ Allowed(task[c].status, row.status, HasOpenParents(l, c))
      BY <1>2, OpenIsBoolean, RecomputedRow DEF Allowed
    <2> HIDE DEF row
    <2>4. /\ TypeOK' /\ Quiet /\ \A u \in Task : StatusAllowed(u)
      BY <1>1, <2>1, <2>2, <2>3
    <2>5. Drops({<<p, c>>})
      BY <2>1, <2>2, <2>4 DEF Drops
    <2> QED BY <2>4, <2>5
  <1> QED BY <1>3, <1>4

LEMMA PromoteDueStep ==
  ASSUME TypeOK, PromoteDueTasks
  PROVE  TypeOK' /\ Quiet /\ Steady
  <1> DEFINE due == {t \in Task : task[t].status = "scheduled" /\ task[t].sched = "past"}
             edited(t) == [task[t] EXCEPT !.status = "todo"]
  <1>1. /\ task' = [t \in Task |->
              IF t \in due THEN Recomputed(Requeued(edited(t)), HasOpenParents(link, t))
              ELSE task[t]]
        /\ UNCHANGED <<run, link, preflight>>
    BY DEF PromoteDueTasks
  <1>2. ASSUME NEW t \in Task
        PROVE  task'[t] \in TaskRow /\ OwnerKept(t) /\ StatusAllowed(t)
    <2>1. task[t] \in TaskRow
      BY DEF TypeOK
    <2>2. /\ edited(t) \in TaskRow /\ edited(t).status = "todo"
          /\ edited(t).current = task[t].current
      BY <2>1, Members DEF TaskRow
    <2> HIDE DEF edited
    <2>3. CASE t \in due
      <3>1. task'[t] = Recomputed(Requeued(edited(t)), HasOpenParents(link, t))
        BY <1>1, <2>3
      <3>2. /\ Requeued(edited(t)) \in TaskRow /\ Requeued(edited(t)).status = "todo"
            /\ Requeued(edited(t)).current = task[t].current
        BY <2>2, RequeuedRow
      <3>3. task[t].status = "scheduled"
        BY <2>3
      <3> QED BY <1>1, <3>1, <3>2, <3>3, OpenIsBoolean, RecomputedRow
              DEF OwnerKept, StatusAllowed, Allowed
    <2>4. CASE t \notin due
      <3>1. task'[t] = task[t]
        BY <1>1, <2>4
      <3> QED BY <2>1, <3>1 DEF OwnerKept, StatusAllowed, Allowed
    <2> QED BY <2>3, <2>4
  <1>3. task' \in [Task -> TaskRow]
    BY <1>1, <1>2
  <1> QED BY <1>1, <1>2, <1>3 DEF TypeOK, Quiet, RunKept, Steady

LEMMA TimeStep ==
  ASSUME TypeOK, NEW t \in Task, ScheduleFallsDue(t) \/ GuardExpires(t)
  PROVE  TypeOK' /\ Quiet /\ Steady
  <1> DEFINE due == [task[t] EXCEPT !.sched = "past"]
             free == [task[t] EXCEPT !.guard = "none"]
  <1>1. task[t] \in TaskRow
    BY DEF TypeOK
  <1>2. /\ due \in TaskRow /\ due.status = task[t].status
        /\ due.current = task[t].current
    BY <1>1, Members DEF TaskRow
  <1>3. /\ free \in TaskRow /\ free.status = task[t].status
        /\ free.current = task[t].current
    BY <1>1, Members DEF TaskRow
  <1>4. /\ task' = [task EXCEPT ![t] = due] \/ task' = [task EXCEPT ![t] = free]
        /\ UNCHANGED <<run, link, preflight>>
    BY DEF ScheduleFallsDue, GuardExpires
  <1>5. /\ Allowed(task[t].status, due.status, HasOpenParents(link, t))
        /\ Allowed(task[t].status, free.status, HasOpenParents(link, t))
    BY <1>2, <1>3 DEF Allowed
  <1> HIDE DEF due, free
  <1> QED BY <1>2, <1>3, <1>4, <1>5, RowUpdate

LEMMA RetentionStep ==
  ASSUME TypeOK, NEW forgotten \in SUBSET Task, NEW rerun \in SUBSET Task,
         GarbageCollectEvents(forgotten, rerun)
  PROVE  TypeOK' /\ Quiet /\ Steady
  <1> DEFINE row(t) == Forgetting(task[t], t \in forgotten, t \in rerun)
  <1>1. task' = [t \in Task |-> row(t)] /\ UNCHANGED <<run, link, preflight>>
    BY DEF GarbageCollectEvents
  <1>2. ASSUME NEW t \in Task
        PROVE  /\ row(t) \in TaskRow /\ row(t).status = task[t].status
               /\ row(t).current = task[t].current
    <2> DEFINE completed == IF t \in forgotten THEN "never" ELSE task[t].completed
               guard == IF t \in rerun /\ task[t].guard = "requeued"
                        THEN "recent_success" ELSE task[t].guard
    <2>1. task[t] \in TaskRow
      BY DEF TypeOK
    <2>2. completed \in Pin \cup {"never"} /\ guard \in Guard
      BY <2>1, Members DEF TaskRow
    <2>3. row(t) = [task[t] EXCEPT !.completed = completed, !.guard = guard]
      BY DEF Forgetting
    <2> HIDE DEF completed, guard, row
    <2> QED BY <2>1, <2>2, <2>3 DEF TaskRow
  <1> HIDE DEF row
  <1>3. TypeOK' /\ Quiet
    BY <1>1, <1>2 DEF TypeOK, Quiet, OwnerKept, RunKept
  <1>4. Steady
    BY <1>1, <1>2 DEF Steady, StatusAllowed, Allowed
  <1> QED BY <1>3, <1>4

\* Before its transaction CompleteTask changes nothing in the store.
LEMMA PreflightStep ==
  ASSUME TypeOK, NEW t \in Task, BeginCompleteTask(t) \/ AbandonCompleteTask(t)
  PROVE  TypeOK' /\ Quiet /\ Steady
  <1>1. UNCHANGED <<task, run, link>> /\ preflight' \subseteq Task
    BY DEF TypeOK, BeginCompleteTask, AbandonCompleteTask
  <1>2. TypeOK' /\ Quiet
    BY <1>1 DEF TypeOK, Quiet, OwnerKept, RunKept
  <1>3. Steady
    BY <1>1 DEF Steady, StatusAllowed, Allowed
  <1> QED BY <1>2, <1>3

-----------------------------------------------------------------------------
(* Every step, and type correctness *)

OwnershipStep ==
    \/ Quiet
    \/ \E t \in Task, r \in Run : Claims(t, r) \/ Ends(t, r)
    \/ \E t \in Task, S \in SUBSET Run : Settles(t, S)
    \/ \E t \in Task : Deletes(t)

HandoffStep ==
    \/ Steady
    \/ \E p \in Task, pin \in Pin : Completes(p, pin)
    \/ \E t \in Task, parents \in SUBSET Task : Creates(t, parents)
    \/ \E p, c \in Task : Links(p, c)
    \/ \E D \in SUBSET Edge : Drops(D)

LEMMA StepKinds ==
  ASSUME TypeOK, [Next]_vars
  PROVE  TypeOK' /\ OwnershipStep /\ HandoffStep
  <1> DEFINE Good == TypeOK' /\ OwnershipStep /\ HandoffStep
  <1>1. TypeOK' /\ Quiet /\ Steady => Good
    BY DEF OwnershipStep, HandoffStep
  <1>2. ASSUME NEW t \in Task, NEW S \in SUBSET Run, TypeOK', Settles(t, S), HandoffStep
        PROVE  Good
    BY <1>2 DEF OwnershipStep
  <1>3. ASSUME NEW r \in Run, TypeOK', \E t \in Task : Ends(t, r), HandoffStep
        PROVE  Good
    BY <1>3 DEF OwnershipStep
  <1>0. Steady => HandoffStep
    BY DEF HandoffStep
  <1>4. CASE UNCHANGED vars
    <2>1. UNCHANGED <<task, run, link, preflight>>
      BY <1>4 DEF vars
    <2>2. TypeOK' /\ Quiet
      BY <2>1 DEF TypeOK, Quiet, OwnerKept, RunKept
    <2>3. Steady
      BY <2>1 DEF Steady, StatusAllowed, Allowed
    <2> QED BY <1>1, <2>2, <2>3
  <1>5. CASE Launch
    <2>1. PICK r \in Run :
             \/ \E t \in Task : ClaimTask(t, r)
             \/ \/ MarkRunManaged(r) \/ RecordSpawn(r) \/ PauseGoalRun(r)
                \/ \E kind \in Workspaces : BindRunWorkspace(r, kind)
      BY <1>5 DEF Launch
    <2>2. CASE \E t \in Task : ClaimTask(t, r)
      <3>1. PICK t \in Task : ClaimTask(t, r)
        BY <2>2
      <3>2. TypeOK' /\ Claims(t, r) /\ Steady
        BY <3>1, ClaimStep
      <3> QED BY <1>0, <3>2 DEF OwnershipStep
    <2>3. CASE \/ MarkRunManaged(r) \/ RecordSpawn(r) \/ PauseGoalRun(r)
               \/ \E kind \in Workspaces : BindRunWorkspace(r, kind)
      BY <1>1, <2>3, LaunchStep
    <2> QED BY <2>1, <2>2, <2>3
  <1>6. CASE Terminal
    <2>1. PICK r \in Run :
             \/ \/ RequestRunCompletion(r)
                \/ \E kind \in Kinds, reason \in Reason : RequestRunBlock(r, kind, reason)
                \/ DiscardRunTerminalRequest(r)
                \/ RecordRunChangeSet(r)
             \/ FinalizeRunTerminal(r)
      BY <1>6 DEF Terminal
    <2>2. CASE FinalizeRunTerminal(r)
      <3>1. /\ TypeOK' /\ \E t \in Task : Ends(t, r)
            /\ Steady \/ \E t \in Task : Completes(t, r)
        BY <2>2, FinalizeStep
      <3>2. HandoffStep
        BY <3>1 DEF HandoffStep, Pin
      <3> QED BY <1>3, <3>1, <3>2
    <2>3. CASE \/ RequestRunCompletion(r)
               \/ \E kind \in Kinds, reason \in Reason : RequestRunBlock(r, kind, reason)
               \/ DiscardRunTerminalRequest(r)
               \/ RecordRunChangeSet(r)
      BY <1>1, <2>3, RequestStep
    <2> QED BY <2>1, <2>2, <2>3
  <1>7. CASE Recovery
    <2>1. PICK r \in Run, outcome \in Outcomes, reason \in Reason :
             \/ \E counted, cooldown \in BOOLEAN, limit \in Failures :
                   FinishUnsuccessful(r, outcome, counted, cooldown, reason, limit)
             \/ \E kind \in Kinds, o \in {outcome, "blocked"} :
                   RecoverRunBlocked(r, o, kind, reason)
             \/ outcome \in {"reclaimed", "timed_out"} /\ DeferRunRecovery(r, outcome)
      BY <1>7, LimitAssumption, CounterRanges DEF Recovery, FailRun, RecoverAbandonedRun
    <2>2. CASE \E counted, cooldown \in BOOLEAN, limit \in Failures :
                 FinishUnsuccessful(r, outcome, counted, cooldown, reason, limit)
      BY <1>0, <1>3, <2>2, FailStep
    <2>3. CASE \E kind \in Kinds, o \in {outcome, "blocked"} :
                 RecoverRunBlocked(r, o, kind, reason)
      BY <1>0, <1>3, <2>3, RecoverBlockedStep
    <2>4. CASE outcome \in {"reclaimed", "timed_out"} /\ DeferRunRecovery(r, outcome)
      BY <1>1, <2>4, RequestStep
    <2> QED BY <2>1, <2>2, <2>3, <2>4
  <1>8. CASE CreateTasks
    <2>1. PICK t \in Task, status \in EditStatuses \cup {"default"}, routed \in BOOLEAN,
               sched \in Schedules, retries \in TaskLimits : \E parents \in SUBSET (Task \ {t}) :
                  CreateTask(t, status, routed, sched, retries, parents)
      BY <1>8 DEF CreateTasks
    <2>2. PICK parents \in SUBSET (Task \ {t}) :
             CreateTask(t, status, routed, sched, retries, parents)
      BY <2>1
    <2>3. TypeOK' /\ Settles(t, {}) /\ Creates(t, parents)
      BY <2>2, CreateStep
    <2>4. HandoffStep
      BY <2>3 DEF HandoffStep
    <2> QED BY <1>2, <2>3, <2>4
  <1>9. CASE EditTasks
    <2>1. PICK t \in Task :
             \/ TouchTask(t)
             \/ \E routed \in BOOLEAN, sched \in Schedules : EditTask(t, routed, sched)
             \/ \E retries \in TaskLimits : EditRetries(t, retries)
             \/ \E status \in EditStatuses : SetStatus(t, status)
             \/ UnblockTask(t)
             \/ PromoteTask(t)
             \/ \E sched \in Schedules : ScheduleTask(t, sched)
             \/ SpecifyTask(t)
             \/ ArchiveTask(t)
             \/ DeleteTask(t)
      BY <1>9 DEF EditTasks
    <2>2. CASE TouchTask(t)
      BY <1>1, <2>2, TouchStep
    <2>3. CASE \E routed \in BOOLEAN, sched \in Schedules : EditTask(t, routed, sched)
      BY <1>1, <2>3, EditStep
    <2>10. CASE \E retries \in TaskLimits : EditRetries(t, retries)
      BY <1>1, <2>10, RetriesStep
    <2>4. CASE \E status \in EditStatuses : SetStatus(t, status)
      <3>1. /\ TypeOK' /\ Settles(t, {})
            /\ Steady \/ Completes(t, None)
        BY <2>4, SetStatusStep
      <3>2. HandoffStep
        BY <3>1 DEF HandoffStep, Pin
      <3> QED BY <1>2, <3>1, <3>2
    <2>5. CASE UnblockTask(t) \/ PromoteTask(t)
      BY <1>1, <2>5, ReopenStep
    <2>6. CASE \E sched \in Schedules : ScheduleTask(t, sched)
      BY <1>0, <1>2, <2>6, ScheduleStep
    <2>7. CASE SpecifyTask(t)
      BY <1>1, <2>7, SpecifyStep
    <2>8. CASE ArchiveTask(t)
      BY <1>0, <1>2, <2>8, ArchiveStep
    <2>9. CASE DeleteTask(t)
      <3>1. TypeOK' /\ Deletes(t) /\ \E D \in SUBSET Edge : Drops(D)
        BY <2>9, DeleteStep
      <3> QED BY <3>1 DEF OwnershipStep, HandoffStep
    <2> QED BY <2>1, <2>2, <2>3, <2>4, <2>5, <2>6, <2>7, <2>8, <2>9, <2>10
  <1>10. CASE CompleteTasks
    <2>1. PICK t \in Task :
             \/ BeginCompleteTask(t) \/ AbandonCompleteTask(t)
             \/ \E r \in Run \cup {None} : EndCompleteTask(t, r)
      BY <1>10 DEF CompleteTasks
    <2>2. CASE BeginCompleteTask(t) \/ AbandonCompleteTask(t)
      BY <1>1, <2>2, PreflightStep
    <2>3. CASE \E r \in Run \cup {None} : EndCompleteTask(t, r)
      <3>1. PICK r \in Run \cup {None} : EndCompleteTask(t, r)
        BY <2>3
      <3>2. TypeOK' /\ Settles(t, {r} \cap Run) /\ Completes(t, r)
        BY <3>1, EndCompleteStep
      <3>3. HandoffStep
        BY <3>2 DEF HandoffStep, Pin
      <3> QED BY <1>2, <3>2, <3>3
    <2> QED BY <2>1, <2>2, <2>3
  <1>11. CASE BlockTasks
    <2>1. PICK t \in Task, r \in Run, kind \in Kinds, reason \in Reason :
               BlockTask(t, r, kind, reason)
      BY <1>11 DEF BlockTasks
    <2>2. TypeOK' /\ Settles(t, {r}) /\ Steady
      BY <2>1, BlockStep
    <2> QED BY <1>0, <1>2, <2>2
  <1>12. CASE Dependencies
    <2>1. PICK p \in Task, c \in Task : LinkTasks(p, c) \/ UnlinkTasks(p, c)
      BY <1>12 DEF Dependencies
    <2>2. TypeOK' /\ Quiet /\ (Links(p, c) \/ Drops({<<p, c>>}))
      BY <2>1, LinkStep
    <2>3. <<p, c>> \in Edge
      BY DEF Edge
    <2> QED BY <2>2, <2>3 DEF OwnershipStep, HandoffStep
  <1>13. CASE Time
    BY <1>1, <1>13, PromoteDueStep, TimeStep DEF Time
  <1>14. CASE Retention
    BY <1>1, <1>14, RetentionStep DEF Retention
  <1> HIDE DEF Good
  <1> QED BY <1>4, <1>5, <1>6, <1>7, <1>8, <1>9, <1>10, <1>11, <1>12, <1>13, <1>14
          DEF Next, Good

\* Every row always has the shape of its table: no handler writes a value
\* outside the enumerations of schema.go, whatever it read.
THEOREM TypeCorrect == Spec => []TypeOK
  <1>1. Init => TypeOK
    BY AbsentRow, UnusedRow DEF Init, TypeOK
  <1>2. TypeOK /\ [Next]_vars => TypeOK'
    BY StepKinds
  <1> QED BY <1>1, <1>2, PTL DEF Spec

=============================================================================
