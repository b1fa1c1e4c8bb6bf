---------------------------- MODULE Supervision ----------------------------
(***************************************************************************)
(* The dispatcher (src/internal/dispatcher, runcontrol, processidentity)   *)
(* over one board: a goroutine per claimed run (runClaim, ExecuteTurn), the *)
(* periodic maintenance pass (recoverAbandonedRuns), the worker processes   *)
(* and an operator who terminates runs.  They share nothing but the store   *)
(* and the operating system, so every write is an action of TaskStore and   *)
(* every step between two writes is a step of its own: what a goroutine     *)
(* has read may be stale when it writes.                                   *)
(*                                                                         *)
(* Abstractions.  A claim and a runtime have expired or not; the graces,   *)
(* short beside them, are over at any time.  The work of a run is what it  *)
(* may write: read-only dispatchers have nothing to keep.  The maintenance *)
(* pass reads the row, the intent and the process of a run in one step.  A *)
(* process that ignores SIGTERM and one that is slow to obey it are the    *)
(* same: a signal changes nothing until the process exits.                 *)
(***************************************************************************)
EXTENDS TaskStore

CONSTANTS
    Goal,           \* the tasks in goal mode
    Limited,        \* the tasks with a maximum runtime
    PromptLaunch,   \* no claim or runtime expires while a goroutine launches
    Ambiguous,      \* the identity of a PID may be impossible to verify
    HealthWriteFails, \* the write of an agent's health may fail
    FailureLimit,   \* the failure limit the dispatcher is given (0: none)
    MaxStops        \* crashes and stops of the dispatcher

ASSUME SettingAssumption ==
    /\ Goal \subseteq Task /\ Limited \subseteq Task
    /\ {PromptLaunch, Ambiguous, HealthWriteFails} \subseteq BOOLEAN
    /\ FailureLimit \in FailureLimits /\ MaxRetries \in TaskLimits
    /\ MaxStops \in Nat

\* What the dispatcher passes to the store is among what callers pass to it.
ASSUME CallAssumption ==
    /\ UnsuccessfulOutcome \subseteq Outcomes
    /\ Reason # {}
    /\ "needs_input" \in Kinds /\ "ready" \in EditStatuses /\ "none" \in Schedules

VARIABLES
    handler,    \* handler[r]: where the goroutine of run r is
    process,    \* process[r]: the worker process of r and what it did; a
                \* change is "stray" when the PID of its author is not recorded
    clock,      \* clock[r]: the deadlines of r that have passed
    pass,       \* the maintenance pass
    up,         \* the dispatcher accepts work
    stops       \* crashes and stops so far

board == vars
dispatchVars == <<board, handler, process, clock, pass, up, stops>>

Phase == {"none", "claimed", "managed", "prepared", "turn", "start", "record",
          "wait", "stop", "exited", "doomed", "spared", "reclaim", "decide",
          "capture", "finalize", "fail", "pause", "judge", "judged", "over"}
Writing == {"claimed", "managed", "prepared", "reclaim", "decide", "capture",
            "finalize", "fail", "pause", "judge", "judged"}
Result == {"none", "ok", "failed", "timed_out", "canceled", "spawn_error",
           "unavailable", "accepted", "reclaimed"}
Deadline == {"claim", "runtime"}
Plan == {"idle", "defer", "force", "inspect", "block", "requeue"}

Handler == [at : Phase, result : Result]
Change == {"none", "recorded", "stray"}
Process == [state : {"none", "live", "tail", "dead"}, exit : {"none", "ok", "failed"},
            changed : Change]
Pass == [plan : Plan, run : Run \cup {None}, outcome : RunStatus]

Idle == [plan |-> "idle", run |-> None, outcome |-> "unused"]

DispatchInit ==
    /\ Init
    /\ handler = [r \in Run |-> [at |-> "none", result |-> "none"]]
    /\ process = [r \in Run |-> [state |-> "none", exit |-> "none", changed |-> "none"]]
    /\ clock = [r \in Run |-> {}]
    /\ pass = Idle
    /\ up = TRUE
    /\ stops = 0

-----------------------------------------------------------------------------
(* What can be seen of a run *)

At(r, phase) == handler[r].at = phase
Handled(r) == handler[r].at \notin {"none", "over"}
Alive(r) == process[r].state \in {"live", "tail"}

\* The run is in goal mode, or limited; its task may be gone by now.
IsGoal(r) == run[r].task \in Goal
IsLimited(r) == run[r].task \in Limited

\* Broken: a group whose leader exited is taken for dead.
SeenLeader(r) ==
    IF run[r].pid /\ process[r].state = "live" THEN {"worker"} ELSE {"gone"}

(* What the process identity and the process group of a recorded PID tell: *)
(* our worker, something that may be ours, or nothing of ours.             *)
Seen(r) ==
    CASE ~run[r].pid -> {"gone"}
      [] run[r].pid /\ process[r].state = "live" ->
            {"worker"} \cup (IF Ambiguous THEN {"unsure"} ELSE {})
      [] run[r].pid /\ process[r].state = "tail" -> {"unsure"}
      [] OTHER -> {"gone"} \cup (IF Ambiguous THEN {"unsure"} ELSE {})

(* A directory shared with others has no baseline: whatever ran in it has  *)
(* to be kept.  A worktree is compared with its recorded start.            *)
WorkSeen(r) == \/ run[r].workspace = "dir"
               \/ run[r].workspace = "worktree" /\ process[r].changed # "none"

Goes(r, phase) == handler' = [handler EXCEPT ![r].at = phase]
Leaves(r) == handler' = [handler EXCEPT ![r] = [at |-> "over", result |-> "none"]]

GoesWith(r, phase, result) ==
    handler' = [handler EXCEPT ![r] = [at |-> phase, result |-> result]]
Reset(r, deadlines) == clock' = [clock EXCEPT ![r] = @ \ deadlines]

-----------------------------------------------------------------------------
(* The goroutine of a run: launch *)

Created(t) ==
    /\ CreateTask(t, "ready", TRUE, "none", MaxRetries, {})
    /\ UNCHANGED <<handler, process, clock, pass, up, stops>>

Claim(t, r) ==
    /\ up
    /\ ClaimTask(t, r)
    /\ Goes(r, "claimed")
    /\ UNCHANGED <<process, clock, pass, up, stops>>

Manage(r) ==
    /\ At(r, "claimed")
    /\ MarkRunManaged(r)
    /\ Goes(r, "managed")
    /\ UNCHANGED <<process, clock, pass, up, stops>>

Prepare(r, kind) ==
    /\ At(r, "managed")
    /\ BindRunWorkspace(r, kind)
    /\ Goes(r, "prepared")
    /\ UNCHANGED <<process, clock, pass, up, stops>>

(* Registration, capacity, configuration, preparation, integration: every  *)
(* early failure gives the claim back, some of them uncounted and later.   *)
LaunchFails(r, reason) ==
    /\ handler[r].at \in {"claimed", "managed", "prepared"}
    /\ \/ FailRun(r, "failed", TRUE, FALSE, reason, FailureLimit)
       \/ /\ ~At(r, "claimed")
          /\ FailRun(r, "reclaimed", FALSE, TRUE, reason, FailureLimit)
    /\ Leaves(r)
    /\ UNCHANGED <<process, clock, pass, up, stops>>

\* The prerequisites are integrated: the first turn may begin.
Integrate(r) ==
    /\ At(r, "prepared")
    /\ Goes(r, "turn")
    /\ UNCHANGED <<board, process, clock, pass, up, stops>>

(* Integrating the prerequisites, the judge of a goal or its turn budget   *)
(* blocks the run: the request is recorded, then finalized.                *)
HandlerBlocks(r, kind, reason) ==
    /\ handler[r].at \in {"prepared", "judge", "judged"}
    /\ RequestRunBlock(r, kind, reason)
    /\ Goes(r, "capture")
    /\ UNCHANGED <<process, clock, pass, up, stops>>

(* ExecuteTurn reads the stored intent before it starts the process; the   *)
(* command may be impossible to build, the read fails once we are stopping. *)
CheckIntent(r) ==
    /\ At(r, "turn")
    /\ \/ run[r].reclaim = "none" /\ Goes(r, "start")
       \/ run[r].reclaim # "none" /\ GoesWith(r, "exited", "spawn_error")
       \/ ~up /\ GoesWith(r, "exited", "spawn_error")
       \/ GoesWith(r, "fail", "spawn_error")
    /\ UNCHANGED <<board, process, clock, pass, up, stops>>

Start(r) ==
    /\ At(r, "start")
    /\ \/ /\ process' = [process EXCEPT ![r].state = "live", ![r].exit = "none"]
          /\ Goes(r, "record")
       \/ /\ GoesWith(r, "exited", "spawn_error")
          /\ UNCHANGED process
    /\ UNCHANGED <<board, clock, pass, up, stops>>

\* The identity cannot be read, or the store refuses: the process is stopped.
RecordTurn(r) ==
    /\ At(r, "record")
    /\ \/ RecordSpawn(r) /\ GoesWith(r, "wait", "none")
       \/ GoesWith(r, "stop", "spawn_error") /\ UNCHANGED board
    /\ UNCHANGED <<process, clock, pass, up, stops>>

-----------------------------------------------------------------------------
(* The goroutine of a run: the end of a turn *)

(* The leader exited by itself; what is left of its group is killed, which *)
(* may take longer than the goroutine waits.                               *)
Collect(r) ==
    /\ At(r, "wait")
    /\ process[r].state \in {"tail", "dead"}
    /\ \E left \in {process[r].state, "dead"} :
          process' = [process EXCEPT ![r].state = left, ![r].exit = "none"]
    /\ GoesWith(r, "exited", process[r].exit)
    /\ UNCHANGED <<board, clock, pass, up, stops>>

CutShort(r) ==
    /\ At(r, "wait")
    /\ \/ ~up /\ GoesWith(r, "stop", "canceled")
       \/ IsLimited(r) /\ "runtime" \in clock[r] /\ GoesWith(r, "stop", "timed_out")
    /\ UNCHANGED <<board, process, clock, pass, up, stops>>

\* stopAndWait: SIGTERM, five seconds, SIGKILL, and the exit of the leader.
Stopped(r) ==
    /\ At(r, "stop")
    /\ \E left \in IF process[r].state = "dead" THEN {"dead"} ELSE {"tail", "dead"} :
          process' = [process EXCEPT ![r].state = left, ![r].exit = "none"]
    /\ Goes(r, "exited")
    /\ UNCHANGED <<board, clock, pass, up, stops>>

(* After the turn the goroutine reads the task, the stored intent, the      *)
(* process and the request one after another, and nobody waits for it to   *)
(* be done.  A run that is not ours any more is left to whoever owns it.    *)
LeaveLost(r) ==
    /\ At(r, "exited")
    /\ ~Active(r)
    /\ Leaves(r)
    /\ UNCHANGED <<board, process, clock, pass, up, stops>>

\* Broken: a stored termination is not looked for.
ReadNoIntent(r) ==
    /\ At(r, "exited")
    /\ Active(r)
    /\ Goes(r, "spared")
    /\ UNCHANGED <<board, process, clock, pass, up, stops>>

\* The intent found now is what the run ends with, or does not.
ReadIntent(r) ==
    /\ At(r, "exited")
    /\ Active(r)
    /\ \/ run[r].reclaim # "none" /\ GoesWith(r, "doomed", run[r].reclaim)
       \/ run[r].reclaim = "none" /\ Goes(r, "spared")
    /\ UNCHANGED <<board, process, clock, pass, up, stops>>

\* Something of the process may be alive: the run is left to the pass.
LookAtProcess(r) ==
    /\ At(r, "doomed") \/ At(r, "spared")
    /\ \/ Seen(r) # {"gone"} /\ Leaves(r)
       \/ "gone" \in Seen(r) /\ Goes(r, IF At(r, "doomed") THEN "reclaim" ELSE "decide")
    /\ UNCHANGED <<board, process, clock, pass, up, stops>>

(* A request to complete counts only if the process exited successfully.   *)
(* A termination stored since the intent was read is not looked at again.  *)
MayFinalize(r) == /\ PendingRequest(r)
                  /\ handler[r].result = "ok" \/ run[r].request = "block"

Premature(r) == IsGoal(r) /\ run[r].request = "complete"

\* Broken: a goal run is finalized on the word of its worker.
ReadAnyRequest(r) ==
    /\ At(r, "decide")
    /\ MayFinalize(r)
    /\ Goes(r, "capture")
    /\ UNCHANGED <<board, process, clock, pass, up, stops>>

ReadRequest(r) ==
    /\ At(r, "decide")
    /\ MayFinalize(r)
    /\ ~Premature(r)
    /\ Goes(r, "capture")
    /\ UNCHANGED <<board, process, clock, pass, up, stops>>

\* What follows when nothing is finalized; any output may look like a quota.
Unfinished(r) ==
    \/ handler[r].result = "ok" /\ IsGoal(r) /\ Goes(r, "pause")
    \/ ~(handler[r].result = "ok" /\ IsGoal(r)) /\ Goes(r, "fail")
    \/ /\ handler[r].result \in {"ok", "failed", "spawn_error"}
       /\ GoesWith(r, "fail", "unavailable")

DiscardPremature(r) ==
    /\ At(r, "decide")
    /\ MayFinalize(r)
    /\ Premature(r)
    /\ DiscardRunTerminalRequest(r)
    /\ Unfinished(r)
    /\ UNCHANGED <<process, clock, pass, up, stops>>

ReadNothing(r) ==
    /\ At(r, "decide")
    /\ ~MayFinalize(r)
    /\ Unfinished(r)
    /\ UNCHANGED <<board, process, clock, pass, up, stops>>

-----------------------------------------------------------------------------
(* The goroutine of a run: its last writes *)

\* finalizeManagedTerminal: a worktree is captured first.
Capture(r) ==
    /\ At(r, "capture")
    /\ \/ /\ run[r].request = "complete" /\ run[r].workspace = "worktree"
          /\ RecordRunChangeSet(r)
       \/ /\ ~(run[r].request = "complete" /\ run[r].workspace = "worktree"
               /\ ~run[r].captured)
          /\ PendingRequest(r)
          /\ UNCHANGED board
    /\ Goes(r, "finalize")
    /\ UNCHANGED <<process, clock, pass, up, stops>>

Finalize(r) ==
    /\ At(r, "finalize")
    /\ FinalizeRunTerminal(r)
    /\ Leaves(r)
    /\ UNCHANGED <<process, clock, pass, up, stops>>

\* The work is kept for review, and the error stops the dispatcher.
FinalizationFails(r, reason) ==
    /\ At(r, "capture") \/ At(r, "finalize")
    /\ RecoverRunBlocked(r, "blocked", "needs_input", reason)
    /\ Leaves(r)
    /\ up' = FALSE
    /\ UNCHANGED <<process, clock, pass, stops>>

FinishReclaim(r, reason) ==
    LET outcome == handler[r].result IN
    /\ At(r, "reclaim")
    /\ \/ /\ WorkSeen(r)
          /\ RecoverRunBlocked(r, "blocked", "needs_input", reason)
       \/ /\ ~WorkSeen(r)
          /\ RecoverAbandonedRun(r, outcome, outcome = "timed_out", reason)
    /\ Leaves(r)
    /\ UNCHANGED <<process, clock, pass, up, stops>>

\* Broken: a canceled turn is recorded under an outcome the schema refuses.
FailureOutcomeRaw(result) ==
    CASE result = "timed_out" -> "timed_out"
      [] result = "spawn_error" -> "spawn_failed"
      [] result = "ok" -> "protocol_violation"
      [] OTHER -> result

FailureOutcome(result) ==
    CASE result = "timed_out" -> "timed_out"
      [] result = "spawn_error" -> "spawn_failed"
      [] result = "ok" -> "protocol_violation"
      [] OTHER -> "failed"

\* Broken: a failed run is retried whatever it left behind.
FailUnpreserved(r, reason) ==
    /\ At(r, "fail")
    /\ handler[r].result # "unavailable"
    /\ FailRun(r, FailureOutcome(handler[r].result), TRUE, FALSE, reason, FailureLimit)
    /\ Leaves(r)
    /\ UNCHANGED <<process, clock, pass, up, stops>>

\* persistExecutionFailure
FailCounted(r, reason) ==
    /\ At(r, "fail")
    /\ handler[r].result # "unavailable"
    /\ \/ /\ WorkSeen(r)
          /\ RecoverRunBlocked(r, "blocked", "needs_input", reason)
       \/ /\ ~WorkSeen(r)
          /\ FailRun(r, FailureOutcome(handler[r].result), TRUE, FALSE, reason, FailureLimit)
    /\ Leaves(r)
    /\ UNCHANGED <<process, clock, pass, up, stops>>

(* The agent is missing, limited or logged out: its health is written      *)
(* first, and if that write fails the run is given back at once.           *)
FailUnavailable(r, reason) ==
    /\ At(r, "fail")
    /\ handler[r].result = "unavailable"
    /\ \/ /\ WorkSeen(r)
          /\ RecoverRunBlocked(r, "blocked", "needs_input", reason)
       \/ /\ ~WorkSeen(r)
          /\ \E outcome \in {"spawn_failed", "failed"} :
                FailRun(r, outcome, FALSE, FALSE, reason, FailureLimit)
       \/ /\ ~WorkSeen(r)
          /\ \E cooldown \in BOOLEAN :
                FailRun(r, "rate_limited", FALSE, cooldown, reason, FailureLimit)
       \/ /\ HealthWriteFails
          /\ FailRun(r, "reclaimed", FALSE, TRUE, reason, FailureLimit)
    /\ Leaves(r)
    /\ UNCHANGED <<process, clock, pass, up, stops>>

Pause(r) ==
    /\ At(r, "pause")
    /\ PauseGoalRun(r)
    /\ Goes(r, "judge")
    /\ Reset(r, {"claim"})
    /\ UNCHANGED <<process, pass, up, stops>>

NoSession(r) ==
    /\ At(r, "judge")
    /\ Goes(r, "fail")
    /\ UNCHANGED <<board, process, clock, pass, up, stops>>

\* RecordGoalJudgment extends the claim.
Judge(r) ==
    /\ At(r, "judge")
    /\ Active(r)
    /\ Goes(r, "judged")
    /\ Reset(r, {"claim"})
    /\ UNCHANGED <<board, process, pass, up, stops>>

AcceptGoal(r) ==
    /\ At(r, "judged")
    /\ RequestRunCompletion(r)
    /\ GoesWith(r, "capture", "accepted")
    /\ UNCHANGED <<process, clock, pass, up, stops>>

NextTurn(r) ==
    /\ At(r, "judged")
    /\ GoesWith(r, "turn", "none")
    /\ UNCHANGED <<board, process, clock, pass, up, stops>>

\* The request to block fails: the run is blocked without one.
BlockFallback(r, reason) ==
    /\ handler[r].at \in {"prepared", "judge", "judged"}
    /\ RecoverRunBlocked(r, "blocked", "needs_input", reason)
    /\ Leaves(r)
    /\ up' = FALSE
    /\ UNCHANGED <<process, clock, pass, stops>>

(* Somebody else ended the run: the next write of the goroutine fails, and *)
(* an error of a goroutine stops the dispatcher; but there is nothing to   *)
(* recover about a run that has ended, and no error in it.                 *)
Loses(r) ==
    /\ handler[r].at \in Writing
    /\ ~Active(r)
    /\ Leaves(r)
    /\ up' = (up /\ At(r, "reclaim") /\ ~WorkSeen(r))
    /\ UNCHANGED <<board, process, clock, pass, stops>>

-----------------------------------------------------------------------------
(* The worker process *)

Live(r) == process[r].state = "live"

Heartbeat(r) ==
    /\ Live(r)
    /\ Active(r)
    /\ Reset(r, {"claim"})
    /\ UNCHANGED <<board, handler, process, pass, up, stops>>

WorkerCompletes(r) ==
    /\ Live(r)
    /\ RequestRunCompletion(r)
    /\ UNCHANGED <<handler, process, clock, pass, up, stops>>

WorkerBlocks(r, kind, reason) ==
    /\ Live(r)
    /\ RequestRunBlock(r, kind, reason)
    /\ UNCHANGED <<handler, process, clock, pass, up, stops>>

\* The leader, or a descendant of it, changes the workspace.
Works(r) ==
    /\ Alive(r)
    /\ run[r].workspace # "none"
    /\ process' = [process EXCEPT ![r].changed =
          IF @ = "stray" \/ ~run[r].pid THEN "stray" ELSE "recorded"]
    /\ UNCHANGED <<board, handler, clock, pass, up, stops>>

Exits(r, exit) ==
    /\ Live(r)
    /\ exit # "none" <=> Handled(r)     \* else nobody waits for it
    /\ \E left \in {"tail", "dead"} :
          process' = [process EXCEPT ![r].state = left, ![r].exit = exit]
    /\ UNCHANGED <<board, handler, clock, pass, up, stops>>

TailEnds(r) ==
    /\ process[r].state = "tail"
    /\ process' = [process EXCEPT ![r].state = "dead"]
    /\ UNCHANGED <<board, handler, clock, pass, up, stops>>

-----------------------------------------------------------------------------
(* The maintenance pass: recoverAbandonedRuns *)

Overdue(r) == IsLimited(r) /\ "runtime" \in clock[r]
Lapsed(r) == "claim" \in clock[r]       \* or its heartbeat is stale
Crashed(r) == run[r].pid

\* Something may still run: it is asked to terminate, and that is recorded.
ShouldDefer(r, seen, o) ==
    /\ seen # "gone"
    /\ \/ Overdue(r) /\ run[r].reclaim # "timed_out" /\ o = "timed_out"
       \/ ~Overdue(r) /\ Lapsed(r) /\ run[r].reclaim = "none" /\ o = "reclaimed"

\* Broken: a worker that was asked to terminate is never killed for its runtime.
ShouldForceLapsed(r, seen, o) ==
    /\ seen = "worker"
    /\ o = run[r].reclaim
    /\ ~Overdue(r) /\ Lapsed(r) /\ o # "none"

ShouldForce(r, seen, o) ==
    /\ seen = "worker"
    /\ o = run[r].reclaim
    /\ \/ Overdue(r) /\ o = "timed_out"
       \/ ~Overdue(r) /\ Lapsed(r) /\ o # "none"

\* Nothing runs any more: the outcome the run is given.
ShouldRecover(r, seen, o) ==
    /\ seen = "gone"
    /\ \/ Overdue(r) /\ o = "timed_out"
       \/ ~Overdue(r) /\ \/ /\ run[r].reclaim # "none" /\ o = run[r].reclaim
                            /\ Crashed(r) \/ Lapsed(r)
                         \/ run[r].reclaim = "none" /\ Crashed(r) /\ o = "crashed"
                         \/ /\ run[r].reclaim = "none" /\ o = "reclaimed"
                            /\ ~Crashed(r) /\ Lapsed(r)

PassInspects(r, o) ==
    /\ up /\ pass = Idle
    /\ Active(r)
    /\ \E seen \in Seen(r), plan \in {"defer", "force", "inspect"} :
          /\ plan = "defer" => ShouldDefer(r, seen, o)
          /\ plan = "force" => ShouldForce(r, seen, o)
          /\ plan = "inspect" => ShouldRecover(r, seen, o)
          /\ pass' = [plan |-> plan, run |-> r, outcome |-> o]
    /\ UNCHANGED <<board, handler, process, clock, up, stops>>

Plans(plan, r) == pass.plan = plan /\ pass.run = r

\* The intent moves the claim; a heartbeat that is stale stays stale.
PassDefers(r) ==
    /\ Plans("defer", r)
    /\ DeferRunRecovery(r, pass.outcome)
    /\ pass' = Idle
    /\ Reset(r, {}) \/ Reset(r, {"claim"})
    /\ UNCHANGED <<handler, process, up, stops>>

\* SIGKILL reaches the leader only.
PassForces(r) ==
    /\ Plans("force", r)
    /\ DeferRunRecovery(r, pass.outcome)
    /\ pass' = Idle
    /\ IF Live(r)
       THEN \E left \in {"tail", "dead"} :
               process' = [process EXCEPT ![r].state = left,
                             ![r].exit = IF Handled(r) THEN "failed" ELSE "none"]
       ELSE UNCHANGED process
    /\ Reset(r, {}) \/ Reset(r, {"claim"})
    /\ UNCHANGED <<handler, up, stops>>

PassLooks(r) ==
    /\ Plans("inspect", r)
    /\ pass' = [pass EXCEPT !.plan = IF WorkSeen(r) THEN "block" ELSE "requeue"]
    /\ UNCHANGED <<board, handler, process, clock, up, stops>>

PassWrites(r, reason) ==
    /\ \/ /\ Plans("block", r)
          /\ RecoverRunBlocked(r, pass.outcome, "needs_input", reason)
       \/ /\ Plans("requeue", r)
          /\ RecoverAbandonedRun(r, pass.outcome, pass.outcome # "reclaimed", reason)
    /\ pass' = Idle
    /\ UNCHANGED <<handler, process, clock, up, stops>>

(* The run ended between the reads and the write.  To requeue it is then   *)
(* nothing at all; any other write is an error, and stops the dispatcher.  *)
PassLoses(r) ==
    /\ pass.run = r /\ pass.plan # "inspect"
    /\ ~Active(r)
    /\ pass' = Idle
    /\ up' = (up /\ pass.plan = "requeue")
    /\ UNCHANGED <<board, handler, process, clock, stops>>

PassAbandons ==
    /\ ~up /\ pass # Idle
    /\ pass' = Idle
    /\ UNCHANGED <<board, handler, process, clock, up, stops>>

PromoteDue ==
    /\ up
    /\ PromoteDueTasks
    /\ UNCHANGED <<handler, process, clock, pass, up, stops>>

-----------------------------------------------------------------------------
(* Operators, time and restarts *)

(* TerminateRun stores the intent and signals.  Only what no dispatcher    *)
(* manages and no process may belong to is given back by the operator.     *)
Terminate(r) ==
    /\ Active(r)
    /\ run[r].reclaim = "none"      \* bound: a repeated call moves deadlines
    /\ DeferRunRecovery(r, "reclaimed")
    /\ Reset(r, {}) \/ Reset(r, {"claim"})
    /\ UNCHANGED <<handler, process, pass, up, stops>>

TerminateUnmanaged(r, reason) ==
    /\ run[r].reclaim = "reclaimed"
    /\ ~run[r].managed
    /\ "gone" \in Seen(r)
    /\ RecoverAbandonedRun(r, "reclaimed", FALSE, reason)
    /\ UNCHANGED <<handler, process, clock, pass, up, stops>>

Passes(r, d) ==
    /\ Active(r)
    /\ d \notin clock[r]
    /\ d = "runtime" => IsLimited(r)
    /\ PromptLaunch => ~(Handled(r) /\ ~run[r].pid)
    /\ clock' = [clock EXCEPT ![r] = @ \cup {d}]
    /\ UNCHANGED <<board, handler, process, pass, up, stops>>

CooldownEnds(t) ==
    /\ ScheduleFallsDue(t)
    /\ UNCHANGED <<handler, process, clock, pass, up, stops>>

\* The processes of the workers survive the dispatcher.
Crash ==
    /\ stops < MaxStops
    /\ stops' = stops + 1
    /\ handler' = [r \in Run |-> IF Handled(r) THEN [at |-> "over", result |-> "none"]
                                 ELSE handler[r]]
    /\ process' = [r \in Run |-> [process[r] EXCEPT !.exit = "none"]]
    /\ pass' = Idle
    /\ up' = FALSE
    /\ UNCHANGED <<board, clock>>

Stop ==
    /\ up
    /\ stops < MaxStops
    /\ stops' = stops + 1
    /\ up' = FALSE
    /\ UNCHANGED <<board, handler, process, clock, pass>>

Restart ==
    /\ ~up
    /\ pass = Idle
    /\ \A r \in Run : ~Handled(r)
    /\ up' = TRUE
    /\ UNCHANGED <<board, handler, process, clock, pass, stops>>

-----------------------------------------------------------------------------
Launching(r) ==
    \/ Manage(r) \/ Integrate(r) \/ CheckIntent(r) \/ Start(r) \/ RecordTurn(r)
    \/ \E kind \in Workspaces : Prepare(r, kind)
    \/ \E reason \in Reason : LaunchFails(r, reason) \/ BlockFallback(r, reason)
    \/ \E kind \in Kinds, reason \in Reason : HandlerBlocks(r, kind, reason)

EndOfTurn(r) ==
    \/ Collect(r) \/ CutShort(r) \/ Stopped(r) \/ LeaveLost(r)
    \/ ReadIntent(r) \/ LookAtProcess(r)
    \/ ReadRequest(r) \/ DiscardPremature(r) \/ ReadNothing(r)

Ending(r) ==
    \/ Capture(r) \/ Finalize(r) \/ Loses(r)
    \/ Pause(r) \/ NoSession(r) \/ Judge(r) \/ AcceptGoal(r) \/ NextTurn(r)
    \/ \E reason \in Reason : \/ FinalizationFails(r, reason) \/ FinishReclaim(r, reason)
                              \/ FailCounted(r, reason) \/ FailUnavailable(r, reason)

Goroutine(r) == Launching(r) \/ EndOfTurn(r) \/ Ending(r)

Worker(r) ==
    \/ Heartbeat(r) \/ WorkerCompletes(r) \/ Works(r)
    \/ \E kind \in Kinds, reason \in Reason : WorkerBlocks(r, kind, reason)
    \/ \E exit \in {"none", "ok", "failed"} : Exits(r, exit)

Maintenance == \E r \in Run :
    \/ \E o \in {"timed_out", "reclaimed", "crashed"} : PassInspects(r, o)
    \/ PassDefers(r) \/ PassForces(r) \/ PassLooks(r) \/ PassLoses(r)
    \/ \E reason \in Reason : PassWrites(r, reason)

Operator == \E r \in Run :
    Terminate(r) \/ \E reason \in Reason : TerminateUnmanaged(r, reason)

DispatchNext ==
    \/ \E t \in Task : \/ Created(t) \/ CooldownEnds(t)
                       \/ \E r \in Run : Claim(t, r)
    \/ \E r \in Run : \/ Goroutine(r) \/ Worker(r) \/ TailEnds(r)
                      \/ \E d \in Deadline : Passes(r, d)
    \/ Maintenance \/ PassAbandons \/ PromoteDue \/ Operator
    \/ Crash \/ Stop \/ Restart

DispatchSpec == DispatchInit /\ [][DispatchNext]_dispatchVars

(* Goroutines run, the pass is periodic, time passes, a dispatcher that    *)
(* stopped is started again, and descendants that outlive a killed leader  *)
(* end.  Nothing is assumed of the worker, the claims or the operator.  A  *)
(* turn that starts after the runtime is over is given one millisecond, so *)
(* the workers of a goal do not escape the timer for ever.                 *)
DispatchFairness ==
    /\ WF_dispatchVars(Maintenance) /\ WF_dispatchVars(PassAbandons) /\ WF_dispatchVars(Restart)
    /\ \A r \in Run : /\ WF_dispatchVars(Goroutine(r)) /\ SF_dispatchVars(CutShort(r))
                      /\ WF_dispatchVars(TailEnds(r))
                      /\ \A d \in Deadline : WF_dispatchVars(Passes(r, d))

FairDispatchSpec == DispatchSpec /\ DispatchFairness

-----------------------------------------------------------------------------
(* Properties *)

DispatchTypeOK ==
    /\ TypeOK
    /\ handler \in [Run -> Handler]
    /\ process \in [Run -> Process]
    /\ clock \in [Run -> SUBSET Deadline]
    /\ pass \in Pass
    /\ up \in BOOLEAN /\ stops \in 0..MaxStops

(* A process that can be found from the store belongs to a run that still  *)
(* owns its task: no verdict, crash or stop gives the task to a second     *)
(* worker while the first one, or what it left behind, may still write; so *)
(* no task has two workers that can be found from the store.               *)
NoOverlap == \A r \in Run : Alive(r) /\ run[r].pid => Active(r)

(* README.md:682-684: a failed, timed-out or canceled run that changed its *)
(* workspace is kept for review; neither a retry nor a fallback starts on  *)
(* top of its work, whoever ended it.                                      *)
PartialWorkKept ==
    \A r \in Run :
        /\ run[r].status \in UnsuccessfulOutcome
        /\ process[r].changed = "recorded"
        => task[run[r].task].status \notin {"ready", "scheduled", "running"}

(* README.md:673-676: once the worker has exited successfully the run is   *)
(* captured and finalized; nobody declares it crashed meanwhile.           *)
FinalizationUndisturbed ==
    \A r \in Run : (At(r, "capture") \/ At(r, "finalize")) /\ handler[r].result = "ok"
                      => run[r].status # "crashed"

\* A goal is completed on the word of its judge, never of its worker.
GoalNeedsJudge ==
    [][\A r \in Run : /\ run[r].status # "completed" /\ run'[r].status = "completed"
                      /\ IsGoal(r)
                      => handler[r].result = "accepted"]_dispatchVars

\* Every run of a task with a maximum runtime ends and gives its task back.
RunsEnd == \A r \in Run : Active(r) ~> ~Active(r)
=============================================================================
