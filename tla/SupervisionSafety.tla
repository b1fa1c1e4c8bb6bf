------------------------- MODULE SupervisionSafety -------------------------
(***************************************************************************)
(* No two workers of one task, and no retry on top of unfinished work: for *)
(* every number of tasks, runs, restarts and verdicts, of every run that   *)
(* is not in goal mode, where nothing expires during a launch.  (A goal    *)
(* goes on by itself after its process ended, and a verdict of the         *)
(* maintenance pass may be older than the next turn.)                      *)
(***************************************************************************)
EXTENDS SupervisionProofs, Terminations

\* The phases before the PID of a process is recorded.
PreSpawn == {"claimed", "managed", "prepared", "turn", "start", "record"}
Judging == {"pause", "judge", "judged"}

\* No process that the store knows of may still write.
Harmless(r) == ~(Alive(r) /\ run[r].pid)

\* A run that was not claimed has no process, no deadline and no goroutine.
Fresh(r) ==
    run[r].status = "unused" =>
        /\ clock[r] = {} /\ process[r].state = "none" /\ process[r].changed = "none"
        /\ ~Handled(r) /\ pass.run # r

\* Whoever is about to end a run has seen that its process is gone, and a
\* process is recorded only by a goroutine that nobody is about to end.
Guarded(r) ==
    /\ handler[r].at \in PreSpawn => ~run[r].pid /\ clock[r] = {}
    /\ handler[r].at \notin Judging
    /\ handler[r].at \in {"record", "wait", "stop"} => process[r].state # "none"
    /\ handler[r].at \in {"reclaim", "decide", "capture", "finalize", "fail"} => Harmless(r)
    /\ pass.run = r /\ pass.plan \in {"inspect", "block", "requeue"} =>
          Harmless(r) /\ handler[r].at \notin PreSpawn
    /\ Harmless(r) \/ Active(r)

-----------------------------------------------------------------------------
(* Who acts, and what it leaves alone                                      *)

Still(r) == /\ run'[r] = run[r] /\ handler'[r] = handler[r]
            /\ process'[r] = process[r] /\ clock'[r] = clock[r]

\* The operations of the store on one run that leave its process and its
\* workspace alone.
Edits(q) ==
    \/ MarkRunManaged(q) \/ RecordRunChangeSet(q)
    \/ RequestRunCompletion(q) \/ \E kind, reason : RequestRunBlock(q, kind, reason)
    \/ DiscardRunTerminalRequest(q)
    \/ \E outcome \in {"reclaimed", "timed_out"} : DeferRunRecovery(q, outcome)

LEMMA EditsOthers ==
    ASSUME TypeOK, NEW q \in Run,
           \/ Edits(q) \/ RecordSpawn(q) \/ PauseGoalRun(q) \/ \E kind : BindRunWorkspace(q, kind)
    PROVE  (\A r \in Run \ {q} : run'[r] = run[r]) /\ task' = task /\ preflight' = preflight
BY DEF TypeOK, Edits, MarkRunManaged, RecordSpawn, PauseGoalRun, RecordRunChangeSet,
   BindRunWorkspace, RequestRunCompletion, RequestRunBlock, DiscardRunTerminalRequest,
   DeferRunRecovery

\* The ways in which a run ends.
Finishes(q) == 
    \/ FinalizeRunTerminal(q)
    \/ \E outcome, counted, cooldown, reason, limit :
          FinishUnsuccessful(q, outcome, counted, cooldown, reason, limit)
    \/ \E outcome, kind, reason : RecoverRunBlocked(q, outcome, kind, reason)

LEMMA EndingOthers ==
    ASSUME TypeOK, NEW q \in Run, Finishes(q)
    PROVE  (\A r \in Run \ {q} : run'[r] = run[r]) /\ preflight' = preflight
BY DEF TypeOK, Finishes, FinalizeRunTerminal, FinalizeCompletion, FinalizeBlock,
   FinishUnsuccessful, RecoverRunBlocked

Passing(q) ==
    \/ \E o \in {"timed_out", "reclaimed", "crashed"} : PassInspects(q, o)
    \/ PassDefers(q) \/ PassForces(q) \/ PassLooks(q) \/ PassLoses(q)
    \/ \E reason \in Reason : PassWrites(q, reason)

Operating(q) == Terminate(q) \/ \E reason \in Reason : TerminateUnmanaged(q, reason)

\* A step about the run q, after its claim.
Acts(q) == Goroutine(q) \/ Worker(q) \/ TailEnds(q) \/ Passing(q) \/ Operating(q)
           \/ \E d \in Deadline : Passes(q, d)

Claiming(q) == \E t \in Task : Claim(t, q)

\* A step about no run.
Around == \/ \E t \in Task : Created(t) \/ CooldownEnds(t)
          \/ PassAbandons \/ PromoteDue \/ Stop \/ Restart \/ UNCHANGED dispatchVars

LEMMA StepActs ==
    ASSUME [DispatchNext]_dispatchVars
    PROVE  (\E q \in Run : Acts(q) \/ Claiming(q)) \/ Around \/ Crash
BY DEF DispatchNext, Acts, Claiming, Around, Passing, Operating, Maintenance, Operator

LEMMA GoroutineWrites ==
    ASSUME NEW q \in Run, Goroutine(q)
    PROVE  \/ RecordTurn(q) \/ Pause(q) \/ \E kind \in Workspaces : Prepare(q, kind)
           \/ Edits(q) \/ Finishes(q) \/ UNCHANGED <<task, run, preflight>>
<1>1. CASE Launching(q)
  BY <1>1 DEF Launching, Manage, Integrate, CheckIntent, Start, LaunchFails,
     BlockFallback, HandlerBlocks, FailRun, Edits, Finishes, board, vars
<1>2. CASE EndOfTurn(q)
  BY <1>2 DEF EndOfTurn, Collect, CutShort, Stopped, LeaveLost, ReadIntent,
     LookAtProcess, ReadRequest,
     DiscardPremature, ReadNothing, Edits, board, vars
<1>3. CASE Ending(q)
  BY <1>3 DEF Ending, Capture, Finalize, Loses, NoSession, Judge, AcceptGoal, NextTurn,
     FinalizationFails, FinishReclaim, FailCounted, FailUnavailable, FailRun,
     RecoverAbandonedRun, Edits, Finishes, board, vars
<1> QED BY <1>1, <1>2, <1>3 DEF Goroutine

LEMMA ActsWrites ==
    ASSUME DispatcherOK, NEW q \in Run, Acts(q)
    PROVE  \/ RecordTurn(q) \/ Pause(q) \/ \E kind \in Workspaces : Prepare(q, kind)
           \/ Edits(q) \/ Finishes(q) \/ UNCHANGED <<task, run, preflight>>
<1>1. CASE Goroutine(q)
  BY <1>1, GoroutineWrites
<1>2. CASE Worker(q) \/ TailEnds(q) \/ \E d \in Deadline : Passes(q, d)
  BY <1>2 DEF Worker, Heartbeat, WorkerCompletes, Works, WorkerBlocks, Exits, TailEnds, Passes,
     Edits, board, vars
<1>3. CASE Passing(q)
  <2>1. Plans("defer", q) \/ Plans("force", q) => pass.outcome \in {"reclaimed", "timed_out"}
    BY DEF Plans, DispatcherOK, PassOK
  <2> QED BY <1>3, <2>1 DEF Passing, PassInspects, PassDefers, PassForces, PassLooks, PassLoses,
             PassWrites, RecoverAbandonedRun, Edits, Finishes, board, vars
<1>4. CASE Operating(q)
  BY <1>4 DEF Operating, Terminate, TerminateUnmanaged, RecoverAbandonedRun, Edits, Finishes
<1> QED BY <1>1, <1>2, <1>3, <1>4 DEF Acts

LEMMA ActsBoard ==
    ASSUME TypeOK, DispatcherOK, NEW q \in Run, Acts(q)
    PROVE  (\A r \in Run \ {q} : run'[r] = run[r]) /\ preflight' = preflight
BY ActsWrites, EditsOthers, EndingOthers DEF RecordTurn, Prepare, Pause, board, vars

LEMMA ActsHandler ==
    ASSUME DispatcherOK, NEW q \in Run, Acts(q)
    PROVE  \A r \in Run \ {q} : handler'[r] = handler[r]
<1>1. CASE Goroutine(q)
  BY <1>1, Moves DEF DispatcherOK
<1>2. CASE Worker(q) \/ TailEnds(q) \/ \E d \in Deadline : Passes(q, d)
  BY <1>2 DEF Worker, Heartbeat, WorkerCompletes, Works, WorkerBlocks, Exits, TailEnds, Passes
<1>3. CASE Passing(q) \/ Operating(q)
  BY <1>3 DEF Passing, PassInspects, PassDefers, PassForces, PassLooks, PassLoses, PassWrites,
     Operating, Terminate, TerminateUnmanaged
<1> QED BY <1>1, <1>2, <1>3 DEF Acts

LEMMA GoroutineProcess ==
    ASSUME DispatcherOK, NEW q \in Run, Goroutine(q)
    PROVE  /\ \A r \in Run \ {q} : process'[r] = process[r] /\ clock'[r] = clock[r]
           /\ process'[q].changed = process[q].changed
           /\ clock'[q] \subseteq clock[q]
           /\ pass' = pass
<1>1. process \in [Run -> Process] /\ clock \in [Run -> SUBSET Deadline]
  BY DEF DispatcherOK, ProcessOK, RestOK
<1>2. CASE Launching(q)
  BY <1>1, <1>2 DEF Launching, Manage, Integrate, CheckIntent, Start, RecordTurn, Prepare,
     LaunchFails, BlockFallback, HandlerBlocks, Process
<1>3. CASE EndOfTurn(q)
  <2>1. ASSUME NEW left, process' = [process EXCEPT ![q].state = left, ![q].exit = "none"]
        PROVE  /\ \A r \in Run \ {q} : process'[r] = process[r]
               /\ process'[q].changed = process[q].changed
    <3>1. process[q] \in Process
      BY <1>1
    <3>2. process' = [process EXCEPT ![q] = [[process[q] EXCEPT !.state = left] EXCEPT !.exit = "none"]]
      BY <1>1, <2>1
    <3> QED BY <1>1, <3>1, <3>2 DEF Process
  <2>2. CASE Collect(q) \/ Stopped(q)
    BY <2>1, <2>2 DEF Collect, Stopped
  <2>3. CASE UNCHANGED <<process, clock, pass>>
    BY <2>3
  <2> QED BY <1>3, <2>2, <2>3 DEF EndOfTurn, CutShort, LeaveLost, ReadIntent,
     LookAtProcess, ReadRequest,
             DiscardPremature, ReadNothing
<1>4. CASE Ending(q)
  BY <1>1, <1>4 DEF Ending, Capture, Finalize, Loses, Pause, NoSession, Judge, AcceptGoal,
     NextTurn, FinalizationFails, FinishReclaim, FailCounted, FailUnavailable, Reset, Process
<1> QED BY <1>2, <1>3, <1>4 DEF Goroutine

LEMMA ActsProcess ==
    ASSUME DispatcherOK, NEW q \in Run, Acts(q)
    PROVE  /\ \A r \in Run \ {q} : process'[r] = process[r] /\ clock'[r] = clock[r]
           /\ pass' = pass \/ pass' = Idle \/ pass'.run = q
<1>1. /\ process \in [Run -> Process] /\ clock \in [Run -> SUBSET Deadline]
      /\ pass \in Pass
  BY DEF DispatcherOK, ProcessOK, RestOK, PassOK
<1>2. CASE Goroutine(q)
  BY <1>2, GoroutineProcess
<1>3. CASE Worker(q) \/ TailEnds(q) \/ \E d \in Deadline : Passes(q, d)
  BY <1>1, <1>3 DEF Worker, Heartbeat, WorkerCompletes, Works, WorkerBlocks, Exits, TailEnds,
     Passes, Reset
<1>4. CASE \E o \in {"timed_out", "reclaimed", "crashed"} : PassInspects(q, o)
  BY <1>4 DEF PassInspects
<1>5. CASE PassDefers(q) \/ PassForces(q)
  BY <1>1, <1>5 DEF PassDefers, PassForces, Reset
<1>6. CASE PassLooks(q)
  BY <1>1, <1>6 DEF PassLooks, Plans, Pass
<1>7. CASE PassLoses(q) \/ \E reason \in Reason : PassWrites(q, reason)
  BY <1>7 DEF PassLoses, PassWrites
<1>8. CASE Operating(q)
  BY <1>1, <1>8 DEF Operating, Terminate, TerminateUnmanaged, Reset
<1> QED BY <1>2, <1>3, <1>4, <1>5, <1>6, <1>7, <1>8 DEF Acts, Passing

\* A step about a run leaves the other runs, and their goroutines, alone.
LEMMA ActsAlone ==
    ASSUME TypeOK, DispatcherOK, NEW q \in Run, Acts(q)
    PROVE  /\ \A r \in Run \ {q} : Still(r)
           /\ preflight' = preflight
           /\ pass' = pass \/ pass' = Idle \/ pass'.run = q
BY ActsBoard, ActsHandler, ActsProcess DEF Still

LEMMA ClaimAlone ==
    ASSUME TypeOK, DispatcherOK, NEW q \in Run, Claiming(q)
    PROVE  /\ \A r \in Run \ {q} : Still(r)
           /\ preflight' = preflight /\ pass' = pass
<1>1. \A r \in Run \ {q} : handler'[r] = handler[r]
  BY Moves DEF Claiming, DispatcherOK
<1> QED BY <1>1 DEF Still, Claiming, Claim, ClaimTask, TypeOK

LEMMA AroundAlone ==
    ASSUME Around
    PROVE  (\A r \in Run : Still(r)) /\ preflight' = preflight /\ pass' \in {pass, Idle}
BY DEF Around, Still, Created, CreateTask, CooldownEnds, ScheduleFallsDue, PassAbandons,
   PromoteDue, PromoteDueTasks, Stop, Restart, dispatchVars, board, vars

\* A run that goes on running keeps its task.
LEMMA StaysActive ==
    ASSUME TypeOK, DispatcherOK, [DispatchNext]_dispatchVars, NEW r \in Run, Active(r),
           run'[r].status = "running"
    PROVE  Active(r)'
<1>1. preflight' = preflight
  <2>1. CASE Crash
    BY <2>1 DEF Crash, board, vars
  <2> QED BY <2>1, StepActs, ActsAlone, ClaimAlone, AroundAlone
<1>2. OwnershipStep
  BY StepWrites, StepKinds
<1> QED BY <1>1, <1>2, OrphanStep

-----------------------------------------------------------------------------
(* What a step does to the row of its run                                  *)

\* A run that was used is never unused again.
LEMMA StaysUsed ==
    ASSUME TypeOK, DispatcherOK, [DispatchNext]_dispatchVars, NEW r \in Run,
           run[r].status # "unused"
    PROVE  run'[r].status # "unused"
<1>1. OwnershipStep
  BY StepWrites, StepKinds
<1>2. "unused" \notin EndedStatus
  BY DEF EndedStatus, UnsuccessfulOutcome
<1> QED BY <1>1, <1>2 DEF OwnershipStep, Quiet, Claims, Ends, Settles, Deletes, RunKept

LEMMA DiscardedKeeps ==
    ASSUME NEW row \in RunRow
    PROVE  /\ Discarded(row) \in RunRow
           /\ Discarded(row).task = row.task /\ Discarded(row).status = row.status
           /\ Discarded(row).pid = row.pid /\ Discarded(row).managed = row.managed
           /\ Discarded(row).workspace = row.workspace
BY NoneAssumption DEF Discarded, RunRow, Request, BlockKind

LEMMA EditedRow ==
    ASSUME TypeOK, NEW q \in Run, Edits(q)
    PROVE  /\ run'[q].task = run[q].task
           /\ run'[q].status = run[q].status
           /\ run'[q].pid = run[q].pid
           /\ run'[q].workspace = run[q].workspace
           /\ run[q].managed => run'[q].managed
<1>1. run \in [Run -> RunRow] /\ run[q] \in RunRow
  BY DEF TypeOK
<1>2. CASE MarkRunManaged(q) \/ RecordRunChangeSet(q)
  BY <1>1, <1>2 DEF RunRow, MarkRunManaged, RecordRunChangeSet
<1>3. CASE RequestRunCompletion(q)
  BY <1>1, <1>3 DEF RunRow, RequestRunCompletion
<1>4. CASE \E kind, reason : RequestRunBlock(q, kind, reason)
  BY <1>1, <1>4 DEF RunRow, RequestRunBlock
<1>5. CASE DiscardRunTerminalRequest(q)
  BY <1>1, <1>5, DiscardedKeeps DEF DiscardRunTerminalRequest
<1>6. CASE \E outcome \in {"reclaimed", "timed_out"} : DeferRunRecovery(q, outcome)
  BY <1>1, <1>6 DEF RunRow, DeferRunRecovery
<1> QED BY <1>2, <1>3, <1>4, <1>5, <1>6 DEF Edits

LEMMA FinishedRunRow ==
    ASSUME TypeOK, NEW q \in Run, Finishes(q)
    PROVE  /\ run'[q].task = run[q].task
           /\ run'[q].pid = run[q].pid
           /\ run'[q].managed = run[q].managed
           /\ run'[q].workspace = run[q].workspace
<1>1. run \in [Run -> RunRow] /\ run[q] \in RunRow
  BY DEF TypeOK
<1>2. CASE FinalizeRunTerminal(q)
  BY <1>1, <1>2 DEF RunRow, FinalizeRunTerminal, FinalizeCompletion, FinalizeBlock
<1>3. CASE \E outcome : FailsAs(q, outcome)
  <2>1. PICK outcome : run' = [run EXCEPT ![q] = [Discarded(run[q]) EXCEPT !.status = outcome]]
    BY <1>3 DEF FailsAs
  <2>2. run'[q] = [Discarded(run[q]) EXCEPT !.status = outcome]
    BY <1>1, <2>1
  <2>3. Discarded(run[q]) \in RunRow
    BY <1>1, DiscardedKeeps
  <2> QED BY <1>1, <2>2, <2>3, DiscardedKeeps DEF RunRow
<1>4. FinalizeRunTerminal(q) \/ \E outcome : FailsAs(q, outcome)
  BY DEF Finishes, FinishUnsuccessful, RecoverRunBlocked, FailsAs
<1> QED BY <1>2, <1>3, <1>4

\* Only a goroutine that prepares chooses the workspace, only one that starts
\* a process records it and only one that pauses a goal forgets it.
LEMMA ActsRow ==
    ASSUME TypeOK, DispatcherOK, NEW q \in Run, Acts(q)
    PROVE  /\ run'[q].task = run[q].task
           /\ RecordTurn(q) \/ (run'[q].pid => run[q].pid)
           /\ Pause(q) \/ (run[q].pid => run'[q].pid)
           /\ run[q].managed => run'[q].managed
           /\ \/ run'[q].workspace = run[q].workspace
              \/ run[q].workspace = "none" /\ \E kind \in Workspaces : Prepare(q, kind)
<1>1. CASE RecordTurn(q)
  BY <1>1 DEF RecordTurn, RecordSpawn, TypeOK, RunRow, board, vars
<1>2. CASE Pause(q)
  BY <1>2 DEF Pause, PauseGoalRun, TypeOK, RunRow
<1>3. CASE \E kind \in Workspaces : Prepare(q, kind)
  <2>1. PICK kind \in Workspaces : run' = [run EXCEPT ![q].workspace = kind]
    BY <1>3 DEF Prepare, BindRunWorkspace
  <2>2. run[q].workspace = "none"
    BY <1>3 DEF Prepare, BindRunWorkspace
  <2>3. /\ run'[q].task = run[q].task /\ run'[q].pid = run[q].pid
        /\ run'[q].managed = run[q].managed
    BY <2>1 DEF TypeOK, RunRow
  <2> QED BY <1>3, <2>2, <2>3
<1>4. CASE Edits(q) \/ Finishes(q) \/ UNCHANGED <<task, run, preflight>>
  BY <1>4, EditedRow, FinishedRunRow
<1> QED BY <1>1, <1>2, <1>3, <1>4, ActsWrites

-----------------------------------------------------------------------------
(* A step that keeps a run guarded                                         *)

Verdicts == {"inspect", "block", "requeue"}
Holding == {"record", "wait", "stop"}
Settling == {"reclaim", "decide", "capture", "finalize", "fail"}
Reading == {"exited", "doomed", "spared"}

Tame(r) ==
    /\ Alive(r)' => Alive(r) \/ ~run[r].pid
    /\ run'[r].status = run[r].status \/ Harmless(r)
    /\ clock'[r] \subseteq clock[r] \/ handler'[r].at \notin PreSpawn
    /\ handler'[r].at \in PreSpawn => handler[r].at \in PreSpawn
    /\ handler'[r].at \notin Judging
    /\ handler'[r].at \in Holding => process'[r].state # "none"
    /\ handler'[r].at \in Settling => Harmless(r)
    /\ \/ pass' = pass
       \/ pass'.run = r /\ pass'.plan \in Verdicts =>
             Harmless(r) /\ handler'[r].at \notin PreSpawn

Safe(r) == Fresh(r) /\ (~IsGoal(r) => Guarded(r))

LEMMA TameSafe ==
    ASSUME TypeOK, DispatcherOK, [DispatchNext]_dispatchVars, NEW r \in Run, Safe(r),
           run[r].status # "unused", run'[r].task = run[r].task, run'[r].pid => run[r].pid,
           ~IsGoal(r) => Tame(r)
    PROVE  Safe(r)'
<1>1. Fresh(r)'
  BY StaysUsed DEF Fresh
<1>2. SUFFICES ASSUME ~IsGoal(r)' PROVE Guarded(r)'
  BY <1>1 DEF Safe
<1>3. Guarded(r) /\ Tame(r)
  BY <1>2 DEF Safe, IsGoal
<1>4. Harmless(r) => Harmless(r)'
  BY <1>3 DEF Harmless, Tame
<1>5. Harmless(r)' \/ Active(r)'
  <2>1. CASE Harmless(r)
    BY <1>4, <2>1
  <2>2. CASE ~Harmless(r)
    <3>1. Active(r) /\ run'[r].status = "running"
      BY <1>3, <2>2 DEF Guarded, Tame, Active
    <3> QED BY <3>1, StaysActive
  <2> QED BY <2>1, <2>2
<1>6. (handler[r].at)' \in PreSpawn => ~(run[r].pid)' /\ (clock[r])' = {}
  <2>1. ASSUME handler'[r].at \in PreSpawn
        PROVE  ~run[r].pid /\ clock[r] = {} /\ clock'[r] \subseteq clock[r]
    BY <1>3, <2>1 DEF Guarded, Tame
  <2> QED BY <2>1
<1>7. (pass.run)' = r /\ (pass.plan)' \in Verdicts =>
         Harmless(r)' /\ (handler[r].at)' \notin PreSpawn
  BY <1>3, <1>4 DEF Guarded, Tame, Verdicts
<1> QED BY <1>3, <1>4, <1>5, <1>6, <1>7 DEF Guarded, Tame, Verdicts, Holding, Settling

\* A run that nobody acts on.
LEMMA StillSafe ==
    ASSUME TypeOK, DispatcherOK, [DispatchNext]_dispatchVars, NEW r \in Run, Safe(r),
           Still(r), pass' = pass \/ pass' = Idle \/ pass'.run # r
    PROVE  Safe(r)'
<1>0. Idle.run # r
  BY NoneAssumption DEF Idle
<1>1. Fresh(r)'
  BY <1>0 DEF Safe, Fresh, Still, Handled
<1>2. SUFFICES ASSUME ~IsGoal(r)' PROVE Guarded(r)'
  BY <1>1 DEF Safe
<1>3. Guarded(r)
  BY <1>2 DEF Safe, IsGoal, Still
<1>4. Harmless(r)' <=> Harmless(r)
  BY DEF Harmless, Alive, Still
<1>5. Harmless(r)' \/ Active(r)'
  <2>1. CASE Harmless(r)
    BY <1>4, <2>1
  <2>2. CASE ~Harmless(r)
    <3>1. Active(r) /\ run'[r].status = "running"
      BY <1>3, <2>2 DEF Guarded, Still, Active
    <3> QED BY <3>1, StaysActive
  <2> QED BY <2>1, <2>2
<1> QED BY <1>0, <1>3, <1>4, <1>5 DEF Guarded, Still

LEMMA CrashSafe ==
    ASSUME TypeOK, DispatcherOK, Crash, NEW r \in Run, Safe(r)
    PROVE  Safe(r)'
<1>0. Idle.run # r
  BY NoneAssumption DEF Idle
<1>1. /\ UNCHANGED <<task, run, clock>> /\ pass' = Idle
      /\ process'[r].state = process[r].state /\ process'[r].changed = process[r].changed
      /\ handler'[r].at \in {"none", "over"}
      /\ ~Handled(r) => handler'[r] = handler[r]
  BY DEF Crash, Handled, DispatcherOK, ProcessOK, Process, board, vars
<1>2. Fresh(r)'
  BY <1>0, <1>1 DEF Safe, Fresh, Handled
<1>3. SUFFICES ASSUME ~IsGoal(r)' PROVE Guarded(r)'
  BY <1>2 DEF Safe
<1>4. Guarded(r)
  BY <1>1, <1>3 DEF Safe, IsGoal
<1>5. Harmless(r)' \/ Active(r)'
  BY <1>1, <1>4 DEF Guarded, Harmless, Alive, Active
<1> QED BY <1>0, <1>1, <1>5 DEF Guarded, PreSpawn, Judging

LEMMA ClaimSafe ==
    ASSUME TypeOK, DispatcherOK, NEW r \in Run, Claiming(r), Safe(r)
    PROVE  Safe(r)'
<1>1. PICK t \in Task : Claim(t, r)
  BY DEF Claiming
<1>2. run[r].status = "unused" /\ run'[r] = NewRun(t, "running", FALSE)
  BY <1>1 DEF Claim, ClaimTask, TypeOK
<1>3. Fresh(r) /\ UNCHANGED <<process, clock, pass>>
  BY <1>1 DEF Safe, Claim
<1>4. handler'[r].at = "claimed"
  BY <1>1, Arriving DEF Claim, DispatcherOK, Phase
<1>5. run'[r].status = "running" /\ ~run'[r].pid
  BY <1>2 DEF NewRun, Unused
<1>6. Guarded(r)'
  BY <1>2, <1>3, <1>4, <1>5 DEF Fresh, Guarded, Harmless, PreSpawn, Judging, Alive
<1> QED BY <1>5, <1>6 DEF Safe, Fresh

-----------------------------------------------------------------------------
(* The steps of one run                                                    *)

\* Who finds nothing alive finds nothing that may write.
LEMMA GoneHarmless ==
    ASSUME DispatcherOK, NEW r \in Run, "gone" \in Seen(r)
    PROVE  Harmless(r)
BY DEF Seen, Harmless, Alive, DispatcherOK, ProcessOK, Process

LEMMA PhasesApart ==
    /\ \A phase \in UNION {PreSpawn, Judging, Holding, Settling, Reading, {"none", "over"}} :
          phase \in Phase
    /\ PreSpawn \cap Judging = {} /\ PreSpawn \cap Settling = {} /\ Judging \cap Holding = {}
    /\ Judging \cap Settling = {} /\ Holding \cap Settling = {}
    /\ Reading \cap (PreSpawn \cup Judging \cup Holding \cup Settling) = {}
BY DEF Reading, PreSpawn, Judging, Holding, Settling, Phase

LEMMA LaunchingTame ==
    ASSUME TypeOK, DispatcherOK, NEW r \in Run, Guarded(r), Launching(r), ~RecordTurn(r)
    PROVE  Tame(r)
<1>1. HandlerOK /\ process \in [Run -> Process] /\ UNCHANGED <<clock, pass>>
  BY DEF DispatcherOK, ProcessOK, Launching, Manage, Integrate, CheckIntent, Start, Prepare,
     LaunchFails, BlockFallback, HandlerBlocks, RecordTurn
<1>2. handler[r].at \in PreSpawn
  BY DEF Guarded, Judging, PreSpawn, Launching, At, Manage, Integrate, CheckIntent, Start, Prepare,
     LaunchFails, BlockFallback, HandlerBlocks, RecordTurn
<1>3. ~run[r].pid /\ Harmless(r)
  BY <1>2 DEF Guarded, Harmless
<1>4. CASE Start(r)
  <2>1. \/ handler'[r].at = "record" /\ process'[r].state = "live"
        \/ handler'[r].at = "exited" /\ UNCHANGED process
    BY <1>1, <1>4, Arriving DEF Start, Phase, Result, Process
  <2>2. run' = run
    BY <1>4 DEF Start, board, vars
  <2> QED BY <1>1, <1>2, <1>3, <2>1, <2>2 DEF Tame, Alive, PreSpawn, Judging, Holding, Settling
<1>5. CASE ~Start(r)
  <2>0. UNCHANGED process
    BY <1>5 DEF Launching, Manage, Integrate, CheckIntent, Prepare, LaunchFails, BlockFallback,
       HandlerBlocks, RecordTurn
  <2>1. handler'[r].at \in PreSpawn \ Holding \/ handler'[r].at \in Settling \cup {"over", "exited"}
    BY <1>1, <1>5, Arriving
       DEF Launching, Manage, Integrate, CheckIntent, Prepare, LaunchFails, BlockFallback,
           HandlerBlocks, RecordTurn, Phase, Result, PreSpawn, Holding, Settling
  <2> QED BY <1>1, <1>2, <1>3, <2>0, <2>1 DEF Tame, Alive, PreSpawn, Judging, Holding, Settling
<1> QED BY <1>4, <1>5

LEMMA EndOfTurnTame ==
    ASSUME TypeOK, DispatcherOK, NEW r \in Run, Guarded(r), ~IsGoal(r), EndOfTurn(r)
    PROVE  Tame(r)
<1>1. HandlerOK /\ process \in [Run -> Process] /\ UNCHANGED <<clock, pass>>
  BY DEF DispatcherOK, ProcessOK, EndOfTurn, Collect, CutShort, Stopped, LeaveLost, ReadIntent,
     LookAtProcess, ReadRequest, DiscardPremature, ReadNothing
<1>2. run'[r].status = run[r].status
  <2>1. CASE DiscardPremature(r)
    BY <2>1, EditedRow DEF DiscardPremature, Edits
  <2>2. CASE UNCHANGED run
    BY <2>2
  <2> QED BY <2>1, <2>2 DEF EndOfTurn, Collect, CutShort, Stopped, LeaveLost, ReadIntent,
     LookAtProcess, ReadRequest,
             ReadNothing, board, vars
<1>3. CASE Collect(r) \/ Stopped(r)
  <2>1. PICK left \in {"tail", "dead"} :
           /\ left = "tail" => Alive(r)
           /\ process' = [process EXCEPT ![r].state = left, ![r].exit = "none"]
    <3>1. process[r].state \in {"none", "live", "tail", "dead"}
      BY <1>1 DEF Process
    <3>2. At(r, "stop") => process[r].state # "none"
      BY DEF Guarded, At
    <3> QED BY <1>3, <3>1, <3>2 DEF Collect, Stopped, Alive
  <2>2. process'[r].state = left
    BY <1>1, <2>1 DEF Process
  <2>3. handler'[r].at = "exited"
    <3>1. process[r].exit \in Result
      BY <1>1 DEF Process, Result
    <3>2. CASE Collect(r)
      BY <1>1, <3>1, <3>2, Arriving DEF Collect, Phase
    <3>3. CASE Stopped(r)
      BY <1>1, <3>3, Arriving DEF Stopped, Phase
    <3> QED BY <1>3, <3>2, <3>3
  <2> QED BY <1>1, <1>2, <2>1, <2>2, <2>3 DEF Tame, Alive, PreSpawn, Judging, Holding, Settling
<1>4. CASE CutShort(r)
  <2>1. At(r, "wait") /\ handler'[r].at = "stop" /\ process' = process
    BY <1>1, <1>4, Arriving DEF CutShort, Phase, Result
  <2> QED BY <1>1, <1>2, <2>1 DEF Guarded, At, Tame, Alive, PreSpawn, Judging, Holding, Settling
<1>5. CASE LeaveLost(r)
  <2>1. handler'[r].at = "over" /\ process' = process
    BY <1>1, <1>5, Arriving DEF LeaveLost
  <2> QED BY <1>1, <1>2, <2>1 DEF Tame, Alive, PreSpawn, Judging, Holding, Settling
<1>6. CASE ReadIntent(r)
  <2>1. run[r].reclaim \in ReclaimIntent
    BY DEF TypeOK, RunRow
  <2>2. handler'[r].at \in {"doomed", "spared"} /\ process' = process
    BY <1>1, <1>6, <2>1, Arriving DEF ReadIntent, Phase, Result, ReclaimIntent
  <2> QED BY <1>1, <1>2, <2>2 DEF Tame, Alive, PreSpawn, Judging, Holding, Settling
<1>7. CASE LookAtProcess(r)
  <2>1. \/ handler'[r].at = "over"
        \/ handler'[r].at \in {"reclaim", "decide"} /\ Harmless(r)
    BY <1>1, <1>7, GoneHarmless, Arriving DEF LookAtProcess, Phase
  <2>2. UNCHANGED process
    BY <1>7 DEF LookAtProcess
  <2> QED BY <1>1, <1>2, <2>1, <2>2 DEF Tame, Alive, PreSpawn, Judging, Holding, Settling
<1>8. CASE ReadRequest(r) \/ DiscardPremature(r) \/ ReadNothing(r)
  <2>1. Harmless(r) /\ process' = process
    BY <1>8 DEF Guarded, At, ReadRequest, DiscardPremature, ReadNothing
  <2>2. handler'[r].at \in Settling
    BY <1>1, <1>8, Arriving DEF ReadRequest, DiscardPremature, ReadNothing, Premature, Unfinished,
       Settling, Phase, Result
  <2> QED BY <1>1, <1>2, <2>1, <2>2 DEF Tame, Alive, PreSpawn, Judging, Holding, Settling
<1> QED BY <1>3, <1>4, <1>5, <1>6, <1>7, <1>8 DEF EndOfTurn

LEMMA EndingTame ==
    ASSUME TypeOK, DispatcherOK, NEW r \in Run, Guarded(r), Ending(r)
    PROVE  Tame(r)
<1>1. HandlerOK /\ UNCHANGED process
  BY DEF DispatcherOK, Ending, Capture, Finalize, Loses, Pause, NoSession, Judge, AcceptGoal,
     NextTurn, FinalizationFails, FinishReclaim, FailCounted, FailUnavailable
<1>2. ~(Pause(r) \/ NoSession(r) \/ Judge(r) \/ AcceptGoal(r) \/ NextTurn(r))
  BY DEF Guarded, Judging, At, Pause, NoSession, Judge, AcceptGoal, NextTurn
<1>3. UNCHANGED <<clock, pass>>
  BY <1>2 DEF Ending, Capture, Finalize, Loses, FinalizationFails, FinishReclaim, FailCounted,
     FailUnavailable
<1>4. CASE Loses(r)
  <2>1. handler'[r].at = "over" /\ UNCHANGED run
    BY <1>1, <1>4, Arriving DEF Loses, board, vars
  <2> QED BY <1>1, <1>3, <2>1 DEF Tame, Alive, PreSpawn, Judging, Holding, Settling
<1>5. CASE ~Loses(r)
  <2>1. Harmless(r)
    BY <1>2, <1>5 DEF Guarded, At, Ending, Capture, Finalize, FinalizationFails, FinishReclaim,
       FailCounted, FailUnavailable
  <2>2. handler'[r].at \in {"finalize", "over"}
    BY <1>1, <1>2, <1>5, Arriving DEF Ending, Capture, Finalize, FinalizationFails, FinishReclaim,
       FailCounted, FailUnavailable, Phase
  <2> QED BY <1>1, <1>3, <2>1, <2>2 DEF Tame, Alive, PreSpawn, Judging, Holding, Settling
<1> QED BY <1>4, <1>5

LEMMA OutsideTame ==
    ASSUME TypeOK, DispatcherOK, PromptLaunch, NEW r \in Run, Guarded(r),
           Worker(r) \/ TailEnds(r) \/ \E d \in Deadline : Passes(r, d)
    PROVE  Tame(r)
<1>1. UNCHANGED <<handler, pass>>
  BY DEF Worker, Heartbeat, WorkerCompletes, Works, WorkerBlocks, Exits, TailEnds, Passes
<1>2. process \in [Run -> Process] /\ clock \in [Run -> SUBSET Deadline]
  BY DEF DispatcherOK, ProcessOK, RestOK
<1>3. run'[r].status = run[r].status
  <2>1. CASE WorkerCompletes(r) \/ \E kind \in Kinds, reason \in Reason : WorkerBlocks(r, kind, reason)
    BY <2>1, EditedRow DEF WorkerCompletes, WorkerBlocks, Edits
  <2>2. CASE UNCHANGED run
    BY <2>2
  <2> QED BY <2>1, <2>2 DEF Worker, Heartbeat, Works, Exits, TailEnds, Passes, board, vars
<1>4. (Alive(r)' => Alive(r)) /\ (process[r].state # "none" => process'[r].state # "none")
  <2>1. CASE \E exit \in {"none", "ok", "failed"} : Exits(r, exit)
    <3>1. PICK exit \in {"none", "ok", "failed"} : Exits(r, exit)
      BY <2>1
    <3>2. PICK left \in {"tail", "dead"} :
             process' = [process EXCEPT ![r].state = left, ![r].exit = exit]
      BY <3>1 DEF Exits
    <3>3. process'[r].state = left
      BY <1>2, <3>2 DEF Process
    <3> QED BY <3>1, <3>3 DEF Exits, Live, Alive
  <2>2. CASE Works(r) \/ TailEnds(r)
    BY <1>2, <2>2 DEF Works, TailEnds, Alive, Process
  <2>3. CASE UNCHANGED process
    BY <2>3 DEF Alive
  <2> QED BY <2>1, <2>2, <2>3 DEF Worker, Heartbeat, WorkerCompletes, WorkerBlocks, Passes
<1>5. clock'[r] \subseteq clock[r] \/ handler'[r].at \notin PreSpawn
  <2>1. CASE Heartbeat(r)
    BY <1>2, <2>1 DEF Heartbeat, Reset
  <2>2. CASE \E d \in Deadline : Passes(r, d)
    <3>1. ~(Handled(r) /\ ~run[r].pid)
      BY <2>2 DEF Passes
    <3> QED BY <1>1, <3>1 DEF Guarded, Handled, PreSpawn
  <2>3. CASE UNCHANGED clock
    BY <2>3
  <2> QED BY <2>1, <2>2, <2>3 DEF Worker, WorkerCompletes, Works, WorkerBlocks, Exits, TailEnds
<1> QED BY <1>1, <1>3, <1>4, <1>5 DEF Tame, Guarded, Holding, Settling

LEMMA PassingTame ==
    ASSUME TypeOK, DispatcherOK, NEW r \in Run, Guarded(r), Passing(r)
    PROVE  Tame(r)
<1>1. UNCHANGED handler
  BY DEF Passing, PassInspects, PassDefers, PassForces, PassLooks, PassLoses, PassWrites
<1>2. process \in [Run -> Process] /\ clock \in [Run -> SUBSET Deadline] /\ pass \in Pass
  BY DEF DispatcherOK, ProcessOK, RestOK, PassOK
<1>0. Idle.run # r
  BY NoneAssumption DEF Idle
<1>3. CASE \E o \in {"timed_out", "reclaimed", "crashed"} : PassInspects(r, o)
  <2>1. PICK o \in {"timed_out", "reclaimed", "crashed"} : PassInspects(r, o)
    BY <1>3
  <2>2. PICK seen \in Seen(r), plan \in {"defer", "force", "inspect"} :
           /\ plan = "inspect" => ShouldRecover(r, seen, o)
           /\ pass' = [plan |-> plan, run |-> r, outcome |-> o]
    BY <2>1 DEF PassInspects
  <2>3. plan = "inspect" => Harmless(r) /\ (run[r].pid \/ clock[r] # {})
    BY <2>2, GoneHarmless DEF ShouldRecover, Overdue, Lapsed, Crashed
  <2>4. UNCHANGED <<run, process, clock>>
    BY <2>1 DEF PassInspects, board, vars
  <2> QED BY <1>1, <2>2, <2>3, <2>4 DEF Tame, Guarded, Alive, Verdicts, Holding, Settling
<1>4. CASE PassDefers(r) \/ PassForces(r)
  <2>0. pass.outcome \in {"reclaimed", "timed_out"}
    BY <1>4 DEF PassDefers, PassForces, Plans, DispatcherOK, PassOK
  <2>1. run'[r].status = run[r].status
    BY <1>4, <2>0, EditedRow DEF PassDefers, PassForces, Edits
  <2>2. clock'[r] \subseteq clock[r] /\ pass' = Idle
    BY <1>2, <1>4 DEF PassDefers, PassForces, Reset
  <2>3. (Alive(r)' => Alive(r)) /\ (process[r].state # "none" => process'[r].state # "none")
    <3>1. CASE UNCHANGED process
      BY <3>1 DEF Alive
    <3>2. CASE PassForces(r) /\ Live(r)
      <4>1. PICK left \in {"tail", "dead"} :
               process' = [process EXCEPT ![r].state = left,
                             ![r].exit = IF Handled(r) THEN "failed" ELSE "none"]
        BY <3>2 DEF PassForces
      <4>2. process'[r].state = left
        BY <1>2, <4>1 DEF Process
      <4> QED BY <3>2, <4>2 DEF Live, Alive
    <3> QED BY <1>4, <3>1, <3>2 DEF PassDefers, PassForces
  <2> QED BY <1>0, <1>1, <2>1, <2>2, <2>3 DEF Tame, Guarded, Verdicts, Holding, Settling
<1>5. CASE PassLooks(r)
  <2>1. Plans("inspect", r) /\ UNCHANGED <<run, process, clock>>
    BY <1>5 DEF PassLooks, board, vars
  <2>2. Harmless(r) /\ handler[r].at \notin PreSpawn
    BY <2>1 DEF Guarded, Plans
  <2> QED BY <1>1, <2>1, <2>2 DEF Tame, Guarded, Alive, Holding, Settling
<1>6. CASE PassLoses(r)
  <2>1. UNCHANGED <<run, process, clock>> /\ pass' = Idle
    BY <1>6 DEF PassLoses, board, vars
  <2> QED BY <1>0, <1>1, <2>1 DEF Tame, Guarded, Alive, Holding, Settling
<1>7. CASE \E reason \in Reason : PassWrites(r, reason)
  <2>1. Harmless(r)
    BY <1>7 DEF Guarded, PassWrites, Plans
  <2>2. UNCHANGED <<process, clock>> /\ pass' = Idle
    BY <1>7 DEF PassWrites
  <2> QED BY <1>0, <1>1, <2>1, <2>2 DEF Tame, Guarded, Alive, Holding, Settling
<1> QED BY <1>3, <1>4, <1>5, <1>6, <1>7 DEF Passing

LEMMA OperatingTame ==
    ASSUME TypeOK, DispatcherOK, NEW r \in Run, Guarded(r), Operating(r)
    PROVE  Tame(r)
<1>1. UNCHANGED <<handler, process, pass>>
  BY DEF Operating, Terminate, TerminateUnmanaged
<1>2. clock'[r] \subseteq clock[r]
  BY DEF DispatcherOK, RestOK, Operating, Terminate, TerminateUnmanaged, Reset
<1>3. run'[r].status = run[r].status \/ Harmless(r)
  BY EditedRow, GoneHarmless DEF Operating, Terminate, TerminateUnmanaged, Edits
<1> QED BY <1>1, <1>2, <1>3 DEF Tame, Guarded, Alive, Holding, Settling

\* Only runs that were claimed are acted on.
LEMMA ActsUsed ==
    ASSUME DispatcherOK, NEW q \in Run, Acts(q), Fresh(q)
    PROVE  run[q].status # "unused"
<1>1. SUFFICES ASSUME run[q].status = "unused" PROVE FALSE
  OBVIOUS
<1>2. handler[q].at \in {"none", "over"} /\ process[q].state = "none" /\ pass.run # q
  BY <1>1 DEF Fresh, Handled
<1>3. ~Active(q)
  BY <1>1 DEF Active
<1>4. ~Launching(q)
  BY <1>2 DEF Launching, At, Manage, Integrate, CheckIntent, Start, Prepare, LaunchFails,
     BlockFallback, HandlerBlocks, RecordTurn
<1>5. ~EndOfTurn(q)
  BY <1>2 DEF EndOfTurn, At, Collect, CutShort, Stopped, LeaveLost, ReadIntent,
     LookAtProcess, ReadRequest,
     DiscardPremature, ReadNothing
<1>6. ~Ending(q)
  BY <1>2 DEF Ending, At, Capture, Finalize, Loses, Pause, NoSession, Judge, AcceptGoal,
     NextTurn, FinalizationFails, FinishReclaim, FailCounted, FailUnavailable, Writing
<1>7. ~(Worker(q) \/ TailEnds(q) \/ \E d \in Deadline : Passes(q, d))
  BY <1>2, <1>3 DEF Worker, Heartbeat, WorkerCompletes, Works, WorkerBlocks, Exits, TailEnds,
     Passes, Live, Alive
<1>8. ~Passing(q) /\ ~Operating(q)
  BY <1>2, <1>3 DEF Passing, PassInspects, PassDefers, PassForces, PassLooks, PassLoses,
     PassWrites, Plans, Operating, Terminate, TerminateUnmanaged, RecoverAbandonedRun,
     FinishUnsuccessful
<1> QED BY <1>4, <1>5, <1>6, <1>7, <1>8 DEF Acts, Goroutine

(* The process is recorded: it may write from now on, and the run is       *)
(* active, with nobody about to end it.                                    *)
LEMMA RecordSafe ==
    ASSUME TypeOK, DispatcherOK, [DispatchNext]_dispatchVars, NEW r \in Run, Safe(r),
           RecordTurn(r), run[r].status # "unused"
    PROVE  Safe(r)'
<1>0. HandlerOK /\ UNCHANGED <<process, clock, pass>> /\ At(r, "record")
  BY DEF DispatcherOK, RecordTurn
<1>1. CASE RecordSpawn(r) /\ GoesWith(r, "wait", "none")
  <2>1. handler'[r].at = "wait"
    BY <1>0, <1>1, Arriving DEF Phase, Result
  <2>2. run'[r].task = run[r].task /\ run'[r].status = "running" /\ Active(r)
    BY <1>1 DEF RecordSpawn, Active, TypeOK, RunRow
  <2>3. Active(r)'
    BY <2>2, StaysActive
  <2>4. Fresh(r)'
    BY <2>2 DEF Fresh
  <2>5. ASSUME ~IsGoal(r)' PROVE Guarded(r)'
    <3>1. Guarded(r)
      BY <2>2, <2>5 DEF Safe, IsGoal
    <3> QED BY <1>0, <2>1, <2>3, <3>1 DEF Guarded, At, PreSpawn, Judging
  <2> QED BY <2>4, <2>5 DEF Safe
<1>2. CASE GoesWith(r, "stop", "spawn_error") /\ UNCHANGED board
  <2>1. handler'[r].at = "stop"
    BY <1>0, <1>2, Arriving DEF Phase, Result
  <2>2. UNCHANGED run
    BY <1>2 DEF board, vars
  <2>3. ~IsGoal(r) => Tame(r)
    BY <1>0, <2>1, <2>2 DEF Safe, Guarded, At, Tame, Alive, PreSpawn, Judging, Holding, Settling
  <2> QED BY <2>2, <2>3, TameSafe
<1> QED BY <1>1, <1>2 DEF RecordTurn

LEMMA ActsTame ==
    ASSUME TypeOK, DispatcherOK, PromptLaunch, NEW r \in Run, ~IsGoal(r), Guarded(r), Acts(r),
           ~RecordTurn(r)
    PROVE  Tame(r)
BY LaunchingTame, EndOfTurnTame, EndingTame, OutsideTame, PassingTame, OperatingTame
   DEF Acts, Goroutine

LEMMA ActsSafe ==
    ASSUME TypeOK, DispatcherOK, PromptLaunch, [DispatchNext]_dispatchVars, NEW r \in Run,
           Safe(r), Acts(r)
    PROVE  Safe(r)'
<1>1. run[r].status # "unused"
  BY ActsUsed DEF Safe
<1>2. CASE RecordTurn(r)
  BY <1>1, <1>2, RecordSafe
<1>3. CASE ~RecordTurn(r)
  <2>1. ~IsGoal(r) => Tame(r)
    BY <1>3, ActsTame DEF Safe
  <2> QED BY <1>1, <1>3, <2>1, ActsRow, TameSafe
<1> QED BY <1>2, <1>3

LEMMA SafeInductive ==
    ASSUME TypeOK, DispatcherOK, PromptLaunch, [DispatchNext]_dispatchVars,
           \A r \in Run : Safe(r)
    PROVE  \A r \in Run : Safe(r)'
<1> SUFFICES ASSUME NEW r \in Run PROVE Safe(r)'
  OBVIOUS
<1>1. CASE Crash
  BY <1>1, CrashSafe
<1>2. CASE Around
  BY <1>2, AroundAlone, StillSafe
<1>3. ASSUME NEW q \in Run, Acts(q) \/ Claiming(q)
      PROVE  Safe(r)'
  <2>1. CASE q = r
    BY <1>3, <2>1, ActsSafe, ClaimSafe
  <2>2. CASE q # r
    BY <1>3, <2>2, ActsAlone, ClaimAlone, StillSafe
  <2> QED BY <2>1, <2>2
<1> QED BY <1>1, <1>2, <1>3, StepActs

LEMMA SafeInit == DispatchInit => \A r \in Run : Safe(r)
<1> SUFFICES ASSUME DispatchInit, NEW r \in Run PROVE Safe(r)
  OBVIOUS
<1>1. /\ run[r].status = "unused" /\ ~run[r].pid /\ handler[r].at = "none"
      /\ process[r].state = "none" /\ process[r].changed = "none" /\ clock[r] = {}
      /\ pass.run # r
  BY NoneAssumption DEF DispatchInit, Init, Unused, Idle
<1> QED BY <1>1 DEF Safe, Fresh, Guarded, Harmless, Handled, PreSpawn, Judging

LEMMA SafeHolds == DispatchSpec => [](PromptLaunch => \A r \in Run : Safe(r))
<1> DEFINE Inv == PromptLaunch => \A r \in Run : Safe(r)
<1>1. DispatchInit => Inv
  BY SafeInit
<1>2. DispatchInv /\ Inv /\ [DispatchNext]_dispatchVars => Inv'
  BY SafeInductive DEF DispatchInv
<1> QED BY <1>1, <1>2, DispatchInvHolds, PTL DEF DispatchSpec

(* No task has two workers that can be found from the store: whatever      *)
(* expires, fails, is terminated, crashes or restarts, a process whose PID *)
(* is recorded and that may still write belongs to the run that owns the   *)
(* task.  (For boards without goals, where nothing expires in a launch.)   *)
THEOREM WorkersNeverOverlap == DispatchSpec => [](PromptLaunch /\ Goal = {} => NoOverlap)
<1>1. (PromptLaunch => \A r \in Run : Safe(r)) => (PromptLaunch /\ Goal = {} => NoOverlap)
  BY DEF Safe, Guarded, Harmless, IsGoal, NoOverlap
<1> QED BY <1>1, SafeHolds, PTL

(* On a board with goals the same holds of every run that is not a goal.   *)
THEOREM OneTurnWorkersNeverOverlap ==
    DispatchSpec => [](PromptLaunch => \A r \in Run :
                          ~IsGoal(r) /\ Alive(r) /\ run[r].pid => Active(r))
<1>1. (PromptLaunch => \A r \in Run : Safe(r)) =>
        (PromptLaunch => \A r \in Run : ~IsGoal(r) /\ Alive(r) /\ run[r].pid => Active(r))
  BY DEF Safe, Guarded, Harmless
<1> QED BY <1>1, SafeHolds, PTL

-----------------------------------------------------------------------------
(* Unfinished work                                                         *)

Recorded(r) == process[r].changed = "recorded"
TaskBlocked(r) == run[r].task \in Task /\ task[run[r].task].status = "blocked"

(* What a worker changed is seen by whoever ends its run: it has a recorded *)
(* process and a managed workspace, and nobody is about to retry on top of *)
(* it; if the run ended all the same, its task is blocked.                 *)
Worked(r) ==
    /\ Recorded(r) => run[r].pid /\ run[r].workspace # "none"
    /\ handler[r].at = "managed" => run[r].managed
    /\ run[r].workspace # "none" => run[r].managed
    /\ pass.run = r /\ pass.plan = "requeue" => ~Recorded(r)
    /\ run[r].status \in UnsuccessfulOutcome /\ Recorded(r) => TaskBlocked(r)

\* Nothing that dispatchers do takes a task out of "blocked".
LEMMA CompletionSpares ==
    ASSUME TypeOK, NEW p \in Task, NEW row, NEW pin, CompleteWith(p, row, pin), NEW t \in Task,
           t # p, task[t].status = "blocked"
    PROVE  task'[t].status = "blocked"
BY DEF CompleteWith, Recomputed

LEMMA FinishSpares ==
    ASSUME TypeOK, NEW q \in Run, Finishes(q), NEW t \in Task, task[t].status = "blocked"
    PROVE  task'[t].status = "blocked"
<1>1. Active(q) /\ run[q].task # t /\ run[q].task \in Task
  BY DEF Finishes, FinalizeRunTerminal, FinalizeCompletion, FinalizeBlock, FinishUnsuccessful,
     RecoverRunBlocked, Active
<1>2. CASE FinalizeCompletion(q)
  BY <1>1, <1>2, CompletionSpares DEF FinalizeCompletion
<1>3. CASE ~FinalizeCompletion(q)
  <2>1. task'[t] = task[t]
    BY <1>1, <1>3 DEF Finishes, FinalizeRunTerminal, FinalizeBlock, FinishUnsuccessful,
       RecoverRunBlocked, TypeOK
  <2> QED BY <2>1
<1> QED BY <1>2, <1>3

LEMMA StaysBlocked ==
    ASSUME TypeOK, DispatcherOK, [DispatchNext]_dispatchVars, NEW t \in Task,
           task[t].status = "blocked"
    PROVE  task'[t].status = "blocked"
<1>1. ASSUME NEW q \in Run, Acts(q) PROVE task'[t].status = "blocked"
  BY <1>1, ActsWrites, EditsOthers, FinishSpares DEF RecordTurn, Pause, Prepare, board, vars
<1>2. ASSUME NEW q \in Run, Claiming(q) PROVE task'[t].status = "blocked"
  BY <1>2 DEF Claiming, Claim, ClaimTask, Candidate
<1>3. CASE Around
  <2>1. ASSUME NEW u \in Task, Created(u) PROVE task'[t].status = "blocked"
    <3>1. u # t /\ \E row : task' = [task EXCEPT ![u] = row]
      BY <2>1 DEF Created, CreateTask, Present
    <3> QED BY <3>1 DEF TypeOK
  <2>2. ASSUME NEW u \in Task, CooldownEnds(u) PROVE task'[t].status = "blocked"
    BY <2>2 DEF CooldownEnds, ScheduleFallsDue, TypeOK, TaskRow
  <2>3. CASE PromoteDue
    BY <2>3 DEF PromoteDue, PromoteDueTasks
  <2>4. CASE UNCHANGED task
    BY <2>4
  <2> QED BY <1>3, <2>1, <2>2, <2>3, <2>4 DEF Around, PassAbandons, Stop, Restart, dispatchVars,
             board, vars
<1>4. CASE Crash
  BY <1>4 DEF Crash, board, vars
<1> QED BY <1>1, <1>2, <1>3, <1>4, StepActs

LEMMA RecoveryBlocks ==
    ASSUME TypeOK, NEW r \in Run, NEW outcome, NEW reason,
           RecoverRunBlocked(r, outcome, "needs_input", reason)
    PROVE  run[r].task \in Task /\ task'[run[r].task].status = "blocked"
BY DEF RecoverRunBlocked, Active, TypeOK, TaskRow

LEMMA RecordedSeen ==
    ASSUME TypeOK, NEW r \in Run, Worked(r), Recorded(r)
    PROVE  WorkSeen(r)
BY DEF Worked, Recorded, WorkSeen, TypeOK, RunRow, WorkspaceKind

\* A run ends as it should: successfully, without work or with its task blocked.
EndsWell(r) ==
    \/ run'[r].status = run[r].status
    \/ run'[r].status \notin UnsuccessfulOutcome
    \/ /\ process'[r] = process[r]
       /\ ~Recorded(r) \/ (run[r].task \in Task /\ task'[run[r].task].status = "blocked")

LEMMA GoroutineEndsWell ==
    ASSUME TypeOK, DispatcherOK, ~HealthWriteFails, NEW r \in Run, ~IsGoal(r), Guarded(r),
           Worked(r), Goroutine(r)
    PROVE  EndsWell(r)
<1>1. CASE UNCHANGED run \/ Edits(r) \/ RecordSpawn(r) \/ \E kind : BindRunWorkspace(r, kind)
  <2>1. run'[r].status = run[r].status
    BY <1>1, EditedRow DEF RecordSpawn, BindRunWorkspace, TypeOK, RunRow
  <2> QED BY <2>1 DEF EndsWell
<1>2. CASE \E reason \in Reason : LaunchFails(r, reason) \/ BlockFallback(r, reason)
  <2>1. handler[r].at \in PreSpawn /\ UNCHANGED process
    BY <1>2 DEF Guarded, LaunchFails, BlockFallback, At, PreSpawn, Judging
  <2> QED BY <2>1 DEF Guarded, Worked, EndsWell
<1>3. CASE Finalize(r)
  <2>1. run'[r].status \in {"completed", "blocked"}
    BY <1>3 DEF Finalize, FinalizeRunTerminal, FinalizeCompletion, FinalizeBlock, TypeOK, RunRow
  <2> QED BY <2>1 DEF EndsWell, UnsuccessfulOutcome
<1>4. CASE \E reason \in Reason : \/ FinalizationFails(r, reason) \/ FinishReclaim(r, reason)
                                 \/ FailCounted(r, reason) \/ FailUnavailable(r, reason)
  <2>1. UNCHANGED process
    BY <1>4 DEF FinalizationFails, FinishReclaim, FailCounted, FailUnavailable
  <2>2. \/ ~WorkSeen(r)
        \/ \E outcome, reason : RecoverRunBlocked(r, outcome, "needs_input", reason)
    BY <1>4 DEF FinalizationFails, FinishReclaim, FailCounted, FailUnavailable
  <2> QED BY <2>1, <2>2, RecordedSeen, RecoveryBlocks DEF EndsWell
<1>5. ~(Pause(r) \/ NoSession(r) \/ Judge(r) \/ AcceptGoal(r) \/ NextTurn(r))
  BY DEF Guarded, Judging, At, Pause, NoSession, Judge, AcceptGoal, NextTurn
<1>6. CASE Launching(r)
  BY <1>1, <1>2, <1>6 DEF Launching, Manage, Integrate, CheckIntent, Start, RecordTurn, Prepare,
     HandlerBlocks, Edits, board, vars
<1>7. CASE EndOfTurn(r)
  BY <1>1, <1>7 DEF EndOfTurn, Collect, CutShort, Stopped, LeaveLost, ReadIntent,
     LookAtProcess, ReadRequest,
     DiscardPremature, ReadNothing, Edits, board, vars
<1>8. CASE Ending(r)
  BY <1>1, <1>3, <1>4, <1>5, <1>8 DEF Ending, Capture, Loses, Edits, board, vars
<1> QED BY <1>6, <1>7, <1>8 DEF Goroutine

LEMMA ActsEndWell ==
    ASSUME TypeOK, DispatcherOK, ~HealthWriteFails, NEW r \in Run, ~IsGoal(r), Guarded(r),
           Worked(r), Acts(r)
    PROVE  EndsWell(r)
<1>1. CASE Goroutine(r)
  BY <1>1, GoroutineEndsWell
<1>2. CASE UNCHANGED run \/ Edits(r)
  BY <1>2, EditedRow DEF EndsWell
<1>3. CASE \E reason \in Reason : PassWrites(r, reason)
  <2>1. UNCHANGED process
    BY <1>3 DEF PassWrites
  <2>2. ~Recorded(r) \/ \E reason : RecoverRunBlocked(r, pass.outcome, "needs_input", reason)
    BY <1>3 DEF PassWrites, Plans, Worked
  <2> QED BY <2>1, <2>2, RecoveryBlocks DEF EndsWell
<1>4. CASE \E reason \in Reason : TerminateUnmanaged(r, reason)
  BY <1>4 DEF TerminateUnmanaged, Worked, EndsWell
<1>5. CASE Worker(r) \/ TailEnds(r) \/ \E d \in Deadline : Passes(r, d)
  BY <1>2, <1>5 DEF Worker, Heartbeat, WorkerCompletes, Works, WorkerBlocks, Exits, TailEnds, Passes,
     Edits, board, vars
<1>6. CASE Passing(r)
  <2>1. Plans("defer", r) \/ Plans("force", r) => pass.outcome \in {"reclaimed", "timed_out"}
    BY DEF Plans, DispatcherOK, PassOK
  <2> QED BY <1>2, <1>3, <1>6, <2>1 DEF Passing, PassInspects, PassDefers, PassForces, PassLooks,
             PassLoses, Edits, board, vars
<1>7. CASE Operating(r)
  BY <1>2, <1>4, <1>7 DEF Operating, Terminate, Edits
<1> QED BY <1>1, <1>5, <1>6, <1>7 DEF Acts

\* Only a process that may still write adds to the work.
LEMMA ActsWork ==
    ASSUME TypeOK, DispatcherOK, NEW r \in Run, Acts(r), ~Recorded(r), Recorded(r)'
    PROVE  Works(r) /\ run[r].pid
<1>1. process \in [Run -> Process]
  BY DEF DispatcherOK, ProcessOK
<1>2. ~Goroutine(r)
  BY GoroutineProcess DEF Recorded
<1>3. CASE Works(r)
  BY <1>1, <1>3 DEF Works, Recorded, Process
<1>4. CASE TailEnds(r) \/ \E exit \in {"none", "ok", "failed"} : Exits(r, exit)
  <2>1. ASSUME NEW exit \in {"none", "ok", "failed"}, Exits(r, exit) PROVE FALSE
    <3>1. PICK left : process' = [process EXCEPT ![r].state = left, ![r].exit = exit]
      BY <2>1 DEF Exits
    <3>2. process'[r].changed = process[r].changed
      BY <1>1, <3>1 DEF Process
    <3> QED BY <3>2 DEF Recorded
  <2>2. ASSUME TailEnds(r) PROVE FALSE
    BY <1>1, <2>2 DEF TailEnds, Recorded, Process
  <2> QED BY <1>4, <2>1, <2>2
<1>5. CASE PassForces(r)
  <2>1. CASE UNCHANGED process
    BY <2>1 DEF Recorded
  <2>2. CASE ~UNCHANGED process
    <3>1. PICK left, exit : process' = [process EXCEPT ![r].state = left, ![r].exit = exit]
      BY <1>5, <2>2 DEF PassForces
    <3>2. process'[r].changed = process[r].changed
      BY <1>1, <3>1 DEF Process
    <3> QED BY <3>2 DEF Recorded
  <2> QED BY <2>1, <2>2
<1>6. CASE UNCHANGED process
  BY <1>6 DEF Recorded
<1> QED BY <1>2, <1>3, <1>4, <1>5, <1>6 DEF Acts, Worker, Heartbeat, WorkerCompletes, WorkerBlocks,
           Passes, Passing, PassInspects, PassDefers, PassLooks, PassLoses, PassWrites, Operating,
           Terminate, TerminateUnmanaged

\* The pass decides for a retry only where it saw no work.
LEMMA PassDecides ==
    ASSUME DispatcherOK, NEW r \in Run, Acts(r), pass'.run = r, pass'.plan = "requeue"
    PROVE  pass' = pass \/ (~WorkSeen(r) /\ UNCHANGED process)
<1>1. Idle.plan # "requeue"
  BY DEF Idle
<1>2. CASE Goroutine(r)
  BY <1>2, GoroutineProcess
<1>3. CASE Worker(r) \/ TailEnds(r) \/ Operating(r) \/ \E d \in Deadline : Passes(r, d)
  BY <1>3 DEF Worker, Heartbeat, WorkerCompletes, Works, WorkerBlocks, Exits, TailEnds, Passes,
     Operating, Terminate, TerminateUnmanaged
<1>4. CASE PassLooks(r)
  <2>1. pass'.plan = IF WorkSeen(r) THEN "block" ELSE "requeue"
    BY <1>4 DEF PassLooks, DispatcherOK, PassOK, Pass
  <2> QED BY <1>4, <2>1 DEF PassLooks
<1>5. ~(\E o \in {"timed_out", "reclaimed", "crashed"} : PassInspects(r, o))
  BY DEF PassInspects
<1> QED BY <1>1, <1>2, <1>3, <1>4, <1>5 DEF Acts, Passing, PassDefers, PassForces, PassLoses, PassWrites

\* Only a goroutine that marked its run managed goes on to prepare it.
LEMMA ManagedFirst ==
    ASSUME TypeOK, DispatcherOK, NEW r \in Run, Acts(r), handler'[r].at = "managed"
    PROVE  handler[r].at = "managed" \/ run'[r].managed
<1>1. HandlerOK
  BY DEF DispatcherOK
<1>2. CASE Manage(r)
  BY <1>2 DEF Manage, MarkRunManaged, TypeOK, RunRow
<1>3. CASE Launching(r) /\ ~Manage(r)
  BY <1>1, <1>3, Arriving DEF Launching, Integrate, CheckIntent, Start, RecordTurn, Prepare,
     LaunchFails, BlockFallback, HandlerBlocks, Phase, Result
<1>4. CASE EndOfTurn(r)
  <2>1. CASE Collect(r) \/ ReadIntent(r)
    BY <1>1, <2>1, Arriving DEF Collect, ReadIntent, HandlerOK, GoesWith, Phase
  <2> QED BY <1>1, <1>4, <2>1, Arriving DEF EndOfTurn, CutShort, Stopped, LeaveLost,

                LookAtProcess, ReadRequest, DiscardPremature, ReadNothing, Unfinished, Phase, Result
<1>5. CASE Ending(r)
  BY <1>1, <1>5, Arriving DEF Ending, Capture, Finalize, Loses, Pause, NoSession, Judge, AcceptGoal,
     NextTurn, FinalizationFails, FinishReclaim, FailCounted, FailUnavailable, Phase, Result
<1>6. CASE UNCHANGED handler
  BY <1>6
<1> QED BY <1>2, <1>3, <1>4, <1>5, <1>6
    DEF Acts, Goroutine, Worker, Heartbeat, WorkerCompletes, Works, WorkerBlocks, Exits, TailEnds,
        Passes, Passing, PassInspects, PassDefers, PassForces, PassLooks, PassLoses, PassWrites,
        Operating, Terminate, TerminateUnmanaged

LEMMA TaskStaysBlocked ==
    ASSUME TypeOK, DispatcherOK, [DispatchNext]_dispatchVars, NEW r \in Run,
           run'[r].task = run[r].task, TaskBlocked(r)
    PROVE  TaskBlocked(r)'
BY StaysBlocked DEF TaskBlocked

LEMMA ActsWorked ==
    ASSUME TypeOK, DispatcherOK, ~HealthWriteFails, [DispatchNext]_dispatchVars, NEW r \in Run,
           ~IsGoal(r), Guarded(r), Worked(r), Acts(r)
    PROVE  Worked(r)'
<1>1. /\ run'[r].task = run[r].task
      /\ run[r].pid => run'[r].pid
      /\ run[r].managed => run'[r].managed
      /\ \/ run'[r].workspace = run[r].workspace
         \/ run[r].workspace = "none" /\ handler[r].at = "managed"
  BY ActsRow DEF Guarded, Judging, Pause, Prepare, At
<1>2. CASE ~Recorded(r) /\ Recorded(r)'
  <2>1. Works(r) /\ run[r].pid
    BY <1>2, ActsWork
  <2>2. /\ UNCHANGED <<run, task, handler, pass>> /\ run[r].workspace # "none" /\ ~Harmless(r)
    BY <2>1 DEF Works, Harmless, board, vars
  <2>3. run[r].status = "running"
    BY <2>2 DEF Guarded, Active
  <2>4. run[r].status \notin UnsuccessfulOutcome
    BY <2>3 DEF UnsuccessfulOutcome
  <2> QED BY <2>1, <2>2, <2>4 DEF Worked, Guarded
<1>3. CASE Recorded(r)' => Recorded(r)
  <2>1. Recorded(r)' => (run[r].pid)' /\ (run[r].workspace)' # "none"
    BY <1>1, <1>3 DEF Worked
  <2>2. (handler[r].at)' = "managed" => (run[r].managed)'
    BY <1>1, ManagedFirst DEF Worked
  <2>3. (run[r].workspace)' # "none" => (run[r].managed)'
    BY <1>1 DEF Worked
  <2>4. (pass.run)' = r /\ (pass.plan)' = "requeue" => ~Recorded(r)'
    BY <1>3, PassDecides, RecordedSeen DEF Worked
  <2>5. ASSUME run'[r].status \in UnsuccessfulOutcome, Recorded(r)'
        PROVE  TaskBlocked(r)'
    <3>1. EndsWell(r) /\ Recorded(r)
      BY <1>3, <2>5, ActsEndWell
    <3>2. CASE run'[r].status = run[r].status
      BY <1>1, <2>5, <3>1, <3>2, TaskStaysBlocked DEF Worked
    <3>3. CASE run[r].task \in Task /\ task'[run[r].task].status = "blocked"
      BY <1>1, <3>3 DEF TaskBlocked
    <3> QED BY <2>5, <3>1, <3>2, <3>3 DEF EndsWell
  <2> QED BY <2>1, <2>2, <2>3, <2>4, <2>5 DEF Worked
<1> QED BY <1>2, <1>3

\* A run that nobody acts on.
LEMMA StillWorked ==
    ASSUME TypeOK, DispatcherOK, [DispatchNext]_dispatchVars, NEW r \in Run, Worked(r),
           run'[r] = run[r], process'[r].changed = process[r].changed,
           handler'[r] = handler[r] \/ handler'[r].at = "over",
           pass' = pass \/ pass' = Idle \/ pass'.run # r
    PROVE  Worked(r)'
<1>1. Idle.run # r
  BY NoneAssumption DEF Idle
<1>2. Recorded(r)' <=> Recorded(r)
  BY DEF Recorded
<1>3. TaskBlocked(r) => TaskBlocked(r)'
  BY TaskStaysBlocked
<1> QED BY <1>1, <1>2, <1>3 DEF Worked

LEMMA ClaimWorked ==
    ASSUME TypeOK, DispatcherOK, NEW r \in Run, Claiming(r), Fresh(r)
    PROVE  Worked(r)'
<1>1. PICK t \in Task : Claim(t, r)
  BY DEF Claiming
<1>2. run[r].status = "unused" /\ run'[r] = NewRun(t, "running", FALSE)
  BY <1>1 DEF Claim, ClaimTask, TypeOK
<1>3. UNCHANGED <<process, pass>> /\ handler'[r].at = "claimed"
  BY <1>1, Arriving DEF Claim, DispatcherOK, Phase
<1>4. run'[r].workspace = "none"
  BY <1>2 DEF NewRun, Unused
<1> QED BY <1>2, <1>3, <1>4 DEF Fresh, Worked, Recorded

Preserved(r) == ~IsGoal(r) => Worked(r)

LEMMA PreservedInductive ==
    ASSUME TypeOK, DispatcherOK, ~HealthWriteFails, [DispatchNext]_dispatchVars,
           \A r \in Run : Safe(r), \A r \in Run : Preserved(r)
    PROVE  \A r \in Run : Preserved(r)'
<1> SUFFICES ASSUME NEW r \in Run PROVE Preserved(r)'
  OBVIOUS
<1>1. CASE Crash
  <2>1. /\ UNCHANGED run /\ pass' = Idle /\ process'[r].changed = process[r].changed
        /\ handler'[r] = handler[r] \/ handler'[r].at = "over"
    BY <1>1 DEF Crash, DispatcherOK, ProcessOK, Process, board, vars
  <2> QED BY <2>1, StillWorked DEF Preserved, IsGoal
<1>2. CASE Around
  BY <1>2, AroundAlone, StillWorked DEF Preserved, IsGoal, Still
<1>3. ASSUME NEW q \in Run, q # r, Acts(q) \/ Claiming(q)
      PROVE  Preserved(r)'
  BY <1>3, ActsAlone, ClaimAlone, StillWorked DEF Preserved, IsGoal, Still
<1>4. CASE Acts(r)
  <2>1. run'[r].task = run[r].task
    BY <1>4, ActsRow
  <2> QED BY <1>4, <2>1, ActsWorked DEF Preserved, Safe, IsGoal
<1>5. CASE Claiming(r)
  BY <1>5, ClaimWorked DEF Preserved, Safe
<1> QED BY <1>1, <1>2, <1>3, <1>4, <1>5, StepActs

LEMMA PreservedHolds ==
    DispatchSpec => [](PromptLaunch /\ ~HealthWriteFails => \A r \in Run : Preserved(r))
<1> DEFINE Inv == PromptLaunch /\ ~HealthWriteFails => \A r \in Run : Preserved(r)
           Runs == PromptLaunch => \A r \in Run : Safe(r)
<1>1. DispatchInit => Inv
  <2> SUFFICES ASSUME DispatchInit, NEW r \in Run PROVE Preserved(r)
    OBVIOUS
  <2>1. /\ run[r].workspace = "none" /\ run[r].status = "unused"
        /\ handler[r].at = "none" /\ ~Recorded(r) /\ pass.plan = "idle"
    BY DEF DispatchInit, Init, Unused, Idle, Recorded
  <2> QED BY <2>1 DEF Preserved, Worked
<1>2. DispatchInv /\ Runs /\ Inv /\ [DispatchNext]_dispatchVars => Inv'
  BY PreservedInductive DEF DispatchInv
<1> QED BY <1>1, <1>2, DispatchInvHolds, SafeHolds, PTL DEF DispatchSpec

(* A run that ended without success and left work behind has its task      *)
(* blocked for review: whoever ends it - its goroutine, the maintenance    *)
(* pass, an operator, a dispatcher that was restarted - neither a retry    *)
(* nor a fallback starts on top of what it wrote.  (For boards without     *)
(* goals, where nothing expires in a launch and health can be written.)    *)
THEOREM UnfinishedWorkIsKept ==
    DispatchSpec => [](PromptLaunch /\ Goal = {} /\ ~HealthWriteFails => PartialWorkKept)
<1>1. (PromptLaunch /\ ~HealthWriteFails => \A r \in Run : Preserved(r)) =>
        (PromptLaunch /\ Goal = {} /\ ~HealthWriteFails => PartialWorkKept)
  BY DEF Preserved, Worked, Recorded, TaskBlocked, IsGoal, PartialWorkKept
<1> QED BY <1>1, PreservedHolds, PTL

-----------------------------------------------------------------------------
(* Terminations                                                            *)

AfterTurn == {"exited", "spared", "decide"}

(* What a goroutine that was asked for the completion of its run knows:    *)
(* its turn was recorded, and its process is gone.                         *)
Asked(r) ==
    /\ At(r, "wait") => run[r].pid
    /\ At(r, "stop") => handler[r].result # "ok"
    /\ handler[r].at \in AfterTurn /\ handler[r].result = "ok" => run[r].pid
    /\ Finalizing(r) /\ run[r].status = "running" => run[r].request # "none"
    /\ Finalizing(r) /\ run[r].request = "complete" => run[r].pid
    /\ run[r].status = "completed" => run[r].pid /\ ~Alive(r)

\* A run that is on its way to be ended by its termination, or ended otherwise.
Doomed(r) ==
    /\ run[r].status \notin {"completed", "unused"}
    /\ run[r].status = "running" =>
          /\ run[r].reclaim # "none"
          /\ handler[r].at \notin {"spared", "decide"}
          /\ ~(Finalizing(r) /\ run[r].request = "complete")

\* The intent to terminate stays, and one request is made at a time.
Requests(q) ==
    /\ run[q].reclaim # "none" => run'[q].reclaim # "none"
    /\ run'[q].request = "complete" =>
          run[q].request = "complete" \/ (run[q].status = "running" /\ run[q].request = "none")

LEMMA DiscardedRequest ==
    ASSUME NEW row \in RunRow
    PROVE  /\ Discarded(row).reclaim = row.reclaim
           /\ Discarded(row).request \in {row.request, "none"}
BY DEF Discarded, RunRow

LEMMA EditedRequest ==
    ASSUME TypeOK, NEW q \in Run, Edits(q)
    PROVE  Requests(q)
<1>1. run \in [Run -> RunRow] /\ run[q] \in RunRow
  BY DEF TypeOK
<1>2. CASE MarkRunManaged(q) \/ RecordRunChangeSet(q)
  BY <1>1, <1>2 DEF RunRow, Requests, MarkRunManaged, RecordRunChangeSet
<1>3. CASE RequestRunCompletion(q)
  BY <1>1, <1>3 DEF RunRow, Requests, RequestRunCompletion, Active
<1>4. CASE \E kind, reason : RequestRunBlock(q, kind, reason)
  BY <1>1, <1>4 DEF RunRow, Requests, RequestRunBlock
<1>5. CASE DiscardRunTerminalRequest(q)
  BY <1>1, <1>5, DiscardedRequest DEF Requests, DiscardRunTerminalRequest
<1>6. CASE \E outcome \in {"reclaimed", "timed_out"} : DeferRunRecovery(q, outcome)
  BY <1>1, <1>6 DEF RunRow, Requests, DeferRunRecovery
<1> QED BY <1>2, <1>3, <1>4, <1>5, <1>6 DEF Edits

LEMMA FinishedRequest ==
    ASSUME TypeOK, NEW q \in Run, Finishes(q)
    PROVE  Requests(q)
<1>1. run \in [Run -> RunRow] /\ run[q] \in RunRow
  BY DEF TypeOK
<1>2. CASE FinalizeRunTerminal(q)
  BY <1>1, <1>2 DEF RunRow, Requests, FinalizeRunTerminal, FinalizeCompletion, FinalizeBlock
<1>3. CASE \E outcome : FailsAs(q, outcome)
  <2>1. PICK outcome : run'[q] = [Discarded(run[q]) EXCEPT !.status = outcome]
    BY <1>1, <1>3 DEF FailsAs
  <2>2. /\ run'[q].reclaim = Discarded(run[q]).reclaim
        /\ run'[q].request = Discarded(run[q]).request
    BY <1>1, <2>1, DiscardedKeeps DEF RunRow
  <2> QED BY <1>1, <2>2, DiscardedRequest DEF Requests
<1>4. FinalizeRunTerminal(q) \/ \E outcome : FailsAs(q, outcome)
  BY DEF Finishes, FinishUnsuccessful, RecoverRunBlocked, FailsAs
<1> QED BY <1>2, <1>3, <1>4

LEMMA ActsRequest ==
    ASSUME TypeOK, DispatcherOK, NEW q \in Run, Acts(q)
    PROVE  Requests(q)
<1>1. CASE RecordTurn(q) \/ Pause(q)
  BY <1>1 DEF RecordTurn, RecordSpawn, Pause, PauseGoalRun, TypeOK, RunRow, Requests, board, vars
<1>2. CASE \E kind \in Workspaces : Prepare(q, kind)
  <2>1. PICK kind \in Workspaces : run' = [run EXCEPT ![q].workspace = kind]
    BY <1>2 DEF Prepare, BindRunWorkspace
  <2>2. run'[q].reclaim = run[q].reclaim /\ run'[q].request = run[q].request
    BY <2>1 DEF TypeOK, RunRow
  <2> QED BY <2>2 DEF Requests
<1>3. CASE UNCHANGED run
  BY <1>3 DEF Requests
<1> QED BY <1>1, <1>2, <1>3, EditedRequest, FinishedRequest, ActsWrites

\* Without a goal only a finalization completes a run, or discards a request.
LEMMA ActsKeep ==
    ASSUME TypeOK, DispatcherOK, NEW r \in Run, ~IsGoal(r), Acts(r), ~Finalize(r)
    PROVE  Kept(r)
<1>1. CASE EndOfTurn(r)
  <2>1. UNCHANGED run
    BY <1>1 DEF EndOfTurn, Collect, CutShort, Stopped, LeaveLost, ReadIntent,
       LookAtProcess, ReadRequest,
       DiscardPremature, Premature, ReadNothing, board, vars
  <2> QED BY <2>1 DEF Kept
<1>2. CASE Launching(r) \/ Ending(r)
  BY <1>2, NewTurnsKeep, EndingKeeps DEF DispatcherOK
<1>3. CASE ~Goroutine(r)
  BY <1>3, OthersKeep DEF Acts, Passing, Operating, Maintenance, Operator, DispatcherOK
<1> QED BY <1>1, <1>2, <1>3 DEF Goroutine

(* How a turn ends: it waits once it was recorded, it was successful if the *)
(* process exited while the goroutine waited, it is spared if there was no *)
(* termination, and it is finalized if its goroutine blocks it, or found a *)
(* request after it was spared.                                            *)
Turns(r) ==
    /\ At(r, "wait")' => At(r, "wait") \/ run'[r].pid
    /\ At(r, "stop")' => \/ At(r, "stop") /\ handler'[r].result = handler[r].result
                         \/ handler'[r].result # "ok"
    /\ (handler[r].at \in AfterTurn)' /\ handler'[r].result = "ok" =>
          \/ At(r, "wait")
          \/ At(r, "stop") /\ handler'[r].result = handler[r].result
          \/ handler[r].at \in AfterTurn /\ handler'[r].result = handler[r].result
    /\ (handler[r].at \in {"spared", "decide"})' =>
          \/ handler[r].at \in {"spared", "decide"}
          \/ At(r, "exited") /\ run[r].reclaim = "none"
    /\ Finalizing(r)' =>
          \/ Finalizing(r)
          \/ run'[r].request = "block"
          \/ /\ At(r, "decide") /\ UNCHANGED run /\ run[r].request # "none"
             /\ handler[r].result = "ok" \/ run[r].request = "block"

LEMMA ActsTurns ==
    ASSUME TypeOK, DispatcherOK, NEW r \in Run, ~IsGoal(r), Guarded(r), Acts(r)
    PROVE  Turns(r)
<1>1. HandlerOK /\ process \in [Run -> Process]
  BY DEF DispatcherOK, ProcessOK
<1>2. CASE RecordTurn(r)
  <2>1. CASE RecordSpawn(r) /\ GoesWith(r, "wait", "none")
    <3>1. handler'[r] = [at |-> "wait", result |-> "none"] /\ run'[r].pid
      BY <1>1, <2>1 DEF GoesWith, HandlerOK, RecordSpawn, TypeOK, RunRow
    <3> QED BY <3>1 DEF Turns, At, Finalizing, AfterTurn
  <2>2. CASE GoesWith(r, "stop", "spawn_error")
    <3>1. handler'[r] = [at |-> "stop", result |-> "spawn_error"]
      BY <1>1, <2>2 DEF GoesWith, HandlerOK
    <3> QED BY <3>1 DEF Turns, At, Finalizing, AfterTurn
  <2> QED BY <1>2, <2>1, <2>2 DEF RecordTurn
<1>3. CASE \E kind \in Kinds, reason \in Reason : HandlerBlocks(r, kind, reason)
  <2>1. run'[r].request = "block"
    BY <1>3 DEF HandlerBlocks, RequestRunBlock, TypeOK, RunRow
  <2>2. handler'[r].at = "capture"
    BY <1>1, <1>3, Arriving DEF HandlerBlocks, Phase
  <2> QED BY <2>1, <2>2 DEF Turns, At, AfterTurn
<1>4. CASE CheckIntent(r) \/ Start(r)
  <2>1. \/ handler'[r] = [at |-> "exited", result |-> "spawn_error"]
        \/ handler'[r].at \in {"start", "record", "fail"}
    BY <1>1, <1>4, Arriving DEF CheckIntent, Start, GoesWith, HandlerOK, Phase, Result
  <2> QED BY <2>1 DEF Turns, At, Finalizing, AfterTurn
<1>5. CASE \/ Manage(r) \/ Integrate(r) \/ \E kind \in Workspaces : Prepare(r, kind)
           \/ \E reason \in Reason : LaunchFails(r, reason) \/ BlockFallback(r, reason)
  <2>1. handler'[r].at \in {"managed", "turn", "prepared", "over"}
    BY <1>1, <1>5, Arriving DEF Manage, Integrate, Prepare, LaunchFails, BlockFallback, Phase
  <2> QED BY <2>1 DEF Turns, At, Finalizing, AfterTurn
<1>6. CASE Collect(r) \/ Stopped(r)
  <2>1. CASE Collect(r)
    <3>1. At(r, "wait") /\ handler'[r].at = "exited"
      BY <1>1, <2>1 DEF Collect, GoesWith, HandlerOK
    <3> QED BY <3>1 DEF Turns, At, Finalizing, AfterTurn
  <2>2. CASE Stopped(r)
    <3>1. At(r, "stop") /\ handler'[r].at = "exited" /\ handler'[r].result = handler[r].result
      BY <1>1, <2>2, Arriving DEF Stopped, Phase
    <3> QED BY <3>1 DEF Turns, At, Finalizing, AfterTurn
  <2> QED BY <1>6, <2>1, <2>2
<1>7. CASE CutShort(r)
  <2>1. handler'[r].at = "stop" /\ handler'[r].result # "ok"
    BY <1>1, <1>7 DEF CutShort, GoesWith, HandlerOK
  <2> QED BY <2>1 DEF Turns, At, Finalizing, AfterTurn
<1>8. CASE LeaveLost(r) \/ ReadNothing(r)
  <2>1. handler'[r].at \in {"over", "fail", "pause"}
    BY <1>1, <1>8, Arriving DEF LeaveLost, ReadNothing, Unfinished, Phase, Result
  <2> QED BY <2>1 DEF Turns, At, Finalizing, AfterTurn
<1>14. CASE ReadIntent(r)
  <2>1. run[r].reclaim \in Result
    BY DEF TypeOK, RunRow, ReclaimIntent, Result
  <2>2. \/ handler'[r].at = "doomed"
        \/ /\ At(r, "exited") /\ run[r].reclaim = "none"
           /\ handler'[r].at = "spared" /\ handler'[r].result = handler[r].result
    BY <1>1, <1>14, <2>1, Arriving DEF ReadIntent, Phase
  <2> QED BY <2>2 DEF Turns, At, Finalizing, AfterTurn
<1>15. CASE LookAtProcess(r)
  <2>1. \/ handler'[r].at \in {"over", "reclaim"}
        \/ /\ At(r, "spared")
           /\ handler'[r].at = "decide" /\ handler'[r].result = handler[r].result
    BY <1>1, <1>15, Arriving DEF LookAtProcess, Phase
  <2> QED BY <2>1 DEF Turns, At, Finalizing, AfterTurn
<1>9. CASE ReadRequest(r)
  <2>1. handler'[r].at = "capture"
    BY <1>1, <1>9, Arriving DEF ReadRequest, Phase
  <2> QED BY <1>9, <2>1 DEF ReadRequest, MayFinalize, PendingRequest, Turns, At, AfterTurn, board,
             vars
<1>10. CASE Ending(r)
  <2>1. ~(Pause(r) \/ NoSession(r) \/ Judge(r) \/ AcceptGoal(r) \/ NextTurn(r))
    BY DEF Guarded, Judging, At, Pause, NoSession, Judge, AcceptGoal, NextTurn
  <2>2. handler'[r].at = "over" \/ (At(r, "capture") /\ handler'[r].at = "finalize")
    BY <1>1, <1>10, <2>1, Arriving DEF Ending, Capture, Finalize, Loses, FinalizationFails,
       FinishReclaim, FailCounted, FailUnavailable, Phase
  <2> QED BY <2>2 DEF Turns, At, Finalizing, AfterTurn
<1>11. CASE UNCHANGED handler
  BY <1>11 DEF Turns, At, Finalizing, AfterTurn
<1>12. CASE Launching(r)
  BY <1>2, <1>3, <1>4, <1>5, <1>12 DEF Launching
<1>13. CASE EndOfTurn(r)
  BY <1>6, <1>7, <1>8, <1>9, <1>13, <1>14, <1>15 DEF EndOfTurn, DiscardPremature, Premature
<1> QED BY <1>10, <1>11, <1>12, <1>13
    DEF Acts, Goroutine, Worker, Heartbeat, WorkerCompletes, Works, WorkerBlocks, Exits, TailEnds,
        Passes, Passing, PassInspects, PassDefers, PassForces, PassLooks, PassLoses, PassWrites,
        Operating, Terminate, TerminateUnmanaged

\* The completion of a run by its goroutine, and what it ends with otherwise.
LEMMA Finalized ==
    ASSUME TypeOK, DispatcherOK, NEW r \in Run, Finalize(r)
    PROVE  /\ handler'[r].at = "over" /\ UNCHANGED process
           /\ At(r, "finalize") /\ run[r].status = "running"
           /\ \/ run'[r].status = "blocked"
              \/ run'[r].status = "completed" /\ run[r].request = "complete"
<1>1. handler'[r].at = "over"
  BY Arriving DEF Finalize, DispatcherOK
<1>2. Active(r) /\ \/ run'[r].status = "blocked"
                   \/ run'[r].status = "completed" /\ run[r].request = "complete"
  BY DEF Finalize, FinalizeRunTerminal, FinalizeCompletion, FinalizeBlock, TypeOK, RunRow
<1> QED BY <1>1, <1>2 DEF Finalize, Active

LEMMA ActsAsked ==
    ASSUME TypeOK, DispatcherOK, PromptLaunch, NEW r \in Run, ~IsGoal(r), Guarded(r), Asked(r),
           Acts(r)
    PROVE  Asked(r)'
<1>1. Turns(r) /\ Requests(r)
  BY ActsTurns, ActsRequest
<1>2. run[r].pid => run'[r].pid
  BY ActsRow DEF Guarded, Judging, Pause, At
<1>3. Finalize(r) \/ Kept(r)
  BY ActsKeep
<1>4. At(r, "wait")' => (run[r].pid)'
  BY <1>1, <1>2 DEF Asked, Turns
<1>5. At(r, "stop")' => (handler[r].result)' # "ok"
  BY <1>1 DEF Asked, Turns
<1>6. (handler[r].at \in AfterTurn)' /\ (handler[r].result)' = "ok" => (run[r].pid)'
  BY <1>1, <1>2 DEF Asked, Turns, At
<1>7. Finalizing(r)' /\ (run[r].status)' = "running" => (run[r].request)' # "none"
  BY <1>1, <1>3, Finalized DEF Asked, Turns, Kept
<1>8. Finalizing(r)' /\ (run[r].request)' = "complete" => (run[r].pid)'
  BY <1>1, <1>2 DEF Asked, Turns, Requests, AfterTurn, At
<1>9. ASSUME run'[r].status = "completed"
      PROVE  run'[r].pid /\ ~Alive(r)'
  <2>1. run[r].pid /\ ~Alive(r)
    <3>1. CASE Finalize(r)
      <4>1. At(r, "finalize") /\ run[r].request = "complete"
        BY <1>9, <3>1, Finalized
      <4> QED BY <4>1 DEF Asked, Finalizing, Guarded, Harmless, At
    <3>2. CASE Kept(r)
      BY <1>9, <3>2 DEF Kept, Asked
    <3> QED BY <1>3, <3>1, <3>2
  <2>2. ~Alive(r)'
    <3>1. CASE RecordTurn(r)
      BY <2>1, <3>1 DEF RecordTurn, Alive
    <3>2. CASE ~RecordTurn(r)
      BY <2>1, <3>2, ActsTame DEF Tame
    <3> QED BY <3>1, <3>2
  <2> QED BY <1>2, <2>1, <2>2
<1> QED BY <1>4, <1>5, <1>6, <1>7, <1>8, <1>9 DEF Asked

LEMMA ActsDoomed ==
    ASSUME TypeOK, DispatcherOK, [DispatchNext]_dispatchVars, NEW r \in Run, ~IsGoal(r),
           Guarded(r), Asked(r), Doomed(r), Acts(r)
    PROVE  Doomed(r)'
<1>1. Turns(r) /\ Requests(r)
  BY ActsTurns, ActsRequest
<1>2. run'[r].status # "unused"
  BY StaysUsed DEF Doomed
<1>3. CASE Finalize(r)
  <2>1. run'[r].status = "blocked"
    BY <1>3, Finalized DEF Doomed, Finalizing
  <2> QED BY <2>1 DEF Doomed
<1>4. CASE Kept(r)
  <2>1. run'[r].status # "completed"
    BY <1>4 DEF Kept, Doomed
  <2>2. ASSUME run'[r].status = "running"
        PROVE  /\ run'[r].reclaim # "none"
               /\ handler'[r].at \notin {"spared", "decide"}
               /\ ~(Finalizing(r)' /\ run'[r].request = "complete")
    <3>1. run[r].status = "running" /\ run[r].reclaim # "none"
      BY <1>4, <2>2 DEF Kept, Doomed
    <3>2. /\ ~(Finalizing(r) /\ run[r].request = "complete")
          /\ handler[r].at \notin {"spared", "decide"}
      BY <3>1 DEF Doomed
    <3> QED BY <1>1, <3>1, <3>2 DEF Asked, Requests, Turns, At
  <2> QED BY <1>2, <2>1, <2>2 DEF Doomed
<1> QED BY <1>3, <1>4, ActsKeep

LEMMA StillAsked ==
    ASSUME NEW r \in Run, Asked(r), run'[r] = run[r], process'[r].state = process[r].state,
           handler'[r] = handler[r] \/ handler'[r].at = "over"
    PROVE  Asked(r)'
BY DEF Asked, AfterTurn, At, Finalizing, Alive

LEMMA StillDoomed ==
    ASSUME NEW r \in Run, Doomed(r), run'[r] = run[r],
           handler'[r] = handler[r] \/ handler'[r].at = "over"
    PROVE  Doomed(r)'
BY DEF Doomed, At, Finalizing

LEMMA ClaimAsked ==
    ASSUME TypeOK, DispatcherOK, NEW r \in Run, Claiming(r)
    PROVE  Asked(r)' /\ run[r].status = "unused"
<1>1. PICK t \in Task : Claim(t, r)
  BY DEF Claiming
<1>2. run[r].status = "unused" /\ run'[r] = NewRun(t, "running", FALSE)
  BY <1>1 DEF Claim, ClaimTask, TypeOK
<1>3. handler'[r].at = "claimed"
  BY <1>1, Arriving DEF Claim, DispatcherOK, Phase
<1>4. run'[r].status = "running"
  BY <1>2 DEF NewRun, Unused
<1> QED BY <1>2, <1>3, <1>4 DEF Asked, AfterTurn, At, Finalizing

\* The invariant of terminations.
Ordered(r) == ~IsGoal(r) => Asked(r) /\ (r \in terminated => Doomed(r))
Known == \A r \in terminated : r \in Run /\ run[r].status # "unused"

LEMMA StillOrdered ==
    ASSUME NEW r \in Run, Ordered(r), run'[r] = run[r], process'[r].state = process[r].state,
           handler'[r] = handler[r] \/ handler'[r].at = "over"
    PROVE  ~IsGoal(r)' => Asked(r)' /\ (r \in terminated => Doomed(r)')
<1>1. IsGoal(r)' <=> IsGoal(r)
  BY DEF IsGoal
<1> QED BY <1>1, StillAsked, StillDoomed DEF Ordered

LEMMA OrderedKept ==
    ASSUME TypeOK, DispatcherOK, PromptLaunch, [DispatchNext]_dispatchVars, Known,
           NEW r \in Run, Safe(r), Ordered(r)
    PROVE  ~IsGoal(r)' => Asked(r)' /\ (r \in terminated => Doomed(r)')
<1>1. CASE Crash
  <2>1. /\ UNCHANGED run /\ process'[r].state = process[r].state
        /\ handler'[r] = handler[r] \/ handler'[r].at = "over"
    BY <1>1 DEF Crash, DispatcherOK, ProcessOK, Process, board, vars
  <2> QED BY <2>1, StillOrdered
<1>2. CASE Around
  BY <1>2, AroundAlone, StillOrdered DEF Still
<1>3. ASSUME NEW q \in Run, q # r, Acts(q) \/ Claiming(q)
      PROVE  ~IsGoal(r)' => Asked(r)' /\ (r \in terminated => Doomed(r)')
  BY <1>3, ActsAlone, ClaimAlone, StillOrdered DEF Still
<1>4. CASE Acts(r)
  <2>1. IsGoal(r)' <=> IsGoal(r)
    BY <1>4, ActsRow DEF IsGoal
  <2> QED BY <1>4, <2>1, ActsAsked, ActsDoomed DEF Ordered, Safe
<1>5. CASE Claiming(r)
  BY <1>5, ClaimAsked DEF Known
<1> QED BY <1>1, <1>2, <1>3, <1>4, <1>5, StepActs

TerminationInv ==
    PromptLaunch => Known /\ \A r \in Run : Safe(r) /\ Ordered(r)

LEMMA TerminationInductive ==
    ASSUME TypeOK, DispatcherOK, TerminationInv, [RecordNext]_recordVars
    PROVE  TerminationInv'
<1> SUFFICES ASSUME PromptLaunch
             PROVE  Known' /\ \A r \in Run : Safe(r)' /\ Ordered(r)'
  BY DEF TerminationInv
<1>1. [DispatchNext]_dispatchVars
  BY DEF RecordNext, recordVars
<1>2. \A r \in terminated' :
         \/ r \in terminated
         \/ r \in Run /\ run'[r].reclaim # "none" /\ Alive(r)' /\ ~PastIntent(r)'
  BY DEF RecordNext, recordVars
<1>3. \A r \in Run : Safe(r)'
  BY <1>1, SafeInductive DEF TerminationInv
<1>4. Known'
  <2> SUFFICES ASSUME NEW r \in terminated' PROVE r \in Run /\ run'[r].status # "unused"
    BY DEF Known
  <2>1. CASE r \in terminated
    BY <1>1, <2>1, StaysUsed DEF TerminationInv, Known
  <2>2. CASE r \in Run /\ Alive(r)'
    BY <1>3, <2>2 DEF Safe, Fresh, Alive
  <2> QED BY <1>2, <2>1, <2>2
<1>5. ASSUME NEW r \in Run PROVE Ordered(r)'
  <2> SUFFICES ASSUME ~IsGoal(r)' PROVE Asked(r)' /\ (r \in terminated' => Doomed(r)')
    BY DEF Ordered
  <2>1. Asked(r)' /\ (r \in terminated => Doomed(r)')
    BY <1>1, OrderedKept DEF TerminationInv
  <2>2. ASSUME run'[r].reclaim # "none", Alive(r)', ~PastIntent(r)'
        PROVE  Doomed(r)'
    <3>1. Fresh(r)'
      BY <1>3 DEF Safe
    <3>2. run'[r].status \notin {"completed", "unused"}
      BY <2>1, <2>2, <3>1 DEF Asked, Fresh, Alive
    <3>3. ~Finalizing(r)' /\ handler'[r].at \notin {"spared", "decide"}
      BY <2>2 DEF PastIntent, Finalizing, At
    <3> QED BY <2>2, <3>2, <3>3 DEF Doomed
  <2> QED BY <1>2, <2>1, <2>2
<1> QED BY <1>3, <1>4, <1>5

(* A run that is terminated while its worker runs, and before its goroutine *)
(* looked for that, never completes, however the termination, the worker's *)
(* own request, its exit, the three reads of the goroutine, the maintenance *)
(* pass and restarts of the dispatcher interleave.  (For boards without    *)
(* goals, where nothing expires in a launch.)                              *)
THEOREM TerminationsAreHonoured ==
    RecordSpec => [](PromptLaunch /\ Goal = {} => TerminationHonoured)
<1>1. RecordInit => TerminationInv
  <2> SUFFICES ASSUME RecordInit, NEW r \in Run PROVE Safe(r) /\ Ordered(r)
    BY DEF TerminationInv, RecordInit, Known
  <2>1. /\ run[r].status = "unused" /\ handler[r].at = "none" /\ terminated = {}
    BY DEF RecordInit, DispatchInit, Init, Unused
  <2> QED BY <2>1, SafeInit DEF RecordInit, Ordered, Asked, AfterTurn, At, Finalizing
<1>2. RecordSpec => DispatchSpec
  <2>1. [RecordNext]_recordVars => [DispatchNext]_dispatchVars
    BY DEF RecordNext, recordVars
  <2> QED BY <2>1, PTL DEF RecordSpec, RecordInit, DispatchSpec
<1>3. DispatchInv /\ TerminationInv /\ [RecordNext]_recordVars => TerminationInv'
  BY TerminationInductive DEF DispatchInv
<1>4. TerminationInv => (PromptLaunch /\ Goal = {} => TerminationHonoured)
  BY DEF TerminationInv, Known, Ordered, Doomed, IsGoal, TerminationHonoured
<1> QED BY <1>1, <1>2, <1>3, <1>4, DispatchInvHolds, PTL DEF RecordSpec
=============================================================================
