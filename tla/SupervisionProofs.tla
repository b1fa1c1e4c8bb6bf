------------------------- MODULE SupervisionProofs -------------------------
(***************************************************************************)
(* What holds of the dispatcher for every number of tasks and runs.        *)
(***************************************************************************)
EXTENDS Supervision, TaskStoreTheorems

-----------------------------------------------------------------------------
(* The inductive invariant: the types of the dispatcher's own variables,   *)
(* and what a goroutine or the pass remembers when it writes an outcome.   *)

HandlerOK ==
    /\ handler \in [Run -> Handler]
    /\ \A r \in Run : At(r, "doomed") \/ At(r, "reclaim")
                      => handler[r].result \in {"timed_out", "reclaimed"}

PassOK ==
    /\ pass \in Pass
    /\ pass.plan # "idle" => pass.outcome \in {"timed_out", "reclaimed", "crashed"}
    /\ pass.plan \in {"defer", "force"} => pass.outcome \in {"timed_out", "reclaimed"}

ProcessOK == process \in [Run -> Process]
RestOK == clock \in [Run -> SUBSET Deadline] /\ up \in BOOLEAN /\ stops \in 0..MaxStops

DispatcherOK == HandlerOK /\ PassOK /\ ProcessOK /\ RestOK

-----------------------------------------------------------------------------
(* Every step of the dispatcher, the workers and the operator is a step of *)
(* the store, or leaves the store alone.                                   *)

LEMMA LaunchingWrites ==
    ASSUME NEW r \in Run, Launching(r)
    PROVE  [Next]_vars
<1>1. CASE Manage(r)
  BY <1>1 DEF Manage, Next, Launch
<1>2. CASE Integrate(r) \/ CheckIntent(r) \/ Start(r)
  BY <1>2 DEF Integrate, CheckIntent, Start, board
<1>3. CASE RecordTurn(r)
  BY <1>3 DEF RecordTurn, Next, Launch, board
<1>4. CASE \E kind \in Workspaces : Prepare(r, kind)
  BY <1>4 DEF Prepare, Next, Launch
<1>5. CASE \E reason \in Reason : LaunchFails(r, reason)
  <2>1. PICK reason \in Reason : LaunchFails(r, reason)
    BY <1>5
  <2>2. \E outcome \in Outcomes, counted, cooldown \in BOOLEAN :
           FailRun(r, outcome, counted, cooldown, reason, FailureLimit)
    BY <2>1, CallAssumption DEF LaunchFails, UnsuccessfulOutcome
  <2>3. FailureLimit \in FailureLimits
    BY SettingAssumption
  <2> QED BY <2>2, <2>3 DEF Next, Recovery
<1>6. CASE \E reason \in Reason : BlockFallback(r, reason)
  BY <1>6, CallAssumption DEF BlockFallback, Next, Recovery, UnsuccessfulOutcome
<1>7. CASE \E kind \in Kinds, reason \in Reason : HandlerBlocks(r, kind, reason)
  BY <1>7 DEF HandlerBlocks, Next, Terminal
<1> QED BY <1>1, <1>2, <1>3, <1>4, <1>5, <1>6, <1>7 DEF Launching

LEMMA EndOfTurnWrites ==
    ASSUME NEW r \in Run, EndOfTurn(r)
    PROVE  [Next]_vars
<1>1. CASE DiscardPremature(r)
  BY <1>1 DEF DiscardPremature, Next, Terminal
<1>2. CASE \/ Collect(r) \/ CutShort(r) \/ Stopped(r) \/ LeaveLost(r)
           \/ ReadIntent(r) \/ LookAtProcess(r) \/ ReadRequest(r) \/ ReadNothing(r)
  BY <1>2 DEF Collect, CutShort, Stopped, LeaveLost, ReadIntent,
     LookAtProcess, ReadRequest, ReadNothing, board
<1> QED BY <1>1, <1>2 DEF EndOfTurn

LEMMA FailingWrites ==
    ASSUME NEW r \in Run, NEW reason \in Reason, NEW counted \in BOOLEAN,
           NEW cooldown \in BOOLEAN, NEW outcome \in UnsuccessfulOutcome,
           \/ FailRun(r, outcome, counted, cooldown, reason, FailureLimit)
           \/ RecoverAbandonedRun(r, outcome, counted, reason)
           \/ \E o \in {outcome, "blocked"} : RecoverRunBlocked(r, o, "needs_input", reason)
    PROVE  Next
<1>1. outcome \in Outcomes /\ "needs_input" \in Kinds /\ FailureLimit \in FailureLimits
  BY CallAssumption, SettingAssumption
<1> QED BY <1>1 DEF Next, Recovery

LEMMA DeferringWrites ==
    ASSUME NEW r \in Run, NEW outcome \in {"reclaimed", "timed_out"},
           DeferRunRecovery(r, outcome)
    PROVE  Next
<1>1. outcome \in Outcomes
  BY CallAssumption DEF UnsuccessfulOutcome
<1>2. PICK reason \in Reason : TRUE
  BY CallAssumption
<1> QED BY <1>1, <1>2 DEF Next, Recovery

LEMMA EndingWrites ==
    ASSUME HandlerOK, NEW r \in Run, Ending(r)
    PROVE  [Next]_vars
<1>1. CASE Capture(r)
  BY <1>1 DEF Capture, Next, Terminal, board
<1>2. CASE Finalize(r)
  BY <1>2 DEF Finalize, Next, Terminal
<1>3. CASE Pause(r)
  BY <1>3 DEF Pause, Next, Launch
<1>4. CASE AcceptGoal(r)
  BY <1>4 DEF AcceptGoal, Next, Terminal
<1>5. CASE Loses(r) \/ NoSession(r) \/ Judge(r) \/ NextTurn(r)
  BY <1>5 DEF Loses, NoSession, Judge, NextTurn, board
<1>6. ASSUME NEW reason \in Reason,
             \/ FinalizationFails(r, reason) \/ FinishReclaim(r, reason)
             \/ FailCounted(r, reason) \/ FailUnavailable(r, reason)
      PROVE  Next
  <2>1. CASE FinalizationFails(r, reason)
    BY <2>1, FailingWrites DEF FinalizationFails, UnsuccessfulOutcome
  <2>2. CASE FinishReclaim(r, reason)
    <3>1. handler[r].result \in UnsuccessfulOutcome
      BY <2>2 DEF HandlerOK, FinishReclaim, UnsuccessfulOutcome
    <3>2. (handler[r].result = "timed_out") \in BOOLEAN
      OBVIOUS
    <3> QED BY <2>2, <3>1, <3>2, FailingWrites DEF FinishReclaim
  <2>3. CASE FailCounted(r, reason)
    <3>1. FailureOutcome(handler[r].result) \in UnsuccessfulOutcome
      BY DEF FailureOutcome, UnsuccessfulOutcome
    <3> QED BY <2>3, <3>1, FailingWrites DEF FailCounted, UnsuccessfulOutcome
  <2>4. CASE FailUnavailable(r, reason)
    BY <2>4, FailingWrites DEF FailUnavailable, UnsuccessfulOutcome
  <2> QED BY <1>6, <2>1, <2>2, <2>3, <2>4
<1> QED BY <1>1, <1>2, <1>3, <1>4, <1>5, <1>6 DEF Ending

LEMMA WorkerWrites ==
    ASSUME NEW r \in Run, Worker(r)
    PROVE  [Next]_vars
<1>1. CASE WorkerCompletes(r)
  BY <1>1 DEF WorkerCompletes, Next, Terminal
<1>2. CASE \E kind \in Kinds, reason \in Reason : WorkerBlocks(r, kind, reason)
  BY <1>2 DEF WorkerBlocks, Next, Terminal
<1>3. CASE Heartbeat(r) \/ Works(r) \/ \E exit \in {"none", "ok", "failed"} : Exits(r, exit)
  BY <1>3 DEF Heartbeat, Works, Exits, board
<1> QED BY <1>1, <1>2, <1>3 DEF Worker

LEMMA MaintenanceWrites ==
    ASSUME PassOK, Maintenance
    PROVE  [Next]_vars
<1>1. PICK r \in Run :
         \/ \E o \in {"timed_out", "reclaimed", "crashed"} : PassInspects(r, o)
         \/ PassDefers(r) \/ PassForces(r) \/ PassLooks(r) \/ PassLoses(r)
         \/ \E reason \in Reason : PassWrites(r, reason)
  BY DEF Maintenance
<1>2. CASE PassDefers(r) \/ PassForces(r)
  <2>1. DeferRunRecovery(r, pass.outcome) /\ pass.outcome \in {"timed_out", "reclaimed"}
    BY <1>2 DEF PassDefers, PassForces, Plans, PassOK
  <2> QED BY <2>1, DeferringWrites
<1>3. CASE \E reason \in Reason : PassWrites(r, reason)
  <2>1. PICK reason \in Reason : PassWrites(r, reason)
    BY <1>3
  <2>2. pass.outcome \in UnsuccessfulOutcome
    BY <2>1 DEF PassWrites, Plans, PassOK, UnsuccessfulOutcome
  <2>3. (pass.outcome # "reclaimed") \in BOOLEAN
    OBVIOUS
  <2> QED BY <2>1, <2>2, <2>3, FailingWrites DEF PassWrites
<1>4. CASE \/ \E o \in {"timed_out", "reclaimed", "crashed"} : PassInspects(r, o)
           \/ PassLooks(r) \/ PassLoses(r)
  BY <1>4 DEF PassInspects, PassLooks, PassLoses, board
<1> QED BY <1>1, <1>2, <1>3, <1>4

LEMMA OperatorWrites ==
    ASSUME Operator
    PROVE  Next
<1>1. PICK r \in Run : Terminate(r) \/ \E reason \in Reason : TerminateUnmanaged(r, reason)
  BY DEF Operator
<1>2. CASE Terminate(r)
  BY <1>2, DeferringWrites DEF Terminate
<1>3. CASE \E reason \in Reason : TerminateUnmanaged(r, reason)
  BY <1>3, FailingWrites DEF TerminateUnmanaged, UnsuccessfulOutcome
<1> QED BY <1>1, <1>2, <1>3

LEMMA StepWrites ==
    ASSUME DispatcherOK, [DispatchNext]_dispatchVars
    PROVE  [Next]_vars
<1>1. CASE \E t \in Task : Created(t)
  <2>1. PICK t \in Task : CreateTask(t, "ready", TRUE, "none", MaxRetries, {})
    BY <1>1 DEF Created
  <2> QED BY <2>1, CallAssumption, SettingAssumption DEF Next, CreateTasks
<1>2. CASE \E t \in Task : CooldownEnds(t)
  BY <1>2 DEF CooldownEnds, Next, Time
<1>3. CASE \E t \in Task, r \in Run : Claim(t, r)
  BY <1>3 DEF Claim, Next, Launch
<1>4. CASE \E r \in Run : Goroutine(r)
  BY <1>4, LaunchingWrites, EndOfTurnWrites, EndingWrites DEF Goroutine, DispatcherOK
<1>5. CASE \E r \in Run : Worker(r)
  BY <1>5, WorkerWrites
<1>6. CASE Maintenance
  BY <1>6, MaintenanceWrites DEF DispatcherOK
<1>7. CASE PromoteDue
  BY <1>7 DEF PromoteDue, Next, Time
<1>8. CASE Operator
  BY <1>8, OperatorWrites
<1>9. CASE \/ \E r \in Run : TailEnds(r) \/ \E d \in Deadline : Passes(r, d)
           \/ PassAbandons \/ Crash \/ Stop \/ Restart \/ UNCHANGED dispatchVars
  BY <1>9 DEF TailEnds, Passes, PassAbandons, Crash, Stop, Restart, dispatchVars, board
<1> QED BY <1>1, <1>2, <1>3, <1>4, <1>5, <1>6, <1>7, <1>8, <1>9 DEF DispatchNext

-----------------------------------------------------------------------------
(* The invariant is inductive *)

LEMMA Going ==
    ASSUME HandlerOK, NEW r \in Run, NEW phase \in Phase \ {"doomed", "reclaim"},
           Goes(r, phase)
    PROVE  HandlerOK'
BY DEF HandlerOK, Goes, Handler, At

LEMMA GoingWith ==
    ASSUME HandlerOK, NEW r \in Run, NEW phase \in Phase, NEW result \in Result,
           phase \in {"doomed", "reclaim"} => result \in {"timed_out", "reclaimed"},
           GoesWith(r, phase, result)
    PROVE  HandlerOK'
BY DEF HandlerOK, GoesWith, Handler, At

LEMMA Leaving ==
    ASSUME HandlerOK, NEW r \in Run, Leaves(r)
    PROVE  HandlerOK'
BY DEF HandlerOK, Leaves, Handler, At, Phase, Result

LEMMA Staying ==
    ASSUME HandlerOK, UNCHANGED handler
    PROVE  HandlerOK'
BY DEF HandlerOK, At

\* A process changes to a state, with an exit code.
LEMMA Exiting ==
    ASSUME ProcessOK, NEW r \in Run, NEW state \in {"none", "live", "tail", "dead"},
           NEW exit \in {"none", "ok", "failed"},
           process' = [process EXCEPT ![r].state = state, ![r].exit = exit]
    PROVE  ProcessOK'
<1>1. process[r] \in Process
  BY DEF ProcessOK
<1>2. [[process[r] EXCEPT !.state = state] EXCEPT !.exit = exit] \in Process
  BY <1>1 DEF Process
<1>3. process' = [process EXCEPT ![r] = [[process[r] EXCEPT !.state = state] EXCEPT !.exit = exit]]
  BY DEF ProcessOK
<1> QED BY <1>2, <1>3 DEF ProcessOK

LEMMA Counting ==
    ASSUME RestOK, stops < MaxStops
    PROVE  stops + 1 \in 0..MaxStops
<1>1. MaxStops \in Nat
  BY SettingAssumption
<1> QED BY <1>1 DEF RestOK

LEMMA LaunchingOK ==
    ASSUME DispatcherOK, NEW r \in Run, Launching(r)
    PROVE  DispatcherOK'
<1>1. PassOK' /\ RestOK'
  BY DEF DispatcherOK, Launching, PassOK, RestOK, Manage, Integrate, CheckIntent, Start,
         RecordTurn, Prepare, LaunchFails, BlockFallback, HandlerBlocks
<1>2. ProcessOK'
  <2>1. CASE Start(r)
    BY <2>1 DEF DispatcherOK, ProcessOK, Process, Start
  <2>2. CASE UNCHANGED process
    BY <2>2 DEF DispatcherOK, ProcessOK
  <2> QED BY <2>1, <2>2 DEF Launching, Manage, Integrate, CheckIntent, RecordTurn,
             Prepare, LaunchFails, BlockFallback, HandlerBlocks
<1>3. HandlerOK'
  BY Going, GoingWith, Leaving
     DEF DispatcherOK, Launching, Phase, Result, Manage, Integrate, CheckIntent, Start,
         RecordTurn, Prepare, LaunchFails, BlockFallback, HandlerBlocks
<1> QED BY <1>1, <1>2, <1>3 DEF DispatcherOK

LEMMA EndOfTurnOK ==
    ASSUME TypeOK, DispatcherOK, NEW r \in Run, EndOfTurn(r)
    PROVE  DispatcherOK'
<1>1. PassOK' /\ RestOK'
  BY DEF DispatcherOK, EndOfTurn, PassOK, RestOK, Collect, CutShort, Stopped, LeaveLost,
         ReadIntent, LookAtProcess, ReadRequest, DiscardPremature, ReadNothing
<1>2. ProcessOK'
  <2>1. CASE Collect(r) \/ Stopped(r)
    <3>1. process[r].state \in {"none", "live", "tail", "dead"}
      BY DEF DispatcherOK, ProcessOK, Process
    <3> QED BY <2>1, <3>1, Exiting DEF DispatcherOK, Collect, Stopped
  <2>2. CASE UNCHANGED process
    BY <2>2 DEF DispatcherOK, ProcessOK
  <2> QED BY <2>1, <2>2 DEF EndOfTurn, CutShort, LeaveLost, ReadIntent,
     LookAtProcess, ReadRequest,
             DiscardPremature, ReadNothing
<1>3. HandlerOK'
  <2>1. CASE Collect(r)
    <3>1. process[r].exit \in Result
      BY DEF DispatcherOK, ProcessOK, Process, Result
    <3> QED BY <2>1, <3>1, GoingWith DEF Collect, Phase, DispatcherOK
  <2>2. CASE ReadIntent(r)
    <3>1. run[r].reclaim \in {"none", "timed_out", "reclaimed"}
      BY DEF TypeOK, RunRow, ReclaimIntent
    <3> QED BY <2>2, <3>1, Going, GoingWith DEF ReadIntent, Phase, Result, DispatcherOK
  <2>4. CASE LookAtProcess(r)
    <3>1. CASE At(r, "doomed") /\ Goes(r, "reclaim")
      BY <3>1 DEF HandlerOK, DispatcherOK, Goes, Handler, Phase, At
    <3>2. CASE Leaves(r) \/ Goes(r, "decide")
      BY <3>2, Going, Leaving DEF DispatcherOK, Phase
    <3> QED BY <2>4, <3>1, <3>2 DEF LookAtProcess
  <2>3. CASE \/ CutShort(r) \/ Stopped(r) \/ LeaveLost(r)
             \/ ReadRequest(r) \/ DiscardPremature(r) \/ ReadNothing(r)
    BY <2>3, Going, GoingWith, Leaving
       DEF DispatcherOK, CutShort, Stopped, LeaveLost, ReadRequest, DiscardPremature,
           ReadNothing, Unfinished, Phase, Result
  <2> QED BY <2>1, <2>2, <2>3, <2>4 DEF EndOfTurn
<1> QED BY <1>1, <1>2, <1>3 DEF DispatcherOK

LEMMA EndingOK ==
    ASSUME DispatcherOK, NEW r \in Run, Ending(r)
    PROVE  DispatcherOK'
<1>1. ProcessOK' /\ PassOK'
  BY DEF DispatcherOK, Ending, ProcessOK, PassOK, Capture, Finalize, Loses, Pause, NoSession,
         Judge, AcceptGoal, NextTurn, FinalizationFails, FinishReclaim, FailCounted,
         FailUnavailable
<1>2. RestOK'
  <2>1. CASE Pause(r) \/ Judge(r)
    BY <2>1 DEF DispatcherOK, RestOK, Reset, Pause, Judge
  <2>2. CASE UNCHANGED <<clock, stops>> /\ up' \in {up, FALSE}
    BY <2>2 DEF DispatcherOK, RestOK
  <2>3. CASE Loses(r)
    BY <2>3 DEF DispatcherOK, RestOK, Loses
  <2> QED BY <2>1, <2>2, <2>3 DEF Ending, Capture, Finalize, NoSession, AcceptGoal, NextTurn,
             FinalizationFails, FinishReclaim, FailCounted, FailUnavailable
<1>3. HandlerOK'
  BY Going, GoingWith, Leaving
     DEF DispatcherOK, Ending, Phase, Result, Capture, Finalize, Loses, Pause, NoSession,
         Judge, AcceptGoal, NextTurn, FinalizationFails, FinishReclaim, FailCounted,
         FailUnavailable
<1> QED BY <1>1, <1>2, <1>3 DEF DispatcherOK

LEMMA WorkerOK ==
    ASSUME DispatcherOK, NEW r \in Run, Worker(r) \/ TailEnds(r)
    PROVE  DispatcherOK'
<1>1. HandlerOK' /\ PassOK'
  BY Staying DEF DispatcherOK, Worker, PassOK, Heartbeat, WorkerCompletes, Works, WorkerBlocks,
     Exits, TailEnds
<1>2. ProcessOK'
  <2>1. CASE Works(r)
    <3>1. PICK changed \in Change : process' = [process EXCEPT ![r].changed = changed]
      BY <2>1 DEF Works, Change
    <3> QED BY <3>1 DEF DispatcherOK, ProcessOK, Process
  <2>4. CASE TailEnds(r)
    BY <2>4 DEF DispatcherOK, ProcessOK, Process, TailEnds
  <2>2. CASE \E exit \in {"none", "ok", "failed"} : Exits(r, exit)
    BY <2>2, Exiting DEF DispatcherOK, Exits
  <2>3. CASE UNCHANGED process
    BY <2>3 DEF DispatcherOK, ProcessOK
  <2> QED BY <2>1, <2>2, <2>3, <2>4 DEF Worker, Heartbeat, WorkerCompletes, WorkerBlocks
<1>3. RestOK'
  <2>1. CASE Heartbeat(r)
    BY <2>1 DEF DispatcherOK, RestOK, Reset, Heartbeat
  <2>2. CASE UNCHANGED <<clock, up, stops>>
    BY <2>2 DEF DispatcherOK, RestOK
  <2> QED BY <2>1, <2>2 DEF Worker, WorkerCompletes, Works, WorkerBlocks, Exits, TailEnds
<1> QED BY <1>1, <1>2, <1>3 DEF DispatcherOK

LEMMA MaintenanceOK ==
    ASSUME TypeOK, DispatcherOK, Maintenance
    PROVE  DispatcherOK'
<1>1. PICK r \in Run :
         \/ \E o \in {"timed_out", "reclaimed", "crashed"} : PassInspects(r, o)
         \/ PassDefers(r) \/ PassForces(r) \/ PassLooks(r) \/ PassLoses(r)
         \/ \E reason \in Reason : PassWrites(r, reason)
  BY DEF Maintenance
<1>2. HandlerOK'
  BY <1>1, Staying DEF DispatcherOK, PassInspects, PassDefers, PassForces, PassLooks,
     PassLoses, PassWrites
<1>3. PassOK'
  <2>1. CASE \E o \in {"timed_out", "reclaimed", "crashed"} : PassInspects(r, o)
    <3>1. PICK o \in {"timed_out", "reclaimed", "crashed"} : PassInspects(r, o)
      BY <2>1
    <3>2. PICK seen \in Seen(r), plan \in {"defer", "force", "inspect"} :
             /\ plan = "defer" => ShouldDefer(r, seen, o)
             /\ plan = "force" => ShouldForce(r, seen, o)
             /\ pass' = [plan |-> plan, run |-> r, outcome |-> o]
      BY <3>1 DEF PassInspects
    <3>3. run[r].reclaim \in {"none", "timed_out", "reclaimed"}
      BY DEF TypeOK, RunRow, ReclaimIntent
    <3>4. plan \in {"defer", "force"} => o \in {"timed_out", "reclaimed"}
      BY <3>2, <3>3 DEF ShouldDefer, ShouldForce
    <3> QED BY <3>2, <3>4 DEF PassOK, Pass, Plan, RunStatus, EndedStatus, UnsuccessfulOutcome
  <2>2. CASE PassLooks(r)
    BY <2>2 DEF DispatcherOK, PassOK, Pass, Plan, PassLooks, Plans
  <2>3. CASE pass' = Idle
    BY <2>3 DEF PassOK, Pass, Plan, Idle, RunStatus
  <2> QED BY <1>1, <2>1, <2>2, <2>3 DEF PassDefers, PassForces, PassLoses, PassWrites
<1>4. ProcessOK'
  <2>1. CASE PassForces(r)
    BY <2>1 DEF DispatcherOK, ProcessOK, Process, PassForces
  <2>2. CASE UNCHANGED process
    BY <2>2 DEF DispatcherOK, ProcessOK
  <2> QED BY <1>1, <2>1, <2>2 DEF PassInspects, PassDefers, PassLooks, PassLoses, PassWrites
<1>5. RestOK'
  <2>1. CASE PassDefers(r) \/ PassForces(r)
    BY <2>1 DEF DispatcherOK, RestOK, Reset, PassDefers, PassForces
  <2>2. CASE UNCHANGED <<clock, stops>> /\ up' \in {up, FALSE}
    BY <2>2 DEF DispatcherOK, RestOK
  <2> QED BY <1>1, <2>1, <2>2 DEF PassInspects, PassLooks, PassLoses, PassWrites
<1> QED BY <1>2, <1>3, <1>4, <1>5 DEF DispatcherOK

LEMMA SurroundingsOK ==
    ASSUME DispatcherOK,
           \/ \E t \in Task : \/ Created(t) \/ CooldownEnds(t)
                              \/ \E r \in Run : Claim(t, r)
           \/ \E r \in Run, d \in Deadline : Passes(r, d)
           \/ PassAbandons \/ PromoteDue \/ Operator \/ Crash \/ Stop \/ Restart
           \/ UNCHANGED dispatchVars
    PROVE  DispatcherOK'
<1>1. CASE \E t \in Task, r \in Run : Claim(t, r)
  <2>1. HandlerOK'
    BY <1>1, Going DEF DispatcherOK, Claim, Phase
  <2> QED BY <1>1, <2>1 DEF DispatcherOK, PassOK, ProcessOK, RestOK, Claim
<1>2. CASE Crash
  <2>1. HandlerOK'
    BY <1>2 DEF DispatcherOK, HandlerOK, Handler, Handled, At, Crash, Phase, Result
  <2>2. ProcessOK'
    <3>1. \A r \in Run : [process[r] EXCEPT !.exit = "none"] \in Process
      BY DEF DispatcherOK, ProcessOK, Process
    <3> QED BY <1>2, <3>1 DEF ProcessOK, Crash
  <2>3. PassOK'
    BY <1>2 DEF PassOK, Pass, Plan, Idle, RunStatus, Crash
  <2>4. RestOK'
    BY <1>2, Counting DEF DispatcherOK, RestOK, Crash
  <2> QED BY <2>1, <2>2, <2>3, <2>4 DEF DispatcherOK
<1>3. CASE PassAbandons \/ Stop \/ Restart
  <2>1. HandlerOK' /\ ProcessOK'
    BY <1>3, Staying DEF DispatcherOK, ProcessOK, PassAbandons, Stop, Restart
  <2>2. PassOK'
    <3>1. CASE PassAbandons
      BY <3>1 DEF PassOK, Pass, Plan, Idle, RunStatus, PassAbandons
    <3>2. CASE UNCHANGED pass
      BY <3>2 DEF DispatcherOK, PassOK
    <3> QED BY <1>3, <3>1, <3>2 DEF Stop, Restart
  <2>3. RestOK'
    BY <1>3, Counting DEF DispatcherOK, RestOK, PassAbandons, Stop, Restart
  <2> QED BY <2>1, <2>2, <2>3 DEF DispatcherOK
<1>4. CASE Operator \/ \E r \in Run, d \in Deadline : Passes(r, d)
  <2>1. UNCHANGED <<handler, process, pass, up, stops>>
    BY <1>4 DEF Operator, Terminate, TerminateUnmanaged, Passes
  <2>2. clock' \in [Run -> SUBSET Deadline]
    BY <1>4 DEF DispatcherOK, RestOK, Reset, Operator, Terminate, TerminateUnmanaged, Passes
  <2> QED BY <2>1, <2>2, Staying DEF DispatcherOK, PassOK, ProcessOK, RestOK
<1>5. CASE UNCHANGED <<handler, process, clock, pass, up, stops>>
  BY <1>5, Staying DEF DispatcherOK, PassOK, ProcessOK, RestOK
<1> QED BY <1>1, <1>2, <1>3, <1>4, <1>5 DEF Created, CooldownEnds, PromoteDue, dispatchVars

LEMMA DispatcherInductive ==
    ASSUME TypeOK, DispatcherOK, [DispatchNext]_dispatchVars
    PROVE  TypeOK' /\ DispatcherOK' /\ [Next]_vars
<1>1. [Next]_vars
  BY StepWrites
<1>2. TypeOK'
  BY <1>1, StepKinds
<1>3. DispatcherOK'
  BY LaunchingOK, EndOfTurnOK, EndingOK, WorkerOK, MaintenanceOK, SurroundingsOK
     DEF DispatchNext, Goroutine
<1> QED BY <1>1, <1>2, <1>3

-----------------------------------------------------------------------------
(* Theorems *)

DispatchInv == TypeOK /\ DispatcherOK

LEMMA DispatchInvHolds == DispatchSpec => []DispatchInv
<1>1. DispatchInit => DispatchInv
  <2> SUFFICES ASSUME DispatchInit PROVE DispatchInv
    OBVIOUS
  <2>1. TypeOK
    BY AbsentRow, UnusedRow DEF DispatchInit, Init, TypeOK
  <2>2. DispatcherOK
    BY SettingAssumption
       DEF DispatchInit, DispatcherOK, HandlerOK, Handler, At, Phase, Result, PassOK, Pass, Plan,
           Idle, RunStatus, ProcessOK, Process, Change, RestOK
  <2> QED BY <2>1, <2>2 DEF DispatchInv
<1>2. DispatchInv /\ [DispatchNext]_dispatchVars => DispatchInv'
  BY DispatcherInductive DEF DispatchInv
<1> QED BY <1>1, <1>2, PTL DEF DispatchSpec

\* The variables of the dispatcher keep their types.
THEOREM DispatchTypeCorrect == DispatchSpec => []DispatchTypeOK
<1>1. DispatchInv => DispatchTypeOK
  BY DEF DispatchInv, DispatcherOK, HandlerOK, PassOK, ProcessOK, RestOK, DispatchTypeOK
<1> QED BY <1>1, DispatchInvHolds, PTL

(* The dispatcher, its workers and operators implement the store: all they *)
(* write to the board is what some caller of the store may write, so what  *)
(* holds of the store under any callers holds under them.                  *)
THEOREM Implements == DispatchSpec => Spec
<1>1. DispatchInit => Init
  BY DEF DispatchInit
<1>2. DispatchInv /\ [DispatchNext]_dispatchVars => [Next]_vars
  BY DispatcherInductive DEF DispatchInv
<1> QED BY <1>1, <1>2, DispatchInvHolds, PTL DEF DispatchSpec, Spec

(* So no run of a board under dispatchers is owned by two tasks, and no    *)
(* task runs before its prerequisites.                                     *)
THEOREM DispatchKeepsBoard ==
    DispatchSpec => [](RunOwnership /\ NoUnfinishedPrerequisite)
BY Implements, Ownership, PrerequisitesFirst, PTL

-----------------------------------------------------------------------------
(* Goals *)

(* A run that is running was so before, for the same task, and with its    *)
(* request, if it had one; none becomes completed.                         *)
Kept(q) ==
    /\ run'[q].status = "running" =>
          /\ run[q].status = "running"
          /\ run'[q].task = run[q].task
          /\ run[q].request # "none" => run'[q].request = run[q].request
    /\ run'[q].status = "completed" => run[q].status = "completed"

LEMMA RecordsKeep ==
    ASSUME TypeOK, NEW r \in Run,
           \/ MarkRunManaged(r) \/ RecordSpawn(r) \/ PauseGoalRun(r)
           \/ RecordRunChangeSet(r) \/ RequestRunCompletion(r)
           \/ \E kind : BindRunWorkspace(r, kind)
           \/ \E kind, reason : RequestRunBlock(r, kind, reason)
           \/ \E outcome : DeferRunRecovery(r, outcome)
    PROVE  \A q \in Run : Kept(q)
<1>1. CASE MarkRunManaged(r)
  BY <1>1 DEF Kept, TypeOK, RunRow, MarkRunManaged
<1>2. CASE RecordSpawn(r) \/ PauseGoalRun(r)
  BY <1>2 DEF Kept, TypeOK, RunRow, RecordSpawn, PauseGoalRun
<1>3. CASE RecordRunChangeSet(r)
  BY <1>3 DEF Kept, TypeOK, RunRow, RecordRunChangeSet
<1>4. CASE RequestRunCompletion(r)
  BY <1>4 DEF Kept, TypeOK, RunRow, RequestRunCompletion
<1>5. CASE \E kind : BindRunWorkspace(r, kind)
  BY <1>5 DEF Kept, TypeOK, RunRow, BindRunWorkspace
<1>6. CASE \E kind, reason : RequestRunBlock(r, kind, reason)
  <2>1. PICK kind, reason : RequestRunBlock(r, kind, reason)
    BY <1>6
  <2>2. \A q \in Run : /\ run'[q].status = run[q].status
                       /\ run'[q].task = run[q].task
                       /\ run[q].request # "none" => run'[q].request = run[q].request
    BY <2>1 DEF TypeOK, RunRow, RequestRunBlock
  <2> QED BY <2>2 DEF Kept
<1>7. CASE \E outcome : DeferRunRecovery(r, outcome)
  BY <1>7 DEF Kept, TypeOK, RunRow, DeferRunRecovery
<1> QED BY <1>1, <1>2, <1>3, <1>4, <1>5, <1>6, <1>7

\* What the run table sees of a run that fails or is recovered.
FailsAs(r, outcome) ==
    run' = [run EXCEPT ![r] = [Discarded(run[r]) EXCEPT !.status = outcome]]

LEMMA FailuresKeep ==
    ASSUME TypeOK, NEW r \in Run, NEW outcome, outcome \notin {"running", "completed"},
           FailsAs(r, outcome)
    PROVE  \A q \in Run : Kept(q)
<1>1. run'[r].status = outcome
  BY DEF TypeOK, Discarded, RunRow, FailsAs
<1>2. \A q \in Run \ {r} : run'[q] = run[q]
  BY DEF TypeOK, FailsAs
<1> QED BY <1>1, <1>2 DEF Kept

LEMMA Failing ==
    \A r \in Run, outcome \in RunStatus, counted, cooldown \in BOOLEAN, reason \in Reason :
        FailRun(r, outcome, counted, cooldown, reason, FailureLimit) => FailsAs(r, outcome)
BY DEF FailRun, FinishUnsuccessful, FailsAs

LEMMA Recovering ==
    \A r \in Run, outcome \in RunStatus, counted \in BOOLEAN, reason \in Reason :
        RecoverAbandonedRun(r, outcome, counted, reason) => FailsAs(r, outcome)
BY DEF RecoverAbandonedRun, FinishUnsuccessful, FailsAs

LEMMA Blocking ==
    \A r \in Run, outcome \in RunStatus, reason \in Reason :
        RecoverRunBlocked(r, outcome, "needs_input", reason) => FailsAs(r, outcome)
BY DEF RecoverRunBlocked, FailsAs

LEMMA Statuses ==
    {"failed", "reclaimed", "blocked", "timed_out", "spawn_failed", "rate_limited", "crashed",
     "protocol_violation"} \subseteq RunStatus \ {"running", "completed"}
BY DEF RunStatus, EndedStatus, UnsuccessfulOutcome

LEMMA BoardKeeps ==
    ASSUME UNCHANGED run
    PROVE  \A q \in Run : Kept(q)
BY DEF Kept

LEMMA NewTurnsKeep ==
    ASSUME TypeOK, NEW r \in Run, Launching(r)
    PROVE  \A q \in Run : Kept(q)
<1>1. CASE \E reason \in Reason : LaunchFails(r, reason) \/ BlockFallback(r, reason)
  <2>1. \E outcome \in {"failed", "reclaimed", "blocked"} : FailsAs(r, outcome)
    BY <1>1, Failing, Recovering, Blocking, Statuses DEF LaunchFails, BlockFallback
  <2> QED BY <2>1, FailuresKeep
<1>2. CASE \/ Manage(r) \/ RecordTurn(r) \/ \E kind \in Workspaces : Prepare(r, kind)
           \/ \E kind \in Kinds, reason \in Reason : HandlerBlocks(r, kind, reason)
  BY <1>2, RecordsKeep, BoardKeeps DEF Manage, RecordTurn, Prepare, HandlerBlocks, board, vars
<1>3. CASE Integrate(r) \/ CheckIntent(r) \/ Start(r)
  BY <1>3, BoardKeeps DEF Integrate, CheckIntent, Start, board, vars
<1> QED BY <1>1, <1>2, <1>3 DEF Launching

LEMMA EndingKeeps ==
    ASSUME TypeOK, HandlerOK, NEW r \in Run, Ending(r), ~Finalize(r)
    PROVE  \A q \in Run : Kept(q)
<1>1. CASE Capture(r) \/ Pause(r) \/ AcceptGoal(r)
  BY <1>1, RecordsKeep, BoardKeeps DEF Capture, Pause, AcceptGoal, board, vars
<1>2. CASE Loses(r) \/ NoSession(r) \/ Judge(r) \/ NextTurn(r)
  BY <1>2, BoardKeeps DEF Loses, NoSession, Judge, NextTurn, board, vars
<1>3. CASE \E reason \in Reason : FinalizationFails(r, reason)
  <2>1. FailsAs(r, "blocked")
    BY <1>3, Failing, Recovering, Blocking, Statuses DEF FinalizationFails
  <2> QED BY <2>1, FailuresKeep
<1>4. CASE \E reason \in Reason : FinishReclaim(r, reason)
  <2>1. \E outcome \in {"timed_out", "reclaimed", "blocked"} : FailsAs(r, outcome)
    BY <1>4, Failing, Recovering, Blocking, Statuses DEF HandlerOK, FinishReclaim
  <2> QED BY <2>1, FailuresKeep
<1>5. CASE \E reason \in Reason : FailCounted(r, reason)
  <2>1. FailureOutcome(handler[r].result) \in RunStatus \ {"running", "completed"}
    BY DEF FailureOutcome, RunStatus, EndedStatus, UnsuccessfulOutcome
  <2>2. \E outcome \in {FailureOutcome(handler[r].result), "blocked"} : FailsAs(r, outcome)
    BY <1>5, <2>1, Failing, Recovering, Blocking, Statuses DEF FailCounted
  <2> QED BY <2>1, <2>2, FailuresKeep
<1>6. CASE \E reason \in Reason : FailUnavailable(r, reason)
  <2>1. \E outcome \in {"blocked", "spawn_failed", "failed", "rate_limited", "reclaimed"} :
           FailsAs(r, outcome)
    BY <1>6, Failing, Recovering, Blocking, Statuses DEF FailUnavailable
  <2> QED BY <2>1, FailuresKeep
<1> QED BY <1>1, <1>2, <1>3, <1>4, <1>5, <1>6 DEF Ending

LEMMA OthersKeep ==
    ASSUME TypeOK, PassOK,
           \/ \E r \in Run : Worker(r) \/ TailEnds(r) \/ \E d \in Deadline : Passes(r, d)
           \/ \E t \in Task : Created(t) \/ CooldownEnds(t)
           \/ Maintenance \/ PassAbandons \/ PromoteDue \/ Operator
           \/ Crash \/ Stop \/ Restart \/ UNCHANGED dispatchVars
    PROVE  \A q \in Run : Kept(q)
<1>1. CASE \E r \in Run : Worker(r)
  BY <1>1, RecordsKeep, BoardKeeps
     DEF Worker, Heartbeat, WorkerCompletes, Works, WorkerBlocks, Exits, board, vars
<1>2. CASE \E r \in Run : PassDefers(r) \/ PassForces(r) \/ Terminate(r)
  BY <1>2, RecordsKeep DEF PassDefers, PassForces, Terminate
<1>3. CASE \E r \in Run, reason \in Reason : PassWrites(r, reason)
  <2>1. pass.outcome \in RunStatus \ {"running", "completed"}
    BY <1>3, Statuses DEF PassWrites, Plans, PassOK
  <2>2. \E r \in Run : FailsAs(r, pass.outcome)
    BY <1>3, <2>1, Recovering, Blocking DEF PassWrites
  <2> QED BY <2>1, <2>2, FailuresKeep
<1>4. CASE \E r \in Run, reason \in Reason : TerminateUnmanaged(r, reason)
  <2>1. \E r \in Run : FailsAs(r, "reclaimed")
    BY <1>4, Failing, Recovering, Blocking, Statuses DEF TerminateUnmanaged
  <2> QED BY <2>1, FailuresKeep
<1>5. CASE UNCHANGED run
  BY <1>5, BoardKeeps
<1> QED BY <1>1, <1>2, <1>3, <1>4, <1>5
    DEF TailEnds, Passes, Created, CreateTask, CooldownEnds, ScheduleFallsDue, Maintenance,
        PassInspects, PassLooks, PassLoses, PassAbandons, PromoteDue, PromoteDueTasks, Operator,
        Crash, Stop, Restart, dispatchVars, board, vars

(* The inductive invariant: the goroutine of a goal that captures and      *)
(* finalizes a run does so because its judge accepted it or it blocks.     *)
Finalizing(q) == At(q, "capture") \/ At(q, "finalize")

Judged(q) == IsGoal(q) /\ run[q].status = "running" /\ Finalizing(q)
                => run[q].request = "block" \/ handler[q].result = "accepted"

\* The other runs, and a goroutine that goes on finalizing, keep the verdict.
LEMMA VerdictKept ==
    ASSUME NEW q \in Run, Judged(q), Kept(q), TypeOK,
           Finalizing(q)' => Finalizing(q) /\ handler'[q].result = handler[q].result
    PROVE  Judged(q)'
<1>1. SUFFICES ASSUME IsGoal(q)', (run[q].status)' = "running", Finalizing(q)'
               PROVE  (run[q].request)' = "block" \/ (handler[q].result)' = "accepted"
  BY DEF Judged
<1>2. run[q].status = "running" /\ run'[q].task = run[q].task /\ Finalizing(q)
  BY <1>1 DEF Kept
<1>3. run[q].request = "block" \/ handler[q].result = "accepted"
  BY <1>1, <1>2 DEF Judged, IsGoal
<1> QED BY <1>1, <1>2, <1>3 DEF Kept

Verdict(q) == /\ Judged(q)'
              /\ run[q].status # "completed" /\ run'[q].status = "completed" /\ IsGoal(q)
                    => handler[q].result = "accepted"

LEMMA VerdictStands ==
    ASSUME NEW q \in Run, Judged(q), Kept(q), TypeOK,
           Finalizing(q)' => Finalizing(q) /\ handler'[q].result = handler[q].result
    PROVE  Verdict(q)
BY VerdictKept DEF Verdict, Kept

\* Where a goroutine arrives.
LEMMA Arriving ==
    ASSUME HandlerOK, NEW r \in Run
    PROVE  /\ \A phase \in Phase : Goes(r, phase) => /\ handler'[r].at = phase
                                                     /\ handler'[r].result = handler[r].result
           /\ \A phase \in Phase, result \in Result :
                 GoesWith(r, phase, result) => handler'[r].at = phase
           /\ Leaves(r) => handler'[r].at = "over"
<1>1. \A phase \in Phase : Goes(r, phase) => /\ handler'[r].at = phase
                                             /\ handler'[r].result = handler[r].result
  BY DEF HandlerOK, Handler, Goes
<1>2. \A phase \in Phase, result \in Result :
         GoesWith(r, phase, result) => handler'[r].at = phase
  BY DEF HandlerOK, GoesWith
<1>3. Leaves(r) => handler'[r].at = "over"
  BY DEF HandlerOK, Leaves
<1> QED BY <1>1, <1>2, <1>3

\* A goroutine moves itself only.
LEMMA Moves ==
    ASSUME HandlerOK, NEW r \in Run, Goroutine(r) \/ \E t \in Task : Claim(t, r)
    PROVE  \A q \in Run \ {r} : handler'[q] = handler[q]
<1>1. CASE Launching(r)
  BY <1>1 DEF HandlerOK, Launching, Manage, Integrate, CheckIntent, Start, RecordTurn, Prepare,
     LaunchFails, BlockFallback, HandlerBlocks, Goes, GoesWith, Leaves
<1>2. CASE EndOfTurn(r)
  BY <1>2 DEF HandlerOK, EndOfTurn, Collect, CutShort, Stopped, LeaveLost, ReadIntent,
     LookAtProcess, ReadRequest,
     DiscardPremature, ReadNothing, Unfinished, Goes, GoesWith, Leaves
<1>3. CASE Ending(r)
  BY <1>3 DEF HandlerOK, Ending, Capture, Finalize, Loses, Pause, NoSession, Judge, AcceptGoal,
     NextTurn, FinalizationFails, FinishReclaim, FailCounted, FailUnavailable, Goes, GoesWith,
     Leaves
<1>4. CASE \E t \in Task : Claim(t, r)
  BY <1>4 DEF HandlerOK, Claim, Goes
<1> QED BY <1>1, <1>2, <1>3, <1>4 DEF Goroutine

LEMMA LaunchingJudged ==
    ASSUME TypeOK, HandlerOK, NEW r \in Run, Launching(r), \A q \in Run : Judged(q)
    PROVE  \A q \in Run : Verdict(q)
<1>1. \A q \in Run \ {r} : handler'[q] = handler[q]
  BY Moves DEF Goroutine
<1>2. \A q \in Run \ {r} : Verdict(q)
  BY <1>1, NewTurnsKeep, VerdictStands DEF Finalizing, At
<1>3. CASE \E kind \in Kinds, reason \in Reason : HandlerBlocks(r, kind, reason)
  <2>1. run'[r].request = "block" /\ run'[r].status = run[r].status
    BY <1>3 DEF HandlerBlocks, RequestRunBlock, TypeOK, RunRow
  <2> QED BY <1>2, <2>1 DEF Verdict, Judged
<1>4. CASE ~Finalizing(r)'
  BY <1>2, <1>4, NewTurnsKeep, VerdictStands
<1>5. (\E kind \in Kinds, reason \in Reason : HandlerBlocks(r, kind, reason)) \/ ~Finalizing(r)'
  BY Arriving
     DEF Finalizing, At, Launching, Manage, Integrate, CheckIntent, Start, RecordTurn, Prepare,
         LaunchFails, BlockFallback, Phase, Result
<1> QED BY <1>3, <1>4, <1>5

LEMMA EndOfTurnJudged ==
    ASSUME TypeOK, HandlerOK, NEW r \in Run, EndOfTurn(r), \A q \in Run : Judged(q)
    PROVE  \A q \in Run : Verdict(q)
<1>1. \A q \in Run \ {r} : handler'[q] = handler[q]
  BY Moves DEF Goroutine
<1>2. CASE DiscardPremature(r)
  <2>1. /\ \A q \in Run \ {r} : run'[q] = run[q]
        /\ run'[r].status = run[r].status
    BY <1>2 DEF DiscardPremature, DiscardRunTerminalRequest, Discarded, TypeOK, RunRow
  <2>2. \A q \in Run \ {r} : Verdict(q)
    BY <1>1, <2>1, VerdictStands DEF Kept, Finalizing, At
  <2>3. ~Finalizing(r)'
    BY <1>2, Arriving DEF DiscardPremature, Unfinished, Finalizing, At, Phase, Result
  <2> QED BY <2>1, <2>2, <2>3 DEF Verdict, Judged
<1>3. CASE ~DiscardPremature(r)
  <2>1. UNCHANGED run
    BY <1>3 DEF EndOfTurn, Collect, CutShort, Stopped, LeaveLost, ReadIntent,
       LookAtProcess, ReadRequest,
       ReadNothing, board, vars
  <2>2. \A q \in Run \ {r} : Verdict(q)
    BY <1>1, <2>1, BoardKeeps, VerdictStands DEF Finalizing, At
  <2>3. CASE ReadRequest(r)
    <3>1. IsGoal(r) => run[r].request = "block"
      BY <2>3 DEF ReadRequest, MayFinalize, PendingRequest, Premature, TypeOK, RunRow, Request
    <3> QED BY <2>1, <2>2, <3>1 DEF Verdict, Judged, IsGoal
  <2>4. CASE ~Finalizing(r)'
    BY <2>1, <2>2, <2>4, BoardKeeps, VerdictStands
  <2>5. ReadRequest(r) \/ ~Finalizing(r)'
    <3>1. CASE Collect(r) \/ ReadIntent(r)
      BY <3>1, Arriving DEF HandlerOK, Collect, ReadIntent, GoesWith, Finalizing, At, Phase
    <3>2. CASE CutShort(r) \/ Stopped(r) \/ LeaveLost(r) \/ LookAtProcess(r) \/ ReadNothing(r)
      BY <3>2, Arriving DEF CutShort, Stopped, LeaveLost, LookAtProcess, ReadNothing, Unfinished, Finalizing, At,
         Phase, Result
    <3> QED BY <1>3, <3>1, <3>2 DEF EndOfTurn
  <2> QED BY <2>3, <2>4, <2>5
<1> QED BY <1>2, <1>3

LEMMA EndingJudged ==
    ASSUME TypeOK, HandlerOK, NEW r \in Run, Ending(r), \A q \in Run : Judged(q)
    PROVE  \A q \in Run : Verdict(q)
<1>1. \A q \in Run \ {r} : handler'[q] = handler[q]
  BY Moves DEF Goroutine
<1>2. CASE Finalize(r)
  <2>1. \A q \in Run \ {r} : run'[q] = run[q]
    BY <1>2 DEF Finalize, FinalizeRunTerminal, FinalizeCompletion, FinalizeBlock, TypeOK
  <2>2. \A q \in Run \ {r} : Verdict(q)
    BY <1>1, <2>1, VerdictStands DEF Kept, Finalizing, At
  <2>3. ~Finalizing(r)'
    BY <1>2 DEF HandlerOK, Finalize, Leaves, Finalizing, At
  <2>4. CASE FinalizeBlock(r)
    <3>1. run'[r].status = "blocked"
      BY <2>4 DEF FinalizeBlock, TypeOK, RunRow
    <3> QED BY <2>2, <2>3, <3>1 DEF Verdict, Judged
  <2>5. CASE FinalizeCompletion(r)
    <3>1. IsGoal(r) => handler[r].result = "accepted"
      BY <1>2, <2>5 DEF Finalize, FinalizeCompletion, Active, Judged, Finalizing
    <3> QED BY <2>2, <2>3, <3>1 DEF Verdict, Judged
  <2> QED BY <1>2, <2>4, <2>5 DEF Finalize, FinalizeRunTerminal
<1>3. CASE ~Finalize(r)
  <2>1. \A q \in Run : Kept(q)
    BY <1>3, EndingKeeps
  <2>2. \A q \in Run \ {r} : Verdict(q)
    BY <1>1, <2>1, VerdictStands DEF Finalizing, At
  <2>3. CASE AcceptGoal(r)
    <3>1. handler'[r].result = "accepted"
      BY <2>3 DEF HandlerOK, AcceptGoal, GoesWith
    <3>2. Judged(r)'
      BY <3>1 DEF Judged
    <3> QED BY <2>1, <2>2, <3>2 DEF Verdict, Kept
  <2>4. CASE Finalizing(r)' => Finalizing(r) /\ handler'[r].result = handler[r].result
    BY <2>1, <2>2, <2>4, VerdictStands
  <2>5. \/ AcceptGoal(r)
        \/ Finalizing(r)' => Finalizing(r) /\ handler'[r].result = handler[r].result
    BY <1>3, Arriving
       DEF Ending, Capture, Loses, Pause, NoSession, Judge, NextTurn, FinalizationFails,
           FinishReclaim, FailCounted, FailUnavailable, Finalizing, At, Phase, Result
  <2> QED BY <2>3, <2>4, <2>5
<1> QED BY <1>2, <1>3

LEMMA OthersJudged ==
    ASSUME TypeOK, DispatcherOK, [DispatchNext]_dispatchVars, \A q \in Run : Judged(q),
           \A r \in Run : ~Goroutine(r)
    PROVE  \A q \in Run : Verdict(q)
<1>1. CASE \E t \in Task, r \in Run : Claim(t, r)
  <2>1. PICK t \in Task, r \in Run : Claim(t, r)
    BY <1>1
  <2>2. \A q \in Run \ {r} : handler'[q] = handler[q] /\ run'[q] = run[q]
    BY <2>1, Moves DEF DispatcherOK, Claim, ClaimTask, TypeOK
  <2>3. \A q \in Run \ {r} : Verdict(q)
    BY <2>2, VerdictStands DEF Kept, Finalizing, At
  <2>4. ~Finalizing(r)' /\ run'[r].status = "running"
    BY <2>1 DEF DispatcherOK, HandlerOK, Claim, ClaimTask, TypeOK, NewRun, Unused, Goes,
       Finalizing, At
  <2> QED BY <2>3, <2>4 DEF Verdict, Judged
<1>2. CASE ~\E t \in Task, r \in Run : Claim(t, r)
  <2>1. \A q \in Run : Kept(q)
    BY <1>2, OthersKeep DEF DispatchNext, DispatcherOK
  <2>2. \A q \in Run : handler'[q] = handler[q] \/ handler'[q].at = "over"
    <3>1. CASE Crash
      BY <3>1 DEF DispatcherOK, HandlerOK, Crash
    <3>2. CASE \E r \in Run : \/ Worker(r) \/ TailEnds(r) \/ \E d \in Deadline : Passes(r, d)
      BY <3>2 DEF Worker, Heartbeat, WorkerCompletes, Works, WorkerBlocks, Exits, TailEnds, Passes
    <3>3. CASE Maintenance \/ PassAbandons \/ Operator
      BY <3>3 DEF Maintenance, PassInspects, PassDefers, PassForces, PassLooks, PassLoses,
         PassWrites, PassAbandons, Operator, Terminate, TerminateUnmanaged
    <3>4. CASE \/ \E t \in Task : Created(t) \/ CooldownEnds(t)
               \/ PromoteDue \/ Stop \/ Restart \/ UNCHANGED dispatchVars
      BY <3>4 DEF Created, CooldownEnds, PromoteDue, Stop, Restart, dispatchVars
    <3> QED BY <1>2, <3>1, <3>2, <3>3, <3>4 DEF DispatchNext
  <2> QED BY <2>1, <2>2, VerdictStands DEF Finalizing, At
<1> QED BY <1>1, <1>2

(* Goals are completed by their judges, for every number of runs, turns,   *)
(* terminations and restarts.                                              *)
THEOREM GoalsJudged == DispatchSpec => GoalNeedsJudge
<1> DEFINE Inv == \A q \in Run : Judged(q)
<1>1. DispatchInit => Inv
  BY DEF DispatchInit, Init, Unused, Judged
<1>2. DispatchInv /\ Inv /\ [DispatchNext]_dispatchVars => \A q \in Run : Verdict(q)
  BY LaunchingJudged, EndOfTurnJudged, EndingJudged, OthersJudged
     DEF DispatchInv, DispatcherOK, Goroutine
<1>3. DispatchInv /\ Inv /\ [DispatchNext]_dispatchVars => Inv'
  BY <1>2 DEF Verdict
<1>4. DispatchInv /\ Inv /\ [DispatchNext]_dispatchVars =>
        [\A r \in Run : /\ run[r].status # "completed" /\ run'[r].status = "completed"
                        /\ IsGoal(r)
                        => handler[r].result = "accepted"]_dispatchVars
  BY <1>2 DEF Verdict
<1> QED BY <1>1, <1>3, <1>4, DispatchInvHolds, PTL DEF DispatchSpec, GoalNeedsJudge
=============================================================================
