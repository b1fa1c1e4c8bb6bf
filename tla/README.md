# autogora in TLA+

autogora is a local task board for coding agents. Tasks live in one SQLite
database per board; a dispatcher claims ready tasks, launches an agent process
per claim, watches it, and finishes or recovers the run; people and other
agents edit the same boards over a CLI, an MCP server and a dashboard while
that goes on. Nothing else coordinates these processes than the databases, so
what makes the program correct is what its transactions promise each other and
what the code between two transactions may no longer assume. That is what the
modules here are about. References such as `lifecycle.go:683` are to
`src/internal/store` unless a directory is given.

## 1. Inventory

| Component | State it keeps | Operations | What is hard about it |
| --- | --- | --- | --- |
| Task store (`store/lifecycle.go`, `tasks.go`, `mutations.go`, `terminal.go`, `recovery.go`) | `tasks`, `task_runs`, `task_links`, terminal requests, reclaim requests, events | claim, launch records, request/discard/finalize, fail, recover, defer, create, edit, complete, block, unblock, promote, schedule, archive, delete, link, unlink, retention | any caller at any time; one operation checks before its transaction; reruns against pinned handoffs |
| Dispatcher (`dispatcher/dispatcher.go`, `executor.go`, `runcontrol`, `processidentity`) | goroutine per run, OS processes, periodic maintenance | launch, wait, finalize or fail, recover abandoned runs, terminate | acts on snapshots; two recoverers; crash between Start and the record of it; descendants |
| Leadership (`service_leases.go`, `dispatcher/lease.go`) | one lease row, a renewal goroutine | acquire, renew, release | stale clocks, takeover |
| Embedded supervisor (`supervisor/controller.go`) | generation, desired/running, backoff | start, stop, apply, restart | stop against start of another generation |
| Global agent capacity (`agent_slots.go`, `agentcoord`) | slots in the coordination database | acquire (worker, planner, judge), cleanup, release | truth about the owner is in another database |
| Workspace leases (`resources.go`, `workspace/manager.go`) | local and global lease rows | acquire, take over, release | same, plus processes that outlive runs |
| Board lifecycle (`boards/boards.go`, `board_removal.go`) | guards in two databases, directories | create, open, archive, remove | partial failure between databases, stale guards |
| Notifications (`notifications.go`) | subscriptions, deliveries with leases | subscribe, claim, resolve | crash after send, retention of events |
| Orchestration (`orchestration.go`, `graph.go`, `orchestration/`) | none of its own: task graphs written in one transaction | apply graph, swarm, hierarchy | optimistic versions |
| Planning coordinator (`dispatcher/planning.go`, `planner_fallback.go`) | queue of boards, backoff per task | enqueue, run, back off, fall back | backpressure, shutdown |
| Agent registry (`agentconfig`, `agents.go`, `agent_health.go`) | profiles, cooldowns | choose, cool down, clear | stale health |
| MCP server, dashboard routes, CLI | none that decides anything | call the store | - |
| Worktrees (`workspace/manager.go`, `integration.go`, `changes.go`, `completion.go`) | directories, refs, change sets | prepare, merge, roll back, capture, clean up, collect | partial merges, crashes between Git and database |
| Attachments, import (`attachments.go`, `githubissues/`) | files beside rows, idempotency keys | attach, remove, clear, import | no transaction over file and row |
| Terminal board (`terminalui/`) | a copy of the list, a modal, commands under way | load, search, toggle, mutate | answers out of order |
| Setup, project data, reports, configuration files | files | - | I/O |

Components call each other through the store: there are no in-process messages
between the dispatcher and its workers except process start, exit and signals.

What makes each component correct:

- **Task store.** A running task has one run and a run one task; a run that was
  lost can do nothing more; no task is ready or running before its
  prerequisites are done; a dependent keeps the handoff it was released with;
  the graph is acyclic; what can come back is claimable again.
- **Dispatcher.** No second worker while a first one may write; partial work is
  kept; a stored termination wins; every limited run ends; a goal is finished by
  its judge.
- **Global capacity, leases, boards.** The cap of an agent holds over all
  boards and crashes; two processes never write to one directory; a removed
  board leaves nothing in use, an interrupted removal locks nobody out.
- **Leadership and supervisor.** One dispatcher holds the lease; a deposed one
  stops; the embedded one runs the saved configuration; an expired lease passes on.
- **Notifications.** A delivery has one sender at a time, at least once: what is
  recorded as confirmed is not sent again, what is not is tried again. Retention
  of events ends that, and so does whatever deletes the subscription.
- **Orchestration, planning.** A plan is applied to the text it was made for; the
  root of a graph waits for all of it; no task of a triage list is passed over
  for ever.
- **Agents.** A fallback is taken only when nothing nearer is usable; no board
  starves another.
- **Worktrees.** What a prerequisite handed over reaches its dependents, and a
  change set holds the run's own work.
- **Files.** A row has its file, a file its row, unless a crash left it.
- **Terminal board.** What is shown was asked for; a key acts on what was shown.

## 2. Modules

| Module | Composes | States |
| --- | --- | --- |
| `TaskStore` | - | the board database, one action per transaction |
| `RunFence` | - | the abstract specification of run ownership; `TaskStore` implements it |
| `Supervision` | extends `TaskStore` | dispatcher goroutines, processes, maintenance pass, operator over one board; implements `TaskStore` |
| `Terminations` | extends `Supervision` | a history variable: the runs that were terminated while their workers ran |
| `RunIds` | - | the ids of runs, and what stands for none |
| `Coordination` | extends `RunIds` | agent slots, workspace leases and board removal over several databases |
| `Leadership` | - | the service lease, its renewal and takeover; generations of the embedded controller |
| `Planning` | Graphs | the planning coordinator, its passes over the triage lists, planner calls of users |
| `Agents` | - | health and fallbacks of agents, choice of a profile, rotation of claim passes, a planner's candidates |
| `Notifications` | - | subscriptions, deliveries with leases, passes that run at once, retention of events |
| `Handovers` | - | the abstract specification of work handed from task to task; `Worktrees` implements it |
| `Worktrees` | extends `RunIds` | worktrees, fan-in of handed-over changes, capture, recovery, collection |
| `Attachments` | - | files next to their rows, imports of GitHub issues |
| `Console` | extends `RunIds` | the event loop of the terminal board |

`MCTaskStore`, `MCSupervision`, `MCLive`, `MCCoordination`, `MCStorage`,
`MCPlanning`, `MCServices` and `MCDashboard` instantiate them for TLC.
`TaskStoreProofs`, `TaskStoreTheorems`, `SupervisionProofs`,
`SupervisionSafety`, `StorageProofs` (of `Coordination`, `Worktrees` and
`Console`), `DashboardProofs` (of `Leadership` and `Attachments`),
`ServicesProofs` (of `Notifications` and `Agents`) and `PlanningProofs` hold
the theorems. `RunIds` exists
because three of these modules meet in `MCStorage` and `StorageProofs`: they
extend it, so that each has its own variables and all have the same runs.

Theorems still worth proving: what the coordination database promises as an
abstract specification of its own, which `Coordination` implements as `TaskStore`
implements `RunFence` and `Worktrees` implements `Handovers`. Operations still
worth modelling: hierarchy edits and swarms next to the dependency graph.

## 3. The modules and the code

### TaskStore

`task[t]` is a row of `tasks`, `run[r]` a row of `task_runs` together with its
rows in `run_workspaces`, `run_terminal_requests`, `run_change_sets` and
`run_reclaim_requests`, `link[<<p, c>>]` a row of `task_links` with
`satisfied_at` and `satisfied_run_id`. Every mutation of the store is one
IMMEDIATE transaction (`withWrite`), so it is one action; the guards are the
checks in the transaction, an error path is an action that is not taken. Reads
before a transaction matter in one place only: `CompleteTask` checks
`current_run_id` outside, and is two actions (`BeginCompleteTask`,
`EndCompleteTask`) with a set `preflight` between them. A recomputation of
dependents (`recomputeReady`) is part of the actions whose code calls it.

A counted failure gives a task up at the limit in force at that moment
(`EffectiveLimit`): the one its caller names, as the dispatcher does with
`--failure-limit` in `FailRun`, else the `max_retries` of the row (`retries`),
which is what `RecoverAbandonedRun` always goes by and what `EditRetries`
changes. `gaveup` remembers that a task was given up, until an operator acts.

`guard` stands for what `respawnGuardReason` would find in runs and events: a
recent success with or without a later requeue event, or a blocker that names
authentication. `GarbageCollectEvents` changes it as deleting those events
does, and `Forgetting` lets a completion without events disappear.

`RunFence` keeps only who owns a task and which runs were used. Its refinement
mapping is in `TaskStore`: the owner is `current_run_id`, a run is spent unless
it is unused.

### Supervision

Extends the store with what lives outside the database: `handler[r]`, the
program counter and verdict of the goroutine of `runClaim`; `process[r]`, the
worker with its process group (a leader may leave a *tail* of descendants) and
whether it changed its workspace; `clock[r]`, which deadlines have passed;
`pass`, what the maintenance pass decided about a run it has read and not yet
written; `up` and `stops` for crashes, stops and restarts of the dispatcher.

A goroutine goes through the phases `claimed`, `managed`, `prepared`, `turn`,
`start`, `record`, `wait`, `exited`, then one of `reclaim`, `capture`, `finalize`,
`fail`, `pause`, `judge`, in the order of the code; a step is everything between two
reads or writes that others can see. After the worker's exit three such reads follow
each other: the stored intent (`ReadIntent`), the process (`LookAtProcess`, at
`doomed` or `spared` by what the first one found) and the request (`ReadRequest`,
`ReadNothing`, at `decide`); what is done next goes by all three, however old the
first has become. Every write is an action of `TaskStore`, taken with its guard: a
goroutine whose write is refused loses the race (`Loses`), which in the code makes
`Run` return and stops the dispatcher, except where the run is found ended, as a
recovery does. `Terminations` remembers which runs were terminated while their
workers ran and before their goroutines read the intents. The maintenance pass
inspects a run (`PassInspects`) and writes about it later (`PassDefers`,
`PassForces`, `PassWrites`), against whatever happened in between.

### Coordination

`slots`, `lease` and `guard` are the tables of the coordination database (the
guards of the board databases included), `run`, `attempt` the owners as far as
leases depend on them, `at`, `seen` where a launch is and what it read,
`present`, `removal` the directory and how far its removal is. A launch reads
and writes several databases one after the other, and each of these steps is an
action: verify the run, take a slot, look at the owners when there is none,
take the local lease, the global one, inspect the owner of a busy one, release
it, try again, give everything back, start, record.

`Start` is the start of the process, which nobody's leave is asked for, and
`Record` the write of its PID, which is refused once the run has ended. Between
the two (`worker[r] = "unrecorded"`) only the goroutine knows of the process. If
that dies, or the claim is recovered, the process goes on while
`ProcessMayStillBeRunning` of an absent PID says no (`control.go:27-30`): its
slot, its lease and its board pass to others. The model does all of that, and
`Accounted` says which processes the properties are about: the recorded ones, and
those about to be recorded by a run that is still active.

`Held` is the operating-system lock that an open store holds shared and a
removal exclusively; nobody waits for it, so an operation that does not get it
fails, which is no step. A removal is its steps `CleanLeases`,
`GuardCoordination`, `GuardLocal`, `CountProcesses`, `Move`; `RemovalFails` is
an error (which rolls back) or a crash (which does not) at any of them, and
`AfterOpen` what the next one to open the board does about it.

The owner of a slot or lease takes it once, so the owner stands for the random
token. What `Over` reads (the row is terminal, the process gone) never becomes
false again except by disappearing, so that the read and the release after it
are one step.

### Leadership

`lease` is the one row of `service_leases`; a slot of `Dispatcher` is one
execution of `dispatcher.Run` in watch mode, hosted by the command line or by a
controller of a dashboard. A slot reads the clock (`EnterRun`, or a tick in
`Renew`) and uses what it read in a later step; `stamp` is how old the value has
become. Nothing else of time is kept: `Tick` is a renewal interval, a lease has
some of them left. `late` remembers that a slot used a value after an interval
had passed, which is when the code cannot promise exclusion.

The controller is its fields (`current` for cancel, done and generation,
`desired`). `request` are the HTTP requests in flight, of any dashboard; they are
served concurrently, and each is a few steps: `PutConfig` writes the file, `Apply`
stops the generation, `Answer` starts the next one when the old one has ended;
`PostStop` is the switch, `PostStart` reads the file, and starts in `Answer`;
`TimeOut` is the five seconds `Stop` waits. `saved` is the file, one for all
processes of a user: `WriteConfig` is the command line's write. A `Start` that
finds a generation which has not ended does nothing. So an old configuration may
stay at work, and `overtaken` remembers whose: the requests that had taken their
configuration, and the generations that had been started with theirs, when a
write that does not restart them replaced it. A slot that
ends is `FinishGeneration`, after a failure a backoff unless it was told to stop
or is no longer the current one (`StillWanted`).

### Planning and Agents

`Planning` keeps the coordinator's goroutine (`pass`: its stage, the board, the
page, the quotas), `autoDecomposeDiagnostics` (`first`, `cursor`, `failed`,
`cooling`), and planner calls under way, the coordinator's and those of users. A
call remembers the version and text of the task it read; `Specify`, `Fanout` and
`Route` are the transactions it ends with, guarded by the optimistic check. `text`
is a history of what was edited, against which the version column is judged; the
version is `updated_at`, which no two writes of a process share (`now`,
`tasks.go:132-145`). A task that was decomposed may be returned to triage by an edit
and planned anew. A plan is any acyclic graph over the keys; `WithRoot` links the
leaves to the root as `ApplyTaskGraph` does. `Circular` says that a plan has a
circle, and `Awaited` what the root waits for, without paths: by a set in which
every task has a dependent, and by the sets that hold the prerequisites of all their
members. `MCPlanning` assumes, and TLC so evaluates, that they agree with `HasCycle`
and `Ancestors` of the module `Graphs` for every plan.

`Agents` is the choice in front of a launch, the order in which a pass visits
the boards (`Rotated` and the `Claim` family), and a planner's walk over its
registered candidates (`TryCandidate` to `EndCall`). Health rows are per board
and written by whoever saw a failure. The walk of `selectAvailableProfile` is one
step per read of the database, for others write between them: `BeginSearch`
puts the profile asked for in `queue`, `Look` reads the health of the first one
there and appends its fallbacks, `SkipSeen` passes over one met before, `Count`
counts the runs of a profile that is well and takes it or goes on, `FindsNone`
gives the task back. When an agent fails its run, its health is written
(`AgentFails`, or `HealthUnwritten` when that fails), a fallback is looked for
(`FindFallback`), and the run is given back (`LeaveAgent`), each in a step of its
own. So what was read of one profile may be old when the next one
is looked at, and `steady` remembers for each search which profiles were usable
all the time since it began: only of those can the choice promise anything.
`Available` is what an undisturbed search would find, by `Reachable`, the least
closed set of profiles around the one asked for; it is used where the code asks
only whether there is an agent at all.

### Notifications

One task, its events by id, and per destination a subscription with the place
`last` it has told up to, and a row per event. `ClaimDeliveries` is one
transaction: it derives rows from new events, drops what its subscription does
not want, leases up to `Limit` of them, and cleans up subscriptions of finished
tasks. `Send` is the call to the destination, `ResolveDelivered`,
`ResolveFailed` and `ResolveNothing` its end, with the token that may be someone
else's by then. `CrashPass` loses what a pass holds. Leases count ticks;
`SendTicks < LeaseTicks` is what `Deliver` ensures by its timeouts. `owed` and
`acked` are histories: what a destination must be told as long as neither the
event nor the subscription is deleted, and what is recorded as confirmed. A
confirmation that was not recorded, because the pass crashed or lost its lease, is
none: the event is sent again.

### Worktrees

A commit is the set of changes its history contains; ancestor is subset, merge
is union. `proc[r]` is where the process that drives a run stands: prepare,
merge the heads handed over one by one (`MergeNext`), roll back when one
conflicts, advance the base, work, capture, record, finalize, clean up, or crash
anywhere and be recovered. `ref` and `change` are what outlives the directory.
Rows of tasks and runs are kept as far as these steps read them; `TaskStore` has
the rest. `BeginCollect` and `EndCollect` are the look and the removal of garbage
collection.

`Handovers` says what all this is for, without directories: a task is worked on
by one run at a time, which begins when every prerequisite has handed over; its
result is made in one step, at most once and while it has its task, of all that was
handed over and changes of its own; then it hands on, or gives up. The refinement
mapping is in `Worktrees` (`Work`): a result is a change set, made by
`RecordChangeSet`; a run hands on by `Finalize` and gives up wherever it ends
otherwise; merges, rollbacks, captures, crashes and the collection of directories
are stuttering steps.

`workdir` says what the default directory of the board is: none, a plain
directory or a Git checkout. It decides what a task configured scratch works in
(`Kind`): a directory of its own, the shared plain directory, or a worktree. A
shared directory (`Shared`) is nobody's to remove.

### Attachments

A file is copied, renamed and recorded, or its row is deleted and then it is:
each step may be the last of its process. `left` remembers what a crash or a
failed removal left behind. An import is `Fetch`, one transaction per issue
(`ImportIssue`, or `RefuseIssue` when it fails) and `Report`.

### Console

The fields of the Bubble Tea model that decide something, and the messages under
way: a list load is asked, then answered from the rows of that moment, then
handled or dropped. Other clients change rows at any time. The tasks of a column
are a set (`Column`), and the place of a task in it is the number of its tasks
that are not behind it in the order of the list (`Ordinal`), which is what
filtering an ordered list into columns amounts to. `Settled` is the side effect
of `selectedTask`, which brings the cursor back into range whenever it is asked.

## 4. Model checking

| Run | Checks | Question |
| --- | --- | --- |
| `handoff` | `PrerequisitesSound`, `HandoffsKept` | three tasks, two runs: does the graph gate claims, stay acyclic and keep handoffs |
| `history` | `RunOwnership`, `OutcomeMatchesRequest`, `ExhaustedNotRetried`, `ReopenedTaskClaimable`, `RunsAreFenced`, `LastPrerequisiteWakes`, `OnlyCompletionOrphans`, `EndedRunsFrozen` | every way a run ends on one task, and every way two tasks come back |
| `supervise` | `NoOverlap`, `PartialWorkKept`, `TerminationHonoured` | one run under two crashes or stops, and two runs after each other, with PIDs that cannot be identified |
| `live` | `GoalNeedsJudge`, `RunsEnd`, `RemovalsRecovered` | a goal with a maximum runtime and a stubborn worker; a board whose removal is interrupted; under fairness |
| `storage` | `CapacityHeld`, `OneWriter`, `GoneBoardsOwnNothing`, `HandoffComplete`, `FanInIsSound`, `WorkIsHandedOver`, `InputHitsItsTarget`, `ListMatchesView`, `SelectionStays` | what lies beside the task rows: databases, directories, worktrees, the terminal board |
| `planning` | `PlanTypeOK`, `RootAwaitsSubtasks`, `PlanFitsText`, `TriageIsReached` | whose turn it is to be planned, and plans against edits |
| `services` | `SelectsNearest`, `BoardsShare`, `NothingOwedIsLost`, `SentOnce`, `OwedIsDelivered` | which agent works, which board is served, which event is told |
| `dashboard` | `OneSupervisor`, `OneGeneration`, `RunsSavedConfig`, `FilesMatchRows`, `ImportsAreComplete`, `Failover` | a dashboard and the command line over one lease; configuration requests that overlap; files and imports under failures and crashes |
| `orphan` | `NoOrphanRun` violated | see findings |
| `crashrace` | `FinalizationUndisturbed` violated | see findings |
| `unkept` | `PartialWorkKept` violated | see findings |
| `stuck` | `LeasesCanPass` violated | see findings |

Several runs have a variable `scenario` that is chosen at the start and never
changes: a behaviour is about one question, and what is not part of it stands
still. So the components of `storage` or `services` do not interact there, and
TLC searches the sum of their states, not the product.

**Bounds.** The whole next-state relation of the store over three tasks is too
large, so `handoff` and `history` take the groups of actions their question is about
(`MCTaskStore`); together they take every action. Three tasks are the least for a
chain, a diamond's half and a cycle that closes through a third task; two runs for a
task that is completed, reopened and completed again, and for a stale caller. Where
the budget is asked about, a task may have a limit of 1 or 2 and a failing path may
pass 1, 2 or none (`TaskLimits`, `FailureLimits`): a failure is retried or not, and
an edit in between makes it the other way. `MaxStops` bounds crashes: two let the
dispatcher crash during the recovery from a crash. In `supervise`, "run again" lets
a second run start after every end that is not counted as a failure.

In `storage` the scenario `removal` has one slot, so that planner and run exclude
each other, and two runs that are recovered and begin anew; `directory` has three
runs of two boards in one directory; `together` has two tasks of which one waits
for the other, with every failure and crash; `in turn` four tasks and three runs,
the least for a fan-in of two and for a prerequisite that is done again, where the
first two runs do not fail; `console`
two tasks, two loads under way and three keys (`ConsoleStart` says which of them
are left). In `planning` two boards with two places and a page of one make every
cursor turn; in `calls` a user and the coordinator plan the same task around one
edit or shutdown. In `services` two passes, two events and a lease of one tick
that outlives a send of none: enough for a pass that is overtaken. Its scenario
`agents` has two tasks of two boards compete for one worker, with one failure of
an agent, so that health changes under a search; `graph` is one search, step by
step, in every fallback graph of four profiles with up to two, two, one and one
fallbacks under every health: cycles, shared fallbacks and dead ends included.
`BoardsShare` is `BoardsTakeTurns` of `Agents` in the scenario that has
dispatchers. `dashboard` has two slots, a lease of three intervals as in
the code, and values that become at most two intervals old. Its scenario
`supervisor` serves one request at a time, while the lease is fought over;
`requests` has two in flight, the least that can overtake each other, and other
writers of the file, but no command line that leads and no time that passes;
`files` and `imports` have two of everything. Every bound is a
CONSTANT of a cfg, or a guard with a comment "bound", or a restriction of an MC
module that its comments state.

The rows of the store, of the dispatcher and of the coordination database are
not counted beyond the limit they are compared with (counters saturate), and ids
are used once, so these runs are exhaustive for their constants.

**Symmetry** is used for tasks and runs in `handoff`, `history` and `supervise`,
runs without liveness properties; no definition tells the elements apart.

**Deadlock** is not checked: when all ids of runs are used the system rests.

**Fairness.**

- `live` assumes that goroutines go on, that the periodic maintenance pass does
  its work, that time passes, that a dispatcher that stopped is started again
  (the controller restarts it after a backoff, and a watch is run as a service),
  and, strongly, that a turn which starts after its runtime is over is cut short:
  the code gives it one millisecond. It also assumes that the descendants of a
  killed leader end, which is about the environment. Nothing is assumed of
  workers, operators or claims. For removals: boards are opened again and again,
  as every dispatcher opens every board in every pass, and a removal that began
  goes on or fails.
- `dashboard` (`Failover` is asked of the scenario `supervisor`): goroutines that
  can run do, tickers tick, workers told to stop do stop; and, strongly, a store
  that is asked for a free lease again and again does not refuse it for ever.
  Crashes, requests and failures of the loop are not fair.
- `planning`: the loop ticks, the coordinator's goroutine runs, a planner ends
  (its call has a timeout), a dispatcher that stopped is started again; strongly,
  a board that is tried again and again opens and lists.
- `services`: passes are run again and again, one that runs goes on or answers;
  strongly, a destination that is tried for ever answers some day and the store
  takes the answer. For agents: the dispatcher's loop goes on, a worker ends.

Some properties have limits, and say so in their comments. `ReopenedTaskClaimable`
holds where retention does not forget the event that lifted the guard.
`ExhaustedNotRetried` speaks of a task until an operator unblocks, promotes,
reschedules or finishes it, and of the limit in force when it failed: raising
`max_retries` afterwards brings nothing back. `TerminationHonoured` speaks of
terminations stored before the goroutine read the intents: a later one, stored while
a descendant of the worker is still alive, is overtaken by `FinalizeRunTerminal`,
which does not look for one. `CapacityHeld` and `OneWriter` speak of processes that
are `Accounted`, `GoneBoardsOwnNothing` of recorded ones. `RunsSavedConfig` excepts
what was `overtaken`. `SentOnce` speaks of confirmations that were recorded.
`OneSupervisor` speaks of dispatchers that used no clock value an interval late:
with one, two may supervise until the next renewal, which `Leadership` shows.

### Findings

- `orphan` (`lifecycle.go:683`): an administrative completion checks that the
  task has no active run before its transaction and not in it. A claim in
  between is orphaned: the task is done, the run stays running for ever.
- `crashrace` (`dispatcher.go:282`): the maintenance pass takes the vanished PID
  of a worker that has just succeeded for a crash, and records a failure while
  the goroutine captures and finalizes.
- `unkept` (`dispatcher.go:1470`): if the write of the agent's health fails, the
  task is requeued before anybody looks whether the workspace has changed.
- `stuck` (`workspace/manager.go:182`): a global lease passes on when its owner
  is found terminal. If the owner was deleted with its task before, nobody finds
  anything: the directory stays leased and the board cannot be removed.

Seen on the way, without runs of their own, and excepted from the properties above
since no document promises otherwise: a termination stored after the goroutine of a
finished worker has read the intents is overtaken by the finalization
(`dispatcher.go:1361`); a process whose run ended before its PID was recorded is
nobody's (`executor.go:161-180`); and of two configuration requests that overlap, or
of one and a write of the command line, the older may stay at work
(`routes_agents.go:104-116`, `controller.go:186`). Also, `README.md:535-536` limits the
collection of workspaces to scratch directories, while `maintenance/gc.go:85-96`
goes by the configured kind of the task, and a scratch task of a board whose
default directory is a Git checkout works in a worktree (`Kind` of `Worktrees`).

## 5. Proofs

All theorems hold for every value of the constants that satisfies the named
assumptions: `NoneAssumption`, `MarkAssumption` (null and marks are no ids),
`RetryAssumption`, `InputAssumption`, `SettingAssumption`, `CallAssumption` (the
inputs are what the code can pass), `LimitAssumption`, `NamesAssumption`,
`NothingAssumption` (the absence of a row is no row), `NotificationAssumption` (a
lease outlives the send made under it, as the timeouts of `Deliver` ensure),
`LeadershipAssumption` (a lease lives for at least two renewal intervals; the
code has three), `AttachmentAssumption`, `PlanningAssumption` (quotas and limits
are positive, as their defaults; the coordinator is no user, the root no key),
`TreeAssumption` (what tasks are configured to be and what agents write; null is
no commit), `AgentsAssumption` (a configuration has finitely many profiles and at
least one board, every task a board and a profile, a cap is positive),
`ConsoleAssumption` (null is no task, the list has an order for all tasks, and
there is a column for ready and for running ones).

| Module | Theorems | Argument |
| --- | --- | --- |
| `TaskStoreProofs` | `TypeCorrect` | one lemma per group of operations; every helper keeps rows in their type |
| `TaskStoreTheorems` | `Ownership`, `FencedRuns`, `OrphansNamed` | every step is one of a few kinds (claims, ends, settles, deletes, quiet); ownership and the refinement of `RunFence` are shown per kind |
| | `PrerequisitesFirst`, `FinishingReleases`, `PinnedCompletions`, `Acyclic`, `DurableHandoffs`, `FrozenPrerequisites`, and their conjunctions `SoundPrerequisites`, `KeptHandoffs`; `WakeUps` | the inductive invariant `HandoffInv`, again per kind of step |
| | `OutcomesMatchRequests`, `FrozenOutcomes` | what one step may do to the row of a run (`RowAdvances`) |
| | `ReopenedAreClaimable`, `ExhaustedStayPut` | what one step may do to the guard and the counter of a task (`Keeps`) |
| `SupervisionProofs` | `DispatchTypeCorrect`, `Implements`, `DispatchKeepsBoard`, `GoalsJudged` | `DispatcherOK` ties what a goroutine and the pass remember to what the store accepts; every step is a store action or leaves the board alone |
| `SupervisionSafety` | `WorkersNeverOverlap`, `OneTurnWorkersNeverOverlap`, `UnfinishedWorkIsKept`, `TerminationsAreHonoured` | the inductive invariants `Safe`, `Preserved` and `TerminationInv`, one run at a time |
| `StorageProofs` | `CoordTypeCorrect`, `Capacity`, `WritersAlone`, `RemovalClean` | the inductive invariant `CoordInv` |
| | `TreeInvariant`, `TreesTypeCorrect`, `WorkIsHandedOn`, `WorkIsOwn`, `FanInSound` | the inductive invariant `TreeInv`, one run at a time |
| | `WorkHandedOver` | `HandoverInv`: `TreeInv`, and a run in progress has its task alone (`HasTask`) |
| | `ConsoleInvariant`, `InputHits`, `ListMatches`, `SelectionKept` | the inductive invariant `ConsoleInv`: `ModalOK`, `ListOK` and `RowsOK` |
| `DashboardProofs` | `LeadTypeCorrect`, `SupervisesAlone`, `GenerationKnown`, `SavedConfigRuns`, `NoTheft` | the inductive invariant `LeadIInv` |
| | `FilesAndRows`, `CompleteImports` | the inductive invariants `FilesInv` and `ImportInv` |
| `PlanningProofs` | `PlanningInvariant`, `PlanningTypes`, `PlansFitTheirTexts` | the inductive invariant `PlanInv` |
| | `RootsComeLast` | closed sets of a graph |
| `ServicesProofs` | `NotificationsInvariant`, `EventsAreSentOnce`, `NothingIsLost` | the inductive invariant `NoteInv` |
| | `AgentsInvariant`, `NearestIsSelected`, `AgentsTypeCorrect` | the inductive invariant `AgentsInv`: the queue of a search by levels |

*Handoffs.* None of the six properties is inductive alone. A task becomes ready
because its last open link was satisfied, a link is satisfied because its
prerequisite is done with a completion, and that a new link cannot close a cycle
depends on the links that exist. `HandoffInv` is their conjunction with "links
join existing tasks". Acyclicity is stated over sets closed under the links
(`NoCycle`), so that no induction over paths is needed: a new link into a task
that cannot reach its source leaves every closed set argument intact.

*Ownership.* `RunOwnership` is inductive with the type. Only the second half
of `CompleteTask` breaks the converse, that a running run has a task; the
theorem `OrphansNamed` says it is the only step.

*How runs end.* `OutcomeMatchesRequest` speaks of single rows, and so does its
proof: the row of a run changes when the run is first used, while it is running,
and when its task is deleted (`RowAdvances`), and each of these writes keeps what
the property says of a row. `EndedRunsFrozen` follows from the same case
distinction, for no write is left for a run that ended.

*Coming back.* `WakeUps` holds because whatever changes the links into a task
recomputes the task against the new links in the same transaction; the lemmas
say so for completions, deletions and unlinks, and that a new link never closes
an open one. `ExhaustedNotRetried` is not inductive: an exhausted task could wait
in `todo` and be recomputed. `RetiredRow` says that it is blocked or archived,
which every step keeps for every row, whatever the limits: what counts is that the
failure gave the task up, not how its counter compares with a limit that may have
changed since. `ReopenedTaskClaimable` is about a retention that keeps to a rule,
and the rule is the specification of the theorem: in `RetainingSpec` retention
forgets completions but no request to run again (it keeps a day of events unless it
is told to keep none, and the guard looks back one hour). Everything else of `Next`
is in it.

*Implements.* Dispatcher steps call store actions with arguments from their own
state. That these are in the sets the store is specified over needs the
invariant `DispatchInv`: a goroutine at `reclaim` carries timed_out or
reclaimed, a pass that will write carries one of the outcomes it planned. With
it, everything proved of the store holds of the store under the dispatcher
(`DispatchKeepsBoard`).

*Supervision.* That no process writes for a task that was given away rests on
what whoever ends a run has seen before: `Guarded` says that a goroutine about
to write an end, and a pass about to requeue, have found no process that the
store knows of, and that no new one appears behind their backs, because a
goroutine that would record one is waited for. It holds of runs of one turn.
A goal goes on by itself after its process ended, and a verdict of the pass may
be older than its next turn: then the property is false, and `NoOverlap` is not
claimed. `PromptLaunch` is the other hypothesis: if a claim expires while its
goroutine still launches, the pass sees a lapsed run without a process.
`PartialWorkKept` follows from `Worked`: a change that is recorded was made in a
workspace and by a process the store knows of, so whoever ends the run looks at
it and blocks the task; the hypothesis `~HealthWriteFails` leaves out the finding
`unkept`.
`TerminationHonoured` adds `Doomed`: a run whose termination was stored in time has
an intent that stays, and its goroutine is not on the way that an absent intent
leads to (`spared`, `decide`), nor finalizing a completion. That the three reads of
the goroutine are apart is why the termination must come before the first of them
(`PastIntent`).

*Notifications.* `NoteInv` says of every destination that its rows are events of
the past that its subscription asked for (`BookOK`), that what it is owed, as long
as nothing deletes the event or the subscription or changes its kinds, is in a row or
ahead of its place, and of every claim that its row is leased to it for as
long as the send takes (`ClaimsOK`). A claim is lost only when its lease has run
out, which `SendTicks < LeaseTicks` keeps from happening during a send; so no
second pass takes up an event that is being sent.

*Coordination.* `CapacityHeld` speaks of who uses an agent, the code of rows.
Between them `CoordInv` says who has a right to what: a process belongs to a
goroutine that has passed its launch (`LaunchOK`); whoever uses the agent, or is
about to and still has its claim, has a slot (`SlotOK`), and slots have one owner,
whence the cap by counting; a process that is not recorded yet is covered by its
goroutine, which stands between start and record, as long as the run is active, and
by nothing afterwards, which is why the properties speak of `Accounted` ones;
whoever writes to a directory, or is ready to, has its lease (`LeaseOK`), and a
lease changes only from free, or from an owner that is over (`LeasesMove`), which
needs what a takeover knows about the owner it saw (`TakeoverOK`); nobody is inside
a board that is locked or gone, and what the remover looked at stays as it was
(`LockOK`). The proof needs the locks only: the guards in the two databases are what
is left when a remover crashes and its locks go with it.

*Leadership.* That only one undisturbed dispatcher leads does not follow from the
lease alone: what a slot will do next depends on a clock value it read before.
`ReadingHeld` says who holds a value and how old it is, `OwnerOnTime` that a slot
which leads without having been late or disturbed still owns the row with enough
time left for its next renewal, so that nobody else's `Acquirable` can be true;
exclusion follows because the row has one owner. For the controller, `OneGeneration`
is itself inductive with the type, and `FileConfig` strengthens `RunsSavedConfig` by
what must hold of every request in flight: it has the configuration of the file,
unless it was overtaken. The bound `MaxAge` is a parameter of the theorems.

*Attachments.* `FileOK` says for every file, by the step its call stands at,
where its bytes and its row are; a step touches one file, or the files of one
task, and the others keep theirs. `ImportInv` says which issues of a batch are
still to do, were entered or failed, and that one task carries a key.

*Worktrees.* `HandoffComplete` and `OwnWorkOnly` (that what a change set adds to
its base is its run's own, which the refinement implies too) speak of change
sets, and a change set is what is left of a long preparation. `RunOK` says, for
each step at which the process of a run can stand, what is recorded of the run
and what its worktree holds as long as it is there: while heads are merged, the
heads of all prerequisites that are not left; when the base is advanced, all of
them; while the agent works, nothing above the base but its own work. A change
set is what was captured, which contains its base. A step touches one run
(`Alone`), and pins, change sets and refs are made once; a run is claimed when
all its links are pinned, so that what was handed to it cannot change under it
(`HandedStay`). That is where the proof needs what the store promises about
pinned links. A crash, a recovery or garbage collection may take the directory
at any step, and the invariant then claims nothing about it: no capture can
follow. For the refinement every step is one of five kinds, by what it does to
the rows (`Claims`, `Records`, `Finishes`, `Ends`, `Rests`), and each kind is an
action of `Handovers` or none. `HasTask` is what the mapping needs besides: that
a claim finds no other run of the task in progress, because the status of a task
is running as long as one is.

*Terminal board.* `InputHitsItsTarget` follows from `ModalOK`: as long as a
menu, form or question is open, no mutation is under way and it is open for the
task it was opened on. `ListMatchesView` needs that an answer which is still
under way has no archived task unless it was asked for with them (`AnswerOK`),
and that `Settled` and `Placed`, which move the selection, keep the rows.
`SelectionStays` is about one step, which a status without a column would spoil:
`statusIndex` takes such a status for the first one. `RowsOK` says that the
board, and with it every list that was loaded from it, has only statuses that
have a column, shown or not, and `ListOK` that there is a cursor for each. The
rest is counting: two tasks of a column have different places in it
(`Ordinals`), the cursor `Placed` sets is in range, so `Settled` leaves it alone
(`SettledStays`), and the task at that place is the one it was set for
(`PlacedIs`).

*Planning.* `PassOK` bounds what a pass may still do by its stage: the quotas left
at a board, a page no longer than what may still be scanned (`PagesAreSmall`, by
counting), a planner called exactly while it waits for one. `CallOK` says that a
call knows the text its task had at the version it read, so that an unchanged
version means an unchanged text. The refusal of circular plans makes the root
wait for everything: the tasks the root does not wait for would be a set in which
every task has a dependent, hence a circle (`RootIsLast`); no path is followed,
and the keys of a plan may even be infinitely many.

*Agents.* `SelectsNearest` is about all of a search, and while it goes on its
reads grow old. The invariant describes the queue of a breadth-first walk: for
some distance n, it is what is left of the profiles at distance n (`near`)
followed by those already found at distance n + 1 (`far`), and everything within
n has been met (`Level`). `SkipSeen` and `Look` take the head of `near` or, when
it is used up, move to the next level (`NextLevel`). What was passed over was
unusable when it was read, so it is not in `steady` (`PassedOver` in `WalkOK`);
hence when a profile is taken, whatever is steady and nearer would have been met
and passed over, which is impossible (`ChoiceOK`). When nothing is left, the
profiles met are a closed set around the one asked for, so everything `Reachable`
was passed over (`NothingLeft`). Distances are paths of a given length
(`WithinNext` lengthens one by a step), and where something holds all along a path
the proof takes the first exception (`WithinClosed`), so that no induction over
paths is needed. The theorem holds for every distance; `SelectsNearest` stops at
the number of profiles, which is why they are assumed to be finitely many.

**Model-checked only:** everything under fairness: `RunsEnd`,
`RemovalsRecovered`, `Failover`, `TriageIsReached`, `OwedIsDelivered`,
`BoardsShare`. Liveness and ENABLED are beyond the prover here. Every invariant
and every action property of the passing runs is a theorem. What is not in reach
either is induction over data and recursive definitions: it is why the graphs of
the store, of plans and of fallbacks are handled with closed sets and paths of a
given length, why the walk over fallbacks is its steps and not a recursive
function, and why places in a column are counted and not filtered out of a
sequence. That the definitions used instead say the same is checked where it is
not evident: `MCPlanning` compares them with the module `Graphs`.

## 6. Not modelled

- **Text and files**: prompts, parsing of agents' output, command lines of
  runners, patches and diffs, logs, archives, configuration files, detection and
  setup of agents. Their effect on state (a workspace changed, was captured,
  conflicts, an agent is limited) is an input of the actions.
- **Front ends** (CLI commands, MCP, dashboard routes, web): they call the same
  store operations one by one; the modules let anybody call anything. The
  requests that steer the embedded supervisor and the loop of the terminal board
  are modelled, since they keep state of their own.
- **Hierarchy, swarms, comments, text-only columns** of the store. A swarm is a
  sequence of creations and links in one transaction, which are actions of
  `TaskStore`; the hierarchy gates nothing there.
- **Migrations, board metadata, slugs and the current board**: read and written
  by one process at a time, without a property beyond what a test sees.
- **Time** is deadlines that have passed or not, or ticks where a lease counts them;
  retention and guards forget at any moment. A task whose claim outlives its launch
  is left to `PromptLaunch`: launches are assumed to take less than a claim or a
  runtime where `NoOverlap` is checked. Versions of a task differ with every write
  in `Planning`; in the code two processes would have to write in one nanosecond.
- **Processes whose PID was never recorded** have their steps in `Supervision` and
  `Coordination`, but no property is about them: nothing in the databases leads to
  them.
- **The write barrier of a local removal guard** is a guard on claims, local
  leases and deletions; other writes of a board without running runs touch
  nothing `Coordination` keeps.
- **Goal mode and overlap**: with goals a stale pass can act on the process of
  the next turn; no document says otherwise, so `NoOverlap` is not claimed
  there.
- **Composition across modules**: `Supervision` extends `TaskStore`; the other
  modules keep their own abstraction of the task and run rows, as far as they
  read them, and are not checked together with it.
