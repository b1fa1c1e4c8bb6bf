----------------------------- MODULE Worktrees -----------------------------
(***************************************************************************)
(* The files behind a run: the Git worktree it works in, the fan-in of the *)
(* change sets of its prerequisites before the worker starts, the capture  *)
(* of its own change set when it completes, what a recovery makes of a     *)
(* worktree left behind, and the garbage collection of old directories     *)
(* (internal/workspace, internal/maintenance, and their callers in the     *)
(* dispatcher, the CLI and the MCP server).                                *)
(*                                                                         *)
(* A commit is the set of changes its history contains, so an ancestor is  *)
(* a subset and a merge a union; two commits of one run with the same      *)
(* history are the same commit.  A run may write.  Git itself does what    *)
(* it is told, except that a merge may conflict; the durable refs belong   *)
(* to Autogora, nobody else moves or deletes one.                          *)
(***************************************************************************)
EXTENDS Naturals, RunIds

CONSTANTS
    Task,
    Before,       \* task_links: pairs <<prerequisite, dependent>>
    Configured,   \* tasks.workspace_kind
    Direct,       \* tasks claimed over the CLI or MCP, not by the dispatcher
    Writes,       \* bound: what the worker of each run may do to its files
    Integrated    \* bound: runs whose change set a person merges there

\* The inputs, and that the absence of a row, a commit or a change set is none.
ASSUME TreeAssumption ==
    /\ Before \subseteq Task \X Task
    /\ Configured \in [Task -> {"scratch", "worktree", "dir"}]
    /\ Direct \subseteq Task /\ Integrated \subseteq Run
    /\ Writes \in [Run -> SUBSET {"commit", "edit", "rewrite"}]
    /\ {None, "open"} \cap Run = {} /\ None \notin Task
    /\ LET commits == SUBSET (Run \X {"commit", "snapshot"}) IN
       /\ \A commit \in commits : commit # None
       /\ \A set \in [base : commits, head : commits] : set # None

VARIABLES
    workdir,    \* the board's default workdir: "none", a "plain" directory, or "git"
    task,       \* status of each task
    pin,        \* task_links.satisfied_run_id of each link
    treeRun,    \* rows of task_runs and their terminal requests
    main,       \* HEAD of the shared checkout
    tree,       \* the directory of each run
    base,       \* run_workspaces.base_commit; None before the row is bound
    ref,        \* refs/autogora/runs/<run>
    change,     \* task_change_sets
    proc,       \* where the process that drives each run stands
    collecting  \* the task garbage collection found expired, or None

Workdirs == {"none", "plain", "git"}
files == <<main, tree, base, ref, change>>
treeVars == <<workdir, task, pin, treeRun, main, tree, base, ref, change, proc, collecting>>

Change == Run \X {"commit", "snapshot"}
Commit == SUBSET Change
Place == {"unused", "claimed", "prepared", "merging", "conflicted",
          "refused", "ready", "working", "asked", "captured", "recorded",
          "failed", "cleaning", "crashed", "gone"}

\* left: heads still to merge; start: HEAD before the first merge; snap: the
\* commit captured.  They live in the process and die with it.
Idle(step) == [step |-> step, left |-> {}, start |-> {}, snap |-> {}]
NoTree == [head |-> {}, dirty |-> FALSE, merging |-> FALSE, present |-> FALSE]

TreeInit ==
    /\ workdir \in Workdirs
    /\ task = [t \in Task |-> "todo"]
    /\ pin = [e \in Before |-> "open"]
    /\ treeRun = [r \in Run |-> [task |-> None, status |-> "unused",
                                 managed |-> FALSE, request |-> FALSE]]
    /\ main = {}
    /\ tree = [r \in Run |-> NoTree]
    /\ base = [r \in Run |-> None]
    /\ ref = [r \in Run |-> None]
    /\ change = [r \in Run |-> None]
    /\ proc = [r \in Run |-> Idle("unused")]
    /\ collecting = None

At(r, step) == proc[r].step = step
InProgress(r) == treeRun[r].status = "running"

\* Where a run works.  A task configured scratch gets a worktree when the
\* board's default workdir is a Git checkout, and works in that directory
\* itself when it is none ("plain": shared, and nothing to compare it with).
Kind(t) == CASE Configured[t] # "scratch" -> Configured[t]
             [] workdir = "git"   -> "worktree"
             [] workdir = "plain" -> "plain"
             [] OTHER             -> "scratch"
Shared == {"dir", "plain"}
RunKind(r) == Kind(treeRun[r].task)
HeadOf(r) == IF RunKind(r) = "dir" THEN main ELSE tree[r].head

Prerequisites(t) == {e \in Before : e[2] = t}

\* MUTANT: a prerequisite that was reopened hands nothing over.
HandoffsWhileDone(t) ==
    {q \in {pin[e] : e \in Prerequisites(t)} \cap Run :
        change[q] # None /\ task[treeRun[q].task] = "done"}

\* The runs pinned to the links of t that recorded a change set.
Handoffs(t) == {q \in {pin[e] : e \in Prerequisites(t)} \cap Run : change[q] # None}

\* verifyChangeSetReference: the ref still names the recorded head.
Intact(q) == /\ treeRun[q].status = "completed"
             /\ ref[q] = change[q].head

\* InspectChanges and preservedWorkspaceReason: anything but an untouched
\* directory is kept for a person.  A shared directory has no baseline.
Preserved(r) ==
    /\ base[r] # None
    /\ CASE RunKind(r) \in Shared -> TRUE
         [] RunKind(r) = "scratch" -> tree[r].dirty \/ ~tree[r].present
         [] OTHER -> \/ ~tree[r].present \/ tree[r].dirty \/ tree[r].merging
                     \/ tree[r].head # base[r]

\* The rows after a run ended.
EndRun(r, runStatus, taskStatus) ==
    /\ treeRun' = [treeRun EXCEPT ![r].status = runStatus, ![r].request = FALSE]
    /\ task' = [task EXCEPT ![treeRun[r].task] = taskStatus]

Goto(r, step) == proc' = [proc EXCEPT ![r].step = step]

-----------------------------------------------------------------------------
(* Claim and preparation *)

\* A run id is fresh; which one does not matter.
ClaimTask(t) ==
    LET r == CHOOSE x \in Run : treeRun[x].status = "unused" IN
    /\ \E x \in Run : treeRun[x].status = "unused"
    /\ task[t] = "todo"
    /\ \A e \in Prerequisites(t) : pin[e] # "open"
    /\ task' = [task EXCEPT ![t] = "running"]
    /\ treeRun' = [treeRun EXCEPT ![r] =
           [task |-> t, status |-> "running", managed |-> t \notin Direct, request |-> FALSE]]
    /\ Goto(r, "claimed")
    /\ UNCHANGED <<pin, files, collecting>>

\* git worktree add --detach at the HEAD of the repository, or mkdir of a
\* scratch directory.
NewTree(r) == CASE RunKind(r) \in Shared -> NoTree
                [] RunKind(r) = "worktree" -> [NoTree EXCEPT !.present = TRUE, !.head = main]
                [] OTHER -> [NoTree EXCEPT !.present = TRUE]

\* The directory, then BindRunWorkspace, refused when the run has ended
\* meanwhile.  A crash between the two leaves a directory no row and no later
\* run refers to.
PrepareWorkspace(r) ==
    /\ At(r, "claimed")
    /\ tree' = [tree EXCEPT ![r] = NewTree(r)]
    /\ IF InProgress(r)
       THEN base' = [base EXCEPT ![r] = IF RunKind(r) \in {"scratch", "plain"} THEN {} ELSE main]
            /\ Goto(r, "prepared")
       ELSE Goto(r, "gone") /\ UNCHANGED base
    /\ UNCHANGED <<task, pin, treeRun, main, ref, change, collecting>>

\* Preparation failed (no such directory, no repository): FailRun.
PrepareFails(r) ==
    /\ At(r, "claimed")
    /\ IF InProgress(r) THEN EndRun(r, "failed", "todo") ELSE UNCHANGED <<treeRun, task>>
    /\ Goto(r, "gone")
    /\ UNCHANGED <<pin, files, collecting>>

-----------------------------------------------------------------------------
(* Fan-in of the prerequisites' change sets *)

\* What integratePrerequisiteHandoffs checks before it merges anything.
Integrable(r) ==
    LET heads == {change[q].head : q \in Handoffs(treeRun[r].task)} IN
    /\ RunKind(r) \in {"dir", "worktree"}
    /\ HeadOf(r) = base[r]
    /\ IF RunKind(r) = "dir"
       THEN /\ \A q \in Handoffs(treeRun[r].task) : Intact(q)
            /\ \A h \in heads : h \subseteq main
       ELSE tree[r].present /\ ~tree[r].dirty

BeginIntegration(r) ==
    LET pinned == Handoffs(treeRun[r].task) IN
    /\ At(r, "prepared")
    /\ proc' = [proc EXCEPT ![r] =
           IF pinned = {} \/ (RunKind(r) = "dir" /\ Integrable(r)) THEN Idle("ready")
           ELSE IF ~Integrable(r) THEN Idle("refused")
           ELSE [Idle("merging") EXCEPT !.left = pinned, !.start = tree[r].head]]
    /\ UNCHANGED <<task, pin, treeRun, files, collecting>>

\* MUTANT: a handoff that conflicts is left out and the fan-in goes on.
MergeNextSkipping(r) ==
    LET q == CHOOSE x \in proc[r].left : TRUE IN
    /\ At(r, "merging") /\ proc[r].left # {}
    /\ \E merged \in BOOLEAN :
          tree' = IF merged THEN [tree EXCEPT ![r].head = @ \cup change[q].head] ELSE tree
    /\ proc' = [proc EXCEPT ![r].left = @ \ {q}]
    /\ UNCHANGED <<task, pin, treeRun, main, base, ref, change, collecting>>

\* One handoff, in a fixed order: already an ancestor, merged, or in conflict.
MergeNext(r) ==
    LET q == CHOOSE x \in proc[r].left : TRUE
        present == change[q].head \subseteq tree[r].head IN
    /\ At(r, "merging") /\ proc[r].left # {}
    /\ \/ /\ Intact(q) /\ tree[r].present
          /\ tree' = [tree EXCEPT ![r].head = @ \cup change[q].head]
          /\ proc' = [proc EXCEPT ![r].left = @ \ {q}]
       \/ /\ ~Intact(q) \/ ~tree[r].present
          /\ Goto(r, "conflicted") /\ UNCHANGED tree
       \/ /\ Intact(q) /\ tree[r].present /\ ~present
          /\ tree' = [tree EXCEPT ![r].merging = TRUE]
          /\ Goto(r, "conflicted")
    /\ UNCHANGED <<task, pin, treeRun, main, base, ref, change, collecting>>

\* merge --abort and reset --hard to where the fan-in began.
RolledBack(r) == IF ~tree[r].present THEN tree
                 ELSE [tree EXCEPT ![r].head = proc[r].start, ![r].merging = FALSE]

RollbackIntegration(r) ==
    /\ At(r, "conflicted")
    /\ tree' = RolledBack(r)
    /\ Goto(r, "refused")
    /\ UNCHANGED <<task, pin, treeRun, main, base, ref, change, collecting>>

\* BlockRun (and, for a managed run, its finalization).
BlockIntegration(r) ==
    /\ At(r, "refused")
    /\ IF InProgress(r) THEN EndRun(r, "blocked", "blocked") ELSE UNCHANGED <<treeRun, task>>
    /\ Goto(r, "gone")
    /\ UNCHANGED <<pin, files, collecting>>

\* The whole fan-in succeeded: UpdateRunWorkspaceBase.
AdvanceBase(r) ==
    /\ At(r, "merging") /\ proc[r].left = {} /\ InProgress(r)
    /\ base' = [base EXCEPT ![r] = tree[r].head]
    /\ Goto(r, "ready")
    /\ UNCHANGED <<task, pin, treeRun, main, tree, ref, change, collecting>>

\* The base could not be written, for one because the run was recovered:
\* roll back, and reclaim the run if it is still there.
AdvanceBaseFails(r) ==
    /\ At(r, "merging") /\ proc[r].left = {}
    /\ tree' = RolledBack(r)
    /\ IF InProgress(r) THEN EndRun(r, "reclaimed", "todo") ELSE UNCHANGED <<treeRun, task>>
    /\ Goto(r, "gone")
    /\ UNCHANGED <<pin, main, base, ref, change, collecting>>

-----------------------------------------------------------------------------
(* The worker *)

\* RecordSpawn, or the answer to a claim over MCP or the CLI.
StartWork(r) ==
    /\ At(r, "ready")
    /\ Goto(r, IF InProgress(r) THEN "working" ELSE "gone")
    /\ UNCHANGED <<task, pin, treeRun, files, collecting>>

\* A worker without a supervisor can go on writing after it asked to
\* complete; a managed one is gone by then.
Writing(r) ==
    \/ At(r, "working")
    \/ /\ ~treeRun[r].managed
       /\ proc[r].step \in {"asked", "captured", "recorded"}

\* Commits of the repository the worker could reset to.
Known == {{}} \cup {base[q] : q \in {x \in Run : base[x] # None}}
         \cup {ref[q] : q \in {x \in Run : ref[x] # None}}

WorkerCommits(r) ==
    /\ Writing(r) /\ "commit" \in Writes[r]
    /\ IF RunKind(r) = "dir"
       THEN main' = main \cup {<<r, "commit">>} /\ UNCHANGED tree
       ELSE /\ RunKind(r) = "worktree" /\ tree[r].present
            /\ tree' = [tree EXCEPT ![r].head = @ \cup {<<r, "commit">>}, ![r].dirty = FALSE]
            /\ UNCHANGED main
    /\ UNCHANGED <<task, pin, treeRun, base, ref, change, proc, collecting>>

WorkerEdits(r) ==
    /\ Writing(r) /\ "edit" \in Writes[r] /\ tree[r].present
    /\ tree' = [tree EXCEPT ![r].dirty = TRUE]
    /\ UNCHANGED <<task, pin, treeRun, main, base, ref, change, proc, collecting>>

\* git reset to an older commit: the worker rewrites its history.
WorkerRewrites(r) ==
    /\ Writing(r) /\ "rewrite" \in Writes[r]
    /\ RunKind(r) = "worktree" /\ tree[r].present
    /\ \E h \in Known : /\ h \subseteq tree[r].head
                        /\ tree' = [tree EXCEPT ![r].head = h]
    /\ UNCHANGED <<task, pin, treeRun, main, base, ref, change, proc, collecting>>

\* RequestRunCompletion; a managed worker then exits.
AskToComplete(r) ==
    /\ At(r, "working") /\ InProgress(r)
    /\ treeRun' = [treeRun EXCEPT ![r].request = TRUE]
    /\ Goto(r, IF RunKind(r) = "worktree" THEN "asked" ELSE "recorded")
    /\ UNCHANGED <<task, pin, files, collecting>>

\* A managed worker exits without a terminal request.
WorkerFails(r) ==
    /\ At(r, "working") /\ treeRun[r].managed /\ InProgress(r)
    /\ EndRun(r, "failed", IF Preserved(r) THEN "blocked" ELSE "todo")
    /\ Goto(r, "gone")
    /\ UNCHANGED <<pin, files, collecting>>

-----------------------------------------------------------------------------
(* Capture and completion *)

Snapshot(r) == tree[r].head \cup (IF tree[r].dirty THEN {<<r, "snapshot">>} ELSE {})

\* No unresolved conflict, the prepared base is still an ancestor, and the
\* durable ref is new or names the same commit.
Capturable(r) == /\ tree[r].present /\ ~tree[r].merging
                 /\ base[r] \subseteq Snapshot(r)
                 /\ ref[r] \in {None, Snapshot(r)}

\* CaptureChangeSet: commit-tree through a private index, then update-ref.
CaptureChangeSet(r) ==
    /\ At(r, "asked") /\ Capturable(r)
    /\ ref' = [ref EXCEPT ![r] = Snapshot(r)]
    /\ proc' = [proc EXCEPT ![r] = [Idle("captured") EXCEPT !.snap = Snapshot(r)]]
    /\ UNCHANGED <<task, pin, treeRun, main, tree, base, change, collecting>>

Verified(r) == \A q \in Handoffs(treeRun[r].task) :
                  Intact(q) /\ change[q].head \subseteq proc[r].snap

\* MUTANT: a run that was recovered during the capture still records.
RecordChangeSetLate(r) ==
    /\ At(r, "captured") /\ Verified(r)
    /\ change' = [change EXCEPT ![r] = [base |-> base[r], head |-> proc[r].snap]]
    /\ Goto(r, "recorded")
    /\ UNCHANGED <<task, pin, treeRun, main, tree, base, ref, collecting>>

\* VerifyPrerequisiteChangeSets, which reads only what no longer changes, and
\* RecordRunChangeSet.
RecordChangeSet(r) ==
    /\ At(r, "captured") /\ Verified(r) /\ InProgress(r)
    /\ change' = [change EXCEPT ![r] = [base |-> base[r], head |-> proc[r].snap]]
    /\ Goto(r, "recorded")
    /\ UNCHANGED <<task, pin, treeRun, main, tree, base, ref, collecting>>

\* Any step of the capture failed, or the run was recovered under it.
CaptureFails(r) ==
    /\ \/ At(r, "asked") /\ ~Capturable(r)
       \/ At(r, "captured") /\ ~(Verified(r) /\ InProgress(r))
    /\ Goto(r, "failed")
    /\ UNCHANGED <<task, pin, treeRun, files, collecting>>

\* RecoverRunBlocked for a managed run; DiscardRunTerminalRequest and
\* BlockRun for a direct one.
BlockCapture(r) ==
    /\ At(r, "failed")
    /\ IF InProgress(r) THEN EndRun(r, "blocked", "blocked") ELSE UNCHANGED <<treeRun, task>>
    /\ Goto(r, "gone")
    /\ UNCHANGED <<pin, files, collecting>>

\* FinalizeRunTerminal: the task is done and every waiting link is pinned.
Finalize(r) ==
    /\ At(r, "recorded") /\ InProgress(r)
    /\ EndRun(r, "completed", "done")
    /\ pin' = [e \in Before |-> IF e[1] = treeRun[r].task /\ pin[e] = "open" THEN r ELSE pin[e]]
    /\ Goto(r, IF treeRun[r].managed /\ RunKind(r) = "scratch" THEN "cleaning" ELSE "gone")
    /\ UNCHANGED <<files, collecting>>

FinalizeTooLate(r) ==
    /\ At(r, "recorded") /\ ~InProgress(r)
    /\ Goto(r, "gone")
    /\ UNCHANGED <<task, pin, treeRun, files, collecting>>

\* cleanupIfDone: only a generated scratch directory is removed.
Cleanup(r) ==
    /\ At(r, "cleaning")
    /\ tree' = [tree EXCEPT ![r] = NoTree]
    /\ Goto(r, "gone")
    /\ UNCHANGED <<task, pin, treeRun, main, base, ref, change, collecting>>

-----------------------------------------------------------------------------
(* Crashes and recovery *)

\* The dispatcher, or the client of a direct claim, dies with its worker.
Dies(r) ==
    /\ proc[r].step \notin {"unused", "crashed", "gone"}
    /\ proc' = [proc EXCEPT ![r] = Idle(IF InProgress(r) THEN "crashed" ELSE "gone")]
    /\ UNCHANGED <<task, pin, treeRun, files, collecting>>

\* recoverAbandonedRuns: the process is dead, or none was ever recorded and
\* the claim has expired, which does not stop whoever drives the run.
RecoverAbandoned(r) ==
    /\ InProgress(r)
    /\ \/ At(r, "crashed") \/ ~treeRun[r].managed
       \/ proc[r].step \in {"claimed", "prepared", "merging", "conflicted",
                            "refused", "ready"}
    /\ EndRun(r, "reclaimed", IF Preserved(r) THEN "blocked" ELSE "todo")
    /\ proc' = IF At(r, "crashed") THEN [proc EXCEPT ![r] = Idle("gone")] ELSE proc
    /\ UNCHANGED <<pin, files, collecting>>

-----------------------------------------------------------------------------
(* People and garbage collection *)

\* A person integrates a finished change set into the shared checkout.
MergeIntoMain(q) ==
    /\ q \in Integrated /\ ref[q] # None /\ ~(ref[q] \subseteq main)
    /\ main' = main \cup ref[q]
    /\ UNCHANGED <<task, pin, treeRun, tree, base, ref, change, proc, collecting>>

\* Unblocked, or reopened after it was done: the pins stay.
Reopen(t) ==
    /\ task[t] \in {"blocked", "done"}
    /\ task' = [task EXCEPT ![t] = "todo"]
    /\ UNCHANGED <<pin, treeRun, files, proc, collecting>>

\* gc: an old directory named after a finished task that is configured
\* scratch ...
Collectable(t) == Configured[t] = "scratch" /\ task[t] = "done"

BeginCollect(t) ==
    /\ collecting = None /\ Collectable(t)
    /\ \E r \in Run : treeRun[r].task = t /\ tree[r].present
    /\ collecting' = t
    /\ UNCHANGED <<task, pin, treeRun, files, proc>>

\* ... is removed with whatever its runs left in it.
EndCollect ==
    /\ collecting # None
    /\ tree' = [r \in Run |-> IF treeRun[r].task = collecting THEN NoTree ELSE tree[r]]
    /\ collecting' = None
    /\ UNCHANGED <<task, pin, treeRun, main, base, ref, change, proc>>

-----------------------------------------------------------------------------
Preparation(r) == PrepareWorkspace(r) \/ PrepareFails(r)
FanIn(r) == \/ BeginIntegration(r) \/ MergeNext(r) \/ RollbackIntegration(r)
            \/ BlockIntegration(r) \/ AdvanceBase(r) \/ AdvanceBaseFails(r)
Worker(r) == \/ StartWork(r) \/ WorkerCommits(r) \/ WorkerEdits(r) \/ WorkerRewrites(r)
             \/ AskToComplete(r) \/ WorkerFails(r)
Completion(r) == \/ CaptureChangeSet(r) \/ RecordChangeSet(r)
                 \/ CaptureFails(r) \/ BlockCapture(r) \/ Finalize(r)
                 \/ FinalizeTooLate(r) \/ Cleanup(r)

Step == \/ \E t \in Task : ClaimTask(t) \/ Reopen(t) \/ BeginCollect(t)
        \/ \E r \in Run : \/ Preparation(r) \/ FanIn(r) \/ Worker(r) \/ Completion(r)
                          \/ Dies(r) \/ RecoverAbandoned(r) \/ MergeIntoMain(r)
        \/ EndCollect
TreeNext == Step /\ UNCHANGED workdir

TreeSpec == TreeInit /\ [][TreeNext]_treeVars

-----------------------------------------------------------------------------
(* Properties *)

\* Every variable keeps its type.
TreeTypeOK ==
    /\ workdir \in Workdirs
    /\ task \in [Task -> {"todo", "running", "blocked", "done"}]
    /\ pin \in [Before -> Run \cup {"open"}]
    /\ treeRun \in [Run -> [task : Task \cup {None}, managed : BOOLEAN, request : BOOLEAN,
                            status : {"unused", "running", "completed", "blocked",
                                      "failed", "reclaimed"}]]
    /\ main \in Commit
    /\ tree \in [Run -> [head : Commit, dirty : BOOLEAN, merging : BOOLEAN,
                         present : BOOLEAN]]
    /\ base \in [Run -> Commit \cup {None}]
    /\ ref \in [Run -> Commit \cup {None}]
    /\ change \in [Run -> [base : Commit, head : Commit] \cup {None}]
    /\ proc \in [Run -> [step : Place, left : SUBSET Run, start : Commit, snap : Commit]]
    /\ collecting \in Task \cup {None}

\* What was handed over to the task of r, whatever became of it since.
HandedOver(r) == {q \in Run : /\ change[q] # None
                              /\ \E e \in Before : e[2] = treeRun[r].task /\ pin[e] = q}

\* A completed run with a worktree has a change set, its durable ref still
\* names the recorded head, and that head contains the recorded head of every
\* run pinned to a prerequisite of its task: nothing a prerequisite handed
\* over is dropped on the way to a dependent (finalizeManagedTerminal,
\* Manager.CompleteRun).
HandoffComplete ==
    \A r \in Run : treeRun[r].status = "completed" /\ RunKind(r) = "worktree" =>
        /\ change[r] # None
        /\ ref[r] = change[r].head
        /\ \A q \in HandedOver(r) : change[q].head \subseteq change[r].head

\* A change set reports the run's own work and drops nothing: its head holds
\* its base, and what it adds to that is nothing a prerequisite or anybody else
\* wrote (README: "the dependent change set reports its own files rather than
\* repeating inherited parent changes").
OwnWorkOnly ==
    \A r \in Run : change[r] # None =>
        /\ change[r].base \subseteq change[r].head
        /\ change[r].head \ change[r].base \subseteq {r} \X {"commit", "snapshot"}

\* A worker starts in a worktree that is clean, at its recorded base, and
\* holds every pinned change set (integratePrerequisiteHandoffs).
StartsComplete ==
    [][\A r \in Run :
          StartWork(r) /\ At(r, "ready") /\ proc'[r].step = "working"
              /\ RunKind(r) = "worktree" /\ tree[r].present =>
          /\ tree[r].head = base[r] /\ ~tree[r].dirty /\ ~tree[r].merging
          /\ \A q \in HandedOver(r) : change[q].head \subseteq base[r]]_treeVars

\* A recorded change set is never altered, and the runs pinned to a link that
\* is satisfied never change, however often the prerequisite is reopened and
\* completed again (ListPrerequisiteHandoffs).
HandoffsFixed ==
    [][/\ \A r \in Run : change[r] # None => change'[r] = change[r] /\ ref'[r] = ref[r]
       /\ \A e \in Before : pin[e] # "open" => pin'[e] = pin[e]]_treeVars

\* Both of the above.
FanInIsSound == StartsComplete /\ HandoffsFixed

\* The refinement mapping: whose task a run works on and what is recorded of it,
\* without the directories, refs and processes it takes to get there.
Work == INSTANCE Handovers WITH
    Sort <- {"commit", "snapshot"},
    keeping <- {t \in Task : Kind(t) = "worktree"},
    works <- [r \in Run |-> treeRun[r].task],
    over <- {r \in Run : treeRun[r].status \notin {"unused", "running"}},
    result <- change, handed <- pin

\* Through merges, rewritten histories, captures, crashes and recoveries, work
\* is handed on as Handovers promises: every result is all that was handed
\* over and the run's own changes, made once by a run that still has its task
\* (README: "the dependent change set reports its own files rather than
\* repeating inherited parent changes").
WorkIsHandedOver == Work!Spec
=============================================================================
