---------------------------- MODULE Coordination ----------------------------
(***************************************************************************)
(* What autogora shares between its boards: the coordination database      *)
(* holds the slots of an agent and the leases on writable directories, and *)
(* the guards that keep both away from a board while it is removed.  The   *)
(* runs they belong to are rows of other databases, and nothing commits in *)
(* two databases at once: every caller decides on what it read in one and  *)
(* writes into the other.                                                  *)
(*                                                                         *)
(* Abstractions.  One agent: agents share no rows.  A slot or a lease is   *)
(* named by its owner, which takes it at most once, so the owner stands    *)
(* for the random token as well.  Of a run only what the leases depend on  *)
(* is kept, a lease of its own board among it.  A process that has been    *)
(* recorded is identified without doubt; nobody but the goroutine that     *)
(* started it knows of one that has not.  An attempt of a planner or a     *)
(* judge is killed before its slot expires, whose time to live is the      *)
(* attempt's timeout and a grace.                                          *)
(***************************************************************************)
EXTENDS Integers, FiniteSets, RunIds

CONSTANTS
    Board,
    Removable,  \* the boards but the default one
    Attempt,    \* ids of attempts of planners and judges
    Path,       \* canonical paths of directories and repositories
    Wanted,     \* what runs want: a path, or None for a directory of their own
    Registration, \* whether the agent of a run is registered with a cap
    Limit       \* MaxConcurrent of the agent

ASSUME LimitAssumption == Limit \in Nat \ {0}
ASSUME NamesAssumption ==
    /\ None \notin Board \cup Run \cup Attempt \cup Path
    /\ Run \cap Attempt = {}
    /\ Removable \subseteq Board
    /\ Wanted \subseteq Path \cup {None}
    /\ Registration \subseteq BOOLEAN

VARIABLES
    run,        \* run[r]: its row in the database of its board
    at,         \* at[r]: where the goroutine of r is
    worker,     \* worker[r]: the process of r
    seen,       \* seen[r]: what the goroutine of r read in the coordination database
    attempt,    \* attempt[a]: an attempt of a planner or a judge
    pass,       \* the run a maintenance pass has found abandoned
    slots,      \* global_agent_slots
    lease,      \* global_workspace_leases
    guard,      \* board_removal_guards, of both databases
    present,    \* the boards whose directory is in place
    removal     \* removal[b]: how far the removal of b is

runVars == <<run, at, worker, seen, attempt, pass>>
sharedVars == <<slots, lease>>
boardVars == <<guard, present, removal>>
coordVars == <<runVars, sharedVars, boardVars>>

SlotNumber == 1..Limit
Owner == Run \cup Attempt

\* A row is deleted with its task, and gone with the database of its board.
RunRow == [status : {"unused", "running", "ended", "deleted", "gone"},
           board : Board \cup {None}, path : Path \cup {None}, local : BOOLEAN,
           registered : BOOLEAN]
Waiting == {"claimed", "verified", "full", "cleaned"}      \* no slot yet
Launching == {"bound", "leased", "busy", "takeover", "retake", "ready", "spawned"}
Phase == {"none", "working", "leaving", "over"} \cup Waiting \cup Launching
AttemptRow == [at : {"none", "running", "over", "crashed", "expired"},
               board : Board \cup {None}]
GuardScope == {"local", "coordination"}
Removal == {"none", "clean", "coordination", "local", "count", "move"}

NoSlots == [n \in SlotNumber |-> None]
NothingSeen == [listed |-> {}, owner |-> None]

CoordInit ==
    /\ run = [r \in Run |-> [status |-> "unused", board |-> None, path |-> None,
                             local |-> FALSE, registered |-> FALSE]]
    /\ at = [r \in Run |-> "none"]
    /\ worker = [r \in Run |-> "none"]
    /\ seen = [r \in Run |-> NothingSeen]
    /\ attempt = [a \in Attempt |-> [at |-> "none", board |-> None]]
    /\ pass = None
    /\ slots = NoSlots
    /\ lease = [p \in Path |-> None]
    /\ guard = [b \in Board |-> {}]
    /\ present = Board
    /\ removal = [b \in Board |-> "none"]

-----------------------------------------------------------------------------
(* Opening a board *)

Running(r) == run[r].status = "running"
Terminal(r) == run[r].status = "ended"

\* A process without a PID in its row is nothing to those who ask.
Live(r) == worker[r] = "live"

Handled(r) == at[r] \notin {"none", "over"}

\* An open store holds the lifecycle lock of its board, shared.
Held(b) == \/ \E r \in Run : /\ Handled(r) \/ pass = r
                            /\ run[r].board = b
           \/ \E a \in Attempt : attempt[a].at = "running" /\ attempt[a].board = b

\* The locks of a removal are exclusive, and nobody waits for a lock.
CanOpen(b) == b \in present /\ removal[b] = "none"

LiveTerminalProcesses(b) ==
    {r \in Run : run[r].board = b /\ Terminal(r) /\ Live(r)}

\* Broken: only the guard in the database of the board is recovered.
AfterOpenLocal(b) ==
    IF "local" \in guard[b] /\ LiveTerminalProcesses(b) # {} THEN guard[b]
    ELSE guard[b] \ {"local"}

(* clearStaleRemovalGuards: whoever opens a board recovers an interrupted  *)
(* removal, unless a process of the board is still alive.                  *)
AfterOpen(b) ==
    IF "local" \in guard[b] /\ LiveTerminalProcesses(b) # {} THEN guard[b] ELSE {}

Opened(b) == guard' = [guard EXCEPT ![b] = AfterOpen(b)]

\* The process that opens the board may die between the two databases.
Open(b) ==
    /\ CanOpen(b)
    /\ \/ Opened(b)
       \/ guard' = [guard EXCEPT ![b] = IF AfterOpen(b) = {} THEN @ \ {"local"} ELSE @]
    /\ UNCHANGED <<runVars, sharedVars, present, removal>>

-----------------------------------------------------------------------------
(* A run: the slot of its agent *)

Goes(r, phase) == at' = [at EXCEPT ![r] = phase]

Claim(r, b, p, registered) ==
    /\ run[r].status = "unused"
    /\ CanOpen(b)
    /\ "local" \notin AfterOpen(b)
    /\ Opened(b)
    /\ run' = [run EXCEPT ![r] = [status |-> "running", board |-> b, path |-> p,
                                  local |-> FALSE, registered |-> registered]]
    /\ Goes(r, "claimed")
    /\ UNCHANGED <<worker, seen, attempt, pass, sharedVars, present, removal>>

\* Only the agents of the registry have a cap.
Unshared(r) ==
    /\ at[r] = "claimed"
    /\ ~run[r].registered
    /\ Goes(r, "bound")
    /\ UNCHANGED <<run, worker, seen, attempt, pass, sharedVars, boardVars>>

\* workerRunIsActive of the caller's own run
VerifyWorker(r) ==
    /\ at[r] = "claimed"
    /\ run[r].registered
    /\ Running(r) \/ (Terminal(r) /\ Live(r))
    /\ Goes(r, "verified")
    /\ UNCHANGED <<run, worker, seen, attempt, pass, sharedVars, boardVars>>

\* Every allocation removes the expired slots of planners and judges first.
Unexpired ==
    [n \in SlotNumber |-> IF slots[n] \in Attempt /\ attempt[slots[n]].at = "expired"
                          THEN None ELSE slots[n]]

Free(allocation) == {n \in SlotNumber : allocation[n] = None}
IsLowest(n, free) == n \in free /\ \A m \in free : n <= m

Allowed(b) == "coordination" \notin guard[b]

AcquireSlot(r) ==
    /\ at[r] \in {"verified", "cleaned"}
    /\ Allowed(run[r].board)
    /\ \/ /\ \E n \in SlotNumber : /\ IsLowest(n, Free(Unexpired))
                                   /\ slots' = [Unexpired EXCEPT ![n] = r]
          /\ Goes(r, "bound")
          /\ UNCHANGED seen
       \/ /\ Free(Unexpired) = {}
          /\ slots' = Unexpired
          /\ at[r] = "verified"
          /\ Goes(r, "full")
          /\ seen' = [seen EXCEPT ![r].listed = {slots[n] : n \in SlotNumber} \cap Run]
    /\ UNCHANGED <<run, worker, attempt, pass, lease, boardVars>>

\* Broken: a run that ended is enough.
OverByRow(r) == CanOpen(run[r].board) /\ Terminal(r)

(* What a caller takes for the end of another run: the board can be opened, *)
(* the row is there, and nothing of its process is left.  None of that is  *)
(* ever undone, so the read and the release that follows are one step.     *)
Over(r) == CanOpen(run[r].board) /\ Terminal(r) /\ ~Live(r)

\* The boards whose stores the look at the owners of slots opens.
Looked(owners) == {run[r].board : r \in owners}

\* Broken: a released slot takes its number with it.
ReleaseNumbers(released) ==
    slots' = [n \in {n \in SlotNumber : slots[n] \notin released} |-> slots[n]]

ReleaseSlots(released) ==
    slots' = [n \in SlotNumber |-> IF slots[n] \in released THEN None ELSE slots[n]]

(* cleanupTerminalWorkers: the slots as they were listed, released by their *)
(* exact owner; without any of them the caller does not try again.         *)
CleanTerminalWorkers(r) ==
    LET over == {q \in seen[r].listed : Over(q)}
    IN  /\ at[r] = "full"
        /\ \E n \in SlotNumber : slots[n] \in over
        /\ ReleaseSlots(over)
        /\ Goes(r, "cleaned")
        /\ seen' = [seen EXCEPT ![r] = NothingSeen]
        /\ guard' = [b \in Board |-> IF b \in Looked(seen[r].listed) /\ CanOpen(b)
                                     THEN AfterOpen(b) ELSE guard[b]]
        /\ UNCHANGED <<run, worker, attempt, pass, lease, present, removal>>

-----------------------------------------------------------------------------
(* A run: the lease on its directory *)

(* The lease of its board ends with the run: a trigger of the schema       *)
(* deletes it when the status changes.                                     *)
AcquireLocal(r) ==
    /\ at[r] = "bound"
    /\ \/ /\ run[r].path = None
          /\ Goes(r, "ready")
          /\ UNCHANGED run
       \/ /\ run[r].path # None
          /\ Running(r)
          /\ "local" \notin guard[run[r].board]
          /\ \A q \in Run \ {r} : ~(/\ run[q].local
                                    /\ run[q].board = run[r].board
                                    /\ run[q].path = run[r].path)
          /\ run' = [run EXCEPT ![r].local = TRUE]
          /\ Goes(r, "leased")
    /\ UNCHANGED <<worker, seen, attempt, pass, sharedVars, boardVars>>

\* The second attempt, after a takeover, fails where the first one looks.
AcquireGlobal(r) ==
    LET p == run[r].path IN
    /\ at[r] \in {"leased", "retake"} /\ p # None
    /\ Allowed(run[r].board)
    /\ \/ /\ lease[p] = None
          /\ lease' = [lease EXCEPT ![p] = r]
          /\ Goes(r, "ready")
          /\ UNCHANGED seen
       \/ /\ lease[p] # None
          /\ at[r] = "leased"
          /\ seen' = [seen EXCEPT ![r].owner = lease[p]]
          /\ Goes(r, "busy")
          /\ UNCHANGED lease
    /\ UNCHANGED <<run, worker, attempt, pass, slots, boardVars>>

InspectOwner(r) ==
    /\ at[r] = "busy"
    /\ Over(seen[r].owner)
    /\ Opened(run[seen[r].owner].board)
    /\ Goes(r, "takeover")
    /\ UNCHANGED <<run, worker, seen, attempt, pass, sharedVars, present, removal>>

\* Broken: the lease is released by its path.
ReleasePath(r) ==
    /\ at[r] = "takeover"
    /\ lease' = [lease EXCEPT ![run[r].path] = None]
    /\ seen' = [seen EXCEPT ![r] = NothingSeen]
    /\ Goes(r, "retake")
    /\ UNCHANGED <<run, worker, attempt, pass, slots, boardVars>>

\* Only the lease that was read is released; somebody else's stays.
ReleaseOwner(r) ==
    /\ at[r] = "takeover"
    /\ lease' = [lease EXCEPT ![run[r].path] = IF @ = seen[r].owner THEN None ELSE @]
    /\ seen' = [seen EXCEPT ![r] = NothingSeen]
    /\ Goes(r, "retake")
    /\ UNCHANGED <<run, worker, attempt, pass, slots, boardVars>>

-----------------------------------------------------------------------------
(* A run: its process and its end *)

Finish(r) == run' = [run EXCEPT ![r].status = IF Running(r) THEN "ended" ELSE @,
                                ![r].local = FALSE]

(* A busy slot, a busy path or any error gives the claim back.  A process  *)
(* that could not be recorded is stopped, but descendants may remain.      *)
GiveBack(r) ==
    /\ at[r] \in Waiting \cup Launching
    /\ Finish(r)
    /\ Goes(r, IF at[r] \in Waiting THEN "over" ELSE "leaving")
    /\ \/ UNCHANGED worker
       \/ at[r] = "spawned" /\ worker' = [worker EXCEPT ![r] = "gone"]
    /\ seen' = [seen EXCEPT ![r] = NothingSeen]
    /\ UNCHANGED <<attempt, pass, sharedVars, boardVars>>

\* Nobody looks whether the run is still active before the process starts.
Start(r) ==
    /\ at[r] = "ready"
    /\ worker' = [worker EXCEPT ![r] = "unrecorded"]
    /\ Goes(r, "spawned")
    /\ UNCHANGED <<run, seen, attempt, pass, sharedVars, boardVars>>

\* Broken: the run may have ended.
RecordUnchecked(r) ==
    /\ at[r] = "spawned"
    /\ worker' = [worker EXCEPT ![r] = IF @ = "unrecorded" THEN "live" ELSE @]
    /\ Goes(r, "working")
    /\ UNCHANGED <<run, seen, attempt, pass, sharedVars, boardVars>>

\* The PID is written while the run is active, even if the process has exited.
Record(r) ==
    /\ at[r] = "spawned"
    /\ Running(r)
    /\ worker' = [worker EXCEPT ![r] = IF @ = "unrecorded" THEN "live" ELSE @]
    /\ Goes(r, "working")
    /\ UNCHANGED <<run, seen, attempt, pass, sharedVars, boardVars>>

\* The leader and its descendants are gone.
Exits(r) ==
    /\ worker[r] \in {"unrecorded", "live"}
    /\ worker' = [worker EXCEPT ![r] = "gone"]
    /\ UNCHANGED <<run, at, seen, attempt, pass, sharedVars, boardVars>>

Collect(r) ==
    /\ at[r] = "working"
    /\ \/ ~Live(r) /\ Finish(r)
       \/ Live(r) /\ UNCHANGED run      \* descendants remain
    /\ Goes(r, "leaving")
    /\ UNCHANGED <<worker, seen, attempt, pass, sharedVars, boardVars>>

(* The deferred release of runClaim.  The slot of a run that has not ended, *)
(* whose process may be alive, or whose row is gone, stays.                *)
Release(r) ==
    /\ at[r] = "leaving"
    /\ IF Terminal(r) /\ ~Live(r) THEN ReleaseSlots({r}) ELSE UNCHANGED slots
    /\ Goes(r, "over")
    /\ UNCHANGED <<run, worker, seen, attempt, pass, lease, boardVars>>

(* A maintenance pass recovers a run whose process it did not find; the    *)
(* process may have started by the time it writes.                         *)
Inspect(r) ==
    /\ pass = None
    /\ Running(r) /\ ~Live(r)
    /\ CanOpen(run[r].board)
    /\ Opened(run[r].board)
    /\ pass' = r
    /\ UNCHANGED <<run, at, worker, seen, attempt, sharedVars, present, removal>>

Recover(r) ==
    /\ pass = r
    /\ Finish(r)
    /\ pass' = None
    /\ UNCHANGED <<at, worker, seen, attempt, sharedVars, boardVars>>

\* Deleting a task deletes its runs, none of which may be running.
DeleteRun(r) ==
    /\ Terminal(r)
    /\ CanOpen(run[r].board)
    /\ "local" \notin AfterOpen(run[r].board)
    /\ Opened(run[r].board)
    /\ run' = [run EXCEPT ![r].status = "deleted"]
    /\ UNCHANGED <<at, worker, seen, attempt, pass, sharedVars, present, removal>>

\* The processes of the workers survive the process of the dispatcher.
Crash(r) ==
    /\ Handled(r)
    /\ Goes(r, "over")
    /\ seen' = [seen EXCEPT ![r] = NothingSeen]
    /\ UNCHANGED <<run, worker, attempt, pass, sharedVars, boardVars>>

-----------------------------------------------------------------------------
(* Planners and judges *)

AcquireEphemeral(a, b) ==
    /\ attempt[a].at = "none"
    /\ CanOpen(b)
    /\ Opened(b)
    /\ "coordination" \notin AfterOpen(b)
    /\ \E n \in SlotNumber : /\ IsLowest(n, Free(Unexpired))
                             /\ slots' = [Unexpired EXCEPT ![n] = a]
    /\ attempt' = [attempt EXCEPT ![a] = [at |-> "running", board |-> b]]
    /\ UNCHANGED <<run, at, worker, seen, pass, lease, present, removal>>

EndAttempt(a) ==
    /\ attempt[a].at = "running"
    /\ \/ /\ ReleaseSlots({a})
          /\ attempt' = [attempt EXCEPT ![a].at = "over"]
       \/ /\ UNCHANGED slots
          /\ attempt' = [attempt EXCEPT ![a].at = "crashed"]
    /\ UNCHANGED <<run, at, worker, seen, pass, lease, boardVars>>

Expire(a) ==
    /\ attempt[a].at = "crashed"
    /\ attempt' = [attempt EXCEPT ![a].at = "expired"]
    /\ UNCHANGED <<run, at, worker, seen, pass, sharedVars, boardVars>>

-----------------------------------------------------------------------------
(* Removing a board *)

OwnedBy(b) == {r \in Run : run[r].board = b} \cup {a \in Attempt : attempt[a].board = b}

Advances(b, step) == removal' = [removal EXCEPT ![b] = step]

\* Both locks are taken, and an interrupted removal is recovered.
Remove(b) ==
    /\ CanOpen(b)
    /\ ~Held(b)
    /\ Opened(b)
    /\ Advances(b, IF AfterOpen(b) = {} THEN "clean" ELSE "none")
    /\ UNCHANGED <<runVars, sharedVars, present>>

CleanLeases(b) ==
    LET over == {r \in OwnedBy(b) \cap Run : Terminal(r) /\ ~Live(r)} IN
    /\ removal[b] = "clean"
    /\ ReleaseSlots(over)
    /\ lease' = [p \in Path |-> IF lease[p] \in over THEN None ELSE lease[p]]
    /\ Advances(b, "coordination")
    /\ UNCHANGED <<runVars, guard, present>>

Busy(b, allocation) ==
    \/ \E n \in SlotNumber : allocation[n] \in OwnedBy(b)
    \/ \E p \in Path : lease[p] \in OwnedBy(b)

\* Broken: the guard is installed without looking.
GuardUnchecked(b) ==
    /\ removal[b] = "coordination"
    /\ slots' = Unexpired
    /\ guard' = [guard EXCEPT ![b] = @ \cup {"coordination"}]
    /\ Advances(b, "local")
    /\ UNCHANGED <<runVars, lease, present>>

\* AcquireBoardRemovalGuard: the check and the guard are one transaction.
GuardCoordination(b) ==
    /\ removal[b] = "coordination"
    /\ IF Busy(b, Unexpired)
       THEN /\ Advances(b, "none")
            /\ UNCHANGED <<slots, guard>>
       ELSE /\ slots' = Unexpired
            /\ guard' = [guard EXCEPT ![b] = @ \cup {"coordination"}]
            /\ Advances(b, "local")
    /\ UNCHANGED <<runVars, lease, present>>

Active(b) == {r \in Run : run[r].board = b /\ (Running(r) \/ run[r].local)}

\* The same in the database of the board.
GuardLocal(b) ==
    /\ removal[b] = "local"
    /\ IF Active(b) = {}
       THEN /\ guard' = [guard EXCEPT ![b] = @ \cup {"local"}]
            /\ Advances(b, "count")
       ELSE /\ guard' = [guard EXCEPT ![b] = {}]
            /\ Advances(b, "none")
    /\ UNCHANGED <<runVars, sharedVars, present>>

\* Then the processes of ended runs are counted; with one alive it rolls back.
CountProcesses(b) ==
    /\ removal[b] = "count"
    /\ IF LiveTerminalProcesses(b) = {}
       THEN /\ Advances(b, "move")
            /\ UNCHANGED guard
       ELSE /\ guard' = [guard EXCEPT ![b] = {}]
            /\ Advances(b, "none")
    /\ UNCHANGED <<runVars, sharedVars, present>>

(* The guards are validated and the directory is renamed: the database of  *)
(* the board, its guard and its runs go with it, the tombstone stays.      *)
Move(b) ==
    /\ removal[b] = "move"
    /\ guard[b] = GuardScope
    /\ present' = present \ {b}
    /\ guard' = [guard EXCEPT ![b] = {"coordination"}]
    /\ run' = [r \in Run |-> IF run[r].board = b /\ Terminal(r)
                             THEN [run[r] EXCEPT !.status = "gone"] ELSE run[r]]
    /\ Advances(b, "none")
    /\ UNCHANGED <<at, worker, seen, attempt, pass, sharedVars>>

\* An error rolls back, a crash leaves the guards behind and frees the locks.
RemovalFails(b) ==
    /\ removal[b] \notin {"none", "clean"}
    /\ \/ guard' = [guard EXCEPT ![b] = {}]
       \/ UNCHANGED guard
    /\ Advances(b, "none")
    /\ UNCHANGED <<runVars, sharedVars, present>>

\* A crash before the end leaves the tombstone to the next opening.
Create(b) ==
    /\ b \notin present
    /\ present' = present \cup {b}
    /\ guard' = [guard EXCEPT ![b] = {}] \/ UNCHANGED guard
    /\ UNCHANGED <<runVars, sharedVars, removal>>

-----------------------------------------------------------------------------
Launch(r) ==
    \/ \E b \in Board, p \in Wanted, shared \in Registration : Claim(r, b, p, shared)
    \/ Unshared(r) \/ VerifyWorker(r) \/ AcquireSlot(r) \/ CleanTerminalWorkers(r)
    \/ AcquireLocal(r) \/ AcquireGlobal(r) \/ InspectOwner(r) \/ ReleaseOwner(r)
    \/ GiveBack(r) \/ Start(r) \/ Record(r)

End(r) == Exits(r) \/ Collect(r) \/ Release(r) \/ Crash(r)

Planner(a) == \/ \E b \in Board : AcquireEphemeral(a, b)
              \/ EndAttempt(a) \/ Expire(a)

Remover(b) ==
    \/ CleanLeases(b) \/ GuardCoordination(b) \/ GuardLocal(b) \/ CountProcesses(b)
    \/ Move(b) \/ RemovalFails(b)

CoordNext ==
    \/ \E r \in Run : \/ Launch(r) \/ End(r) \/ DeleteRun(r)
                      \/ Inspect(r) \/ Recover(r)
    \/ \E a \in Attempt : Planner(a)
    \/ \E b \in Board : Open(b)
    \/ \E b \in Removable : Remove(b) \/ Remover(b) \/ Create(b)

CoordSpec == CoordInit /\ [][CoordNext]_coordVars

(* Every dispatcher opens every board again and again; a removal that began *)
(* goes on or fails.  Nothing is assumed of processes.                      *)
CoordFairness ==
    \A b \in Removable : WF_coordVars(Open(b) /\ Opened(b)) /\ WF_coordVars(Remover(b))

FairCoordSpec == CoordSpec /\ CoordFairness

-----------------------------------------------------------------------------
(* Properties *)

CoordTypeOK ==
    /\ run \in [Run -> RunRow]
    /\ at \in [Run -> Phase]
    /\ worker \in [Run -> {"none", "unrecorded", "live", "gone"}]
    /\ seen \in [Run -> [listed : SUBSET Run, owner : Run \cup {None}]]
    /\ attempt \in [Attempt -> AttemptRow]
    /\ pass \in Run \cup {None}
    /\ slots \in [SlotNumber -> Owner \cup {None}]
    /\ lease \in [Path -> Run \cup {None}]
    /\ guard \in [Board -> SUBSET GuardScope]
    /\ present \in SUBSET Board
    /\ removal \in [Board -> Removal]

(* Of a process between its start and the write of its PID only its        *)
(* goroutine knows.  When that one dies first, or the claim is recovered,  *)
(* the process runs on beside everything the shared tables promise.        *)
Accounted(r) == Live(r) \/ (worker[r] = "unrecorded" /\ at[r] = "spawned" /\ Running(r))

\* Who uses the agent at this moment.
Using == {r \in Run : Accounted(r) /\ run[r].registered}
         \cup {a \in Attempt : attempt[a].at = "running"}

(* README.md:368-375, as far as the code carries it: whatever dispatchers, *)
(* planners and judges do, and whichever of them crash, the cap of an      *)
(* agent is not exceeded by its planners, its judges and the processes     *)
(* whose PID is recorded, or about to be by a run that is still active.    *)
CapacityHeld == Cardinality(Using) <= Limit

(* README.md:445-447, as far as the code carries it: two such processes    *)
(* never write to the same directory, not even one left behind by a run    *)
(* that ended or on another board.                                         *)
OneWriter == \A q, r \in Run : /\ Accounted(q) /\ Accounted(r)
                               /\ run[q].path # None /\ run[q].path = run[r].path
                               => q = r

(* README.md:432-437: a board that is gone left no slot and no lease       *)
(* behind, and no process whose PID its database knew: nobody could tell   *)
(* any more whether they are in use.                                       *)
GoneBoardsOwnNothing ==
    /\ \A b \in Board \ present : ~Busy(b, slots)
    /\ \A r \in Run : run[r].status = "gone" => ~Live(r)

(* A removal that crashed between its guards does not lock the board out:  *)
(* it is carried out or its guards are gone again, or a process is left.   *)
RemovalsRecovered ==
    \A b \in Board :
        guard[b] # {} /\ b \in present
           ~> guard[b] = {} \/ b \notin present \/ LiveTerminalProcesses(b) # {}

(* README.md:445-446: the lease on a directory lasts until the run ends.   *)
(* Violated: it stays, and nobody may take it over, when the run is        *)
(* deleted before somebody wants the directory.                            *)
LeasesCanPass ==
    \A p \in Path : lease[p] # None => run[lease[p]].status # "deleted"
=============================================================================
