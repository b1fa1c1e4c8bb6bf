--------------------------- MODULE StorageProofs ----------------------------
(***************************************************************************)
(* Proofs about what processes share behind the task rows: Coordination,   *)
(* for any number of boards, runs and slots; Worktrees, for any tasks,     *)
(* links and writing workers; Console, for any tasks, searches and keys.   *)
(***************************************************************************)
EXTENDS Coordination, Worktrees, Console, FiniteSetTheorems, TLAPS

-----------------------------------------------------------------------------
(* Type correctness *)

LEMMA CoordTypeInit == CoordInit => CoordTypeOK
  BY LimitAssumption DEF CoordInit, CoordTypeOK, RunRow, Phase, AttemptRow, NothingSeen,
     NoSlots, SlotNumber, Owner, GuardScope, Removal

LEMMA FinishTyped ==
  ASSUME CoordTypeOK, NEW r \in Run, Finish(r)
  PROVE  run' \in [Run -> RunRow]
<1>1. run[r] \in RunRow
  BY DEF CoordTypeOK
<1>2. [run[r] EXCEPT !.status = IF Running(r) THEN "ended" ELSE @, !.local = FALSE] \in RunRow
  BY <1>1 DEF RunRow
<1>3. run' = [run EXCEPT ![r] =
                 [run[r] EXCEPT !.status = IF Running(r) THEN "ended" ELSE @, !.local = FALSE]]
  BY DEF Finish, CoordTypeOK
<1> QED BY <1>2, <1>3 DEF CoordTypeOK

\* Actions of a goroutine, of its process and of the pass, grouped by what they write.
LEMMA LaunchTyped ==
  ASSUME CoordTypeOK, NEW r \in Run, Launch(r)
  PROVE  CoordTypeOK'
<1> USE DEF CoordTypeOK, Goes, runVars, sharedVars, boardVars
<1>1. ASSUME NEW b \in Board, NEW p \in Wanted, NEW shared \in Registration,
             Claim(r, b, p, shared)
      PROVE  CoordTypeOK'
  BY <1>1, NamesAssumption DEF Claim, Opened, AfterOpen, RunRow, Phase, Waiting
<1>2. CASE Unshared(r) \/ VerifyWorker(r)
  BY <1>2 DEF Unshared, VerifyWorker, Phase, Waiting, Launching
<1>3. CASE AcquireSlot(r)
  <2>1. Unexpired \in [SlotNumber -> Owner \cup {None}]
    BY DEF Unexpired
  <2>2. slots' \in [SlotNumber -> Owner \cup {None}]
    BY <1>3, <2>1 DEF AcquireSlot, Owner
  <2>3. at' \in [Run -> Phase]
    BY <1>3 DEF AcquireSlot, Phase, Waiting, Launching
  <2>4. seen' \in [Run -> [listed : SUBSET Run, owner : Run \cup {None}]]
    BY <1>3 DEF AcquireSlot
  <2> QED BY <1>3, <2>2, <2>3, <2>4 DEF AcquireSlot
<1>4. CASE CleanTerminalWorkers(r)
  <2>1. slots' \in [SlotNumber -> Owner \cup {None}]
    BY <1>4 DEF CleanTerminalWorkers, ReleaseSlots
  <2>2. guard' \in [Board -> SUBSET GuardScope]
    BY <1>4 DEF CleanTerminalWorkers, AfterOpen
  <2>3. at' \in [Run -> Phase] /\ seen' \in [Run -> [listed : SUBSET Run, owner : Run \cup {None}]]
    BY <1>4 DEF CleanTerminalWorkers, NothingSeen, Phase, Waiting
  <2> QED BY <1>4, <2>1, <2>2, <2>3 DEF CleanTerminalWorkers
<1>5. CASE AcquireLocal(r)
  <2>0. run[r] \in RunRow
    OBVIOUS
  <2>1. [run[r] EXCEPT !.local = TRUE] \in RunRow
    BY <2>0 DEF RunRow
  <2>2. run' = run \/ run' = [run EXCEPT ![r] = [run[r] EXCEPT !.local = TRUE]]
    BY <1>5 DEF AcquireLocal
  <2>4. run' \in [Run -> RunRow]
    BY <2>1, <2>2
  <2>3. at' \in [Run -> Phase]
    BY <1>5 DEF AcquireLocal, Phase, Launching
  <2> QED BY <1>5, <2>4, <2>3 DEF AcquireLocal
<1>6. CASE AcquireGlobal(r)
  <2>1. lease' \in [Path -> Run \cup {None}]
    <3>1. lease' = lease \/ lease' = [lease EXCEPT ![run[r].path] = r]
      BY <1>6 DEF AcquireGlobal
    <3> QED BY <3>1
  <2>2. at' \in [Run -> Phase]
    BY <1>6 DEF AcquireGlobal, Phase, Launching
  <2>3. seen' \in [Run -> [listed : SUBSET Run, owner : Run \cup {None}]]
    <3>1. seen' = seen \/ seen' = [seen EXCEPT ![r].owner = lease[run[r].path]]
      BY <1>6 DEF AcquireGlobal
    <3>2. run[r].path \in Path
      BY <1>6 DEF AcquireGlobal, RunRow
    <3> QED BY <3>1, <3>2
  <2> QED BY <1>6, <2>1, <2>2, <2>3 DEF AcquireGlobal
<1>7. CASE InspectOwner(r)
  BY <1>7 DEF InspectOwner, Opened, AfterOpen, Phase, Launching
<1>8. CASE ReleaseOwner(r)
  BY <1>8 DEF ReleaseOwner, NothingSeen, Phase, Launching
<1>9. CASE GiveBack(r)
  <2>1. run' \in [Run -> RunRow]
    BY <1>9, FinishTyped DEF GiveBack
  <2> QED BY <1>9, <2>1 DEF GiveBack, NothingSeen, Phase
<1>10. CASE Start(r) \/ Record(r)
  BY <1>10 DEF Start, Record, Phase, Launching
<1> QED BY <1>1, <1>2, <1>3, <1>4, <1>5, <1>6, <1>7, <1>8, <1>9, <1>10 DEF Launch

LEMMA EndTyped ==
  ASSUME CoordTypeOK, NEW r \in Run, End(r) \/ DeleteRun(r) \/ Inspect(r) \/ Recover(r)
  PROVE  CoordTypeOK'
<1> USE DEF CoordTypeOK, Goes, runVars, sharedVars, boardVars
<1>1. CASE Exits(r)
  BY <1>1 DEF Exits
<1>2. CASE Collect(r)
  <2>1. run' \in [Run -> RunRow]
    BY <1>2, FinishTyped DEF Collect
  <2> QED BY <1>2, <2>1 DEF Collect, Phase
<1>3. CASE Release(r)
  BY <1>3 DEF Release, ReleaseSlots, Phase
<1>4. CASE Crash(r)
  BY <1>4 DEF Crash, NothingSeen, Phase
<1>5. CASE DeleteRun(r)
  <2>1. run[r] \in RunRow
    OBVIOUS
  <2>2. [run[r] EXCEPT !.status = "deleted"] \in RunRow
    BY <2>1 DEF RunRow
  <2>3. run' = [run EXCEPT ![r] = [run[r] EXCEPT !.status = "deleted"]]
    BY <1>5 DEF DeleteRun
  <2>4. guard' \in [Board -> SUBSET GuardScope]
    BY <1>5 DEF DeleteRun, Opened, AfterOpen
  <2> QED BY <1>5, <2>2, <2>3, <2>4 DEF DeleteRun
<1>6. CASE Inspect(r)
  BY <1>6 DEF Inspect, Opened, AfterOpen
<1>7. CASE Recover(r)
  <2>1. run' \in [Run -> RunRow]
    BY <1>7, FinishTyped DEF Recover
  <2> QED BY <1>7, <2>1 DEF Recover
<1> QED BY <1>1, <1>2, <1>3, <1>4, <1>5, <1>6, <1>7 DEF End

LEMMA PlannerTyped ==
  ASSUME CoordTypeOK, NEW a \in Attempt, Planner(a)
  PROVE  CoordTypeOK'
<1> USE DEF CoordTypeOK, runVars, sharedVars, boardVars
<1>1. ASSUME NEW b \in Board, AcquireEphemeral(a, b)
      PROVE  CoordTypeOK'
  <2>1. Unexpired \in [SlotNumber -> Owner \cup {None}]
    BY DEF Unexpired
  <2>2. slots' \in [SlotNumber -> Owner \cup {None}]
    BY <1>1, <2>1 DEF AcquireEphemeral, Owner
  <2> QED BY <1>1, <2>2 DEF AcquireEphemeral, AttemptRow, Opened, AfterOpen
<1>2. CASE EndAttempt(a)
  BY <1>2 DEF EndAttempt, ReleaseSlots, AttemptRow
<1>3. CASE Expire(a)
  BY <1>3 DEF Expire, AttemptRow
<1> QED BY <1>1, <1>2, <1>3 DEF Planner

LEMMA RemovalTyped ==
  ASSUME CoordTypeOK, NEW b \in Board, Open(b) \/ Remove(b) \/ Remover(b) \/ Create(b)
  PROVE  CoordTypeOK'
<1> USE DEF CoordTypeOK, Advances, runVars, sharedVars, boardVars, Removal
<1>1. CASE Open(b)
  BY <1>1 DEF Open, Opened, AfterOpen
<1>2. CASE Remove(b)
  BY <1>2 DEF Remove, Opened, AfterOpen
<1>3. CASE CleanLeases(b)
  BY <1>3 DEF CleanLeases, ReleaseSlots
<1>4. CASE GuardCoordination(b)
  <2>1. Unexpired \in [SlotNumber -> Owner \cup {None}]
    BY DEF Unexpired
  <2> QED BY <1>4, <2>1 DEF GuardCoordination, GuardScope
<1>5. CASE GuardLocal(b)
  BY <1>5 DEF GuardLocal, GuardScope
<1>9. CASE CountProcesses(b)
  BY <1>9 DEF CountProcesses
<1>6. CASE Move(b)
  <2>1. ASSUME NEW r \in Run PROVE run'[r] \in RunRow
    <3>1. run[r] \in RunRow
      OBVIOUS
    <3>3. [run[r] EXCEPT !.status = "gone"] \in RunRow
      BY <3>1 DEF RunRow
    <3>2. run'[r] \in {run[r], [run[r] EXCEPT !.status = "gone"]}
      BY <1>6 DEF Move
    <3> QED BY <3>1, <3>2, <3>3
  <2>2. run' \in [Run -> RunRow]
    BY <1>6, <2>1 DEF Move
  <2> QED BY <1>6, <2>2 DEF Move, GuardScope
<1>7. CASE RemovalFails(b)
  BY <1>7 DEF RemovalFails
<1>8. CASE Create(b)
  BY <1>8 DEF Create
<1> QED BY <1>1, <1>2, <1>3, <1>4, <1>5, <1>6, <1>7, <1>8, <1>9 DEF Remover

LEMMA CoordTypeStep == CoordTypeOK /\ [CoordNext]_coordVars => CoordTypeOK'
<1> SUFFICES ASSUME CoordTypeOK, [CoordNext]_coordVars PROVE CoordTypeOK'
  OBVIOUS
<1>1. CASE UNCHANGED coordVars
  BY <1>1 DEF CoordTypeOK, coordVars, runVars, sharedVars, boardVars
<1>2. CASE CoordNext
  BY <1>2, LaunchTyped, EndTyped, PlannerTyped, RemovalTyped, NamesAssumption DEF CoordNext
<1> QED BY <1>1, <1>2

(* Every reachable state of the two databases, of the goroutines and of    *)
(* the removals has its type.                                              *)
THEOREM CoordTypeCorrect == CoordSpec => []CoordTypeOK
  BY CoordTypeInit, CoordTypeStep, PTL DEF CoordSpec
-----------------------------------------------------------------------------
(* The invariants behind the safety properties *)

HasSlot(u) == \E n \in SlotNumber : slots[n] = u

\* A process belongs to a goroutine that has passed its launch.
LaunchOK == \A r \in Run :
    /\ run[r].status = "unused" => at[r] = "none" /\ run[r].board = None
    /\ Live(r) => at[r] \in {"working", "leaving", "over"}

\* Who uses the agent, or is about to, has a slot.
SlotOK ==
    /\ \A r \in Run : /\ run[r].registered
                      /\ Live(r) \/ (Running(r) /\ at[r] \in Launching)
                      => HasSlot(r)
    /\ \A a \in Attempt : attempt[a].at = "running" => HasSlot(a)

\* What a goroutine that takes a lease over knows of its owner.
TakeoverOK == \A r \in Run :
    /\ at[r] \in {"leased", "busy", "takeover", "retake"} => run[r].path \in Path
    /\ at[r] \in {"busy", "takeover"} => seen[r].owner \in Run
    /\ at[r] = "takeover" => /\ run[seen[r].owner].status \in {"ended", "deleted", "gone"}
                             /\ ~Live(seen[r].owner)

Starting == {"ready", "spawned"}

\* Who writes to a directory, or is about to, has its lease.
LeaseOK == \A r \in Run :
    /\ run[r].path # None
    /\ Live(r) \/ (Running(r) /\ at[r] \in Starting)
    => lease[run[r].path] = r

\* Nobody is in a board that is locked or gone, and once it has been looked
\* at nothing is left in it.
LockOK == \A b \in Board :
    /\ removal[b] # "none" => b \in present
    /\ removal[b] # "none" \/ b \notin present => ~Held(b)
    /\ removal[b] \in {"local", "count", "move"} \/ b \notin present => ~Busy(b, slots)
    /\ removal[b] \in {"count", "move"} => \A r \in Run : run[r].board = b => ~Running(r)
    /\ removal[b] = "move" => \A r \in Run : run[r].board = b /\ Terminal(r) => ~Live(r)

GoneOK == \A r \in Run : run[r].status = "gone" => ~Live(r)

CoordInv == CoordTypeOK /\ LaunchOK /\ SlotOK /\ TakeoverOK /\ LeaseOK /\ LockOK /\ GoneOK

LEMMA CoordInvInit == CoordInit => CoordInv
<1> SUFFICES ASSUME CoordInit PROVE CoordInv
  OBVIOUS
<1>1. CoordTypeOK
  BY CoordTypeInit
<1>2. LaunchOK /\ SlotOK /\ TakeoverOK /\ LeaseOK /\ GoneOK
  BY NamesAssumption DEF CoordInit, LaunchOK, SlotOK, TakeoverOK, LeaseOK, GoneOK, Live, Running,
     Launching
<1>3. LockOK
  BY NamesAssumption DEF CoordInit, LockOK
<1> QED BY <1>1, <1>2, <1>3 DEF CoordInv

\* What an end changes in the rows.
LEMMA FinishChanges ==
  ASSUME CoordTypeOK, NEW r \in Run, Finish(r), NEW q \in Run
  PROVE  /\ run'[q].board = run[q].board
         /\ run'[q].path = run[q].path
         /\ run'[q].registered = run[q].registered
         /\ run'[q].status = IF q = r /\ Running(r) THEN "ended" ELSE run[q].status
<1>1. run[r] \in RunRow
  BY DEF CoordTypeOK
<1>2. run' = [run EXCEPT ![r] =
                 [run[r] EXCEPT !.status = IF Running(r) THEN "ended" ELSE @, !.local = FALSE]]
  BY DEF Finish, CoordTypeOK
<1> QED BY <1>1, <1>2 DEF CoordTypeOK, RunRow

-----------------------------------------------------------------------------
(* A process belongs to a goroutine that has passed its launch *)

LEMMA LaunchStep ==
  ASSUME CoordTypeOK, LaunchOK, CoordNext
  PROVE  LaunchOK'
<1> USE DEF CoordTypeOK, LaunchOK, Goes, Live, runVars, sharedVars, boardVars
<1>1. ASSUME NEW r \in Run, Launch(r)
      PROVE  LaunchOK'
  <2>1. CASE \E b \in Board, p \in Wanted, shared \in Registration : Claim(r, b, p, shared)
    BY <2>1 DEF Claim
  <2>2. CASE GiveBack(r)
    BY <2>2, FinishChanges DEF GiveBack, Waiting, Launching
  <2>3. CASE Start(r) \/ Record(r)
    BY <2>3 DEF Start, Record, Running
  <2>4. CASE AcquireLocal(r)
    BY <2>4 DEF AcquireLocal, RunRow
  <2>5. CASE Unshared(r) \/ VerifyWorker(r) \/ AcquireSlot(r) \/ CleanTerminalWorkers(r)
    BY <2>5 DEF Unshared, VerifyWorker, AcquireSlot, CleanTerminalWorkers
  <2>6. CASE AcquireGlobal(r) \/ InspectOwner(r) \/ ReleaseOwner(r)
    BY <2>6 DEF AcquireGlobal, InspectOwner, ReleaseOwner
  <2> QED BY <1>1, <2>1, <2>2, <2>3, <2>4, <2>5, <2>6 DEF Launch
<1>2. ASSUME NEW r \in Run, End(r)
      PROVE  LaunchOK'
  <2>1. CASE Exits(r)
    BY <2>1 DEF Exits
  <2>2. CASE Collect(r)
    BY <2>2, FinishChanges DEF Collect
  <2>3. CASE Release(r) \/ Crash(r)
    BY <2>3 DEF Release, Crash, Handled
  <2> QED BY <1>2, <2>1, <2>2, <2>3 DEF End
<1>3. ASSUME NEW r \in Run, DeleteRun(r) \/ Inspect(r) \/ Recover(r)
      PROVE  LaunchOK'
  <2>1. CASE DeleteRun(r) \/ Inspect(r)
    BY <2>1 DEF DeleteRun, Inspect, Terminal, RunRow
  <2>2. CASE Recover(r)
    BY <2>2, FinishChanges DEF Recover
  <2> QED BY <1>3, <2>1, <2>2
<1>4. ASSUME NEW a \in Attempt, Planner(a)
      PROVE  LaunchOK'
  BY <1>4 DEF Planner, AcquireEphemeral, EndAttempt, Expire
<1>5. ASSUME NEW b \in Board, Open(b) \/ Remove(b) \/ Remover(b) \/ Create(b)
      PROVE  LaunchOK'
  BY <1>5 DEF Open, Remove, Remover, CleanLeases, GuardCoordination, GuardLocal, CountProcesses, Move,
     RemovalFails, Create, RunRow
<1> QED BY <1>1, <1>2, <1>3, <1>4, <1>5, NamesAssumption DEF CoordNext

-----------------------------------------------------------------------------
(* The slots *)

\* The expired attempts lose their slots, nobody else does.
LEMMA UnexpiredKeeps ==
  ASSUME CoordTypeOK, NEW u \in Owner,
         u \in Attempt => attempt[u].at # "expired", HasSlot(u)
  PROVE  \E n \in SlotNumber : Unexpired[n] = u
  BY NamesAssumption DEF HasSlot, Unexpired, CoordTypeOK, Owner

\* A free number is given to one more owner.
LEMMA TakenKeeps ==
  ASSUME CoordTypeOK, NEW o \in Owner, NEW n \in SlotNumber,
         Unexpired[n] = None, slots' = [Unexpired EXCEPT ![n] = o]
  PROVE  /\ HasSlot(o)'
         /\ \A u \in Owner : /\ u \in Attempt => attempt[u].at # "expired"
                             /\ HasSlot(u)
                             => HasSlot(u)'
<1>1. slots'[n] = o
  BY DEF Unexpired
<1>2. ASSUME NEW u \in Owner, u \in Attempt => attempt[u].at # "expired", HasSlot(u)
      PROVE  HasSlot(u)'
  <2>1. PICK m \in SlotNumber : Unexpired[m] = u
    BY <1>2, UnexpiredKeeps
  <2>2. m # n
    BY <2>1, NamesAssumption DEF Owner
  <2> QED BY <2>1, <2>2 DEF HasSlot, Unexpired
<1> QED BY <1>1, <1>2 DEF HasSlot

LEMMA ReleaseKeeps ==
  ASSUME NEW released, ReleaseSlots(released), NEW u, u \notin released, HasSlot(u)
  PROVE  HasSlot(u)'
  BY DEF HasSlot, ReleaseSlots

LEMMA SlotStep ==
  ASSUME CoordTypeOK, LaunchOK, SlotOK, CoordNext
  PROVE  SlotOK'
<1> USE DEF CoordTypeOK, SlotOK, Goes, Live, Running, runVars, sharedVars, boardVars
<1>1. ASSUME NEW r \in Run, Launch(r)
      PROVE  SlotOK'
  <2>1. CASE \E b \in Board, p \in Wanted, shared \in Registration : Claim(r, b, p, shared)
    BY <2>1 DEF Claim, LaunchOK, Launching, HasSlot
  <2>2. CASE GiveBack(r)
    BY <2>2, FinishChanges DEF GiveBack, Launching, HasSlot
  <2>3. CASE Start(r)
    BY <2>3 DEF Start, Launching, HasSlot
  <2>9. CASE Record(r)
    BY <2>9 DEF Record, Launching, HasSlot
  <2>4. CASE AcquireLocal(r)
    <3>1. \A q \in Run : /\ run'[q].registered = run[q].registered
                         /\ run'[q].status = run[q].status
      BY <2>4 DEF AcquireLocal, RunRow
    <3>2. at[r] \in Launching /\ \A q \in Run \ {r} : at'[q] = at[q]
      BY <2>4 DEF AcquireLocal, Launching
    <3> QED BY <2>4, <3>1, <3>2 DEF AcquireLocal, HasSlot
  <2>5. CASE Unshared(r) \/ VerifyWorker(r)
    BY <2>5 DEF Unshared, VerifyWorker, Launching, HasSlot
  <2>6. CASE AcquireGlobal(r) \/ InspectOwner(r) \/ ReleaseOwner(r)
    BY <2>6 DEF AcquireGlobal, InspectOwner, ReleaseOwner, Launching, HasSlot
  <2>7. CASE AcquireSlot(r)
    <3>3. /\ run' = run /\ worker' = worker /\ attempt' = attempt
          /\ \A q \in Run \ {r} : at'[q] = at[q]
      BY <2>7 DEF AcquireSlot
    <3>4. /\ at[r] \in {"verified", "cleaned"}
          /\ \A a \in Attempt : attempt[a].at = "running" => attempt[a].at # "expired"
      BY <2>7 DEF AcquireSlot
    <3>5. Live(r) => FALSE
      BY <3>4 DEF LaunchOK
    <3>1. CASE Free(Unexpired) = {} /\ at'[r] = "full" /\ slots' = Unexpired
      <4>1. \A u \in Owner : (u \in Attempt => attempt[u].at # "expired") /\ HasSlot(u)
                             => HasSlot(u)'
        BY <3>1, UnexpiredKeeps DEF HasSlot
      <4>2. \A q \in Run : HasSlot(q) => HasSlot(q)'
        BY <4>1, NamesAssumption DEF Owner
      <4>3. \A a \in Attempt : attempt[a].at = "running" => HasSlot(a)'
        BY <4>1, <3>4 DEF Owner
      <4> QED BY <3>1, <3>3, <3>5, <4>2, <4>3 DEF Launching
    <3>2. ASSUME NEW n \in SlotNumber, Unexpired[n] = None, slots' = [Unexpired EXCEPT ![n] = r]
          PROVE  SlotOK'
      <4>1. HasSlot(r)' /\ \A u \in Owner : (u \in Attempt => attempt[u].at # "expired")
                                            /\ HasSlot(u) => HasSlot(u)'
        BY <3>2, TakenKeeps DEF Owner
      <4>2. \A q \in Run : HasSlot(q) => HasSlot(q)'
        BY <4>1, NamesAssumption DEF Owner
      <4>3. \A a \in Attempt : attempt[a].at = "running" => HasSlot(a)'
        BY <4>1, <3>4 DEF Owner
      <4> QED BY <3>3, <4>1, <4>2, <4>3
    <3> QED BY <2>7, <3>1, <3>2 DEF AcquireSlot, IsLowest, Free
  <2>8. CASE CleanTerminalWorkers(r)
    <3>1. PICK over \in SUBSET Run : ReleaseSlots(over) /\ \A q \in over : Over(q)
      BY <2>8 DEF CleanTerminalWorkers
    <3>2. \A u \in Owner \ over : HasSlot(u) => HasSlot(u)'
      BY <3>1, ReleaseKeeps
    <3> QED BY <2>8, <3>1, <3>2, NamesAssumption
            DEF CleanTerminalWorkers, Over, Terminal, Launching, Owner
  <2> QED BY <1>1, <2>1, <2>2, <2>3, <2>4, <2>5, <2>6, <2>7, <2>8, <2>9 DEF Launch
<1>2. ASSUME NEW r \in Run, End(r)
      PROVE  SlotOK'
  <2>1. CASE Exits(r)
    BY <2>1 DEF Exits, HasSlot
  <2>2. CASE Collect(r)
    BY <2>2, FinishChanges DEF Collect, HasSlot, Launching
  <2>3. CASE Crash(r)
    BY <2>3 DEF Crash, HasSlot, Launching
  <2>4. CASE Release(r)
    <3>1. \A u \in Owner : u # r \/ Live(r) \/ Running(r) => (HasSlot(u) => HasSlot(u)')
      <4>1. CASE Terminal(r) /\ ~Live(r)
        BY <2>4, <4>1, ReleaseKeeps DEF Release, Terminal
      <4>2. CASE ~(Terminal(r) /\ ~Live(r))
        BY <2>4, <4>2 DEF Release, HasSlot
      <4> QED BY <4>1, <4>2
    <3> QED BY <2>4, <3>1, NamesAssumption DEF Release, Owner, Launching
  <2> QED BY <1>2, <2>1, <2>2, <2>3, <2>4 DEF End
<1>3. ASSUME NEW r \in Run, DeleteRun(r) \/ Inspect(r) \/ Recover(r)
      PROVE  SlotOK'
  <2>1. CASE DeleteRun(r)
    <3>1. \A q \in Run : /\ run'[q].registered = run[q].registered
                         /\ run'[q].status = "running" => run[q].status = "running"
      BY <2>1 DEF DeleteRun, RunRow
    <3> QED BY <2>1, <3>1 DEF DeleteRun, HasSlot
  <2>3. CASE Inspect(r)
    BY <2>3 DEF Inspect, HasSlot
  <2>2. CASE Recover(r)
    BY <2>2, FinishChanges DEF Recover, HasSlot
  <2> QED BY <1>3, <2>1, <2>2, <2>3
<1>4. ASSUME NEW a \in Attempt, Planner(a)
      PROVE  SlotOK'
  <2>1. ASSUME NEW b \in Board, AcquireEphemeral(a, b)
        PROVE  SlotOK'
    <3>1. PICK n \in SlotNumber : Unexpired[n] = None /\ slots' = [Unexpired EXCEPT ![n] = a]
      BY <2>1 DEF AcquireEphemeral, IsLowest, Free
    <3>2. HasSlot(a)' /\ \A u \in Owner : (u \in Attempt => attempt[u].at # "expired")
                                          /\ HasSlot(u) => HasSlot(u)'
      BY <3>1, TakenKeeps DEF Owner
    <3> QED BY <2>1, <3>2, NamesAssumption DEF AcquireEphemeral, Owner
  <2>2. CASE EndAttempt(a)
    <3>1. \A u \in Owner \ {a} : HasSlot(u) => HasSlot(u)'
      BY <2>2, ReleaseKeeps DEF EndAttempt, HasSlot
    <3> QED BY <2>2, <3>1, NamesAssumption DEF EndAttempt, Owner, AttemptRow
  <2>3. CASE Expire(a)
    BY <2>3 DEF Expire, AttemptRow, HasSlot
  <2> QED BY <1>4, <2>1, <2>2, <2>3 DEF Planner
<1>5. ASSUME NEW b \in Board, Open(b) \/ Remove(b) \/ Remover(b) \/ Create(b)
      PROVE  SlotOK'
  <2>1. CASE CleanLeases(b)
    <3>1. PICK over \in SUBSET Run :
             ReleaseSlots(over) /\ \A q \in over : Terminal(q) /\ ~Live(q)
      BY <2>1 DEF CleanLeases
    <3>2. \A u \in Owner \ over : HasSlot(u) => HasSlot(u)'
      BY <3>1, ReleaseKeeps
    <3> QED BY <2>1, <3>1, <3>2, NamesAssumption DEF CleanLeases, Terminal, Owner
  <2>2. CASE GuardCoordination(b)
    <3>1. \A u \in Owner : (u \in Attempt => attempt[u].at # "expired") /\ HasSlot(u)
                           => HasSlot(u)'
      BY <2>2, UnexpiredKeeps DEF GuardCoordination, HasSlot
    <3>2. \A q \in Run : HasSlot(q) => HasSlot(q)'
      BY <3>1, NamesAssumption DEF Owner
    <3>3. \A a \in Attempt : attempt[a].at = "running" => HasSlot(a)'
      BY <3>1 DEF Owner
    <3> QED BY <2>2, <3>2, <3>3 DEF GuardCoordination
  <2>3. CASE Move(b)
    BY <2>3 DEF Move, RunRow, HasSlot
  <2>4. CASE Open(b) \/ Remove(b) \/ GuardLocal(b) \/ CountProcesses(b) \/ RemovalFails(b) \/ Create(b)
    BY <2>4 DEF Open, Remove, GuardLocal, CountProcesses, RemovalFails, Create, HasSlot
  <2> QED BY <1>5, <2>1, <2>2, <2>3, <2>4 DEF Remover
<1> QED BY <1>1, <1>2, <1>3, <1>4, <1>5, NamesAssumption DEF CoordNext

-----------------------------------------------------------------------------
(* The leases *)

\* After its claim a row only loses its status.
RowMoves(q) ==
    /\ run'[q].board = run[q].board
    /\ run'[q].path = run[q].path
    /\ run'[q].registered = run[q].registered
    /\ \/ run'[q].status = run[q].status
       \/ run[q].status = "running" /\ run'[q].status = "ended"
       \/ run[q].status = "ended" /\ run'[q].status \in {"deleted", "gone"}

LEMMA RowsMove ==
  ASSUME CoordTypeOK, CoordNext,
         NEW q \in Run, run[q].status # "unused"
  PROVE  RowMoves(q)
<1> USE DEF CoordTypeOK, RowMoves, runVars, sharedVars, boardVars
<1>1. ASSUME NEW r \in Run, Finish(r)
      PROVE  RowMoves(q)
  BY <1>1, FinishChanges DEF Running
<1>2. ASSUME NEW r \in Run, AcquireLocal(r)
      PROVE  RowMoves(q)
  BY <1>2 DEF AcquireLocal, RunRow
<1>3. ASSUME NEW r \in Run, DeleteRun(r)
      PROVE  RowMoves(q)
  BY <1>3 DEF DeleteRun, Terminal, RunRow
<1>4. ASSUME NEW b \in Board, Move(b)
      PROVE  RowMoves(q)
  BY <1>4 DEF Move, Terminal, RunRow
<1>5. ASSUME NEW r \in Run, Launch(r)
      PROVE  RowMoves(q)
  BY <1>1, <1>2, <1>5
     DEF Launch, Claim, Unshared, VerifyWorker, AcquireSlot, CleanTerminalWorkers, AcquireGlobal,
         InspectOwner, ReleaseOwner, GiveBack, Start, Record
<1>6. ASSUME NEW r \in Run, End(r)
      PROVE  RowMoves(q)
  BY <1>1, <1>6 DEF End, Exits, Collect, Release, Crash
<1>7. ASSUME NEW r \in Run, Inspect(r) \/ Recover(r)
      PROVE  RowMoves(q)
  BY <1>1, <1>7 DEF Inspect, Recover
<1>8. ASSUME NEW a \in Attempt, Planner(a)
      PROVE  RowMoves(q)
  BY <1>8 DEF Planner, AcquireEphemeral, EndAttempt, Expire
<1>9. ASSUME NEW b \in Board, Open(b) \/ Remove(b) \/ Remover(b) \/ Create(b)
      PROVE  RowMoves(q)
  BY <1>4, <1>9 DEF Open, Remove, Remover, CleanLeases, GuardCoordination, GuardLocal, CountProcesses,
     RemovalFails, Create
<1> QED BY <1>3, <1>5, <1>6, <1>7, <1>8, <1>9, NamesAssumption DEF CoordNext

\* A process becomes known only while its run is active.
LEMMA ProcessesStart ==
  ASSUME CoordTypeOK, CoordNext,
         NEW q \in Run, Live(q)', ~Live(q)
  PROVE  /\ Running(q) /\ at[q] = "spawned"
         /\ lease' = lease
<1> USE DEF CoordTypeOK, Live, runVars, sharedVars, boardVars
<1>1. ASSUME NEW r \in Run, Launch(r)
      PROVE  Running(q) /\ at[q] = "spawned" /\ lease' = lease
  BY <1>1 DEF Launch, Claim, Unshared, VerifyWorker, AcquireSlot, CleanTerminalWorkers,
     AcquireLocal, AcquireGlobal, InspectOwner, ReleaseOwner, GiveBack, Start, Record
<1>2. ASSUME NEW r \in Run, End(r)
      PROVE  FALSE
  BY <1>2 DEF End, Exits, Collect, Release, Crash
<1>3. ASSUME NEW r \in Run, DeleteRun(r) \/ Inspect(r) \/ Recover(r)
      PROVE  FALSE
  BY <1>3 DEF DeleteRun, Inspect, Recover
<1>4. ASSUME NEW a \in Attempt, Planner(a)
      PROVE  FALSE
  BY <1>4 DEF Planner, AcquireEphemeral, EndAttempt, Expire
<1>5. ASSUME NEW b \in Board, Open(b) \/ Remove(b) \/ Remover(b) \/ Create(b)
      PROVE  FALSE
  BY <1>5 DEF Open, Remove, Remover, CleanLeases, GuardCoordination, GuardLocal, CountProcesses, Move,
     RemovalFails, Create
<1> QED BY <1>1, <1>2, <1>3, <1>4, <1>5, NamesAssumption DEF CoordNext

\* Once a run is over it stays over, and its process does not come back.
LEMMA OverStays ==
  ASSUME CoordTypeOK, CoordNext, NEW q \in Run,
         run[q].status \in {"ended", "deleted", "gone"}, ~Live(q)
  PROVE  run'[q].status \in {"ended", "deleted", "gone"} /\ ~Live(q)'
  BY RowsMove, ProcessesStart DEF RowMoves, Running

LEMMA TakeoverStep ==
  ASSUME CoordTypeOK, LaunchOK, TakeoverOK, CoordNext
  PROVE  TakeoverOK'
<1> DEFINE Takes(q) ==
       /\ at[q] \in {"leased", "busy", "takeover", "retake"} => run[q].path \in Path
       /\ at[q] \in {"busy", "takeover"} => seen[q].owner \in Run
       /\ at[q] = "takeover" => /\ run[seen[q].owner].status \in {"ended", "deleted", "gone"}
                                /\ ~Live(seen[q].owner)
<1> SUFFICES ASSUME NEW q \in Run PROVE Takes(q)'
  BY DEF TakeoverOK
<1>1. Takes(q) /\ (at[q] # "none" => run[q].status # "unused")
  BY DEF TakeoverOK, LaunchOK
<1>2. CASE at'[q] = at[q] /\ seen'[q] = seen[q]
  BY <1>1, <1>2, RowsMove, OverStays DEF RowMoves
<1>3. ASSUME at'[q] # at[q] \/ seen'[q] # seen[q]
      PROVE  /\ at'[q] \in {"leased", "busy", "takeover", "retake"} => run'[q].path \in Path
             /\ at'[q] \in {"busy", "takeover"} => seen'[q].owner \in Run
             /\ at'[q] = "takeover" =>
                   /\ run[seen'[q].owner].status \in {"ended", "deleted", "gone"}
                   /\ ~Live(seen'[q].owner)
  <2> USE DEF CoordTypeOK, Goes, runVars, sharedVars, boardVars
  <2>1. ASSUME NEW r \in Run, Launch(r)
        PROVE  r = q
    BY <1>3, <2>1 DEF Launch, Claim, Unshared, VerifyWorker, AcquireSlot, CleanTerminalWorkers,
       AcquireLocal, AcquireGlobal, InspectOwner, ReleaseOwner, GiveBack, Start, Record
  <2>2. CASE Launch(q)
    <3>1. CASE AcquireLocal(q)
      BY <3>1 DEF AcquireLocal, RunRow
    <3>2. CASE AcquireGlobal(q)
      BY <3>2, <1>1 DEF AcquireGlobal, RunRow
    <3>3. CASE InspectOwner(q)
      BY <3>3, <1>1 DEF InspectOwner, Over, Terminal
    <3>4. CASE ReleaseOwner(q)
      BY <3>4, <1>1 DEF ReleaseOwner
    <3>5. CASE \/ \E b \in Board, p \in Wanted, shared \in Registration : Claim(q, b, p, shared)
               \/ Unshared(q) \/ VerifyWorker(q) \/ AcquireSlot(q) \/ CleanTerminalWorkers(q)
               \/ GiveBack(q) \/ Start(q) \/ Record(q)
      BY <3>5 DEF Claim, Unshared, VerifyWorker, AcquireSlot, CleanTerminalWorkers, GiveBack, Start, Record
    <3> QED BY <2>2, <3>1, <3>2, <3>3, <3>4, <3>5 DEF Launch
  <2>3. ASSUME NEW r \in Run, End(r)
        PROVE  at'[q] \in {"leaving", "over"}
    BY <1>3, <2>3 DEF End, Exits, Collect, Release, Crash
  <2>4. ASSUME NEW r \in Run, DeleteRun(r) \/ Inspect(r) \/ Recover(r)
        PROVE  FALSE
    BY <1>3, <2>4 DEF DeleteRun, Inspect, Recover
  <2>5. ASSUME NEW a \in Attempt, Planner(a)
        PROVE  FALSE
    BY <1>3, <2>5 DEF Planner, AcquireEphemeral, EndAttempt, Expire
  <2>6. ASSUME NEW b \in Board, Open(b) \/ Remove(b) \/ Remover(b) \/ Create(b)
        PROVE  FALSE
    BY <1>3, <2>6 DEF Open, Remove, Remover, CleanLeases, GuardCoordination, GuardLocal, CountProcesses, Move,
       RemovalFails, Create
  <2> QED BY <2>1, <2>2, <2>3, <2>4, <2>5, <2>6, NamesAssumption DEF CoordNext
<1>4. CASE at'[q] # at[q] \/ seen'[q] # seen[q]
  BY <1>3, <1>4, OverStays
<1> QED BY <1>2, <1>4

\* A lease is taken when it is free, and released when its owner is over.
LEMMA LeasesMove ==
  ASSUME CoordTypeOK, TakeoverOK, CoordNext,
         NEW p \in Path, lease'[p] # lease[p]
  PROVE  \/ lease[p] = None
         \/ /\ lease[p] \in Run
            /\ run[lease[p]].status \in {"ended", "deleted", "gone"} /\ ~Live(lease[p])
<1> USE DEF CoordTypeOK, runVars, sharedVars, boardVars
<1> DEFINE Passes == \/ lease[p] = None
                     \/ /\ lease[p] \in Run
                        /\ run[lease[p]].status \in {"ended", "deleted", "gone"}
                        /\ ~Live(lease[p])
<1>1. ASSUME NEW r \in Run, AcquireGlobal(r) PROVE Passes
  BY <1>1 DEF AcquireGlobal
<1>2. ASSUME NEW r \in Run, ReleaseOwner(r) PROVE Passes
  BY <1>2 DEF ReleaseOwner, TakeoverOK
<1>3. ASSUME NEW b \in Board, CleanLeases(b) PROVE Passes
  BY <1>3 DEF CleanLeases, Terminal
<1>4. ASSUME NEW r \in Run, Launch(r) PROVE Passes
  BY <1>1, <1>2, <1>4 DEF Launch, Claim, Unshared, VerifyWorker, AcquireSlot,
     CleanTerminalWorkers, AcquireLocal, InspectOwner, GiveBack, Start, Record
<1>5. ASSUME NEW r \in Run, End(r) PROVE Passes
  BY <1>5 DEF End, Exits, Collect, Release, Crash
<1>6. ASSUME NEW r \in Run, DeleteRun(r) \/ Inspect(r) \/ Recover(r) PROVE Passes
  BY <1>6 DEF DeleteRun, Inspect, Recover
<1>7. ASSUME NEW a \in Attempt, Planner(a) PROVE Passes
  BY <1>7 DEF Planner, AcquireEphemeral, EndAttempt, Expire
<1>8. ASSUME NEW b \in Board, Open(b) \/ Remove(b) \/ Remover(b) \/ Create(b) PROVE Passes
  BY <1>3, <1>8 DEF Open, Remove, Remover, GuardCoordination, GuardLocal, CountProcesses, Move,
     RemovalFails, Create
<1> QED BY <1>4, <1>5, <1>6, <1>7, <1>8, NamesAssumption DEF CoordNext

\* Who gets ready has its lease, and was running before.
LEMMA GetsReady ==
  ASSUME CoordTypeOK, CoordNext,
         NEW q \in Run, at'[q] \in Starting, at[q] \notin Starting
  PROVE  /\ run'[q].path = run[q].path
         /\ run[q].path # None => lease'[run[q].path] = q
<1> USE DEF CoordTypeOK, Starting, Goes, runVars, sharedVars, boardVars
<1>1. ASSUME NEW r \in Run, Launch(r)
      PROVE  r = q /\ (AcquireLocal(q) \/ AcquireGlobal(q))
  BY <1>1 DEF Launch, Claim, Unshared, VerifyWorker, AcquireSlot, CleanTerminalWorkers,
     AcquireLocal, AcquireGlobal, InspectOwner, ReleaseOwner, GiveBack, Start, Record
<1>2. CASE AcquireLocal(q)
  BY <1>2 DEF AcquireLocal, RunRow
<1>3. CASE AcquireGlobal(q)
  BY <1>3 DEF AcquireGlobal, RunRow
<1>4. ASSUME NEW r \in Run, End(r) PROVE FALSE
  BY <1>4 DEF End, Exits, Collect, Release, Crash
<1>5. ASSUME NEW r \in Run, DeleteRun(r) \/ Inspect(r) \/ Recover(r) PROVE FALSE
  BY <1>5 DEF DeleteRun, Inspect, Recover
<1>6. ASSUME NEW a \in Attempt, Planner(a) PROVE FALSE
  BY <1>6 DEF Planner, AcquireEphemeral, EndAttempt, Expire
<1>7. ASSUME NEW b \in Board, Open(b) \/ Remove(b) \/ Remover(b) \/ Create(b) PROVE FALSE
  BY <1>7 DEF Open, Remove, Remover, CleanLeases, GuardCoordination, GuardLocal, CountProcesses, Move,
     RemovalFails, Create
<1> QED BY <1>1, <1>2, <1>3, <1>4, <1>5, <1>6, <1>7, NamesAssumption DEF CoordNext

LEMMA LeaseStep ==
  ASSUME CoordTypeOK, LaunchOK, TakeoverOK, LeaseOK, CoordNext
  PROVE  LeaseOK'
<1> SUFFICES ASSUME NEW q \in Run, run'[q].path # None,
                    Live(q)' \/ (Running(q)' /\ at'[q] \in Starting)
             PROVE  lease'[run'[q].path] = q
  BY DEF LeaseOK
<1>1. CASE at'[q] \in Starting /\ at[q] \notin Starting
  BY <1>1, GetsReady
<1>2. CASE ~(at'[q] \in Starting /\ at[q] \notin Starting)
  <2>1. Live(q) \/ (Running(q) /\ at[q] \in Starting)
    BY <1>2, RowsMove, ProcessesStart DEF RowMoves, Running, LaunchOK, Starting
  <2>2. run'[q].path = run[q].path /\ run[q].path \in Path
    <3>1. run[q].status # "unused"
      BY <2>1 DEF LaunchOK, Running
    <3>2. run[q] \in RunRow
      BY DEF CoordTypeOK
    <3> QED BY <3>1, <3>2, RowsMove DEF RowMoves, RunRow
  <2>3. lease[run[q].path] = q
    BY <2>1, <2>2, NamesAssumption DEF LeaseOK
  <2>4. q # None
    BY NamesAssumption
  <2> QED BY <2>1, <2>2, <2>3, <2>4, LeasesMove, NamesAssumption DEF Running
<1> QED BY <1>1, <1>2

-----------------------------------------------------------------------------
(* The removal of a board *)

\* Nobody is in a board that cannot be opened.
LockHeld(b) ==
    /\ removal[b] # "none" => b \in present
    /\ removal[b] # "none" \/ b \notin present => ~Held(b)

LEMMA LocksHold ==
  ASSUME CoordTypeOK, LaunchOK, CoordNext,
         NEW b \in Board, LockHeld(b)
  PROVE  LockHeld(b)'
<1> USE DEF CoordTypeOK, LaunchOK, LockHeld, Held, CanOpen, Handled, Goes, Opened, Advances,
            runVars, sharedVars, boardVars
<1>1. ASSUME NEW r \in Run, Launch(r)
      PROVE  LockHeld(b)'
  <2>1. ASSUME NEW c \in Board, NEW p \in Wanted, NEW shared \in Registration,
               Claim(r, c, p, shared)
        PROVE  LockHeld(b)'
    BY <2>1 DEF Claim
  <2>2. CASE GiveBack(r)
    BY <2>2, FinishChanges DEF GiveBack, Waiting, Launching
  <2>3. CASE AcquireLocal(r)
    <3>1. \A q \in Run : run'[q].board = run[q].board
      BY <2>3 DEF AcquireLocal, RunRow
    <3> QED BY <2>3, <3>1 DEF AcquireLocal
  <2>4. CASE \/ Unshared(r) \/ VerifyWorker(r) \/ AcquireSlot(r) \/ CleanTerminalWorkers(r)
             \/ AcquireGlobal(r) \/ InspectOwner(r) \/ ReleaseOwner(r) \/ Start(r)
             \/ Record(r)
    BY <2>4 DEF Unshared, VerifyWorker, AcquireSlot, CleanTerminalWorkers, AcquireGlobal,
       InspectOwner, ReleaseOwner, Start, Record
  <2> QED BY <1>1, <2>1, <2>2, <2>3, <2>4 DEF Launch
<1>2. ASSUME NEW r \in Run, End(r)
      PROVE  LockHeld(b)'
  BY <1>2, FinishChanges DEF End, Exits, Collect, Release, Crash
<1>3. ASSUME NEW r \in Run, DeleteRun(r) \/ Inspect(r) \/ Recover(r)
      PROVE  LockHeld(b)'
  <2>1. CASE DeleteRun(r)
    <3>1. \A q \in Run : run'[q].board = run[q].board
      BY <2>1 DEF DeleteRun, RunRow
    <3> QED BY <2>1, <3>1 DEF DeleteRun
  <2>2. CASE Inspect(r)
    BY <2>2, NamesAssumption DEF Inspect
  <2>3. CASE Recover(r)
    BY <2>3, FinishChanges, NamesAssumption DEF Recover
  <2> QED BY <1>3, <2>1, <2>2, <2>3
<1>4. ASSUME NEW a \in Attempt, Planner(a)
      PROVE  LockHeld(b)'
  <2>1. ASSUME NEW c \in Board, AcquireEphemeral(a, c)
        PROVE  LockHeld(b)'
    BY <2>1 DEF AcquireEphemeral
  <2>2. CASE EndAttempt(a) \/ Expire(a)
    BY <2>2 DEF EndAttempt, Expire, AttemptRow
  <2> QED BY <1>4, <2>1, <2>2 DEF Planner
<1>5. ASSUME NEW c \in Board, Open(c) \/ Remove(c) \/ Remover(c) \/ Create(c)
      PROVE  LockHeld(b)'
  <2>1. CASE Move(c)
    <3>1. \A q \in Run : run'[q].board = run[q].board
      BY <2>1 DEF Move, RunRow
    <3> QED BY <2>1, <3>1 DEF Move
  <2>2. CASE Open(c) \/ Remove(c) \/ Create(c)
    BY <2>2 DEF Open, Remove, Create
  <2>3. CASE CleanLeases(c) \/ GuardCoordination(c) \/ GuardLocal(c) \/ CountProcesses(c)
             \/ RemovalFails(c)
    BY <2>3 DEF CleanLeases, GuardCoordination, GuardLocal, CountProcesses, RemovalFails
  <2> QED BY <1>5, <2>1, <2>2, <2>3 DEF Remover
<1> QED BY <1>1, <1>2, <1>3, <1>4, <1>5, NamesAssumption DEF CoordNext

LockedUp(b) == removal[b] # "none" \/ b \notin present

\* A board that is locked gets no owner ...
LEMMA OwnersStay ==
  ASSUME CoordTypeOK, LaunchOK, CoordNext,
         NEW b \in Board, LockedUp(b)
  PROVE  OwnedBy(b)' \subseteq OwnedBy(b)
<1> USE DEF CoordTypeOK, CanOpen, LockedUp, runVars, sharedVars, boardVars
<1>1. ASSUME NEW r \in Run, run'[r].board = b
      PROVE  run[r].board = b
  <2>1. CASE run[r].status # "unused"
    BY <1>1, <2>1, RowsMove DEF RowMoves
  <2>2. CASE run[r].status = "unused"
    <3>1. ASSUME NEW q \in Run, Finish(q) PROVE run'[r].board = run[r].board
      BY <3>1, FinishChanges
    <3>2. ASSUME NEW q \in Run, AcquireLocal(q) PROVE run'[r].board = run[r].board
      BY <3>2 DEF AcquireLocal, RunRow
    <3>3. ASSUME NEW q \in Run, DeleteRun(q) PROVE run'[r].board = run[r].board
      BY <3>3 DEF DeleteRun, RunRow
    <3>4. ASSUME NEW c \in Board, Move(c) PROVE run'[r].board = run[r].board
      BY <3>4 DEF Move, RunRow
    <3>5. ASSUME NEW q \in Run, Launch(q) PROVE run[r].board = b
      BY <1>1, <3>1, <3>2, <3>5
         DEF Launch, Claim, Unshared, VerifyWorker, AcquireSlot, CleanTerminalWorkers,
             AcquireGlobal, InspectOwner, ReleaseOwner, GiveBack, Start, Record
    <3>6. ASSUME NEW q \in Run, End(q) PROVE run[r].board = b
      BY <1>1, <3>1, <3>6 DEF End, Exits, Collect, Release, Crash
    <3>7. ASSUME NEW q \in Run, Inspect(q) \/ Recover(q) PROVE run[r].board = b
      BY <1>1, <3>1, <3>7 DEF Inspect, Recover
    <3>8. ASSUME NEW a \in Attempt, Planner(a) PROVE run[r].board = b
      BY <1>1, <3>8 DEF Planner, AcquireEphemeral, EndAttempt, Expire
    <3>9. ASSUME NEW c \in Board, Open(c) \/ Remove(c) \/ Remover(c) \/ Create(c)
          PROVE  run[r].board = b
      BY <1>1, <3>4, <3>9 DEF Open, Remove, Remover, CleanLeases, GuardCoordination, GuardLocal, CountProcesses,
         RemovalFails, Create
    <3> QED BY <1>1, <3>3, <3>5, <3>6, <3>7, <3>8, <3>9, NamesAssumption DEF CoordNext
  <2> QED BY <2>1, <2>2
<1>2. ASSUME NEW a \in Attempt, attempt'[a].board = b
      PROVE  attempt[a].board = b
  <2>1. ASSUME NEW c \in Attempt, Planner(c)
        PROVE  attempt[a].board = b
    BY <1>2, <2>1 DEF Planner, AcquireEphemeral, EndAttempt, Expire, AttemptRow
  <2>2. ASSUME NEW q \in Run, Launch(q) \/ End(q) \/ DeleteRun(q) \/ Inspect(q) \/ Recover(q)
        PROVE  attempt' = attempt
    BY <2>2 DEF Launch, Claim, Unshared, VerifyWorker, AcquireSlot, CleanTerminalWorkers,
       AcquireLocal, AcquireGlobal, InspectOwner, ReleaseOwner, GiveBack, Start, Record, End, Exits,
       Collect, Release, Crash, DeleteRun, Inspect, Recover
  <2>3. ASSUME NEW c \in Board, Open(c) \/ Remove(c) \/ Remover(c) \/ Create(c)
        PROVE  attempt' = attempt
    BY <2>3 DEF Open, Remove, Remover, CleanLeases, GuardCoordination, GuardLocal, CountProcesses, Move,
       RemovalFails, Create
  <2> QED BY <1>2, <2>1, <2>2, <2>3, NamesAssumption DEF CoordNext
<1> QED BY <1>1, <1>2 DEF OwnedBy

\* ... and none of its owners gets a slot or a lease.
LEMMA NothingTaken ==
  ASSUME CoordTypeOK, LaunchOK, CoordNext,
         NEW b \in Board, LockedUp(b), ~Held(b)
  PROVE  /\ \A n \in SlotNumber : slots'[n] \in OwnedBy(b)' => slots[n] = slots'[n]
         /\ \A p \in Path : lease'[p] \in OwnedBy(b)' => lease[p] = lease'[p]
<1> USE DEF CoordTypeOK, CanOpen, LockedUp, runVars, sharedVars, boardVars
<1> DEFINE Kept == /\ \A n \in SlotNumber : slots'[n] \in OwnedBy(b)' => slots[n] = slots'[n]
                   /\ \A p \in Path : lease'[p] \in OwnedBy(b)' => lease[p] = lease'[p]
<1>1. None \notin OwnedBy(b)'
  BY NamesAssumption DEF OwnedBy
<1>2. \A r \in Run : at[r] \notin {"none", "over"} => r \notin OwnedBy(b)'
  BY OwnersStay, NamesAssumption DEF OwnedBy, Held, Handled
<1>3. ASSUME NEW released, ReleaseSlots(released), lease' = lease PROVE Kept
  BY <1>1, <1>3 DEF ReleaseSlots
<1>4. ASSUME NEW r \in Run, AcquireSlot(r) PROVE Kept
  <2>1. \A n \in SlotNumber : slots'[n] \in {slots[n], None, r}
    BY <1>4 DEF AcquireSlot, Unexpired
  <2> QED BY <1>1, <1>2, <1>4, <2>1 DEF AcquireSlot
<1>5. ASSUME NEW r \in Run, AcquireGlobal(r) PROVE Kept
  BY <1>2, <1>5 DEF AcquireGlobal
<1>6. ASSUME NEW r \in Run, ReleaseOwner(r) PROVE Kept
  BY <1>1, <1>6 DEF ReleaseOwner
<1>7. ASSUME NEW r \in Run, Launch(r) PROVE Kept
  BY <1>3, <1>4, <1>5, <1>6, <1>7 DEF Launch, Claim, Unshared, VerifyWorker,
     CleanTerminalWorkers, AcquireLocal, InspectOwner, GiveBack, Start, Record
<1>8. ASSUME NEW r \in Run, End(r) \/ DeleteRun(r) \/ Inspect(r) \/ Recover(r) PROVE Kept
  BY <1>3, <1>8 DEF End, Exits, Collect, Release, Crash, DeleteRun, Inspect, Recover
<1>9. ASSUME NEW a \in Attempt, Planner(a) PROVE Kept
  <2>1. ASSUME NEW c \in Board, AcquireEphemeral(a, c) PROVE Kept
    <3>1. \A n \in SlotNumber : slots'[n] \in {slots[n], None, a}
      BY <2>1 DEF AcquireEphemeral, Unexpired
    <3>2. a \notin OwnedBy(b)'
      BY <2>1, NamesAssumption DEF AcquireEphemeral, OwnedBy, AttemptRow
    <3> QED BY <1>1, <2>1, <3>1, <3>2 DEF AcquireEphemeral
  <2> QED BY <1>3, <1>9, <2>1 DEF Planner, EndAttempt, Expire
<1>10. ASSUME NEW c \in Board, Open(c) \/ Remove(c) \/ Remover(c) \/ Create(c) PROVE Kept
  <2>1. CASE CleanLeases(c)
    BY <1>1, <2>1 DEF CleanLeases, ReleaseSlots
  <2>2. CASE GuardCoordination(c)
    BY <1>1, <2>2 DEF GuardCoordination, Unexpired
  <2> QED BY <1>10, <2>1, <2>2 DEF Open, Remove, Remover, GuardLocal, CountProcesses, Move, RemovalFails, Create
<1> QED BY <1>7, <1>8, <1>9, <1>10, NamesAssumption DEF CoordNext

\* A removal advances on what it found in the two databases.
LEMMA RemovalMoves ==
  ASSUME CoordTypeOK, CoordNext, NEW b \in Board
  PROVE  /\ removal'[b] = "local" => removal[b] = "local" \/ Busy(b, slots)' = FALSE
         /\ removal'[b] = "count" =>
               removal[b] = "count" \/ (run' = run /\ removal[b] = "local" /\ Active(b) = {})
         /\ removal'[b] = "move" =>
               \/ removal[b] = "move"
               \/ /\ removal[b] = "count" /\ run' = run /\ worker' = worker
                  /\ LiveTerminalProcesses(b) = {}
         /\ b \notin present' => b \notin present \/ removal[b] = "move"
<1> USE DEF CoordTypeOK, Advances, runVars, sharedVars, boardVars
<1> DEFINE Advance ==
         /\ removal'[b] = "local" => removal[b] = "local" \/ Busy(b, slots)' = FALSE
         /\ removal'[b] = "count" =>
               removal[b] = "count" \/ (run' = run /\ removal[b] = "local" /\ Active(b) = {})
         /\ removal'[b] = "move" =>
               \/ removal[b] = "move"
               \/ /\ removal[b] = "count" /\ run' = run /\ worker' = worker
                  /\ LiveTerminalProcesses(b) = {}
         /\ b \notin present' => b \notin present \/ removal[b] = "move"
<1>1. ASSUME removal' = removal, present \subseteq present' PROVE Advance
  BY <1>1
<1>2. ASSUME NEW r \in Run, Launch(r) \/ End(r) \/ DeleteRun(r) \/ Inspect(r) \/ Recover(r)
      PROVE  Advance
  BY <1>2, <1>1 DEF Launch, Claim, Unshared, VerifyWorker, AcquireSlot, CleanTerminalWorkers,
     AcquireLocal, AcquireGlobal, InspectOwner, ReleaseOwner, GiveBack, Start, Record, End, Exits,
     Collect, Release, Crash, DeleteRun, Inspect, Recover
<1>3. ASSUME NEW a \in Attempt, Planner(a)
      PROVE  Advance
  BY <1>3, <1>1 DEF Planner, AcquireEphemeral, EndAttempt, Expire
<1>4. ASSUME NEW c \in Board, Open(c) \/ Remove(c) \/ Remover(c) \/ Create(c)
      PROVE  Advance
  <2>1. CASE GuardCoordination(c)
    <3>1. CASE Busy(c, Unexpired)
      BY <2>1, <3>1 DEF GuardCoordination
    <3>2. CASE ~Busy(c, Unexpired)
      <4>1. Busy(c, slots)' = FALSE
        BY <2>1, <3>2 DEF GuardCoordination, Busy, OwnedBy
      <4>2. removal' = [removal EXCEPT ![c] = "local"] /\ present' = present
        BY <2>1, <3>2 DEF GuardCoordination
      <4> QED BY <4>1, <4>2
    <3> QED BY <3>1, <3>2
  <2>2. CASE GuardLocal(c)
    BY <2>2 DEF GuardLocal
  <2>5. CASE CountProcesses(c)
    BY <2>5 DEF CountProcesses
  <2>3. CASE Move(c)
    BY <2>3 DEF Move
  <2>4. CASE Open(c) \/ Remove(c) \/ CleanLeases(c) \/ RemovalFails(c) \/ Create(c)
    BY <2>4 DEF Open, Remove, CleanLeases, RemovalFails, Create
  <2> QED BY <1>4, <2>1, <2>2, <2>3, <2>4, <2>5 DEF Remover
<1> QED BY <1>2, <1>3, <1>4, NamesAssumption DEF CoordNext

\* A row goes with the database of its board.
LEMMA GoneByMove ==
  ASSUME CoordTypeOK, CoordNext,
         NEW q \in Run, run'[q].status = "gone", run[q].status # "gone"
  PROVE  /\ Terminal(q) /\ worker' = worker
         /\ \E b \in Board : removal[b] = "move" /\ run[q].board = b
<1> USE DEF CoordTypeOK, runVars, sharedVars, boardVars
<1>1. ASSUME NEW r \in Run, Finish(r) PROVE FALSE
  BY <1>1, FinishChanges
<1>2. ASSUME NEW r \in Run, AcquireLocal(r) PROVE FALSE
  BY <1>2 DEF AcquireLocal, RunRow
<1>8. ASSUME NEW r \in Run, DeleteRun(r) PROVE FALSE
  <2>1. [run[r] EXCEPT !.status = "deleted"].status = "deleted"
    BY DEF RunRow
  <2> QED BY <1>8, <2>1 DEF DeleteRun
<1>3. ASSUME NEW r \in Run, Launch(r) PROVE FALSE
  BY <1>1, <1>2, <1>3
     DEF Launch, Claim, Unshared, VerifyWorker, AcquireSlot, CleanTerminalWorkers, AcquireGlobal,
         InspectOwner, ReleaseOwner, GiveBack, Start, Record
<1>4. ASSUME NEW r \in Run, End(r) \/ Inspect(r) \/ Recover(r) PROVE FALSE
  BY <1>1, <1>4 DEF End, Exits, Collect, Release, Crash, Inspect, Recover
<1>5. ASSUME NEW a \in Attempt, Planner(a) PROVE FALSE
  BY <1>5 DEF Planner, AcquireEphemeral, EndAttempt, Expire
<1>6. ASSUME NEW b \in Board, Open(b) \/ Remove(b) \/ Remover(b) \/ Create(b) PROVE Move(b)
  BY <1>6 DEF Open, Remove, Remover, CleanLeases, GuardCoordination, GuardLocal, CountProcesses, RemovalFails,
     Create
<1>7. ASSUME NEW b \in Board, Move(b)
      PROVE  /\ Terminal(q) /\ worker' = worker
             /\ removal[b] = "move" /\ run[q].board = b
  BY <1>7 DEF Move
<1> QED BY <1>3, <1>4, <1>5, <1>6, <1>7, <1>8, NamesAssumption DEF CoordNext

LEMMA LockStep ==
  ASSUME CoordTypeOK, LaunchOK, LockOK, CoordNext
  PROVE  LockOK'
<1> SUFFICES ASSUME NEW b \in Board
             PROVE  /\ LockHeld(b)'
                    /\ (removal[b] \in {"local", "count", "move"} \/ b \notin present
                          => ~Busy(b, slots))'
                    /\ (removal[b] \in {"count", "move"} =>
                          \A r \in Run : run[r].board = b => ~Running(r))'
                    /\ (removal[b] = "move" =>
                          \A r \in Run : run[r].board = b /\ Terminal(r) => ~Live(r))'
  BY DEF LockOK, LockHeld
<1>1. LockHeld(b)
  BY DEF LockOK, LockHeld
<1>2. LockHeld(b)'
  BY <1>1, LocksHold
<1>3. (removal[b] \in {"local", "count", "move"} \/ b \notin present => ~Busy(b, slots))'
  <2>1. CASE removal[b] \in {"local", "count", "move"} \/ b \notin present
    <3>1. LockedUp(b) /\ ~Held(b) /\ ~Busy(b, slots)
      BY <2>1, <1>1 DEF LockedUp, LockHeld, LockOK
    <3>2. ~Busy(b, slots)'
      BY <3>1, OwnersStay, NothingTaken DEF Busy
    <3> QED BY <3>2
  <2>2. CASE ~(removal[b] \in {"local", "count", "move"} \/ b \notin present)
    BY <2>2, RemovalMoves
  <2> QED BY <2>1, <2>2
<1>4. ASSUME removal[b] \in {"count", "move"}, NEW r \in Run, run'[r].board = b
      PROVE  /\ run[r].board = b /\ ~Running(r) /\ ~Running(r)'
             /\ Terminal(r)' /\ ~Terminal(r) => FALSE
  <2>1. r \in OwnedBy(b)
    BY <1>4, OwnersStay DEF LockedUp, OwnedBy
  <2>2. run[r].board = b
    BY <2>1, NamesAssumption DEF OwnedBy
  <2>3. run[r].status # "unused" /\ ~Running(r)
    BY <1>4, <2>2, NamesAssumption DEF LaunchOK, LockOK
  <2> QED BY <2>2, <2>3, RowsMove DEF RowMoves, Running, Terminal
<1>5. (removal[b] \in {"count", "move"} => \A r \in Run : run[r].board = b => ~Running(r))'
  <2>1. CASE removal[b] \in {"count", "move"}
    BY <2>1, <1>4
  <2>2. CASE removal[b] \notin {"count", "move"}
    BY <2>2, RemovalMoves DEF Active, Running
  <2> QED BY <2>1, <2>2
<1>6. (removal[b] = "move" => \A r \in Run : run[r].board = b /\ Terminal(r) => ~Live(r))'
  <2>1. CASE removal[b] = "move"
    BY <2>1, <1>4, OverStays DEF LockOK, Terminal
  <2>2. CASE removal[b] # "move"
    BY <2>2, RemovalMoves DEF LiveTerminalProcesses, Terminal, Live
  <2> QED BY <2>1, <2>2
<1> QED BY <1>2, <1>3, <1>5, <1>6

LEMMA GoneStep ==
  ASSUME CoordTypeOK, LockOK, GoneOK, CoordNext
  PROVE  GoneOK'
<1> SUFFICES ASSUME NEW q \in Run, run'[q].status = "gone" PROVE ~Live(q)'
  BY DEF GoneOK
<1>1. CASE run[q].status = "gone"
  BY <1>1, OverStays DEF GoneOK
<1>2. CASE run[q].status # "gone"
  BY <1>2, GoneByMove DEF LockOK, Live
<1> QED BY <1>1, <1>2

LEMMA CoordInvStep == CoordInv /\ [CoordNext]_coordVars => CoordInv'
<1> SUFFICES ASSUME CoordInv, [CoordNext]_coordVars PROVE CoordInv'
  OBVIOUS
<1>1. CoordTypeOK'
  BY CoordTypeStep DEF CoordInv
<1>2. CASE UNCHANGED coordVars
  BY <1>1, <1>2 DEF CoordInv, coordVars, runVars, sharedVars, boardVars, LaunchOK, SlotOK, HasSlot,
     TakeoverOK, LeaseOK, LockOK, Held, Handled, Busy, OwnedBy, GoneOK, Live, Running, Terminal
<1>3. CASE CoordNext
  BY <1>1, <1>3, LaunchStep, SlotStep, TakeoverStep, LeaseStep, LockStep, GoneStep DEF CoordInv
<1> QED BY <1>2, <1>3

LEMMA CoordInvariant == CoordSpec => []CoordInv
  BY CoordInvInit, CoordInvStep, PTL DEF CoordSpec

-----------------------------------------------------------------------------
(* What follows *)

(* The cap of an agent is not exceeded by its planners, its judges and the *)
(* processes whose PID is recorded, or about to be by a run still active,  *)
(* whatever each of them does and wherever it crashes: each has a slot,    *)
(* and a slot has one owner.  A process whose goroutine died, or whose     *)
(* claim was recovered, before the PID was written is not counted.         *)
THEOREM Capacity == CoordSpec => []CapacityHeld
<1>1. CoordInv => CapacityHeld
  <2> SUFFICES ASSUME CoordInv PROVE CapacityHeld
    OBVIOUS
  <2> DEFINE owners == {slots[n] : n \in SlotNumber}
  <2>1. Limit \in Nat
    BY LimitAssumption
  <2>2. slots \in Surjection(1..Limit, owners)
    BY DEF CoordInv, CoordTypeOK, SlotNumber, Surjection
  <2>3. IsFiniteSet(owners) /\ Cardinality(owners) <= Limit
    <3>1. IsFiniteSet(1..Limit) /\ Cardinality(1..Limit) = Limit
      BY <2>1, FS_Interval, LimitAssumption
    <3> QED BY <2>2, <3>1, FS_Surjection
  <2>4. Using \subseteq owners
    BY DEF CoordInv, SlotOK, HasSlot, Using, Accounted, Launching
  <2>5. IsFiniteSet(Using) /\ Cardinality(Using) <= Cardinality(owners)
    BY <2>3, <2>4, FS_Subset
  <2>6. Cardinality(Using) \in Nat /\ Cardinality(owners) \in Nat
    BY <2>3, <2>5, FS_CardinalityType
  <2> QED BY <2>1, <2>3, <2>5, <2>6 DEF CapacityHeld
<1> QED BY <1>1, CoordInvariant, PTL

(* Two processes whose PID is recorded, or about to be by a run still      *)
(* active, never write to the same directory: each of them has the lease,  *)
(* and a lease passes on only when its owner's row is over and its         *)
(* recorded process gone.                                                  *)
THEOREM WritersAlone == CoordSpec => []OneWriter
<1>1. CoordInv => OneWriter
  BY DEF CoordInv, LeaseOK, OneWriter, Accounted, Starting
<1> QED BY <1>1, CoordInvariant, PTL

(* A board that is gone has no slot and no lease, and no process whose PID *)
(* was recorded in its database is alive.                                  *)
THEOREM RemovalClean == CoordSpec => []GoneBoardsOwnNothing
<1>1. CoordInv => GoneBoardsOwnNothing
  BY DEF CoordInv, LockOK, GoneOK, GoneBoardsOwnNothing
<1> QED BY <1>1, CoordInvariant, PTL

-----------------------------------------------------------------------------
(* Worktrees: the invariant.                                                *)

RunRows == [task : Task \cup {None}, managed : BOOLEAN, request : BOOLEAN,
         status : {"unused", "running", "completed", "blocked", "failed", "reclaimed"}]
Trees == [head : Commit, dirty : BOOLEAN, merging : BOOLEAN, present : BOOLEAN]
Processes == [step : Place, left : SUBSET Run, start : Commit, snap : Commit]
ChangeSets == [base : Commit, head : Commit]
TaskStatuses == {"todo", "running", "blocked", "done"}

TreesTyped ==
    /\ workdir \in Workdirs
    /\ task \in [Task -> TaskStatuses]
    /\ pin \in [Before -> Run \cup {"open"}]
    /\ treeRun \in [Run -> RunRows]
    /\ main \in Commit
    /\ tree \in [Run -> Trees]
    /\ base \in [Run -> Commit \cup {None}]
    /\ ref \in [Run -> Commit \cup {None}]
    /\ change \in [Run -> ChangeSets \cup {None}]
    /\ proc \in [Run -> Processes]
    /\ collecting \in Task \cup {None}

InWorktree(r) == RunKind(r) = "worktree"
OwnWork(r) == {r} \X {"commit", "snapshot"}

\* A commit holds everything that was handed over to the task of a run.
Contains(commit, r) == \A q \in HandedOver(r) : change[q].head \subseteq commit

\* A link is satisfied by a completed run.
PinsCompleted == \A e \in Before : pin[e] # "open" => treeRun[pin[e]].status = "completed"

\* A run has a process from its claim on, and is claimed once no
\* prerequisite is open.
ClaimOK(r) ==
    /\ treeRun[r].status = "unused" <=> proc[r].step = "unused"
    /\ treeRun[r].status # "unused" =>
          \A e \in Prerequisites(treeRun[r].task) : pin[e] # "open"

\* What is recorded of a run at each step of its process.
StepOK(r) ==
    /\ proc[r].step \in {"unused", "claimed", "prepared", "merging", "conflicted", "refused",
                         "ready", "working", "asked", "captured"} => change[r] = None
    /\ proc[r].step \in {"prepared", "merging", "ready", "working", "asked", "captured"} =>
          base[r] # None
    /\ proc[r].step \in {"merging", "asked", "captured"} => InWorktree(r)
    /\ proc[r].step = "captured" =>
          /\ ref[r] = proc[r].snap
          /\ base[r] \subseteq proc[r].snap /\ proc[r].snap \ base[r] \subseteq OwnWork(r)
    /\ proc[r].step = "recorded" /\ InWorktree(r) => change[r] # None
    /\ \A q \in proc[r].left : change[q] # None

Clean(r) == ~tree[r].dirty /\ ~tree[r].merging

\* What the worktree of a run holds, as long as it is there.
TreeOK(r) ==
    InWorktree(r) /\ tree[r].present =>
    /\ proc[r].step = "prepared" => Clean(r) /\ tree[r].head = base[r]
    /\ proc[r].step = "merging" =>
          /\ Clean(r)
          /\ \A q \in HandedOver(r) \ proc[r].left : change[q].head \subseteq tree[r].head
    /\ proc[r].step = "ready" =>
          Clean(r) /\ tree[r].head = base[r] /\ Contains(base[r], r)
    /\ proc[r].step \in {"working", "asked"} => tree[r].head \ base[r] \subseteq OwnWork(r)

\* What a change set holds, and who has one.
ChangeOK(r) ==
    /\ change[r] # None =>
          /\ ref[r] = change[r].head
          /\ Contains(change[r].head, r)
          /\ change[r].base \subseteq change[r].head
          /\ change[r].head \ change[r].base \subseteq OwnWork(r)
    /\ treeRun[r].status = "completed" /\ InWorktree(r) => change[r] # None

RunOK(r) == ClaimOK(r) /\ StepOK(r) /\ TreeOK(r) /\ ChangeOK(r)

TreeInv == TreesTyped /\ PinsCompleted /\ \A r \in Run : RunOK(r)

LEMMA TypesJoin == TreeTypeOK <=> TreesTyped
  BY DEF TreeTypeOK, TreesTyped, RunRows, Trees, Processes, ChangeSets, TaskStatuses

LEMMA TreeInvFirst == TreeInit => TreeInv
<1> SUFFICES ASSUME TreeInit PROVE TreeInv
  OBVIOUS
<1>1. TreesTyped
  BY DEF TreeInit, TreesTyped, RunRows, Trees, Processes, ChangeSets, TaskStatuses, Commit, Idle,
     NoTree, Place
<1>2. PinsCompleted
  BY DEF TreeInit, PinsCompleted
<1>3. \A r \in Run : RunOK(r)
  BY DEF TreeInit, RunOK, ClaimOK, StepOK, TreeOK, ChangeOK, Idle
<1> QED
  BY <1>1, <1>2, <1>3 DEF TreeInv

LEMMA EndRunTyped ==
    ASSUME TreesTyped, NEW r \in Run,
           NEW runStatus \in {"completed", "blocked", "failed", "reclaimed"},
           NEW taskStatus \in {"todo", "blocked", "done"}, EndRun(r, runStatus, taskStatus)
    PROVE  /\ treeRun' \in [Run -> RunRows] /\ task' \in [Task -> TaskStatuses]
           /\ treeRun'[r].status = runStatus /\ treeRun'[r].task = treeRun[r].task
           /\ \A s \in Run \ {r} : treeRun'[s] = treeRun[s]
<1>1. treeRun[r] \in RunRows
  BY DEF TreesTyped
<1>2. [treeRun[r] EXCEPT !.status = runStatus, !.request = FALSE] \in RunRows
  BY <1>1 DEF RunRows
<1>3. treeRun' = [treeRun EXCEPT ![r] = [treeRun[r] EXCEPT !.status = runStatus, !.request = FALSE]]
  BY DEF EndRun, TreesTyped
<1>4. treeRun' \in [Run -> RunRows]
  BY <1>2, <1>3 DEF TreesTyped
<1>5. task' \in [Task -> TaskStatuses]
  BY DEF EndRun, TreesTyped, TaskStatuses
<1>6. treeRun'[r] = [treeRun[r] EXCEPT !.status = runStatus, !.request = FALSE]
  BY <1>3 DEF TreesTyped
<1>7. treeRun'[r].status = runStatus /\ treeRun'[r].task = treeRun[r].task
  BY <1>6, <1>1 DEF RunRows
<1> QED
  BY <1>3, <1>4, <1>5, <1>7 DEF TreesTyped

LEMMA GotoTyped ==
    ASSUME TreesTyped, NEW r \in Run, NEW step \in Place, Goto(r, step)
    PROVE  /\ proc' \in [Run -> Processes]
           /\ proc'[r].step = step /\ proc'[r].left = proc[r].left /\ proc'[r].snap = proc[r].snap
           /\ \A s \in Run \ {r} : proc'[s] = proc[s]
<1>1. proc[r] \in Processes
  BY DEF TreesTyped
<1>2. [proc[r] EXCEPT !.step = step] \in Processes
  BY <1>1 DEF Processes
<1>3. proc' = [proc EXCEPT ![r] = [proc[r] EXCEPT !.step = step]]
  BY DEF Goto, TreesTyped
<1>4. proc'[r] = [proc[r] EXCEPT !.step = step]
  BY <1>3 DEF TreesTyped
<1>5. proc'[r].step = step /\ proc'[r].left = proc[r].left /\ proc'[r].snap = proc[r].snap
  BY <1>1, <1>4 DEF Processes
<1> QED
  BY <1>2, <1>3, <1>5 DEF TreesTyped

LEMMA IdleTyped ==
    ASSUME NEW step \in Place PROVE Idle(step) \in Processes
  BY DEF Idle, Processes, Commit

-----------------------------------------------------------------------------
(* What a step of the process of one run writes.                            *)

\* The other runs keep their rows, files and processes; pins, change sets and
\* their refs are made once.
Alone(r) ==
    /\ UNCHANGED workdir
    /\ \A s \in Run \ {r} :
        /\ treeRun'[s] = treeRun[s] /\ tree'[s] = tree[s] /\ proc'[s] = proc[s]
        /\ base'[s] = base[s] /\ ref'[s] = ref[s] /\ change'[s] = change[s]
    /\ \A e \in Before :
        /\ pin[e] # "open" => pin'[e] = pin[e]
        /\ pin[e] = "open" /\ pin'[e] # "open" =>
              pin'[e] = r /\ treeRun'[r].status = "completed"
    /\ treeRun[r].status # "unused" => treeRun'[r].task = treeRun[r].task
    /\ treeRun[r].status = "completed" =>
          treeRun'[r].status = "completed" /\ change'[r] = change[r]
    /\ change[r] # None => change'[r] = change[r] /\ ref'[r] = ref[r]

LEMMA PreparationWrites ==
    ASSUME TreeInv, NEW r \in Run, Preparation(r), UNCHANGED workdir
    PROVE  TreesTyped' /\ Alone(r)
<1> USE DEF files
<1>t. TreesTyped
  BY DEF TreeInv
<1>1. CASE PrepareWorkspace(r)
  <2>1. NewTree(r) \in Trees
    BY <1>t DEF NewTree, NoTree, Trees, Commit, TreesTyped
  <2>2. "prepared" \in Place /\ "gone" \in Place
    BY DEF Place
  <2>3. proc' \in [Run -> Processes] /\ \A s \in Run \ {r} : proc'[s] = proc[s]
    BY <1>t, <1>1, <2>2, GotoTyped DEF PrepareWorkspace
  <2>4. /\ tree' \in [Run -> Trees] /\ base' \in [Run -> Commit \cup {None}]
        /\ \A s \in Run \ {r} : tree'[s] = tree[s] /\ base'[s] = base[s]
    BY <1>t, <1>1, <2>1 DEF PrepareWorkspace, Commit, TreesTyped
  <2> QED
    BY <1>t, <1>1, <2>3, <2>4 DEF PrepareWorkspace, TreesTyped, Alone
<1>2. CASE PrepareFails(r)
  <2>1. "gone" \in Place
    BY DEF Place
  <2>2. proc' \in [Run -> Processes] /\ \A s \in Run \ {r} : proc'[s] = proc[s]
    BY <1>t, <1>2, <2>1, GotoTyped DEF PrepareFails
  <2>3. CASE InProgress(r)
    BY <1>t, <1>2, <2>2, <2>3, EndRunTyped DEF PrepareFails, TreesTyped, Alone, InProgress
  <2>4. CASE ~ InProgress(r)
    BY <1>t, <1>2, <2>2, <2>4 DEF PrepareFails, TreesTyped, Alone
  <2> QED
    BY <2>3, <2>4
<1> QED
  BY <1>1, <1>2 DEF Preparation

LEMMA RollBackTyped ==
    ASSUME TreesTyped, NEW r \in Run
    PROVE  /\ RolledBack(r) \in [Run -> Trees]
           /\ \A s \in Run \ {r} : RolledBack(r)[s] = tree[s]
           /\ RolledBack(r)[r].present = tree[r].present
<1> DEFINE rolled == [tree[r] EXCEPT !.head = proc[r].start, !.merging = FALSE]
<1>1. tree[r] \in Trees /\ proc[r].start \in Commit
  BY DEF TreesTyped, Processes
<1>2. rolled \in Trees /\ rolled.present = tree[r].present
  BY <1>1 DEF Trees
<1>3. [tree EXCEPT ![r].head = proc[r].start, ![r].merging = FALSE] = [tree EXCEPT ![r] = rolled]
  BY DEF TreesTyped
<1> QED
  BY <1>2, <1>3 DEF RolledBack, TreesTyped

LEMMA FanInWrites ==
    ASSUME TreeInv, NEW r \in Run, FanIn(r), UNCHANGED workdir
    PROVE  TreesTyped' /\ Alone(r)
<1> USE DEF files
<1>t. TreesTyped /\ tree[r] \in Trees /\ proc[r] \in Processes
  BY DEF TreeInv, TreesTyped
<1>p. {"ready", "refused", "merging", "conflicted", "gone"} \subseteq Place
  BY DEF Place
<1>1. CASE BeginIntegration(r)
  <2> DEFINE pinned == Handoffs(treeRun[r].task)
             begun  == [Idle("merging") EXCEPT !.left = pinned, !.start = tree[r].head]
  <2>1. pinned \in SUBSET Run /\ tree[r].head \in Commit
    BY <1>t DEF Handoffs, Trees
  <2>2. begun \in Processes
    BY <2>1, <1>p DEF Idle, Processes, Commit
  <2>3. Idle("ready") \in Processes /\ Idle("refused") \in Processes
    BY <1>p, IdleTyped
  <2>4. \E p \in Processes : proc' = [proc EXCEPT ![r] = p]
    BY <1>1, <2>2, <2>3 DEF BeginIntegration
  <2>5. proc' \in [Run -> Processes] /\ \A s \in Run \ {r} : proc'[s] = proc[s]
    BY <1>t, <2>4 DEF TreesTyped
  <2> QED
    BY <1>t, <1>1, <2>5 DEF BeginIntegration, TreesTyped, Alone
<1>2. CASE MergeNext(r)
  <2> DEFINE q == CHOOSE x \in proc[r].left : TRUE
  <2>0. q \in Run /\ q \in proc[r].left
    BY <1>2, <1>t DEF MergeNext, Processes
  <2>1. change[q] \in ChangeSets
    BY <2>0, <1>t DEF TreeInv, RunOK, StepOK, TreesTyped
  <2>2. CASE /\ tree' = [tree EXCEPT ![r].head = @ \cup change[q].head]
             /\ proc' = [proc EXCEPT ![r].left = @ \ {q}]
    <3>1. [tree[r] EXCEPT !.head = @ \cup change[q].head] \in Trees
      BY <1>t, <2>1 DEF Trees, ChangeSets, Commit
    <3>2. [proc[r] EXCEPT !.left = @ \ {q}] \in Processes
      BY <1>t DEF Processes
    <3>3. /\ tree' = [tree EXCEPT ![r] = [tree[r] EXCEPT !.head = @ \cup change[q].head]]
          /\ proc' = [proc EXCEPT ![r] = [proc[r] EXCEPT !.left = @ \ {q}]]
      BY <1>t, <2>2 DEF TreesTyped
    <3>4. /\ tree' \in [Run -> Trees] /\ proc' \in [Run -> Processes]
          /\ \A s \in Run \ {r} : tree'[s] = tree[s] /\ proc'[s] = proc[s]
      BY <1>t, <3>1, <3>2, <3>3 DEF TreesTyped
    <3> QED
      BY <1>t, <1>2, <3>4 DEF MergeNext, TreesTyped, Alone
  <2>3. CASE Goto(r, "conflicted") /\ UNCHANGED tree
    <3>1. proc' \in [Run -> Processes] /\ \A s \in Run \ {r} : proc'[s] = proc[s]
      BY <1>t, <1>p, <2>3, GotoTyped
    <3> QED
      BY <1>t, <1>2, <2>3, <3>1 DEF MergeNext, TreesTyped, Alone
  <2>4. CASE tree' = [tree EXCEPT ![r].merging = TRUE] /\ Goto(r, "conflicted")
    <3>1. proc' \in [Run -> Processes] /\ \A s \in Run \ {r} : proc'[s] = proc[s]
      BY <1>t, <1>p, <2>4, GotoTyped
    <3>2. [tree[r] EXCEPT !.merging = TRUE] \in Trees
      BY <1>t DEF Trees
    <3>3. tree' = [tree EXCEPT ![r] = [tree[r] EXCEPT !.merging = TRUE]]
      BY <1>t, <2>4 DEF TreesTyped
    <3>4. tree' \in [Run -> Trees] /\ \A s \in Run \ {r} : tree'[s] = tree[s]
      BY <1>t, <3>2, <3>3 DEF TreesTyped
    <3> QED
      BY <1>t, <1>2, <3>1, <3>4 DEF MergeNext, TreesTyped, Alone
  <2> QED
    BY <1>2, <2>2, <2>3, <2>4 DEF MergeNext
<1>3. CASE RollbackIntegration(r)
  <2>1. proc' \in [Run -> Processes] /\ \A s \in Run \ {r} : proc'[s] = proc[s]
    BY <1>t, <1>p, <1>3, GotoTyped DEF RollbackIntegration
  <2> QED
    BY <1>t, <1>3, <2>1, RollBackTyped DEF RollbackIntegration, TreesTyped, Alone
<1>4. CASE BlockIntegration(r)
  <2>1. proc' \in [Run -> Processes] /\ \A s \in Run \ {r} : proc'[s] = proc[s]
    BY <1>t, <1>p, <1>4, GotoTyped DEF BlockIntegration
  <2>2. CASE InProgress(r)
    BY <1>t, <1>4, <2>1, <2>2, EndRunTyped DEF BlockIntegration, TreesTyped, Alone, InProgress
  <2>3. CASE ~ InProgress(r)
    BY <1>t, <1>4, <2>1, <2>3 DEF BlockIntegration, TreesTyped, Alone
  <2> QED
    BY <2>2, <2>3
<1>5. CASE AdvanceBase(r)
  <2>1. proc' \in [Run -> Processes] /\ \A s \in Run \ {r} : proc'[s] = proc[s]
    BY <1>t, <1>p, <1>5, GotoTyped DEF AdvanceBase
  <2>2. base' \in [Run -> Commit \cup {None}] /\ \A s \in Run \ {r} : base'[s] = base[s]
    BY <1>t, <1>5 DEF AdvanceBase, TreesTyped, Trees
  <2> QED
    BY <1>t, <1>5, <2>1, <2>2 DEF AdvanceBase, TreesTyped, Alone
<1>6. CASE AdvanceBaseFails(r)
  <2>1. proc' \in [Run -> Processes] /\ \A s \in Run \ {r} : proc'[s] = proc[s]
    BY <1>t, <1>p, <1>6, GotoTyped DEF AdvanceBaseFails
  <2>2. tree' \in [Run -> Trees] /\ \A s \in Run \ {r} : tree'[s] = tree[s]
    BY <1>t, <1>6, RollBackTyped DEF AdvanceBaseFails
  <2>3. CASE InProgress(r)
    BY <1>t, <1>6, <2>1, <2>2, <2>3, EndRunTyped DEF AdvanceBaseFails, TreesTyped, Alone, InProgress
  <2>4. CASE ~ InProgress(r)
    BY <1>t, <1>6, <2>1, <2>2, <2>4 DEF AdvanceBaseFails, TreesTyped, Alone
  <2> QED
    BY <2>3, <2>4
<1> QED
  BY <1>1, <1>2, <1>3, <1>4, <1>5, <1>6 DEF FanIn

LEMMA WorkerWrites ==
    ASSUME TreeInv, NEW r \in Run, Worker(r), UNCHANGED workdir
    PROVE  TreesTyped' /\ Alone(r)
<1> USE DEF files
<1>t. TreesTyped /\ tree[r] \in Trees /\ proc[r] \in Processes /\ treeRun[r] \in RunRows
  BY DEF TreeInv, TreesTyped
<1>p. {"working", "gone", "asked", "recorded"} \subseteq Place
  BY DEF Place
<1>1. CASE StartWork(r)
  <2>1. proc' \in [Run -> Processes] /\ \A s \in Run \ {r} : proc'[s] = proc[s]
    BY <1>t, <1>p, <1>1, GotoTyped DEF StartWork
  <2> QED
    BY <1>t, <1>1, <2>1 DEF StartWork, TreesTyped, Alone
<1>2. CASE WorkerCommits(r)
  <2> DEFINE committed == [tree[r] EXCEPT !.head = @ \cup {<<r, "commit">>}, !.dirty = FALSE]
  <2>c. \A c \in Commit : c \cup {<<r, "commit">>} \in Commit
    BY DEF Commit, Change
  <2>1. committed \in Trees /\ main \cup {<<r, "commit">>} \in Commit
    <3>1. tree[r].head \cup {<<r, "commit">>} \in Commit
      BY <1>t, <2>c DEF Trees
    <3>2. committed \in Trees
      BY <1>t, <3>1 DEF Trees
    <3> QED
      BY <1>t, <2>c, <3>2 DEF TreesTyped
  <2>2. CASE tree' = [tree EXCEPT ![r].head = @ \cup {<<r, "commit">>}, ![r].dirty = FALSE]
             /\ UNCHANGED main
    <3>1. tree' = [tree EXCEPT ![r] = committed]
      BY <1>t, <2>2 DEF TreesTyped
    <3>2. tree' \in [Run -> Trees] /\ \A s \in Run \ {r} : tree'[s] = tree[s]
      BY <1>t, <2>1, <3>1 DEF TreesTyped
    <3> QED
      BY <1>t, <1>2, <2>2, <3>2 DEF WorkerCommits, TreesTyped, Alone
  <2>3. CASE main' = main \cup {<<r, "commit">>} /\ UNCHANGED tree
    BY <1>t, <1>2, <2>1, <2>3 DEF WorkerCommits, TreesTyped, Alone
  <2> QED
    BY <1>2, <2>2, <2>3 DEF WorkerCommits
<1>3. CASE WorkerEdits(r)
  <2>1. [tree[r] EXCEPT !.dirty = TRUE] \in Trees
    BY <1>t DEF Trees
  <2>2. tree' = [tree EXCEPT ![r] = [tree[r] EXCEPT !.dirty = TRUE]]
    BY <1>t, <1>3 DEF WorkerEdits, TreesTyped
  <2>3. tree' \in [Run -> Trees] /\ \A s \in Run \ {r} : tree'[s] = tree[s]
    BY <1>t, <2>1, <2>2 DEF TreesTyped
  <2> QED
    BY <1>t, <1>3, <2>3 DEF WorkerEdits, TreesTyped, Alone
<1>4. CASE WorkerRewrites(r)
  <2>1. Known \subseteq Commit
    BY <1>t DEF Known, Commit, TreesTyped
  <2>2. PICK h \in Known : tree' = [tree EXCEPT ![r].head = h]
    BY <1>4 DEF WorkerRewrites
  <2>3. [tree[r] EXCEPT !.head = h] \in Trees
    BY <1>t, <2>1 DEF Trees
  <2>4. tree' = [tree EXCEPT ![r] = [tree[r] EXCEPT !.head = h]]
    BY <1>t, <2>2 DEF TreesTyped
  <2>5. tree' \in [Run -> Trees] /\ \A s \in Run \ {r} : tree'[s] = tree[s]
    BY <1>t, <2>3, <2>4 DEF TreesTyped
  <2> QED
    BY <1>t, <1>4, <2>5 DEF WorkerRewrites, TreesTyped, Alone
<1>5. CASE AskToComplete(r)
  <2>1. proc' \in [Run -> Processes] /\ \A s \in Run \ {r} : proc'[s] = proc[s]
    BY <1>t, <1>p, <1>5, GotoTyped DEF AskToComplete
  <2> DEFINE asked == [treeRun[r] EXCEPT !.request = TRUE]
  <2>2. asked \in RunRows /\ asked.task = treeRun[r].task /\ asked.status = treeRun[r].status
    BY <1>t DEF RunRows
  <2>3. treeRun' = [treeRun EXCEPT ![r] = asked]
    BY <1>t, <1>5 DEF AskToComplete, TreesTyped
  <2>4. treeRun' \in [Run -> RunRows] /\ \A s \in Run \ {r} : treeRun'[s] = treeRun[s]
    BY <1>t, <2>2, <2>3 DEF TreesTyped
  <2>5. treeRun'[r] = asked
    BY <1>t, <2>3 DEF TreesTyped
  <2> QED
    BY <1>t, <1>5, <2>1, <2>2, <2>4, <2>5 DEF AskToComplete, TreesTyped, Alone
<1>6. CASE WorkerFails(r)
  <2>1. proc' \in [Run -> Processes] /\ \A s \in Run \ {r} : proc'[s] = proc[s]
    BY <1>t, <1>p, <1>6, GotoTyped DEF WorkerFails
  <2> QED
    BY <1>t, <1>6, <2>1, EndRunTyped DEF WorkerFails, TreesTyped, Alone, InProgress
<1> QED
  BY <1>1, <1>2, <1>3, <1>4, <1>5, <1>6 DEF Worker

LEMMA CompletionWrites ==
    ASSUME TreeInv, NEW r \in Run, Completion(r), UNCHANGED workdir
    PROVE  TreesTyped' /\ Alone(r)
<1> USE DEF files
<1>t. /\ TreesTyped /\ tree[r] \in Trees /\ proc[r] \in Processes /\ treeRun[r] \in RunRows
      /\ StepOK(r) /\ ClaimOK(r)
  BY DEF TreeInv, TreesTyped, RunOK
<1>p. {"captured", "recorded", "failed", "gone", "cleaning"} \subseteq Place
  BY DEF Place
<1>1. CASE CaptureChangeSet(r)
  <2>1. Snapshot(r) \in Commit
    BY <1>t DEF Snapshot, Commit, Change, Trees
  <2>2. [Idle("captured") EXCEPT !.snap = Snapshot(r)] \in Processes
    BY <1>p, <2>1 DEF Idle, Processes, Commit
  <2>3. change[r] = None
    BY <1>t, <1>1 DEF CaptureChangeSet, At, StepOK
  <2> QED
    BY <1>t, <1>1, <2>1, <2>2, <2>3 DEF CaptureChangeSet, TreesTyped, Alone
<1>2. CASE RecordChangeSet(r)
  <2>1. proc' \in [Run -> Processes] /\ \A s \in Run \ {r} : proc'[s] = proc[s]
    BY <1>t, <1>p, <1>2, GotoTyped DEF RecordChangeSet
  <2>2. change[r] = None /\ base[r] \in Commit
    BY <1>t, <1>2 DEF RecordChangeSet, At, StepOK, TreesTyped
  <2>3. [base |-> base[r], head |-> proc[r].snap] \in ChangeSets
    BY <1>t, <2>2 DEF ChangeSets, Processes
  <2>4. change' \in [Run -> ChangeSets \cup {None}] /\ \A s \in Run \ {r} : change'[s] = change[s]
    BY <1>t, <1>2, <2>3 DEF RecordChangeSet, TreesTyped
  <2> QED
    BY <1>t, <1>2, <2>1, <2>2, <2>4 DEF RecordChangeSet, TreesTyped, Alone, InProgress
<1>3. CASE CaptureFails(r)
  <2>1. proc' \in [Run -> Processes] /\ \A s \in Run \ {r} : proc'[s] = proc[s]
    BY <1>t, <1>p, <1>3, GotoTyped DEF CaptureFails
  <2> QED
    BY <1>t, <1>3, <2>1 DEF CaptureFails, TreesTyped, Alone
<1>4. CASE BlockCapture(r)
  <2>1. proc' \in [Run -> Processes] /\ \A s \in Run \ {r} : proc'[s] = proc[s]
    BY <1>t, <1>p, <1>4, GotoTyped DEF BlockCapture
  <2>2. CASE InProgress(r)
    BY <1>t, <1>4, <2>1, <2>2, EndRunTyped DEF BlockCapture, TreesTyped, Alone, InProgress
  <2>3. CASE ~ InProgress(r)
    BY <1>t, <1>4, <2>1, <2>3 DEF BlockCapture, TreesTyped, Alone
  <2> QED
    BY <2>2, <2>3
<1>5. CASE Finalize(r)
  <2>1. proc' \in [Run -> Processes] /\ \A s \in Run \ {r} : proc'[s] = proc[s]
    BY <1>t, <1>p, <1>5, GotoTyped DEF Finalize
  <2>2. /\ treeRun' \in [Run -> RunRows] /\ task' \in [Task -> TaskStatuses]
        /\ treeRun'[r].status = "completed" /\ treeRun'[r].task = treeRun[r].task
        /\ \A s \in Run \ {r} : treeRun'[s] = treeRun[s]
    BY <1>t, <1>5, EndRunTyped DEF Finalize
  <2>3. /\ pin' \in [Before -> Run \cup {"open"}]
        /\ \A e \in Before : pin'[e] = pin[e] \/ (pin[e] = "open" /\ pin'[e] = r)
    BY <1>t, <1>5 DEF Finalize, TreesTyped
  <2> QED
    BY <1>t, <1>5, <2>1, <2>2, <2>3 DEF Finalize, TreesTyped, Alone
<1>6. CASE FinalizeTooLate(r)
  <2>1. proc' \in [Run -> Processes] /\ \A s \in Run \ {r} : proc'[s] = proc[s]
    BY <1>t, <1>p, <1>6, GotoTyped DEF FinalizeTooLate
  <2> QED
    BY <1>t, <1>6, <2>1 DEF FinalizeTooLate, TreesTyped, Alone
<1>7. CASE Cleanup(r)
  <2>1. proc' \in [Run -> Processes] /\ \A s \in Run \ {r} : proc'[s] = proc[s]
    BY <1>t, <1>p, <1>7, GotoTyped DEF Cleanup
  <2>2. NoTree \in Trees
    BY DEF NoTree, Trees, Commit
  <2> QED
    BY <1>t, <1>7, <2>1, <2>2 DEF Cleanup, TreesTyped, Alone
<1> QED
  BY <1>1, <1>2, <1>3, <1>4, <1>5, <1>6, <1>7 DEF Completion

LEMMA CrashesWrite ==
    ASSUME TreeInv, NEW r \in Run, Dies(r) \/ RecoverAbandoned(r), UNCHANGED workdir
    PROVE  TreesTyped' /\ Alone(r)
<1> USE DEF files
<1>t. TreesTyped
  BY DEF TreeInv
<1>p. Idle("crashed") \in Processes /\ Idle("gone") \in Processes
  BY IdleTyped DEF Place
<1>1. CASE Dies(r)
  BY <1>t, <1>p, <1>1 DEF Dies, TreesTyped, Alone
<1>2. CASE RecoverAbandoned(r)
  <2>1. proc' \in [Run -> Processes] /\ \A s \in Run \ {r} : proc'[s] = proc[s]
    BY <1>t, <1>p, <1>2 DEF RecoverAbandoned, TreesTyped
  <2> QED
    BY <1>t, <1>2, <2>1, EndRunTyped DEF RecoverAbandoned, TreesTyped, Alone, InProgress
<1> QED
  BY <1>1, <1>2

LEMMA ClaimWrites ==
    ASSUME TreeInv, NEW t \in Task, ClaimTask(t), UNCHANGED workdir
    PROVE  \E r \in Run :
              /\ TreesTyped' /\ Alone(r)
              /\ treeRun[r].status = "unused" /\ treeRun'[r].status = "running"
              /\ treeRun'[r].task = t /\ \A e \in Prerequisites(t) : pin[e] # "open"
              /\ proc'[r].step = "claimed" /\ proc'[r].left = proc[r].left
              /\ UNCHANGED <<pin, files>>
<1> USE DEF files
<1> DEFINE r == CHOOSE x \in Run : treeRun[x].status = "unused"
           claimed == [task |-> t, status |-> "running", managed |-> t \notin Direct,
                       request |-> FALSE]
<1>t. TreesTyped
  BY DEF TreeInv
<1>1. r \in Run /\ treeRun[r].status = "unused"
  BY DEF ClaimTask
<1>2. claimed \in RunRows /\ claimed.status = "running" /\ claimed.task = t
  BY DEF RunRows
<1>3. treeRun' = [treeRun EXCEPT ![r] = claimed]
  BY DEF ClaimTask
<1>4. /\ treeRun' \in [Run -> RunRows] /\ treeRun'[r] = claimed
      /\ \A s \in Run \ {r} : treeRun'[s] = treeRun[s]
  BY <1>t, <1>1, <1>2, <1>3 DEF TreesTyped
<1>5. "claimed" \in Place
  BY DEF Place
<1>6. Goto(r, "claimed")
  BY DEF ClaimTask
<1>7. /\ proc' \in [Run -> Processes] /\ \A s \in Run \ {r} : proc'[s] = proc[s]
      /\ proc'[r].step = "claimed" /\ proc'[r].left = proc[r].left
  BY <1>t, <1>1, <1>5, <1>6, GotoTyped
<1>8. /\ UNCHANGED <<pin, files, collecting>> /\ task' \in [Task -> TaskStatuses]
      /\ \A e \in Prerequisites(t) : pin[e] # "open"
  BY <1>t DEF ClaimTask, TreesTyped, TaskStatuses
<1>9. TreesTyped' /\ Alone(r)
  BY <1>t, <1>1, <1>4, <1>7, <1>8 DEF TreesTyped, Alone
<1> QED
  BY <1>1, <1>2, <1>4, <1>7, <1>8, <1>9

-----------------------------------------------------------------------------
(* What a claimed run was handed over stays, and so do the other runs.      *)

LEMMA HandedStay ==
    ASSUME TreeInv, NEW s \in Run, Alone(s), NEW r \in Run, treeRun[r].status # "unused"
    PROVE  /\ HandedOver(r)' = HandedOver(r)
           /\ \A q \in HandedOver(r) : change'[q] = change[q]
           /\ InWorktree(r)' <=> InWorktree(r)
<1>1. treeRun'[r].task = treeRun[r].task
  BY DEF Alone
<1>2. \A e \in Before : e[2] = treeRun[r].task => pin[e] # "open" /\ pin'[e] = pin[e]
  BY DEF TreeInv, RunOK, ClaimOK, Prerequisites, Alone
<1>3. \A e \in Before : pin[e] # "open" => change'[pin[e]] = change[pin[e]]
  <2> SUFFICES ASSUME NEW e \in Before, pin[e] # "open"
               PROVE  change'[pin[e]] = change[pin[e]]
    OBVIOUS
  <2>1. pin[e] \in Run /\ treeRun[pin[e]].status = "completed"
    BY DEF TreeInv, TreesTyped, PinsCompleted
  <2> QED
    BY <2>1 DEF Alone
<1>4. \A q \in Run : (\E e \in Before : e[2] = treeRun[r].task /\ pin[e] = q) =>
                     change'[q] = change[q]
  BY <1>2, <1>3
<1>5. HandedOver(r)' = HandedOver(r)
  BY <1>1, <1>2, <1>4 DEF HandedOver
<1>6. InWorktree(r)' <=> InWorktree(r)
  BY <1>1 DEF InWorktree, RunKind, Kind, Alone
<1> QED
  BY <1>4, <1>5, <1>6 DEF HandedOver

LEMMA PinsStay ==
    ASSUME TreeInv, TreesTyped', NEW s \in Run, Alone(s)
    PROVE  PinsCompleted'
<1> SUFFICES ASSUME NEW e \in Before, pin'[e] # "open"
             PROVE  treeRun'[pin'[e]].status = "completed"
  BY DEF PinsCompleted
<1>1. CASE pin[e] = "open"
  BY <1>1 DEF Alone
<1>2. CASE pin[e] # "open"
  <2>1. pin'[e] = pin[e] /\ pin[e] \in Run /\ treeRun[pin[e]].status = "completed"
    BY <1>2 DEF TreeInv, TreesTyped, PinsCompleted, Alone
  <2> QED
    BY <2>1 DEF Alone
<1> QED
  BY <1>1, <1>2

LEMMA ChangesStay ==
    ASSUME TreeInv, NEW s \in Run, Alone(s), NEW q \in Run, change[q] # None
    PROVE  change'[q] # None /\ change'[q] = change[q] /\ ref'[q] = ref[q]
  BY DEF Alone

LEMMA ClaimStays ==
    ASSUME TreeInv, NEW s \in Run, Alone(s), NEW r \in Run,
           treeRun[r].status # "unused", treeRun'[r].status # "unused", proc'[r].step # "unused"
    PROVE  ClaimOK(r)'
<1>1. treeRun'[r].task = treeRun[r].task
  BY DEF Alone
<1>2. \A e \in Before : e[2] = treeRun[r].task => pin[e] # "open" /\ pin'[e] = pin[e]
  BY DEF TreeInv, RunOK, ClaimOK, Prerequisites, Alone
<1> QED
  BY <1>1, <1>2 DEF ClaimOK, Prerequisites

LEMMA OthersStay ==
    ASSUME TreeInv, NEW s \in Run, Alone(s), NEW r \in Run \ {s}
    PROVE  RunOK(r)'
<1>1. /\ treeRun'[r] = treeRun[r] /\ tree'[r] = tree[r] /\ proc'[r] = proc[r]
      /\ base'[r] = base[r] /\ ref'[r] = ref[r] /\ change'[r] = change[r]
  BY DEF Alone
<1>2. RunOK(r) /\ proc[r] \in Processes
  BY DEF TreeInv, TreesTyped
<1>3. \A q \in proc'[r].left : change'[q] # None
  <2>1. \A q \in proc[r].left : q \in Run /\ change[q] # None
    BY <1>2 DEF RunOK, StepOK, Processes
  <2> QED
    BY <1>1, <2>1, ChangesStay
<1>4. CASE treeRun[r].status = "unused"
  <2>1. proc'[r].step = "unused" /\ treeRun'[r].status = "unused" /\ change'[r] = None
    BY <1>1, <1>2, <1>4 DEF RunOK, ClaimOK, StepOK
  <2> QED
    BY <1>3, <2>1 DEF RunOK, ClaimOK, StepOK, TreeOK, ChangeOK
<1>5. CASE treeRun[r].status # "unused"
  <2>1. /\ HandedOver(r)' = HandedOver(r)
        /\ \A q \in HandedOver(r) : change'[q] = change[q]
        /\ InWorktree(r)' <=> InWorktree(r)
    BY <1>5, HandedStay
  <2>2. ClaimOK(r)'
    BY <1>1, <1>2, <1>5, ClaimStays DEF RunOK, ClaimOK
  <2>3. StepOK(r)'
    BY <1>1, <1>2, <1>3, <2>1 DEF RunOK, StepOK, OwnWork
  <2>4. TreeOK(r)'
    BY <1>1, <1>2, <2>1 DEF RunOK, TreeOK, OwnWork, Contains, Clean
  <2>5. ChangeOK(r)'
    BY <1>1, <1>2, <2>1 DEF RunOK, ChangeOK, OwnWork, Contains
  <2> QED
    BY <2>2, <2>3, <2>4, <2>5 DEF RunOK
<1> QED
  BY <1>4, <1>5

-----------------------------------------------------------------------------
(* What a step makes of its own run.                                        *)

\* A run that is past its change set, or will never have one.
LEMMA PastStays ==
    ASSUME TreeInv, NEW r \in Run, Alone(r), treeRun[r].status # "unused",
           treeRun'[r].status # "unused",
           treeRun'[r].status = "completed" => treeRun[r].status = "completed",
           change'[r] = change[r], ref'[r] = ref[r],
           proc'[r].step \in {"failed", "gone", "crashed", "cleaning"},
           proc'[r].left = proc[r].left \/ proc'[r].left = {}
    PROVE  RunOK(r)'
<1>1. /\ HandedOver(r)' = HandedOver(r)
      /\ \A q \in HandedOver(r) : change'[q] = change[q]
      /\ InWorktree(r)' <=> InWorktree(r)
  BY HandedStay
<1>2. RunOK(r) /\ proc[r] \in Processes
  BY DEF TreeInv, TreesTyped
<1>3. \A q \in proc'[r].left : change'[q] # None
  <2>1. \A q \in proc[r].left : q \in Run /\ change[q] # None
    BY <1>2 DEF RunOK, StepOK, Processes
  <2> QED
    BY <2>1, ChangesStay
<1>4. ClaimOK(r)'
  BY ClaimStays
<1>5. StepOK(r)'
  BY <1>3 DEF StepOK
<1>6. TreeOK(r)'
  BY DEF TreeOK
<1>7. ChangeOK(r)'
  BY <1>1, <1>2 DEF RunOK, ChangeOK, OwnWork, Contains
<1> QED
  BY <1>4, <1>5, <1>6, <1>7 DEF RunOK

\* A run that has no change set yet, and will not get it in this step.
LEMMA EarlyStays ==
    ASSUME TreeInv, NEW r \in Run, Alone(r), treeRun[r].status # "unused",
           treeRun'[r].status # "unused",
           treeRun'[r].status = "completed" => treeRun[r].status = "completed",
           change[r] = None, change'[r] = None,
           proc'[r].step # "unused", proc'[r].step # "captured", proc'[r].step # "recorded",
           \A q \in proc'[r].left : q \in Run /\ change[q] # None,
           proc'[r].step \in {"prepared", "merging", "ready", "working", "asked"} =>
               base'[r] # None,
           proc'[r].step \in {"merging", "asked"} => InWorktree(r),
           TreeOK(r)'
    PROVE  RunOK(r)'
<1>1. InWorktree(r)' <=> InWorktree(r)
  BY HandedStay
<1>2. RunOK(r)
  BY DEF TreeInv
<1>3. \A q \in proc'[r].left : change'[q] # None
  BY ChangesStay
<1>4. ClaimOK(r)'
  BY ClaimStays
<1>5. StepOK(r)'
  BY <1>1, <1>3 DEF StepOK
<1>6. ChangeOK(r)'
  BY <1>1, <1>2 DEF RunOK, ChangeOK
<1> QED
  BY <1>4, <1>5, <1>6 DEF RunOK

LEMMA PreparationKeeps ==
    ASSUME TreeInv, NEW r \in Run, Preparation(r), UNCHANGED workdir
    PROVE  RunOK(r)'
<1> USE DEF files
<1>a. TreesTyped' /\ Alone(r)
  BY PreparationWrites
<1>t. TreesTyped /\ tree[r] \in Trees /\ proc[r] \in Processes /\ RunOK(r)
  BY DEF TreeInv, TreesTyped
<1>s. treeRun[r].status # "unused" /\ change[r] = None
  BY <1>t DEF Preparation, PrepareWorkspace, PrepareFails, At, RunOK, ClaimOK, StepOK
<1>l. \A q \in proc[r].left : q \in Run /\ change[q] # None
  BY <1>t DEF RunOK, StepOK, Processes
<1>p. {"prepared", "gone"} \subseteq Place
  BY DEF Place
<1>1. CASE PrepareWorkspace(r) /\ InProgress(r)
  <2>1. proc'[r].step = "prepared" /\ proc'[r].left = proc[r].left
    BY <1>t, <1>p, <1>1, GotoTyped DEF PrepareWorkspace
  <2>2. tree'[r] = NewTree(r) /\ base'[r] = IF RunKind(r) \in {"scratch", "plain"} THEN {} ELSE main
    BY <1>t, <1>1 DEF PrepareWorkspace, TreesTyped
  <2>3. base'[r] # None
    BY <1>t, <2>2, TreeAssumption DEF TreesTyped, Commit, Change
  <2>4. InWorktree(r)' <=> InWorktree(r)
    BY <1>a, <1>s, HandedStay
  <2>5. TreeOK(r)'
    BY <2>1, <2>2, <2>4 DEF TreeOK, Clean, NewTree, NoTree, InWorktree, Shared
  <2>6. treeRun' = treeRun /\ change' = change
    BY <1>1 DEF PrepareWorkspace
  <2> QED
    BY <1>a, <1>s, <1>l, <2>1, <2>3, <2>5, <2>6, EarlyStays
<1>2. CASE PrepareWorkspace(r) /\ ~ InProgress(r)
  <2>1. proc'[r].step = "gone" /\ proc'[r].left = proc[r].left
    BY <1>t, <1>p, <1>2, GotoTyped DEF PrepareWorkspace
  <2> QED
    BY <1>a, <1>s, <1>2, <2>1, PastStays DEF PrepareWorkspace
<1>3. CASE PrepareFails(r)
  <2>1. proc'[r].step = "gone" /\ proc'[r].left = proc[r].left
    BY <1>t, <1>p, <1>3, GotoTyped DEF PrepareFails
  <2>2. treeRun' = treeRun \/ treeRun'[r].status = "failed"
    BY <1>t, <1>3, EndRunTyped DEF PrepareFails
  <2> QED
    BY <1>a, <1>s, <1>3, <2>1, <2>2, PastStays DEF PrepareFails
<1> QED
  BY <1>1, <1>2, <1>3 DEF Preparation

LEMMA FanInKeeps ==
    ASSUME TreeInv, NEW r \in Run, FanIn(r), UNCHANGED workdir
    PROVE  RunOK(r)'
<1> USE DEF files
<1>a. TreesTyped' /\ Alone(r)
  BY FanInWrites
<1>t. TreesTyped /\ tree[r] \in Trees /\ proc[r] \in Processes /\ RunOK(r)
  BY DEF TreeInv, TreesTyped
<1>s. treeRun[r].status # "unused" /\ change[r] = None
  BY <1>t DEF FanIn, BeginIntegration, MergeNext, RollbackIntegration, BlockIntegration,
     AdvanceBase, AdvanceBaseFails, At, RunOK, ClaimOK, StepOK
<1>h. /\ HandedOver(r)' = HandedOver(r)
      /\ \A q \in HandedOver(r) : change'[q] = change[q]
      /\ InWorktree(r)' <=> InWorktree(r)
  BY <1>a, <1>s, HandedStay
<1>l. \A q \in proc[r].left : q \in Run /\ change[q] # None
  BY <1>t DEF RunOK, StepOK, Processes
<1>p. {"ready", "refused", "merging", "conflicted", "gone"} \subseteq Place
  BY DEF Place
<1>1. CASE BeginIntegration(r)
  <2> DEFINE pinned == Handoffs(treeRun[r].task)
             begun  == [Idle("merging") EXCEPT !.left = pinned, !.start = tree[r].head]
  <2>1. pinned = HandedOver(r)
    BY DEF Handoffs, HandedOver, Prerequisites
  <2>2. /\ begun.step = "merging" /\ begun.left = pinned
        /\ Idle("ready").step = "ready" /\ Idle("ready").left = {}
        /\ Idle("refused").step = "refused" /\ Idle("refused").left = {}
    BY DEF Idle
  <2>3. /\ tree' = tree /\ base' = base /\ treeRun' = treeRun /\ change' = change
        /\ proc[r].step = "prepared" /\ base[r] # None
    BY <1>1, <1>t DEF BeginIntegration, At, RunOK, StepOK
  <2>4. InWorktree(r) /\ tree[r].present => Clean(r) /\ tree[r].head = base[r]
    BY <1>t, <2>3 DEF RunOK, TreeOK
  <2>5. CASE pinned = {} \/ (RunKind(r) = "dir" /\ Integrable(r))
    <3>1. proc'[r] = Idle("ready")
      BY <1>t, <1>1, <2>5 DEF BeginIntegration, TreesTyped
    <3>2. TreeOK(r)'
      BY <1>h, <2>1, <2>2, <2>3, <2>4, <2>5, <3>1 DEF TreeOK, Clean, Contains, InWorktree
    <3> QED
      BY <1>a, <1>s, <2>2, <2>3, <3>1, <3>2, EarlyStays
  <2>6. CASE ~ (pinned = {} \/ (RunKind(r) = "dir" /\ Integrable(r))) /\ ~ Integrable(r)
    <3>1. proc'[r] = Idle("refused")
      BY <1>t, <1>1, <2>6 DEF BeginIntegration, TreesTyped
    <3>2. TreeOK(r)'
      BY <2>2, <3>1 DEF TreeOK
    <3> QED
      BY <1>a, <1>s, <2>2, <2>3, <3>1, <3>2, EarlyStays
  <2>7. CASE ~ (pinned = {} \/ (RunKind(r) = "dir" /\ Integrable(r))) /\ Integrable(r)
    <3>1. proc'[r] = begun
      BY <1>t, <1>1, <2>7 DEF BeginIntegration, TreesTyped
    <3>2. InWorktree(r)
      BY <2>7 DEF Integrable, InWorktree, RunKind, Kind
    <3>3. TreeOK(r)'
      BY <1>h, <2>1, <2>2, <2>3, <2>4, <3>1 DEF TreeOK, Clean
    <3>4. \A q \in pinned : q \in Run /\ change[q] # None
      BY DEF Handoffs
    <3> QED
      BY <1>a, <1>s, <2>2, <2>3, <3>1, <3>2, <3>3, <3>4, EarlyStays
  <2> QED
    BY <2>5, <2>6, <2>7
<1>2. CASE MergeNext(r)
  <2> DEFINE q == CHOOSE x \in proc[r].left : TRUE
  <2>1. q \in proc[r].left /\ q \in Run /\ change[q] \in ChangeSets
    BY <1>2, <1>t, <1>l DEF MergeNext, TreesTyped
  <2>2. /\ proc[r].step = "merging" /\ base[r] # None /\ InWorktree(r)
        /\ treeRun' = treeRun /\ base' = base /\ change' = change
    BY <1>2, <1>t DEF MergeNext, At, RunOK, StepOK
  <2>3. tree[r].present =>
            /\ Clean(r)
            /\ \A x \in HandedOver(r) \ proc[r].left : change[x].head \subseteq tree[r].head
    BY <1>t, <2>2 DEF RunOK, TreeOK
  <2>4. CASE /\ tree[r].present
             /\ tree' = [tree EXCEPT ![r].head = @ \cup change[q].head]
             /\ proc' = [proc EXCEPT ![r].left = @ \ {q}]
    <3>1. /\ tree'[r].head = tree[r].head \cup change[q].head
          /\ tree'[r].dirty = tree[r].dirty /\ tree'[r].merging = tree[r].merging
      BY <1>t, <2>4 DEF TreesTyped, Trees
    <3>2. proc'[r].step = "merging" /\ proc'[r].left = proc[r].left \ {q}
      BY <1>t, <2>2, <2>4 DEF TreesTyped, Processes
    <3>3. TreeOK(r)'
      <4>1. \A x \in HandedOver(r) \ proc'[r].left : change[x].head \subseteq tree'[r].head
        BY <2>3, <2>4, <3>1, <3>2
      <4>2. Clean(r)'
        BY <2>3, <2>4, <3>1 DEF Clean
      <4> QED
        BY <1>h, <3>2, <4>1, <4>2 DEF TreeOK
    <3> QED
      BY <1>a, <1>s, <1>l, <2>2, <3>2, <3>3, EarlyStays
  <2>5. CASE Goto(r, "conflicted")
    <3>1. proc'[r].step = "conflicted" /\ proc'[r].left = proc[r].left
      BY <1>t, <1>p, <2>5, GotoTyped
    <3>2. TreeOK(r)'
      BY <3>1 DEF TreeOK
    <3> QED
      BY <1>a, <1>s, <1>l, <2>2, <3>1, <3>2, EarlyStays
  <2> QED
    BY <1>2, <2>4, <2>5 DEF MergeNext
<1>3. CASE RollbackIntegration(r)
  <2>1. proc'[r].step = "refused" /\ proc'[r].left = proc[r].left
    BY <1>t, <1>p, <1>3, GotoTyped DEF RollbackIntegration
  <2>2. TreeOK(r)'
    BY <2>1 DEF TreeOK
  <2>3. treeRun' = treeRun /\ change' = change
    BY <1>3 DEF RollbackIntegration
  <2> QED
    BY <1>a, <1>s, <1>l, <2>1, <2>2, <2>3, EarlyStays
<1>4. CASE BlockIntegration(r)
  <2>1. proc'[r].step = "gone" /\ proc'[r].left = proc[r].left
    BY <1>t, <1>p, <1>4, GotoTyped DEF BlockIntegration
  <2>2. treeRun' = treeRun \/ treeRun'[r].status = "blocked"
    BY <1>t, <1>4, EndRunTyped DEF BlockIntegration
  <2> QED
    BY <1>a, <1>s, <1>4, <2>1, <2>2, PastStays DEF BlockIntegration
<1>5. CASE AdvanceBase(r)
  <2>1. proc'[r].step = "ready" /\ proc'[r].left = {}
    BY <1>t, <1>p, <1>5, GotoTyped DEF AdvanceBase
  <2>2. base'[r] = tree[r].head /\ tree' = tree /\ treeRun' = treeRun /\ change' = change
    BY <1>t, <1>5 DEF AdvanceBase, TreesTyped
  <2>3. base'[r] # None
    BY <1>t, <2>2, TreeAssumption DEF Trees, Commit, Change
  <2>4. InWorktree(r) /\ tree[r].present =>
            Clean(r) /\ \A x \in HandedOver(r) : change[x].head \subseteq tree[r].head
    BY <1>t, <1>5 DEF AdvanceBase, At, RunOK, TreeOK
  <2>5. TreeOK(r)'
    BY <1>h, <2>1, <2>2, <2>4 DEF TreeOK, Clean, Contains
  <2> QED
    BY <1>a, <1>s, <2>1, <2>2, <2>3, <2>5, EarlyStays
<1>6. CASE AdvanceBaseFails(r)
  <2>1. proc'[r].step = "gone" /\ proc'[r].left = proc[r].left
    BY <1>t, <1>p, <1>6, GotoTyped DEF AdvanceBaseFails
  <2>2. treeRun' = treeRun \/ treeRun'[r].status = "reclaimed"
    BY <1>t, <1>6, EndRunTyped DEF AdvanceBaseFails
  <2> QED
    BY <1>a, <1>s, <1>6, <2>1, <2>2, PastStays DEF AdvanceBaseFails
<1> QED
  BY <1>1, <1>2, <1>3, <1>4, <1>5, <1>6 DEF FanIn

\* A worker that goes on writing while its change set is captured: the set is
\* made of what was captured.
LEMMA WritingKeeps ==
    ASSUME TreeInv, NEW r \in Run, Writing(r), TreesTyped', Alone(r),
           UNCHANGED <<treeRun, base, ref, change, proc>>,
           InWorktree(r) /\ tree'[r].present =>
               tree[r].present /\ tree'[r].head \subseteq tree[r].head \cup OwnWork(r)
    PROVE  RunOK(r)'
<1>t. TreesTyped /\ tree[r] \in Trees /\ proc[r] \in Processes /\ RunOK(r)
  BY DEF TreeInv, TreesTyped
<1>w. proc[r].step \in {"working", "asked", "captured", "recorded"}
  BY DEF Writing, At
<1>s. treeRun[r].status # "unused"
  BY <1>t, <1>w DEF RunOK, ClaimOK
<1>h. /\ HandedOver(r)' = HandedOver(r)
      /\ \A q \in HandedOver(r) : change'[q] = change[q]
      /\ InWorktree(r)' <=> InWorktree(r)
  BY <1>s, HandedStay
<1>1. ClaimOK(r)'
  BY <1>s, <1>w, ClaimStays
<1>2. StepOK(r)'
  BY <1>t, <1>h DEF RunOK, StepOK, OwnWork
<1>3. TreeOK(r)'
  BY <1>t, <1>w, <1>h DEF RunOK, TreeOK, OwnWork
<1>4. ChangeOK(r)'
  BY <1>t, <1>h DEF RunOK, ChangeOK, OwnWork, Contains
<1> QED
  BY <1>1, <1>2, <1>3, <1>4 DEF RunOK

LEMMA WorkerKeeps ==
    ASSUME TreeInv, NEW r \in Run, Worker(r), UNCHANGED workdir
    PROVE  RunOK(r)'
<1> USE DEF files
<1>a. TreesTyped' /\ Alone(r)
  BY WorkerWrites
<1>t. TreesTyped /\ tree[r] \in Trees /\ proc[r] \in Processes /\ treeRun[r] \in RunRows /\ RunOK(r)
  BY DEF TreeInv, TreesTyped
<1>p. {"working", "gone", "asked", "recorded"} \subseteq Place
  BY DEF Place
<1>l. \A q \in proc[r].left : q \in Run /\ change[q] # None
  BY <1>t DEF RunOK, StepOK, Processes
<1>1. CASE StartWork(r)
  <2>1. proc[r].step = "ready" /\ treeRun[r].status # "unused" /\ change[r] = None /\ base[r] # None
    BY <1>t, <1>1 DEF StartWork, At, RunOK, ClaimOK, StepOK
  <2>2. UNCHANGED <<treeRun, change, base, tree, ref>>
    BY <1>1 DEF StartWork
  <2>3. CASE InProgress(r)
    <3>1. proc'[r].step = "working" /\ proc'[r].left = proc[r].left
      BY <1>t, <1>p, <1>1, <2>3, GotoTyped DEF StartWork
    <3>2. InWorktree(r)' <=> InWorktree(r)
      BY <1>a, <2>1, HandedStay
    <3>3. TreeOK(r)'
      BY <1>t, <2>1, <2>2, <3>1, <3>2 DEF RunOK, TreeOK, OwnWork
    <3> QED
      BY <1>a, <1>l, <2>1, <2>2, <3>1, <3>3, EarlyStays
  <2>4. CASE ~ InProgress(r)
    <3>1. proc'[r].step = "gone" /\ proc'[r].left = proc[r].left
      BY <1>t, <1>p, <1>1, <2>4, GotoTyped DEF StartWork
    <3> QED
      BY <1>a, <2>1, <2>2, <3>1, PastStays
  <2> QED
    BY <2>3, <2>4
<1>2. CASE WorkerCommits(r)
  <2>1. Writing(r) /\ UNCHANGED <<treeRun, base, ref, change, proc>>
    BY <1>2 DEF WorkerCommits
  <2>2. InWorktree(r) => tree[r].present /\ tree'[r].head = tree[r].head \cup {<<r, "commit">>}
    BY <1>2, <1>t DEF WorkerCommits, InWorktree, TreesTyped, Trees
  <2> QED
    BY <1>a, <2>1, <2>2, WritingKeeps DEF OwnWork
<1>3. CASE WorkerEdits(r)
  <2>1. Writing(r) /\ UNCHANGED <<treeRun, base, ref, change, proc>>
    BY <1>3 DEF WorkerEdits
  <2>2. tree[r].present /\ tree'[r].head = tree[r].head
    BY <1>3, <1>t DEF WorkerEdits, TreesTyped, Trees
  <2> QED
    BY <1>a, <2>1, <2>2, WritingKeeps
<1>4. CASE WorkerRewrites(r)
  <2>1. Writing(r) /\ UNCHANGED <<treeRun, base, ref, change, proc>>
    BY <1>4 DEF WorkerRewrites
  <2>2. tree[r].present /\ tree'[r].head \subseteq tree[r].head
    BY <1>4, <1>t DEF WorkerRewrites, TreesTyped, Trees
  <2> QED
    BY <1>a, <2>1, <2>2, WritingKeeps
<1>5. CASE AskToComplete(r)
  <2>1. /\ proc[r].step = "working" /\ treeRun[r].status = "running" /\ change[r] = None
        /\ base[r] # None
    BY <1>t, <1>5 DEF AskToComplete, At, InProgress, RunOK, StepOK
  <2>2. UNCHANGED <<change, base, tree, ref>> /\ treeRun'[r].status = "running"
    BY <1>t, <1>5, <2>1 DEF AskToComplete, TreesTyped, RunRows
  <2>h. InWorktree(r)' <=> InWorktree(r)
    BY <1>a, <2>1, HandedStay
  <2>3. CASE InWorktree(r)
    <3>1. proc'[r].step = "asked" /\ proc'[r].left = proc[r].left
      BY <1>t, <1>p, <1>5, <2>3, GotoTyped DEF AskToComplete, InWorktree
    <3>2. TreeOK(r)'
      BY <1>t, <2>1, <2>2, <2>h, <3>1 DEF RunOK, TreeOK, OwnWork
    <3> QED
      BY <1>a, <1>l, <2>1, <2>2, <2>3, <3>1, <3>2, EarlyStays
  <2>4. CASE ~ InWorktree(r)
    <3>1. proc'[r].step = "recorded" /\ proc'[r].left = proc[r].left
      BY <1>t, <1>p, <1>5, <2>4, GotoTyped DEF AskToComplete, InWorktree
    <3>2. ClaimOK(r)'
      BY <1>a, <2>1, <2>2, <3>1, ClaimStays
    <3>3. \A q \in proc'[r].left : change'[q] # None
      BY <1>l, <2>2, <3>1
    <3> QED
      BY <2>1, <2>2, <2>h, <2>4, <3>1, <3>2, <3>3 DEF RunOK, StepOK, TreeOK, ChangeOK
  <2> QED
    BY <2>3, <2>4
<1>6. CASE WorkerFails(r)
  <2>1. proc'[r].step = "gone" /\ proc'[r].left = proc[r].left
    BY <1>t, <1>p, <1>6, GotoTyped DEF WorkerFails
  <2>2. treeRun'[r].status = "failed"
    BY <1>t, <1>6, EndRunTyped DEF WorkerFails
  <2>3. treeRun[r].status # "unused"
    BY <1>6 DEF WorkerFails, InProgress
  <2> QED
    BY <1>a, <1>6, <2>1, <2>2, <2>3, PastStays DEF WorkerFails
<1> QED
  BY <1>1, <1>2, <1>3, <1>4, <1>5, <1>6 DEF Worker

LEMMA CompletionKeeps ==
    ASSUME TreeInv, NEW r \in Run, Completion(r), UNCHANGED workdir
    PROVE  RunOK(r)'
<1> USE DEF files
<1>a. TreesTyped' /\ Alone(r)
  BY CompletionWrites
<1>t. TreesTyped /\ tree[r] \in Trees /\ proc[r] \in Processes /\ treeRun[r] \in RunRows /\ RunOK(r)
  BY DEF TreeInv, TreesTyped
<1>p. {"captured", "recorded", "failed", "gone", "cleaning"} \subseteq Place
  BY DEF Place
<1>s. treeRun[r].status # "unused"
  BY <1>t DEF Completion, CaptureChangeSet, RecordChangeSet, CaptureFails, BlockCapture,
     Finalize, FinalizeTooLate, Cleanup, At, RunOK, ClaimOK
<1>h. /\ HandedOver(r)' = HandedOver(r)
      /\ \A q \in HandedOver(r) : change'[q] = change[q]
      /\ InWorktree(r)' <=> InWorktree(r)
  BY <1>a, <1>s, HandedStay
<1>l. \A q \in proc[r].left : q \in Run /\ change[q] # None
  BY <1>t DEF RunOK, StepOK, Processes
<1>1. CASE CaptureChangeSet(r)
  <2> DEFINE taken == [Idle("captured") EXCEPT !.snap = Snapshot(r)]
  <2>1. /\ proc[r].step = "asked" /\ change[r] = None /\ base[r] # None /\ InWorktree(r)
        /\ tree[r].present /\ base[r] \subseteq Snapshot(r)
    BY <1>t, <1>1 DEF CaptureChangeSet, Capturable, At, RunOK, StepOK
  <2>2. taken.step = "captured" /\ taken.left = {} /\ taken.snap = Snapshot(r)
    BY DEF Idle
  <2>3. proc'[r] = taken /\ ref'[r] = Snapshot(r) /\ UNCHANGED <<treeRun, base, change, tree>>
    BY <1>t, <1>1 DEF CaptureChangeSet, TreesTyped
  <2>4. Snapshot(r) \ base[r] \subseteq OwnWork(r)
    BY <1>t, <2>1 DEF RunOK, TreeOK, Snapshot, OwnWork
  <2>5. ClaimOK(r)'
    BY <1>a, <1>s, <2>2, <2>3, ClaimStays
  <2>6. StepOK(r)'
    BY <1>h, <2>1, <2>2, <2>3, <2>4 DEF StepOK, OwnWork
  <2>7. TreeOK(r)'
    BY <2>2, <2>3 DEF TreeOK
  <2>8. ChangeOK(r)'
    BY <1>t, <1>h, <2>1, <2>3 DEF RunOK, ChangeOK
  <2> QED
    BY <2>5, <2>6, <2>7, <2>8 DEF RunOK
<1>2. CASE RecordChangeSet(r)
  <2> DEFINE made == [base |-> base[r], head |-> proc[r].snap]
  <2>1. /\ proc[r].step = "captured" /\ change[r] = None /\ base[r] \in Commit
        /\ ref[r] = proc[r].snap /\ base[r] \subseteq proc[r].snap
        /\ proc[r].snap \ base[r] \subseteq OwnWork(r)
    BY <1>t, <1>2 DEF RecordChangeSet, At, RunOK, StepOK, TreesTyped
  <2>2. proc'[r].step = "recorded" /\ proc'[r].left = proc[r].left
    BY <1>t, <1>p, <1>2, GotoTyped DEF RecordChangeSet
  <2>3. change'[r] = made /\ UNCHANGED <<treeRun, base, ref, tree>>
    BY <1>t, <1>2 DEF RecordChangeSet, TreesTyped
  <2>4. made # None
    <3>1. made \in [base : Commit, head : Commit]
      BY <1>t, <2>1 DEF Processes
    <3> QED
      BY <3>1, TreeAssumption DEF Commit, Change
  <2>5. \A q \in HandedOver(r) : change[q].head \subseteq proc[r].snap
    BY <1>2 DEF RecordChangeSet, Verified, Handoffs, HandedOver, Prerequisites
  <2>6. \A q \in HandedOver(r)' : change'[q].head \subseteq proc[r].snap
    BY <1>h, <2>5
  <2>7. ClaimOK(r)'
    BY <1>a, <1>s, <2>2, <2>3, ClaimStays
  <2>8. \A q \in proc'[r].left : change'[q] # None
    BY <1>a, <1>l, <2>2, ChangesStay
  <2>9. StepOK(r)'
    BY <2>2, <2>3, <2>4, <2>8 DEF StepOK
  <2>10. TreeOK(r)'
    BY <2>2 DEF TreeOK
  <2>11. ChangeOK(r)'
    BY <2>1, <2>3, <2>4, <2>6 DEF ChangeOK, Contains, OwnWork
  <2> QED
    BY <2>7, <2>9, <2>10, <2>11 DEF RunOK
<1>3. CASE CaptureFails(r)
  <2>1. proc'[r].step = "failed" /\ proc'[r].left = proc[r].left
    BY <1>t, <1>p, <1>3, GotoTyped DEF CaptureFails
  <2> QED
    BY <1>a, <1>s, <1>3, <2>1, PastStays DEF CaptureFails
<1>4. CASE BlockCapture(r)
  <2>1. proc'[r].step = "gone" /\ proc'[r].left = proc[r].left
    BY <1>t, <1>p, <1>4, GotoTyped DEF BlockCapture
  <2>2. treeRun' = treeRun \/ treeRun'[r].status = "blocked"
    BY <1>t, <1>4, EndRunTyped DEF BlockCapture
  <2> QED
    BY <1>a, <1>s, <1>4, <2>1, <2>2, PastStays DEF BlockCapture
<1>5. CASE Finalize(r)
  <2>1. proc[r].step = "recorded" /\ UNCHANGED <<change, ref, base, tree>>
    BY <1>5 DEF Finalize, At
  <2>2. proc'[r].step \in {"cleaning", "gone"} /\ proc'[r].left = proc[r].left
    BY <1>t, <1>p, <1>5, GotoTyped DEF Finalize
  <2>3. treeRun'[r].status = "completed"
    BY <1>t, <1>5, EndRunTyped DEF Finalize
  <2>4. InWorktree(r) => change[r] # None
    BY <1>t, <2>1 DEF RunOK, StepOK
  <2>5. ClaimOK(r)'
    BY <1>a, <1>s, <2>2, <2>3, ClaimStays
  <2>6. StepOK(r)'
    BY <1>l, <2>1, <2>2 DEF StepOK
  <2>7. TreeOK(r)'
    BY <2>2 DEF TreeOK
  <2>8. ChangeOK(r)'
    BY <1>t, <1>h, <2>1, <2>4 DEF RunOK, ChangeOK, OwnWork, Contains
  <2> QED
    BY <2>5, <2>6, <2>7, <2>8 DEF RunOK
<1>6. CASE FinalizeTooLate(r)
  <2>1. proc'[r].step = "gone" /\ proc'[r].left = proc[r].left
    BY <1>t, <1>p, <1>6, GotoTyped DEF FinalizeTooLate
  <2> QED
    BY <1>a, <1>s, <1>6, <2>1, PastStays DEF FinalizeTooLate
<1>7. CASE Cleanup(r)
  <2>1. proc'[r].step = "gone" /\ proc'[r].left = proc[r].left
    BY <1>t, <1>p, <1>7, GotoTyped DEF Cleanup
  <2> QED
    BY <1>a, <1>s, <1>7, <2>1, PastStays DEF Cleanup
<1> QED
  BY <1>1, <1>2, <1>3, <1>4, <1>5, <1>6, <1>7 DEF Completion

LEMMA CrashesKeep ==
    ASSUME TreeInv, NEW r \in Run, Dies(r) \/ RecoverAbandoned(r), UNCHANGED workdir
    PROVE  RunOK(r)'
<1> USE DEF files
<1>a. TreesTyped' /\ Alone(r)
  BY CrashesWrite
<1>t. TreesTyped /\ tree[r] \in Trees /\ proc[r] \in Processes /\ RunOK(r)
  BY DEF TreeInv, TreesTyped
<1>i. \A step \in {"crashed", "gone"} : Idle(step).step = step /\ Idle(step).left = {}
  BY DEF Idle
<1>1. CASE Dies(r)
  <2>1. proc'[r] = Idle("crashed") \/ proc'[r] = Idle("gone")
    BY <1>t, <1>1 DEF Dies, TreesTyped
  <2>2. treeRun[r].status # "unused"
    BY <1>t, <1>1 DEF Dies, RunOK, ClaimOK
  <2> QED
    BY <1>a, <1>i, <1>1, <2>1, <2>2, PastStays DEF Dies
<1>2. CASE RecoverAbandoned(r)
  <2>1. /\ treeRun[r].status = "running" /\ treeRun'[r].status = "reclaimed"
        /\ UNCHANGED <<tree, base, ref, change>>
    BY <1>t, <1>2, EndRunTyped DEF RecoverAbandoned, InProgress
  <2>2. CASE At(r, "crashed")
    <3>1. proc'[r] = Idle("gone")
      BY <1>t, <1>2, <2>2 DEF RecoverAbandoned, TreesTyped
    <3> QED
      BY <1>a, <1>i, <2>1, <3>1, PastStays
  <2>3. CASE ~ At(r, "crashed")
    <3>1. proc' = proc /\ proc[r].step # "unused"
      BY <1>t, <1>2, <2>1, <2>3 DEF RecoverAbandoned, RunOK, ClaimOK
    <3>2. /\ HandedOver(r)' = HandedOver(r)
          /\ \A q \in HandedOver(r) : change'[q] = change[q]
          /\ InWorktree(r)' <=> InWorktree(r)
      BY <1>a, <2>1, HandedStay
    <3>3. ClaimOK(r)'
      BY <1>a, <2>1, <3>1, ClaimStays
    <3>4. StepOK(r)' /\ TreeOK(r)'
      BY <1>t, <2>1, <3>1, <3>2 DEF RunOK, StepOK, TreeOK, OwnWork, Contains, Clean
    <3>5. ChangeOK(r)'
      BY <1>t, <2>1, <3>2 DEF RunOK, ChangeOK, OwnWork, Contains
    <3> QED
      BY <3>3, <3>4, <3>5 DEF RunOK
  <2> QED
    BY <2>2, <2>3
<1> QED
  BY <1>1, <1>2

LEMMA ClaimKeeps ==
    ASSUME TreeInv, NEW t \in Task, ClaimTask(t), UNCHANGED workdir
    PROVE  TreeInv' /\ \E r \in Run : Alone(r)
<1> USE DEF files
<1>1. PICK r \in Run :
          /\ TreesTyped' /\ Alone(r)
          /\ treeRun[r].status = "unused" /\ treeRun'[r].status = "running"
          /\ treeRun'[r].task = t /\ \A e \in Prerequisites(t) : pin[e] # "open"
          /\ proc'[r].step = "claimed" /\ proc'[r].left = proc[r].left
          /\ UNCHANGED <<pin, files>>
  BY ClaimWrites
<1>2. RunOK(r) /\ proc[r] \in Processes
  BY DEF TreeInv, TreesTyped
<1>3. change'[r] = None
  BY <1>1, <1>2 DEF RunOK, ClaimOK, StepOK
<1>4. \A q \in proc'[r].left : change'[q] # None
  BY <1>1, <1>2 DEF RunOK, StepOK
<1>5. RunOK(r)'
  BY <1>1, <1>3, <1>4 DEF RunOK, ClaimOK, StepOK, TreeOK, ChangeOK, Prerequisites
<1>6. \A s \in Run \ {r} : RunOK(s)'
  BY <1>1, OthersStay
<1> QED
  BY <1>1, <1>5, <1>6, PinsStay DEF TreeInv

\* Steps after which nothing is left but less, or the same, of the directories.
LEMMA RemovalKeeps ==
    ASSUME TreeInv, TreesTyped', UNCHANGED <<workdir, pin, treeRun, base, ref, change, proc>>,
           \A r \in Run : tree'[r] = tree[r] \/ tree'[r] = NoTree
    PROVE  TreeInv'
<1>1. PinsCompleted'
  BY DEF TreeInv, PinsCompleted
<1>2. ASSUME NEW r \in Run PROVE RunOK(r)'
  <2>1. RunOK(r)
    BY DEF TreeInv
  <2>2. HandedOver(r)' = HandedOver(r) /\ (InWorktree(r)' <=> InWorktree(r))
    BY DEF HandedOver, InWorktree, RunKind, Kind
  <2>3. ClaimOK(r)' /\ StepOK(r)' /\ ChangeOK(r)'
    BY <2>1, <2>2 DEF RunOK, ClaimOK, StepOK, ChangeOK, OwnWork, Contains, Prerequisites
  <2>4. CASE tree'[r] = tree[r]
    BY <2>1, <2>2, <2>3, <2>4 DEF RunOK, TreeOK, OwnWork, Contains, Clean
  <2>5. CASE tree'[r] = NoTree
    BY <2>3, <2>5 DEF RunOK, TreeOK, NoTree
  <2> QED
    BY <2>4, <2>5
<1> QED
  BY <1>1, <1>2 DEF TreeInv

LEMMA PeopleKeep ==
    ASSUME TreeInv, UNCHANGED workdir,
           \/ \E t \in Task : Reopen(t) \/ BeginCollect(t)
           \/ \E q \in Run : MergeIntoMain(q)
           \/ EndCollect
    PROVE  TreeInv' /\ UNCHANGED <<pin, ref, change, proc>>
<1> USE DEF files
<1>t. TreesTyped
  BY DEF TreeInv
<1>1. CASE \E t \in Task : Reopen(t) \/ BeginCollect(t)
  <2>1. TreesTyped' /\ UNCHANGED <<pin, treeRun, base, ref, change, proc, tree>>
    BY <1>t, <1>1 DEF Reopen, BeginCollect, TreesTyped, TaskStatuses
  <2> QED
    BY <2>1, RemovalKeeps
<1>2. CASE \E q \in Run : MergeIntoMain(q)
  <2>1. PICK q \in Run : MergeIntoMain(q)
    BY <1>2
  <2>2. main' \in Commit
    BY <1>t, <2>1 DEF MergeIntoMain, TreesTyped, Commit
  <2>3. TreesTyped' /\ UNCHANGED <<pin, treeRun, base, ref, change, proc, tree>>
    BY <1>t, <2>1, <2>2 DEF MergeIntoMain, TreesTyped
  <2> QED
    BY <2>3, RemovalKeeps
<1>3. CASE EndCollect
  <2>1. NoTree \in Trees
    BY DEF NoTree, Trees, Commit
  <2>2. \A r \in Run : tree'[r] = tree[r] \/ tree'[r] = NoTree
    BY <1>3 DEF EndCollect
  <2>3. TreesTyped' /\ UNCHANGED <<pin, treeRun, base, ref, change, proc>>
    BY <1>t, <1>3, <2>1 DEF EndCollect, TreesTyped
  <2> QED
    BY <2>2, <2>3, RemovalKeeps
<1> QED
  BY <1>1, <1>2, <1>3

\* Every step is of one run, or leaves pins and change sets alone.
LEMMA TreeSteps ==
    ASSUME TreeInv, TreeNext
    PROVE  /\ TreeInv'
           /\ (\E r \in Run : Alone(r)) \/ UNCHANGED <<pin, ref, change, proc>>
<1>0. UNCHANGED workdir
  BY DEF TreeNext
<1>1. ASSUME NEW r \in Run, TreesTyped', Alone(r), RunOK(r)' PROVE TreeInv'
  BY <1>1, OthersStay, PinsStay DEF TreeInv
<1>2. CASE \E t \in Task : ClaimTask(t)
  BY <1>0, <1>2, ClaimKeeps
<1>3. ASSUME NEW r \in Run, Preparation(r) PROVE TreeInv' /\ Alone(r)
  BY <1>0, <1>1, <1>3, PreparationWrites, PreparationKeeps
<1>4. ASSUME NEW r \in Run, FanIn(r) PROVE TreeInv' /\ Alone(r)
  BY <1>0, <1>1, <1>4, FanInWrites, FanInKeeps
<1>5. ASSUME NEW r \in Run, Worker(r) PROVE TreeInv' /\ Alone(r)
  BY <1>0, <1>1, <1>5, WorkerWrites, WorkerKeeps
<1>6. ASSUME NEW r \in Run, Completion(r) PROVE TreeInv' /\ Alone(r)
  BY <1>0, <1>1, <1>6, CompletionWrites, CompletionKeeps
<1>7. ASSUME NEW r \in Run, Dies(r) \/ RecoverAbandoned(r) PROVE TreeInv' /\ Alone(r)
  BY <1>0, <1>1, <1>7, CrashesWrite, CrashesKeep
<1>8. CASE \/ \E t \in Task : Reopen(t) \/ BeginCollect(t)
           \/ \E q \in Run : MergeIntoMain(q)
           \/ EndCollect
  BY <1>0, <1>8, PeopleKeep
<1> QED
  BY <1>2, <1>3, <1>4, <1>5, <1>6, <1>7, <1>8 DEF TreeNext, Step

(* The invariant of Worktrees: every run, at each of its steps, has recorded *)
(* what its step says, and its worktree holds what was handed over and its   *)
(* own work.                                                                 *)
THEOREM TreeInvariant == TreeSpec => []TreeInv
<1>1. TreeInv /\ [TreeNext]_treeVars => TreeInv'
  <2>1. CASE TreeNext
    BY <2>1, TreeSteps
  <2>2. CASE UNCHANGED treeVars
    BY <2>2, RemovalKeeps DEF treeVars, TreeInv, TreesTyped
  <2> QED
    BY <2>1, <2>2
<1> QED
  BY <1>1, TreeInvFirst, PTL DEF TreeSpec

(* Every reachable state has its type.                                       *)
THEOREM TreesTypeCorrect == TreeSpec => []TreeTypeOK
<1>1. TreeInv => TreeTypeOK
  BY TypesJoin DEF TreeInv
<1> QED
  BY <1>1, TreeInvariant, PTL

(* A completed run in a worktree has a change set, whose ref names it and    *)
(* which contains everything its prerequisites handed over.                  *)
THEOREM WorkIsHandedOn == TreeSpec => []HandoffComplete
<1>1. TreeInv => HandoffComplete
  BY DEF TreeInv, RunOK, ChangeOK, Contains, InWorktree, HandoffComplete
<1> QED
  BY <1>1, TreeInvariant, PTL

(* A change set adds to its base what its own run wrote, and drops nothing.  *)
THEOREM WorkIsOwn == TreeSpec => []OwnWorkOnly
<1>1. TreeInv => OwnWorkOnly
  BY DEF TreeInv, RunOK, ChangeOK, OwnWork, OwnWorkOnly
<1> QED
  BY <1>1, TreeInvariant, PTL

(* A worker starts in a clean worktree with all that was handed over to it,  *)
(* and what was handed over never changes.                                   *)
THEOREM FanInSound == TreeSpec => FanInIsSound
<1> DEFINE begins ==
      \A r \in Run :
          StartWork(r) /\ At(r, "ready") /\ proc'[r].step = "working"
              /\ RunKind(r) = "worktree" /\ tree[r].present =>
          /\ tree[r].head = base[r] /\ ~tree[r].dirty /\ ~tree[r].merging
          /\ \A q \in HandedOver(r) : change[q].head \subseteq base[r]
<1> DEFINE fixed ==
      /\ \A r \in Run : change[r] # None => change'[r] = change[r] /\ ref'[r] = ref[r]
      /\ \A e \in Before : pin[e] # "open" => pin'[e] = pin[e]
<1>1. TreeInv => begins
  BY DEF TreeInv, RunOK, TreeOK, Clean, Contains, InWorktree, At
<1>2. TreeInv /\ [TreeNext]_treeVars => [fixed]_treeVars
  <2>1. ASSUME TreeInv, TreeNext, NEW r \in Run, Alone(r) PROVE fixed
    BY <2>1 DEF Alone
  <2>2. ASSUME UNCHANGED <<pin, ref, change, proc>> PROVE fixed
    BY <2>2
  <2> QED
    BY <2>1, <2>2, TreeSteps
<1>3. TreeSpec => [][begins]_treeVars
  BY <1>1, TreeInvariant, PTL DEF TreeSpec
<1>4. TreeSpec => [][fixed]_treeVars
  BY <1>2, TreeInvariant, PTL DEF TreeSpec
<1> QED
  BY <1>3, <1>4 DEF FanInIsSound, StartsComplete, HandoffsFixed

-----------------------------------------------------------------------------
(* Worktrees: work is handed over as Handovers promises.                    *)

\* A running run has its task, alone, and a task is of a run from its claim on.
HasTask ==
    /\ \A r \in Run : treeRun[r].task = None <=> treeRun[r].status = "unused"
    /\ \A r \in Run : InProgress(r) =>
          /\ task[treeRun[r].task] = "running"
          /\ \A q \in Run : InProgress(q) /\ treeRun[q].task = treeRun[r].task => q = r

HandoverInv == TreeInv /\ HasTask

\* What a step does to the rows of tasks and runs, pins and change sets.
Claims(t, r) ==
    /\ treeRun[r].status = "unused" /\ task[t] = "todo"
    /\ \A e \in Before : e[2] = t => pin[e] # "open"
    /\ task' = [task EXCEPT ![t] = "running"]
    /\ treeRun'[r].status = "running" /\ treeRun'[r].task = t
    /\ \A q \in Run \ {r} : treeRun'[q] = treeRun[q]
    /\ UNCHANGED <<change, pin>>

Ends(r) ==
    /\ InProgress(r)
    /\ \E s \in {"completed", "blocked", "failed", "reclaimed"}, w \in {"todo", "blocked", "done"} :
          EndRun(r, s, w)
    /\ UNCHANGED change

Records(r) ==
    /\ InProgress(r) /\ change[r] = None
    /\ \E set \in ChangeSets :
          /\ change' = [change EXCEPT ![r] = set]
          /\ set.base \subseteq set.head /\ set.head \ set.base \subseteq OwnWork(r)
          /\ \A q \in Handoffs(treeRun[r].task) : change[q].head \subseteq set.head
    /\ UNCHANGED <<task, treeRun, pin>>

Finishes(r) ==
    /\ Ends(r)
    /\ InWorktree(r) => change[r] # None
    /\ pin' = [e \in Before |-> IF e[1] = treeRun[r].task /\ pin[e] = "open" THEN r ELSE pin[e]]

Rests ==
    /\ \A r \in Run : treeRun'[r].task = treeRun[r].task /\ treeRun'[r].status = treeRun[r].status
    /\ \A t \in Task : task'[t] = task[t] \/ task[t] \in {"blocked", "done"}
    /\ UNCHANGED <<change, pin>>

Moves(r) == Records(r) \/ Finishes(r) \/ (Ends(r) /\ UNCHANGED pin) \/ Rests

LEMMA HandoverBegins == TreeInit => HandoverInv
  BY TreeInvFirst DEF HandoverInv, HasTask, TreeInit, InProgress

LEMMA RowsRest ==
    ASSUME UNCHANGED <<task, treeRun, change, pin>> PROVE Rests
  BY DEF Rests

LEMMA ClaimMoves ==
    ASSUME TreeInv, NEW t \in Task, ClaimTask(t)
    PROVE  \E r \in Run : Claims(t, r)
<1> DEFINE r == CHOOSE x \in Run : treeRun[x].status = "unused"
           claimed == [task |-> t, status |-> "running", managed |-> t \notin Direct,
                       request |-> FALSE]
<1>1. r \in Run /\ treeRun[r].status = "unused"
  BY DEF ClaimTask
<1>2. treeRun' = [treeRun EXCEPT ![r] = claimed]
  BY DEF ClaimTask
<1>3. treeRun'[r] = claimed /\ \A q \in Run \ {r} : treeRun'[q] = treeRun[q]
  BY <1>1, <1>2 DEF TreeInv, TreesTyped
<1> HIDE DEF r
<1>4. Claims(t, r)
  BY <1>1, <1>3 DEF ClaimTask, Claims, Prerequisites, files
<1> QED
  BY <1>1, <1>4

LEMMA PreparationMoves ==
    ASSUME TreeInv, NEW r \in Run, Preparation(r) PROVE Moves(r)
<1>1. CASE PrepareWorkspace(r)
  BY <1>1, RowsRest DEF PrepareWorkspace, Moves
<1>2. CASE PrepareFails(r)
  BY <1>2, RowsRest DEF PrepareFails, Ends, files, Moves
<1> QED
  BY <1>1, <1>2 DEF Preparation

LEMMA FanInMoves ==
    ASSUME TreeInv, NEW r \in Run, FanIn(r) PROVE Moves(r)
<1>1. CASE BeginIntegration(r) \/ MergeNext(r) \/ RollbackIntegration(r) \/ AdvanceBase(r)
  BY <1>1, RowsRest DEF BeginIntegration, MergeNext, RollbackIntegration, AdvanceBase, files, Moves
<1>2. CASE BlockIntegration(r) \/ AdvanceBaseFails(r)
  BY <1>2, RowsRest DEF BlockIntegration, AdvanceBaseFails, Ends, files, Moves
<1> QED
  BY <1>1, <1>2 DEF FanIn

LEMMA WorkerMoves ==
    ASSUME TreeInv, NEW r \in Run, Worker(r) PROVE Moves(r)
<1>1. CASE StartWork(r) \/ WorkerCommits(r) \/ WorkerEdits(r) \/ WorkerRewrites(r)
  BY <1>1, RowsRest DEF StartWork, WorkerCommits, WorkerEdits, WorkerRewrites, files, Moves
<1>2. CASE AskToComplete(r)
  <2>1. treeRun \in [Run -> RunRows]
    BY DEF TreeInv, TreesTyped
  <2>2. \A q \in Run : treeRun'[q].task = treeRun[q].task /\ treeRun'[q].status = treeRun[q].status
    BY <1>2, <2>1 DEF AskToComplete, RunRows
  <2> QED
    BY <1>2, <2>2 DEF AskToComplete, Rests, files, Moves
<1>3. CASE WorkerFails(r)
  BY <1>3 DEF WorkerFails, Ends, files, Moves
<1> QED
  BY <1>1, <1>2, <1>3 DEF Worker

LEMMA CompletionMoves ==
    ASSUME TreeInv, NEW r \in Run, Completion(r) PROVE Moves(r)
<1>t. TreesTyped /\ RunOK(r)
  BY DEF TreeInv
<1>1. CASE CaptureChangeSet(r) \/ CaptureFails(r) \/ FinalizeTooLate(r) \/ Cleanup(r)
  BY <1>1, RowsRest DEF CaptureChangeSet, CaptureFails, FinalizeTooLate, Cleanup, files, Moves
<1>2. CASE RecordChangeSet(r)
  <2> DEFINE set == [base |-> base[r], head |-> proc[r].snap]
  <2>1. proc[r].step = "captured" /\ InProgress(r) /\ Verified(r)
    BY <1>2 DEF RecordChangeSet, At
  <2>2. /\ change[r] = None /\ base[r] # None
        /\ base[r] \subseteq proc[r].snap /\ proc[r].snap \ base[r] \subseteq OwnWork(r)
    BY <1>t, <2>1 DEF RunOK, StepOK
  <2>3. base[r] \in Commit /\ proc[r].snap \in Commit
    BY <1>t, <2>2 DEF TreesTyped, Processes
  <2>4. set \in ChangeSets /\ set.base = base[r] /\ set.head = proc[r].snap
    BY <2>3 DEF ChangeSets
  <2>5. \A q \in Handoffs(treeRun[r].task) : change[q].head \subseteq set.head
    BY <2>1, <2>4 DEF Verified
  <2>6. change' = [change EXCEPT ![r] = set] /\ UNCHANGED <<task, treeRun, pin>>
    BY <1>2 DEF RecordChangeSet
  <2> HIDE DEF set
  <2> QED
    BY <2>1, <2>2, <2>4, <2>5, <2>6 DEF Records, Moves
<1>3. CASE BlockCapture(r)
  BY <1>3, RowsRest DEF BlockCapture, Ends, files, Moves
<1>4. CASE Finalize(r)
  <2>1. proc[r].step = "recorded" /\ InProgress(r)
    BY <1>4 DEF Finalize, At
  <2>2. InWorktree(r) => change[r] # None
    BY <1>t, <2>1 DEF RunOK, StepOK
  <2>3. Ends(r)
    BY <1>4, <2>1 DEF Finalize, Ends, files
  <2> QED
    BY <1>4, <2>2, <2>3 DEF Finalize, Finishes, Moves
<1> QED
  BY <1>1, <1>2, <1>3, <1>4 DEF Completion

LEMMA OthersMove ==
    ASSUME TreeInv,
           \/ \E r \in Run : MergeIntoMain(r) \/ Dies(r)
           \/ \E t \in Task : Reopen(t) \/ BeginCollect(t)
           \/ EndCollect
    PROVE  Rests
<1>1. CASE \E r \in Run : MergeIntoMain(r) \/ Dies(r)
  BY <1>1, RowsRest DEF MergeIntoMain, Dies, files
<1>2. CASE \E t \in Task : Reopen(t)
  BY <1>2 DEF Reopen, Rests, files, TreeInv, TreesTyped
<1>3. CASE \E t \in Task : BeginCollect(t)
  BY <1>3, RowsRest DEF BeginCollect, files
<1>4. CASE EndCollect
  BY <1>4, RowsRest DEF EndCollect
<1> QED
  BY <1>1, <1>2, <1>3, <1>4

LEMMA RecoveryMoves ==
    ASSUME TreeInv, NEW r \in Run, RecoverAbandoned(r) PROVE Moves(r)
  BY DEF RecoverAbandoned, Ends, files, Moves

LEMMA TreeMoves ==
    ASSUME TreeInv, TreeNext
    PROVE  (\E r \in Run : Moves(r) \/ \E t \in Task : Claims(t, r)) \/ Rests
  BY ClaimMoves, PreparationMoves, FanInMoves, WorkerMoves, CompletionMoves, OthersMove, RecoveryMoves
     DEF TreeNext, Step

\* The rows a step ends a run with.
LEMMA EndRows ==
    ASSUME TreesTyped, HasTask, NEW r \in Run, Ends(r)
    PROVE  /\ treeRun[r].task \in Task /\ task[treeRun[r].task] = "running"
           /\ \A t \in Task \ {treeRun[r].task} : task'[t] = task[t]
           /\ treeRun'[r].task = treeRun[r].task
           /\ treeRun'[r].status \notin {"unused", "running"}
           /\ \A q \in Run \ {r} : treeRun'[q] = treeRun[q]
<1>1. PICK s \in {"completed", "blocked", "failed", "reclaimed"}, w \in {"todo", "blocked", "done"} :
          EndRun(r, s, w)
  BY DEF Ends
<1>2. treeRun \in [Run -> RunRows] /\ task \in [Task -> TaskStatuses] /\ treeRun[r] \in RunRows
  BY DEF TreesTyped
<1>3. treeRun' = [treeRun EXCEPT ![r].status = s, ![r].request = FALSE]
  BY <1>1 DEF EndRun
<1>4. /\ treeRun'[r].task = treeRun[r].task /\ treeRun'[r].status = s
      /\ \A q \in Run \ {r} : treeRun'[q] = treeRun[q]
  BY <1>2, <1>3 DEF RunRows
<1>5. treeRun[r].status = "running" /\ task[treeRun[r].task] = "running"
  BY DEF Ends, HasTask, InProgress
<1>6. treeRun[r].task \in Task
  BY <1>2, <1>5 DEF RunRows, HasTask
<1>7. task' = [task EXCEPT ![treeRun[r].task] = w]
  BY <1>1 DEF EndRun
<1> QED
  BY <1>2, <1>4, <1>5, <1>6, <1>7

LEMMA TasksStay ==
    ASSUME HandoverInv, TreeNext PROVE HasTask'
<1>t. TreesTyped /\ HasTask
  BY DEF HandoverInv, TreeInv
<1>1. ASSUME NEW r \in Run, NEW t \in Task, Claims(t, r) PROVE HasTask'
  <2>1. /\ treeRun'[r].status = "running" /\ treeRun'[r].task = t /\ t # None
        /\ \A q \in Run \ {r} : treeRun'[q] = treeRun[q]
        /\ \A q \in Run : InProgress(q) => treeRun[q].task # t
    BY <1>t, <1>1, TreeAssumption DEF Claims, HasTask
  <2>2. task'[t] = "running" /\ \A u \in Task \ {t} : task'[u] = task[u]
    BY <1>t, <1>1 DEF Claims, TreesTyped
  <2>3. \A q \in Run : InProgress(q) => treeRun[q].task \in Task
    BY <1>t DEF TreesTyped, RunRows, HasTask, InProgress
  <2>4. \A q \in Run \ {r} : InProgress(q)' => InProgress(q) /\ task'[treeRun'[q].task] = "running"
    BY <1>t, <2>1, <2>2, <2>3 DEF InProgress, HasTask
  <2> QED
    BY <1>t, <2>1, <2>2, <2>4 DEF HasTask, InProgress
<1>2. ASSUME NEW r \in Run, Ends(r) PROVE HasTask'
  <2>1. /\ treeRun[r].task \in Task
        /\ \A t \in Task \ {treeRun[r].task} : task'[t] = task[t]
        /\ treeRun'[r].task = treeRun[r].task
        /\ treeRun'[r].status \notin {"unused", "running"}
        /\ \A q \in Run \ {r} : treeRun'[q] = treeRun[q]
    BY <1>t, <1>2, EndRows
  <2>2. InProgress(r)
    BY <1>2 DEF Ends
  <2>3. \A q \in Run : InProgress(q) => treeRun[q].task \in Task
    BY <1>t DEF TreesTyped, RunRows, HasTask, InProgress
  <2>4. \A q \in Run \ {r} : InProgress(q)' => InProgress(q) /\ treeRun[q].task # treeRun[r].task
    BY <1>t, <2>1, <2>2 DEF InProgress, HasTask
  <2>5. \A q \in Run : InProgress(q)' => q # r /\ task'[treeRun'[q].task] = "running"
    BY <1>t, <2>1, <2>3, <2>4 DEF InProgress, HasTask
  <2>6. treeRun[r].task # None /\ treeRun[r].status # "unused"
    BY <1>t, <2>2 DEF HasTask, InProgress
  <2> QED
    BY <1>t, <2>1, <2>4, <2>5, <2>6 DEF HasTask, InProgress
<1>3. ASSUME NEW r \in Run, Records(r) PROVE HasTask'
  BY <1>t, <1>3 DEF Records, HasTask, InProgress
<1>4. ASSUME Rests PROVE HasTask'
  <2>1. \A q \in Run : InProgress(q) => treeRun[q].task \in Task
    BY <1>t DEF TreesTyped, RunRows, HasTask, InProgress
  <2>2. \A q \in Run : InProgress(q)' <=> InProgress(q)
    BY <1>4 DEF Rests, InProgress
  <2>3. \A q \in Run : InProgress(q) => task'[treeRun'[q].task] = "running"
    BY <1>t, <1>4, <2>1 DEF Rests, HasTask
  <2> QED
    BY <1>t, <1>4, <2>2, <2>3 DEF HasTask, Rests
<1> QED
  BY <1>1, <1>2, <1>3, <1>4, TreeMoves DEF Moves, Finishes, HandoverInv

\* The refinement mapping.
Works == [r \in Run |-> treeRun[r].task]
Ended == {r \in Run : treeRun[r].status \notin {"unused", "running"}}
Keeping == {t \in Task : Kind(t) = "worktree"}

\* What stands for the inherited results.
LEMMA InheritedHeads ==
    ASSUME NEW t \in Task
    PROVE  Work!Inherited(t) = {change[q] : q \in Handoffs(t)}
<1>1. {e \in Before : e[2] = t} = Prerequisites(t)
  BY DEF Prerequisites
<1> QED
  BY <1>1 DEF Work!Inherited, Handoffs

LEMMA ClaimsBegin ==
    ASSUME TreesTyped, HasTask, NEW r \in Run, NEW t \in Task, Claims(t, r), UNCHANGED workdir
    PROVE  Work!Begin(t, r)
<1>1. Works[r] = None /\ r \notin Ended
  BY DEF Claims, HasTask, Works, Ended
<1>2. \A q \in Run : Works[q] = t => q \in Ended
  <2>1. \A q \in Run : treeRun[q].task = t => treeRun[q].status # "unused"
    BY TreeAssumption DEF HasTask
  <2>2. \A q \in Run : treeRun[q].task = t => treeRun[q].status # "running"
    BY DEF HasTask, InProgress, Claims
  <2> QED
    BY <2>1, <2>2 DEF Works, Ended
<1>3. Works' = [Works EXCEPT ![r] = t]
  BY DEF Works, Claims
<1>4. Ended' = Ended
  BY DEF Ended, Claims
<1>5. Keeping' = Keeping
  BY DEF Keeping, Kind
<1> QED
  BY <1>1, <1>2, <1>3, <1>4, <1>5 DEF Work!Begin, Claims, Works, Ended, Keeping

LEMMA RunsBegun ==
    ASSUME HasTask, NEW r \in Run, InProgress(r) PROVE Work!Begun(r)
<1>1. Works[r] # None /\ r \notin Ended
  BY DEF HasTask, InProgress, Works, Ended
<1> QED
  BY <1>1 DEF Work!Begun, Works, Ended

LEMMA RecordsMake ==
    ASSUME TreesTyped, HasTask, NEW r \in Run, Records(r), UNCHANGED workdir
    PROVE  Work!Make(r)
<1>1. PICK set \in ChangeSets :
          /\ change' = [change EXCEPT ![r] = set]
          /\ set.base \subseteq set.head /\ set.head \ set.base \subseteq OwnWork(r)
          /\ \A q \in Handoffs(treeRun[r].task) : change[q].head \subseteq set.head
  BY DEF Records
<1>2. change'[r] = set /\ change' = [change EXCEPT ![r] = change'[r]]
  BY <1>1 DEF TreesTyped
<1>3. Work!Begun(r)
  BY RunsBegun DEF Records
<1>4. treeRun[r].task \in Task /\ Works[r] = treeRun[r].task
  BY DEF TreesTyped, RunRows, HasTask, Records, InProgress, Works
<1>5. \A found \in Work!Inherited(Works[r]) : found.head \subseteq change'[r].head
  BY <1>1, <1>2, <1>4, InheritedHeads
<1>6. Works' = Works /\ Ended' = Ended /\ Keeping' = Keeping
  BY DEF Works, Ended, Keeping, Kind, Records
<1>7. set \in [base : SUBSET (Run \X {"commit", "snapshot"}), head : SUBSET (Run \X {"commit", "snapshot"})]
  BY DEF ChangeSets, Commit, Change
<1> QED
  BY <1>1, <1>2, <1>3, <1>5, <1>6, <1>7 DEF Work!Make, Records, Works, Ended, Keeping, OwnWork

LEMMA EndsMove ==
    ASSUME TreesTyped, HasTask, NEW r \in Run, Ends(r), UNCHANGED workdir
    PROVE  /\ Work!Begun(r) /\ Works' = Works /\ Ended' = Ended \cup {r} /\ Keeping' = Keeping
           /\ UNCHANGED change
<1>1. /\ treeRun'[r].task = treeRun[r].task
      /\ treeRun'[r].status \notin {"unused", "running"}
      /\ \A q \in Run \ {r} : treeRun'[q] = treeRun[q]
  BY EndRows
<1>2. Works' = Works /\ Ended' = Ended \cup {r}
  BY <1>1 DEF Works, Ended
<1>3. Keeping' = Keeping
  BY DEF Keeping, Kind
<1> QED
  BY <1>2, <1>3, RunsBegun DEF Ends

LEMMA FinishesHandOn ==
    ASSUME TreesTyped, HasTask, NEW r \in Run, Finishes(r), UNCHANGED workdir
    PROVE  Work!HandOn(r)
<1>1. /\ Work!Begun(r) /\ Works' = Works /\ Ended' = Ended \cup {r} /\ Keeping' = Keeping
      /\ UNCHANGED change
  BY EndsMove DEF Finishes
<1>2. Works[r] \in Keeping => change[r] # None
  BY DEF Finishes, Works, Keeping, InWorktree, RunKind
<1>3. pin' = [e \in Before |-> IF e[1] = Works[r] /\ pin[e] = "open" THEN r ELSE pin[e]]
  BY DEF Finishes, Works
<1> QED
  BY <1>1, <1>2, <1>3 DEF Work!HandOn, Works, Ended, Keeping

LEMMA EndsGiveUp ==
    ASSUME TreesTyped, HasTask, NEW r \in Run, Ends(r), UNCHANGED <<pin, workdir>>
    PROVE  Work!GiveUp(r)
<1>1. /\ Work!Begun(r) /\ Works' = Works /\ Ended' = Ended \cup {r} /\ Keeping' = Keeping
      /\ UNCHANGED change
  BY EndsMove
<1> QED
  BY <1>1 DEF Work!GiveUp, Works, Ended, Keeping

LEMMA RestsStutter ==
    ASSUME Rests, UNCHANGED workdir
    PROVE  UNCHANGED Work!vars
<1>1. Works' = Works /\ Ended' = Ended /\ Keeping' = Keeping
  BY DEF Works, Ended, Keeping, Kind, Rests
<1> QED
  BY <1>1 DEF Work!vars, Rests, Works, Ended, Keeping

(* Whatever becomes of directories and processes, the recorded work of runs  *)
(* is what Handovers allows: a task is worked on by one run at a time, which *)
(* makes its result once, of all that was handed over and its own changes.   *)
THEOREM WorkHandedOver == TreeSpec => WorkIsHandedOver
<1>1. TreeInit => Work!Init
  BY DEF TreeInit, Work!Init
<1>2. HandoverInv /\ [TreeNext]_treeVars => HandoverInv'
  <2>1. CASE TreeNext
    BY <2>1, TreeSteps, TasksStay DEF HandoverInv
  <2>2. ASSUME HandoverInv, UNCHANGED treeVars PROVE HandoverInv'
    <3>1. TreeInv'
      BY <2>2, RemovalKeeps DEF treeVars, HandoverInv, TreeInv, TreesTyped
    <3> QED
      BY <2>2, <3>1 DEF HandoverInv, HasTask, InProgress, treeVars
  <2> QED
    BY <2>1, <2>2
<1>3. HandoverInv /\ [TreeNext]_treeVars => [Work!Next]_(Work!vars)
  <2>1. ASSUME HandoverInv, TreeNext PROVE [Work!Next]_(Work!vars)
    <3>1. TreesTyped /\ HasTask /\ UNCHANGED workdir
      BY <2>1 DEF HandoverInv, TreeInv, TreeNext
    <3>2. ASSUME NEW r \in Run, NEW t \in Task, Claims(t, r) PROVE Work!Next
      BY <3>1, <3>2, ClaimsBegin DEF Work!Next
    <3>3. ASSUME NEW r \in Run, Records(r) \/ Finishes(r) \/ (Ends(r) /\ UNCHANGED pin)
          PROVE  Work!Next
      BY <3>1, <3>3, RecordsMake, FinishesHandOn, EndsGiveUp DEF Work!Next
    <3>4. ASSUME Rests PROVE UNCHANGED Work!vars
      BY <3>1, <3>4, RestsStutter
    <3> QED
      BY <2>1, <3>2, <3>3, <3>4, TreeMoves DEF HandoverInv, Moves
  <2>2. ASSUME UNCHANGED treeVars PROVE UNCHANGED Work!vars
    BY <2>2, RowsRest, RestsStutter DEF treeVars
  <2> QED
    BY <2>1, <2>2
<1> QED
  BY <1>1, <1>2, <1>3, HandoverBegins, PTL DEF TreeSpec, WorkIsHandedOver, Work!Spec

-----------------------------------------------------------------------------
(* The terminal board.                                                      *)

\* Records by their fields.
IsList(l) == DOMAIN l = {"rows", "visible", "column", "cursor"}
IsModal(m) == DOMAIN m = {"kind", "action", "task", "seen"}
IsMutation(m) == DOMAIN m = {"step", "action", "task", "seen"}
IsLoad(load) == DOMAIN load = {"step", "search", "archived", "rows", "ok"}

\* Every task has a row, and one that is there a status with a column.
KnownRows(rows) == \A t \in DOMAIN rows : t \in Card /\ rows[t].status \in Named(TRUE)

RowsOK == DOMAIN row = Card /\ \A t \in Card : row[t].status \in Named(TRUE) \cup {"absent"}

\* An answer that was asked for without the archived tasks has none.
AnswerOK(load) ==
    /\ IsLoad(load)
    /\ load.step = "answered" /\ load.ok =>
          /\ KnownRows(load.rows)
          /\ ~ load.archived => \A t \in DOMAIN load.rows : load.rows[t].status # "archived"

\* While something is open nothing is under way, and it is open for the task
\* it was opened on.
ModalOK ==
    /\ IsModal(modal) /\ IsMutation(mutation)
    /\ modal # NoModal =>
          /\ modal.kind \in {"menu", "form", "prompt", "confirm"}
          /\ mutation = NoMutation /\ modal.task = chosen
    /\ PinnedToDisplayed

ListOK == /\ IsList(list) /\ DOMAIN list.cursor = Named(TRUE) /\ archived \in BOOLEAN
          /\ \A load \in loads : AnswerOK(load)
          /\ ListMatchesView

ViewOK == ModalOK /\ ListOK

ConsoleInv == ViewOK /\ RowsOK

(* What has a column: what the columns are named for, and, where they are     *)
(* shown, what is archived.                                                   *)
LEMMA NamedStatuses ==
    /\ {"ready", "running", "archived"} \subseteq Named(TRUE)
    /\ \A s \in Named(TRUE) : s # "archived" => s \in Named(FALSE)
    /\ \A all \in BOOLEAN : Len(Statuses(all)) \in Nat /\ DOMAIN Statuses(all) = 1..Len(Statuses(all))
<1> DEFINE Name == STRING \cup {"archived"}
<1>1. Columns \in Seq(Name) /\ <<"archived">> \in Seq(Name)
  BY ConsoleAssumption
<1>2. Columns \o <<"archived">> \in Seq(Name)
  BY <1>1
<1>3. \A all \in BOOLEAN : Len(Statuses(all)) \in Nat /\ DOMAIN Statuses(all) = 1..Len(Statuses(all))
  BY <1>1, <1>2 DEF Statuses
<1>4. /\ Len(Columns \o <<"archived">>) = Len(Columns) + 1
      /\ \A i \in 1..Len(Columns) : (Columns \o <<"archived">>)[i] = Columns[i]
      /\ (Columns \o <<"archived">>)[Len(Columns) + 1] = "archived"
  BY <1>1
<1>5. Len(Columns) \in Nat
  BY <1>1
<1>6. DOMAIN Columns = 1..Len(Columns) /\ DOMAIN (Columns \o <<"archived">>) = 1..(Len(Columns) + 1)
  BY <1>1, <1>2, <1>4
<1>7. Named(FALSE) = {Columns[i] : i \in 1..Len(Columns)}
  BY <1>6 DEF Named, Statuses
<1>8. Named(TRUE) = Named(FALSE) \cup {"archived"}
  <2>1. Named(TRUE) = {(Columns \o <<"archived">>)[i] : i \in 1..(Len(Columns) + 1)}
    BY <1>6 DEF Named, Statuses
  <2>2. 1..(Len(Columns) + 1) = (1..Len(Columns)) \cup {Len(Columns) + 1}
    BY <1>5
  <2> HIDE DEF Named
  <2> QED
    BY <1>4, <1>7, <2>1, <2>2
<1>9. {"ready", "running"} \subseteq Named(FALSE)
  BY <1>6, <1>7, ConsoleAssumption
<1> QED
  BY <1>3, <1>8, <1>9

LEMMA ConsoleFirst == ConsoleInit => ConsoleInv
<1> SUFFICES ASSUME ConsoleInit PROVE ConsoleInv
  OBVIOUS
<1>1. ModalOK
  BY DEF ConsoleInit, ModalOK, IsModal, IsMutation, NoModal, NoMutation, PinnedToDisplayed
<1>2. ListOK
  <2>1. archived = FALSE /\ archived \in BOOLEAN
    BY DEF ConsoleInit
  <2>2. IsList(list) /\ DOMAIN list.cursor = Named(TRUE)
    BY DEF ConsoleInit, IsList
  <2>3. \A load \in loads : AnswerOK(load)
    BY DEF ConsoleInit, AnswerOK, IsLoad
  <2>4. ListMatchesView
    BY DEF ConsoleInit, ListMatchesView
  <2> QED
    BY <2>1, <2>2, <2>3, <2>4 DEF ListOK
<1>3. RowsOK
  <2>1. /\ DOMAIN row = Card
        /\ \A t \in Card : row[t] = Absent \/ row[t].status \in {"ready", "running"}
    BY DEF ConsoleInit
  <2>2. Absent.status = "absent" /\ "ready" \in Named(TRUE) /\ "running" \in Named(TRUE)
    BY NamedStatuses DEF Absent
  <2> QED
    BY <2>1, <2>2 DEF RowsOK
<1> QED
  BY <1>1, <1>2, <1>3 DEF ConsoleInv, ViewOK

\* The selection changes neither the rows nor what is visible of them.
SameRows(l, k) == /\ IsList(k) /\ k.rows = l.rows /\ k.visible = l.visible
                  /\ DOMAIN k.cursor = DOMAIN l.cursor

LEMMA EditedRows ==
    ASSUME NEW l, IsList(l), NEW c, NEW s, NEW x
    PROVE  SameRows(l, [l EXCEPT !.column = c, !.cursor[s] = x])
  BY DEF SameRows, IsList

LEMMA SettledRows ==
    ASSUME NEW l, IsList(l), NEW all PROVE SameRows(l, Settled(l, all))
  BY EditedRows DEF Settled

LEMMA PlacedRows ==
    ASSUME NEW l, IsList(l), NEW all, NEW t PROVE SameRows(l, Placed(l, all, t))
<1>1. SameRows(l, l)
  BY DEF SameRows
<1> QED
  BY <1>1, EditedRows DEF Placed

LEMMA RegroupedRows ==
    ASSUME NEW l, IsList(l), NEW rows, NEW text
    PROVE  /\ IsList(Regrouped(l, rows, text)) /\ Regrouped(l, rows, text).rows = rows
           /\ Regrouped(l, rows, text).visible = DOMAIN rows \cap Matches[text]
           /\ Regrouped(l, rows, text).cursor = l.cursor
  BY DEF IsList, Regrouped

LEMMA LoadedRows ==
    ASSUME IsList(list), NEW rows, NEW detailed \in BOOLEAN
    PROVE  /\ IsList(AfterLoad(rows, detailed))
           /\ AfterLoad(rows, detailed).rows = rows
           /\ AfterLoad(rows, detailed).visible = DOMAIN rows \cap Matches[search]
           /\ DOMAIN AfterLoad(rows, detailed).cursor = DOMAIN list.cursor
<1> DEFINE goal == IF desired # None THEN desired ELSE Shown
           begun == Settled(list, archived)
           fresh == Regrouped(begun, rows, search)
           old == IF detailed THEN Settled(fresh, archived) ELSE fresh
           placed == IF goal = None THEN old ELSE Placed(old, archived, goal)
<1>1. IsList(begun) /\ DOMAIN begun.cursor = DOMAIN list.cursor
  BY SettledRows DEF SameRows
<1> HIDE DEF begun
<1>2. /\ IsList(fresh) /\ fresh.rows = rows /\ DOMAIN fresh.cursor = DOMAIN list.cursor
      /\ fresh.visible = DOMAIN rows \cap Matches[search]
  BY <1>1, RegroupedRows
<1>3. SameRows(fresh, old)
  BY <1>2, SettledRows DEF SameRows
<1>4. SameRows(old, placed)
  BY <1>3, PlacedRows DEF SameRows
<1>5. SameRows(placed, Settled(placed, archived))
  BY <1>4, SettledRows DEF SameRows
<1>6. AfterLoad(rows, detailed) = Settled(placed, archived)
  BY DEF AfterLoad, begun
<1> QED
  BY <1>2, <1>3, <1>4, <1>5, <1>6 DEF SameRows

\* Steps that only ask for the list, or take an answer away.
LEMMA RequestsAreOK ==
    ASSUME NEW load \in {Request, [Request EXCEPT !.archived = ~archived]}
           \cup {[Request EXCEPT !.search = text] : text \in Search}
    PROVE  AnswerOK(load)
<1>1. IsLoad(load) /\ load.step = "asked"
  BY DEF Request, IsLoad
<1> QED
  BY <1>1 DEF AnswerOK

LEMMA KeysKeep ==
    ASSUME ConsoleInv, Keys
    PROVE  ViewOK'
<1> USE DEF ConsoleInv, ViewOK, want, pane, counts
<1>1. ASSUME NEW l, Moved(l), SameRows(list, l) PROVE ViewOK'
  <2>1. SameRows(l, Settled(l, archived))
    BY <1>1, SettledRows DEF SameRows
  <2>2. SameRows(list, list')
    BY <1>1, <2>1 DEF Moved, SameRows
  <2>3. ListOK'
    BY <1>1, <2>2 DEF Moved, ListOK, ListMatchesView, SameRows, AnswerOK
  <2>4. ModalOK'
    BY <1>1 DEF Moved, ModalOK, PinnedToDisplayed
  <2> QED
    BY <2>3, <2>4
<1>l. IsList(list)
  BY DEF ListOK
<1>2. CASE \E c \in 1..Len(Statuses(TRUE)) : MoveColumn(c)
  <2>1. PICK c \in 1..Len(Statuses(TRUE)) : MoveColumn(c)
    BY <1>2
  <2>2. SameRows(list, [list EXCEPT !.column = c])
    BY <1>l DEF SameRows, IsList
  <2> QED
    BY <1>1, <2>1, <2>2 DEF MoveColumn
<1>3. CASE \E i \in 1..Cardinality(Card) : MoveCard(i) \/ Jump(i)
  <2>1. PICK i \in 1..Cardinality(Card) : MoveCard(i) \/ Jump(i)
    BY <1>3
  <2>2. \A s : SameRows(list, [list EXCEPT !.cursor[s] = i])
    BY <1>l DEF SameRows, IsList
  <2> QED
    BY <1>1, <2>1, <2>2 DEF MoveCard, Jump
<1>4. CASE Reload \/ \E text \in Search : SubmitSearch(text)
  <2>1. \E load : AnswerOK(load) /\ loads' = loads \cup {load}
    BY <1>4, RequestsAreOK DEF Reload, SubmitSearch
  <2>2. loading' = TRUE /\ list' = list /\ UNCHANGED <<modal, mutation, chosen, archived>>
    BY <1>4 DEF Reload, SubmitSearch
  <2> QED
    BY <2>1, <2>2 DEF ListOK, ListMatchesView, ModalOK, PinnedToDisplayed
<1>5. CASE ToggleArchived
  <2>1. \E load : AnswerOK(load) /\ loads' = loads \cup {load}
    BY <1>5, RequestsAreOK DEF ToggleArchived
  <2>2. loading' = TRUE /\ UNCHANGED <<modal, mutation, chosen>>
    BY <1>5 DEF ToggleArchived
  <2>a. archived' \in BOOLEAN
    BY <1>5 DEF ToggleArchived
  <2>3. IsList(list') /\ list'.cursor = list.cursor
    BY <1>5, <1>l DEF ToggleArchived, IsList
  <2> QED
    BY <2>1, <2>2, <2>a, <2>3 DEF ListOK, ListMatchesView, ModalOK, PinnedToDisplayed
<1>6. ASSUME NEW kind \in {"menu", "form", "prompt", "confirm"}, NEW action, NEW t, NEW shown,
             mutation = NoMutation, OpenModal(kind, action, t, shown)
      PROVE  ViewOK'
  <2>1. /\ IsModal(modal') /\ modal'.kind = kind /\ modal'.task = t /\ chosen' = t
        /\ mutation' = mutation
    BY <1>6 DEF OpenModal, IsModal
  <2>2. ModalOK'
    BY <1>6, <2>1 DEF ModalOK, PinnedToDisplayed, NoMutation
  <2>3. ListOK'
    BY <1>6 DEF OpenModal, ListOK, ListMatchesView
  <2> QED
    BY <2>2, <2>3
<1>k. \A action : KindOf(action) \in {"form", "prompt", "confirm"}
  BY DEF KindOf
<1>7. CASE OpenMenu \/ PressCreate \/ \E action \in Actions : PressKey(action)
  BY <1>6, <1>7, <1>k DEF OpenMenu, PressCreate, PressKey, KeysFree, Mutating
<1>8. CASE \E action \in Actions : ChooseAction(action)
  <2>1. PICK action \in Actions : ChooseAction(action)
    BY <1>8
  <2>2. modal # NoModal
    BY <2>1 DEF ChooseAction, NoModal
  <2>3. /\ IsModal(modal') /\ modal'.kind = KindOf(action) /\ modal'.task = modal.task
        /\ UNCHANGED <<chosen, mutation>>
    BY <2>1 DEF ChooseAction, ModalOK, IsModal
  <2>4. ModalOK'
    BY <1>k, <2>2, <2>3 DEF ModalOK, PinnedToDisplayed
  <2>5. ListOK'
    BY <2>1 DEF ChooseAction, ListOK, ListMatchesView
  <2> QED
    BY <2>4, <2>5
<1>9. CASE Cancel
  <2>1. ModalOK'
    BY <1>9 DEF Cancel, ModalOK, PinnedToDisplayed, NoMutation, NoModal, IsModal
  <2>2. ListOK'
    BY <1>9 DEF Cancel, ListOK, ListMatchesView
  <2> QED
    BY <2>1, <2>2
<1>10. CASE Submit
  <2>1. modal # NoModal
    BY <1>10 DEF Submit, NoModal
  <2>2. modal' = NoModal /\ mutation' = Submitted /\ chosen' = chosen /\ modal.task = chosen
    BY <1>10, <2>1 DEF Submit, ModalOK, Mutating, pane
  <2>3. ModalOK'
    BY <2>2 DEF ModalOK, PinnedToDisplayed, Submitted, IsMutation, IsModal, NoModal
  <2>4. ListOK'
    BY <1>10 DEF Submit, ListOK, ListMatchesView
  <2> QED
    BY <2>3, <2>4
<1> QED
  BY <1>2, <1>3, <1>4, <1>5, <1>7, <1>8, <1>9, <1>10 DEF Keys

LEMMA AnswersKeep ==
    ASSUME ConsoleInv, Answers
    PROVE  ViewOK'
<1> USE DEF ConsoleInv, ViewOK, want, pane, counts
<1>m. ASSUME UNCHANGED <<modal, mutation, chosen>> PROVE ModalOK'
  BY <1>m DEF ModalOK, PinnedToDisplayed
<1>l. ASSUME UNCHANGED <<list, loading, failed, search, archived>>,
             \A load \in loads' : AnswerOK(load)
      PROVE  ListOK'
  BY <1>l DEF ListOK, ListMatchesView, Named, Statuses
<1>1. CASE \E load \in loads : QueryList(load)
  <2>1. PICK load \in loads : QueryList(load)
    BY <1>1
  <2> DEFINE answer == [load EXCEPT !.step = "answered", !.rows = Rows(load.archived)]
  <2>2. IsLoad(load)
    BY DEF ListOK, AnswerOK
  <2>3. IsLoad(answer) /\ answer.archived = load.archived /\ answer.rows = Rows(load.archived)
    BY <2>2 DEF IsLoad
  <2>4. /\ KnownRows(Rows(load.archived))
        /\ ~ load.archived => \A t \in DOMAIN Rows(load.archived) :
                                 Rows(load.archived)[t].status # "archived"
    BY DEF Rows, RowsOK, KnownRows, Exists
  <2>5. AnswerOK(answer)
    BY <2>3, <2>4 DEF AnswerOK
  <2>6. loads' = (loads \ {load}) \cup {answer}
    BY <2>1 DEF QueryList
  <2>7. \A other \in loads' : AnswerOK(other)
    BY <2>5, <2>6 DEF ListOK
  <2> QED
    BY <1>m, <1>l, <2>1, <2>7 DEF QueryList
<1>2. CASE \E load \in loads : QueryFails(load)
  <2>1. PICK load \in loads : QueryFails(load)
    BY <1>2
  <2> DEFINE answer == [load EXCEPT !.step = "answered", !.ok = FALSE]
  <2>2. IsLoad(load)
    BY DEF ListOK, AnswerOK
  <2>3. IsLoad(answer) /\ answer.ok = FALSE
    BY <2>2 DEF IsLoad
  <2>4. loads' = (loads \ {load}) \cup {answer}
    BY <2>1 DEF QueryFails
  <2>5. \A other \in loads' : AnswerOK(other)
    BY <2>3, <2>4 DEF ListOK, AnswerOK
  <2> QED
    BY <1>m, <1>l, <2>1, <2>5 DEF QueryFails
<1>3. CASE \E load \in loads : DropAnswer(load)
  <2>1. \A other \in loads' : AnswerOK(other)
    BY <1>3 DEF DropAnswer, ListOK
  <2> QED
    BY <1>m, <1>l, <1>3, <2>1 DEF DropAnswer
<1>4. CASE \E load \in loads : ListFails(load)
  <2>1. \A other \in loads' : AnswerOK(other)
    BY <1>4 DEF ListFails, ListOK
  <2>2. failed' /\ list' = list /\ UNCHANGED <<modal, mutation, chosen, archived>>
    BY <1>4 DEF ListFails
  <2> QED
    BY <1>m, <2>1, <2>2 DEF ListOK, ListMatchesView
<1>5. CASE \E load \in loads : ListArrives(load)
  <2>1. PICK load \in loads : ListArrives(load)
    BY <1>5
  <2>2. PICK detailed \in BOOLEAN : list' = AfterLoad(load.rows, detailed)
    BY <2>1 DEF ListArrives
  <2>3. /\ IsList(list') /\ list'.rows = load.rows
        /\ list'.visible = DOMAIN load.rows \cap Matches[search]
        /\ DOMAIN list'.cursor = Named(TRUE)
    BY <2>2, LoadedRows DEF ListOK
  <2>4. /\ load.search = search /\ load.archived = archived /\ load.step = "answered" /\ load.ok
        /\ UNCHANGED <<search, archived>>
    BY <2>1 DEF ListArrives, Expected
  <2>5. \A other \in loads' : AnswerOK(other)
    BY <2>1 DEF ListArrives, ListOK
  <2>6. ~ archived => \A t \in DOMAIN load.rows : load.rows[t].status # "archived"
    BY <2>4 DEF ListOK, AnswerOK
  <2>7. ListOK'
    BY <2>3, <2>4, <2>5, <2>6 DEF ListOK, ListMatchesView
  <2> QED
    BY <1>m, <2>1, <2>7 DEF ListArrives
<1>6. CASE (\E t \in Card : Apply(t)) \/ Refuse
  <2>1. /\ IsMutation(mutation') /\ mutation'.step # "sent" /\ mutation.step = "sent"
        /\ UNCHANGED <<modal, chosen, loads, list, loading, failed, search, archived>>
    BY <1>6 DEF Apply, Refuse, ModalOK, IsMutation
  <2>2. modal = NoModal
    BY <2>1 DEF ModalOK, NoMutation
  <2>3. ModalOK'
    BY <2>1, <2>2 DEF ModalOK, PinnedToDisplayed
  <2> QED
    BY <1>l, <2>1, <2>3 DEF ListOK
<1>7. CASE MutationAnswers \/ MutationRefused
  <2>1. mutation' = NoMutation /\ modal' = modal /\ mutation.step # "none"
    BY <1>7 DEF MutationAnswers, MutationRefused
  <2>2. modal = NoModal
    BY <2>1 DEF ModalOK, NoMutation
  <2>3. ModalOK'
    BY <2>1, <2>2 DEF ModalOK, PinnedToDisplayed, NoMutation, IsMutation
  <2>4. CASE MutationAnswers
    <3>1. AnswerOK(Request)
      BY RequestsAreOK
    <3>2. loading' = TRUE /\ list' = list /\ loads' = loads \cup {Request} /\ archived' = archived
      BY <2>4 DEF MutationAnswers
    <3> QED
      BY <2>3, <3>1, <3>2 DEF ListOK, ListMatchesView
  <2>5. CASE MutationRefused
    BY <1>l, <2>3, <2>5 DEF MutationRefused, ListOK
  <2> QED
    BY <1>7, <2>4, <2>5
<1> QED
  BY <1>1, <1>2, <1>3, <1>4, <1>5, <1>6, <1>7 DEF Answers


(* Whoever changes a task gives it a status that has a column, or takes it    *)
(* away.                                                                      *)
LEMMA RowsKeep ==
    ASSUME ConsoleInv, ConsoleNext
    PROVE  RowsOK'
<1> USE DEF pane, counts, want
<1>s. {"ready", "running", "archived"} \subseteq Named(TRUE)
  BY NamedStatuses
<1>r. RowsOK
  BY DEF ConsoleInv
<1>1. ASSUME UNCHANGED row PROVE RowsOK'
  BY <1>1, <1>r DEF RowsOK, Named, Statuses
<1>2. ASSUME NEW t \in Card, NEW s \in Named(TRUE) \cup {"absent"}, NEW id, Changed(t, s, id)
      PROVE  RowsOK'
  <2>1. DOMAIN row' = Card /\ row'[t].status = s /\ \A x \in Card : x # t => row'[x] = row[x]
    BY <1>2, <1>r DEF Changed, RowsOK
  <2>2. Named(TRUE)' = Named(TRUE)
    BY DEF Named, Statuses
  <2> QED
    BY <1>2, <1>r, <2>1, <2>2 DEF RowsOK
<1>3. CASE Keys
  BY <1>1, <1>3 DEF Keys, MoveColumn, MoveCard, Jump, Moved, Reload, ToggleArchived, OpenMenu, PressCreate,
                    Cancel, Submit, SubmitSearch, PressKey, ChooseAction, OpenModal
<1>4. CASE Answers
  <2>1. ASSUME NEW t \in Card, Apply(t) PROVE RowsOK'
    <3>1. Exists(t) => row[t].status \in Named(TRUE)
      BY <1>r DEF RowsOK, Exists
    <3>2. Effect(mutation.action, t, mutation.seen) /\ (mutation.action # "create" => Exists(t))
      BY <2>1 DEF Apply
    <3> QED
      BY <1>1, <1>2, <1>s, <3>1, <3>2 DEF Effect
  <2>2. CASE \E load \in loads : \/ QueryList(load) \/ QueryFails(load) \/ DropAnswer(load)
                                 \/ ListFails(load) \/ ListArrives(load)
    BY <1>1, <2>2 DEF QueryList, QueryFails, DropAnswer, ListFails, ListArrives
  <2>3. CASE Refuse \/ MutationAnswers \/ MutationRefused
    BY <1>1, <2>3 DEF Refuse, MutationAnswers, MutationRefused
  <2> QED
    BY <1>4, <2>1, <2>2, <2>3 DEF Answers
<1>5. CASE Refresh
  BY <1>1, <1>5 DEF Refresh
<1>6. CASE \E t \in Card : OthersChange(t)
  <2>1. PICK t \in Card : OthersChange(t)
    BY <1>6
  <2>2. PICK s \in Named(TRUE) : Changed(t, s, IF s = "running" THEN row[t].version + 1 ELSE 0)
    BY <2>1 DEF OthersChange
  <2> QED
    BY <1>2, <2>2
<1> QED
  BY <1>3, <1>4, <1>5, <1>6 DEF ConsoleNext

(* The invariant of Console: what is open was opened with nothing under way,  *)
(* and what is shown, or will be shown when it arrives, was asked for.        *)
THEOREM ConsoleInvariant == ConsoleSpec => []ConsoleInv
<1>1. ConsoleInv /\ [ConsoleNext]_consoleVars => ConsoleInv'
  <2> SUFFICES ASSUME ConsoleInv, [ConsoleNext]_consoleVars PROVE ConsoleInv'
    OBVIOUS
  <2> USE DEF want, pane, counts
  <2>1. ASSUME UNCHANGED <<modal, mutation, chosen, list, loading, failed, search, archived>>,
               \A load \in loads' : AnswerOK(load)
        PROVE  ViewOK'
    BY <2>1 DEF ConsoleInv, ViewOK, ModalOK, ListOK, PinnedToDisplayed, ListMatchesView, Named, Statuses
  <2>2. ASSUME Refresh PROVE ViewOK'
    <3>1. AnswerOK(Request)
      BY RequestsAreOK
    <3> QED
      BY <2>1, <2>2, <3>1 DEF Refresh, ConsoleInv, ViewOK, ListOK
  <2>3. ASSUME NEW t \in Card, OthersChange(t) PROVE ViewOK'
    BY <2>1, <2>3 DEF OthersChange, ConsoleInv, ViewOK, ListOK
  <2>4. CASE UNCHANGED consoleVars
    <3>1. ViewOK'
      BY <2>1, <2>4 DEF consoleVars, ConsoleInv, ViewOK, ListOK
    <3>2. RowsOK'
      BY <2>4 DEF consoleVars, ConsoleInv, RowsOK, Named, Statuses
    <3> QED
      BY <3>1, <3>2 DEF ConsoleInv
  <2>5. CASE ConsoleNext
    <3>1. ViewOK'
      BY <2>2, <2>3, <2>5, KeysKeep, AnswersKeep DEF ConsoleNext
    <3> QED
      BY <2>5, <3>1, RowsKeep DEF ConsoleInv
  <2> QED
    BY <2>4, <2>5
<1> QED
  BY <1>1, ConsoleFirst, PTL DEF ConsoleSpec

(* No input is thrown away, and a mutation acts on the task that was          *)
(* displayed, whatever loads, refreshes and other clients do meanwhile.       *)
THEOREM InputHits == ConsoleSpec => []InputHitsItsTarget
<1>1. ConsoleInv => InputHitsItsTarget
  BY DEF ConsoleInv, ViewOK, ModalOK, InputHitsItsTarget, NothingEnteredInVain, Mutating, NoModal
<1> QED
  BY <1>1, ConsoleInvariant, PTL

(* The list that is shown is the answer to what is asked now.                 *)
THEOREM ListMatches == ConsoleSpec => []ListMatchesView
<1>1. ConsoleInv => ListMatchesView
  BY DEF ConsoleInv, ViewOK, ListOK
<1> QED
  BY <1>1, ConsoleInvariant, PTL

-----------------------------------------------------------------------------
(* The selection.                                                            *)

LEMMA Positions ==
    ASSUME NEW t \in Card
    PROVE  /\ Position(t) \in DOMAIN Order /\ Order[Position(t)] = t
           /\ Position(t) \in 1..Len(Order)
<1>1. \E i \in DOMAIN Order : Order[i] = t
  BY ConsoleAssumption
<1>2. Position(t) \in DOMAIN Order /\ Order[Position(t)] = t
  BY <1>1 DEF Position
<1>3. DOMAIN Order = 1..Len(Order)
  BY ConsoleAssumption
<1> QED
  BY <1>2, <1>3

LEMMA CardsAreFinite == IsFiniteSet(Card)
<1>1. Len(Order) \in Nat
  BY ConsoleAssumption
<1>2. IsFiniteSet(1..Len(Order))
  BY <1>1, FS_Interval
<1>3. [t \in Card |-> Position(t)] \in Injection(Card, 1..Len(Order))
  <2>1. [t \in Card |-> Position(t)] \in [Card -> 1..Len(Order)]
    BY Positions
  <2>2. \A t, x \in Card : Position(t) = Position(x) => t = x
    BY Positions
  <2> QED
    BY <2>1, <2>2 DEF Injection, IsInjective
<1> QED
  BY <1>2, <1>3, FS_Injection

\* A column, and the places in it.
LEMMA Ordinals ==
    ASSUME NEW l, l.visible \subseteq Card, NEW s
    PROVE  /\ IsFiniteSet(Column(l, s)) /\ Cardinality(Column(l, s)) \in Nat
           /\ \A t \in Column(l, s) : Ordinal(l, t) \in 1..Cardinality(Column(l, s))
           /\ \A t, x \in Column(l, s) : Ordinal(l, t) = Ordinal(l, x) => t = x
<1> DEFINE items == Column(l, s)
           upTo(t) == {x \in items : Position(x) <= Position(t)}
<1>1. items \subseteq Card
  BY DEF Column
<1>2. IsFiniteSet(items) /\ Cardinality(items) \in Nat
  BY <1>1, CardsAreFinite, FS_Subset, FS_CardinalityType
<1>3. \A t \in items : Ordinal(l, t) = Cardinality(upTo(t))
  BY DEF Column, Ordinal
<1> HIDE DEF items
<1>4. ASSUME NEW t \in items
      PROVE  /\ IsFiniteSet(upTo(t)) /\ Cardinality(upTo(t)) \in 1..Cardinality(items)
             /\ t \in upTo(t)
  <2>1. t \in upTo(t)
    BY <1>1, Positions
  <2>2. IsFiniteSet(upTo(t)) /\ Cardinality(upTo(t)) <= Cardinality(items)
    BY <1>2, FS_Subset
  <2>3. Cardinality(upTo(t)) \in Nat /\ Cardinality(upTo(t)) # 0
    BY <2>1, <2>2, FS_CardinalityType, FS_EmptySet
  <2> QED
    BY <1>2, <2>1, <2>2, <2>3
<1>5. ASSUME NEW t \in items, NEW x \in items, Position(x) < Position(t)
      PROVE  Cardinality(upTo(x)) # Cardinality(upTo(t))
  <2>1. Position(x) \in Int /\ Position(t) \in Int
    BY <1>1, Positions
  <2>2. t \notin upTo(x)
    BY <1>5, <2>1
  <2>3. upTo(x) \subseteq upTo(t)
    <3> SUFFICES ASSUME NEW y \in upTo(x) PROVE y \in upTo(t)
      OBVIOUS
    <3>1. Position(y) \in Int /\ Position(y) <= Position(x)
      BY <1>1, Positions
    <3> QED
      BY <1>5, <2>1, <3>1
  <2>4. upTo(x) # upTo(t)
    BY <1>4, <2>2
  <2> QED
    BY <1>4, <2>3, <2>4, FS_Subset
<1>6. ASSUME NEW t \in items, NEW x \in items, Cardinality(upTo(t)) = Cardinality(upTo(x))
      PROVE  t = x
  <2>1. Position(x) \in Int /\ Position(t) \in Int /\ Order[Position(x)] = x /\ Order[Position(t)] = t
    BY <1>1, Positions
  <2>2. ~ (Position(x) < Position(t)) /\ ~ (Position(t) < Position(x))
    BY <1>5, <1>6
  <2>3. Position(x) = Position(t)
    BY <2>1, <2>2
  <2> QED
    BY <2>1, <2>3
<1> QED
  BY <1>2, <1>3, <1>4, <1>6 DEF items

\* Bringing a place back into range leaves alone what is in range.
LEMMA SettledStays ==
    ASSUME NEW l, IsList(l), NEW all \in BOOLEAN, NEW s, s = Statuses(all)[l.column],
           l.column \in 1..Len(Statuses(all)), s \in DOMAIN l.cursor,
           l.cursor[s] \in 1..Cardinality(Column(l, s)), Cardinality(Column(l, s)) \in Nat
    PROVE  /\ Settled(l, all).column = l.column /\ Settled(l, all).cursor[s] = l.cursor[s]
           /\ Settled(l, all).visible = l.visible /\ Settled(l, all).rows = l.rows
           /\ IsList(Settled(l, all)) /\ DOMAIN Settled(l, all).cursor = DOMAIN l.cursor
<1>1. Lower(l.column, Len(Statuses(all))) = l.column
  BY NamedStatuses DEF Lower
<1>2. Lower(l.cursor[s], Cardinality(Column(l, s))) = l.cursor[s]
  BY DEF Lower
<1>3. Settled(l, all) = [l EXCEPT !.column = l.column,
                                  !.cursor[s] = IF Column(l, s) = {} THEN @
                                                ELSE Lower(@, Cardinality(Column(l, s)))]
  BY <1>1 DEF Settled
<1> QED
  BY <1>2, <1>3 DEF IsList

\* What a list shows whose column and cursor are in range.
LEMMA SelectedIs ==
    ASSUME NEW l, IsList(l), l.visible \subseteq Card, NEW all \in BOOLEAN, NEW s,
           s = Statuses(all)[l.column], l.column \in 1..Len(Statuses(all)), s \in DOMAIN l.cursor,
           NEW t \in Column(l, s), l.cursor[s] = Ordinal(l, t)
    PROVE  Selected(Settled(l, all), all) = t
<1> DEFINE k == Settled(l, all)
           m == Settled(k, all)
<1>1. /\ l.cursor[s] \in 1..Cardinality(Column(l, s)) /\ Cardinality(Column(l, s)) \in Nat
      /\ \A x \in Column(l, s) : Ordinal(l, x) = Ordinal(l, t) => x = t
  BY Ordinals
<1>2. /\ k.column = l.column /\ k.cursor[s] = l.cursor[s] /\ k.visible = l.visible /\ k.rows = l.rows
      /\ IsList(k) /\ DOMAIN k.cursor = DOMAIN l.cursor
  BY <1>1, SettledStays
<1>3. Column(k, s) = Column(l, s) /\ \A x : Ordinal(k, x) = Ordinal(l, x)
  BY <1>2 DEF Column, Ordinal
<1> HIDE DEF k
<1>4. /\ m.column = k.column /\ m.cursor[s] = k.cursor[s]
  BY <1>1, <1>2, <1>3, SettledStays
<1>5. Selected(k, all) = CHOOSE x \in Column(k, s) : Ordinal(k, x) = l.cursor[s]
  BY <1>2, <1>3, <1>4 DEF Selected
<1> QED
  BY <1>1, <1>3, <1>5 DEF k

\* A task is placed where it is listed.
LEMMA PlacedIs ==
    ASSUME NEW l, IsList(l), l.visible \subseteq Card, NEW all \in BOOLEAN, NEW t \in l.visible,
           l.rows[t].status \in Named(all), l.rows[t].status \in DOMAIN l.cursor
    PROVE  Selected(Settled(Placed(l, all, t), all), all) = t
<1> DEFINE s == l.rows[t].status
           k == Placed(l, all, t)
<1>1. /\ StatusIndex(all, s) \in 1..Len(Statuses(all)) /\ Statuses(all)[StatusIndex(all, s)] = s
  <2>1. \E i \in DOMAIN Statuses(all) : Statuses(all)[i] = s
    BY DEF Named
  <2>2. StatusIndex(all, s) = CHOOSE i \in DOMAIN Statuses(all) : Statuses(all)[i] = s
    BY DEF StatusIndex
  <2> HIDE DEF s
  <2> QED
    BY <2>1, <2>2, NamedStatuses
<1>2. k = [l EXCEPT !.column = StatusIndex(all, s), !.cursor[s] = Ordinal(l, t)]
  BY DEF Placed
<1>3. /\ IsList(k) /\ k.column = StatusIndex(all, s) /\ k.cursor[s] = Ordinal(l, t)
      /\ k.rows = l.rows /\ k.visible = l.visible /\ s \in DOMAIN k.cursor
  BY <1>2 DEF IsList
<1>4. t \in Column(k, s) /\ Ordinal(k, t) = Ordinal(l, t)
  BY <1>3 DEF Column, Ordinal
<1> HIDE DEF s, k
<1>5. Selected(Settled(k, all), all) = t
  BY <1>1, <1>3, <1>4, SelectedIs
<1> QED
  BY <1>5 DEF k

(* A list that arrives leaves the selection where it was, whatever the        *)
(* statuses of the tasks have become, unless a mutation asked for another.    *)
THEOREM SelectionKept == ConsoleSpec => SelectionStays
<1> DEFINE stays == \A load \in loads :
                       ListArrives(load) /\ desired = None /\ Shown \in list'.visible =>
                           Selected(list', archived) = Shown
<1>1. ASSUME ConsoleInv, NEW load \in loads, ListArrives(load), desired = None,
             Shown \in list'.visible
      PROVE  Selected(list', archived) = Shown
  <2>1. PICK detailed \in BOOLEAN : list' = AfterLoad(load.rows, detailed)
    BY <1>1 DEF ListArrives
  <2>2. /\ IsList(list) /\ DOMAIN list.cursor = Named(TRUE) /\ KnownRows(load.rows)
        /\ load.archived = archived /\ archived \in BOOLEAN
        /\ ~ archived => \A t \in DOMAIN load.rows : load.rows[t].status # "archived"
    BY <1>1 DEF ConsoleInv, ViewOK, ListOK, AnswerOK, ListArrives, Expected
  <2> DEFINE begun == Settled(list, archived)
             fresh == Regrouped(begun, load.rows, search)
             old == IF detailed THEN Settled(fresh, archived) ELSE fresh
  <2>3. list'.rows = load.rows /\ list'.visible = DOMAIN load.rows \cap Matches[search]
    BY <2>1, <2>2, LoadedRows
  <2>4. Shown \in Card /\ Shown # None /\ load.rows[Shown].status \in Named(TRUE)
        /\ load.rows[Shown].status \in Named(archived)
    BY <1>1, <2>2, <2>3, NamedStatuses, ConsoleAssumption DEF KnownRows
  <2>5. IsList(begun) /\ DOMAIN begun.cursor = Named(TRUE)
    BY <2>2, SettledRows DEF SameRows
  <2>6. list' = Settled(Placed(old, archived, Shown), archived)
    BY <1>1, <2>1, <2>4 DEF AfterLoad
  <2> HIDE DEF begun
  <2>7. /\ IsList(fresh) /\ fresh.rows = load.rows /\ DOMAIN fresh.cursor = Named(TRUE)
        /\ fresh.visible = DOMAIN load.rows \cap Matches[search]
    <3>1. /\ IsList(fresh) /\ fresh.rows = load.rows /\ fresh.cursor = begun.cursor
          /\ fresh.visible = DOMAIN load.rows \cap Matches[search]
      BY <2>5, RegroupedRows
    <3> QED
      BY <2>5, <3>1
  <2> HIDE DEF fresh
  <2>8. SameRows(fresh, old)
    BY <2>7, SettledRows DEF SameRows
  <2> HIDE DEF old
  <2>9. /\ IsList(old) /\ old.visible \subseteq Card /\ Shown \in old.visible
        /\ old.rows = load.rows /\ DOMAIN old.cursor = Named(TRUE)
    BY <1>1, <2>2, <2>3, <2>7, <2>8 DEF SameRows, KnownRows
  <2>10. Selected(Settled(Placed(old, archived, Shown), archived), archived) = Shown
    BY <2>2, <2>4, <2>9, PlacedIs
  <2> QED
    BY <2>6, <2>10
<1>2. ASSUME ConsoleInv PROVE stays
  BY <1>1, <1>2
<1> QED
  BY <1>2, ConsoleInvariant, PTL DEF ConsoleSpec, SelectionStays
=============================================================================
