-------------------------- MODULE TaskStoreTheorems -------------------------
(***************************************************************************)
(* What holds of the store under any callers, proved from the              *)
(* classification of steps in TaskStoreProofs.  Ownership: who owns a      *)
(* task, the refinement of RunFence, and which steps leave a running run   *)
(* without its task.  Hand-offs: what a dependency link joins, what it     *)
(* waits for, which completion it pins, and that links never form a cycle. *)
(***************************************************************************)
EXTENDS TaskStoreProofs

\* A task is owned by a run that is running and was claimed for this task.
Owned(u) == /\ task[u].status = "running" <=> task[u].current # None
            /\ task[u].current # None =>
                  /\ run[task[u].current].status = "running"
                  /\ run[task[u].current].task = u

\* What does not touch a task, nor the run that owns it, keeps its ownership.
LEMMA OwnedKept ==
  ASSUME TypeOK, NEW u \in Task, Owned(u), OwnerKept(u),
         \A r \in Run : task[u].current = r => RunKept(r)
  PROVE  Owned(u)'
  <1>1. task[u].current \in Run \cup {None}
    BY DEF TypeOK, TaskRow
  <1> QED BY <1>1 DEF Owned, OwnerKept, RunKept

LEMMA OwnershipKept ==
  ASSUME TypeOK, RunOwnership, OwnershipStep
  PROVE  RunOwnership'
  <1>1. \A u \in Task : Owned(u)
    BY DEF RunOwnership, Owned
  <1> SUFFICES ASSUME NEW u \in Task PROVE Owned(u)'
    BY DEF RunOwnership, Owned
  <1>2. Freed(u) => Owned(u)'
    BY DEF Freed, Owned
  <1>3. CASE Quiet
    BY <1>1, <1>3, OwnedKept DEF Quiet
  <1>4. ASSUME NEW t \in Task, NEW r \in Run, Claims(t, r) PROVE Owned(u)'
    <2>1. CASE u = t
      BY <1>4, <2>1, NoneAssumption DEF Claims, Owned
    <2>2. CASE u # t
      <3>1. OwnerKept(u) /\ \A q \in Run : task[u].current = q => RunKept(q)
        BY <1>1, <1>4, <2>2, NoneAssumption DEF Claims, Owned
      <3> QED BY <1>1, <3>1, OwnedKept
    <2> QED BY <2>1, <2>2
  <1>5. ASSUME NEW t \in Task, NEW r \in Run, Ends(t, r) PROVE Owned(u)'
    <2>1. CASE u = t
      BY <1>2, <1>5, <2>1 DEF Ends
    <2>2. CASE u # t
      <3>1. OwnerKept(u) /\ \A q \in Run : task[u].current = q => RunKept(q)
        BY <1>1, <1>5, <2>2, NoneAssumption DEF Ends, Owned
      <3> QED BY <1>1, <3>1, OwnedKept
    <2> QED BY <2>1, <2>2
  <1>6. ASSUME NEW t \in Task, NEW S \in SUBSET Run, Settles(t, S) PROVE Owned(u)'
    <2>1. CASE u = t
      BY <1>2, <1>6, <2>1 DEF Settles
    <2>2. CASE u # t
      <3>1. OwnerKept(u) /\ \A q \in Run : task[u].current = q => RunKept(q)
        BY <1>1, <1>6, <2>2, NoneAssumption DEF Settles, Owned
      <3> QED BY <1>1, <3>1, OwnedKept
    <2> QED BY <2>1, <2>2
  <1>7. ASSUME NEW t \in Task, Deletes(t) PROVE Owned(u)'
    <2>1. CASE u = t
      BY <1>2, <1>7, <2>1 DEF Deletes
    <2>2. CASE u # t
      <3>1. OwnerKept(u) /\ \A q \in Run : task[u].current = q => RunKept(q)
        BY <1>1, <1>7, <2>2, NoneAssumption DEF Deletes, Owned
      <3> QED BY <1>1, <3>1, OwnedKept
    <2> QED BY <2>1, <2>2
  <1> QED BY <1>3, <1>4, <1>5, <1>6, <1>7 DEF OwnershipStep

LEMMA OwnershipInit == Init => RunOwnership
  BY DEF Init, RunOwnership, Absent

LEMMA OwnershipInductive == TypeOK /\ RunOwnership /\ [Next]_vars => RunOwnership'
  BY StepKinds, OwnershipKept

\* Claiming, finalizing, failing, recovering and administration agree on who
\* owns a task: the run it names is running and is its own.
THEOREM Ownership == Spec => []RunOwnership
  <1>1. TypeOK /\ RunOwnership /\ [Next]_vars => RunOwnership'
    BY OwnershipInductive
  <1> QED BY OwnershipInit, TypeCorrect, <1>1, PTL DEF Spec

-----------------------------------------------------------------------------
(* The store implements the fence *)

\* The refinement mapping.
Owner == [t \in Task |-> task[t].current]
Spent == {r \in Run : run[r].status # "unused"}

\* A step that frees t and spends runs, whatever they were, is a release.
LEMMA ReleaseStep ==
  ASSUME NEW t \in Task, Freed(t), \A u \in Task \ {t} : OwnerKept(u),
         \A r \in Run : run'[r].status = "unused" => run[r].status = "unused"
  PROVE  Fence!Next
  <1>1. Owner' = [Owner EXCEPT ![t] = None]
    BY DEF Owner, Freed, OwnerKept
  <1>2. Spent \subseteq Spent' /\ Spent' \subseteq Run
    BY DEF Spent
  <1>3. Fence!Release(t)
    BY <1>1, <1>2 DEF Fence!Release, Owner, Spent
  <1> QED BY <1>3 DEF Fence!Next

LEMMA FenceStep ==
  ASSUME TypeOK, OwnershipStep
  PROVE  [Fence!Next]_(Fence!vars)
  <1>0. "unused" \notin EndedStatus
    BY DEF EndedStatus, UnsuccessfulOutcome
  <1>1. CASE Quiet
    <2>1. Owner' = Owner /\ Spent' = Spent
      BY <1>1 DEF Quiet, OwnerKept, RunKept, Owner, Spent
    <2> QED BY <2>1 DEF Fence!vars, Owner, Spent
  <1>2. ASSUME NEW t \in Task, NEW r \in Run, Claims(t, r)
        PROVE  Fence!Next
    <2>1. Owner[t] = None /\ r \notin Spent
      BY <1>2 DEF Claims, Owner, Spent
    <2>2. Owner' = [Owner EXCEPT ![t] = r]
      BY <1>2 DEF Claims, Owner, OwnerKept
    <2>3. Spent' = Spent \cup {r}
      BY <1>2 DEF Claims, Spent, RunKept
    <2>4. Fence!Acquire(t, r)
      BY <2>1, <2>2, <2>3 DEF Fence!Acquire, Owner, Spent
    <2> QED BY <2>4 DEF Fence!Next
  <1>3. ASSUME NEW t \in Task, NEW r \in Run, Ends(t, r)
        PROVE  Fence!Next
    BY <1>0, <1>3, ReleaseStep DEF Ends, RunKept
  <1>4. ASSUME NEW t \in Task, NEW S \in SUBSET Run, Settles(t, S)
        PROVE  Fence!Next
    BY <1>0, <1>4, ReleaseStep DEF Settles, RunKept
  <1>5. ASSUME NEW t \in Task, Deletes(t)
        PROVE  Fence!Next
    BY <1>5, ReleaseStep DEF Deletes, RunKept
  <1> QED BY <1>1, <1>2, <1>3, <1>4, <1>5 DEF OwnershipStep

(* The detailed store implements RunFence: whatever the interleaving, a    *)
(* task is acquired only while free and only by a run never used before.   *)
THEOREM FencedRuns == Spec => RunsAreFenced
  <1>1. Init => Fence!Init
    BY DEF Init, Fence!Init, Absent, Unused
  <1>2. TypeOK /\ [Next]_vars => [Fence!Next]_(Fence!vars)
    BY StepKinds, FenceStep
  <1> QED BY <1>1, <1>2, TypeCorrect, PTL DEF Spec, RunsAreFenced, Fence!Spec

-----------------------------------------------------------------------------
(* Which steps orphan a run *)

LEMMA OrphanStep ==
  ASSUME TypeOK, OwnershipStep, NEW r \in Run, Active(r),
         run'[r].status = "running", ~Active(r)'
  PROVE  run[r].task \in preflight \ preflight'
  <1> DEFINE t == run[r].task
  <1>1. /\ t \in Task /\ task[t].status = "running" /\ task[t].current = r
        /\ run[r].status = "running"
    BY DEF Active
  <1>2. ~(OwnerKept(t) /\ RunKept(r))
    BY <1>1 DEF Active, OwnerKept, RunKept
  <1> HIDE DEF t
  <1>3. ~Quiet
    BY <1>1, <1>2 DEF Quiet
  <1>4. ASSUME NEW u \in Task, NEW q \in Run, Claims(u, q) PROVE FALSE
    BY <1>1, <1>2, <1>4, NoneAssumption DEF Claims
  <1>5. ASSUME NEW u \in Task, NEW q \in Run, Ends(u, q) PROVE FALSE
    <2>1. CASE q = r
      BY <1>5, <2>1 DEF Ends, EndedStatus, UnsuccessfulOutcome
    <2>2. CASE q # r
      BY <1>1, <1>2, <1>5, <2>2 DEF Ends, Active
    <2> QED BY <2>1, <2>2
  <1>6. ASSUME NEW u \in Task, NEW S \in SUBSET Run, Settles(u, S)
        PROVE  t \in preflight \ preflight'
    <2>1. r \notin S
      BY <1>1, <1>6 DEF Settles
    <2>2. u = t
      BY <1>1, <1>2, <1>6, <2>1 DEF Settles
    <2>3. ~Unowned(t)
      BY <1>1, NoneAssumption DEF Unowned
    <2> QED BY <1>6, <2>2, <2>3 DEF Settles
  <1>7. ASSUME NEW u \in Task, Deletes(u) PROVE FALSE
    <2>1. run[r].task # u
      BY <1>7 DEF Deletes
    <2> QED BY <1>1, <1>2, <1>7, <2>1 DEF Deletes, t
  <1> QED BY <1>3, <1>4, <1>5, <1>6, <1>7 DEF OwnershipStep, t

(* A running run loses its task without ending only in the transaction of  *)
(* CompleteTask, which trusts the check it made before it began.           *)
THEOREM OrphansNamed == Spec => OnlyCompletionOrphans
  <1>1. TypeOK /\ [Next]_vars =>
          [\A r \in Run : Active(r) /\ run'[r].status = "running" /\ ~Active(r)'
              => run[r].task \in preflight \ preflight']_vars
    BY StepKinds, OrphanStep
  <1> QED BY <1>1, TypeCorrect, PTL DEF Spec, OnlyCompletionOrphans

-----------------------------------------------------------------------------
(* Hand-offs *)

LEMMA PairsAreEdges == \A p, c \in Task : <<p, c>> \in Edge /\ <<p, c>>[1] = p /\ <<p, c>>[2] = c
  BY DEF Edge

\* The effect of each kind of step on one link.
LEMMA SatisfiedLink ==
  ASSUME TypeOK, NEW p \in Task, NEW pin \in Pin, link' = Satisfied(link, p, pin),
         NEW x \in Task, NEW y \in Task
  PROVE  /\ x = p /\ link[<<x, y>>] = "open" => link'[<<x, y>>] = pin
         /\ ~(x = p /\ link[<<x, y>>] = "open") => link'[<<x, y>>] = link[<<x, y>>]
  BY PairsAreEdges DEF Satisfied

LEMMA CreatedLink ==
  ASSUME TypeOK, NEW t \in Task, NEW parents \in SUBSET Task,
         link' = CreatedLinks(t, parents), NEW x \in Task, NEW y \in Task
  PROVE  /\ y = t /\ x \in parents => link'[<<x, y>>] = Satisfaction(x)
         /\ ~(y = t /\ x \in parents) => link'[<<x, y>>] = link[<<x, y>>]
  BY PairsAreEdges DEF CreatedLinks

LEMMA NewLink ==
  ASSUME TypeOK, NEW p \in Task, NEW c \in Task, NEW x \in Task, NEW y \in Task,
         link' = [link EXCEPT ![<<p, c>>] = Satisfaction(p)]
  PROVE  /\ x = p /\ y = c => link'[<<x, y>>] = Satisfaction(p)
         /\ ~(x = p /\ y = c) => link'[<<x, y>>] = link[<<x, y>>]
  BY PairsAreEdges DEF TypeOK

LEMMA DroppedLink ==
  ASSUME TypeOK, NEW D \in SUBSET Edge, Drops(D), NEW x \in Task, NEW y \in Task
  PROVE  /\ <<x, y>> \in D => link'[<<x, y>>] = "absent"
         /\ <<x, y>> \notin D => link'[<<x, y>>] = link[<<x, y>>]
  BY PairsAreEdges DEF Drops

\* "absent" and "open" are not completions.
LEMMA Marks == "absent" \notin Pin /\ "open" \notin Pin
  BY MarkAssumption DEF Pin

LEMMA StaysPresent ==
  ASSUME NEW t, StatusAllowed(t), Present(t)
  PROVE  Present(t)'
  BY DEF StatusAllowed, Allowed, Present

-----------------------------------------------------------------------------
(* Links join tasks that are there *)

LEMMA JoinStep ==
  ASSUME TypeOK, LinksJoinTasks, HandoffStep
  PROVE  LinksJoinTasks'
  <1> SUFFICES ASSUME NEW x \in Task, NEW y \in Task, link'[<<x, y>>] # "absent"
               PROVE  Present(x)' /\ Present(y)'
    BY DEF LinksJoinTasks
  <1>0. link[<<x, y>>] # "absent" => Present(x) /\ Present(y)
    BY DEF LinksJoinTasks
  <1>1. CASE Steady
    BY <1>0, <1>1, StaysPresent DEF Steady
  <1>2. ASSUME NEW p \in Task, NEW pin \in Pin, Completes(p, pin)
        PROVE  Present(x)' /\ Present(y)'
    <2>1. link[<<x, y>>] # "absent"
      BY <1>2, SatisfiedLink, Marks DEF Completes
    <2>2. \A t \in Task : Present(t) => Present(t)'
      BY <1>2, StaysPresent DEF Completes, Present
    <2> QED BY <1>0, <2>1, <2>2
  <1>3. ASSUME NEW t \in Task, NEW parents \in SUBSET Task, Creates(t, parents)
        PROVE  Present(x)' /\ Present(y)'
    <2>1. \A u \in Task : Present(u) => Present(u)'
      BY <1>3 DEF Creates, Present
    <2>2. CASE y = t /\ x \in parents
      BY <1>3, <2>1, <2>2 DEF Creates, Present
    <2>3. CASE ~(y = t /\ x \in parents)
      <3>1. link[<<x, y>>] # "absent"
        BY <1>3, <2>3, CreatedLink DEF Creates
      <3> QED BY <1>0, <2>1, <3>1
    <2> QED BY <2>2, <2>3
  <1>4. ASSUME NEW p \in Task, NEW c \in Task, Links(p, c)
        PROVE  Present(x)' /\ Present(y)'
    <2>1. \A u \in Task : Present(u) => Present(u)'
      BY <1>4, StaysPresent DEF Links, Present
    <2>2. CASE x = p /\ y = c
      BY <1>4, <2>1, <2>2 DEF Links
    <2>3. CASE ~(x = p /\ y = c)
      <3>1. link[<<x, y>>] # "absent"
        BY <1>4, <2>3, NewLink DEF Links
      <3> QED BY <1>0, <2>1, <3>1
    <2> QED BY <2>2, <2>3
  <1>5. ASSUME NEW D \in SUBSET Edge, Drops(D)
        PROVE  Present(x)' /\ Present(y)'
    <2>1. <<x, y>> \notin D /\ link[<<x, y>>] # "absent"
      BY <1>5, DroppedLink
    <2>2. StatusAllowed(x) /\ StatusAllowed(y)
      BY <1>5, <2>1 DEF Drops
    <2> QED BY <1>0, <2>1, <2>2, StaysPresent
  <1> QED BY <1>1, <1>2, <1>3, <1>4, <1>5 DEF HandoffStep

-----------------------------------------------------------------------------
(* Nothing is ready or running under an open prerequisite *)

LEMMA WaitStep ==
  ASSUME TypeOK, LinksJoinTasks, NoUnfinishedPrerequisite, HandoffStep
  PROVE  NoUnfinishedPrerequisite'
  <1> SUFFICES ASSUME NEW y \in Task, task'[y].status \in {"ready", "running"}
               PROVE  ~HasOpenParents(link', y)
    BY DEF NoUnfinishedPrerequisite
  <1>0. ASSUME StatusAllowed(y),
               \A x \in Task : link'[<<x, y>>] = "open" => link[<<x, y>>] = "open"
        PROVE  ~HasOpenParents(link', y)
    BY <1>0 DEF StatusAllowed, Allowed, NoUnfinishedPrerequisite, HasOpenParents
  <1>1. CASE Steady
    BY <1>0, <1>1 DEF Steady
  <1>2. ASSUME NEW p \in Task, NEW pin \in Pin, Completes(p, pin)
        PROVE  ~HasOpenParents(link', y)
    <2>1. y # p
      BY <1>2 DEF Completes
    <2>2. \A x \in Task : link'[<<x, y>>] = "open" => link[<<x, y>>] = "open"
      BY <1>2, SatisfiedLink, Marks DEF Completes
    <2> QED BY <1>0, <1>2, <2>1, <2>2 DEF Completes
  <1>3. ASSUME NEW t \in Task, NEW parents \in SUBSET Task, Creates(t, parents)
        PROVE  ~HasOpenParents(link', y)
    <2>1. CASE y = t
      <3>1. parents = {} => ~HasOpenParents(link', t)
        <4> SUFFICES ASSUME parents = {}, NEW x \in Task, link'[<<x, t>>] = "open"
                     PROVE  FALSE
          BY DEF HasOpenParents
        <4>1. link[<<x, t>>] = "open"
          BY <1>3, CreatedLink DEF Creates
        <4> QED BY <1>3, <4>1 DEF LinksJoinTasks, Creates
      <3> QED BY <1>3, <2>1, <3>1 DEF Creates
    <2>2. CASE y # t
      <3>1. task'[y] = task[y] /\ \A x \in Task : link'[<<x, y>>] = link[<<x, y>>]
        BY <1>3, <2>2, CreatedLink DEF Creates
      <3> QED BY <3>1 DEF NoUnfinishedPrerequisite, HasOpenParents
    <2> QED BY <2>1, <2>2
  <1>4. ASSUME NEW p \in Task, NEW c \in Task, Links(p, c)
        PROVE  ~HasOpenParents(link', y)
    <2>1. CASE y = c
      BY <1>4, <2>1 DEF Links, StatusAllowed, Allowed
    <2>2. CASE y # c
      <3>1. task'[y] = task[y] /\ \A x \in Task : link'[<<x, y>>] = link[<<x, y>>]
        BY <1>4, <2>2, NewLink DEF Links
      <3> QED BY <3>1 DEF NoUnfinishedPrerequisite, HasOpenParents
    <2> QED BY <2>1, <2>2
  <1>5. ASSUME NEW D \in SUBSET Edge, Drops(D)
        PROVE  ~HasOpenParents(link', y)
    <2>1. StatusAllowed(y)
      BY <1>5 DEF Drops
    <2>2. \A x \in Task : link'[<<x, y>>] = "open" => link[<<x, y>>] = "open"
      BY <1>5, DroppedLink
    <2> QED BY <1>0, <2>1, <2>2
  <1> QED BY <1>1, <1>2, <1>3, <1>4, <1>5 DEF HandoffStep

-----------------------------------------------------------------------------
(* A task that is done keeps nobody waiting *)

LEMMA DoneStep ==
  ASSUME TypeOK, LinksJoinTasks, DoneReleasesDependents, HandoffStep
  PROVE  DoneReleasesDependents'
  <1> SUFFICES ASSUME NEW x \in Task, NEW y \in Task, task'[x].status = "done"
               PROVE  link'[<<x, y>>] # "open"
    BY DEF DoneReleasesDependents
  <1>0. ASSUME StatusAllowed(x), link'[<<x, y>>] = "open" => link[<<x, y>>] = "open"
        PROVE  link'[<<x, y>>] # "open"
    BY <1>0 DEF StatusAllowed, Allowed, DoneReleasesDependents
  <1>1. CASE Steady
    BY <1>0, <1>1 DEF Steady
  <1>2. ASSUME NEW p \in Task, NEW pin \in Pin, Completes(p, pin)
        PROVE  link'[<<x, y>>] # "open"
    <2>1. CASE x = p
      BY <1>2, <2>1, SatisfiedLink, Marks DEF Completes
    <2>2. CASE x # p
      <3>1. link'[<<x, y>>] = link[<<x, y>>]
        BY <1>2, <2>2, SatisfiedLink DEF Completes
      <3> QED BY <1>0, <1>2, <2>2, <3>1 DEF Completes
    <2> QED BY <2>1, <2>2
  <1>3. ASSUME NEW t \in Task, NEW parents \in SUBSET Task, Creates(t, parents)
        PROVE  link'[<<x, y>>] # "open"
    <2>1. CASE x = t
      <3>1. link'[<<x, y>>] = link[<<x, y>>]
        BY <1>3, <2>1, CreatedLink DEF Creates
      <3> QED BY <1>3, <2>1, <3>1 DEF LinksJoinTasks, Creates
    <2>2. CASE x # t
      <3>1. task[x].status = "done"
        BY <1>3, <2>2 DEF Creates
      <3>2. Satisfaction(x) # "open"
        <4>1. task[x].completed \in Pin \cup {"never"}
          BY DEF TypeOK, TaskRow
        <4> QED BY <3>1, <4>1, Marks DEF Satisfaction, Pin
      <3> QED BY <1>3, <3>1, <3>2, CreatedLink DEF Creates, DoneReleasesDependents
    <2> QED BY <2>1, <2>2
  <1>4. ASSUME NEW p \in Task, NEW c \in Task, Links(p, c)
        PROVE  link'[<<x, y>>] # "open"
    <2>1. task[x].status = "done"
      BY <1>4 DEF Links, StatusAllowed, Allowed
    <2>2. Satisfaction(x) # "open"
      <3>1. task[x].completed \in Pin \cup {"never"}
        BY DEF TypeOK, TaskRow
      <3> QED BY <2>1, <3>1, Marks DEF Satisfaction, Pin
    <2> QED BY <1>4, <2>1, <2>2, NewLink DEF Links, DoneReleasesDependents
  <1>5. ASSUME NEW D \in SUBSET Edge, Drops(D)
        PROVE  link'[<<x, y>>] # "open"
    <2>1. StatusAllowed(x)
      BY <1>5 DEF Drops
    <2> QED BY <1>0, <1>5, <2>1, DroppedLink
  <1> QED BY <1>1, <1>2, <1>3, <1>4, <1>5 DEF HandoffStep

-----------------------------------------------------------------------------
(* Pins are completions *)

\* A completed run stays one until its task is deleted.
LEMMA CompletedRunKept ==
  ASSUME TypeOK, OwnershipStep, NEW r \in Run, run[r].status = "completed"
  PROVE  RunKept(r) \/ Deletes(run[r].task)
  <1>1. CASE Quiet
    BY <1>1 DEF Quiet
  <1>2. ASSUME NEW t \in Task, NEW q \in Run, Claims(t, q) \/ Ends(t, q)
        PROVE  RunKept(r)
    BY <1>2 DEF Claims, Ends, Active
  <1>3. ASSUME NEW t \in Task, NEW S \in SUBSET Run, Settles(t, S)
        PROVE  RunKept(r)
    BY <1>3 DEF Settles
  <1>4. ASSUME NEW t \in Task, Deletes(t)
        PROVE  RunKept(r) \/ Deletes(run[r].task)
    BY <1>4 DEF Deletes
  <1> QED BY <1>1, <1>2, <1>3, <1>4 DEF OwnershipStep

LEMMA PinStep ==
  ASSUME TypeOK, LinksJoinTasks', PinsAreCompletions, OwnershipStep, HandoffStep
  PROVE  PinsAreCompletions'
  <1> SUFFICES ASSUME NEW x \in Task, NEW y \in Task, NEW q \in Run,
                      link'[<<x, y>>] = q
               PROVE  run'[q].task = x /\ run'[q].status = "completed"
    BY DEF PinsAreCompletions, ValidPin
  <1> DEFINE Valid == run[q].task = x /\ run[q].status = "completed"
             Goal == run'[q].task = x /\ run'[q].status = "completed"
  <1>0. ASSUME Valid PROVE Goal
    <2>1. Present(x)'
      BY MarkAssumption DEF LinksJoinTasks
    <2>2. ~Deletes(x)
      BY <2>1 DEF Deletes, Present
    <2>3. RunKept(q)
      BY <1>0, <2>2, CompletedRunKept
    <2> QED BY <1>0, <2>3 DEF RunKept
  <1>6. link[<<x, y>>] = q => Valid
    BY DEF PinsAreCompletions, ValidPin
  <1> HIDE DEF Valid
  <1>1. CASE Steady
    BY <1>0, <1>1, <1>6 DEF Steady
  <1>2. ASSUME NEW p \in Task, NEW pin \in Pin, Completes(p, pin)
        PROVE  Goal
    <2>1. CASE link'[<<x, y>>] = link[<<x, y>>]
      BY <1>0, <1>6, <2>1
    <2>2. CASE link'[<<x, y>>] # link[<<x, y>>]
      <3>1. x = p /\ pin = q
        BY <1>2, <2>2, SatisfiedLink DEF Completes
      <3> QED BY <1>2, <3>1 DEF Completes, ValidPin
    <2> QED BY <2>1, <2>2
  <1>3. ASSUME NEW t \in Task, NEW parents \in SUBSET Task, Creates(t, parents)
        PROVE  Goal
    <2>1. CASE y = t /\ x \in parents
      <3>1. Satisfaction(x) = q
        BY <1>3, <2>1, CreatedLink DEF Creates
      <3>2. ValidPin(x, Satisfaction(x))
        BY <1>3, <2>1 DEF Creates
      <3> QED BY <1>0, <3>1, <3>2 DEF ValidPin, Valid
    <2>2. CASE ~(y = t /\ x \in parents)
      BY <1>0, <1>3, <1>6, <2>2, CreatedLink DEF Creates
    <2> QED BY <2>1, <2>2
  <1>4. ASSUME NEW p \in Task, NEW c \in Task, Links(p, c)
        PROVE  Goal
    <2>1. CASE x = p /\ y = c
      <3>0. link' = [link EXCEPT ![<<p, c>>] = Satisfaction(p)]
        BY <1>4 DEF Links
      <3>3. link'[<<p, c>>] = Satisfaction(p)
        <4>1. <<p, c>> \in DOMAIN link
          BY DEF TypeOK, Edge
        <4> QED BY <3>0, <4>1
      <3>1. Satisfaction(x) = q
        BY <2>1, <3>3
      <3>2. ValidPin(x, Satisfaction(x))
        BY <1>4, <2>1 DEF Links
      <3> QED BY <1>0, <3>1, <3>2 DEF ValidPin, Valid
    <2>2. CASE ~(x = p /\ y = c)
      BY <1>0, <1>4, <1>6, <2>2, NewLink DEF Links
    <2> QED BY <2>1, <2>2
  <1>5. ASSUME NEW D \in SUBSET Edge, Drops(D)
        PROVE  Goal
    <2>1. link[<<x, y>>] = q
      BY <1>5, DroppedLink, MarkAssumption
    <2> QED BY <1>0, <1>6, <2>1
  <1> QED BY <1>1, <1>2, <1>3, <1>4, <1>5 DEF HandoffStep

-----------------------------------------------------------------------------
(* Links form no cycle *)

NoCycle == \A x, y \in Task : link[<<x, y>>] # "absent" => ~Reaches(link, y, x)

\* Fewer links reach less.
LEMMA FewerLinks ==
  ASSUME NEW x \in Task, NEW y \in Task, ~Reaches(link, y, x),
         \A p, c \in Task : link'[<<p, c>>] # "absent" => link[<<p, c>>] # "absent"
  PROVE  ~Reaches(link', y, x)
  <1>1. PICK S \in SUBSET Task : y \in S /\ Closed(link, S) /\ x \notin S
    BY DEF Reaches
  <1>2. Closed(link', S)
    BY <1>1 DEF Closed
  <1> QED BY <1>1, <1>2 DEF Reaches

\* A new task has prerequisites and no dependents: nothing leads out of it.
LEMMA CreateAcyclic ==
  ASSUME TypeOK, LinksJoinTasks, NoCycle, NEW t \in Task, NEW parents \in SUBSET Task,
         Creates(t, parents), NEW x \in Task, NEW y \in Task, link'[<<x, y>>] # "absent"
  PROVE  ~Reaches(link', y, x)
  <1>1. \A c \in Task : link'[<<t, c>>] = "absent"
    <2> TAKE c \in Task
    <2>1. link'[<<t, c>>] = link[<<t, c>>]
      BY CreatedLink DEF Creates
    <2> QED BY <2>1 DEF LinksJoinTasks, Creates
  <1>2. x # t
    BY <1>1
  <1>3. CASE y = t
    <2>1. Closed(link', {t})
      BY <1>1 DEF Closed
    <2> QED BY <1>2, <1>3, <2>1 DEF Reaches
  <1>4. CASE y # t
    <2>1. link[<<x, y>>] # "absent"
      BY <1>4, CreatedLink DEF Creates
    <2>2. PICK S \in SUBSET Task : y \in S /\ Closed(link, S) /\ x \notin S
      BY <2>1 DEF NoCycle, Reaches
    <2>3. Closed(link', S \cup {t})
      <3> SUFFICES ASSUME NEW p \in S \cup {t}, NEW c \in Task, link'[<<p, c>>] # "absent",
                          c # t
                   PROVE  c \in S
        BY DEF Closed
      <3>1. p \in S
        BY <1>1
      <3>2. link[<<p, c>>] # "absent"
        BY <3>1, CreatedLink DEF Creates
      <3> QED BY <2>2, <3>1, <3>2 DEF Closed
    <2>4. S \cup {t} \in SUBSET Task /\ y \in S \cup {t} /\ x \notin S \cup {t}
      BY <1>2, <2>2
    <2> QED BY <2>3, <2>4 DEF Reaches
  <1> QED BY <1>3, <1>4

(* A link from p to c is made only if c does not lead to p.  T is what c   *)
(* leads to, S what y leads to: one of T, S, their union and their         *)
(* intersection still separates y from x.                                  *)
LEMMA LinkAcyclic ==
  ASSUME TypeOK, NoCycle, NEW p \in Task, NEW c \in Task, Links(p, c),
         NEW x \in Task, NEW y \in Task, link'[<<x, y>>] # "absent"
  PROVE  ~Reaches(link', y, x)
  <1>1. PICK T \in SUBSET Task : c \in T /\ Closed(link, T) /\ p \notin T
    BY DEF Links, Reaches
  <1>2. \A u, v \in Task : link'[<<u, v>>] # "absent" =>
           (u = p /\ v = c) \/ link[<<u, v>>] # "absent"
    BY NewLink DEF Links
  <1>3. CASE x = p /\ y = c
    <2>1. Closed(link', T)
      BY <1>1, <1>2 DEF Closed
    <2> QED BY <1>1, <1>3, <2>1 DEF Reaches
  <1>4. CASE link[<<x, y>>] # "absent"
    <2>1. PICK S \in SUBSET Task : y \in S /\ Closed(link, S) /\ x \notin S
      BY <1>4 DEF NoCycle, Reaches
    <2>2. CASE p \notin S
      <3>1. Closed(link', S)
        BY <1>2, <2>1, <2>2 DEF Closed
      <3> QED BY <2>1, <3>1 DEF Reaches
    <2>3. CASE p \in S /\ x \notin T
      <3>1. Closed(link', S \cup T)
        BY <1>1, <1>2, <2>1 DEF Closed
      <3> QED BY <2>1, <2>3, <3>1 DEF Reaches
    <2>4. CASE p \in S /\ x \in T
      <3>1. y \in T
        BY <1>1, <1>4, <2>4 DEF Closed
      <3>2. Closed(link', S \cap T)
        BY <1>1, <1>2, <2>1 DEF Closed
      <3> QED BY <2>1, <3>1, <3>2 DEF Reaches
    <2> QED BY <2>2, <2>3, <2>4
  <1> QED BY <1>2, <1>3, <1>4

LEMMA CycleStep ==
  ASSUME TypeOK, LinksJoinTasks, NoCycle, HandoffStep
  PROVE  NoCycle'
  <1> SUFFICES ASSUME NEW x \in Task, NEW y \in Task, link'[<<x, y>>] # "absent"
               PROVE  ~Reaches(link', y, x)
    BY DEF NoCycle
  <1>0. ASSUME \A p, c \in Task : link'[<<p, c>>] # "absent" => link[<<p, c>>] # "absent"
        PROVE  ~Reaches(link', y, x)
    BY <1>0, FewerLinks DEF NoCycle
  <1>1. CASE Steady
    BY <1>0, <1>1 DEF Steady
  <1>2. ASSUME NEW p \in Task, NEW pin \in Pin, Completes(p, pin)
        PROVE  ~Reaches(link', y, x)
    BY <1>0, <1>2, SatisfiedLink, Marks DEF Completes
  <1>3. ASSUME NEW D \in SUBSET Edge, Drops(D)
        PROVE  ~Reaches(link', y, x)
    BY <1>0, <1>3, DroppedLink
  <1> QED BY <1>1, <1>2, <1>3, CreateAcyclic, LinkAcyclic DEF HandoffStep

-----------------------------------------------------------------------------
(* The theorems *)

(* The conjuncts support each other: a new task is safe because no link    *)
(* outlives a deleted one (LinksJoinTasks), and a pin is safe for the same *)
(* reason.                                                                 *)
HandoffInv == /\ LinksJoinTasks
              /\ NoUnfinishedPrerequisite
              /\ DoneReleasesDependents
              /\ PinsAreCompletions
              /\ NoCycle

LEMMA HandoffInit == Init => HandoffInv
  <1> SUFFICES ASSUME Init PROVE HandoffInv
    OBVIOUS
  <1>0. link = [e \in Edge |-> "absent"]
    BY DEF Init
  <1>1. \A x, y \in Task : link[<<x, y>>] = "absent"
    <2>1. \A e \in Edge : link[e] = "absent"
      BY <1>0
    <2> QED BY <2>1 DEF Edge
  <1>2. \A t \in Task : task[t].status = "absent"
    BY DEF Init, Absent
  <1>3. "absent" \notin Run
    BY MarkAssumption
  <1> QED BY <1>1, <1>2, <1>3 DEF HandoffInv, LinksJoinTasks, NoUnfinishedPrerequisite,
             DoneReleasesDependents, PinsAreCompletions, NoCycle

LEMMA HandoffInductive == TypeOK /\ HandoffInv /\ [Next]_vars => HandoffInv'
  <1> SUFFICES ASSUME TypeOK, HandoffInv, [Next]_vars PROVE HandoffInv'
    OBVIOUS
  <1>1. OwnershipStep /\ HandoffStep
    BY StepKinds
  <1>2. LinksJoinTasks'
    BY <1>1, JoinStep DEF HandoffInv
  <1>3. NoUnfinishedPrerequisite'
    BY <1>1, WaitStep DEF HandoffInv
  <1>4. DoneReleasesDependents'
    BY <1>1, DoneStep DEF HandoffInv
  <1>5. PinsAreCompletions'
    BY <1>1, <1>2, PinStep DEF HandoffInv
  <1>6. NoCycle'
    BY <1>1, CycleStep DEF HandoffInv
  <1> QED BY <1>2, <1>3, <1>4, <1>5, <1>6 DEF HandoffInv

LEMMA HandoffsHold == Spec => []HandoffInv
  <1>1. TypeOK /\ HandoffInv /\ [Next]_vars => HandoffInv'
    BY HandoffInductive
  <1> QED BY HandoffInit, TypeCorrect, <1>1, PTL DEF Spec

\* Nothing waits to run, or runs, under an unfinished prerequisite, whatever
\* links, claims, failures and reopenings interleave.
THEOREM PrerequisitesFirst == Spec => []NoUnfinishedPrerequisite
  <1>1. HandoffInv => NoUnfinishedPrerequisite
    BY DEF HandoffInv
  <1> QED BY HandoffsHold, <1>1, PTL

\* A finished task keeps no dependent waiting.
THEOREM FinishingReleases == Spec => []DoneReleasesDependents
  <1>1. HandoffInv => DoneReleasesDependents
    BY DEF HandoffInv
  <1> QED BY HandoffsHold, <1>1, PTL

\* A satisfied link pins a completed run of its prerequisite.
THEOREM PinnedCompletions == Spec => []PinsAreCompletions
  <1>1. HandoffInv => PinsAreCompletions
    BY DEF HandoffInv
  <1> QED BY HandoffsHold, <1>1, PTL

\* Links join present tasks and no task waits for itself.
THEOREM Acyclic == Spec => []DependenciesAcyclic
  <1>1. HandoffInv => DependenciesAcyclic
    BY DEF HandoffInv, NoCycle, DependenciesAcyclic
  <1> QED BY HandoffsHold, <1>1, PTL

-----------------------------------------------------------------------------
(* What a step may never do to a link *)

LEMMA DurableStep ==
  ASSUME TypeOK, HandoffInv, HandoffStep, NEW x \in Task, NEW y \in Task
  PROVE  /\ link[<<x, y>>] \in Pin => link'[<<x, y>>] \in {link[<<x, y>>], "absent"}
         /\ link[<<x, y>>] = "open" /\ link'[<<x, y>>] \in Pin =>
               task[x].status # "done" /\ task'[x].status = "done"
  <1> DEFINE Goal == /\ link[<<x, y>>] \in Pin =>
                           link'[<<x, y>>] \in {link[<<x, y>>], "absent"}
                     /\ link[<<x, y>>] = "open" /\ link'[<<x, y>>] \in Pin =>
                           task[x].status # "done" /\ task'[x].status = "done"
  <1>0. ASSUME link'[<<x, y>>] \in {link[<<x, y>>], "absent"} PROVE Goal
    BY <1>0, Marks
  <1>1. CASE Steady
    BY <1>0, <1>1 DEF Steady
  <1>2. ASSUME NEW p \in Task, NEW pin \in Pin, Completes(p, pin) PROVE Goal
    <2>1. CASE link'[<<x, y>>] = link[<<x, y>>]
      BY <1>0, <2>1
    <2>2. CASE link'[<<x, y>>] # link[<<x, y>>]
      <3>1. x = p /\ link[<<x, y>>] = "open"
        BY <1>2, <2>2, SatisfiedLink DEF Completes
      <3> QED BY <1>2, <3>1, Marks DEF Completes
    <2> QED BY <2>1, <2>2
  <1>3. ASSUME NEW t \in Task, NEW parents \in SUBSET Task, Creates(t, parents)
        PROVE  Goal
    <2>1. CASE y = t
      <3>1. link[<<x, y>>] = "absent"
        BY <1>3, <2>1 DEF HandoffInv, LinksJoinTasks, Creates
      <3> QED BY <3>1, Marks
    <2>2. CASE y # t
      BY <1>0, <1>3, <2>2, CreatedLink DEF Creates
    <2> QED BY <2>1, <2>2
  <1>4. ASSUME NEW p \in Task, NEW c \in Task, Links(p, c) PROVE Goal
    <2>1. CASE x = p /\ y = c
      BY <1>4, <2>1, Marks DEF Links
    <2>2. CASE ~(x = p /\ y = c)
      <3>1. link' = [link EXCEPT ![<<p, c>>] = Satisfaction(p)]
        BY <1>4 DEF Links
      <3> QED BY <1>0, <2>2, <3>1, NewLink
    <2> QED BY <2>1, <2>2
  <1>5. ASSUME NEW D \in SUBSET Edge, Drops(D) PROVE Goal
    BY <1>0, <1>5, DroppedLink
  <1> QED BY <1>1, <1>2, <1>3, <1>4, <1>5 DEF HandoffStep

\* Reruns, reopenings, archiving and retention never repin or reopen a link.
THEOREM DurableHandoffs == Spec => HandoffsDurable
  <1>1. TypeOK /\ HandoffInv /\ [Next]_vars =>
        [\A p, c \in Task :
          /\ link[<<p, c>>] \in Pin => link'[<<p, c>>] \in {link[<<p, c>>], "absent"}
          /\ link[<<p, c>>] = "open" /\ link'[<<p, c>>] \in Pin =>
                task[p].status # "done" /\ task'[p].status = "done"]_vars
    BY StepKinds, DurableStep
  <1> QED BY HandoffsHold, TypeCorrect, <1>1, PTL DEF Spec, HandoffsDurable

LEMMA FrozenStep ==
  ASSUME TypeOK, HandoffInv, HandoffStep, NEW y \in Task, NEW x \in Task,
         task[y].status = "running", task'[y].status = "running"
  PROVE  link'[<<x, y>>] = link[<<x, y>>]
  <1>0. link[<<x, y>>] # "open"
    BY DEF HandoffInv, NoUnfinishedPrerequisite, HasOpenParents
  <1>1. CASE Steady
    BY <1>1 DEF Steady
  <1>2. ASSUME NEW p \in Task, NEW pin \in Pin, Completes(p, pin)
        PROVE  link'[<<x, y>>] = link[<<x, y>>]
    BY <1>0, <1>2, SatisfiedLink DEF Completes
  <1>3. ASSUME NEW t \in Task, NEW parents \in SUBSET Task, Creates(t, parents)
        PROVE  link'[<<x, y>>] = link[<<x, y>>]
    BY <1>3, CreatedLink DEF Creates
  <1>4. ASSUME NEW p \in Task, NEW c \in Task, Links(p, c)
        PROVE  link'[<<x, y>>] = link[<<x, y>>]
    <2>1. link' = [link EXCEPT ![<<p, c>>] = Satisfaction(p)] /\ y # c
      BY <1>4 DEF Links
    <2> QED BY <2>1, NewLink
  <1>5. ASSUME NEW D \in SUBSET Edge, Drops(D)
        PROVE  link'[<<x, y>>] = link[<<x, y>>]
    <2>1. CASE <<x, y>> \in D
      <3>1. link[<<x, y>>] = "absent"
        BY <1>5, <2>1 DEF Drops
      <3> QED BY <1>5, <2>1, <3>1, DroppedLink
    <2>2. CASE <<x, y>> \notin D
      BY <1>5, <2>2, DroppedLink
    <2> QED BY <2>1, <2>2
  <1> QED BY <1>1, <1>2, <1>3, <1>4, <1>5 DEF HandoffStep

\* The prerequisites of a running task are the ones it was claimed with.
THEOREM FrozenPrerequisites == Spec => RunningPrerequisitesFrozen
  <1>1. TypeOK /\ HandoffInv /\ [Next]_vars =>
        [\A c \in Task : task[c].status = "running" /\ task'[c].status = "running"
          => \A p \in Task : link'[<<p, c>>] = link[<<p, c>>]]_vars
    BY StepKinds, FrozenStep
  <1> QED BY HandoffsHold, TypeCorrect, <1>1, PTL DEF Spec, RunningPrerequisitesFrozen

-----------------------------------------------------------------------------
(* What a dependent relies on: it is released when its prerequisites are    *)
(* done, never before, with completed work, and no task waits for itself.   *)
THEOREM SoundPrerequisites == Spec => []PrerequisitesSound
  <1>1. NoUnfinishedPrerequisite /\ PinsAreCompletions /\ DoneReleasesDependents
          /\ DependenciesAcyclic => PrerequisitesSound
    BY DEF PrerequisitesSound
  <1> QED BY <1>1, PrerequisitesFirst, PinnedCompletions, FinishingReleases, Acyclic, PTL

(* What a worker was given does not change under it: neither the completed  *)
(* work a link handed on nor the prerequisites it was claimed with.         *)
THEOREM KeptHandoffs == Spec => HandoffsKept
  BY DurableHandoffs, FrozenPrerequisites DEF HandoffsKept

-----------------------------------------------------------------------------
(* How a run ends.  OutcomeMatchesRequest is a property of single rows, and *)
(* a row only changes while its run is running, when it is first used and   *)
(* when its task is deleted.                                                *)

SoundRow(row) ==
    /\ row.finalized => \/ row.request = "complete" /\ row.status = "completed"
                        \/ row.request = "block" /\ row.status = "blocked"
    /\ row.request # "none" /\ ~row.finalized => row.status = "running"
    /\ row.status = "completed" => row.synthetic \/ row.finalized
    /\ row.status = "completed" /\ row.workspace = "worktree" => row.captured

\* What one step may do to the row of r.
RowAdvances(r) ==
    \/ run'[r] = run[r]
    \/ run[r].status = "running" /\ (SoundRow(run[r]) => SoundRow(run'[r]))
    \/ run[r].status = "unused" /\ SoundRow(run'[r])
    \/ run'[r].status = "deleted" /\ SoundRow(run'[r])

RowsAdvance == \A r \in Run : RowAdvances(r)

\* A step that rewrites the row of a running run soundly.
LEMMA RunningRowRewritten ==
  ASSUME TypeOK, NEW r \in Run, NEW row, run' = [run EXCEPT ![r] = row],
         run[r].status = "running", SoundRow(run[r]) => SoundRow(row)
  PROVE  RowsAdvance
  BY DEF TypeOK, RowsAdvance, RowAdvances

LEMMA FreshRowWritten ==
  ASSUME TypeOK, NEW r \in Run, NEW t \in Task, NEW status \in {"running", "completed", "blocked"},
         NEW human \in BOOLEAN, status = "completed" => human,
         run[r].status = "unused", run' = [run EXCEPT ![r] = NewRun(t, status, human)]
  PROVE  RowsAdvance
  <1> DEFINE row == NewRun(t, status, human)
  <1>1. SoundRow(row)
    BY DEF SoundRow, NewRun, Unused
  <1> HIDE DEF row
  <1>2. run' = [run EXCEPT ![r] = row]
    BY DEF row
  <1> QED BY <1>1, <1>2 DEF TypeOK, RowsAdvance, RowAdvances

\* While a run runs, nothing of it is finalized.
LEMMA RunningIsUnfinalized ==
  ASSUME NEW row, SoundRow(row), row.status = "running"
  PROVE  ~row.finalized
  BY DEF SoundRow

LEMMA LaunchAdvances ==
  ASSUME TypeOK, NEW r \in Run,
         \/ MarkRunManaged(r) \/ RecordSpawn(r) \/ PauseGoalRun(r)
         \/ \E kind \in Workspaces : BindRunWorkspace(r, kind)
  PROVE  RowsAdvance
  <1>1. run[r] \in RunRow
    BY DEF TypeOK
  <1>2. ASSUME NEW row, run' = [run EXCEPT ![r] = row], run[r].status = "running",
               row.status = "running", row.finalized = run[r].finalized
        PROVE  RowsAdvance
    <2>1. SoundRow(run[r]) => SoundRow(row)
      BY <1>2 DEF SoundRow
    <2> QED BY <1>2, <2>1, RunningRowRewritten
  <1>3. CASE MarkRunManaged(r)
    <2> DEFINE row == [run[r] EXCEPT !.managed = TRUE]
    <2>1. row.status = run[r].status /\ row.finalized = run[r].finalized
      BY <1>1 DEF RunRow
    <2>2. run' = [run EXCEPT ![r] = row] /\ run[r].status = "running"
      BY <1>3 DEF MarkRunManaged, Active
    <2> HIDE DEF row
    <2> QED BY <1>2, <2>1, <2>2
  <1>4. ASSUME NEW pid \in BOOLEAN, run' = [run EXCEPT ![r].pid = pid], Active(r)
        PROVE  RowsAdvance
    <2> DEFINE row == [run[r] EXCEPT !.pid = pid]
    <2>1. row.status = run[r].status /\ row.finalized = run[r].finalized
      BY <1>1 DEF RunRow
    <2>2. run' = [run EXCEPT ![r] = row] /\ run[r].status = "running"
      BY <1>4 DEF Active
    <2> HIDE DEF row
    <2> QED BY <1>2, <2>1, <2>2
  <1>5. ASSUME NEW kind \in Workspaces, BindRunWorkspace(r, kind) PROVE RowsAdvance
    <2> DEFINE row == [run[r] EXCEPT !.workspace = kind]
    <2>1. row.status = run[r].status /\ row.finalized = run[r].finalized
      BY <1>1 DEF RunRow
    <2>2. run' = [run EXCEPT ![r] = row] /\ run[r].status = "running"
      BY <1>5 DEF BindRunWorkspace, Active
    <2> HIDE DEF row
    <2> QED BY <1>2, <2>1, <2>2
  <1> QED BY <1>3, <1>4, <1>5 DEF RecordSpawn, PauseGoalRun

LEMMA RequestAdvances ==
  ASSUME TypeOK, NEW r \in Run,
         \/ RequestRunCompletion(r)
         \/ \E kind \in Kinds, reason \in Reason : RequestRunBlock(r, kind, reason)
         \/ DiscardRunTerminalRequest(r) \/ RecordRunChangeSet(r)
         \/ \E outcome \in {"reclaimed", "timed_out"} : DeferRunRecovery(r, outcome)
  PROVE  RowsAdvance
  <1>1. run[r] \in RunRow
    BY DEF TypeOK
  <1>2. ASSUME NEW row, run' = [run EXCEPT ![r] = row], run[r].status = "running",
               row.status = "running", row.finalized = run[r].finalized
        PROVE  RowsAdvance
    <2>1. SoundRow(run[r]) => SoundRow(row)
      BY <1>2 DEF SoundRow
    <2> QED BY <1>2, <2>1, RunningRowRewritten
  <1>3. CASE RequestRunCompletion(r)
    <2> DEFINE row == [run[r] EXCEPT !.request = "complete"]
    <2>1. row.status = run[r].status /\ row.finalized = run[r].finalized
      BY <1>1 DEF RunRow
    <2>2. run' = [run EXCEPT ![r] = row] /\ run[r].status = "running"
      BY <1>3 DEF RequestRunCompletion, Active
    <2> HIDE DEF row
    <2> QED BY <1>2, <2>1, <2>2
  <1>4. ASSUME NEW kind \in Kinds, NEW reason \in Reason, RequestRunBlock(r, kind, reason)
        PROVE  RowsAdvance
    <2> DEFINE row == [run[r] EXCEPT !.request = "block", !.kind = kind, !.reason = reason]
    <2>1. row.status = run[r].status /\ row.finalized = run[r].finalized
      BY <1>1 DEF RunRow
    <2>2. run' = [run EXCEPT ![r] = row] /\ run[r].status = "running"
      BY <1>4 DEF RequestRunBlock, Active
    <2> HIDE DEF row
    <2> QED BY <1>2, <2>1, <2>2
  <1>5. CASE DiscardRunTerminalRequest(r)
    <2>1. /\ Discarded(run[r]).status = run[r].status
          /\ Discarded(run[r]).finalized = run[r].finalized
      BY <1>1 DEF Discarded, RunRow
    <2>2. run' = [run EXCEPT ![r] = Discarded(run[r])] /\ run[r].status = "running"
      BY <1>5 DEF DiscardRunTerminalRequest, Active
    <2> QED BY <1>2, <2>1, <2>2
  <1>6. CASE RecordRunChangeSet(r)
    <2> DEFINE row == [run[r] EXCEPT !.captured = TRUE]
    <2>1. row.status = run[r].status /\ row.finalized = run[r].finalized
      BY <1>1 DEF RunRow
    <2>2. run' = [run EXCEPT ![r] = row] /\ run[r].status = "running"
      BY <1>6 DEF RecordRunChangeSet, Active
    <2> HIDE DEF row
    <2> QED BY <1>2, <2>1, <2>2
  <1>7. ASSUME NEW outcome \in {"reclaimed", "timed_out"}, DeferRunRecovery(r, outcome)
        PROVE  RowsAdvance
    <2> DEFINE row == [run[r] EXCEPT !.reclaim = outcome]
    <2>1. row.status = run[r].status /\ row.finalized = run[r].finalized
      BY <1>1 DEF RunRow
    <2>2. run' = [run EXCEPT ![r] = row] /\ run[r].status = "running"
      BY <1>7 DEF DeferRunRecovery
    <2> HIDE DEF row
    <2> QED BY <1>2, <2>1, <2>2
  <1> QED BY <1>3, <1>4, <1>5, <1>6, <1>7

LEMMA FinalizeAdvances ==
  ASSUME TypeOK, NEW r \in Run, FinalizeRunTerminal(r)
  PROVE  RowsAdvance
  <1>1. run[r] \in RunRow /\ run[r].status = "running"
    BY DEF TypeOK, FinalizeRunTerminal, FinalizeCompletion, FinalizeBlock, Active
  <1>2. CASE FinalizeCompletion(r)
    <2> DEFINE row == [run[r] EXCEPT !.status = "completed", !.finalized = TRUE]
    <2>1. /\ run[r].request = "complete"
          /\ run[r].workspace = "worktree" => run[r].captured
          /\ run' = [run EXCEPT ![r] = row]
      BY <1>2 DEF FinalizeCompletion
    <2>2. SoundRow(row)
      BY <1>1, <2>1 DEF SoundRow, RunRow
    <2> HIDE DEF row
    <2> QED BY <1>1, <2>1, <2>2, RunningRowRewritten
  <1>3. CASE FinalizeBlock(r)
    <2> DEFINE row == [run[r] EXCEPT !.status = "blocked", !.finalized = TRUE]
    <2>1. run[r].request = "block" /\ run' = [run EXCEPT ![r] = row]
      BY <1>3 DEF FinalizeBlock
    <2>2. SoundRow(row)
      BY <1>1, <2>1 DEF SoundRow, RunRow
    <2> HIDE DEF row
    <2> QED BY <1>1, <2>1, <2>2, RunningRowRewritten
  <1> QED BY <1>2, <1>3 DEF FinalizeRunTerminal

\* A run that is ended by someone else loses its pending request.
LEMMA EndedRowIsSound ==
  ASSUME NEW row \in RunRow, row.status = "running", SoundRow(row),
         NEW outcome \in Outcomes \cup {"blocked"}
  PROVE  SoundRow([Discarded(row) EXCEPT !.status = outcome])
  <1>1. outcome # "completed"
    BY InputAssumption DEF UnsuccessfulOutcome
  <1>2. ~row.finalized
    BY RunningIsUnfinalized
  <1>3. Discarded(row) = [row EXCEPT !.request = "none", !.kind = "none", !.reason = None]
    BY <1>2 DEF Discarded
  <1> QED BY <1>1, <1>2, <1>3 DEF SoundRow, RunRow

LEMMA EndingAdvances ==
  ASSUME TypeOK, NEW r \in Run, NEW outcome \in Outcomes \cup {"blocked"}, Active(r),
         run' = [run EXCEPT ![r] = [Discarded(@) EXCEPT !.status = outcome]]
  PROVE  RowsAdvance
  <1> DEFINE row == [Discarded(run[r]) EXCEPT !.status = outcome]
  <1>1. run[r] \in RunRow /\ run[r].status = "running"
    BY DEF TypeOK, Active
  <1>2. SoundRow(run[r]) => SoundRow(row)
    BY <1>1, EndedRowIsSound
  <1>3. run' = [run EXCEPT ![r] = row]
    OBVIOUS
  <1> HIDE DEF row
  <1> QED BY <1>1, <1>2, <1>3, RunningRowRewritten

LEMMA DeletionAdvances ==
  ASSUME TypeOK, NEW t \in Task, DeleteTask(t)
  PROVE  RowsAdvance
  <1>1. run' = [r \in Run |-> IF run[r].task = t
                              THEN [Unused EXCEPT !.status = "deleted"] ELSE run[r]]
    BY DEF DeleteTask
  <1>2. SoundRow([Unused EXCEPT !.status = "deleted"])
        /\ [Unused EXCEPT !.status = "deleted"].status = "deleted"
    BY DEF SoundRow, Unused
  <1> QED BY <1>1, <1>2 DEF RowsAdvance, RowAdvances

LEMMA RunsAdvance ==
  ASSUME TypeOK, [Next]_vars
  PROVE  RowsAdvance
  <1>1. CASE UNCHANGED run
    BY <1>1 DEF RowsAdvance, RowAdvances
  <1>2. CASE Launch
    <2>1. PICK r \in Run :
             \/ \E t \in Task : ClaimTask(t, r)
             \/ \/ MarkRunManaged(r) \/ RecordSpawn(r) \/ PauseGoalRun(r)
                \/ \E kind \in Workspaces : BindRunWorkspace(r, kind)
      BY <1>2 DEF Launch
    <2>2. ASSUME NEW t \in Task, ClaimTask(t, r) PROVE RowsAdvance
      BY <2>2, FreshRowWritten DEF ClaimTask
    <2> QED BY <2>1, <2>2, LaunchAdvances
  <1>3. CASE Terminal
    BY <1>3, RequestAdvances, FinalizeAdvances DEF Terminal
  <1>4. CASE Recovery
    <2>1. PICK r \in Run, outcome \in Outcomes, reason \in Reason :
             \/ \E counted, cooldown \in BOOLEAN, limit \in Failures :
                   FinishUnsuccessful(r, outcome, counted, cooldown, reason, limit)
             \/ \E kind \in Kinds, o \in {outcome, "blocked"} :
                   RecoverRunBlocked(r, o, kind, reason)
             \/ outcome \in {"reclaimed", "timed_out"} /\ DeferRunRecovery(r, outcome)
      BY <1>4, LimitAssumption, CounterRanges DEF Recovery, FailRun, RecoverAbandonedRun
    <2>2. ASSUME NEW counted, NEW cooldown, NEW limit,
                 FinishUnsuccessful(r, outcome, counted, cooldown, reason, limit)
          PROVE  RowsAdvance
      BY <2>2, EndingAdvances DEF FinishUnsuccessful
    <2>3. ASSUME NEW kind \in Kinds, NEW o \in {outcome, "blocked"},
                 RecoverRunBlocked(r, o, kind, reason)
          PROVE  RowsAdvance
      <3>1. o \in Outcomes \cup {"blocked"}
        OBVIOUS
      <3> QED BY <2>3, <3>1, EndingAdvances DEF RecoverRunBlocked
    <2> QED BY <2>1, <2>2, <2>3, RequestAdvances
  <1>5. CASE EditTasks
    <2>1. ASSUME NEW t \in Task, DeleteTask(t) PROVE RowsAdvance
      BY <2>1, DeletionAdvances
    <2>2. CASE ~\E t \in Task : DeleteTask(t)
      <3>1. UNCHANGED run
        BY <1>5, <2>2 DEF EditTasks, TouchTask, EditTask, EditRetries, SetStatus, UnblockTask,
                          PromoteTask, ScheduleTask, SpecifyTask, ArchiveTask
      <3> QED BY <1>1, <3>1
    <2> QED BY <2>1, <2>2
  <1>6. CASE CompleteTasks
    <2>1. ASSUME NEW t \in Task, NEW r \in Run \cup {None}, EndCompleteTask(t, r)
          PROVE  RowsAdvance
      <3>1. CASE r = None
        BY <1>1, <2>1, <3>1 DEF EndCompleteTask
      <3>2. CASE r # None
        <4>1. /\ r \in Run /\ run[r].status = "unused"
              /\ run' = [run EXCEPT ![r] = NewRun(t, "completed", TRUE)]
          BY <2>1, <3>2 DEF EndCompleteTask
        <4> QED BY <4>1, FreshRowWritten
      <3> QED BY <3>1, <3>2
    <2> QED BY <1>1, <1>6, <2>1 DEF CompleteTasks, BeginCompleteTask, AbandonCompleteTask
  <1>7. CASE BlockTasks
    BY <1>7, FreshRowWritten DEF BlockTasks, BlockTask
  <1>8. CASE CreateTasks
    <2>1. UNCHANGED run
      BY <1>8 DEF CreateTasks, CreateTask
    <2> QED BY <1>1, <2>1
  <1>9. CASE Dependencies
    BY <1>1, <1>9 DEF Dependencies, LinkTasks, UnlinkTasks
  <1>10. CASE Time \/ Retention
    BY <1>1, <1>10 DEF Time, PromoteDueTasks, ScheduleFallsDue, GuardExpires, Retention,
                      GarbageCollectEvents
  <1>11. CASE UNCHANGED vars
    BY <1>1, <1>11 DEF vars
  <1> QED BY <1>2, <1>3, <1>4, <1>5, <1>6, <1>7, <1>8, <1>9, <1>10, <1>11 DEF Next

\* A terminal request is finalized exactly when its run ended the way it asked
\* for; a completed run is a finalized completion or a human's, and one that
\* worked in a git worktree was captured before it completed.
THEOREM OutcomesMatchRequests == Spec => []OutcomeMatchesRequest
  <1> DEFINE Sound == \A r \in Run : SoundRow(run[r])
  <1>1. Sound <=> OutcomeMatchesRequest
    BY DEF OutcomeMatchesRequest, PendingRequest, SoundRow
  <1>2. Init => OutcomeMatchesRequest
    <2>1. SoundRow(Unused)
      BY DEF SoundRow, Unused
    <2> QED BY <1>1, <2>1 DEF Init
  <1>3. TypeOK /\ OutcomeMatchesRequest /\ [Next]_vars => OutcomeMatchesRequest'
    <2> SUFFICES ASSUME TypeOK, Sound, [Next]_vars PROVE Sound'
      BY DEF OutcomeMatchesRequest, PendingRequest, SoundRow
    <2>1. RowsAdvance
      BY RunsAdvance
    <2> QED BY <2>1 DEF RowsAdvance, RowAdvances
  <1> QED BY <1>2, <1>3, TypeCorrect, PTL DEF Spec

\* A run that ended keeps its outcome, its request and its capture until its
\* task is deleted: late calls with its token change nothing.
THEOREM FrozenOutcomes == Spec => EndedRunsFrozen
  <1>1. TypeOK /\ [Next]_vars =>
          [\A r \in Run : run[r].status \in EndedStatus
              => run'[r] = run[r] \/ run'[r].status = "deleted"]_vars
    BY RunsAdvance DEF RowsAdvance, RowAdvances, EndedStatus, UnsuccessfulOutcome
  <1> QED BY <1>1, TypeCorrect, PTL DEF Spec, EndedRunsFrozen

-----------------------------------------------------------------------------
(* No lost wake-up *)

Waits(c) == task[c].status = "todo" /\ HasOpenParents(link, c)
Woken(c) == Waits(c) /\ ~HasOpenParents(link', c) /\ task'[c].routed
               => task'[c].status # "todo"

LEMMA RecomputedWakes ==
  ASSUME NEW row \in TaskRow, row.status = "todo", NEW open \in BOOLEAN, ~open,
         Recomputed(row, open).routed
  PROVE  Recomputed(row, open).status # "todo"
  <1>1. CASE row.sched = "future"
    <2> DEFINE parked == [row EXCEPT !.status = "scheduled"]
    <2>1. parked \in TaskRow /\ parked.status = "scheduled"
      BY Members DEF TaskRow
    <2>2. Recomputed(row, open) = Requeued(parked)
      BY <1>1 DEF Recomputed
    <2> HIDE DEF parked
    <2> QED BY <2>1, <2>2, RequeuedRow
  <1>2. CASE row.sched # "future"
    <2>1. Recomputed(row, open) =
             [row EXCEPT !.status = IF open \/ ~row.routed THEN "todo" ELSE "ready"]
      BY <1>2 DEF Recomputed
    <2> QED BY <2>1 DEF TaskRow
  <1> QED BY <1>1, <1>2

\* A step that leaves the links into c alone takes nothing from it.
LEMMA SameParents ==
  ASSUME NEW c \in Task, \A p \in Task : link'[<<p, c>>] = link[<<p, c>>]
  PROVE  Woken(c)
  BY DEF Woken, Waits, HasOpenParents

LEMMA RecomputedWoken ==
  ASSUME TypeOK, NEW c \in Task, task'[c] = Recomputed(task[c], HasOpenParents(link', c))
  PROVE  Woken(c)
  <1> SUFFICES ASSUME Waits(c), ~HasOpenParents(link', c), task'[c].routed
               PROVE  task'[c].status # "todo"
    BY DEF Woken
  <1>1. task[c] \in TaskRow /\ task[c].status = "todo"
    BY DEF TypeOK, Waits
  <1> QED BY <1>1, OpenIsBoolean, RecomputedWakes

LEMMA CompletionWakes ==
  ASSUME TypeOK, NEW p \in Task, NEW row, row.status = "done", NEW pin \in Pin,
         CompleteWith(p, row, pin), NEW c \in Task
  PROVE  Woken(c)
  <1>1. /\ link' = Satisfied(link, p, pin)
        /\ task'[c] = IF c = p THEN row
                      ELSE IF link[<<p, c>>] = "open"
                           THEN Recomputed(task[c], HasOpenParents(link', c))
                           ELSE task[c]
    BY DEF CompleteWith
  <1>2. CASE c = p
    BY <1>1, <1>2 DEF Woken
  <1>3. CASE c # p /\ link[<<p, c>>] = "open"
    BY <1>1, <1>3, RecomputedWoken
  <1>4. CASE link[<<p, c>>] # "open"
    BY <1>1, <1>4, SatisfiedLink, SameParents
  <1> QED BY <1>2, <1>3, <1>4

LEMMA FinalizeWakes ==
  ASSUME TypeOK, NEW r \in Run, FinalizeRunTerminal(r), NEW c \in Task
  PROVE  Woken(c)
  <1>1. CASE FinalizeCompletion(r)
    <2> DEFINE t == run[r].task
               row == [Finished(task[t], r) EXCEPT !.guard = "recent_success"]
    <2>1. t \in Task /\ task[t] \in TaskRow /\ r \in Pin
      BY <1>1 DEF FinalizeCompletion, Active, TypeOK, Pin
    <2>2. row.status = "done"
      BY <2>1, FinishedRow DEF TaskRow
    <2>3. CompleteWith(t, row, r)
      BY <1>1 DEF FinalizeCompletion
    <2> HIDE DEF t, row
    <2> QED BY <2>1, <2>2, <2>3, CompletionWakes
  <1>2. CASE FinalizeBlock(r)
    BY <1>2, SameParents DEF FinalizeBlock
  <1> QED BY <1>1, <1>2 DEF FinalizeRunTerminal

LEMMA SetStatusWakes ==
  ASSUME TypeOK, NEW t \in Task, NEW status \in EditStatuses, SetStatus(t, status),
         NEW c \in Task
  PROVE  Woken(c)
  <1>1. CASE status = "done" /\ task[t].status # "done"
    <2> DEFINE edited == [task[t] EXCEPT !.status = status, !.gaveup = FALSE]
               row == [[Requeued(edited) EXCEPT !.failures = 0, !.kind = "none",
                                                !.reason = None, !.recur = 0]
                         EXCEPT !.completed = None]
    <2>1. task[t] \in TaskRow
      BY DEF TypeOK
    <2>2. edited \in TaskRow /\ edited.status = "done"
      BY <1>1, <2>1, Members DEF TaskRow
    <2>3. CompleteWith(t, row, None)
      BY <1>1 DEF SetStatus
    <2> HIDE DEF edited
    <2>4. Requeued(edited) \in TaskRow /\ Requeued(edited).status = "done"
      BY <2>2, RequeuedRow
    <2>5. row.status = "done"
      BY <2>4 DEF TaskRow
    <2> HIDE DEF row
    <2> QED BY <2>3, <2>5, CompletionWakes DEF Pin
  <1>2. CASE ~(status = "done" /\ task[t].status # "done")
    <2>1. UNCHANGED link
      BY <1>2 DEF SetStatus
    <2> QED BY <2>1, SameParents
  <1> QED BY <1>1, <1>2

LEMMA EndCompleteWakes ==
  ASSUME TypeOK, NEW t \in Task, NEW r \in Run \cup {None}, EndCompleteTask(t, r),
         NEW c \in Task
  PROVE  Woken(c)
  <1> DEFINE plain == Finished(task[t], None)
             row == [Finished(task[t], r) EXCEPT !.guard = "recent_success"]
  <1>1. task[t] \in TaskRow /\ r \in Pin /\ None \in Pin
    BY DEF TypeOK, Pin
  <1>2. CASE r = None
    <2>1. plain.status = "done"
      BY <1>1, FinishedRow
    <2>2. CompleteWith(t, plain, None)
      BY <1>2 DEF EndCompleteTask
    <2> HIDE DEF plain
    <2> QED BY <1>1, <2>1, <2>2, CompletionWakes
  <1>3. CASE r # None
    <2>1. row.status = "done"
      BY <1>1, FinishedRow DEF TaskRow
    <2>2. CompleteWith(t, row, r)
      BY <1>3 DEF EndCompleteTask
    <2> HIDE DEF row
    <2> QED BY <1>1, <2>1, <2>2, CompletionWakes
  <1> QED BY <1>2, <1>3

LEMMA DeletionWakes ==
  ASSUME TypeOK, NEW t \in Task, DeleteTask(t), NEW c \in Task
  PROVE  Woken(c)
  <1>1. /\ \A p \in Task : link'[<<p, c>>] =
                IF t \in {p, c} THEN "absent" ELSE link[<<p, c>>]
        /\ task'[c] = IF c = t THEN Absent
                      ELSE IF link[<<t, c>>] # "absent"
                           THEN Recomputed(task[c], HasOpenParents(link', c))
                           ELSE task[c]
    BY PairsAreEdges DEF DeleteTask
  <1>2. CASE c = t
    BY <1>1, <1>2 DEF Woken, Absent
  <1>3. CASE c # t /\ link[<<t, c>>] # "absent"
    BY <1>1, <1>3, RecomputedWoken
  <1>4. CASE c # t /\ link[<<t, c>>] = "absent"
    BY <1>1, <1>4, SameParents
  <1> QED BY <1>2, <1>3, <1>4

LEMMA LinkingWakes ==
  ASSUME TypeOK, NEW p \in Task, NEW t \in Task, LinkTasks(p, t) \/ UnlinkTasks(p, t),
         NEW c \in Task
  PROVE  Woken(c)
  <1>1. CASE LinkTasks(p, t)
    <2>1. link[<<p, t>>] = "absent" /\ link' = [link EXCEPT ![<<p, t>>] = Satisfaction(p)]
      BY <1>1 DEF LinkTasks
    <2>2. \A x \in Task : link[<<x, c>>] = "open" => link'[<<x, c>>] = "open"
      BY <2>1, NewLink
    <2> QED BY <2>2 DEF Woken, Waits, HasOpenParents
  <1>2. CASE UnlinkTasks(p, t)
    <2>1. link' = [link EXCEPT ![<<p, t>>] = "absent"]
      BY <1>2 DEF UnlinkTasks
    <2>2. CASE c = t
      <3>1. task'[c] = Recomputed(task[c], HasOpenParents(link', c))
        BY <1>2, <2>1, <2>2 DEF UnlinkTasks, TypeOK
      <3> QED BY <3>1, RecomputedWoken
    <2>3. CASE c # t
      <3>1. \A x \in Task : link'[<<x, c>>] = link[<<x, c>>]
        BY <2>1, <2>3, PairsAreEdges DEF TypeOK
      <3> QED BY <3>1, SameParents
    <2> QED BY <2>2, <2>3
  <1> QED BY <1>1, <1>2

LEMMA CreationWakes ==
  ASSUME TypeOK, NEW t \in Task, NEW status, NEW routed, NEW sched, NEW retries,
         NEW parents \in SUBSET (Task \ {t}),
         CreateTask(t, status, routed, sched, retries, parents), NEW c \in Task
  PROVE  Woken(c)
  <1>1. CASE c = t
    BY <1>1 DEF CreateTask, Present, Woken, Waits
  <1>2. CASE c # t
    <2>1. \A x \in Task : link'[<<x, c>>] = link[<<x, c>>]
      BY <1>2, PairsAreEdges DEF CreateTask
    <2> QED BY <2>1, SameParents
  <1> QED BY <1>1, <1>2

LEMMA WakeStep ==
  ASSUME TypeOK, [Next]_vars, NEW c \in Task
  PROVE  Woken(c)
  <1>1. UNCHANGED link => Woken(c)
    BY SameParents
  <1>2. CASE Launch
    BY <1>1, <1>2 DEF Launch, ClaimTask, MarkRunManaged, BindRunWorkspace, RecordSpawn,
                      PauseGoalRun
  <1>3. CASE Terminal
    BY <1>1, <1>3, FinalizeWakes DEF Terminal, RequestRunCompletion, RequestRunBlock,
       DiscardRunTerminalRequest, RecordRunChangeSet
  <1>4. CASE Recovery
    <2>1. \A r \in Run : \A outcome, counted, cooldown, kind, reason, limit :
             \/ FinishUnsuccessful(r, outcome, counted, cooldown, reason, limit)
             \/ RecoverRunBlocked(r, outcome, kind, reason)
             \/ DeferRunRecovery(r, outcome)
             => UNCHANGED link
      BY DEF FinishUnsuccessful, RecoverRunBlocked, DeferRunRecovery
    <2>2. UNCHANGED link
      BY <1>4, <2>1 DEF Recovery, FailRun, RecoverAbandonedRun
    <2> QED BY <1>1, <2>2
  <1>5. CASE CreateTasks
    BY <1>5, CreationWakes DEF CreateTasks
  <1>6. CASE EditTasks
    BY <1>1, <1>6, SetStatusWakes, DeletionWakes DEF EditTasks, TouchTask, EditTask, EditRetries,
       UnblockTask, PromoteTask, ScheduleTask, SpecifyTask, ArchiveTask
  <1>7. CASE CompleteTasks
    BY <1>1, <1>7, EndCompleteWakes DEF CompleteTasks, BeginCompleteTask, AbandonCompleteTask
  <1>8. CASE Dependencies
    BY <1>8, LinkingWakes DEF Dependencies
  <1>9. CASE BlockTasks
    BY <1>1, <1>9 DEF BlockTasks, BlockTask
  <1>10. CASE Time \/ Retention
    BY <1>1, <1>10 DEF Time, PromoteDueTasks, ScheduleFallsDue, GuardExpires, Retention,
                       GarbageCollectEvents
  <1>11. CASE UNCHANGED vars
    BY <1>1, <1>11 DEF vars
  <1> QED BY <1>2, <1>3, <1>4, <1>5, <1>6, <1>7, <1>8, <1>9, <1>10, <1>11 DEF Next

\* No lost wake-up: whatever removes or satisfies the last open prerequisite of
\* a waiting task makes it ready, or schedules it, in the same transaction.
THEOREM WakeUps == Spec => LastPrerequisiteWakes
  <1>1. TypeOK /\ [Next]_vars =>
          [\A c \in Task :
             /\ task[c].status = "todo" /\ HasOpenParents(link, c)
             /\ ~HasOpenParents(link', c) /\ task'[c].routed
             => task'[c].status \notin {"todo"}]_vars
    BY WakeStep DEF Woken, Waits
  <1> QED BY <1>1, TypeCorrect, PTL DEF Spec, LastPrerequisiteWakes

-----------------------------------------------------------------------------
(* Coming back.  Two promises about tasks that were finished or given up,  *)
(* the first under the hypothesis its property names: that retention keeps *)
(* the events of the guard's hour.                                         *)

LaunchingNext == Launch \/ Terminal \/ Recovery \/ CreateTasks \/ CompleteTasks
                   \/ BlockTasks \/ Dependencies \/ Time

\* Edits that do not send a task back to a status by hand.
PlainEdits(t) ==
    \/ TouchTask(t)
    \/ \E routed \in BOOLEAN, sched \in Schedules : EditTask(t, routed, sched)
    \/ \E retries \in TaskLimits : EditRetries(t, retries)
    \/ UnblockTask(t)
    \/ PromoteTask(t)
    \/ SpecifyTask(t)
    \/ ArchiveTask(t)
    \/ DeleteTask(t)

Reschedules(t) ==
    \/ \E status \in EditStatuses : SetStatus(t, status)
    \/ \E sched \in Schedules : ScheduleTask(t, sched)

\* Retention forgets completions, not the requests to run again: it keeps at
\* least a day of events, and the guard looks back one hour.
RetainingSpec ==
    Init /\ [][LaunchingNext \/ EditTasks
               \/ \E forgotten \in SUBSET Task : GarbageCollectEvents(forgotten, {})]_vars

ClaimableRow(row) == row.guard = "recent_success" => row.status \in {"done", "archived"}

RetiredRow(row) == row.gaveup => row.status \in {"blocked", "archived"}

KeepsClaimable(row, new) == ClaimableRow(row) => ClaimableRow(new)
KeepsRetired(row, new) == RetiredRow(row) => RetiredRow(new)
Keeps(row, new) == KeepsClaimable(row, new) /\ KeepsRetired(row, new)

StayClaimable == \A t \in Task : KeepsClaimable(task[t], task'[t])
StayRetired == \A t \in Task : KeepsRetired(task[t], task'[t])

\* An event that allows a rerun lifts the guard and counts nothing.
LEMMA RequeuedKeeps ==
  ASSUME NEW row \in TaskRow, NEW new \in TaskRow
  PROVE  /\ KeepsClaimable(row, Requeued(new))
         /\ KeepsRetired(row, new) => KeepsRetired(row, Requeued(new))
         /\ Requeued(new) \in TaskRow
  <1>1. CASE new.guard = "recent_success"
    <2>1. Requeued(new) = [new EXCEPT !.guard = "requeued"]
      BY <1>1 DEF Requeued
    <2> QED BY <2>1, RequeuedRow DEF KeepsClaimable, KeepsRetired, ClaimableRow, RetiredRow,
                                     TaskRow
  <1>2. CASE new.guard # "recent_success"
    <2>1. Requeued(new) = new
      BY <1>2 DEF Requeued
    <2> QED BY <1>2, <2>1 DEF KeepsClaimable, ClaimableRow
  <1> QED BY <1>1, <1>2

\* Recomputing moves only tasks that wait, and those have retries left.
LEMMA RecomputedKeeps ==
  ASSUME NEW row \in TaskRow, NEW open \in BOOLEAN
  PROVE  Keeps(row, Recomputed(row, open))
  <1>1. CASE \/ row.status \notin {"todo", "ready", "scheduled"}
             \/ row.status = "scheduled" /\ row.sched \in {"none", "future"}
    BY <1>1 DEF Recomputed, Keeps, KeepsClaimable, KeepsRetired
  <1>2. CASE row.status \in {"todo", "ready"} /\ row.sched = "future"
    <2> DEFINE moved == [row EXCEPT !.status = "scheduled"]
    <2>1. moved \in TaskRow /\ KeepsRetired(row, moved)
      BY <1>2, Members DEF TaskRow, KeepsRetired, RetiredRow
    <2>2. Recomputed(row, open) = Requeued(moved)
      BY <1>2 DEF Recomputed
    <2> HIDE DEF moved
    <2> QED BY <2>1, <2>2, RequeuedKeeps DEF Keeps
  <1>3. CASE /\ row.status \in {"todo", "ready", "scheduled"}
             /\ ~(row.status = "scheduled" /\ row.sched \in {"none", "future"})
             /\ ~(row.status \in {"todo", "ready"} /\ row.sched = "future")
    <2>1. Recomputed(row, open) = [row EXCEPT !.status =
                      IF open \/ ~row.routed THEN "todo" ELSE "ready"]
      BY <1>3 DEF Recomputed
    <2> QED BY <1>3, <2>1 DEF TaskRow, Keeps, KeepsClaimable, KeepsRetired, ClaimableRow,
                              RetiredRow
  <1> QED BY <1>1, <1>2, <1>3

\* The edit of a row, its rerun event and the recomputation after it.
LEMMA ReopenedKeeps ==
  ASSUME NEW row \in TaskRow, NEW new \in TaskRow, NEW open \in BOOLEAN
  PROVE  /\ KeepsClaimable(row, Recomputed(Requeued(new), open))
         /\ KeepsRetired(row, new) => KeepsRetired(row, Recomputed(Requeued(new), open))
  <1> DEFINE requeued == Requeued(new)
  <1>1. /\ requeued \in TaskRow /\ KeepsClaimable(row, requeued)
        /\ KeepsRetired(row, new) => KeepsRetired(row, requeued)
    BY RequeuedKeeps
  <1> HIDE DEF requeued
  <1>2. Keeps(requeued, Recomputed(requeued, open))
    BY <1>1, RecomputedKeeps
  <1> QED BY <1>1, <1>2 DEF Keeps, KeepsClaimable, KeepsRetired, requeued

LEMMA LinkedKeeps ==
  ASSUME NEW row \in TaskRow, NEW pin, NEW open \in BOOLEAN
  PROVE  Keeps(row, Linked(row, pin, open))
  <1>1. CASE pin = "open" /\ row.status = "done"
    <2> DEFINE new == [row EXCEPT !.status = "todo", !.kind = "none",
                                  !.reason = None, !.recur = 0]
    <2>1. new \in TaskRow /\ KeepsRetired(row, new)
      BY <1>1, Members, CounterRanges DEF TaskRow, KeepsRetired, RetiredRow
    <2>2. Linked(row, pin, open) = Recomputed(Requeued(new), open)
      BY <1>1 DEF Linked
    <2> HIDE DEF new
    <2> QED BY <2>1, <2>2, ReopenedKeeps DEF Keeps
  <1>2. CASE ~(pin = "open" /\ row.status = "done")
    <2>1. Linked(row, pin, open) = Recomputed(row, open)
      BY <1>2 DEF Linked
    <2> QED BY <2>1, RecomputedKeeps
  <1> QED BY <1>1, <1>2

\* A failure that uses up the retries blocks the task in the same step.
LEMMA FailedKeeps ==
  ASSUME NEW row \in TaskRow, NEW open, NEW counted \in BOOLEAN, NEW cooldown,
         NEW reason \in Reason, NEW limit
  PROVE  Keeps(row, Failed(row, open, counted, cooldown, reason, limit))
  <1> DEFINE new == Failed(row, open, counted, cooldown, reason, limit)
  <1>1. /\ new.guard = GuardAfter(reason)
        /\ new.gaveup => new.status = "blocked"
    BY DEF Failed, TaskRow
  <1>2. GuardAfter(reason) # "recent_success"
    BY DEF GuardAfter
  <1> HIDE DEF new
  <1>3. ClaimableRow(new) /\ RetiredRow(new)
    BY <1>1, <1>2, Zenon DEF RetiredRow, ClaimableRow
  <1> QED BY <1>3, Zenon DEF Keeps, KeepsClaimable, KeepsRetired, new

\* Blocking gives up on nothing and judges the guard anew.
LEMMA BlockedKeeps ==
  ASSUME NEW row \in TaskRow, row.status \notin {"blocked", "archived"},
         NEW new, new.gaveup = row.gaveup, NEW reason, new.guard = GuardAfter(reason)
  PROVE  Keeps(row, new)
  BY DEF Keeps, KeepsClaimable, KeepsRetired, ClaimableRow, RetiredRow, GuardAfter

LEMMA BlockedColumns ==
  ASSUME NEW row \in TaskRow, NEW kind, NEW reason, NEW guard
  PROVE  /\ [Blocked(row, kind, reason) EXCEPT !.guard = guard].gaveup = row.gaveup
         /\ [Blocked(row, kind, reason) EXCEPT !.guard = guard].guard = guard
  BY DEF Blocked, TaskRow

\* A step that rewrites one row.
LEMMA OneRow ==
  ASSUME TypeOK, NEW t \in Task, NEW row, task' = [task EXCEPT ![t] = row]
  PROVE  /\ KeepsClaimable(task[t], row) => StayClaimable
         /\ KeepsRetired(task[t], row) => StayRetired
  BY DEF TypeOK, StayClaimable, StayRetired, KeepsClaimable, KeepsRetired

LEMMA SameTasks ==
  ASSUME UNCHANGED task
  PROVE  StayClaimable /\ StayRetired
  BY DEF StayClaimable, StayRetired, KeepsClaimable, KeepsRetired

LEMMA CompletionKeeps ==
  ASSUME TypeOK, NEW p \in Task, NEW row, row.status = "done", ~row.gaveup, NEW pin,
         CompleteWith(p, row, pin)
  PROVE  StayClaimable /\ StayRetired
  <1> SUFFICES ASSUME NEW t \in Task
               PROVE  Keeps(task[t], task'[t])
    BY DEF StayClaimable, StayRetired, Keeps
  <1>1. task'[t] = IF t = p THEN row
                   ELSE IF link[<<p, t>>] = "open"
                        THEN Recomputed(task[t], HasOpenParents(Satisfied(link, p, pin), t))
                        ELSE task[t]
    BY DEF CompleteWith
  <1>2. task[t] \in TaskRow
    BY DEF TypeOK
  <1>3. Keeps(task[t], Recomputed(task[t], HasOpenParents(Satisfied(link, p, pin), t)))
    BY <1>2, RecomputedKeeps, OpenIsBoolean
  <1>4. Keeps(task[t], row) /\ Keeps(task[t], task[t])
    BY DEF Keeps, KeepsClaimable, KeepsRetired, ClaimableRow, RetiredRow
  <1> QED BY <1>1, <1>3, <1>4

\* A recomputation gives up on nothing and never raises the guard.
LEMMA RecomputedColumns ==
  ASSUME NEW row \in TaskRow, NEW open \in BOOLEAN
  PROVE  /\ Recomputed(row, open).gaveup = row.gaveup
         /\ row.guard # "recent_success" => Recomputed(row, open).guard # "recent_success"
  BY DEF Recomputed, Requeued, TaskRow

LEMMA LinkedColumns ==
  ASSUME NEW row \in TaskRow, NEW pin, NEW open \in BOOLEAN
  PROVE  /\ Linked(row, pin, open).gaveup = row.gaveup
         /\ row.guard # "recent_success" => Linked(row, pin, open).guard # "recent_success"
  <1>1. CASE pin = "open" /\ row.status = "done"
    <2> DEFINE new == [row EXCEPT !.status = "todo", !.kind = "none",
                                  !.reason = None, !.recur = 0]
    <2>1. new \in TaskRow /\ new.gaveup = row.gaveup /\ new.guard = row.guard
      BY Members, CounterRanges DEF TaskRow
    <2>2. Linked(row, pin, open) = Recomputed(Requeued(new), open)
      BY <1>1 DEF Linked
    <2> HIDE DEF new
    <2>3. /\ Requeued(new) \in TaskRow /\ Requeued(new).gaveup = new.gaveup
          /\ Requeued(new).guard # "recent_success"
      BY <2>1, Members DEF Requeued, TaskRow
    <2> QED BY <2>1, <2>2, <2>3, RecomputedColumns
  <1>2. CASE ~(pin = "open" /\ row.status = "done")
    <2>1. Linked(row, pin, open) = Recomputed(row, open)
      BY <1>2 DEF Linked
    <2> QED BY <2>1, RecomputedColumns
  <1> QED BY <1>1, <1>2

LEMMA ClaimKeeps ==
  ASSUME TypeOK, NEW t \in Task, NEW r \in Run, ClaimTask(t, r)
  PROVE  StayClaimable /\ StayRetired
  <1> SUFFICES ASSUME NEW c \in Task PROVE Keeps(task[c], task'[c])
    BY DEF StayClaimable, StayRetired, Keeps
  <1>1. /\ task[t].status = "ready" /\ task[t].guard \in {"none", "requeued"}
        /\ task[c] \in TaskRow
    BY DEF ClaimTask, Candidate, TypeOK
  <1>2. \/ c = t /\ task'[c] = Claimed(task[c], r)
        \/ task'[c] = task[c]
        \/ task[c].status = "ready" /\ task'[c] = Demoted(task[c])
    BY DEF ClaimTask, Candidate
  <1>3. CASE c = t /\ task'[c] = Claimed(task[c], r)
    BY <1>1, <1>3 DEF Claimed, TaskRow, Keeps, KeepsClaimable, KeepsRetired, ClaimableRow,
                      RetiredRow
  <1>4. CASE task'[c] = task[c]
    BY <1>4 DEF Keeps, KeepsClaimable, KeepsRetired
  <1>5. CASE task[c].status = "ready" /\ task'[c] = Demoted(task[c])
    BY <1>1, <1>5 DEF Demoted, TaskRow, Keeps, KeepsClaimable, KeepsRetired, ClaimableRow,
                      RetiredRow
  <1> QED BY <1>2, <1>3, <1>4, <1>5

LEMMA FinalizeKeeps ==
  ASSUME TypeOK, NEW r \in Run, FinalizeRunTerminal(r)
  PROVE  StayClaimable /\ StayRetired
  <1> DEFINE t == run[r].task
  <1>1. /\ t \in Task /\ task[t] \in TaskRow /\ task[t].status = "running" /\ r \in Pin
    BY DEF FinalizeRunTerminal, FinalizeCompletion, FinalizeBlock, Active, TypeOK, Pin
  <1>2. CASE FinalizeCompletion(r)
    <2> DEFINE row == [Finished(task[t], r) EXCEPT !.guard = "recent_success"]
    <2>1. row.status = "done" /\ ~row.gaveup
      BY <1>1, FinishedRow DEF TaskRow, Finished
    <2>2. CompleteWith(t, row, r)
      BY <1>2 DEF FinalizeCompletion
    <2> HIDE DEF t, row
    <2> QED BY <1>1, <2>1, <2>2, CompletionKeeps
  <1>3. CASE FinalizeBlock(r)
    <2> DEFINE row == [Blocked(task[t], run[r].kind, run[r].reason)
                         EXCEPT !.guard = GuardAfter(run[r].reason)]
    <2>1. task' = [task EXCEPT ![t] = row]
      BY <1>3 DEF FinalizeBlock
    <2>2. row.gaveup = task[t].gaveup /\ row.guard = GuardAfter(run[r].reason)
      BY <1>1, BlockedColumns
    <2> HIDE DEF t, row
    <2>3. Keeps(task[t], row)
      BY <1>1, <2>2, BlockedKeeps
    <2> QED BY <1>1, <2>1, <2>3, OneRow DEF Keeps
  <1> QED BY <1>2, <1>3 DEF FinalizeRunTerminal

LEMMA FailKeeps ==
  ASSUME TypeOK, NEW r \in Run, NEW outcome, NEW counted \in BOOLEAN, NEW cooldown,
         NEW reason \in Reason, NEW limit,
         FinishUnsuccessful(r, outcome, counted, cooldown, reason, limit)
  PROVE  StayClaimable /\ StayRetired
  <1> DEFINE t == run[r].task
             row == Failed(task[t], HasOpenParents(link, t), counted, cooldown, reason, limit)
  <1>1. t \in Task /\ task[t] \in TaskRow /\ task[t].status = "running"
    BY DEF FinishUnsuccessful, Active, TypeOK
  <1>2. Keeps(task[t], row)
    BY <1>1, FailedKeeps
  <1>3. task' = [task EXCEPT ![t] = row]
    BY DEF FinishUnsuccessful
  <1> HIDE DEF t, row
  <1> QED BY <1>1, <1>2, <1>3, OneRow DEF Keeps

LEMMA RecoverBlockedKeeps ==
  ASSUME TypeOK, NEW r \in Run, NEW outcome, NEW kind, NEW reason,
         RecoverRunBlocked(r, outcome, kind, reason)
  PROVE  StayClaimable /\ StayRetired
  <1> DEFINE t == run[r].task
             k == IF kind = "none" THEN "needs_input" ELSE kind
             row == [task[t] EXCEPT !.status = "blocked", !.current = None, !.sched = "none",
                       !.kind = k, !.reason = reason, !.recur = Bump(task[t], k, reason),
                       !.guard = GuardAfter(reason)]
  <1>1. t \in Task /\ task[t] \in TaskRow /\ task[t].status = "running"
    BY DEF RecoverRunBlocked, Active, TypeOK
  <1>2. row.gaveup = task[t].gaveup /\ row.guard = GuardAfter(reason)
    BY <1>1 DEF TaskRow
  <1>3. task' = [task EXCEPT ![t] = row]
    BY DEF RecoverRunBlocked
  <1> HIDE DEF t, row
  <1>4. Keeps(task[t], row)
    BY <1>1, <1>2, BlockedKeeps
  <1> QED BY <1>1, <1>3, <1>4, OneRow DEF Keeps

LEMMA CreateKeeps ==
  ASSUME TypeOK, NEW t \in Task, NEW status \in EditStatuses \cup {"default"},
         NEW routed \in BOOLEAN, NEW sched \in Schedules, NEW retries \in TaskLimits,
         NEW parents \in SUBSET (Task \ {t}),
         CreateTask(t, status, routed, sched, retries, parents)
  PROVE  StayClaimable /\ StayRetired
  <1> DEFINE row == [Absent EXCEPT !.routed = routed, !.sched = sched, !.retries = retries,
                       !.status = CreatedStatus(status, routed, sched, parents)]
             open == HasOpenParents(link', t)
             linked == IF parents = {} THEN row
                       ELSE Linked(row, IF open THEN "open" ELSE None, open)
             new == IF status = "ready" /\ open THEN [linked EXCEPT !.status = "todo"]
                    ELSE linked
             Plain(x) == x.guard # "recent_success" /\ ~x.gaveup
  <1>1. row \in TaskRow /\ Plain(row)
    <2>1. Absent \in TaskRow
      BY AbsentRow
    <2>2. CreatedStatus(status, routed, sched, parents) \in TaskStatus /\ sched \in Schedule
          /\ retries \in Retries
      BY CreatedStatusType, InputAssumption, LimitAssumption
    <2> QED BY <2>1, <2>2 DEF TaskRow, Absent
  <1>2. linked \in TaskRow
    <2> HIDE DEF row
    <2> QED BY <1>1, LinkedRow, OpenIsBoolean
  <1>3. Keeps(row, linked) /\ ~linked.gaveup
    <2> HIDE DEF row
    <2>1. CASE parents = {}
      BY <1>1, <2>1 DEF Keeps, KeepsClaimable, KeepsRetired
    <2>2. CASE parents # {}
      <3>1. ~Linked(row, IF open THEN "open" ELSE None, open).gaveup
        BY <1>1, LinkedColumns, OpenIsBoolean
      <3> QED BY <1>1, <2>2, <3>1, LinkedKeeps, OpenIsBoolean
    <2> QED BY <2>1, <2>2
  <1>4. linked.guard # "recent_success"
    <2> HIDE DEF row
    <2> QED BY <1>1, <1>2, LinkedColumns, OpenIsBoolean
  <1>5. new.guard # "recent_success" /\ ~new.gaveup
    <2> HIDE DEF linked
    <2> QED BY <1>2, <1>3, <1>4 DEF TaskRow
  <1>6. task' = [task EXCEPT ![t] = new]
    BY DEF CreateTask
  <1> HIDE DEF new
  <1>7. Keeps(task[t], new)
    BY <1>5 DEF Keeps, KeepsClaimable, KeepsRetired, ClaimableRow, RetiredRow
  <1> QED BY <1>6, <1>7, OneRow DEF Keeps

LEMMA EditKeeps ==
  ASSUME TypeOK, NEW t \in Task, PlainEdits(t), ~DeleteTask(t)
  PROVE  StayClaimable /\ StayRetired
  <1> DEFINE open == HasOpenParents(link, t)
  <1>0. task[t] \in TaskRow /\ open \in BOOLEAN
    BY OpenIsBoolean DEF TypeOK
  <1>1. ASSUME NEW new \in TaskRow, KeepsRetired(task[t], new),
               task' = [task EXCEPT ![t] = Recomputed(Requeued(new), open)]
        PROVE  StayClaimable /\ StayRetired
    <2> HIDE DEF open
    <2>1. Keeps(task[t], Recomputed(Requeued(new), open))
      BY <1>0, <1>1, ReopenedKeeps DEF Keeps
    <2> QED BY <1>1, <2>1, OneRow DEF Keeps
  <1>2. CASE TouchTask(t)
    <2>1. task' = [task EXCEPT ![t] = Recomputed(Requeued(task[t]), open)]
      BY <1>2 DEF TouchTask
    <2> QED BY <1>0, <1>1, <2>1 DEF KeepsRetired
  <1>3. ASSUME NEW routed \in BOOLEAN, NEW sched \in Schedules, EditTask(t, routed, sched)
        PROVE  StayClaimable /\ StayRetired
    <2> DEFINE new == [task[t] EXCEPT !.routed = routed, !.sched = sched]
    <2>1. new \in TaskRow /\ KeepsRetired(task[t], new)
      BY <1>0, InputAssumption DEF TaskRow, KeepsRetired, RetiredRow
    <2>2. task' = [task EXCEPT ![t] = Recomputed(Requeued(new), open)]
      BY <1>3 DEF EditTask
    <2> HIDE DEF new, open
    <2> QED BY <1>1, <2>1, <2>2
  <1>8. ASSUME NEW retries \in TaskLimits, EditRetries(t, retries)
        PROVE  StayClaimable /\ StayRetired
    <2> DEFINE new == [task[t] EXCEPT !.retries = retries]
    <2>1. new \in TaskRow /\ KeepsRetired(task[t], new)
      BY <1>0, LimitAssumption DEF TaskRow, KeepsRetired, RetiredRow
    <2>2. task' = [task EXCEPT ![t] = Recomputed(Requeued(new), open)]
      BY <1>8 DEF EditRetries
    <2> HIDE DEF new, open
    <2> QED BY <1>1, <2>1, <2>2
  <1>4. CASE UnblockTask(t)
    <2> DEFINE new == [task[t] EXCEPT !.status = "todo", !.failures = 0, !.gaveup = FALSE]
    <2>1. new \in TaskRow /\ KeepsRetired(task[t], new)
      BY <1>0, Members, CounterRanges DEF TaskRow, KeepsRetired, RetiredRow
    <2>2. task' = [task EXCEPT ![t] = Recomputed(Requeued(new), open)]
      BY <1>4 DEF UnblockTask
    <2> HIDE DEF new, open
    <2> QED BY <1>1, <2>1, <2>2
  <1>5. CASE PromoteTask(t)
    <2> DEFINE new == [task[t] EXCEPT !.status = "todo", !.sched = "none", !.failures = 0,
                                      !.gaveup = FALSE]
    <2>1. new \in TaskRow /\ KeepsRetired(task[t], new)
      BY <1>0, Members, CounterRanges DEF TaskRow, KeepsRetired, RetiredRow
    <2>2. task' = [task EXCEPT ![t] = Recomputed(Requeued(new), open)]
      BY <1>5 DEF PromoteTask
    <2> HIDE DEF new, open
    <2> QED BY <1>1, <2>1, <2>2
  <1>6. CASE SpecifyTask(t)
    <2> DEFINE new == [task[t] EXCEPT !.status = "todo", !.kind = "none", !.reason = None]
    <2>1. new \in TaskRow /\ KeepsRetired(task[t], new)
      BY <1>0, <1>6, Members DEF SpecifyTask, TaskRow, KeepsRetired, RetiredRow
    <2>2. task' = [task EXCEPT ![t] = Requeued(new)]
      BY <1>6 DEF SpecifyTask
    <2> HIDE DEF new
    <2> QED BY <1>0, <2>1, <2>2, RequeuedKeeps, OneRow
  <1>7. CASE ArchiveTask(t)
    <2> DEFINE new == [task[t] EXCEPT !.status = "archived", !.current = None, !.sched = "none"]
    <2>1. Keeps(task[t], new)
      BY <1>0 DEF TaskRow, Keeps, KeepsClaimable, KeepsRetired, ClaimableRow, RetiredRow
    <2>2. task' = [task EXCEPT ![t] = new]
      BY <1>7 DEF ArchiveTask
    <2> HIDE DEF new
    <2> QED BY <2>1, <2>2, OneRow DEF Keeps
  <1> QED BY <1>2, <1>3, <1>4, <1>5, <1>6, <1>7, <1>8 DEF PlainEdits

LEMMA DeleteKeeps ==
  ASSUME TypeOK, NEW t \in Task, DeleteTask(t)
  PROVE  StayClaimable /\ StayRetired
  <1> SUFFICES ASSUME NEW c \in Task PROVE Keeps(task[c], task'[c])
    BY DEF StayClaimable, StayRetired, Keeps
  <1>1. task'[c] = IF c = t THEN Absent
                   ELSE IF link[<<t, c>>] # "absent"
                        THEN Recomputed(task[c], HasOpenParents(link', c)) ELSE task[c]
    BY DEF DeleteTask
  <1>2. Keeps(task[c], Absent) /\ Keeps(task[c], task[c])
    BY DEF Absent, Keeps, KeepsClaimable, KeepsRetired, ClaimableRow, RetiredRow
  <1>3. Keeps(task[c], Recomputed(task[c], HasOpenParents(link', c)))
    BY RecomputedKeeps, OpenIsBoolean DEF TypeOK
  <1> QED BY <1>1, <1>2, <1>3

\* A status or a schedule set by hand leaves the event that lifts the guard.
LEMMA RescheduleKeeps ==
  ASSUME TypeOK, NEW t \in Task, Reschedules(t)
  PROVE  StayClaimable /\ StayRetired
  <1> DEFINE open == HasOpenParents(link, t)
  <1>0. task[t] \in TaskRow /\ open \in BOOLEAN
    BY OpenIsBoolean DEF TypeOK
  <1>1. ASSUME NEW new \in TaskRow, ~new.gaveup
        PROVE  KeepsRetired(task[t], new)
    BY <1>1 DEF KeepsRetired, RetiredRow
  <1>2. ASSUME NEW sched \in Schedules, ScheduleTask(t, sched)
        PROVE  StayClaimable /\ StayRetired
    <2> DEFINE new == [task[t] EXCEPT !.status = "scheduled", !.sched = sched,
                                      !.gaveup = FALSE]
    <2>1. new \in TaskRow /\ ~new.gaveup
      BY <1>0, Members, InputAssumption DEF TaskRow
    <2>2. task' = [task EXCEPT ![t] = Requeued(new)]
      BY <1>2 DEF ScheduleTask
    <2> HIDE DEF new
    <2> QED BY <1>0, <1>1, <2>1, <2>2, RequeuedKeeps, OneRow
  <1>3. ASSUME NEW status \in EditStatuses, SetStatus(t, status)
        PROVE  StayClaimable /\ StayRetired
    <2> DEFINE edited == [task[t] EXCEPT !.status = status, !.gaveup = FALSE]
               row == Requeued(edited)
               done == [row EXCEPT !.failures = 0, !.kind = "none", !.reason = None,
                                   !.recur = 0]
               pinned == [done EXCEPT !.completed = None]
    <2>1. edited \in TaskRow /\ ~edited.gaveup /\ edited.status = status
      BY <1>0, InputAssumption DEF TaskRow
    <2>2. /\ row \in TaskRow /\ row.status = status /\ KeepsClaimable(task[t], row)
          /\ ~row.gaveup
      <3> HIDE DEF edited
      <3>1. ~Requeued(edited).gaveup
        BY <2>1 DEF Requeued, TaskRow
      <3> QED BY <1>0, <2>1, <3>1, RequeuedKeeps, RequeuedRow
    <2>3. done.status = status /\ ~done.gaveup /\ pinned.status = status /\ ~pinned.gaveup
      <3> HIDE DEF row
      <3> QED BY <2>2 DEF TaskRow
    <2>4. CASE status = "done" /\ task[t].status # "done"
      <3>1. CompleteWith(t, pinned, None)
        BY <1>3, <2>4 DEF SetStatus
      <3> HIDE DEF pinned
      <3> QED BY <2>3, <2>4, <3>1, CompletionKeeps
    <2>5. CASE status = "done" /\ task[t].status = "done"
      <3>1. task' = [task EXCEPT ![t] = done]
        BY <1>3, <2>5 DEF SetStatus
      <3> HIDE DEF done
      <3>2. Keeps(task[t], done)
        BY <2>3, <2>5 DEF Keeps, KeepsClaimable, KeepsRetired, ClaimableRow, RetiredRow
      <3> QED BY <3>1, <3>2, OneRow DEF Keeps
    <2>6. CASE status # "done"
      <3>1. task' = [task EXCEPT ![t] = Recomputed(Requeued(edited), open)]
        BY <1>3, <2>6 DEF SetStatus
      <3> HIDE DEF edited, open
      <3>2. /\ KeepsClaimable(task[t], Recomputed(Requeued(edited), open))
            /\ KeepsRetired(task[t], edited)
                 => KeepsRetired(task[t], Recomputed(Requeued(edited), open))
        BY <1>0, <2>1, ReopenedKeeps
      <3> QED BY <1>1, <2>1, <3>1, <3>2, OneRow
    <2> QED BY <2>4, <2>5, <2>6
  <1> QED BY <1>2, <1>3 DEF Reschedules

LEMMA EndCompleteKeeps ==
  ASSUME TypeOK, NEW t \in Task, NEW r \in Run \cup {None}, EndCompleteTask(t, r)
  PROVE  StayClaimable /\ StayRetired
  <1> DEFINE plain == Finished(task[t], None)
             row == [Finished(task[t], r) EXCEPT !.guard = "recent_success"]
  <1>1. /\ plain.status = "done" /\ ~plain.gaveup
        /\ row.status = "done" /\ ~row.gaveup
    BY DEF Finished, TypeOK, TaskRow
  <1>2. CompleteWith(t, plain, None) \/ CompleteWith(t, row, r)
    BY DEF EndCompleteTask
  <1> HIDE DEF plain, row
  <1> QED BY <1>1, <1>2, CompletionKeeps

LEMMA BlockKeeps ==
  ASSUME TypeOK, NEW t \in Task, NEW r, NEW kind, NEW reason, BlockTask(t, r, kind, reason)
  PROVE  StayClaimable /\ StayRetired
  <1> DEFINE row == [Blocked(task[t], kind, reason) EXCEPT !.guard = GuardAfter(reason)]
  <1>1. task[t] \in TaskRow /\ task[t].status \notin {"blocked", "archived"}
    BY DEF BlockTask, TypeOK
  <1>2. row.gaveup = task[t].gaveup /\ row.guard = GuardAfter(reason)
    BY <1>1, BlockedColumns
  <1>3. task' = [task EXCEPT ![t] = row]
    BY DEF BlockTask
  <1> HIDE DEF row
  <1>4. Keeps(task[t], row)
    BY <1>1, <1>2, BlockedKeeps
  <1> QED BY <1>3, <1>4, OneRow DEF Keeps

LEMMA LinkKeeps ==
  ASSUME TypeOK, NEW p \in Task, NEW c \in Task, LinkTasks(p, c) \/ UnlinkTasks(p, c)
  PROVE  StayClaimable /\ StayRetired
  <1>0. task[c] \in TaskRow
    BY DEF TypeOK
  <1>1. CASE LinkTasks(p, c)
    <2> DEFINE open == HasOpenParents([link EXCEPT ![<<p, c>>] = Satisfaction(p)], c)
               row == Linked(task[c], Satisfaction(p), open)
    <2>1. Keeps(task[c], row)
      BY <1>0, LinkedKeeps, OpenIsBoolean
    <2>2. task' = [task EXCEPT ![c] = row]
      BY <1>1 DEF LinkTasks
    <2> HIDE DEF row
    <2> QED BY <2>1, <2>2, OneRow DEF Keeps
  <1>2. CASE UnlinkTasks(p, c)
    <2> DEFINE row == Recomputed(task[c], HasOpenParents([link EXCEPT ![<<p, c>>] = "absent"], c))
    <2>1. Keeps(task[c], row)
      BY <1>0, RecomputedKeeps, OpenIsBoolean
    <2>2. task' = [task EXCEPT ![c] = row]
      BY <1>2 DEF UnlinkTasks
    <2> HIDE DEF row
    <2> QED BY <2>1, <2>2, OneRow DEF Keeps
  <1> QED BY <1>1, <1>2

LEMMA TimeKeeps ==
  ASSUME TypeOK, Time
  PROVE  StayClaimable /\ StayRetired
  <1>1. ASSUME NEW t \in Task, ScheduleFallsDue(t) \/ GuardExpires(t)
        PROVE  StayClaimable /\ StayRetired
    <2>1. task[t] \in TaskRow
      BY DEF TypeOK
    <2>2. /\ Keeps(task[t], [task[t] EXCEPT !.sched = "past"])
          /\ Keeps(task[t], [task[t] EXCEPT !.guard = "none"])
      BY <2>1 DEF TaskRow, Keeps, KeepsClaimable, KeepsRetired, ClaimableRow, RetiredRow
    <2>3. \/ task' = [task EXCEPT ![t] = [task[t] EXCEPT !.sched = "past"]]
          \/ task' = [task EXCEPT ![t] = [task[t] EXCEPT !.guard = "none"]]
      BY <1>1 DEF ScheduleFallsDue, GuardExpires
    <2> QED BY <2>2, <2>3, OneRow DEF Keeps
  <1>2. CASE PromoteDueTasks
    <2> SUFFICES ASSUME NEW t \in Task PROVE Keeps(task[t], task'[t])
      BY DEF StayClaimable, StayRetired, Keeps
    <2> DEFINE new == [task[t] EXCEPT !.status = "todo"]
    <2>1. task[t] \in TaskRow
      BY DEF TypeOK
    <2>2. \/ task'[t] = task[t]
          \/ /\ task[t].status = "scheduled"
             /\ task'[t] = Recomputed(Requeued(new), HasOpenParents(link, t))
      BY <1>2 DEF PromoteDueTasks
    <2>3. CASE task'[t] = task[t]
      BY <2>3 DEF Keeps, KeepsClaimable, KeepsRetired
    <2>4. CASE /\ task[t].status = "scheduled"
               /\ task'[t] = Recomputed(Requeued(new), HasOpenParents(link, t))
      <3>1. new \in TaskRow /\ KeepsRetired(task[t], new)
        BY <2>1, <2>4, Members DEF TaskRow, KeepsRetired, RetiredRow
      <3> HIDE DEF new
      <3> QED BY <2>1, <2>4, <3>1, ReopenedKeeps, OpenIsBoolean DEF Keeps
    <2> QED BY <2>2, <2>3, <2>4
  <1> QED BY <1>1, <1>2 DEF Time

LEMMA RetentionKeeps ==
  ASSUME TypeOK, NEW forgotten, NEW rerun, GarbageCollectEvents(forgotten, rerun)
  PROVE  /\ StayRetired
         /\ rerun = {} => StayClaimable
  <1>1. ASSUME NEW t \in Task
        PROVE  /\ task'[t].status = task[t].status /\ task'[t].gaveup = task[t].gaveup
               /\ rerun = {} => task'[t].guard = task[t].guard
    BY DEF GarbageCollectEvents, Forgetting, TypeOK, TaskRow
  <1> QED BY <1>1 DEF StayRetired, StayClaimable, KeepsRetired, KeepsClaimable, RetiredRow,
                      ClaimableRow

LEMMA LaunchingKeeps ==
  ASSUME TypeOK, LaunchingNext
  PROVE  StayClaimable /\ StayRetired
  <1>1. CASE Launch
    BY <1>1, ClaimKeeps, SameTasks DEF Launch, MarkRunManaged, BindRunWorkspace,
                                       RecordSpawn, PauseGoalRun
  <1>2. CASE Terminal
    BY <1>2, FinalizeKeeps, SameTasks DEF Terminal, RequestRunCompletion, RequestRunBlock,
       DiscardRunTerminalRequest, RecordRunChangeSet
  <1>3. CASE Recovery
    <2>1. PICK r \in Run, outcome \in Outcomes, reason \in Reason :
             \/ \E counted, cooldown \in BOOLEAN, limit \in Failures :
                   FinishUnsuccessful(r, outcome, counted, cooldown, reason, limit)
             \/ \E kind \in Kinds, o \in {outcome, "blocked"} :
                   RecoverRunBlocked(r, o, kind, reason)
             \/ DeferRunRecovery(r, outcome)
      BY <1>3, LimitAssumption, CounterRanges DEF Recovery, FailRun, RecoverAbandonedRun
    <2> QED BY <2>1, FailKeeps, RecoverBlockedKeeps, SameTasks DEF DeferRunRecovery
  <1>4. CASE CreateTasks
    BY <1>4, CreateKeeps DEF CreateTasks
  <1>5. CASE CompleteTasks
    BY <1>5, EndCompleteKeeps, SameTasks DEF CompleteTasks, BeginCompleteTask,
                                             AbandonCompleteTask
  <1>6. CASE BlockTasks
    BY <1>6, BlockKeeps DEF BlockTasks
  <1>7. CASE Dependencies
    BY <1>7, LinkKeeps DEF Dependencies
  <1>8. CASE Time
    BY <1>8, TimeKeeps
  <1> QED BY <1>1, <1>2, <1>3, <1>4, <1>5, <1>6, <1>7, <1>8 DEF LaunchingNext

\* Both restricted relations are among the steps of the store.
LEMMA RestrictedSteps ==
  /\ LaunchingNext => Next
  /\ EditTasks => \E t \in Task : PlainEdits(t) \/ Reschedules(t)
  /\ \A t \in Task : PlainEdits(t) \/ Reschedules(t) => Next
  /\ EditTasks => Next
  /\ \A forgotten, rerun \in SUBSET Task : GarbageCollectEvents(forgotten, rerun) => Next
  <1>1. \A t \in Task : PlainEdits(t) \/ Reschedules(t) => EditTasks
    BY DEF EditTasks, PlainEdits, Reschedules
  <1>2. EditTasks => \E t \in Task : PlainEdits(t) \/ Reschedules(t)
    BY DEF EditTasks, PlainEdits, Reschedules
  <1> QED BY <1>1, <1>2 DEF LaunchingNext, Next, Retention

LEMMA EditsKeep ==
  ASSUME TypeOK, NEW t \in Task, PlainEdits(t) \/ Reschedules(t)
  PROVE  StayClaimable /\ StayRetired
  BY EditKeeps, DeleteKeeps, RescheduleKeeps

\* The guard against accidental reruns never holds back a task that was sent
\* back deliberately, as long as retention keeps the events of the last hour.
THEOREM ReopenedAreClaimable == RetainingSpec => []ReopenedTaskClaimable
  <1> DEFINE Claimable == \A t \in Task : ClaimableRow(task[t])
             Step == LaunchingNext \/ EditTasks
                       \/ \E forgotten \in SUBSET Task : GarbageCollectEvents(forgotten, {})
  <1>1. Init => TypeOK /\ Claimable
    BY AbsentRow, UnusedRow DEF Init, TypeOK, Absent, ClaimableRow
  <1>2. TypeOK /\ Claimable /\ [Step]_vars => (TypeOK /\ Claimable)'
    <2> SUFFICES ASSUME TypeOK, Claimable, [Step]_vars PROVE TypeOK' /\ Claimable'
      OBVIOUS
    <2>1. [Next]_vars
      BY RestrictedSteps
    <2>2. StayClaimable
      <3>1. CASE LaunchingNext
        BY <3>1, LaunchingKeeps
      <3>2. CASE EditTasks
        BY <3>2, RestrictedSteps, EditsKeep
      <3>3. ASSUME NEW forgotten \in SUBSET Task, GarbageCollectEvents(forgotten, {})
            PROVE  StayClaimable
        BY <3>3, RetentionKeeps
      <3>4. CASE UNCHANGED vars
        BY <3>4, SameTasks DEF vars
      <3> QED BY <3>1, <3>2, <3>3, <3>4
    <2> QED BY <2>1, <2>2, StepKinds DEF StayClaimable, KeepsClaimable
  <1>3. Claimable => ReopenedTaskClaimable
    BY DEF ClaimableRow, ReopenedTaskClaimable
  <1> QED BY <1>1, <1>2, <1>3, PTL DEF RetainingSpec

\* A counted failure that reaches the limit in force at that moment - named by
\* the dispatcher, or the task's own - takes the task out of service, whatever
\* is done with limits, links, other tasks and the clock afterwards, until an
\* operator unblocks, promotes, reschedules or finishes it.
THEOREM ExhaustedStayPut == Spec => []ExhaustedNotRetried
  <1>1. Init => ExhaustedNotRetried
    BY DEF Init, Absent, ExhaustedNotRetried
  <1>2. TypeOK /\ ExhaustedNotRetried /\ [Next]_vars => ExhaustedNotRetried'
    <2> SUFFICES ASSUME TypeOK, [Next]_vars PROVE StayRetired
      BY DEF StayRetired, KeepsRetired, RetiredRow, ExhaustedNotRetried
    <2>1. CASE LaunchingNext
      BY <2>1, LaunchingKeeps
    <2>2. CASE Retention
      BY <2>2, RetentionKeeps DEF Retention
    <2>3. CASE EditTasks
      BY <2>3, RestrictedSteps, EditsKeep
    <2>4. CASE UNCHANGED vars
      BY <2>4, SameTasks DEF vars
    <2> QED BY <2>1, <2>2, <2>3, <2>4 DEF Next, LaunchingNext
  <1> QED BY <1>1, <1>2, TypeCorrect, PTL DEF Spec
=============================================================================
