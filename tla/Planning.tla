------------------------------ MODULE Planning ------------------------------
(* Planning: the coordinator that keeps planner calls off the dispatcher's   *)
(* loop (dispatcher/planning.go), its passes over the triage lists of the    *)
(* boards (decomposeBoardTriage), and what the planners of the dispatcher,   *)
(* the dashboard and the command line do to a task (orchestration/workflow,  *)
(* store/orchestration).                                                     *)
(*                                                                           *)
(* Boards are numbered in listing order and the tasks of a board in the      *)
(* order of its triage list (priority, then age).                            *)
EXTENDS Integers, FiniteSets

DAG == INSTANCE Graphs

CONSTANTS
    Boards,       \* number of boards
    Ranks,        \* number of places in a board's triage list
    Imported,     \* tasks imported from GitHub
    Manual,       \* planner calls of users
    AutoPlanner,  \* the planner call of the coordinator
    Key,          \* keys of the subtasks a plan may name
    Root,         \* the decomposed task, as a node of its graph
    PerPass,      \* quota of a pass
    PerBoard,     \* quota of a board in a pass
    PageSize,     \* tasks listed at once
    ScanLimit,    \* tasks looked at per board and pass
    MaxFailures,  \* failures remembered
    MaxEdits,     \* bound: changes by users
    MaxStops      \* bound: shutdowns of the dispatcher

Board == 1..Boards
Task  == Board \X (1..Ranks)

ASSUME PlanningAssumption ==
    /\ Boards \in Nat \ {0} /\ Ranks \in Nat \ {0}
    /\ PerPass \in Nat \ {0} /\ PerBoard \in Nat \ {0}
    /\ PageSize \in Nat \ {0} /\ ScanLimit \in Nat \ {0} /\ MaxFailures \in Nat \ {0}
    /\ MaxEdits \in Nat /\ MaxStops \in Nat
    /\ Imported \subseteq Task
    /\ AutoPlanner \notin Manual /\ Root \notin Key /\ Key # {}

VARIABLES
    triage,    \* tasks with status triage
    version,   \* tasks.updated_at
    text,      \* how often title or body were changed
    graph,     \* the execution graph a task was decomposed into last
    edits,     \* changes by users so far
    queued,    \* a pass waits in the coordinator's queue
    pass,      \* the coordinator's goroutine
    first,     \* diagnostics.nextPlanningBoard
    cursor,    \* diagnostics.triageCursors: the last rank looked at, or 0
    failed,    \* diagnostics.failures: tasks that failed and have no success since
    cooling,   \* those whose retry time has not come
    halted,    \* the dispatcher's context is cancelled
    stops,     \* shutdowns so far
    call       \* planner calls that are under way

taskVars == <<triage, version, text, graph, edits>>
diagVars == <<first, cursor, failed, cooling>>
planVars == <<taskVars, queued, pass, diagVars, halted, stops, call>>

Planner == Manual \cup {AutoPlanner}
NoCall  == [stage |-> "none"]

\* The edges of a plan and of the graph made of it: <<prerequisite, dependent>>.
Plans  == SUBSET {edge \in Key \X Key : edge[1] # edge[2]}
Graphs == SUBSET ((Key \cup {Root}) \X (Key \cup {Root}))
NoGraph == {<<Root, Root>>}

Calls == {NoCall}
         \cup [stage : {"planning", "single"}, task : Task, version : Nat, text : Nat]
         \cup [stage : {"fanout"}, task : Task, version : Nat, text : Nat, plan : Plans]
         \cup [stage : {"specified", "routing"}, task : Task, version : Nat]

Passes == [stage : {"idle", "boards", "listing", "page", "planning", "ended"},
           board : Board, visited : 0..Boards,
           quota : 0..PerPass, left : 0..PerBoard, scanned : 0..ScanLimit,
           page : SUBSET (1..Ranks), last : BOOLEAN]
NoPass == [stage |-> "idle", board |-> 1, visited |-> 0, quota |-> 0, left |-> 0, scanned |-> 0,
           page |-> {}, last |-> FALSE]

PlanTypeOK ==
    /\ triage \subseteq Task
    /\ version \in [Task -> Nat] /\ text \in [Task -> Nat]
    /\ graph \in [Task -> Graphs]
    /\ edits \in 0..MaxEdits /\ stops \in 0..MaxStops
    /\ queued \in BOOLEAN /\ halted \in BOOLEAN
    /\ pass \in Passes
    /\ first \in Board
    /\ cursor \in [Board -> 0..Ranks]
    /\ failed \subseteq Task /\ cooling \subseteq failed
    /\ Cardinality(failed) <= MaxFailures
    /\ call \in [Planner -> Calls]

PlanInit ==
    /\ triage \in SUBSET Task
    /\ version = [t \in Task |-> 0] /\ text = [t \in Task |-> 0]
    /\ graph = [t \in Task |-> NoGraph]
    /\ edits = 0 /\ stops = 0
    /\ queued = FALSE /\ halted = FALSE
    /\ pass = NoPass
    /\ first = 1
    /\ cursor = [b \in Board |-> 0]
    /\ failed = {} /\ cooling = {}
    /\ call = [p \in Planner |-> NoCall]

-----------------------------------------------------------------------------
(* Users.  Every change of a row moves updated_at.                           *)

Written(t) == version' = [version EXCEPT ![t] = @ + 1]

UserActs ==
    /\ edits < MaxEdits
    /\ edits' = edits + 1
    /\ UNCHANGED <<graph, queued, pass, diagVars, halted, stops, call>>

EditText(t) ==
    /\ UserActs
    /\ Written(t)
    /\ text' = [text EXCEPT ![t] = @ + 1]
    /\ UNCHANGED triage

\* Priority, assignee, workspace and the like; a task may return to triage,
\* one that was decomposed too (its subtasks stay).
EditRow(t) ==
    /\ UserActs
    /\ Written(t)
    /\ \/ triage' = triage
       \/ triage' = triage \cup {t}
       \/ triage' = triage \ {t}
    /\ UNCHANGED text

-----------------------------------------------------------------------------
(* A planner call: read the task, ask the planner, apply its plan.           *)

Called(p, t) ==
    call' = [call EXCEPT ![p] = [stage |-> "planning", task |-> t,
                                 version |-> version[t], text |-> text[t]]]

\* The planner's answer passed decodePlan and the validations of its text.
Answers(p) ==
    /\ call[p].stage = "planning"
    /\ \/ call' = [call EXCEPT ![p].stage = "single"]
       \/ \E plan \in Plans :
            call' = [call EXCEPT ![p] = [stage |-> "fanout", task |-> @.task, plan |-> plan,
                                         version |-> @.version, text |-> @.text]]
    /\ UNCHANGED <<taskVars, queued, pass, diagVars, halted, stops>>

\* MUTANT: the version the planner worked on is not compared.
UnchangedSinceAny(t, v) == t \in triage

\* requireExpectedTaskVersion and the status check, inside the transaction.
UnchangedSince(t, v) == t \in triage /\ version[t] = v

\* SpecifyTaskWithVersion: one transaction; the task is no longer in triage.
Specify(p) ==
    /\ call[p].stage = "single"
    /\ LET t == call[p].task IN
       /\ UnchangedSince(t, call[p].version)
       /\ triage' = triage \ {t}
       /\ text' = [text EXCEPT ![t] = @ + 1]
       /\ Written(t)
    /\ UNCHANGED <<graph, edits>>

(* DecomposeTriageTask without fanout assigns the task afterwards, against   *)
(* the version it then reads.                                                *)
Reread(p) ==
    /\ call[p].stage = "specified"
    /\ call' = [call EXCEPT ![p] = [stage |-> "routing", task |-> call[p].task,
                                    version |-> version[call[p].task]]]
    /\ UNCHANGED <<taskVars, queued, pass, diagVars, halted, stops>>

PlanGraph(plan) == [node |-> Key, edge |-> plan]

\* MUTANT: the last tasks are taken for those that wait for nobody.
WithRootFirst(plan) == plan \cup (DAG!Roots(PlanGraph(plan)) \X {Root})

\* Some subtasks of the plan all have a dependent among themselves.
Circular(plan) ==
    \E keys \in (SUBSET Key) \ {{}} : \A k \in keys : \E d \in keys : <<k, d>> \in plan

\* What waits for whom: the plan's edges, and the root for every leaf.
WithRoot(plan) == plan \cup (DAG!Leaves(PlanGraph(plan)) \X {Root})

(* ApplyTaskGraph: one transaction that creates the subtasks, links them and *)
(* the root, and takes the root out of triage; linkTasks refuses a cycle.    *)
Fanout(p) ==
    /\ call[p].stage = "fanout"
    /\ ~ Circular(call[p].plan)
    /\ LET t == call[p].task IN
       /\ UnchangedSince(t, call[p].version)
       /\ triage' = triage \ {t}
       /\ text' = [text EXCEPT ![t] = @ + 1]
       /\ graph' = [graph EXCEPT ![t] = WithRoot(call[p].plan)]
       /\ Written(t)
    /\ UNCHANGED edits

\* UpdateTask with the default worker.
Route(p) ==
    /\ call[p].stage = "routing"
    /\ version[call[p].task] = call[p].version
    /\ Written(call[p].task)
    /\ UNCHANGED <<triage, text, graph, edits>>

\* The plan no longer fits, is cyclic, or the store or the planner failed.
GivesUp(p) ==
    /\ call[p] # NoCall
    /\ UNCHANGED taskVars

Hung(p) == call' = [call EXCEPT ![p] = NoCall]
Goes(p, stage) == call' = [call EXCEPT ![p] = [stage |-> stage, task |-> @.task, version |-> @.version]]

\* `specify` and `decompose` of the command line, the dashboard and MCP.
ManualBegins(p) ==
    /\ call[p] = NoCall
    /\ \E t \in triage : Called(p, t)
    /\ UNCHANGED taskVars

\* What was only to be specified is done; a decomposition goes on to its routes.
ManualSpecifies(p) == Specify(p) /\ (Hung(p) \/ Goes(p, "specified"))

ManualEnds(p) == (Fanout(p) \/ Route(p) \/ GivesUp(p)) /\ Hung(p)

ManualCall(p) ==
    /\ ManualBegins(p) \/ ManualSpecifies(p) \/ ManualEnds(p)
    /\ UNCHANGED <<queued, pass, diagVars, halted, stops>>

-----------------------------------------------------------------------------
(* The coordinator.                                                          *)

Accepting == pass.stage # "ended" /\ ~ halted

\* One pass waits at most; a tick that finds one waiting adds nothing.
Enqueue ==
    /\ Accepting
    /\ ~ queued
    /\ queued' = TRUE
    /\ UNCHANGED <<taskVars, pass, diagVars, halted, stops, call>>

After(b) == (b % Boards) + 1

(* A pass begins with the board whose turn it is, and the next pass with the *)
(* one after it unless an attempt moves the turn on.                         *)
TakePass ==
    /\ pass.stage = "idle"
    /\ queued
    /\ queued' = FALSE
    /\ pass' = [NoPass EXCEPT !.stage = "boards", !.board = first, !.quota = PerPass]
    /\ first' = After(first)
    /\ UNCHANGED <<taskVars, cursor, failed, cooling, halted, stops, call>>

Allowance == IF pass.quota < PerBoard THEN pass.quota ELSE PerBoard

BoardOpens ==
    /\ pass.stage = "boards"
    /\ pass.visited < Boards /\ pass.quota > 0 /\ ~ halted
    /\ pass' = [pass EXCEPT !.stage = "listing", !.left = Allowance, !.scanned = 0]
    /\ UNCHANGED <<taskVars, queued, diagVars, halted, stops, call>>

ToNextBoard == pass' = [NoPass EXCEPT !.stage = "boards", !.board = After(pass.board),
                                      !.visited = pass.visited + 1, !.quota = pass.quota]

\* Metadata, profiles, the store or a listing fail: on to the next board.
BoardFails ==
    /\ \/ pass.stage = "boards" /\ pass.visited < Boards /\ pass.quota > 0 /\ ~ halted
       \/ pass.stage = "listing"
    /\ ToNextBoard
    /\ UNCHANGED <<taskVars, queued, diagVars, halted, stops, call>>

PassEnds ==
    /\ pass.stage = "boards"
    /\ pass.visited = Boards \/ pass.quota = 0 \/ halted
    /\ pass' = NoPass
    /\ UNCHANGED <<taskVars, queued, diagVars, halted, stops, call>>

Lowest(ranks, n) == {r \in ranks : Cardinality({q \in ranks : q < r}) < n}

Waiting(b) == {r \in 1..Ranks : <<b, r>> \in triage /\ r > cursor[b]}

\* ListTasks after the cursor; at the end of the list the cursor is dropped.
ListPage ==
    LET limit == IF ScanLimit - pass.scanned < PageSize
                 THEN ScanLimit - pass.scanned ELSE PageSize
        found == Lowest(Waiting(pass.board), limit)
    IN
    /\ pass.stage = "listing"
    /\ IF found = {}
       THEN /\ ToNextBoard
            /\ cursor' = [cursor EXCEPT ![pass.board] = 0]
       ELSE /\ pass' = [pass EXCEPT !.stage = "page", !.page = found,
                                    !.last = Cardinality(found) < limit]
            /\ UNCHANGED cursor
    /\ UNCHANGED <<taskVars, queued, first, failed, cooling, halted, stops, call>>

\* The page is through.
PageEnds ==
    /\ pass.stage = "page" /\ pass.page = {}
    /\ IF pass.last \/ pass.scanned = ScanLimit
       THEN ToNextBoard
       ELSE pass' = [pass EXCEPT !.stage = "listing"]
    /\ cursor' = IF pass.last THEN [cursor EXCEPT ![pass.board] = 0] ELSE cursor
    /\ UNCHANGED <<taskVars, queued, first, failed, cooling, halted, stops, call>>

Next1(ranks) == CHOOSE r \in ranks : \A q \in ranks : r <= q

\* Imported tasks wait for a user; failed ones for their retry time.
PassedOver(t) == t \in Imported \cup cooling

\* MUTANT: every pass looks at the top of the list.
CandidateOnTop(b, r) ==
    /\ pass.stage = "page" /\ pass.page # {}
    /\ b = pass.board /\ r = Next1(pass.page)
    /\ cursor' = cursor

(* The next task of the page: passed over, no longer in triage (an error),   *)
(* or given to the planner.                                                  *)
Candidate(b, r) ==
    /\ pass.stage = "page" /\ pass.page # {}
    /\ b = pass.board /\ r = Next1(pass.page)
    /\ cursor' = [cursor EXCEPT ![b] = r]

Scanned == [pass EXCEPT !.page = @ \ {Next1(@)}, !.scanned = @ + 1]

PassOver(b, r) ==
    /\ Candidate(b, r)
    /\ PassedOver(<<b, r>>)
    /\ pass' = Scanned
    /\ UNCHANGED <<taskVars, queued, first, failed, cooling, halted, stops, call>>

Attempt(b, r) ==
    /\ Candidate(b, r)
    /\ ~ PassedOver(<<b, r>>)
    /\ <<b, r>> \in triage
    /\ Called(AutoPlanner, <<b, r>>)
    /\ pass' = [Scanned EXCEPT !.stage = "planning"]
    /\ UNCHANGED <<taskVars, queued, first, failed, cooling, halted, stops>>

(* An attempt, whatever came of it, takes one from both quotas and gives the *)
(* first turn of the next pass to the board after this one.                  *)
AttemptOver(state) ==
    /\ first' = After(state.board)
    /\ pass' = IF state.quota = 1 \/ state.left = 1
               THEN [NoPass EXCEPT !.stage = "boards", !.board = After(state.board),
                                   !.visited = state.visited + 1, !.quota = state.quota - 1]
               ELSE [state EXCEPT !.stage = "page", !.quota = @ - 1, !.left = @ - 1]

\* MUTANT: nothing makes room.
FailsUnbounded(t) == failed' = failed \cup {t} /\ cooling' = cooling \cup {t}

\* recordAutoDecomposeFailure: some other entry makes room for a new one.
Fails(t) ==
    \E out \in SUBSET (failed \ {t}) :
        /\ Cardinality(out) = IF t \notin failed /\ Cardinality(failed) >= MaxFailures
                              THEN 1 ELSE 0
        /\ failed' = (failed \ out) \cup {t}
        /\ cooling' = (cooling \ out) \cup {t}

Succeeds(t) == failed' = failed \ {t} /\ cooling' = cooling \ {t}

AttemptMisses(b, r) ==
    /\ Candidate(b, r)
    /\ ~ PassedOver(<<b, r>>)
    /\ <<b, r>> \notin triage
    /\ IF halted THEN pass' = NoPass /\ UNCHANGED <<first, failed, cooling>>
                 ELSE AttemptOver(Scanned) /\ Fails(<<b, r>>)
    /\ UNCHANGED <<taskVars, queued, halted, stops, call>>

AutoSpecifies ==
    /\ Specify(AutoPlanner)
    /\ Goes(AutoPlanner, "specified")
    /\ UNCHANGED <<queued, pass, diagVars, halted, stops>>

AutoSucceeds ==
    /\ Fanout(AutoPlanner) \/ Route(AutoPlanner)
    /\ Hung(AutoPlanner)
    /\ AttemptOver(pass)
    /\ Succeeds(call[AutoPlanner].task)
    /\ UNCHANGED <<queued, cursor, halted, stops>>

AutoFails ==
    /\ GivesUp(AutoPlanner)
    /\ Hung(AutoPlanner)
    /\ IF halted THEN pass' = NoPass /\ UNCHANGED <<first, failed, cooling>>
                 ELSE AttemptOver(pass) /\ Fails(call[AutoPlanner].task)
    /\ UNCHANGED <<queued, cursor, halted, stops>>

CoolsDown(t) ==
    /\ t \in cooling
    /\ cooling' = cooling \ {t}
    /\ UNCHANGED <<taskVars, queued, pass, first, cursor, failed, halted, stops, call>>

\* The dispatcher's context is cancelled.
Halt ==
    /\ ~ halted
    /\ stops < MaxStops
    /\ halted' = TRUE
    /\ stops' = stops + 1
    /\ UNCHANGED <<taskVars, queued, pass, diagVars, call>>

\* run returns: stopAndDrain releases whoever waits for the queued pass.
Exit ==
    /\ halted /\ pass.stage = "idle"
    /\ pass' = [NoPass EXCEPT !.stage = "ended"]
    /\ queued' = FALSE
    /\ UNCHANGED <<taskVars, diagVars, halted, stops, call>>

\* The next call of dispatcher.Run, with diagnostics of its own.
Resume ==
    /\ pass.stage = "ended"
    /\ pass' = NoPass
    /\ halted' = FALSE
    /\ first' = 1
    /\ cursor' = [b \in Board |-> 0]
    /\ failed' = {} /\ cooling' = {}
    /\ UNCHANGED <<taskVars, queued, stops, call>>

Coordinator ==
    \/ TakePass \/ BoardOpens \/ BoardFails \/ PassEnds \/ ListPage \/ PageEnds
    \/ \E b \in Board, r \in 1..Ranks : PassOver(b, r) \/ Attempt(b, r) \/ AttemptMisses(b, r)
    \/ Answers(AutoPlanner)
    \/ Reread(AutoPlanner)
    \/ AutoSpecifies \/ AutoSucceeds \/ AutoFails
    \/ Exit

PlanNext ==
    \/ \E t \in Task : EditText(t) \/ EditRow(t) \/ CoolsDown(t)
    \/ \E p \in Manual : ManualCall(p) \/ Answers(p) \/ Reread(p)
    \/ Enqueue \/ Coordinator
    \/ Halt \/ Resume

PlanSpec == PlanInit /\ [][PlanNext]_planVars

(* The loop ticks, the coordinator's goroutine runs, a planner ends (its     *)
(* call has a timeout), and a board that is tried again and again opens.     *)
PlanFairness ==
    /\ WF_planVars(Enqueue) /\ WF_planVars(Coordinator) /\ WF_planVars(Resume)
    /\ \A b \in Board : /\ SF_planVars(pass.board = b /\ BoardOpens)
                        /\ SF_planVars(pass.board = b /\ ListPage)

FairPlanSpec == PlanSpec /\ PlanFairness

-----------------------------------------------------------------------------
(* A plan is applied to the title and body it was made for: neither an edit  *)
(* of a user nor another planner's plan that came in while the planner was   *)
(* thinking is overwritten.                                                  *)
PlanFitsText ==
    [][ \A p \in Planner :
          /\ call[p].stage \in {"single", "fanout"}
          /\ call[p].task \in triage /\ call[p].task \notin triage'
          /\ call'[p] # call[p]
          => text[call[p].task] = call[p].text
      ]_planVars

\* Whom the root waits for, directly or not: all that is in every set that
\* holds the root and the prerequisites of its members.
Awaited(edges) ==
    {k \in Key : \A nodes \in SUBSET (Key \cup {Root}) :
        /\ Root \in nodes
        /\ \A edge \in edges : edge[2] \in nodes => edge[1] \in nodes
        => k \in nodes}

(* The root of a decomposed task waits, directly or not, for every subtask,  *)
(* whatever dependencies the plan names.                                     *)
RootAwaitsSubtasks ==
    \A t \in Task : graph[t] # NoGraph => Key \subseteq Awaited(graph[t])

(* Round robin: a task that could be planned is planned some day, however    *)
(* many others fail, cool down, are imported or sit on other boards.         *)
Plannable(t) == t \in triage /\ ~ PassedOver(t)

PlannedNow(t) == IF call[AutoPlanner] = NoCall THEN FALSE ELSE call[AutoPlanner].task = t

TriageIsReached ==
    \A t \in Task : Plannable(t) ~> (~ Plannable(t) \/ PlannedNow(t))
=============================================================================
