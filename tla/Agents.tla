------------------------------- MODULE Agents -------------------------------
(***************************************************************************)
(* Which agent does the work: the health of the configured agents, the     *)
(* choice of a worker's profile along its fallbacks, the rotation of the   *)
(* dispatcher's claim passes over the boards, and a planner's walk through *)
(* its candidates (internal/dispatcher, internal/orchestration, the        *)
(* agent_health table).                                                    *)
(*                                                                         *)
(* A profile here is enabled and has a runtime the dispatcher can launch.  *)
(* An agent's cooldown is the state of its row: `limited` and `broken`     *)
(* agents cool down, `expired` is a cooldown that passed and is not yet    *)
(* cleared.  Boards are numbered in the order the manager lists them.      *)
(***************************************************************************)
EXTENDS Naturals, Sequences, FiniteSets, Functions

CONSTANTS
    Boards,       \* how many boards there are
    Profile,
    Task,
    BoardOf,      \* the board of each task
    Desired,      \* the profile each task is assigned to
    Cap,          \* maxConcurrent of each profile; without one, more than there are tasks
    Registered,   \* profiles of the agent registry; the others are a board's own
    Candidates,   \* the planner's registered candidates, in order
    MaxWorkers,
    MaxMishaps,   \* bound: how often an agent fails
    None

ASSUME AgentsAssumption ==
    /\ Boards \in Nat \ {0} /\ MaxWorkers \in Nat /\ MaxMishaps \in Nat
    /\ IsFiniteSet(Profile)
    /\ BoardOf \in [Task -> 1..Boards] /\ Desired \in [Task -> Profile]
    /\ Cap \in [Profile -> Nat \ {0}] /\ Candidates \in Seq(Profile)

VARIABLES
    fallbacks,    \* profile -> its fallbacks in order
    health,       \* agent_health of each board
    taskStatus,   \* tasks.status
    job,          \* the dispatcher's worker for each task
    call,         \* a planner call of some board
    pass,         \* the claim pass: boards still to visit, and whether it claimed
    nextBoard,    \* where the next pass starts
    mishaps,
    steady        \* history: the profiles usable since the search for a worker's began

work == <<taskStatus, job>>
agentVars == <<fallbacks, health, taskStatus, job, call, pass, nextBoard, mishaps>>

Board == 1..Boards
Health == {"well", "limited", "broken", "expired"}
Launched == {"running", "limited", "broken", "pausing", "leaving"}
Steps == {"none", "claimed", "searching", "counting", "resolved", "slotted"} \cup Launched
NoJob == [step |-> "none", profile |-> None, queue |-> <<>>, seen |-> {}]
Claimed == [NoJob EXCEPT !.step = "claimed"]
NoCall == [step |-> "idle", board |-> 1, at |-> 0, held |-> None]
NoPass == [open |-> FALSE, left |-> <<>>, found |-> FALSE]

AgentsStart(graph, known, jobs) ==
    /\ fallbacks = graph
    /\ health = [b \in Board |-> known]
    /\ taskStatus = [t \in Task |-> IF jobs[t] = NoJob THEN "ready" ELSE "running"]
    /\ job = jobs
    /\ call = NoCall
    /\ pass = NoPass
    /\ nextBoard = 1
    /\ mishaps = 0
    /\ steady = [t \in Task |-> {}]

\* Some tasks may have been claimed already.
AgentsInit ==
    \E graph \in [Profile -> Seq(Profile)], known \in [Profile -> Health],
       jobs \in [Task -> {NoJob, Claimed}] : AgentsStart(graph, known, jobs)

-----------------------------------------------------------------------------
(* Choosing a profile *)

\* SetAgentHealth: one row per agent; the last writer wins.
SetHealth(b, p, status) == health' = [health EXCEPT ![b][p] = status]

Unavailable(b, p) == health[b][p] \in {"limited", "broken"}

\* CountActiveAgentRuns: the board's runs that recorded the profile.
Recorded(b, p) == Cardinality({t \in Task : /\ BoardOf[t] = b /\ job[t].step \in Launched
                                           /\ job[t].profile = p})
Usable(b) == {p \in Profile : ~Unavailable(b, p) /\ Recorded(b, p) < Cap[p]}

\* Closed sets of profiles: with a profile, its fallbacks.
Closed(profiles) == \A p \in profiles : Range(fallbacks[p]) \subseteq profiles

\* The profiles that can stand in for p, along any number of fallbacks.
Reachable(p) ==
    {q \in Profile : \A profiles \in SUBSET Profile : p \in profiles /\ Closed(profiles) =>
                        q \in profiles}

\* What a search finds that nothing interrupts.
Available(b, p) == Reachable(p) \cap Usable(b)

\* A row of tasks after its run failed without counting.
Requeued(t, status) == /\ taskStatus' = [taskStatus EXCEPT ![t] = status]
                       /\ job' = [job EXCEPT ![t] = NoJob]

-----------------------------------------------------------------------------
(* Claim passes *)

Active == Cardinality({t \in Task : job[t].step # "none"})
After(b) == (b % Boards) + 1
Rotated(b) == [i \in 1..Boards |-> ((b + i - 2) % Boards) + 1]

NewRound == [open |-> TRUE, left |-> Rotated(nextBoard), found |-> FALSE]

\* claimProfilePolicy and ClaimTask: the profile has an agent, and fewer tasks
\* assigned to it are in progress than its cap.
Claimable(t) ==
    /\ taskStatus[t] = "ready"
    /\ Available(BoardOf[t], Desired[t]) # {}
    /\ Cardinality({x \in Task : /\ BoardOf[x] = BoardOf[t] /\ taskStatus[x] = "running"
                                 /\ Desired[x] = Desired[t]}) < Cap[Desired[t]]

\* maintainBoards, then a round over the boards while a worker is free.
BeginPass ==
    /\ ~pass.open
    /\ health' = [b \in Board |-> [p \in Profile |->
                      IF health[b][p] = "expired" THEN "well" ELSE health[b][p]]]
    /\ taskStatus' = [t \in Task |-> IF taskStatus[t] = "due" THEN "ready" ELSE taskStatus[t]]
    /\ pass' = IF Active < MaxWorkers THEN NewRound ELSE NoPass
    /\ UNCHANGED <<fallbacks, job, call, nextBoard, mishaps>>

\* MUTANT: a claim does not move the start of the next pass.
ClaimWithoutTurning(t) ==
    /\ pass.open /\ pass.left # <<>> /\ Active < MaxWorkers
    /\ BoardOf[t] = Head(pass.left) /\ Claimable(t)
    /\ taskStatus' = [taskStatus EXCEPT ![t] = "running"]
    /\ job' = [job EXCEPT ![t] = Claimed]
    /\ pass' = [pass EXCEPT !.left = Tail(@), !.found = TRUE]
    /\ UNCHANGED <<fallbacks, health, call, nextBoard, mishaps>>

Claim(t) ==
    /\ pass.open /\ pass.left # <<>> /\ Active < MaxWorkers
    /\ BoardOf[t] = Head(pass.left) /\ Claimable(t)
    /\ taskStatus' = [taskStatus EXCEPT ![t] = "running"]
    /\ job' = [job EXCEPT ![t] = Claimed]
    /\ pass' = [pass EXCEPT !.left = Tail(@), !.found = TRUE]
    /\ nextBoard' = After(BoardOf[t])
    /\ UNCHANGED <<fallbacks, health, call, mishaps>>

NothingToClaim ==
    /\ pass.open /\ pass.left # <<>> /\ Active < MaxWorkers
    /\ \A t \in Task : BoardOf[t] = Head(pass.left) => ~Claimable(t)
    /\ pass' = [pass EXCEPT !.left = Tail(@)]
    /\ UNCHANGED <<fallbacks, health, work, call, nextBoard, mishaps>>

\* Another round while workers are free and the last one claimed something;
\* a round that claimed nothing still moves the start by one board.
EndRound ==
    /\ pass.open
    /\ pass.left = <<>> \/ Active >= MaxWorkers
    /\ IF pass.found /\ Active < MaxWorkers
       THEN /\ pass' = NewRound
            /\ UNCHANGED nextBoard
       ELSE /\ pass' = NoPass
            /\ nextBoard' = IF pass.found THEN nextBoard ELSE After(nextBoard)
    /\ UNCHANGED <<fallbacks, health, work, call, mishaps>>

-----------------------------------------------------------------------------
(* A worker *)

\* Slots of the coordination store: workers and planners of registered agents.
Held(p) == Cardinality({t \in Task : job[t].step \in {"slotted"} \cup Launched /\ job[t].profile = p})
           + (IF call.held = p THEN 1 ELSE 0)

\* resolveRunProfile begins with the profile the task is assigned to.
BeginSearch(t) ==
    /\ job[t].step = "claimed"
    /\ job' = [job EXCEPT ![t] = [NoJob EXCEPT !.step = "searching", !.queue = <<Desired[t]>>]]
    /\ UNCHANGED <<fallbacks, health, taskStatus, call, pass, nextBoard, mishaps>>

\* The next profile of the queue, which is now `rest`, was not seen before: its
\* health is read, and if that will do its runs are counted next.
Looked(t, rest) ==
    LET p == Head(job[t].queue)
        well == ~Unavailable(BoardOf[t], p)
    IN job' = [job EXCEPT ![t].step = IF well THEN "counting" ELSE "searching",
                          ![t].profile = IF well THEN p ELSE None,
                          ![t].queue = rest, ![t].seen = @ \cup {p}]

Searching(t) == job[t].step = "searching" /\ job[t].queue # <<>>

\* MUTANT: the fallbacks of a profile are tried before its siblings.
LookDeep(t) ==
    /\ Searching(t) /\ Head(job[t].queue) \notin job[t].seen
    /\ Looked(t, fallbacks[Head(job[t].queue)] \o Tail(job[t].queue))
    /\ UNCHANGED <<fallbacks, health, taskStatus, call, pass, nextBoard, mishaps>>

\* selectAvailableProfile: breadth first, each profile once.
Look(t) ==
    /\ Searching(t) /\ Head(job[t].queue) \notin job[t].seen
    /\ Looked(t, Tail(job[t].queue) \o fallbacks[Head(job[t].queue)])
    /\ UNCHANGED <<fallbacks, health, taskStatus, call, pass, nextBoard, mishaps>>

SkipSeen(t) ==
    /\ Searching(t) /\ Head(job[t].queue) \in job[t].seen
    /\ job' = [job EXCEPT ![t].queue = Tail(@)]
    /\ UNCHANGED <<fallbacks, health, taskStatus, call, pass, nextBoard, mishaps>>

\* A profile with room is taken.
Count(t) ==
    LET room == Recorded(BoardOf[t], job[t].profile) < Cap[job[t].profile] IN
    /\ job[t].step = "counting"
    /\ job' = [job EXCEPT ![t].step = IF room THEN "resolved" ELSE "searching",
                          ![t].profile = IF room THEN @ ELSE None]
    /\ UNCHANGED <<fallbacks, health, taskStatus, call, pass, nextBoard, mishaps>>

\* No agent: back in the queue.
FindsNone(t) ==
    /\ job[t].step = "searching" /\ job[t].queue = <<>>
    /\ Requeued(t, "waiting")
    /\ UNCHANGED <<fallbacks, health, call, pass, nextBoard, mishaps>>

\* AcquireWorker; a full agent puts the task back without counting a failure.
AcquireSlot(t) ==
    LET p == job[t].profile IN
    /\ job[t].step = "resolved"
    /\ IF p \in Registered /\ Held(p) >= Cap[p] THEN Requeued(t, "waiting")
       ELSE job' = [job EXCEPT ![t].step = "slotted"] /\ UNCHANGED taskStatus
    /\ UNCHANGED <<fallbacks, health, call, pass, nextBoard, mishaps>>

\* RecordRunAgentConfig, then the launch.
Launch(t) ==
    /\ job[t].step = "slotted"
    /\ job' = [job EXCEPT ![t].step = "running"]
    /\ UNCHANGED <<fallbacks, health, taskStatus, call, pass, nextBoard, mishaps>>

\* A worker that exits well says its agent is ready, whatever the row said.
Succeed(t) ==
    /\ job[t].step = "running"
    /\ SetHealth(BoardOf[t], job[t].profile, "well")
    /\ Requeued(t, "done")
    /\ UNCHANGED <<fallbacks, call, pass, nextBoard, mishaps>>

\* The agent turned out to be unusable, and its row says so ...
AgentFails(t, status) ==
    /\ job[t].step = "running" /\ mishaps < MaxMishaps
    /\ SetHealth(BoardOf[t], job[t].profile, status)
    /\ mishaps' = mishaps + 1
    /\ job' = [job EXCEPT ![t].step = status]
    /\ UNCHANGED <<fallbacks, taskStatus, call, pass, nextBoard>>

\* ... or cannot be written: the run is reclaimed with a cooldown.
HealthUnwritten(t) ==
    /\ job[t].step = "running" /\ mishaps < MaxMishaps
    /\ mishaps' = mishaps + 1
    /\ Requeued(t, "waiting")
    /\ UNCHANGED <<fallbacks, health, call, pass, nextBoard>>

\* Another agent is looked for while the run still counts against its own.
\* What is found only matters as far as it is another one; it may be the same
\* again, if somebody found that usable meanwhile.
FindFallback(t) ==
    LET p == job[t].profile
        usable == Available(BoardOf[t], Desired[t])
    IN
    /\ job[t].step \in {"limited", "broken"}
    /\ \E found \in IF usable = {} THEN {p} ELSE usable :
          job' = [job EXCEPT ![t].step = IF @ = "limited" /\ found = p THEN "pausing" ELSE "leaving"]
    /\ UNCHANGED <<fallbacks, health, taskStatus, call, pass, nextBoard, mishaps>>

\* FailRun: the task waits if its agent is rate limited and there is no other.
LeaveAgent(t) ==
    /\ job[t].step \in {"pausing", "leaving"}
    /\ Requeued(t, IF job[t].step = "pausing" THEN "waiting" ELSE "ready")
    /\ UNCHANGED <<fallbacks, health, call, pass, nextBoard, mishaps>>

-----------------------------------------------------------------------------
(* A planner call *)

BeginCall(b) ==
    /\ call.step = "idle"
    /\ call' = [NoCall EXCEPT !.step = "trying", !.board = b, !.at = 1]
    /\ UNCHANGED <<fallbacks, health, work, pass, nextBoard, mishaps>>

\* The candidate is skipped when its agent is unavailable or full; there is
\* no error to keep then.
TryCandidate ==
    LET p == Candidates[call.at] IN
    /\ call.step = "trying" /\ call.at <= Len(Candidates)
    /\ call' = IF Unavailable(call.board, p) \/ Held(p) >= Cap[p] THEN [call EXCEPT !.at = @ + 1]
               ELSE [call EXCEPT !.step = "asking", !.held = p]
    /\ UNCHANGED <<fallbacks, health, work, pass, nextBoard, mishaps>>

\* The planner answers, fails in a way that calls for another candidate, or
\* fails for good; its slot is released before anything is recorded.
Answer(outcome) ==
    /\ call.step = "asking"
    /\ outcome = "failed" => mishaps < MaxMishaps
    /\ mishaps' = IF outcome = "failed" THEN mishaps + 1 ELSE mishaps
    /\ call' = [call EXCEPT !.step = outcome, !.held = None]
    /\ UNCHANGED <<fallbacks, health, work, pass, nextBoard>>

\* OnSelected, OnFailure, and the error every other failure ends the call with.
RecordAnswer ==
    /\ call.step = "answered"
    /\ SetHealth(call.board, Candidates[call.at], "well")
    /\ call' = NoCall
    /\ UNCHANGED <<fallbacks, work, pass, nextBoard, mishaps>>

RecordFailure(status) ==
    /\ call.step = "failed"
    /\ SetHealth(call.board, Candidates[call.at], status)
    /\ call' = [call EXCEPT !.step = "trying", !.at = @ + 1]
    /\ UNCHANGED <<fallbacks, work, pass, nextBoard, mishaps>>

EndCall ==
    /\ \/ call.step = "refused"
       \/ call.step = "trying" /\ call.at > Len(Candidates)
    /\ call' = NoCall
    /\ UNCHANGED <<fallbacks, health, work, pass, nextBoard, mishaps>>

-----------------------------------------------------------------------------
(* Time and people *)

AgentCools(b, p) ==
    /\ Unavailable(b, p)
    /\ SetHealth(b, p, "expired")
    /\ UNCHANGED <<fallbacks, work, call, pass, nextBoard, mishaps>>

TaskFallsDue(t) ==
    /\ taskStatus[t] = "waiting"
    /\ taskStatus' = [taskStatus EXCEPT ![t] = "due"]
    /\ UNCHANGED <<fallbacks, health, job, call, pass, nextBoard, mishaps>>

\* More work for the same profile arrives on the same board.
AddWork(t) ==
    /\ taskStatus[t] = "done"
    /\ taskStatus' = [taskStatus EXCEPT ![t] = "ready"]
    /\ UNCHANGED <<fallbacks, health, job, call, pass, nextBoard, mishaps>>

-----------------------------------------------------------------------------
Dispatch == BeginPass \/ NothingToClaim \/ EndRound \/ \E t \in Task : Claim(t)
Search(t) == BeginSearch(t) \/ Look(t) \/ SkipSeen(t) \/ Count(t) \/ FindsNone(t)
Worker(t) == \/ Search(t) \/ AcquireSlot(t) \/ Launch(t) \/ Succeed(t)
             \/ HealthUnwritten(t) \/ FindFallback(t) \/ LeaveAgent(t)
             \/ \E status \in {"limited", "broken"} : AgentFails(t, status)
PlannerCall == \/ TryCandidate \/ RecordAnswer \/ EndCall
               \/ \E outcome \in {"answered", "refused", "failed"} : Answer(outcome)
               \/ \E status \in {"limited", "broken"} : RecordFailure(status)
Time == (\E b \in Board, p \in Profile : AgentCools(b, p)) \/ (\E t \in Task : TaskFallsDue(t))

AgentsStep == \/ Dispatch \/ PlannerCall \/ Time
              \/ \E b \in Board : BeginCall(b)
              \/ \E t \in Task : Worker(t) \/ AddWork(t)

Usables == [t \in Task |-> Usable(BoardOf[t])]

\* What is usable when a search begins, as long as it stays so.
KeepsSteady ==
    steady' = [t \in Task |->
                   IF job'[t].step \notin {"searching", "counting", "resolved"} THEN {}
                   ELSE IF job[t].step = "claimed" THEN Usables'[t] ELSE steady[t] \cap Usables'[t]]

AgentsNext == AgentsStep /\ KeepsSteady

AgentsSpec == AgentsInit /\ [][AgentsNext]_<<agentVars, steady>>

\* The dispatcher's loop goes on, and a worker ends (by its runtime limit if
\* need be).
AgentFairness == WF_agentVars(Dispatch) /\ \A t \in Task : WF_agentVars(Worker(t))

-----------------------------------------------------------------------------
(* Properties *)

AgentsTypeOK ==
    /\ fallbacks \in [Profile -> Seq(Profile)]
    /\ health \in [Board -> [Profile -> Health]]
    /\ taskStatus \in [Task -> {"ready", "running", "waiting", "due", "done"}]
    /\ job \in [Task -> [step : Steps, profile : Profile \cup {None}, queue : Seq(Profile),
                         seen : SUBSET Profile]]
    /\ steady \in [Task -> SUBSET Profile]
    /\ call \in [step : {"idle", "trying", "asking", "answered", "failed", "refused"}, board : Board,
                 at : 0..(Len(Candidates) + 1), held : Profile \cup {None}]
    /\ pass \in [open : BOOLEAN, left : Seq(Board), found : BOOLEAN]
    /\ nextBoard \in Board
    /\ mishaps \in 0..MaxMishaps

\* Profiles within n fallbacks of p.
Within(p, n) ==
    {q \in Profile : \E path \in [0..n -> Profile] :
        /\ path[0] = p /\ path[n] = q
        /\ \A i \in 1..n : path[i] = path[i - 1] \/ path[i] \in Range(fallbacks[path[i - 1]])}

\* The profile chosen stands in for the one asked for, and no profile that was
\* usable all the time is nearer along the fallbacks.  When none is chosen, no
\* profile that can be reached was usable all the time.  Cycles and shared
\* fallbacks, and whatever changes while a search is under way, included
\* (selectAvailableProfile).
SelectsNearest ==
    \A t \in Task :
        /\ job[t].step = "resolved" =>
              /\ job[t].profile \in Reachable(Desired[t])
              /\ \A n \in 0..(Cardinality(Profile) - 1) :
                    Within(Desired[t], n) \cap steady[t] # {} =>
                        job[t].profile \in Within(Desired[t], n)
        /\ job[t].step = "searching" /\ job[t].queue = <<>> =>
              Reachable(Desired[t]) \cap steady[t] = {}

\* README: "A backlog on the default board therefore cannot starve another
\* board": no board keeps a claimable task for ever without having a worker,
\* whatever the other boards queue.
BoardsTakeTurns ==
    \A b \in Board : []<>(\/ \A t \in Task : BoardOf[t] = b => ~Claimable(t)
                         \/ \E t \in Task : BoardOf[t] = b /\ job[t].step # "none")
=============================================================================
