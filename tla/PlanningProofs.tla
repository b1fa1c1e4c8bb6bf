--------------------------- MODULE PlanningProofs ---------------------------
(* Proofs about Planning: for any boards, triage lists, planners, quotas,   *)
(* page and scan limits, and keys a plan may name.                          *)
EXTENDS Planning, FiniteSetTheorems, WellFoundedInduction, TLAPS

-----------------------------------------------------------------------------
(* Graphs: a plan without a circle makes the root wait for all its tasks.   *)

LEMMA RootIsLast ==
    ASSUME NEW plan \in Plans, ~ Circular(plan)
    PROVE  Key \subseteq Awaited(WithRoot(plan))
<1> SUFFICES ASSUME NEW k \in Key, NEW nodes \in SUBSET (Key \cup {Root}), Root \in nodes,
                    \A edge \in WithRoot(plan) : edge[2] \in nodes => edge[1] \in nodes
             PROVE  k \in nodes
  BY DEF Awaited
<1> DEFINE others == Key \ nodes
<1> SUFFICES ASSUME others # {} PROVE FALSE
  OBVIOUS
<1>1. PICK x \in others : \A d \in others : <<x, d>> \notin plan
  BY DEF Circular
<1>2. ASSUME NEW d \in Key, <<x, d>> \in plan PROVE FALSE
  <2>1. d \in nodes
    BY <1>1, <1>2
  <2> QED
    BY <1>1, <1>2, <2>1 DEF WithRoot
<1>3. x \in DAG!Leaves(PlanGraph(plan))
  BY <1>1, <1>2 DEF DAG!Leaves, DAG!Successors, PlanGraph
<1>4. <<x, Root>> \in WithRoot(plan)
  BY <1>3 DEF WithRoot
<1> QED
  BY <1>1, <1>4

-----------------------------------------------------------------------------
(* Numbers.                                                                 *)

LEMMA LeastOfMany ==
    ASSUME NEW S \in SUBSET Nat, S # {}
    PROVE  \E x \in S : \A y \in S : x <= y
<1>1. PICK x \in S : \A y \in S : ~ (<<y, x>> \in OpToRel(<, Nat))
  BY NatLessThanWellFounded, WFMin, Zenon
<1>2. \A y \in S : ~ (y < x)
  BY <1>1 DEF OpToRel
<1> QED
  BY <1>2

LEMMA GreatestOfMany ==
    ASSUME NEW n \in Nat, NEW S \in SUBSET (0..n), S # {}
    PROVE  \E x \in S : \A y \in S : y <= x
<1> DEFINE T == {n - x : x \in S}
<1>1. T \in SUBSET Nat /\ T # {}
  <2>1. \A x \in S : n - x \in Nat
    OBVIOUS
  <2> QED
    BY <2>1
<1>2. PICK m \in T : \A y \in T : m <= y
  BY <1>1, LeastOfMany
<1>3. PICK x \in S : m = n - x
  OBVIOUS
<1>4. ASSUME NEW y \in S PROVE y <= x
  <2>1. n - x <= n - y
    BY <1>2, <1>3
  <2> QED
    BY <2>1
<1> QED
  BY <1>4

LEMMA RanksAreNumbers == 1..Ranks \in SUBSET Nat /\ 1..Ranks \in SUBSET (0..Ranks)
  BY PlanningAssumption

(* The next task of a page is one of it.                                    *)
LEMMA NextIsThere ==
    ASSUME NEW page \in SUBSET (1..Ranks), page # {}
    PROVE  Next1(page) \in page
<1>1. \E x \in page : \A y \in page : x <= y
  BY LeastOfMany, RanksAreNumbers
<1> QED
  BY <1>1 DEF Next1

(* A listing returns no more tasks than asked for.                          *)
LEMMA PagesAreSmall ==
    ASSUME NEW ranks \in SUBSET (1..Ranks), NEW n \in Nat
    PROVE  /\ Lowest(ranks, n) \in SUBSET (1..Ranks)
           /\ IsFiniteSet(Lowest(ranks, n))
           /\ Cardinality(Lowest(ranks, n)) <= n
<1> DEFINE low == Lowest(ranks, n)
<1>1. low \in SUBSET (1..Ranks) /\ low \subseteq ranks
  BY DEF Lowest
<1>2. IsFiniteSet(1..Ranks)
  BY FS_Interval, PlanningAssumption
<1>3. IsFiniteSet(ranks) /\ IsFiniteSet(low)
  BY <1>1, <1>2, FS_Subset
<1>4. CASE low = {}
  BY <1>1, <1>3, <1>4, FS_EmptySet
<1>5. CASE low # {}
  <2>1. PICK m \in low : \A y \in low : y <= m
    BY <1>1, <1>5, GreatestOfMany, RanksAreNumbers, PlanningAssumption
  <2> DEFINE before == {q \in ranks : q < m}
  <2>2. Cardinality(before) < n
    BY <2>1 DEF Lowest
  <2>3. IsFiniteSet(before)
    BY <1>3, FS_Subset
  <2>4. low \subseteq before \cup {m}
    BY <1>1, <2>1
  <2>5. /\ IsFiniteSet(before \cup {m})
        /\ Cardinality(before \cup {m}) = Cardinality(before) + 1
    <3>1. m \notin before
      BY <1>1, <2>1, RanksAreNumbers
    <3> HIDE DEF before
    <3> QED
      BY <2>3, <3>1, FS_AddElement
  <2>6. Cardinality(low) <= Cardinality(before) + 1
    BY <2>4, <2>5, FS_Subset
  <2>7. Cardinality(before) \in Nat /\ Cardinality(low) \in Nat
    BY <1>3, <2>3, FS_CardinalityType
  <2> QED
    BY <1>1, <1>3, <2>2, <2>6, <2>7
<1> QED
  BY <1>4, <1>5

LEMMA AfterIsBoard ==
    ASSUME NEW b \in Board
    PROVE  After(b) \in Board
<1>1. b % Boards \in 0..(Boards - 1)
  BY PlanningAssumption DEF Board
<1> QED
  BY <1>1, PlanningAssumption DEF After, Board

-----------------------------------------------------------------------------
(* Types, and what the next steps of a pass rely on.                        *)

(* A pass that is at a board has turns left for it and is not through with  *)
(* the boards; what it has listed it may look at; and it waits for a planner *)
(* when, and only when, it has called one.                                  *)
Fits(p) ==
    /\ p.stage \notin {"idle", "ended", "boards"} =>
          /\ p.visited < Boards
          /\ p.quota > 0 /\ p.left > 0
          /\ IsFiniteSet(p.page)
          /\ p.scanned + Cardinality(p.page) <= ScanLimit
    /\ p.stage \in {"boards", "listing"} => p.page = {}

PassOK == Fits(pass) /\ (call[AutoPlanner] # NoCall <=> pass.stage = "planning")

(* A plan was made for the text its task had at the version the planner was *)
(* given.                                                                   *)
CallOK ==
    \A p \in Planner : call[p].stage \in {"planning", "single", "fanout"} =>
        /\ call[p].version <= version[call[p].task]
        /\ call[p].version = version[call[p].task] => call[p].text = text[call[p].task]

PlanInv == PlanTypeOK /\ PassOK /\ CallOK

LEMMA InitPlan == PlanInit => PlanInv /\ RootAwaitsSubtasks
<1> SUFFICES ASSUME PlanInit PROVE PlanInv /\ RootAwaitsSubtasks
  OBVIOUS
<1> USE PlanningAssumption DEF PlanInit
<1>1. PlanTypeOK
  <2>1. NoPass \in Passes
    BY DEF NoPass, Passes, Board
  <2>2. NoGraph \in Graphs /\ NoCall \in Calls
    BY DEF NoGraph, Graphs, Calls
  <2>3. Cardinality({}) = 0
    BY FS_EmptySet
  <2>4. /\ version \in [Task -> Nat] /\ text \in [Task -> Nat]
        /\ graph \in [Task -> Graphs]
        /\ call \in [Planner -> Calls]
    BY <2>2
  <2>5. first \in Board /\ cursor \in [Board -> 0..Ranks]
    BY DEF Board
  <2>6. failed \subseteq Task /\ cooling \subseteq failed /\ Cardinality(failed) <= MaxFailures
    BY <2>3
  <2>7. edits \in 0..MaxEdits /\ stops \in 0..MaxStops
    OBVIOUS
  <2> QED
    BY <2>1, <2>4, <2>5, <2>6, <2>7 DEF PlanTypeOK
<1>2. PassOK
  <2>1. pass.stage = "idle"
    BY DEF NoPass
  <2>2. call[AutoPlanner] = NoCall
    BY DEF Planner
  <2> QED
    BY <2>1, <2>2 DEF PassOK, Fits
<1>3. CallOK
  BY DEF CallOK, NoCall
<1>4. RootAwaitsSubtasks
  BY DEF RootAwaitsSubtasks
<1> QED
  BY <1>1, <1>2, <1>3, <1>4 DEF PlanInv

-----------------------------------------------------------------------------
(* Calls.                                                                   *)

LEMMA PlannerParts == AutoPlanner \in Planner /\ \A p \in Manual : p \in Planner /\ p # AutoPlanner
  BY PlanningAssumption DEF Planner

LEMMA CallParts ==
    ASSUME PlanTypeOK, NEW p \in Planner, call[p].stage # "none"
    PROVE  /\ call[p] # NoCall
           /\ call[p].task \in Task /\ call[p].version \in Nat
           /\ call[p].stage \in {"planning", "single", "fanout"} => call[p].text \in Nat
           /\ call[p].stage = "fanout" => call[p].plan \in Plans
           /\ call[p].stage \in {"planning", "single"} =>
                 call[p] = [stage |-> call[p].stage, task |-> call[p].task,
                            version |-> call[p].version, text |-> call[p].text]
  BY DEF PlanTypeOK, Calls, NoCall

LEMMA NewCalls ==
    ASSUME NEW t \in Task, NEW v \in Nat, NEW x \in Nat, NEW plan \in Plans
    PROVE  /\ NoCall \in Calls
           /\ \A stage \in {"planning", "single"} :
                 [stage |-> stage, task |-> t, version |-> v, text |-> x] \in Calls
           /\ [stage |-> "fanout", task |-> t, plan |-> plan, version |-> v, text |-> x] \in Calls
           /\ \A stage \in {"specified", "routing"} :
                 [stage |-> stage, task |-> t, version |-> v] \in Calls
  BY DEF Calls

(* A row that is written has a version no call was given.                   *)
LEMMA WritingKeepsCalls ==
    ASSUME PlanTypeOK, CallOK, NEW t \in Task, Written(t),
           text' = text \/ text' = [text EXCEPT ![t] = @ + 1],
           NEW p \in Planner, call'[p] = call[p],
           call[p].stage \in {"planning", "single", "fanout"}
    PROVE  /\ call'[p].version <= version'[call'[p].task]
           /\ call'[p].version = version'[call'[p].task] => call'[p].text = text'[call'[p].task]
<1>1. call[p].task \in Task /\ call[p].version \in Nat
  BY CallParts
<1>2. version[call[p].task] \in Nat /\ version[t] \in Nat
  BY <1>1 DEF PlanTypeOK
<1>3. CASE call[p].task = t
  BY <1>1, <1>2, <1>3 DEF Written, PlanTypeOK, CallOK
<1>4. CASE call[p].task # t
  BY <1>1, <1>2, <1>4 DEF Written, PlanTypeOK, CallOK
<1> QED
  BY <1>3, <1>4

LEMMA WritingKeepsTypes ==
    ASSUME PlanTypeOK, NEW t \in Task, Written(t)
    PROVE  /\ version' \in [Task -> Nat]
           /\ [text EXCEPT ![t] = @ + 1] \in [Task -> Nat]
  BY DEF PlanTypeOK, Written

LEMMA UserKeeps ==
    ASSUME PlanInv, NEW t \in Task, EditText(t) \/ EditRow(t)
    PROVE  PlanInv'
<1> USE DEF PlanInv
<1>1. /\ Written(t)
      /\ text' = text \/ text' = [text EXCEPT ![t] = @ + 1]
      /\ call' = call /\ pass' = pass /\ graph' = graph
      /\ triage' \subseteq triage \cup {t}
      /\ UNCHANGED <<queued, first, cursor, failed, cooling, halted, stops>>
      /\ edits < MaxEdits /\ edits' = edits + 1
  BY DEF EditText, EditRow, UserActs, diagVars
<1>2. PlanTypeOK'
  <2>1. edits' \in 0..MaxEdits
    BY <1>1, PlanningAssumption DEF PlanTypeOK
  <2>2. version' \in [Task -> Nat] /\ text' \in [Task -> Nat]
    BY <1>1, WritingKeepsTypes DEF PlanTypeOK
  <2> QED
    BY <1>1, <2>1, <2>2 DEF PlanTypeOK
<1>3. PassOK'
  BY <1>1 DEF PassOK
<1>4. CallOK'
  BY <1>1, WritingKeepsCalls DEF CallOK
<1> QED
  BY <1>2, <1>3, <1>4

LEMMA CalledKeeps ==
    ASSUME PlanTypeOK, CallOK, NEW p \in Planner, NEW t \in Task, Called(p, t), UNCHANGED taskVars
    PROVE  /\ call' \in [Planner -> Calls] /\ CallOK'
           /\ call'[p] # NoCall /\ \A q \in Planner \ {p} : call'[q] = call[q]
<1>1. version[t] \in Nat /\ text[t] \in Nat
  BY DEF PlanTypeOK
<1> DEFINE new == [stage |-> "planning", task |-> t, version |-> version[t], text |-> text[t]]
<1>2. new \in Calls /\ new # NoCall
  <2>1. {} \in Plans
    BY DEF Plans
  <2> QED
    BY <1>1, <2>1, NewCalls DEF NoCall
<1>3. call' = [call EXCEPT ![p] = new]
  BY DEF Called
<1>4. CallOK'
  <2> SUFFICES ASSUME NEW q \in Planner, call'[q].stage \in {"planning", "single", "fanout"}
               PROVE  /\ call'[q].version <= version'[call'[q].task]
                      /\ call'[q].version = version'[call'[q].task]
                            => call'[q].text = text'[call'[q].task]
    BY DEF CallOK
  <2>1. CASE q = p
    BY <1>1, <1>3, <2>1 DEF PlanTypeOK, taskVars
  <2>2. CASE q # p
    BY <1>3, <2>2 DEF PlanTypeOK, CallOK, taskVars
  <2> QED
    BY <2>1, <2>2
<1> QED
  BY <1>2, <1>3, <1>4 DEF PlanTypeOK

(* What planners do: a step of a call goes on with it, or is its last.      *)
TaskTypes ==
    /\ triage \subseteq Task /\ edits \in 0..MaxEdits
    /\ version \in [Task -> Nat] /\ text \in [Task -> Nat]
    /\ graph \in [Task -> Graphs]
    /\ call \in [Planner -> Calls]

GoesOn(p) == Answers(p) \/ Reread(p) \/ (Specify(p) /\ Goes(p, "specified"))
LastStep(p) == (Specify(p) \/ Fanout(p) \/ Route(p) \/ GivesUp(p)) /\ Hung(p)

LEMMA AnswersKeep ==
    ASSUME PlanTypeOK, CallOK, NEW p \in Planner, Answers(p)
    PROVE  /\ TaskTypes' /\ CallOK' /\ UNCHANGED taskVars
           /\ call'[p] # NoCall /\ \A q \in Planner \ {p} : call'[q] = call[q]
           /\ call[p] # NoCall
<1>1. /\ call[p].stage = "planning" /\ call[p] # NoCall
      /\ UNCHANGED taskVars
  BY DEF Answers, NoCall
<1>2. /\ call[p].task \in Task /\ call[p].version \in Nat /\ call[p].text \in Nat
      /\ call[p] = [stage |-> call[p].stage, task |-> call[p].task,
                    version |-> call[p].version, text |-> call[p].text]
  BY <1>1, CallParts
<1>3. PICK new : call' = [call EXCEPT ![p] = new] /\ new.stage \in {"single", "fanout"}
                 /\ new.task = call[p].task /\ new.version = call[p].version
                 /\ new.text = call[p].text /\ new \in Calls
  <2>1. CASE call' = [call EXCEPT ![p].stage = "single"]
    <3> DEFINE one == [stage |-> "single", task |-> call[p].task,
                       version |-> call[p].version, text |-> call[p].text]
    <3>1. {} \in Plans
      BY DEF Plans
    <3>2. one \in Calls
      BY <1>2, <3>1, NewCalls
    <3>3. [call[p] EXCEPT !.stage = "single"] = one
      BY <1>2
    <3>4. call' = [call EXCEPT ![p] = one]
      BY <2>1, <3>3
    <3> QED
      BY <3>2, <3>4
  <2>2. CASE \E plan \in Plans :
               call' = [call EXCEPT ![p] = [stage |-> "fanout", task |-> @.task, plan |-> plan,
                                            version |-> @.version, text |-> @.text]]
    <3>1. PICK plan \in Plans :
               call' = [call EXCEPT ![p] = [stage |-> "fanout", task |-> @.task, plan |-> plan,
                                            version |-> @.version, text |-> @.text]]
      BY <2>2
    <3> DEFINE many == [stage |-> "fanout", task |-> call[p].task, plan |-> plan,
                        version |-> call[p].version, text |-> call[p].text]
    <3>2. many \in Calls
      BY <1>2, NewCalls
    <3>3. call' = [call EXCEPT ![p] = many]
      BY <3>1
    <3> QED
      BY <3>2, <3>3
  <2> QED
    BY <2>1, <2>2 DEF Answers
<1>4. TaskTypes'
  BY <1>1, <1>3 DEF TaskTypes, PlanTypeOK, taskVars
<1>5. call'[p] = new /\ \A q \in Planner \ {p} : call'[q] = call[q]
  BY <1>3 DEF PlanTypeOK
<1>6. CallOK'
  <2> SUFFICES ASSUME NEW q \in Planner, call'[q].stage \in {"planning", "single", "fanout"}
               PROVE  /\ call'[q].version <= version'[call'[q].task]
                      /\ call'[q].version = version'[call'[q].task]
                            => call'[q].text = text'[call'[q].task]
    BY DEF CallOK
  <2>1. CASE q = p
    BY <1>1, <1>3, <1>5, <2>1 DEF CallOK, taskVars
  <2>2. CASE q # p
    BY <1>1, <1>5, <2>2 DEF CallOK, taskVars
  <2> QED
    BY <2>1, <2>2
<1> QED
  BY <1>1, <1>3, <1>4, <1>5, <1>6 DEF NoCall

LEMMA RereadKeeps ==
    ASSUME PlanTypeOK, CallOK, NEW p \in Planner, Reread(p)
    PROVE  /\ TaskTypes' /\ CallOK' /\ UNCHANGED taskVars
           /\ call'[p] # NoCall /\ \A q \in Planner \ {p} : call'[q] = call[q]
           /\ call[p] # NoCall
<1>1. call[p].stage = "specified" /\ call[p] # NoCall /\ UNCHANGED taskVars
  BY DEF Reread, NoCall
<1>2. call[p].task \in Task
  BY <1>1, CallParts
<1> DEFINE new == [stage |-> "routing", task |-> call[p].task, version |-> version[call[p].task]]
<1>3. new \in Calls /\ new # NoCall
  <2>1. {} \in Plans /\ version[call[p].task] \in Nat
    BY <1>2 DEF Plans, PlanTypeOK
  <2> QED
    BY <1>2, <2>1, NewCalls DEF NoCall
<1>4. call' = [call EXCEPT ![p] = new]
  BY DEF Reread
<1>5. call'[p] = new /\ \A q \in Planner \ {p} : call'[q] = call[q]
  BY <1>4 DEF PlanTypeOK
<1>6. TaskTypes'
  BY <1>1, <1>3, <1>4 DEF TaskTypes, PlanTypeOK, taskVars
<1>7. CallOK'
  BY <1>1, <1>5 DEF CallOK, taskVars
<1> QED
  BY <1>1, <1>3, <1>5, <1>6, <1>7

(* What a plan writes: the row of its task, which had the version it was    *)
(* made for unless the planner gave up.                                     *)
LEMMA WritesOfCalls ==
    ASSUME PlanTypeOK, NEW p \in Planner, Specify(p) \/ Fanout(p) \/ Route(p)
    PROVE  /\ call[p] # NoCall /\ call[p].task \in Task /\ Written(call[p].task)
           /\ text' = text \/ text' = [text EXCEPT ![call[p].task] = @ + 1]
           /\ triage' \subseteq triage /\ edits' = edits
           /\ graph' \in [Task -> Graphs]
<1>1. call[p].stage \in {"single", "fanout", "routing"} /\ call[p] # NoCall
  BY DEF Specify, Fanout, Route, NoCall
<1>2. call[p].task \in Task
  BY <1>1, CallParts
<1>3. CASE Specify(p)
  BY <1>1, <1>2, <1>3 DEF Specify, PlanTypeOK
<1>4. CASE Fanout(p)
  <2>1. WithRoot(call[p].plan) \in Graphs
    <3>1. call[p].plan \in Plans
      BY <1>4, CallParts DEF Fanout
    <3>2. DAG!Leaves(PlanGraph(call[p].plan)) \subseteq Key
      BY DEF DAG!Leaves, PlanGraph
    <3> QED
      BY <3>1, <3>2 DEF WithRoot, Graphs, Plans
  <2> QED
    BY <1>1, <1>2, <1>4, <2>1 DEF Fanout, PlanTypeOK
<1>5. CASE Route(p)
  BY <1>1, <1>2, <1>5 DEF Route, PlanTypeOK
<1> QED
  BY <1>3, <1>4, <1>5

LEMMA LastStepKeeps ==
    ASSUME PlanTypeOK, CallOK, NEW p \in Planner, LastStep(p)
    PROVE  /\ TaskTypes' /\ CallOK'
           /\ call'[p] = NoCall /\ \A q \in Planner \ {p} : call'[q] = call[q]
           /\ call[p] # NoCall
<1>1. call' = [call EXCEPT ![p] = NoCall]
  BY DEF LastStep, Hung
<1>2. call'[p] = NoCall /\ \A q \in Planner \ {p} : call'[q] = call[q]
  BY <1>1 DEF PlanTypeOK
<1>3. call' \in [Planner -> Calls]
  BY <1>1 DEF PlanTypeOK, Calls
<1>4. CASE Specify(p) \/ Fanout(p) \/ Route(p)
  <2>1. TaskTypes'
    BY <1>3, <1>4, WritesOfCalls, WritingKeepsTypes DEF TaskTypes, PlanTypeOK
  <2>2. CallOK'
    BY <1>2, <1>4, WritesOfCalls, WritingKeepsCalls DEF CallOK, NoCall
  <2> QED
    BY <1>2, <1>4, <2>1, <2>2, WritesOfCalls
<1>5. CASE GivesUp(p)
  <2>1. UNCHANGED taskVars /\ call[p] # NoCall
    BY <1>5 DEF GivesUp
  <2>2. TaskTypes'
    BY <1>3, <2>1 DEF TaskTypes, PlanTypeOK, taskVars
  <2>3. CallOK'
    BY <1>2, <2>1 DEF CallOK, NoCall, taskVars
  <2> QED
    BY <1>2, <2>1, <2>2, <2>3
<1> QED
  BY <1>4, <1>5 DEF LastStep

LEMMA GoesOnKeeps ==
    ASSUME PlanTypeOK, CallOK, NEW p \in Planner, GoesOn(p)
    PROVE  /\ TaskTypes' /\ CallOK'
           /\ call'[p] # NoCall /\ \A q \in Planner \ {p} : call'[q] = call[q]
           /\ call[p] # NoCall
<1>1. CASE Specify(p) /\ Goes(p, "specified")
  <2>1. call[p] # NoCall /\ call[p].task \in Task /\ call[p].version \in Nat
    <3>1. call[p].stage = "single"
      BY <1>1 DEF Specify
    <3> QED
      BY <3>1, CallParts
  <2> DEFINE new == [stage |-> "specified", task |-> call[p].task, version |-> call[p].version]
  <2>2. new \in Calls /\ new # NoCall
    <3>1. {} \in Plans
      BY DEF Plans
    <3> QED
      BY <2>1, <3>1, NewCalls DEF NoCall
  <2>3. call' = [call EXCEPT ![p] = new]
    BY <1>1 DEF Goes
  <2>4. call'[p] = new /\ \A q \in Planner \ {p} : call'[q] = call[q]
    BY <2>3 DEF PlanTypeOK
  <2>5. TaskTypes'
    BY <1>1, <2>2, <2>3, WritesOfCalls, WritingKeepsTypes DEF TaskTypes, PlanTypeOK
  <2>6. CallOK'
    BY <1>1, <2>4, WritesOfCalls, WritingKeepsCalls DEF CallOK
  <2> QED
    BY <2>1, <2>2, <2>4, <2>5, <2>6
<1> QED
  BY <1>1, AnswersKeep, RereadKeeps DEF GoesOn

-----------------------------------------------------------------------------
(* Passes.                                                                  *)

LEMMA PassParts ==
    ASSUME NEW s \in Passes
    PROVE  /\ s.stage \in {"idle", "boards", "listing", "page", "planning", "ended"}
           /\ s.board \in Board /\ s.visited \in 0..Boards /\ s.quota \in 0..PerPass
           /\ s.left \in 0..PerBoard /\ s.scanned \in 0..ScanLimit
           /\ s.page \in SUBSET (1..Ranks) /\ s.last \in BOOLEAN
  BY DEF Passes

LEMMA BoardsFit ==
    ASSUME NEW b \in Board, NEW v \in 0..Boards, NEW q \in 0..PerPass,
           pass' = [NoPass EXCEPT !.stage = "boards", !.board = b, !.visited = v, !.quota = q]
    PROVE  pass' \in Passes /\ Fits(pass') /\ pass'.stage = "boards"
<1>1. 0 \in 0..PerBoard /\ 0 \in 0..ScanLimit
  BY PlanningAssumption
<1> QED
  BY <1>1 DEF NoPass, Passes, Fits

LEMMA NoPassFits ==
    ASSUME pass' = NoPass \/ pass' = [NoPass EXCEPT !.stage = "ended"]
    PROVE  pass' \in Passes /\ Fits(pass') /\ pass'.stage \in {"idle", "ended"}
<1>1. 0 \in 0..PerBoard /\ 0 \in 0..ScanLimit /\ 0 \in 0..Boards /\ 0 \in 0..PerPass /\ 1 \in Board
  BY PlanningAssumption DEF Board
<1>2. CASE pass' = NoPass
  BY <1>1, <1>2 DEF NoPass, Passes, Fits
<1>3. CASE pass' = [NoPass EXCEPT !.stage = "ended"]
  BY <1>1, <1>3 DEF NoPass, Passes, Fits
<1> QED
  BY <1>2, <1>3

LEMMA NextBoardFits ==
    ASSUME pass \in Passes, pass.visited < Boards, ToNextBoard
    PROVE  pass' \in Passes /\ Fits(pass') /\ pass'.stage = "boards"
<1>1. After(pass.board) \in Board /\ pass.quota \in 0..PerPass
  BY PassParts, AfterIsBoard
<1>2. pass.visited + 1 \in 0..Boards
  BY PassParts, PlanningAssumption
<1>3. pass' = [NoPass EXCEPT !.stage = "boards", !.board = After(pass.board),
                             !.visited = pass.visited + 1, !.quota = pass.quota]
  BY DEF ToNextBoard
<1> QED
  BY <1>1, <1>2, <1>3, BoardsFit

LEMMA ScannedFits ==
    ASSUME pass \in Passes, Fits(pass), pass.stage = "page", pass.page # {}
    PROVE  /\ Scanned \in Passes /\ Fits(Scanned) /\ Scanned.stage = "page"
           /\ Scanned.quota > 0 /\ Scanned.left > 0 /\ Scanned.visited < Boards
<1> DEFINE r == Next1(pass.page)
<1>1. pass.page \in SUBSET (1..Ranks) /\ r \in pass.page
  BY PassParts, NextIsThere
<1>2. IsFiniteSet(pass.page) /\ pass.scanned + Cardinality(pass.page) <= ScanLimit
  BY DEF Fits
<1>3. /\ IsFiniteSet(pass.page \ {r})
      /\ Cardinality(pass.page \ {r}) = Cardinality(pass.page) - 1
      /\ Cardinality(pass.page) \in Nat /\ Cardinality(pass.page \ {r}) \in Nat
  BY <1>1, <1>2, FS_RemoveElement, FS_CardinalityType, Zenon
<1>4. pass.scanned + 1 \in 0..ScanLimit
  BY <1>2, <1>3, PassParts, PlanningAssumption
<1>5. Scanned = [pass EXCEPT !.page = pass.page \ {r}, !.scanned = pass.scanned + 1]
  BY DEF Scanned
<1>6. Scanned \in Passes
  BY <1>1, <1>4, <1>5 DEF Passes
<1>7. /\ Scanned.stage = "page" /\ Scanned.quota = pass.quota /\ Scanned.left = pass.left
      /\ Scanned.visited = pass.visited /\ Scanned.page = pass.page \ {r}
      /\ Scanned.scanned = pass.scanned + 1
  BY <1>5 DEF Passes
<1>8. (pass.scanned + 1) + Cardinality(pass.page \ {r}) <= ScanLimit
  BY <1>2, <1>3, PassParts, PlanningAssumption
<1> QED
  BY <1>3, <1>6, <1>7, <1>8 DEF Fits

(* What an attempt leaves of the quotas.                                    *)
LEMMA AttemptFits ==
    ASSUME NEW s \in Passes, Fits(s), s.stage \in {"page", "planning"}, AttemptOver(s)
    PROVE  pass' \in Passes /\ Fits(pass') /\ pass'.stage # "planning" /\ first' \in Board
<1>1. /\ s.visited < Boards /\ s.quota > 0 /\ s.left > 0
      /\ IsFiniteSet(s.page) /\ s.scanned + Cardinality(s.page) <= ScanLimit
  BY DEF Fits
<1>2. After(s.board) \in Board
  BY PassParts, AfterIsBoard
<1>3. s.visited + 1 \in 0..Boards /\ s.quota - 1 \in 0..PerPass /\ s.left - 1 \in 0..PerBoard
  BY <1>1, PassParts, PlanningAssumption
<1>4. CASE s.quota = 1 \/ s.left = 1
  <2>1. s.visited + 1 \in 0..Boards /\ s.quota - 1 \in 0..PerPass
    BY <1>3
  <2>2. /\ pass' = [NoPass EXCEPT !.stage = "boards", !.board = After(s.board),
                                  !.visited = s.visited + 1, !.quota = s.quota - 1]
        /\ first' = After(s.board)
    BY <1>4 DEF AttemptOver
  <2>3. pass' \in Passes /\ Fits(pass') /\ pass'.stage = "boards"
    BY <1>2, <2>1, <2>2, BoardsFit
  <2> QED
    BY <1>2, <2>2, <2>3
<1>5. CASE ~ (s.quota = 1 \/ s.left = 1)
  <2>1. pass' = [s EXCEPT !.stage = "page", !.quota = s.quota - 1, !.left = s.left - 1]
    BY <1>5 DEF AttemptOver
  <2>2. pass' \in Passes
    BY <1>3, <2>1 DEF Passes
  <2>3. /\ pass'.stage = "page" /\ pass'.visited = s.visited /\ pass'.page = s.page
        /\ pass'.scanned = s.scanned /\ pass'.quota = s.quota - 1 /\ pass'.left = s.left - 1
    BY <2>1 DEF Passes
  <2>4. s.quota - 1 > 0 /\ s.left - 1 > 0
    BY <1>1, <1>5, PassParts, PlanningAssumption
  <2> QED
    BY <1>1, <1>2, <2>2, <2>3, <2>4 DEF Fits, AttemptOver
<1> QED
  BY <1>4, <1>5

(* The failures that are remembered.                                        *)
FailureTypes ==
    failed \subseteq Task /\ cooling \subseteq failed /\ Cardinality(failed) <= MaxFailures

LEMMA TasksAreFinite == IsFiniteSet(Task)
<1>1. IsFiniteSet(Board) /\ IsFiniteSet(1..Ranks)
  BY FS_Interval, PlanningAssumption DEF Board
<1> QED
  BY <1>1, FS_Product DEF Task

LEMMA FailuresFit ==
    ASSUME FailureTypes, NEW t \in Task, Fails(t) \/ Succeeds(t)
    PROVE  FailureTypes'
<1>1. IsFiniteSet(failed) /\ Cardinality(failed) \in Nat
  BY TasksAreFinite, FS_Subset, FS_CardinalityType DEF FailureTypes
<1>2. CASE Succeeds(t)
  <2>1. IsFiniteSet(failed \ {t}) /\ Cardinality(failed \ {t}) <= Cardinality(failed)
    BY <1>1, FS_Subset
  <2>2. Cardinality(failed \ {t}) \in Nat
    BY <2>1, FS_CardinalityType
  <2> QED
    BY <1>1, <1>2, <2>1, <2>2, PlanningAssumption DEF Succeeds, FailureTypes
<1>3. CASE Fails(t)
  <2>1. PICK out \in SUBSET (failed \ {t}) :
          /\ Cardinality(out) = IF t \notin failed /\ Cardinality(failed) >= MaxFailures
                                THEN 1 ELSE 0
          /\ failed' = (failed \ out) \cup {t}
          /\ cooling' = (cooling \ out) \cup {t}
    BY <1>3 DEF Fails
  <2>2. IsFiniteSet(out) /\ IsFiniteSet(failed \ out)
    BY <1>1, FS_Subset
  <2>3. Cardinality(failed \ out) = Cardinality(failed) - Cardinality(out)
    <3>1. failed \cap out = out
      OBVIOUS
    <3> QED
      BY <1>1, <2>2, <3>1, FS_Difference
  <2>4. failed' \subseteq Task /\ cooling' \subseteq failed'
    BY <2>1 DEF FailureTypes
  <2>5. CASE t \in failed
    <3>1. failed' = failed
      <4>1. out = {}
        BY <2>1, <2>2, <2>5, FS_EmptySet
      <4> QED
        BY <2>1, <2>5, <4>1
    <3> QED
      BY <2>4, <3>1 DEF FailureTypes
  <2>6. CASE t \notin failed
    <3>1. Cardinality(failed') = Cardinality(failed \ out) + 1
      BY <2>1, <2>2, <2>6, FS_AddElement
    <3>2. Cardinality(failed) - Cardinality(out) + 1 <= MaxFailures
      BY <1>1, <2>1, <2>6, PlanningAssumption DEF FailureTypes
    <3> QED
      BY <2>3, <2>4, <3>1, <3>2 DEF FailureTypes
  <2> QED
    BY <2>5, <2>6
<1> QED
  BY <1>2, <1>3

-----------------------------------------------------------------------------
(* Every step keeps the invariant.                                          *)

(* What a step of a pass that calls nobody has to show.                     *)
DiagTypes == first \in Board /\ cursor \in [Board -> 0..Ranks] /\ FailureTypes

LEMMA PlanInvParts ==
    ASSUME PlanInv
    PROVE  /\ TaskTypes /\ CallOK /\ DiagTypes
           /\ pass \in Passes /\ Fits(pass) /\ (call[AutoPlanner] # NoCall <=> pass.stage = "planning")
           /\ queued \in BOOLEAN /\ halted \in BOOLEAN /\ stops \in 0..MaxStops
  BY DEF PlanInv, PlanTypeOK, PassOK, TaskTypes, DiagTypes, FailureTypes

LEMMA PlanInvFromParts ==
    ASSUME TaskTypes', CallOK', DiagTypes',
           pass' \in Passes, Fits(pass'), (call[AutoPlanner] # NoCall <=> pass.stage = "planning")',
           queued' \in BOOLEAN, halted' \in BOOLEAN, stops' \in 0..MaxStops
    PROVE  PlanInv'
  BY DEF PlanInv, PlanTypeOK, PassOK, TaskTypes, DiagTypes, FailureTypes

LEMMA IdleTasks ==
    ASSUME PlanInv, UNCHANGED <<taskVars, call>>
    PROVE  TaskTypes' /\ CallOK' /\ call'[AutoPlanner] = call[AutoPlanner]
<1>1. TaskTypes'
  BY PlanInvParts DEF TaskTypes, taskVars
<1>2. CallOK'
  BY PlanInvParts DEF CallOK, taskVars
<1> QED
  BY <1>1, <1>2

(* The steps of a pass between two attempts.                                *)
LEMMA PassKeeps ==
    ASSUME PlanInv, TakePass \/ BoardOpens \/ BoardFails \/ PassEnds
    PROVE  PlanInv'
<1>1. /\ UNCHANGED <<taskVars, call>> /\ UNCHANGED <<cursor, failed, cooling, halted, stops>>
      /\ queued' \in BOOLEAN
      /\ pass.stage \in {"idle", "boards", "listing"}
  BY PlanInvParts DEF TakePass, BoardOpens, BoardFails, PassEnds, diagVars
<1>2. /\ pass' \in Passes /\ Fits(pass') /\ pass'.stage # "planning"
      /\ first' \in Board
  <2>1. CASE TakePass
    <3>1. first' \in Board /\ first \in Board
      BY <2>1, PlanInvParts, AfterIsBoard DEF TakePass, DiagTypes
    <3>2. pass' = [NoPass EXCEPT !.stage = "boards", !.board = first, !.quota = PerPass]
      BY <2>1 DEF TakePass
    <3>3. /\ 0 \in 0..Boards /\ PerPass \in 0..PerPass
          /\ 0 \in 0..PerBoard /\ 0 \in 0..ScanLimit
      BY PlanningAssumption
    <3> QED
      BY <3>1, <3>2, <3>3 DEF NoPass, Passes, Fits
  <2>2. CASE BoardOpens
    <3>1. /\ pass' = [pass EXCEPT !.stage = "listing", !.left = Allowance, !.scanned = 0]
          /\ pass.stage = "boards" /\ pass.visited < Boards /\ pass.quota > 0 /\ first' = first
      BY <2>2 DEF BoardOpens, diagVars
    <3>2. Allowance \in 0..PerBoard /\ Allowance > 0 /\ 0 \in 0..ScanLimit
      BY <3>1, PlanInvParts, PassParts, PlanningAssumption DEF Allowance
    <3>3. pass' \in Passes
      BY <3>1, <3>2, PlanInvParts DEF Passes
    <3>4. pass.page = {}
      BY <3>1, PlanInvParts DEF Fits
    <3> QED
      BY <3>1, <3>2, <3>3, <3>4, FS_EmptySet, PlanInvParts DEF Fits, Passes, DiagTypes
  <2>3. CASE BoardFails
    <3>1. pass.visited < Boards /\ ToNextBoard /\ first' = first
      BY <2>3, PlanInvParts DEF BoardFails, Fits, diagVars
    <3> QED
      BY <3>1, PlanInvParts, NextBoardFits DEF DiagTypes
  <2>4. CASE PassEnds
    BY <2>4, NoPassFits, PlanInvParts DEF PassEnds, DiagTypes, diagVars
  <2> QED
    BY <2>1, <2>2, <2>3, <2>4
<1>3. DiagTypes'
  BY <1>1, <1>2, PlanInvParts DEF DiagTypes, FailureTypes
<1>4. (call[AutoPlanner] # NoCall <=> pass.stage = "planning")'
  BY <1>1, <1>2, IdleTasks, PlanInvParts
<1> QED
  BY <1>1, <1>2, <1>3, <1>4, IdleTasks, PlanInvParts, PlanInvFromParts

(* Listings, and the tasks that are not planned.                            *)
LEMMA PagesKeep ==
    ASSUME PlanInv, NEW b \in Board, NEW r \in 1..Ranks, ListPage \/ PageEnds \/ PassOver(b, r)
    PROVE  PlanInv'
<1>1. /\ UNCHANGED <<taskVars, call, queued, first, failed, cooling, halted, stops>>
      /\ pass.stage \in {"listing", "page"} /\ pass \in Passes /\ pass.visited < Boards
      /\ pass.quota > 0 /\ pass.left > 0
  BY PlanInvParts DEF ListPage, PageEnds, PassOver, Candidate, Fits
<1>2. 0 \in 0..Ranks /\ r \in 0..Ranks /\ pass.board \in Board
  BY <1>1, PassParts, PlanningAssumption
<1>3. /\ pass' \in Passes /\ Fits(pass') /\ pass'.stage # "planning"
      /\ cursor' \in [Board -> 0..Ranks]
  <2>1. CASE ListPage
    <3> DEFINE limit == IF ScanLimit - pass.scanned < PageSize
                        THEN ScanLimit - pass.scanned ELSE PageSize
               found == Lowest(Waiting(pass.board), limit)
    <3>1. limit \in Nat /\ pass.scanned + limit <= ScanLimit
      BY <1>1, PassParts, PlanningAssumption
    <3>2. /\ found \in SUBSET (1..Ranks) /\ IsFiniteSet(found) /\ Cardinality(found) <= limit
          /\ Cardinality(found) \in Nat
      BY <3>1, PagesAreSmall, FS_CardinalityType DEF Waiting
    <3>3. CASE found = {}
      BY <1>1, <1>2, <2>1, <3>3, NextBoardFits, PlanInvParts DEF ListPage, DiagTypes
    <3>4. CASE found # {}
      <4> DEFINE short == Cardinality(found) < limit
      <4>1. pass' = [pass EXCEPT !.stage = "page", !.page = found, !.last = short] /\ cursor' = cursor
        BY <2>1, <3>4 DEF ListPage
      <4>2. short \in BOOLEAN
        OBVIOUS
      <4>3. pass' \in Passes /\ pass'.page = found /\ pass'.scanned = pass.scanned
        <5> HIDE DEF found, short, limit
        <5> QED
          BY <1>1, <3>2, <4>1, <4>2 DEF Passes
      <4>4. /\ pass'.visited = pass.visited /\ pass'.quota = pass.quota /\ pass'.left = pass.left
            /\ pass'.stage = "page"
        <5> HIDE DEF found, short, limit
        <5> QED
          BY <1>1, <4>1 DEF Passes
      <4>5. pass.scanned + Cardinality(found) <= ScanLimit
        <5> HIDE DEF found
        <5> QED
          BY <1>1, <3>1, <3>2, PassParts, PlanningAssumption
      <4>6. Fits(pass')
        <5> HIDE DEF found, short, limit
        <5> QED
          BY <1>1, <3>2, <4>3, <4>4, <4>5 DEF Fits
      <4> QED
        BY <4>1, <4>3, <4>4, <4>6, PlanInvParts DEF DiagTypes
    <3> QED
      BY <3>3, <3>4
  <2>2. CASE PageEnds
    <3>1. cursor' \in [Board -> 0..Ranks]
      BY <1>2, <2>2, PlanInvParts DEF PageEnds, DiagTypes
    <3>2. CASE pass.last \/ pass.scanned = ScanLimit
      BY <1>1, <2>2, <3>1, <3>2, NextBoardFits DEF PageEnds
    <3>3. CASE ~ (pass.last \/ pass.scanned = ScanLimit)
      <4>1. pass' = [pass EXCEPT !.stage = "listing"] /\ pass.page = {} /\ pass.stage = "page"
        BY <2>2, <3>3 DEF PageEnds
      <4> QED
        BY <1>1, <3>1, <4>1, PlanInvParts DEF Fits, Passes
    <3> QED
      BY <3>2, <3>3
  <2>3. CASE PassOver(b, r)
    <3>1. pass' = Scanned /\ pass.stage = "page" /\ pass.page # {}
      BY <2>3 DEF PassOver, Candidate
    <3>2. cursor' \in [Board -> 0..Ranks]
      BY <1>2, <2>3, PlanInvParts DEF PassOver, Candidate, DiagTypes
    <3> QED
      BY <3>1, <3>2, ScannedFits, PlanInvParts
  <2> QED
    BY <2>1, <2>2, <2>3
<1>4. DiagTypes'
  BY <1>1, <1>3, PlanInvParts DEF DiagTypes, FailureTypes
<1>5. (call[AutoPlanner] # NoCall <=> pass.stage = "planning")'
  BY <1>1, <1>3, IdleTasks, PlanInvParts
<1> QED
  BY <1>1, <1>3, <1>4, <1>5, IdleTasks, PlanInvParts, PlanInvFromParts

(* The attempts of a pass.                                                  *)
LEMMA AttemptsKeep ==
    ASSUME PlanInv, NEW b \in Board, NEW r \in 1..Ranks, Attempt(b, r) \/ AttemptMisses(b, r)
    PROVE  PlanInv'
<1>1. /\ UNCHANGED taskVars /\ UNCHANGED <<queued, halted, stops>>
      /\ pass.stage = "page" /\ pass.page # {} /\ pass \in Passes /\ Fits(pass)
      /\ b = pass.board
  BY PlanInvParts DEF Attempt, AttemptMisses, Candidate
<1>2. cursor' \in [Board -> 0..Ranks]
  <2>1. r \in 0..Ranks
    BY PlanningAssumption
  <2> QED
    BY <1>1, <2>1, PlanInvParts DEF Attempt, AttemptMisses, Candidate, DiagTypes
<1>3. <<b, r>> \in Task
  BY DEF Task
<1>4. Scanned \in Passes /\ Fits(Scanned) /\ Scanned.stage = "page"
  BY <1>1, ScannedFits
<1>5. CASE Attempt(b, r)
  <2>1. Called(AutoPlanner, <<b, r>>) /\ UNCHANGED <<first, failed, cooling>>
    BY <1>5 DEF Attempt
  <2>2. call' \in [Planner -> Calls] /\ CallOK' /\ call'[AutoPlanner] # NoCall
    BY <1>1, <1>3, <2>1, CalledKeeps, PlannerParts DEF PlanInv
  <2>3. pass' \in Passes /\ Fits(pass') /\ pass'.stage = "planning"
    <3>1. pass' = [Scanned EXCEPT !.stage = "planning"]
      BY <1>5 DEF Attempt
    <3>2. /\ Scanned.visited < Boards /\ Scanned.quota > 0 /\ Scanned.left > 0
          /\ IsFiniteSet(Scanned.page) /\ Scanned.scanned + Cardinality(Scanned.page) <= ScanLimit
      BY <1>4 DEF Fits
    <3> QED
      BY <1>4, <3>1, <3>2 DEF Passes, Fits
  <2>4. TaskTypes'
    BY <1>1, <2>2, PlanInvParts DEF TaskTypes, taskVars
  <2>5. DiagTypes'
    BY <1>2, <2>1, PlanInvParts DEF DiagTypes, FailureTypes
  <2> QED
    BY <1>1, <2>2, <2>3, <2>4, <2>5, PlanInvParts, PlanInvFromParts
<1>6. CASE AttemptMisses(b, r)
  <2>1. UNCHANGED <<taskVars, call>>
    BY <1>6 DEF AttemptMisses
  <2>2. pass' \in Passes /\ Fits(pass') /\ pass'.stage # "planning" /\ first' \in Board /\ FailureTypes'
    <3>1. CASE halted
      BY <1>6, <3>1, NoPassFits, PlanInvParts DEF AttemptMisses, DiagTypes, FailureTypes
    <3>2. CASE ~ halted
      BY <1>3, <1>4, <1>6, <3>2, AttemptFits, FailuresFit, PlanInvParts DEF AttemptMisses, DiagTypes
    <3> QED
      BY <3>1, <3>2
  <2>3. DiagTypes'
    BY <1>2, <2>2 DEF DiagTypes
  <2>4. (call[AutoPlanner] # NoCall <=> pass.stage = "planning")'
    BY <1>1, <2>1, <2>2, IdleTasks, PlanInvParts
  <2> QED
    BY <1>1, <2>1, <2>2, <2>3, <2>4, IdleTasks, PlanInvParts, PlanInvFromParts
<1> QED
  BY <1>5, <1>6

(* The coordinator's call.                                                  *)
LEMMA AutoCallKeeps ==
    ASSUME PlanInv,
           Answers(AutoPlanner) \/ Reread(AutoPlanner) \/ AutoSpecifies \/ AutoSucceeds \/ AutoFails
    PROVE  PlanInv'
<1> DEFINE auto == AutoPlanner
<1>1. PlanTypeOK /\ CallOK /\ auto \in Planner
  BY PlannerParts DEF PlanInv
<1>2. CASE Answers(auto) \/ Reread(auto) \/ AutoSpecifies
  <2>1. GoesOn(auto) /\ UNCHANGED <<queued, pass, first, cursor, failed, cooling, halted, stops>>
    BY <1>2 DEF GoesOn, Answers, Reread, AutoSpecifies, diagVars
  <2>2. TaskTypes' /\ CallOK' /\ call'[auto] # NoCall /\ call[auto] # NoCall
    BY <1>1, <2>1, GoesOnKeeps
  <2>3. DiagTypes'
    BY <2>1, PlanInvParts DEF DiagTypes, FailureTypes
  <2> QED
    BY <2>1, <2>2, <2>3, PlanInvParts, PlanInvFromParts
<1>3. CASE AutoSucceeds \/ AutoFails
  <2>1. LastStep(auto) /\ UNCHANGED <<queued, cursor, halted, stops>>
    BY <1>3 DEF LastStep, AutoSucceeds, AutoFails
  <2>2. TaskTypes' /\ CallOK' /\ call'[auto] = NoCall /\ call[auto] # NoCall
    BY <1>1, <2>1, LastStepKeeps
  <2>3. pass.stage = "planning" /\ call[auto].task \in Task
    <3>1. call[auto].stage # "none"
      BY <1>1, <2>2 DEF PlanTypeOK, Calls, NoCall
    <3> QED
      BY <1>1, <2>2, <3>1, CallParts, PlanInvParts
  <2>4. pass' \in Passes /\ Fits(pass') /\ pass'.stage # "planning" /\ first' \in Board /\ FailureTypes'
    <3>1. CASE AutoFails /\ halted
      BY <3>1, NoPassFits, PlanInvParts DEF AutoFails, DiagTypes, FailureTypes
    <3>2. CASE AutoSucceeds \/ (AutoFails /\ ~ halted)
      <4>1. AttemptOver(pass) /\ (Fails(call[auto].task) \/ Succeeds(call[auto].task))
        BY <3>2 DEF AutoSucceeds, AutoFails
      <4> QED
        BY <2>3, <4>1, AttemptFits, FailuresFit, PlanInvParts DEF DiagTypes
    <3> QED
      BY <1>3, <3>1, <3>2
  <2>5. DiagTypes'
    BY <2>1, <2>4, PlanInvParts DEF DiagTypes
  <2> QED
    BY <2>1, <2>2, <2>4, <2>5, PlanInvParts, PlanInvFromParts
<1> QED
  BY <1>2, <1>3

(* The planner calls of users.                                              *)
LEMMA ManualCallKeeps ==
    ASSUME PlanInv, NEW p \in Manual, ManualCall(p) \/ Answers(p) \/ Reread(p)
    PROVE  PlanInv'
<1>1. PlanTypeOK /\ CallOK /\ p \in Planner /\ AutoPlanner \in Planner \ {p}
  BY PlannerParts DEF PlanInv
<1>2. UNCHANGED <<queued, pass, first, cursor, failed, cooling, halted, stops>>
  BY DEF ManualCall, Answers, Reread, diagVars
<1>3. TaskTypes' /\ CallOK' /\ call'[AutoPlanner] = call[AutoPlanner]
  <2>1. CASE ManualBegins(p)
    <3>1. PICK t \in triage : Called(p, t)
      BY <2>1 DEF ManualBegins
    <3>2. UNCHANGED taskVars /\ t \in Task
      BY <1>1, <2>1 DEF ManualBegins, PlanTypeOK
    <3>3. call' \in [Planner -> Calls] /\ CallOK' /\ call'[AutoPlanner] = call[AutoPlanner]
      BY <1>1, <3>1, <3>2, CalledKeeps
    <3> QED
      BY <3>2, <3>3, PlanInvParts DEF TaskTypes, taskVars
  <2>2. CASE ManualSpecifies(p) \/ ManualEnds(p) \/ Answers(p) \/ Reread(p)
    <3>1. GoesOn(p) \/ LastStep(p)
      BY <2>2 DEF ManualSpecifies, ManualEnds, GoesOn, LastStep
    <3> QED
      BY <1>1, <3>1, GoesOnKeeps, LastStepKeeps
  <2> QED
    BY <2>1, <2>2 DEF ManualCall
<1>4. DiagTypes'
  BY <1>2, PlanInvParts DEF DiagTypes, FailureTypes
<1> QED
  BY <1>2, <1>3, <1>4, PlanInvParts, PlanInvFromParts

(* Ticks, cooling, shutdowns and restarts.                                  *)
LEMMA LoopKeeps ==
    ASSUME PlanInv, Enqueue \/ Halt \/ Exit \/ Resume \/ (\E t \in Task : CoolsDown(t))
    PROVE  PlanInv'
<1>1. UNCHANGED <<taskVars, call>>
  BY DEF Enqueue, Halt, Exit, Resume, CoolsDown
<1>2. queued' \in BOOLEAN /\ halted' \in BOOLEAN /\ stops' \in 0..MaxStops
  <2>1. CASE Halt
    <3>1. stops < MaxStops /\ stops' = stops + 1 /\ halted' = TRUE /\ queued' = queued
      BY <2>1 DEF Halt
    <3> QED
      BY <3>1, PlanInvParts, PlanningAssumption
  <2>2. CASE Enqueue \/ Exit \/ Resume
    BY <2>2, PlanInvParts DEF Enqueue, Exit, Resume
  <2>3. CASE \E t \in Task : CoolsDown(t)
    BY <2>3, PlanInvParts DEF CoolsDown
  <2> QED
    BY <2>1, <2>2, <2>3
<1>3. pass' \in Passes /\ Fits(pass') /\ (pass' = pass \/ (pass.stage # "planning" /\ pass'.stage # "planning"))
  <2>1. CASE Exit \/ Resume
    BY <2>1, NoPassFits DEF Exit, Resume
  <2>2. CASE Enqueue \/ Halt \/ \E t \in Task : CoolsDown(t)
    BY <2>2, PlanInvParts DEF Enqueue, Halt, CoolsDown
  <2> QED
    BY <2>1, <2>2
<1>4. DiagTypes'
  <2>1. CASE Resume
    <3>1. 0 \in 0..Ranks /\ 1 \in Board /\ Cardinality({}) = 0
      BY PlanningAssumption, FS_EmptySet DEF Board
    <3> QED
      BY <2>1, <3>1, PlanningAssumption DEF Resume, DiagTypes, FailureTypes
  <2>2. CASE Enqueue \/ Halt \/ Exit
    BY <2>2, PlanInvParts DEF Enqueue, Halt, Exit, DiagTypes, FailureTypes, diagVars
  <2>3. CASE \E t \in Task : CoolsDown(t)
    BY <2>3, PlanInvParts DEF CoolsDown, DiagTypes, FailureTypes
  <2> QED
    BY <2>1, <2>2, <2>3
<1>5. (call[AutoPlanner] # NoCall <=> pass.stage = "planning")'
  BY <1>1, <1>3, IdleTasks, PlanInvParts
<1> QED
  BY <1>1, <1>2, <1>3, <1>4, <1>5, IdleTasks, PlanInvFromParts

LEMMA PlanStep == PlanInv /\ [PlanNext]_planVars => PlanInv'
<1> SUFFICES ASSUME PlanInv, [PlanNext]_planVars PROVE PlanInv'
  OBVIOUS
<1>1. CASE \E t \in Task : EditText(t) \/ EditRow(t)
  BY <1>1, UserKeeps
<1>2. CASE \E p \in Manual : ManualCall(p) \/ Answers(p) \/ Reread(p)
  BY <1>2, ManualCallKeeps
<1>3. CASE Enqueue \/ Halt \/ Exit \/ Resume \/ \E t \in Task : CoolsDown(t)
  BY <1>3, LoopKeeps
<1>4. CASE Coordinator
  <2>1. CASE TakePass \/ BoardOpens \/ BoardFails \/ PassEnds
    BY <2>1, PassKeeps
  <2>2. CASE ListPage \/ PageEnds
    <3>1. 1 \in Board /\ 1 \in 1..Ranks
      BY PlanningAssumption DEF Board
    <3> QED
      BY <2>2, <3>1, PagesKeep
  <2>3. CASE \E b \in Board, r \in 1..Ranks : PassOver(b, r) \/ Attempt(b, r) \/ AttemptMisses(b, r)
    BY <2>3, PagesKeep, AttemptsKeep
  <2>4. CASE Answers(AutoPlanner) \/ Reread(AutoPlanner) \/ AutoSpecifies \/ AutoSucceeds \/ AutoFails
    BY <2>4, AutoCallKeeps
  <2> QED
    BY <1>3, <1>4, <2>1, <2>2, <2>3, <2>4 DEF Coordinator
<1>5. CASE UNCHANGED planVars
  <2>1. /\ UNCHANGED <<taskVars, call>>
        /\ UNCHANGED <<queued, pass, first, cursor, failed, cooling, halted, stops>>
    BY <1>5 DEF planVars, diagVars
  <2>2. DiagTypes'
    BY <2>1, PlanInvParts DEF DiagTypes, FailureTypes
  <2> QED
    BY <2>1, <2>2, IdleTasks, PlanInvParts, PlanInvFromParts
<1> QED
  BY <1>1, <1>2, <1>3, <1>4, <1>5 DEF PlanNext

(* In every state the rows, the pass, its quotas and page, the failures     *)
(* that are remembered, and the planner calls have their types, and fit one *)
(* another: a pass never exceeds what it may scan and plan.                 *)
THEOREM PlanningInvariant == PlanSpec => []PlanInv
<1>1. PlanInit => PlanInv
  BY InitPlan
<1> QED
  BY <1>1, PlanStep, PTL DEF PlanSpec

(* What is remembered of failures has room for no more than MaxFailures     *)
(* tasks, whatever fails and recovers: the types of Planning.               *)
THEOREM PlanningTypes == PlanSpec => []PlanTypeOK
<1>1. PlanInv => PlanTypeOK
  BY DEF PlanInv
<1> QED
  BY <1>1, PlanningInvariant, PTL

-----------------------------------------------------------------------------
(* What plans do to tasks.                                                  *)

(* A step of a call removes no task from triage but its own, and that only  *)
(* while the row has the version the call was given.                        *)
LEMMA PlansFitTasks ==
    ASSUME PlanInv, [PlanNext]_planVars, NEW p \in Planner,
           call[p].stage \in {"single", "fanout"},
           call[p].task \in triage, call[p].task \notin triage', call'[p] # call[p]
    PROVE  text[call[p].task] = call[p].text
<1>1. PlanTypeOK /\ CallOK
  BY DEF PlanInv
<1> DEFINE Writes(q) == Specify(q) \/ Fanout(q)
           Kept(q) == \A o \in Planner \ {q} : call'[o] = call[o]
<1>2. \E q \in Planner : Writes(q) /\ Kept(q)
  <2>1. triage' # triage /\ call' # call
    OBVIOUS
  <2>2. ~ UNCHANGED taskVars
    BY <2>1 DEF taskVars
  <2>3. \A q \in Planner : ~ Route(q)
    BY <2>1 DEF Route
  <2>4. PICK q \in Planner : GoesOn(q) \/ LastStep(q)
    <3>1. CASE \E m \in Manual : ManualCall(m) \/ Answers(m) \/ Reread(m)
      <4>1. PICK m \in Manual : ManualCall(m) \/ Answers(m) \/ Reread(m)
        BY <3>1
      <4>2. GoesOn(m) \/ LastStep(m)
        BY <2>2, <4>1 DEF ManualCall, ManualBegins, ManualSpecifies, ManualEnds, GoesOn, LastStep
      <4> QED
        BY <4>2, PlannerParts
    <3>2. CASE Answers(AutoPlanner) \/ Reread(AutoPlanner) \/ AutoSpecifies \/ AutoSucceeds \/ AutoFails
      <4>1. GoesOn(AutoPlanner) \/ LastStep(AutoPlanner)
        BY <3>2 DEF AutoSpecifies, AutoSucceeds, AutoFails, GoesOn, LastStep
      <4> QED
        BY <4>1, PlannerParts
    <3>3. CASE UNCHANGED call
      BY <2>1, <3>3
    <3>4. CASE UNCHANGED taskVars
      BY <2>2, <3>4
    <3> QED
      BY <3>1, <3>2, <3>3, <3>4
         DEF PlanNext, Coordinator, EditText, EditRow, UserActs, CoolsDown, Enqueue, Halt, Resume,
             TakePass, BoardOpens, BoardFails, PassEnds, ListPage, PageEnds, PassOver, Attempt,
             AttemptMisses, Exit, planVars
  <2>5. Kept(q)
    BY <1>1, <2>4, GoesOnKeeps, LastStepKeeps
  <2>6. Writes(q)
    BY <2>2, <2>3, <2>4 DEF GoesOn, LastStep, Answers, Reread, GivesUp
  <2> QED
    BY <2>5, <2>6
<1>3. Specify(p) \/ Fanout(p)
  BY <1>2
<1>4. version[call[p].task] = call[p].version
  BY <1>3 DEF Specify, Fanout, UnchangedSince
<1> QED
  BY <1>1, <1>4 DEF CallOK

(* A planner's plan is applied to the title and body it was made for:       *)
(* nobody's edit and no other plan is overwritten.                          *)
THEOREM PlansFitTheirTexts == PlanSpec => PlanFitsText
<1>1. PlanInv /\ [PlanNext]_planVars =>
        [ \A p \in Planner :
            /\ call[p].stage \in {"single", "fanout"}
            /\ call[p].task \in triage /\ call[p].task \notin triage'
            /\ call'[p] # call[p]
            => text[call[p].task] = call[p].text ]_planVars
  BY PlansFitTasks
<1> QED
  BY <1>1, PlanningInvariant, PTL DEF PlanSpec, PlanFitsText

LEMMA GraphsStayWhole ==
    ASSUME PlanInv, RootAwaitsSubtasks, [PlanNext]_planVars
    PROVE  RootAwaitsSubtasks'
<1>1. CASE UNCHANGED graph
  BY <1>1 DEF RootAwaitsSubtasks
<1>2. CASE \E p \in Planner : Fanout(p)
  <2>1. PICK p \in Planner : Fanout(p)
    BY <1>2
  <2>2. call[p].plan \in Plans /\ ~ Circular(call[p].plan)
    BY <2>1, CallParts DEF Fanout, PlanInv
  <2>3. Key \subseteq Awaited(WithRoot(call[p].plan))
    BY <2>2, RootIsLast
  <2>4. \A t \in Task : graph'[t] = graph[t] \/ graph'[t] = WithRoot(call[p].plan)
    BY <2>1 DEF Fanout, PlanInv, PlanTypeOK
  <2> QED
    BY <2>3, <2>4 DEF RootAwaitsSubtasks
<1>3. CASE UNCHANGED taskVars
  BY <1>1, <1>3 DEF taskVars
<1> QED
  BY <1>1, <1>2, <1>3, PlannerParts
     DEF PlanNext, Coordinator, EditText, EditRow, UserActs, CoolsDown, Enqueue, Halt, Resume,
         TakePass, BoardOpens, BoardFails, PassEnds, ListPage, PageEnds, PassOver, Attempt,
         AttemptMisses, Exit, planVars, ManualCall, ManualBegins, ManualSpecifies, ManualEnds,
         Answers, Reread, AutoSpecifies, AutoSucceeds, AutoFails, Specify, Route, GivesUp

(* The root of a decomposed task waits, directly or not, for every subtask, *)
(* whatever keys a plan may name and whatever order it puts them in: a plan *)
(* without a circle has last tasks, and the root waits for those.           *)
THEOREM RootsComeLast == PlanSpec => []RootAwaitsSubtasks
<1>1. PlanInit => RootAwaitsSubtasks
  BY InitPlan
<1> QED
  BY <1>1, GraphsStayWhole, PlanningInvariant, PTL DEF PlanSpec
=============================================================================
