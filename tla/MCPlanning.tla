----------------------------- MODULE MCPlanning -----------------------------
(***************************************************************************)
(* Planning for TLC.  `scenario` says what a behaviour is about:           *)
(*   turn   the coordinator alone, over two boards and whatever lists they *)
(*          begin with: who is planned, and when;                          *)
(*   calls  one task that the coordinator and a user plan at the same      *)
(*          time, while it is edited.                                      *)
(***************************************************************************)
EXTENDS Planning

VARIABLE scenario
mcVars == <<planVars, scenario>>

Only == <<1, 1>>
ImportedTasks == {<<1, 2>>}

\* The plans that are refused are those with a cycle, and the root waits for
\* those from whom a path leads to it.
ASSUME CircularMeansCyclic ==
    \A plan \in Plans : Circular(plan) <=> DAG!HasCycle(PlanGraph(plan))
ASSUME AwaitedMeansAncestor ==
    \A edges \in Graphs :
        Awaited(edges) = Key \cap DAG!Ancestors([node |-> Key \cup {Root}, edge |-> edges], Root)

MCInit ==
    /\ PlanInit
    /\ \/ scenario = "turn" /\ stops = 0
       \/ scenario = "calls" /\ triage = {Only}

(* In turns every plan is the same, and a task joins the head of a list.   *)
TurnStep ==
    /\ scenario = "turn"
    /\ ~ halted'
    /\ \A p \in Manual : call'[p] = NoCall
    /\ call'[AutoPlanner].stage # "single"
    /\ call'[AutoPlanner].stage = "fanout" => call'[AutoPlanner].plan = {}
    /\ edits' # edits => Only \notin triage /\ Only \in triage'

(* In calls listings succeed, a failed task is not tried again, and there  *)
(* is either an edit or a shutdown.                                        *)
CallsStep ==
    /\ scenario = "calls"
    /\ BoardFails => ListPage
    /\ edits' + stops' <= 1
    /\ failed \subseteq cooling'
    /\ \A t \in Task \ {Only} : version'[t] = 0

Allowed == UNCHANGED scenario /\ (TurnStep \/ CallsStep)

MCNext == PlanNext /\ Allowed

(* PlanFairness, for the steps of the scenario.                            *)
MCFairness ==
    /\ WF_mcVars(Enqueue /\ Allowed)
    /\ WF_mcVars(Coordinator /\ Allowed)
    /\ WF_mcVars(Resume /\ Allowed)
    /\ \A b \in Board : /\ SF_mcVars(pass.board = b /\ BoardOpens /\ Allowed)
                        /\ SF_mcVars(pass.board = b /\ ListPage /\ Allowed)

MCSpec == MCInit /\ [][MCNext]_mcVars /\ MCFairness
=============================================================================
