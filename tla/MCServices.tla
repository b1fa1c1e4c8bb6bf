----------------------------- MODULE MCServices -----------------------------
(***************************************************************************)
(* Notifications and the choice of agents for TLC, one at a time           *)
(* (`scenario` never changes, and what is not of it stands still):         *)
(*   notifications  two passes deliver a task's events to a destination;   *)
(*   agents         the tasks of two boards share one worker, and the      *)
(*                  planner the agents;                                    *)
(*   graph          a search in every graph of fallbacks, with every       *)
(*                  health of the profiles, while nothing else happens.    *)
(***************************************************************************)
EXTENDS Notifications, Agents, TLC

CONSTANTS x, y, z, w, t1, t2

VARIABLE scenario

serviceVars == <<scenario, noteVars, agentVars, steady>>

TwoInterests == {{"blocked", "completed"}, {"completed"}}
FirstAndSecond == (t1 :> 1) @@ (t2 :> 2)
ForFirstAndSecond == (t1 :> x) @@ (t2 :> y)
One == [p \in Profile |-> 1]
FirstThenSecond == <<x, y>>

\* Lists of at most n fallbacks, none twice and none of p itself.
Lists(p, n) == {s \in UNION {[1..k -> Profile \ {p}] : k \in 0..n} :
                   \A i, j \in DOMAIN s : s[i] = s[j] => i = j}

OneFallback == (x :> <<y>>) @@ (y :> <<>>) @@ (z :> <<>>) @@ (w :> <<>>)
AllWell == [p \in Profile |-> "well"]

AgentsBegin ==
    IF scenario = "graph"
    THEN \E fx \in Lists(x, 2), fy \in Lists(y, 2), fz \in Lists(z, 1), fw \in {<<>>, <<x>>},
            known \in [Profile -> {"well", "limited"}] :
            AgentsStart((x :> fx) @@ (y :> fy) @@ (z :> fz) @@ (w :> fw), known,
                        (t1 :> Claimed) @@ (t2 :> NoJob))
    ELSE AgentsStart(OneFallback, AllWell, [t \in Task |-> NoJob])

ServiceInit ==
    /\ scenario \in {"notifications", "agents", "graph"}
    /\ NoteInit
    /\ AgentsBegin

Notes == scenario = "notifications" /\ NoteNext /\ UNCHANGED <<scenario, agentVars, steady>>
Choices == scenario = "agents" /\ AgentsNext /\ UNCHANGED <<scenario, noteVars>>
SearchOnly == scenario = "graph" /\ Search(t1) /\ KeepsSteady /\ UNCHANGED <<scenario, noteVars>>

ServiceNext == Notes \/ Choices \/ SearchOnly

\* No fair step of Notifications is enabled while it stands still, and its
\* fairness holds there as it is; a dispatcher always has a pass to begin, and
\* its fairness is that of Agents while it moves.
ChoiceFairness ==
    /\ WF_agentVars(scenario = "agents" /\ Dispatch)
    /\ \A t \in Task : WF_agentVars(scenario = "agents" /\ Worker(t))

ServiceSpec ==
    /\ ServiceInit /\ [][ServiceNext]_serviceVars
    /\ NoteFairness /\ ChoiceFairness

-----------------------------------------------------------------------------
\* A claim comes to every board, where there are dispatchers at all.
BoardsShare == scenario = "agents" => BoardsTakeTurns
=============================================================================
