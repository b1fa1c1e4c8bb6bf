---------------------------- MODULE MCDashboard ----------------------------
(***************************************************************************)
(* What a dashboard serves beside the task rows, for TLC, one scenario at  *)
(* a time (`scenario` never changes, and what is of no scenario stands     *)
(* still):                                                                 *)
(*   supervisor  it and the command line compete for the lease, while it   *)
(*               serves one request at a time;                             *)
(*   requests    two requests at a time, and writes of the file by others, *)
(*               while no lease is near its end;                           *)
(*   files       two files attached to two tasks and removed;              *)
(*   imports     two imports of the same two issues.                       *)
(***************************************************************************)
EXTENDS Leadership, Attachments

VARIABLE scenario
dashboardVars == <<scenario, leadVars, vars>>

OneRequest == /\ LeadNext
              /\ Cardinality({q \in Request : request'[q] # NoRequest}) <= 1
              /\ overtaken' = {}

TwoRequests ==
    \/ \E d \in Dispatcher : RunStep(d) /\ host'[d] # Cli
    \/ \E q \in Request : RequestStep(q)
    \/ \E c \in Controller : PostStop(c) \/ CrashController(c)
    \/ WriteConfig

Supervised == scenario \in {"supervisor", "requests"}

DashboardInit ==
    /\ LeadInit /\ Init
    /\ scenario \in {"supervisor", "requests", "files", "imports"}
    /\ Supervised => \A t \in Task : status[t] = "none"
    /\ ~ Supervised => saved \notin AutoStart

DashboardNext ==
    /\ \/ scenario = "supervisor" /\ OneRequest /\ UNCHANGED vars
       \/ scenario = "requests" /\ TwoRequests /\ UNCHANGED vars
       \/ scenario = "files" /\ Next /\ imports' = imports /\ UNCHANGED leadVars
       \/ scenario = "imports" /\ Next /\ attach' = attach /\ UNCHANGED leadVars
    /\ UNCHANGED scenario

\* No fair step of Leadership is enabled while it stands still: nobody leads,
\* and nothing has been started.  Only of "requests" the behaviours are not
\* fair, for want of time: Failover is a question to "supervisor".
DashboardSpec == DashboardInit /\ [][DashboardNext]_dashboardVars /\ LeadFairness
=============================================================================
