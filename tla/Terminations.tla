---------------------------- MODULE Terminations ----------------------------
(***************************************************************************)
(* Supervision with a history variable: the runs whose termination - by an *)
(* operator, or by the maintenance pass - was stored while their worker    *)
(* was there to be stopped, and before the goroutine of the run had looked *)
(* for it.  What becomes of such a run may depend on its goroutine, on the *)
(* request of its worker and on the pass, each of which has read the run   *)
(* at another time.                                                        *)
(***************************************************************************)
EXTENDS Supervision

VARIABLE terminated     \* the runs terminated while their workers ran

recordVars == <<dispatchVars, terminated>>

RecordInit == DispatchInit /\ terminated = {}

\* The goroutine has looked for an intent, and does not look again this turn.
PastIntent(r) == handler[r].at \in {"spared", "decide", "capture", "finalize", "fail",
                                    "pause", "judge", "judged"}

RecordNext ==
    /\ DispatchNext
    /\ terminated' = terminated \cup
          {r \in Run : run'[r].reclaim # "none" /\ Alive(r)' /\ ~PastIntent(r)'}

RecordSpec == RecordInit /\ [][RecordNext]_recordVars

(* A termination that was stored while the worker ran, and before its      *)
(* goroutine read the intents, is carried out: the run never completes,    *)
(* whatever its worker asked for and exits with, and whatever the pass and *)
(* the next dispatcher make of it.  One that is stored later, while a      *)
(* descendant of the worker is still alive, is overtaken by the request.   *)
TerminationHonoured == \A r \in terminated : run[r].status # "completed"
=============================================================================
