----------------------------- MODULE Leadership -----------------------------
(* Who may supervise: the service lease of the store                        *)
(* (store/service_leases.go), the goroutine that renews it                  *)
(* (dispatcher/lease.go), the watch loop that lives under it                *)
(* (dispatcher.Run) and the dashboard's embedded controller that starts,    *)
(* stops and restarts such loops (supervisor/controller.go).                *)
(*                                                                          *)
(* Time passes in renewal intervals, a third of the lease's life.  Nothing  *)
(* absolute is kept: a lease knows how much of it is left, and a time value *)
(* that was read and not yet used knows how old it has become.              *)
EXTENDS Integers, FiniteSets

CONSTANTS
    Controller,   \* dashboards, each with one embedded supervisor
    Cli,          \* the host of `dispatch --watch` processes
    Dispatcher,   \* slots for generations and watch processes
    Request,      \* HTTP requests in flight, of any dashboard
    Config,       \* agent configurations
    AutoStart,    \* those whose supervisor starts by itself
    None,
    TTL,          \* renewal intervals in the life of a lease
    MaxAge        \* bound: how old a time value may become before it is used

ASSUME LeadershipAssumption ==
    /\ TTL \in Nat /\ TTL >= 2     \* a lease is renewed before it ends
    /\ MaxAge \in Nat
    /\ AutoStart \subseteq Config
    /\ None \notin Controller \cup Dispatcher \cup Request \cup Config \cup Int
    /\ Request \cap Dispatcher = {}
    /\ None \notin [owner : Dispatcher \cup {None}, left : Int]
    /\ Cli \notin Controller \cup {None}

VARIABLES
    lease,      \* the row of service_leases, or None
    host,       \* who runs the slot: a controller, the command line, nobody
    phase,      \* where the slot's loop stands
    stamp,      \* the age of the time value in the slot's hands, or None
    cancelled,  \* the context the slot was started with is cancelled
    lost,       \* the renewal failed and cancelled the loop: supervisorLease.err
    config,     \* the configuration the slot was started with
    late,       \* history: a time value of this Run was used an interval late
    current,    \* Controller.cancel, done and generation: the slot they belong to
    desired,    \* Controller.status.Desired
    request,    \* the requests that start a supervisor, or apply a configuration
    saved,      \* the configuration file, one for all processes of a user
    overtaken   \* history: the requests and generations whose configuration was
                \* replaced by a write that does not restart them

slotVars == <<host, phase, stamp, cancelled, lost, config, late>>
fileVars == <<saved, overtaken>>
ctlVars  == <<current, desired, request, fileVars>>
leadVars == <<lease, slotVars, ctlVars>>

Phases   == {"idle", "ready", "acquiring", "leading", "draining", "backoff"}
Age      == 0..MaxAge
Lease    == [owner : Dispatcher \cup {None}, left : (-MaxAge)..TTL]
Requests == [host : Controller \cup {None}, config : Config \cup {None},
             step : {"none", "saved", "waiting", "stopped", "loaded"}]
NoRequest == [host |-> None, config |-> None, step |-> "none"]

LeadTypeOK ==
    /\ lease \in Lease \cup {None}
    /\ host \in [Dispatcher -> Controller \cup {Cli, None}]
    /\ phase \in [Dispatcher -> Phases]
    /\ stamp \in [Dispatcher -> Age \cup {None}]
    /\ cancelled \in [Dispatcher -> BOOLEAN]
    /\ lost \in [Dispatcher -> BOOLEAN]
    /\ config \in [Dispatcher -> Config \cup {None}]
    /\ late \in [Dispatcher -> BOOLEAN]
    /\ current \in [Controller -> Dispatcher \cup {None}]
    /\ desired \in [Controller -> BOOLEAN]
    /\ request \in [Request -> Requests]
    /\ saved \in Config
    /\ overtaken \in SUBSET (Dispatcher \cup Request)

LeadInit ==
    /\ lease = None
    /\ host = [d \in Dispatcher |-> None]
    /\ phase = [d \in Dispatcher |-> "idle"]
    /\ stamp = [d \in Dispatcher |-> None]
    /\ cancelled = [d \in Dispatcher |-> FALSE]
    /\ lost = [d \in Dispatcher |-> FALSE]
    /\ config = [d \in Dispatcher |-> None]
    /\ late = [d \in Dispatcher |-> FALSE]
    /\ current = [c \in Controller |-> None]
    /\ desired = [c \in Controller |-> FALSE]
    /\ request = [q \in Request |-> NoRequest]
    /\ saved \in Config
    /\ overtaken = {}

(* Every call of Run has an owner id of its own, a new uuid: the slot stands *)
(* for it while the call lasts, and the id of a call that has ended is one  *)
(* that nobody has.                                                         *)
Owns(d) == lease # None /\ lease.owner = d

Orphaned(row, gone) ==
    IF row # None /\ row.owner \in gone THEN [row EXCEPT !.owner = None] ELSE row

\* MUTANT: a lease lives until it is released.
ExpiredNever(age) == FALSE

(* The lease is over for somebody whose clock reading is `age` old.         *)
Expired(age) == lease.left + age <= 0

(* What is left of a lease written with a clock reading of that age.        *)
Extended(age) == TTL - age

-----------------------------------------------------------------------------
(* The lease and the loop under it.                                         *)

(* Run begins: the clock is read before the write transaction of            *)
(* AcquireServiceLease is entered.  The controller's loop gets here only if *)
(* markRunning finds its generation current and desired.                    *)
EnterRun(d) ==
    /\ phase[d] = "ready"
    /\ ~ cancelled[d]
    /\ host[d] \in Controller => current[host[d]] = d /\ desired[host[d]]
    /\ phase' = [phase EXCEPT ![d] = "acquiring"]
    /\ stamp' = [stamp EXCEPT ![d] = 0]
    /\ late' = [late EXCEPT ![d] = FALSE]
    /\ lost' = [lost EXCEPT ![d] = FALSE]
    /\ UNCHANGED <<lease, host, cancelled, config, ctlVars>>

\* MUTANT: the upsert has lost its condition.
AcquirableAlways(d) == TRUE

(* A live lease is refused: an owner never acquires twice.                  *)
Acquirable(d) == IF lease = None THEN TRUE ELSE Expired(stamp[d])

Acquire(d) ==
    /\ phase[d] = "acquiring"
    /\ ~ cancelled[d]
    /\ Acquirable(d)
    /\ lease' = [owner |-> d, left |-> Extended(stamp[d])]
    /\ phase' = [phase EXCEPT ![d] = "leading"]
    /\ stamp' = [stamp EXCEPT ![d] = None]
    /\ UNCHANGED <<host, cancelled, lost, config, late, ctlVars>>

(* Run gives the slot back to whoever called it.  A watch process exits; a  *)
(* generation that was cancelled, or is no longer desired, ends and wakes   *)
(* the requests that wait for it (finishGeneration and the closing of done  *)
(* are one step: a waiter that sees done closed later is a slower waiter);  *)
(* any other end of Run is an error and is followed by a backoff.           *)
Reset(d) ==
    /\ phase' = [phase EXCEPT ![d] = "idle"]
    /\ host' = [host EXCEPT ![d] = None]
    /\ stamp' = [stamp EXCEPT ![d] = None]
    /\ cancelled' = [cancelled EXCEPT ![d] = FALSE]
    /\ lost' = [lost EXCEPT ![d] = FALSE]
    /\ config' = [config EXCEPT ![d] = None]
    /\ late' = [late EXCEPT ![d] = FALSE]

FinishGeneration(d, c) ==
    /\ Reset(d)
    /\ IF current[c] = d
       THEN /\ current' = [current EXCEPT ![c] = None]
            /\ desired' = [desired EXCEPT ![c] = FALSE]
            /\ request' = [q \in Request |->
                              IF request[q].host = c /\ request[q].step = "waiting"
                              THEN [request[q] EXCEPT !.step = "stopped"] ELSE request[q]]
       ELSE UNCHANGED <<current, desired, request>>
    /\ overtaken' = overtaken \ {d}
    /\ UNCHANGED saved

StillWanted(d) ==
    /\ ~ cancelled[d]
    /\ current[host[d]] = d
    /\ desired[host[d]]

RunReturns(d) ==
    \/ /\ host[d] = Cli
       /\ Reset(d)
       /\ UNCHANGED ctlVars
    \/ /\ host[d] \in Controller
       /\ ~ StillWanted(d)
       /\ FinishGeneration(d, host[d])
    \/ /\ host[d] \in Controller
       /\ StillWanted(d)
       /\ phase' = [phase EXCEPT ![d] = "backoff"]
       /\ stamp' = [stamp EXCEPT ![d] = None]
       /\ lost' = [lost EXCEPT ![d] = FALSE]
       /\ late' = [late EXCEPT ![d] = FALSE]
       /\ UNCHANGED <<host, cancelled, config, ctlVars>>

(* Somebody else leads, the store refuses, or the context is cancelled.     *)
NotAcquired(d) ==
    /\ phase[d] = "acquiring"
    /\ RunReturns(d)
    /\ UNCHANGED lease

(* One turn of supervisorLease.renew: the tick in its hands, however old,   *)
(* is the time of the renewal.  While the transaction waited another tick   *)
(* may have been buffered: it is younger than the one just used.            *)
Renew(d) ==
    /\ phase[d] = "leading"
    /\ ~ cancelled[d] /\ ~ lost[d]
    /\ stamp[d] # None
    /\ Owns(d)
    /\ ~ Expired(stamp[d])
    /\ lease' = [lease EXCEPT !.left = Extended(stamp[d])]
    /\ stamp' \in {[stamp EXCEPT ![d] = next] :
                     next \in {None} \cup 0..(stamp[d] - 1)}
    /\ UNCHANGED <<host, phase, cancelled, lost, config, late, ctlVars>>

(* The renewal fails, for want of the lease or of the store: whatever the   *)
(* reason, the loop is cancelled and no further renewal is tried.           *)
LoseLease(d) ==
    /\ phase[d] = "leading"
    /\ ~ cancelled[d] /\ ~ lost[d]
    /\ stamp[d] # None
    /\ lost' = [lost EXCEPT ![d] = TRUE]
    /\ stamp' = [stamp EXCEPT ![d] = None]
    /\ UNCHANGED <<lease, host, phase, cancelled, config, late, ctlVars>>

(* The loop ends: cancelled, its lease lost, or one of its own calls failed.*)
(* The deferred shutdown cancels the renewal first, then waits for workers  *)
(* and planners, for as long as they take.                                  *)
Shutdown(d) ==
    /\ phase[d] = "leading"
    /\ phase' = [phase EXCEPT ![d] = "draining"]
    /\ stamp' = [stamp EXCEPT ![d] = None]
    /\ UNCHANGED <<lease, host, cancelled, lost, config, late, ctlVars>>

(* supervisorLease.Close: the row goes only if it is still this owner's,    *)
(* and the error of a store that does not answer in time is ignored.        *)
Close(d) ==
    /\ phase[d] = "draining"
    /\ \/ lease' = IF Owns(d) THEN None ELSE lease
       \/ lease' = Orphaned(lease, {d})
    /\ RunReturns(d)

BackoffEnds(d) ==
    /\ phase[d] = "backoff"
    /\ ~ cancelled[d]
    /\ phase' = [phase EXCEPT ![d] = "ready"]
    /\ UNCHANGED <<lease, host, stamp, cancelled, lost, config, late, ctlVars>>

(* A generation that finds itself cancelled before its next call of Run.    *)
GenerationEnds(d) ==
    /\ phase[d] \in {"ready", "backoff"}
    /\ host[d] \in Controller
    /\ ~ StillWanted(d)
    /\ FinishGeneration(d, host[d])
    /\ UNCHANGED lease

StartWatch(d) ==
    /\ phase[d] = "idle"
    /\ host' = [host EXCEPT ![d] = Cli]
    /\ phase' = [phase EXCEPT ![d] = "ready"]
    /\ UNCHANGED <<lease, stamp, cancelled, lost, config, late, ctlVars>>

(* Ctrl-C: the command's context is cancelled.                              *)
Interrupt(d) ==
    /\ host[d] = Cli
    /\ phase[d] \in {"acquiring", "leading"}
    /\ cancelled' = [cancelled EXCEPT ![d] = TRUE]
    /\ UNCHANGED <<lease, host, phase, stamp, lost, config, late, ctlVars>>

-----------------------------------------------------------------------------
(* The controller.                                                          *)

Launch(c, d, cfg) ==
    /\ phase[d] = "idle"
    /\ current' = [current EXCEPT ![c] = d]
    /\ desired' = [desired EXCEPT ![c] = TRUE]
    /\ host' = [host EXCEPT ![d] = c]
    /\ phase' = [phase EXCEPT ![d] = "ready"]
    /\ config' = [config EXCEPT ![d] = cfg]
    /\ UNCHANGED <<stamp, cancelled, lost, late>>

(* Controller.Start, called by a request: it does nothing while the last    *)
(* generation has not ended.                                                *)
Start(c, q) ==
    \/ /\ current[c] # None
       /\ overtaken' = overtaken \ {q}
       /\ UNCHANGED <<slotVars, current, desired>>
    \/ /\ current[c] = None
       /\ \E d \in Dispatcher :
            /\ Launch(c, d, request[q].config)
            /\ overtaken' = (overtaken \ {q}) \cup {e \in {d} : q \in overtaken}

\* MUTANT: the generation is forgotten as soon as it is told to stop.
StopForgetting(c) ==
    /\ desired' = [desired EXCEPT ![c] = FALSE]
    /\ cancelled' = [d \in Dispatcher |-> cancelled[d] \/ d = current[c]]
    /\ current' = [current EXCEPT ![c] = None]
    /\ UNCHANGED <<host, phase, stamp, lost, config, late>>

\* MUTANT: the stop is not carried to the generation.
StopFlagOnly(c) ==
    /\ desired' = [desired EXCEPT ![c] = FALSE]
    /\ UNCHANGED <<slotVars, current>>

(* Controller.Stop up to its wait: the flag under the mutex, then cancel.   *)
Stop(c) ==
    /\ desired' = [desired EXCEPT ![c] = FALSE]
    /\ cancelled' = [d \in Dispatcher |-> cancelled[d] \/ d = current[c]]
    /\ UNCHANGED <<host, phase, stamp, lost, config, late, current>>

Moves(q, step) == request' = [request EXCEPT ![q].step = step]

(* The file is replaced: whoever took the old configuration from it, and    *)
(* will not be restarted for the new one, has been overtaken.               *)
Save(cfg, restarted) ==
    /\ saved' = cfg
    /\ overtaken' = overtaken \cup
          {q \in Request : request[q] # NoRequest} \cup
          ({d \in Dispatcher : host[d] \in Controller} \ restarted)

(* The command line writes the file and tells nobody.                       *)
WriteConfig ==
    /\ \E cfg \in Config : Save(cfg, {})
    /\ UNCHANGED <<lease, slotVars, current, desired, request>>

(* PUT of the agent configuration.  Requests are served concurrently, and   *)
(* nothing but the mutex of Start and Stop orders them.                     *)
PutConfig(q, c) ==
    /\ request[q] = NoRequest
    /\ \E cfg \in Config :
        /\ Save(cfg, {d \in Dispatcher : host[d] = c})
        /\ request' = [request EXCEPT ![q] = [host |-> c, config |-> cfg, step |-> "saved"]]
    /\ UNCHANGED <<lease, slotVars, current, desired>>

(* Apply stops the generation, and waits for it when there is one.          *)
Apply(q) ==
    /\ request[q].step = "saved"
    /\ Stop(request[q].host)
    /\ Moves(q, IF current[request[q].host] = None THEN "stopped" ELSE "waiting")
    /\ UNCHANGED <<lease, fileVars>>

(* What POST stop waits for, it does nothing after.                         *)
PostStop(c) ==
    /\ Stop(c)
    /\ UNCHANGED <<lease, request, fileVars>>

(* POST start, or the process of the controller begins: the file is read.   *)
PostStart(q, c) ==
    /\ request[q] = NoRequest
    /\ request' = [request EXCEPT ![q] = [host |-> c, config |-> saved, step |-> "loaded"]]
    /\ UNCHANGED <<lease, slotVars, current, desired, fileVars>>

Leaves(q) == request' = [request EXCEPT ![q] = NoRequest]

(* The last step of a request.  Apply has seen the generation end, and      *)
(* starts the next one if the configuration says so.                        *)
Answer(q) ==
    /\ \/ /\ request[q].step = "loaded" \/ request[q].config \in AutoStart
          /\ Start(request[q].host, q)
       \/ /\ request[q].step = "stopped" /\ request[q].config \notin AutoStart
          /\ overtaken' = overtaken \ {q}
          /\ UNCHANGED <<slotVars, current, desired>>
    /\ request[q].step \in {"loaded", "stopped"}
    /\ Leaves(q)
    /\ UNCHANGED <<lease, saved>>

(* The five seconds of the request are over: it fails, nothing is started.  *)
TimeOut(q) ==
    /\ request[q].step = "waiting"
    /\ Leaves(q)
    /\ overtaken' = overtaken \ {q}
    /\ UNCHANGED <<lease, slotVars, current, desired, saved>>

-----------------------------------------------------------------------------
(* A host dies: its slots, its controller and its requests are gone, the    *)
(* lease row and the configuration file stay.                               *)
CrashController(c) ==
    LET gone == {d \in Dispatcher : host[d] = c}
        dropped == {q \in Request : request[q].host = c} IN
    /\ gone \cup dropped # {}
    /\ host' = [d \in Dispatcher |-> IF d \in gone THEN None ELSE host[d]]
    /\ phase' = [d \in Dispatcher |-> IF d \in gone THEN "idle" ELSE phase[d]]
    /\ stamp' = [d \in Dispatcher |-> IF d \in gone THEN None ELSE stamp[d]]
    /\ cancelled' = [d \in Dispatcher |-> d \notin gone /\ cancelled[d]]
    /\ lost' = [d \in Dispatcher |-> d \notin gone /\ lost[d]]
    /\ config' = [d \in Dispatcher |-> IF d \in gone THEN None ELSE config[d]]
    /\ late' = [d \in Dispatcher |-> d \notin gone /\ late[d]]
    /\ current' = [current EXCEPT ![c] = None]
    /\ desired' = [desired EXCEPT ![c] = FALSE]
    /\ request' = [q \in Request |-> IF q \in dropped THEN NoRequest ELSE request[q]]
    /\ overtaken' = overtaken \ (gone \cup dropped)
    /\ lease' = Orphaned(lease, gone)
    /\ UNCHANGED saved

CrashWatch(d) ==
    /\ host[d] = Cli
    /\ Reset(d)
    /\ lease' = Orphaned(lease, {d})
    /\ UNCHANGED ctlVars

(* One renewal interval passes.  The ticker of every leader offers a tick;  *)
(* one that is already waiting keeps its place in the channel and ages.     *)
Aged(d) ==
    IF stamp[d] # None THEN stamp[d] + 1
    ELSE IF phase[d] = "leading" /\ ~ cancelled[d] /\ ~ lost[d] THEN 0
    ELSE None

Tick ==
    /\ \A d \in Dispatcher : stamp[d] # None => stamp[d] < MaxAge
    /\ lease' = IF lease = None THEN None
                ELSE [lease EXCEPT !.left = IF @ > -MaxAge THEN @ - 1 ELSE @]
    /\ stamp' = [d \in Dispatcher |-> Aged(d)]
    /\ late' = [d \in Dispatcher |-> late[d] \/ stamp[d] # None]
    /\ UNCHANGED <<host, phase, cancelled, lost, config, ctlVars>>

RunStep(d) ==
    \/ EnterRun(d) \/ Acquire(d) \/ NotAcquired(d) \/ Renew(d) \/ LoseLease(d)
    \/ Shutdown(d) \/ Close(d) \/ BackoffEnds(d) \/ GenerationEnds(d)
    \/ StartWatch(d) \/ Interrupt(d) \/ CrashWatch(d)

RequestStep(q) ==
    \/ \E c \in Controller : PutConfig(q, c) \/ PostStart(q, c)
    \/ Apply(q) \/ Answer(q) \/ TimeOut(q)

LeadNext ==
    \/ \E d \in Dispatcher : RunStep(d)
    \/ \E q \in Request : RequestStep(q)
    \/ \E c \in Controller : PostStop(c) \/ CrashController(c)
    \/ WriteConfig \/ Tick

LeadSpec == LeadInit /\ [][LeadNext]_leadVars

(* Goroutines that can run do run, tickers tick, workers that were told to  *)
(* stop do stop; and a store that is asked for a free lease again and again *)
(* does not refuse it for ever.                                             *)
LeadFairness ==
    /\ SF_leadVars(\E d \in Dispatcher : Acquire(d))
    /\ \A d \in Dispatcher :
        /\ WF_leadVars(EnterRun(d))
        /\ WF_leadVars(Acquire(d) \/ NotAcquired(d))
        /\ WF_leadVars(Renew(d) \/ LoseLease(d))
        /\ WF_leadVars((cancelled[d] \/ lost[d]) /\ Shutdown(d))
        /\ WF_leadVars(Close(d))
        /\ WF_leadVars(BackoffEnds(d))
        /\ WF_leadVars(GenerationEnds(d))
    /\ WF_leadVars(Tick)

FairLeadSpec == LeadSpec /\ LeadFairness

-----------------------------------------------------------------------------
(* Two dispatchers supervise at once only if one of them used, or still     *)
(* holds, a time value that waited for a whole renewal interval: the life   *)
(* of the lease is three intervals, so one late renewal is forgiven in      *)
(* itself, but it leaves a lease that ends before the next tick is due.     *)
Undisturbed(d) == phase[d] = "leading" /\ ~ cancelled[d] /\ ~ lost[d] /\ ~ late[d]

OneSupervisor ==
    \A d, e \in Dispatcher : Undisturbed(d) /\ Undisturbed(e) => d = e

(* A lease that has time left leaves its owner only by that owner's own     *)
(* release: nobody takes it, and a dispatcher that was replaced releases    *)
(* nothing when it closes.                                                  *)
LeaseNotStolen ==
    [][ lease # None /\ lease.left > 0
        => \/ lease' # None /\ lease'.owner \in {lease.owner, None}
           \/ /\ lease' = None
              /\ \E d \in Dispatcher : Owns(d) /\ phase[d] = "draining"
      ]_leadVars

(* Apply, Start, Stop and the restarts of a failed loop never leave a       *)
(* controller with two generations, nor with one it has forgotten.          *)
OneGeneration ==
    \A d \in Dispatcher : host[d] \in Controller => current[host[d]] = d

(* Once every saved configuration has been carried to its controller, a     *)
(* generation that has not been told to stop runs what is in the file, with *)
(* two exceptions: the file was written for somebody else after the         *)
(* generation had its configuration, or before it was started and after the *)
(* request that started it had taken the configuration.  Stopping and       *)
(* starting around a change, with the stop timing out, other requests in    *)
(* between or the loop failing, leaves no other old one at work.            *)
RunsSavedConfig ==
    \A d \in Dispatcher :
        /\ host[d] \in Controller /\ ~ cancelled[d]
        /\ \A q \in Request : request[q].host = host[d] => request[q].step # "saved"
        => d \in overtaken \/ config[d] = saved

(* While a controller wants to supervise, somebody does: a lease left by a  *)
(* dead process or by a release that failed is taken over when it expires.  *)
Failover ==
    \A c \in Controller :
        desired[c] ~> (~ desired[c] \/ \E d \in Dispatcher : phase[d] = "leading")
=============================================================================
