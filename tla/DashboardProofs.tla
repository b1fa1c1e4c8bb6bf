--------------------------- MODULE DashboardProofs --------------------------
(* Proofs about Leadership, for any controllers, slots, configurations and  *)
(* any life of a lease of at least two renewal intervals, and about         *)
(* Attachments, for any tasks, files, issues and importers.                 *)
EXTENDS Leadership, Attachments, FiniteSetTheorems, TLAPS

-----------------------------------------------------------------------------
(* Leadership.                                                              *)

(* A slot that is acquiring holds the clock reading it will use, and only   *)
(* as old as the slot admits.                                               *)
ReadingHeld ==
    \A d \in Dispatcher :
        phase[d] = "acquiring" =>
            /\ stamp[d] # None
            /\ ~ late[d] => stamp[d] = 0

(* An undisturbed leader owns the row, and has either just renewed it or    *)
(* holds the tick to renew it with.                                         *)
OwnerOnTime ==
    \A d \in Dispatcher :
        Undisturbed(d) =>
            /\ Owns(d)
            /\ \/ stamp[d] = None /\ lease.left = TTL
               \/ stamp[d] = 0 /\ lease.left = TTL - 1

(* A request that is under way knows its controller and its configuration.  *)
RequestKnown ==
    \A q \in Request :
        /\ request[q].step = "none" => request[q] = NoRequest
        /\ request[q].step # "none" => /\ request[q].host \in Controller
                                       /\ request[q].config \in Config

\* Every configuration saved through the controller has been carried to it.
Carried(c) == \A q \in Request : request[q].host = c => request[q].step # "saved"

(* Who has not been overtaken has the configuration of the file, but for    *)
(* the generation that a request is about to stop.                          *)
FileConfig ==
    /\ \A d \in Dispatcher :
          /\ host[d] \in Controller /\ ~ cancelled[d]
          /\ d \notin overtaken /\ Carried(host[d])
          => config[d] = saved
    /\ \A q \in Request :
          request[q] # NoRequest /\ q \notin overtaken => request[q].config = saved

LeadIInv == /\ LeadTypeOK /\ ReadingHeld /\ OwnerOnTime /\ OneGeneration
            /\ RequestKnown /\ FileConfig

-----------------------------------------------------------------------------
(* What an action writes when it gives a slot back, or starts one.          *)

LEMMA NoLeaseHasNoOwner ==
  ASSUME NEW d \in Dispatcher \cup {None}, NEW n \in Int
  PROVE  [owner |-> d, left |-> n] # None
  BY LeadershipAssumption

LEMMA OrphanedRow ==
  ASSUME NEW gone \in SUBSET Dispatcher, lease \in Lease \cup {None}
  PROVE  /\ Orphaned(lease, gone) \in Lease \cup {None}
         /\ lease = None => Orphaned(lease, gone) = None
         /\ lease # None =>
              /\ Orphaned(lease, gone) # None
              /\ Orphaned(lease, gone).left = lease.left
              /\ Orphaned(lease, gone).owner =
                    IF lease.owner \in gone THEN None ELSE lease.owner
<1>1. CASE lease = None
  BY <1>1 DEF Orphaned
<1>2. CASE lease # None
  <2>1. /\ lease \in Lease
        /\ lease = [owner |-> lease.owner, left |-> lease.left]
        /\ lease.owner \in Dispatcher \cup {None} /\ lease.left \in (-MaxAge)..TTL
    BY <1>2 DEF Lease
  <2>2. CASE lease.owner \in gone
    <3>1. Orphaned(lease, gone) = [owner |-> None, left |-> lease.left]
      BY <1>2, <2>1, <2>2 DEF Orphaned
    <3>2. [owner |-> None, left |-> lease.left] # None
      BY <2>1, LeadershipAssumption
    <3>3. [owner |-> None, left |-> lease.left] \in Lease
      BY <2>1 DEF Lease
    <3> QED BY <1>2, <2>2, <3>1, <3>2, <3>3
  <2>3. CASE lease.owner \notin gone
    BY <1>2, <2>1, <2>3 DEF Orphaned
  <2> QED BY <2>2, <2>3
<1> QED BY <1>1, <1>2

LEMMA ResetTyped ==
  ASSUME LeadTypeOK, NEW d \in Dispatcher, Reset(d)
  PROVE  /\ host' \in [Dispatcher -> Controller \cup {Cli, None}]
         /\ phase' \in [Dispatcher -> Phases]
         /\ stamp' \in [Dispatcher -> Age \cup {None}]
         /\ cancelled' \in [Dispatcher -> BOOLEAN]
         /\ lost' \in [Dispatcher -> BOOLEAN]
         /\ config' \in [Dispatcher -> Config \cup {None}]
         /\ late' \in [Dispatcher -> BOOLEAN]
  BY DEF Reset, LeadTypeOK, Phases

\* Those that wait for the generation go on; nothing else happens to a request.
LEMMA FinishedRequests ==
  ASSUME LeadTypeOK, NEW d \in Dispatcher, NEW c \in Controller, FinishGeneration(d, c)
  PROVE  /\ request' \in [Request -> Requests]
         /\ \A q \in Request :
               /\ request'[q].host = request[q].host
               /\ request'[q].config = request[q].config
               /\ \/ request'[q] = request[q]
                  \/ request[q].step = "waiting" /\ request'[q].step = "stopped"
<1>1. \/ request' = request
      \/ request' = [q \in Request |->
                        IF request[q].host = c /\ request[q].step = "waiting"
                        THEN [request[q] EXCEPT !.step = "stopped"] ELSE request[q]]
  BY DEF FinishGeneration
<1>2. ASSUME NEW q \in Request
      PROVE  /\ request[q] \in Requests
             /\ [request[q] EXCEPT !.step = "stopped"] \in Requests
             /\ [request[q] EXCEPT !.step = "stopped"].host = request[q].host
             /\ [request[q] EXCEPT !.step = "stopped"].config = request[q].config
             /\ [request[q] EXCEPT !.step = "stopped"].step = "stopped"
  BY DEF LeadTypeOK, Requests
<1> QED BY <1>1, <1>2 DEF LeadTypeOK

LEMMA FinishTyped ==
  ASSUME LeadTypeOK, NEW d \in Dispatcher, NEW c \in Controller,
         FinishGeneration(d, c), lease' \in Lease \cup {None}
  PROVE  LeadTypeOK'
<1>1. Reset(d) /\ saved' = saved /\ overtaken' = overtaken \ {d}
  BY DEF FinishGeneration
<1>2. /\ current' \in [Controller -> Dispatcher \cup {None}]
      /\ desired' \in [Controller -> BOOLEAN]
  BY DEF FinishGeneration, LeadTypeOK
<1>3. request' \in [Request -> Requests]
  BY FinishedRequests DEF LeadTypeOK
<1> QED BY <1>1, <1>2, <1>3, ResetTyped DEF LeadTypeOK

LEMMA ReturnTyped ==
  ASSUME LeadTypeOK, NEW d \in Dispatcher, RunReturns(d), lease' \in Lease \cup {None}
  PROVE  LeadTypeOK'
<1>1. CASE host[d] = Cli /\ Reset(d) /\ UNCHANGED ctlVars
  BY <1>1, ResetTyped DEF LeadTypeOK, ctlVars, fileVars
<1>2. CASE host[d] \in Controller /\ FinishGeneration(d, host[d])
  BY <1>2, FinishTyped
<1>3. CASE /\ phase' = [phase EXCEPT ![d] = "backoff"]
           /\ stamp' = [stamp EXCEPT ![d] = None]
           /\ lost' = [lost EXCEPT ![d] = FALSE]
           /\ late' = [late EXCEPT ![d] = FALSE]
           /\ UNCHANGED <<host, cancelled, config, ctlVars>>
  BY <1>3 DEF LeadTypeOK, ctlVars, fileVars, Phases
<1> QED BY <1>1, <1>2, <1>3 DEF RunReturns

LEMMA LaunchTyped ==
  ASSUME LeadTypeOK, NEW c \in Controller, NEW d \in Dispatcher, NEW cfg \in Config,
         Launch(c, d, cfg)
  PROVE  /\ host' \in [Dispatcher -> Controller \cup {Cli, None}]
         /\ phase' \in [Dispatcher -> Phases]
         /\ config' \in [Dispatcher -> Config \cup {None}]
         /\ current' \in [Controller -> Dispatcher \cup {None}]
         /\ desired' \in [Controller -> BOOLEAN]
         /\ UNCHANGED <<stamp, cancelled, lost, late>>
  BY DEF Launch, LeadTypeOK, Phases

LEMMA StartTyped ==
  ASSUME LeadTypeOK, NEW c \in Controller, NEW q \in Request, request[q].config \in Config,
         Start(c, q),
         lease' \in Lease \cup {None}, request' \in [Request -> Requests], saved' = saved
  PROVE  LeadTypeOK'
<1>1. CASE overtaken' = overtaken \ {q} /\ UNCHANGED <<slotVars, current, desired>>
  BY <1>1 DEF LeadTypeOK, slotVars
<1>2. ASSUME NEW d \in Dispatcher, Launch(c, d, request[q].config),
             overtaken' = (overtaken \ {q}) \cup {e \in {d} : q \in overtaken}
      PROVE  LeadTypeOK'
  BY <1>2, LaunchTyped DEF LeadTypeOK
<1> QED BY <1>1, <1>2 DEF Start

LEMMA StopTyped ==
  ASSUME LeadTypeOK, NEW c \in Controller, Stop(c),
         lease' \in Lease \cup {None}, request' \in [Request -> Requests],
         UNCHANGED fileVars
  PROVE  LeadTypeOK'
  BY DEF Stop, LeadTypeOK, fileVars

LEMMA SaveTyped ==
  ASSUME LeadTypeOK, NEW cfg \in Config, NEW restarted, Save(cfg, restarted)
  PROVE  saved' \in Config /\ overtaken' \in SUBSET (Dispatcher \cup Request)
  BY DEF Save, LeadTypeOK

-----------------------------------------------------------------------------
(* Type correctness.                                                        *)

LEMMA LeadTypeInit == LeadInit => LeadTypeOK
  BY LeadershipAssumption DEF LeadInit, LeadTypeOK, Phases, Requests, NoRequest

LEMMA ExtendedTyped ==
  ASSUME NEW age \in Age
  PROVE  Extended(age) \in (-MaxAge)..TTL /\ Extended(age) = TTL - age
  BY LeadershipAssumption DEF Age, Extended

LEMMA RunStepTyped ==
  ASSUME LeadTypeOK, ReadingHeld, NEW d \in Dispatcher, RunStep(d)
  PROVE  LeadTypeOK'
<1>1. CASE EnterRun(d)
  BY <1>1, LeadershipAssumption DEF EnterRun, LeadTypeOK, ctlVars, fileVars, Phases, Age
<1>2. CASE Acquire(d)
  <2>1. stamp[d] \in Age
    BY <1>2 DEF Acquire, LeadTypeOK, ReadingHeld
  <2>2. [owner |-> d, left |-> Extended(stamp[d])] \in Lease
    BY <2>1, ExtendedTyped DEF Lease
  <2> QED BY <1>2, <2>2 DEF Acquire, LeadTypeOK, ctlVars, fileVars, Phases
<1>3. CASE NotAcquired(d)
  BY <1>3, ReturnTyped DEF NotAcquired, LeadTypeOK
<1>4. CASE Renew(d)
  <2>1. stamp[d] \in Age /\ lease \in Lease
    BY <1>4 DEF Renew, LeadTypeOK, Owns
  <2>2. [lease EXCEPT !.left = Extended(stamp[d])] \in Lease
    BY <2>1, ExtendedTyped DEF Lease
  <2>3. PICK next \in {None} \cup 0..(stamp[d] - 1) : stamp' = [stamp EXCEPT ![d] = next]
    BY <1>4 DEF Renew
  <2>4. next \in Age \cup {None}
    BY <2>1, <2>3, LeadershipAssumption DEF Age
  <2> QED BY <1>4, <2>2, <2>3, <2>4 DEF Renew, LeadTypeOK, ctlVars, fileVars
<1>5. CASE LoseLease(d)
  BY <1>5 DEF LoseLease, LeadTypeOK, ctlVars, fileVars
<1>6. CASE Shutdown(d)
  BY <1>6 DEF Shutdown, LeadTypeOK, ctlVars, fileVars, Phases
<1>7. CASE Close(d)
  <2>1. lease' \in Lease \cup {None}
    BY <1>7, OrphanedRow DEF Close, LeadTypeOK
  <2> QED BY <1>7, <2>1, ReturnTyped DEF Close
<1>8. CASE BackoffEnds(d)
  BY <1>8 DEF BackoffEnds, LeadTypeOK, ctlVars, fileVars, Phases
<1>9. CASE GenerationEnds(d)
  BY <1>9, FinishTyped DEF GenerationEnds, LeadTypeOK
<1>10. CASE StartWatch(d)
  BY <1>10 DEF StartWatch, LeadTypeOK, ctlVars, fileVars, Phases
<1>11. CASE Interrupt(d)
  BY <1>11 DEF Interrupt, LeadTypeOK, ctlVars, fileVars
<1>12. CASE CrashWatch(d)
  <2>1. lease' \in Lease \cup {None}
    BY <1>12, OrphanedRow DEF CrashWatch, LeadTypeOK
  <2> QED BY <1>12, <2>1, ResetTyped DEF CrashWatch, LeadTypeOK, ctlVars, fileVars
<1> QED BY <1>1, <1>2, <1>3, <1>4, <1>5, <1>6, <1>7, <1>8, <1>9, <1>10, <1>11, <1>12
        DEF RunStep

LEMMA RequestStepTyped ==
  ASSUME LeadTypeOK, RequestKnown, NEW q \in Request, RequestStep(q)
  PROVE  LeadTypeOK'
<1>0. /\ NoRequest \in Requests /\ request[q] \in Requests
      /\ request' = [request EXCEPT ![q] = NoRequest] => request' \in [Request -> Requests]
  BY DEF NoRequest, Requests, LeadTypeOK
<1>1. ASSUME NEW c \in Controller, PutConfig(q, c) PROVE LeadTypeOK'
  <2>1. PICK cfg \in Config :
           /\ Save(cfg, {d \in Dispatcher : host[d] = c})
           /\ request' = [request EXCEPT ![q] = [host |-> c, config |-> cfg, step |-> "saved"]]
    BY <1>1 DEF PutConfig
  <2>2. request' \in [Request -> Requests]
    BY <2>1 DEF LeadTypeOK, Requests
  <2> QED BY <1>1, <2>1, <2>2, SaveTyped DEF PutConfig, LeadTypeOK, slotVars
<1>2. ASSUME NEW c \in Controller, PostStart(q, c) PROVE LeadTypeOK'
  <2>1. request' \in [Request -> Requests]
    BY <1>2 DEF PostStart, LeadTypeOK, Requests
  <2> QED BY <1>2, <2>1 DEF PostStart, LeadTypeOK, slotVars, fileVars
<1>3. CASE Apply(q)
  <2>1. request' \in [Request -> Requests]
    BY <1>0, <1>3 DEF Apply, Moves, LeadTypeOK, Requests
  <2>2. request[q].host \in Controller
    BY <1>3 DEF Apply, RequestKnown
  <2> QED BY <1>3, <2>1, <2>2, StopTyped DEF Apply, LeadTypeOK
<1>4. CASE Answer(q)
  <2>1. request' \in [Request -> Requests] /\ UNCHANGED <<lease, saved>>
    BY <1>0, <1>4 DEF Answer, Leaves
  <2>2. request[q].host \in Controller /\ request[q].config \in Config
    BY <1>4 DEF Answer, RequestKnown
  <2>3. CASE Start(request[q].host, q)
    BY <2>1, <2>2, <2>3, StartTyped DEF LeadTypeOK
  <2>4. CASE overtaken' = overtaken \ {q} /\ UNCHANGED <<slotVars, current, desired>>
    BY <2>1, <2>4 DEF LeadTypeOK, slotVars
  <2> QED BY <1>4, <2>3, <2>4 DEF Answer
<1>5. CASE TimeOut(q)
  BY <1>0, <1>5 DEF TimeOut, Leaves, LeadTypeOK, slotVars
<1> QED BY <1>1, <1>2, <1>3, <1>4, <1>5 DEF RequestStep

LEMMA ControllerStepTyped ==
  ASSUME LeadTypeOK, NEW c \in Controller, PostStop(c) \/ CrashController(c)
  PROVE  LeadTypeOK'
<1>1. CASE PostStop(c)
  BY <1>1, StopTyped DEF PostStop, LeadTypeOK
<1>2. CASE CrashController(c)
  <2>1. lease' \in Lease \cup {None}
    BY <1>2, OrphanedRow DEF CrashController, LeadTypeOK
  <2>2. request' \in [Request -> Requests]
    <3>1. NoRequest \in Requests
      BY DEF NoRequest, Requests
    <3> QED BY <1>2, <3>1 DEF CrashController, LeadTypeOK
  <2> QED BY <1>2, <2>1, <2>2 DEF CrashController, LeadTypeOK, Phases
<1> QED BY <1>1, <1>2

LEMMA WriteTyped ==
  ASSUME LeadTypeOK, WriteConfig
  PROVE  LeadTypeOK'
<1>1. PICK cfg \in Config : Save(cfg, {})
  BY DEF WriteConfig
<1> QED BY <1>1, SaveTyped DEF WriteConfig, LeadTypeOK, slotVars

LEMMA TickTyped ==
  ASSUME LeadTypeOK, Tick
  PROVE  LeadTypeOK'
<1>1. lease' \in Lease \cup {None}
  <2>1. CASE lease = None
    BY <2>1 DEF Tick
  <2>2. CASE lease # None
    <3>1. lease \in Lease /\ lease.left \in (-MaxAge)..TTL
      BY <2>2 DEF LeadTypeOK, Lease
    <3>2. (IF lease.left > -MaxAge THEN lease.left - 1 ELSE lease.left) \in (-MaxAge)..TTL
      BY <3>1, LeadershipAssumption
    <3>3. [lease EXCEPT !.left = IF @ > -MaxAge THEN @ - 1 ELSE @] \in Lease
      BY <3>1, <3>2 DEF Lease
    <3> QED BY <2>2, <3>3 DEF Tick
  <2> QED BY <2>1, <2>2
<1>2. \A d \in Dispatcher : Aged(d) \in Age \cup {None}
  BY LeadershipAssumption DEF Tick, Aged, Age, LeadTypeOK
<1> QED BY <1>1, <1>2 DEF Tick, LeadTypeOK, ctlVars, fileVars

-----------------------------------------------------------------------------
(* The clock readings, and the owner of the lease.                          *)

LEMMA ReadingStep ==
  ASSUME LeadTypeOK, ReadingHeld, LeadNext
  PROVE  ReadingHeld'
<1> SUFFICES ASSUME NEW e \in Dispatcher, phase'[e] = "acquiring"
             PROVE  stamp'[e] # None /\ (~ late'[e] => stamp'[e] = 0)
  BY DEF ReadingHeld
<1>0. /\ phase[e] = "acquiring" => stamp[e] # None
      /\ phase[e] = "acquiring" /\ ~ late[e] => stamp[e] = 0
      /\ 0 # None
  BY LeadershipAssumption DEF ReadingHeld
<1>1. ASSUME NEW d \in Dispatcher, Reset(d)
      PROVE  stamp'[e] # None /\ (~ late'[e] => stamp'[e] = 0)
  BY <1>0, <1>1 DEF Reset, LeadTypeOK
<1>2. ASSUME NEW d \in Dispatcher, RunReturns(d)
      PROVE  stamp'[e] # None /\ (~ late'[e] => stamp'[e] = 0)
  BY <1>0, <1>1, <1>2 DEF RunReturns, FinishGeneration, LeadTypeOK
<1>3. ASSUME NEW d \in Dispatcher, RunStep(d)
      PROVE  stamp'[e] # None /\ (~ late'[e] => stamp'[e] = 0)
  <2>1. CASE EnterRun(d)
    BY <1>0, <2>1 DEF EnterRun, LeadTypeOK
  <2>2. CASE Acquire(d)
    BY <1>0, <2>2 DEF Acquire, LeadTypeOK
  <2>3. CASE NotAcquired(d) \/ Close(d)
    BY <1>2, <2>3 DEF NotAcquired, Close
  <2>4. CASE Renew(d)
    <3>1. e # d /\ stamp'[e] = stamp[e]
      BY <2>4 DEF Renew, LeadTypeOK
    <3> QED BY <1>0, <2>4, <3>1 DEF Renew
  <2>5. CASE LoseLease(d) \/ Shutdown(d) \/ BackoffEnds(d) \/ StartWatch(d) \/ Interrupt(d)
    BY <1>0, <2>5 DEF LoseLease, Shutdown, BackoffEnds, StartWatch, Interrupt, LeadTypeOK
  <2>6. CASE GenerationEnds(d) \/ CrashWatch(d)
    BY <1>1, <2>6 DEF GenerationEnds, FinishGeneration, CrashWatch
  <2> QED BY <1>3, <2>1, <2>2, <2>3, <2>4, <2>5, <2>6 DEF RunStep
<1>4. ASSUME NEW q \in Request, RequestStep(q)
      PROVE  stamp'[e] # None /\ (~ late'[e] => stamp'[e] = 0)
  <2>1. ASSUME NEW c \in Controller, PutConfig(q, c) \/ PostStart(q, c)
        PROVE  stamp'[e] # None /\ (~ late'[e] => stamp'[e] = 0)
    BY <1>0, <2>1 DEF PutConfig, PostStart, slotVars
  <2>2. CASE Apply(q) \/ TimeOut(q)
    BY <1>0, <2>2 DEF Apply, TimeOut, Stop, slotVars
  <2>3. CASE Answer(q)
    BY <1>0, <2>3 DEF Answer, Start, Launch, slotVars, LeadTypeOK
  <2> QED BY <1>4, <2>1, <2>2, <2>3 DEF RequestStep
<1>6. ASSUME NEW c \in Controller, PostStop(c) \/ CrashController(c)
      PROVE  stamp'[e] # None /\ (~ late'[e] => stamp'[e] = 0)
  BY <1>0, <1>6 DEF PostStop, Stop, CrashController
<1>7. CASE WriteConfig
  BY <1>0, <1>7 DEF WriteConfig, slotVars
<1>5. CASE Tick
  <2>1. phase[e] = "acquiring" /\ stamp[e] # None
    BY <1>0, <1>5 DEF Tick
  <2>2. stamp[e] + 1 \in Int
    BY <2>1 DEF LeadTypeOK, Age
  <2>3. stamp'[e] = stamp[e] + 1 /\ late'[e]
    BY <1>5, <2>1 DEF Tick, Aged
  <2> QED BY <2>2, <2>3, LeadershipAssumption
<1> QED BY <1>3, <1>4, <1>5, <1>6, <1>7 DEF LeadNext

(* A slot that is given back, or whose leader ends, is not an undisturbed   *)
(* leader; the others keep the row when it is not theirs that goes.         *)
LEMMA OwnerKept ==
  ASSUME LeadTypeOK, OwnerOnTime, NEW e \in Dispatcher, Undisturbed(e)',
         Undisturbed(e), stamp'[e] = stamp[e], lease' = lease
  PROVE  /\ Owns(e)'
         /\ \/ stamp'[e] = None /\ lease'.left = TTL
            \/ stamp'[e] = 0 /\ lease'.left = TTL - 1
  BY DEF OwnerOnTime, Owns

LEMMA OwnerKeptByOrphaning ==
  ASSUME LeadTypeOK, OwnerOnTime, NEW e \in Dispatcher, Undisturbed(e),
         stamp'[e] = stamp[e], NEW gone \in SUBSET Dispatcher, e \notin gone,
         lease' = Orphaned(lease, gone)
  PROVE  /\ Owns(e)'
         /\ \/ stamp'[e] = None /\ lease'.left = TTL
            \/ stamp'[e] = 0 /\ lease'.left = TTL - 1
  BY OrphanedRow DEF OwnerOnTime, Owns, LeadTypeOK

LEMMA OwnerStep ==
  ASSUME LeadTypeOK, ReadingHeld, OwnerOnTime, LeadNext
  PROVE  OwnerOnTime'
<1> DEFINE Goal(e) == /\ Owns(e)'
                      /\ \/ stamp'[e] = None /\ lease'.left = TTL
                         \/ stamp'[e] = 0 /\ lease'.left = TTL - 1
<1> SUFFICES ASSUME NEW e \in Dispatcher, Undisturbed(e)'
             PROVE  Goal(e)
  BY DEF OwnerOnTime
<1>0. phase'[e] = "leading" /\ ~ cancelled'[e] /\ ~ lost'[e] /\ ~ late'[e]
  BY DEF Undisturbed
<1>1. ASSUME NEW d \in Dispatcher, Reset(d)
      PROVE  e # d /\ Undisturbed(e) /\ stamp'[e] = stamp[e]
  BY <1>0, <1>1 DEF Reset, LeadTypeOK, Undisturbed
<1>2. ASSUME NEW d \in Dispatcher, RunReturns(d)
      PROVE  e # d /\ Undisturbed(e) /\ stamp'[e] = stamp[e]
  BY <1>0, <1>1, <1>2 DEF RunReturns, FinishGeneration, LeadTypeOK, Undisturbed
<1>3. ASSUME NEW d \in Dispatcher, RunStep(d)
      PROVE  Goal(e)
  <2>1. CASE EnterRun(d)
    <3>1. Undisturbed(e) /\ stamp'[e] = stamp[e] /\ lease' = lease
      BY <1>0, <2>1 DEF EnterRun, LeadTypeOK, Undisturbed
    <3> QED BY <3>1, OwnerKept
  <2>2. CASE Acquire(d)
    <3>0. /\ stamp[d] \in Age
          /\ ~ late[d] => stamp[d] = 0
          /\ lease # None => lease.left + stamp[d] <= 0 /\ lease.left \in Int
      BY <2>2 DEF Acquire, ReadingHeld, LeadTypeOK, Acquirable, Expired, Lease
    <3>1. CASE e = d
      <4>1. stamp[d] = 0 /\ stamp'[d] = None
        BY <1>0, <2>2, <3>0, <3>1 DEF Acquire, LeadTypeOK
      <4>2. lease' = [owner |-> d, left |-> TTL]
        BY <2>2, <4>1, LeadershipAssumption DEF Acquire, Extended
      <4>3. [owner |-> d, left |-> TTL] # None
        BY NoLeaseHasNoOwner, LeadershipAssumption
      <4> QED BY <3>1, <4>1, <4>2, <4>3 DEF Owns
    <3>2. CASE e # d
      <4>1. Undisturbed(e)
        BY <1>0, <2>2, <3>2 DEF Acquire, LeadTypeOK, Undisturbed
      <4>2. Owns(e) /\ (lease.left = TTL \/ lease.left = TTL - 1)
        BY <4>1 DEF OwnerOnTime
      <4> QED BY <3>0, <4>2, LeadershipAssumption DEF Owns, Age
    <3> QED BY <3>1, <3>2
  <2>3. CASE NotAcquired(d)
    BY <1>2, <2>3, OwnerKept DEF NotAcquired
  <2>4. CASE Renew(d)
    <3>1. Undisturbed(e)
      BY <1>0, <2>4 DEF Renew, Undisturbed
    <3>2. e = d /\ stamp[d] = 0
      BY <2>4, <3>1 DEF Renew, OwnerOnTime, Owns
    <3>3. stamp'[d] = None
      <4>1. PICK next \in {None} \cup 0..(stamp[d] - 1) : stamp' = [stamp EXCEPT ![d] = next]
        BY <2>4 DEF Renew
      <4>2. next = None
        BY <3>2, <4>1
      <4> QED BY <4>1, <4>2 DEF LeadTypeOK
    <3>4. lease \in Lease
      BY <2>4 DEF Renew, Owns, LeadTypeOK
    <3>5. Extended(0) = TTL
      BY LeadershipAssumption DEF Extended
    <3>6. lease' = [owner |-> lease.owner, left |-> TTL]
      BY <2>4, <3>2, <3>4, <3>5 DEF Renew, Lease
    <3>7. [owner |-> lease.owner, left |-> TTL] # None
      BY <3>4, LeadershipAssumption DEF Lease
    <3> QED BY <2>4, <3>2, <3>3, <3>6, <3>7 DEF Renew, Owns
  <2>5. CASE LoseLease(d) \/ Shutdown(d) \/ BackoffEnds(d) \/ StartWatch(d) \/ Interrupt(d)
    <3>1. Undisturbed(e) /\ stamp'[e] = stamp[e] /\ lease' = lease
      BY <1>0, <2>5 DEF LoseLease, Shutdown, BackoffEnds, StartWatch, Interrupt, LeadTypeOK,
         Undisturbed
    <3> QED BY <3>1, OwnerKept
  <2>6. CASE GenerationEnds(d)
    BY <1>1, <2>6, OwnerKept DEF GenerationEnds, FinishGeneration
  <2>7. CASE Close(d)
    <3>1. e # d /\ Undisturbed(e) /\ stamp'[e] = stamp[e]
      BY <1>2, <2>7 DEF Close
    <3>2. ~ Owns(d)
      BY <3>1 DEF OwnerOnTime, Owns
    <3>3. lease' = lease \/ lease' = Orphaned(lease, {d})
      BY <2>7, <3>2 DEF Close
    <3> QED BY <3>1, <3>3, OwnerKept, OwnerKeptByOrphaning
  <2>8. CASE CrashWatch(d)
    <3>1. e # d /\ Undisturbed(e) /\ stamp'[e] = stamp[e]
      BY <1>1, <2>8 DEF CrashWatch
    <3> QED BY <2>8, <3>1, OwnerKeptByOrphaning DEF CrashWatch
  <2> QED BY <1>3, <2>1, <2>2, <2>3, <2>4, <2>5, <2>6, <2>7, <2>8 DEF RunStep
<1>4. ASSUME NEW q \in Request, RequestStep(q)
      PROVE  Goal(e)
  <2>1. ASSUME NEW c \in Controller, PutConfig(q, c) \/ PostStart(q, c)
        PROVE  Undisturbed(e) /\ stamp'[e] = stamp[e] /\ lease' = lease
    BY <1>0, <2>1 DEF PutConfig, PostStart, slotVars, Undisturbed
  <2>2. CASE Apply(q) \/ TimeOut(q)
    <3>1. Undisturbed(e) /\ stamp'[e] = stamp[e] /\ lease' = lease
      BY <1>0, <2>2 DEF Apply, TimeOut, Stop, slotVars, Undisturbed
    <3> QED BY <3>1, OwnerKept
  <2>3. CASE Answer(q)
    <3>1. Undisturbed(e) /\ stamp'[e] = stamp[e] /\ lease' = lease
      BY <1>0, <2>3 DEF Answer, Start, Launch, slotVars, LeadTypeOK, Undisturbed
    <3> QED BY <3>1, OwnerKept
  <2> QED BY <1>4, <2>1, <2>2, <2>3, OwnerKept DEF RequestStep
<1>6. ASSUME NEW c \in Controller, PostStop(c) \/ CrashController(c)
      PROVE  Goal(e)
  <2>1. CASE PostStop(c)
    <3>1. Undisturbed(e) /\ stamp'[e] = stamp[e] /\ lease' = lease
      BY <1>0, <2>1 DEF PostStop, Stop, Undisturbed
    <3> QED BY <3>1, OwnerKept
  <2>4. CASE CrashController(c)
    <3> DEFINE gone == {d \in Dispatcher : host[d] = c}
    <3>1. e \notin gone /\ Undisturbed(e) /\ stamp'[e] = stamp[e]
      BY <1>0, <2>4 DEF CrashController, Undisturbed
    <3>2. lease' = Orphaned(lease, gone)
      BY <2>4 DEF CrashController
    <3> HIDE DEF gone
    <3>3. gone \in SUBSET Dispatcher
      BY DEF gone
    <3> QED BY <3>1, <3>2, <3>3, OwnerKeptByOrphaning
  <2> QED BY <1>6, <2>1, <2>4
<1>7. CASE WriteConfig
  <2>1. Undisturbed(e) /\ stamp'[e] = stamp[e] /\ lease' = lease
    BY <1>0, <1>7 DEF WriteConfig, slotVars, Undisturbed
  <2> QED BY <2>1, OwnerKept
<1>5. CASE Tick
  <2>1. /\ Undisturbed(e) /\ stamp[e] = None
        /\ stamp'[e] = 0
    BY <1>0, <1>5 DEF Tick, Aged, LeadTypeOK, Undisturbed
  <2>2. Owns(e) /\ lease.left = TTL /\ lease \in Lease
    BY <2>1, LeadershipAssumption DEF OwnerOnTime, Owns, LeadTypeOK
  <2>3. lease' = [owner |-> e, left |-> TTL - 1]
    BY <1>5, <2>2, LeadershipAssumption DEF Tick, Owns, Lease
  <2>4. [owner |-> e, left |-> TTL - 1] # None
    BY NoLeaseHasNoOwner, LeadershipAssumption
  <2> QED BY <2>1, <2>3, <2>4 DEF Owns
<1> QED BY <1>3, <1>4, <1>5, <1>6, <1>7 DEF LeadNext

-----------------------------------------------------------------------------
(* The controller's generation, and the configuration it runs.              *)

\* A slot that somebody other than a controller has, or nobody, is not bound.
LEMMA HostsApart == Cli \notin Controller /\ None \notin Controller /\ None \notin Dispatcher
                     /\ None \notin Config
  BY LeadershipAssumption

LEMMA FinishKeeps ==
  ASSUME LeadTypeOK, OneGeneration, RequestKnown, FileConfig,
         NEW d \in Dispatcher, NEW c \in Controller, host[d] = c, FinishGeneration(d, c)
  PROVE  OneGeneration' /\ RequestKnown' /\ FileConfig'
<1>1. /\ host' = [host EXCEPT ![d] = None]
      /\ cancelled' = [cancelled EXCEPT ![d] = FALSE]
      /\ config' = [config EXCEPT ![d] = None]
      /\ saved' = saved
      /\ overtaken' = overtaken \ {d}
  BY DEF FinishGeneration, Reset
<1>2. current' = [current EXCEPT ![c] = None]
  BY DEF FinishGeneration, OneGeneration
<1>3. OneGeneration'
  BY <1>1, <1>2, HostsApart DEF OneGeneration, LeadTypeOK
<1>4. \A q \in Request :
         /\ request'[q].host = request[q].host
         /\ request'[q].config = request[q].config
         /\ \/ request'[q] = request[q]
            \/ request[q].step = "waiting" /\ request'[q].step = "stopped"
  BY FinishedRequests
<1>5. RequestKnown'
  BY <1>4 DEF RequestKnown
<1>6. \A a \in Controller : Carried(a)' => Carried(a)
  BY <1>4 DEF Carried
<1>7. ASSUME NEW e \in Dispatcher, host'[e] \in Controller, ~ cancelled'[e],
             e \notin overtaken', Carried(host[e])'
      PROVE  config'[e] = saved'
  <2>1. e # d
    BY <1>1, <1>7, HostsApart DEF LeadTypeOK
  <2>2. /\ host'[e] = host[e] /\ cancelled'[e] = cancelled[e] /\ config'[e] = config[e]
        /\ e \notin overtaken
    BY <1>1, <1>7, <2>1 DEF LeadTypeOK
  <2>3. Carried(host[e])
    BY <1>6, <1>7, <2>2 DEF Carried
  <2> QED BY <1>1, <1>7, <2>2, <2>3 DEF FileConfig
<1>8. ASSUME NEW q \in Request, request'[q] # NoRequest, q \notin overtaken'
      PROVE  request'[q].config = saved'
  <2>1. q \notin overtaken
    BY <1>1, <1>8, LeadershipAssumption
  <2>2. request[q] # NoRequest
    BY <1>4, <1>8 DEF NoRequest
  <2> QED BY <1>1, <1>4, <2>1, <2>2 DEF FileConfig
<1>9. FileConfig'
  BY <1>7, <1>8 DEF FileConfig, Carried
<1> QED BY <1>3, <1>5, <1>9

LEMMA BoundUnchanged ==
  ASSUME OneGeneration, RequestKnown, FileConfig,
         UNCHANGED <<host, cancelled, config, current, request, saved, overtaken>>
  PROVE  OneGeneration' /\ RequestKnown' /\ FileConfig'
  BY DEF OneGeneration, RequestKnown, FileConfig, Carried

\* What happens to the slots that no controller has does not matter here.
LEMMA OthersUnbound ==
  ASSUME OneGeneration, RequestKnown, FileConfig,
         UNCHANGED <<current, request, saved, overtaken>>,
         \A e \in Dispatcher : host'[e] \in Controller =>
             /\ host'[e] = host[e] /\ config'[e] = config[e]
             /\ cancelled[e] => cancelled'[e]
  PROVE  OneGeneration' /\ RequestKnown' /\ FileConfig'
<1>1. OneGeneration' /\ RequestKnown'
  BY DEF OneGeneration, RequestKnown
<1>2. ASSUME NEW e \in Dispatcher, host'[e] \in Controller, ~ cancelled'[e],
             e \notin overtaken', Carried(host[e])'
      PROVE  config'[e] = saved'
  <2>1. host'[e] = host[e] /\ config'[e] = config[e] /\ ~ cancelled[e]
    BY <1>2
  <2>2. Carried(host[e])
    BY <1>2, <2>1 DEF Carried
  <2> QED BY <1>2, <2>1, <2>2 DEF FileConfig
<1>3. FileConfig'
  BY <1>2 DEF FileConfig, Carried
<1> QED BY <1>1, <1>3

LEMMA ReturnKeeps ==
  ASSUME LeadTypeOK, OneGeneration, RequestKnown, FileConfig,
         NEW d \in Dispatcher, RunReturns(d)
  PROVE  OneGeneration' /\ RequestKnown' /\ FileConfig'
<1>1. CASE host[d] = Cli /\ Reset(d) /\ UNCHANGED ctlVars
  BY <1>1, HostsApart, OthersUnbound DEF Reset, ctlVars, fileVars, LeadTypeOK
<1>2. CASE host[d] \in Controller /\ FinishGeneration(d, host[d])
  BY <1>2, FinishKeeps
<1>3. CASE UNCHANGED <<host, cancelled, config, ctlVars>>
  BY <1>3, BoundUnchanged DEF ctlVars, fileVars
<1> QED BY <1>1, <1>2, <1>3 DEF RunReturns

LEMMA RunStepKeeps ==
  ASSUME LeadTypeOK, OneGeneration, RequestKnown, FileConfig,
         NEW d \in Dispatcher, RunStep(d)
  PROVE  OneGeneration' /\ RequestKnown' /\ FileConfig'
<1>1. CASE EnterRun(d) \/ Acquire(d) \/ Renew(d) \/ LoseLease(d) \/ Shutdown(d) \/ BackoffEnds(d)
  BY <1>1, BoundUnchanged
     DEF EnterRun, Acquire, Renew, LoseLease, Shutdown, BackoffEnds, ctlVars, fileVars
<1>2. CASE NotAcquired(d) \/ Close(d)
  BY <1>2, ReturnKeeps DEF NotAcquired, Close
<1>3. CASE GenerationEnds(d)
  BY <1>3, FinishKeeps DEF GenerationEnds
<1>4. CASE StartWatch(d)
  BY <1>4, HostsApart, OthersUnbound DEF StartWatch, ctlVars, fileVars, LeadTypeOK
<1>5. CASE Interrupt(d)
  BY <1>5, OthersUnbound DEF Interrupt, ctlVars, fileVars, LeadTypeOK
<1>6. CASE CrashWatch(d)
  BY <1>6, HostsApart, OthersUnbound DEF CrashWatch, Reset, ctlVars, fileVars, LeadTypeOK
<1> QED BY <1>1, <1>2, <1>3, <1>4, <1>5, <1>6 DEF RunStep

\* A request that has nothing left to carry leaves.
LEMMA LeavingCarries ==
  ASSUME LeadTypeOK, RequestKnown, NEW q \in Request, request[q].step # "saved", Leaves(q)
  PROVE  /\ RequestKnown'
         /\ \A c \in Controller : Carried(c)' => Carried(c)
         /\ \A p \in Request : request'[p] # NoRequest => p # q /\ request'[p] = request[p]
<1>1. request' = [request EXCEPT ![q] = NoRequest] /\ request \in [Request -> Requests]
  BY DEF Leaves, LeadTypeOK
<1>2. RequestKnown'
  BY <1>1 DEF RequestKnown, NoRequest
<1>3. ASSUME NEW c \in Controller, Carried(c)' PROVE Carried(c)
  BY <1>1, <1>3 DEF Carried
<1> QED BY <1>1, <1>2, <1>3

LEMMA LeaveKeeps ==
  ASSUME LeadTypeOK, OneGeneration, RequestKnown, FileConfig, NEW q \in Request,
         request[q].step # "saved", Leaves(q), saved' = saved,
         overtaken' = overtaken \ {q}, UNCHANGED slotVars, current' = current
  PROVE  OneGeneration' /\ RequestKnown' /\ FileConfig'
<1>1. /\ RequestKnown'
      /\ \A a \in Controller : Carried(a)' => Carried(a)
      /\ \A p \in Request : request'[p] # NoRequest => p # q /\ request'[p] = request[p]
  BY LeavingCarries
<1>2. OneGeneration' /\ UNCHANGED <<host, cancelled, config>>
  BY DEF slotVars, OneGeneration
<1>3. ASSUME NEW e \in Dispatcher, host'[e] \in Controller, ~ cancelled'[e],
             e \notin overtaken', Carried(host[e])'
      PROVE  config'[e] = saved'
  <2>1. e \notin overtaken
    BY <1>3, LeadershipAssumption
  <2>2. Carried(host[e])
    BY <1>1, <1>2, <1>3 DEF Carried
  <2> QED BY <1>2, <1>3, <2>1, <2>2 DEF FileConfig
<1>4. ASSUME NEW p \in Request, request'[p] # NoRequest, p \notin overtaken'
      PROVE  request'[p].config = saved'
  BY <1>1, <1>4 DEF FileConfig
<1> QED BY <1>1, <1>2, <1>3, <1>4 DEF FileConfig, Carried

\* A start binds a controller that was not bound to a generation on the file,
\* or to one that has been overtaken with its request.
LEMMA StartKeeps ==
  ASSUME LeadTypeOK, OneGeneration, RequestKnown, FileConfig, NEW c \in Controller,
         NEW q \in Request, request[q].step \in {"loaded", "stopped"},
         Start(c, q), Leaves(q), saved' = saved
  PROVE  OneGeneration' /\ RequestKnown' /\ FileConfig'
<1>0. /\ RequestKnown'
      /\ \A a \in Controller : Carried(a)' => Carried(a)
      /\ \A p \in Request : request'[p] # NoRequest => p # q /\ request'[p] = request[p]
  BY LeavingCarries
<1>00. request[q] # NoRequest /\ q \notin Dispatcher
  BY LeadershipAssumption DEF NoRequest
<1>1. CASE overtaken' = overtaken \ {q} /\ UNCHANGED <<slotVars, current, desired>>
  BY <1>1, LeaveKeeps
<1>2. ASSUME NEW d \in Dispatcher, current[c] = None, Launch(c, d, request[q].config),
             overtaken' = (overtaken \ {q}) \cup {e \in {d} : q \in overtaken}
      PROVE  OneGeneration' /\ RequestKnown' /\ FileConfig'
  <2>1. /\ host' = [host EXCEPT ![d] = c]
        /\ current' = [current EXCEPT ![c] = d]
        /\ config' = [config EXCEPT ![d] = request[q].config]
        /\ cancelled' = cancelled
    BY <1>2 DEF Launch
  <2>2. \A e \in Dispatcher : host[e] # c
    BY <1>2, HostsApart DEF OneGeneration
  <2>3. OneGeneration'
    BY <2>1, <2>2 DEF OneGeneration, LeadTypeOK
  <2>4. ASSUME NEW e \in Dispatcher, host'[e] \in Controller, ~ cancelled'[e],
               e \notin overtaken', Carried(host[e])'
        PROVE  config'[e] = saved'
    <3>1. CASE e = d
      <4>1. q \notin overtaken
        BY <1>2, <2>4, <3>1
      <4>2. request[q].config = saved
        BY <1>00, <4>1 DEF FileConfig
      <4> QED BY <2>1, <3>1, <4>2 DEF LeadTypeOK
    <3>2. CASE e # d
      <4>1. host'[e] = host[e] /\ config'[e] = config[e] /\ ~ cancelled[e] /\ e \notin overtaken
        BY <1>00, <1>2, <2>1, <2>4, <3>2 DEF LeadTypeOK
      <4>2. Carried(host[e])
        BY <1>0, <2>4, <4>1 DEF Carried
      <4> QED BY <2>4, <4>1, <4>2 DEF FileConfig
    <3> QED BY <3>1, <3>2
  <2>5. ASSUME NEW p \in Request, request'[p] # NoRequest, p \notin overtaken'
        PROVE  request'[p].config = saved'
    BY <1>0, <1>2, <2>5 DEF FileConfig
  <2> QED BY <1>0, <2>3, <2>4, <2>5 DEF FileConfig, Carried
<1> QED BY <1>1, <1>2 DEF Start

\* A write of the file overtakes all but the generations of one controller.
LEMMA SaveOvertakes ==
  ASSUME LeadTypeOK, NEW cfg \in Config, NEW restarted, Save(cfg, restarted)
  PROVE  /\ saved' = cfg
         /\ \A q \in Request : request[q] # NoRequest => q \in overtaken'
         /\ \A d \in Dispatcher : host[d] \in Controller /\ d \notin restarted
                                  => d \in overtaken'
  BY DEF Save

LEMMA PutKeeps ==
  ASSUME LeadTypeOK, OneGeneration, RequestKnown, FileConfig, NEW c \in Controller,
         NEW q \in Request, PutConfig(q, c)
  PROVE  OneGeneration' /\ RequestKnown' /\ FileConfig'
<1>1. PICK cfg \in Config :
         /\ Save(cfg, {d \in Dispatcher : host[d] = c})
         /\ request' = [request EXCEPT ![q] = [host |-> c, config |-> cfg, step |-> "saved"]]
  BY DEF PutConfig
<1>2. UNCHANGED <<host, cancelled, config, current>>
  BY DEF PutConfig, slotVars
<1>3. request'[q] = [host |-> c, config |-> cfg, step |-> "saved"]
      /\ \A p \in Request \ {q} : request'[p] = request[p]
  BY <1>1 DEF LeadTypeOK
<1>4. OneGeneration' /\ RequestKnown'
  BY <1>2, <1>3 DEF OneGeneration, RequestKnown
<1>5. ASSUME NEW e \in Dispatcher, host'[e] \in Controller, ~ cancelled'[e],
             e \notin overtaken', Carried(host[e])'
      PROVE  config'[e] = saved'
  <2>1. host'[e] # c
    BY <1>3, <1>5 DEF Carried
  <2> QED BY <1>1, <1>2, <1>5, <2>1, SaveOvertakes
<1>6. ASSUME NEW p \in Request, request'[p] # NoRequest, p \notin overtaken'
      PROVE  request'[p].config = saved'
  BY <1>1, <1>3, <1>6, SaveOvertakes
<1> QED BY <1>4, <1>5, <1>6 DEF FileConfig, Carried

LEMMA WriteKeeps ==
  ASSUME LeadTypeOK, OneGeneration, RequestKnown, FileConfig, WriteConfig
  PROVE  OneGeneration' /\ RequestKnown' /\ FileConfig'
<1>1. PICK cfg \in Config : Save(cfg, {})
  BY DEF WriteConfig
<1>2. UNCHANGED <<host, cancelled, config, current, request>>
  BY DEF WriteConfig, slotVars
<1>3. OneGeneration' /\ RequestKnown'
  BY <1>2 DEF OneGeneration, RequestKnown
<1>4. \A d \in Dispatcher : host'[d] \in Controller => d \in overtaken'
  BY <1>1, <1>2, SaveOvertakes
<1>5. \A q \in Request : request'[q] # NoRequest => q \in overtaken'
  BY <1>1, <1>2, SaveOvertakes
<1> QED BY <1>3, <1>4, <1>5 DEF FileConfig

\* A stop leaves its controller nothing that was not told to stop.
LEMMA StopKeeps ==
  ASSUME LeadTypeOK, OneGeneration, NEW c \in Controller, Stop(c)
  PROVE  /\ UNCHANGED <<host, config, current>>
         /\ OneGeneration'
         /\ \A e \in Dispatcher : ~ cancelled'[e] => ~ cancelled[e] /\ host[e] # c
  BY DEF Stop, OneGeneration

LEMMA ApplyKeeps ==
  ASSUME LeadTypeOK, OneGeneration, RequestKnown, FileConfig, NEW q \in Request, Apply(q)
  PROVE  OneGeneration' /\ RequestKnown' /\ FileConfig'
<1> DEFINE c == request[q].host
<1>1. c \in Controller /\ request[q].config \in Config
  BY DEF Apply, RequestKnown
<1>2. /\ UNCHANGED <<host, config, current, saved, overtaken>>
      /\ OneGeneration'
      /\ \A e \in Dispatcher : ~ cancelled'[e] => ~ cancelled[e] /\ host[e] # c
  BY <1>1, StopKeeps DEF Apply, fileVars
<1>3. PICK step \in {"stopped", "waiting"} : request' = [request EXCEPT ![q].step = step]
  BY DEF Apply, Moves
<1>4. /\ request'[q].host = c /\ request'[q].config = request[q].config
      /\ request'[q].step = step
      /\ \A p \in Request \ {q} : request'[p] = request[p]
  BY <1>3 DEF LeadTypeOK, Requests
<1>5. RequestKnown'
  BY <1>1, <1>4 DEF RequestKnown
<1>6. ASSUME NEW e \in Dispatcher, host'[e] \in Controller, ~ cancelled'[e],
             e \notin overtaken', Carried(host[e])'
      PROVE  config'[e] = saved'
  <2>1. host[e] # c /\ host'[e] = host[e]
    BY <1>2, <1>6
  <2>2. Carried(host[e])
    BY <1>4, <1>6, <2>1 DEF Carried
  <2> QED BY <1>2, <1>6, <2>1, <2>2 DEF FileConfig
<1>7. ASSUME NEW p \in Request, request'[p] # NoRequest, p \notin overtaken'
      PROVE  request'[p].config = saved'
  <2>1. request[q] # NoRequest
    BY DEF Apply, NoRequest
  <2> QED BY <1>2, <1>4, <1>7, <2>1 DEF FileConfig
<1> QED BY <1>2, <1>5, <1>6, <1>7 DEF FileConfig, Carried

LEMMA RequestStepKeeps ==
  ASSUME LeadTypeOK, OneGeneration, RequestKnown, FileConfig, NEW q \in Request, RequestStep(q)
  PROVE  OneGeneration' /\ RequestKnown' /\ FileConfig'
<1>1. ASSUME NEW c \in Controller, PutConfig(q, c)
      PROVE  OneGeneration' /\ RequestKnown' /\ FileConfig'
  BY <1>1, PutKeeps
<1>2. ASSUME NEW c \in Controller, PostStart(q, c)
      PROVE  OneGeneration' /\ RequestKnown' /\ FileConfig'
  <2>1. /\ request'[q] = [host |-> c, config |-> saved, step |-> "loaded"]
        /\ \A p \in Request \ {q} : request'[p] = request[p]
        /\ request[q].host = None
    BY <1>2 DEF PostStart, LeadTypeOK, NoRequest
  <2>2. UNCHANGED <<host, cancelled, config, current, saved, overtaken>>
    BY <1>2 DEF PostStart, slotVars, fileVars
  <2>3. OneGeneration' /\ RequestKnown'
    BY <2>1, <2>2 DEF OneGeneration, RequestKnown, LeadTypeOK
  <2>4. \A a \in Controller : Carried(a)' => Carried(a)
    BY <2>1, HostsApart DEF Carried
  <2>5. ASSUME NEW e \in Dispatcher, host'[e] \in Controller, ~ cancelled'[e],
               e \notin overtaken', Carried(host[e])'
        PROVE  config'[e] = saved'
    <3>1. Carried(host[e])
      BY <2>2, <2>4, <2>5 DEF Carried
    <3> QED BY <2>2, <2>5, <3>1 DEF FileConfig
  <2>6. ASSUME NEW p \in Request, request'[p] # NoRequest, p \notin overtaken'
        PROVE  request'[p].config = saved'
    BY <2>1, <2>2, <2>6 DEF FileConfig
  <2> QED BY <2>3, <2>5, <2>6 DEF FileConfig, Carried
<1>3. CASE Apply(q)
  BY <1>3, ApplyKeeps
<1>4. CASE Answer(q)
  <2>1. /\ request[q].step \in {"loaded", "stopped"} /\ Leaves(q) /\ saved' = saved
        /\ request[q].host \in Controller
    BY <1>4 DEF Answer, RequestKnown
  <2>2. CASE Start(request[q].host, q)
    BY <2>1, <2>2, StartKeeps
  <2>3. CASE overtaken' = overtaken \ {q} /\ UNCHANGED <<slotVars, current, desired>>
    BY <2>1, <2>3, LeaveKeeps
  <2> QED BY <1>4, <2>2, <2>3 DEF Answer
<1>5. CASE TimeOut(q)
  BY <1>5, LeaveKeeps DEF TimeOut
<1> QED BY <1>1, <1>2, <1>3, <1>4, <1>5 DEF RequestStep

LEMMA ControllerStepKeeps ==
  ASSUME LeadTypeOK, OneGeneration, RequestKnown, FileConfig, NEW c \in Controller,
         PostStop(c) \/ CrashController(c)
  PROVE  OneGeneration' /\ RequestKnown' /\ FileConfig'
<1>1. CASE PostStop(c)
  <2>1. /\ UNCHANGED <<host, config, current, request, saved, overtaken>>
        /\ \A e \in Dispatcher : ~ cancelled'[e] => ~ cancelled[e]
    BY <1>1, StopKeeps DEF PostStop, fileVars
  <2> QED BY <2>1, OthersUnbound
<1>2. CASE CrashController(c)
  <2>1. /\ current' = [current EXCEPT ![c] = None]
        /\ saved' = saved
        /\ \A q \in Request : request'[q] = IF request[q].host = c THEN NoRequest ELSE request[q]
        /\ overtaken' = overtaken \ ({d \in Dispatcher : host[d] = c}
                                        \cup {q \in Request : request[q].host = c})
    BY <1>2 DEF CrashController
  <2>0. \A d \in Dispatcher :
           /\ host'[d] = IF host[d] = c THEN None ELSE host[d]
           /\ host[d] # c => config'[d] = config[d] /\ cancelled'[d] = cancelled[d]
    <3>1. cancelled \in [Dispatcher -> BOOLEAN]
      BY DEF LeadTypeOK
    <3> QED BY <1>2, <3>1 DEF CrashController
  <2>2. OneGeneration'
    BY <2>0, <2>1, HostsApart DEF OneGeneration, LeadTypeOK
  <2>3. RequestKnown'
    BY <2>1 DEF RequestKnown, NoRequest
  <2>4. ASSUME NEW e \in Dispatcher, host'[e] \in Controller, ~ cancelled'[e],
               e \notin overtaken', Carried(host[e])'
        PROVE  config'[e] = saved'
    <3>1. host[e] # c /\ host'[e] = host[e] /\ config'[e] = config[e] /\ ~ cancelled[e]
      BY <2>0, <2>4, HostsApart
    <3>2. e \notin overtaken
      BY <2>1, <2>4, <3>1, LeadershipAssumption
    <3>3. Carried(host[e])
      BY <2>1, <2>4, <3>1 DEF Carried
    <3> QED BY <2>1, <2>4, <3>1, <3>2, <3>3 DEF FileConfig
  <2>5. ASSUME NEW p \in Request, request'[p] # NoRequest, p \notin overtaken'
        PROVE  request'[p].config = saved'
    <3>1. request[p].host # c /\ request'[p] = request[p]
      BY <2>1, <2>5
    <3>2. p \notin overtaken
      BY <2>1, <2>5, <3>1, LeadershipAssumption
    <3> QED BY <2>1, <2>5, <3>1, <3>2 DEF FileConfig
  <2> QED BY <2>2, <2>3, <2>4, <2>5 DEF FileConfig, Carried
<1> QED BY <1>1, <1>2

-----------------------------------------------------------------------------
(* The invariant, and what follows from it.                                 *)

LEMMA LeadInvInit == LeadInit => LeadIInv
<1> SUFFICES ASSUME LeadInit PROVE LeadIInv
  OBVIOUS
<1>1. LeadTypeOK
  BY LeadTypeInit
<1>2. ReadingHeld /\ OwnerOnTime
  BY DEF LeadInit, ReadingHeld, OwnerOnTime, Undisturbed
<1>3. OneGeneration /\ RequestKnown /\ FileConfig
  BY HostsApart DEF LeadInit, OneGeneration, RequestKnown, FileConfig, NoRequest
<1> QED BY <1>1, <1>2, <1>3 DEF LeadIInv

LEMMA LeadInvNext == LeadIInv /\ [LeadNext]_leadVars => LeadIInv'
<1> SUFFICES ASSUME LeadIInv, [LeadNext]_leadVars PROVE LeadIInv'
  OBVIOUS
<1>0. /\ LeadTypeOK /\ ReadingHeld /\ OwnerOnTime /\ OneGeneration
      /\ RequestKnown /\ FileConfig
  BY DEF LeadIInv
<1>1. CASE UNCHANGED leadVars
  BY <1>0, <1>1 DEF leadVars, slotVars, ctlVars, fileVars, LeadIInv, LeadTypeOK, ReadingHeld,
     OwnerOnTime, OneGeneration, RequestKnown, FileConfig, Carried, Undisturbed, Owns
<1>2. CASE LeadNext
  <2>1. LeadTypeOK'
    BY <1>0, <1>2, RunStepTyped, RequestStepTyped, ControllerStepTyped, WriteTyped, TickTyped
       DEF LeadNext
  <2>2. OneGeneration' /\ RequestKnown' /\ FileConfig'
    <3>1. CASE Tick
      BY <1>0, <3>1, BoundUnchanged DEF Tick, ctlVars, fileVars
    <3> QED BY <1>0, <1>2, <3>1, RunStepKeeps, RequestStepKeeps, ControllerStepKeeps, WriteKeeps
            DEF LeadNext
  <2> QED BY <1>0, <1>2, <2>1, <2>2, ReadingStep, OwnerStep DEF LeadIInv
<1> QED BY <1>1, <1>2

LEMMA LeadInvHolds == LeadSpec => []LeadIInv
  BY LeadInvInit, LeadInvNext, PTL DEF LeadSpec

(* The lease row, the loops and the controllers keep their types.           *)
THEOREM LeadTypeCorrect == LeadSpec => []LeadTypeOK
<1>1. LeadIInv => LeadTypeOK
  BY DEF LeadIInv
<1> QED BY <1>1, LeadInvHolds, PTL

(* At most one dispatcher that was never late supervises, for any number of *)
(* hosts, crashes, restarts and delays and any life of the lease.           *)
THEOREM SupervisesAlone == LeadSpec => []OneSupervisor
<1>1. LeadIInv => OneSupervisor
  BY DEF LeadIInv, OwnerOnTime, OneSupervisor, Owns
<1> QED BY <1>1, LeadInvHolds, PTL

(* A controller never has two generations, nor one it has forgotten.        *)
THEOREM GenerationKnown == LeadSpec => []OneGeneration
<1>1. LeadIInv => OneGeneration
  BY DEF LeadIInv
<1> QED BY <1>1, LeadInvHolds, PTL

(* Once every configuration saved through a controller has been carried to  *)
(* it, its generation runs the file's configuration unless it was told to   *)
(* stop or overtaken: for any number of controllers, concurrent requests    *)
(* and writers of the file.                                                 *)
THEOREM SavedConfigRuns == LeadSpec => []RunsSavedConfig
<1>1. LeadIInv => RunsSavedConfig
  BY DEF LeadIInv, FileConfig, Carried, RunsSavedConfig
<1> QED BY <1>1, LeadInvHolds, PTL

LEMMA LeaseStep ==
  ASSUME LeadTypeOK, ReadingHeld, LeadNext, lease # None, lease.left > 0
  PROVE  \/ lease' # None /\ lease'.owner \in {lease.owner, None}
         \/ /\ lease' = None
            /\ \E d \in Dispatcher : Owns(d) /\ phase[d] = "draining"
<1> DEFINE Goal == \/ lease' # None /\ lease'.owner \in {lease.owner, None}
                   \/ /\ lease' = None
                      /\ \E d \in Dispatcher : Owns(d) /\ phase[d] = "draining"
<1>0. lease \in Lease
  BY DEF LeadTypeOK
<1>1. lease' = lease => Goal
  OBVIOUS
<1>2. ASSUME NEW gone \in SUBSET Dispatcher, lease' = Orphaned(lease, gone) PROVE Goal
  BY <1>2, OrphanedRow DEF LeadTypeOK
<1>3. ASSUME NEW n \in Int, lease' = [lease EXCEPT !.left = n] PROVE Goal
  <2>1. lease' = [owner |-> lease.owner, left |-> n] /\ lease.owner \in Dispatcher \cup {None}
    BY <1>0, <1>3 DEF Lease
  <2>2. [owner |-> lease.owner, left |-> n] # None
    BY <2>1, LeadershipAssumption
  <2> QED BY <2>1, <2>2
<1>4. ASSUME NEW d \in Dispatcher, RunStep(d) PROVE Goal
  <2>1. CASE Acquire(d)
    <3>1. stamp[d] \in Age /\ lease.left + stamp[d] <= 0 /\ lease.left \in Int
      BY <1>0, <2>1 DEF Acquire, Acquirable, Expired, ReadingHeld, LeadTypeOK, Lease
    <3> QED BY <3>1, LeadershipAssumption DEF Age
  <2>2. CASE Renew(d)
    <3>1. stamp[d] \in Age
      BY <2>2 DEF Renew, LeadTypeOK
    <3>2. Extended(stamp[d]) \in Int
      BY <3>1, ExtendedTyped, LeadershipAssumption
    <3> QED BY <1>3, <2>2, <3>2 DEF Renew
  <2>3. CASE Close(d)
    <3>1. CASE lease' = None /\ Owns(d)
      BY <2>3, <3>1 DEF Close
    <3>2. CASE lease' = lease \/ lease' = Orphaned(lease, {d})
      BY <1>1, <1>2, <3>2
    <3> QED BY <2>3, <3>1, <3>2 DEF Close
  <2>4. CASE CrashWatch(d)
    BY <1>2, <2>4 DEF CrashWatch
  <2>5. CASE lease' = lease
    BY <1>1, <2>5
  <2> QED BY <1>4, <2>1, <2>2, <2>3, <2>4, <2>5
          DEF RunStep, EnterRun, NotAcquired, LoseLease, Shutdown, BackoffEnds,
              GenerationEnds, StartWatch, Interrupt
<1>5. ASSUME NEW q \in Request, RequestStep(q) PROVE Goal
  BY <1>1, <1>5 DEF RequestStep, PutConfig, PostStart, Apply, Answer, TimeOut
<1>7. ASSUME NEW c \in Controller, PostStop(c) \/ CrashController(c) PROVE Goal
  <2>1. CASE CrashController(c)
    <3> DEFINE gone == {d \in Dispatcher : host[d] = c}
    <3>1. gone \in SUBSET Dispatcher /\ lease' = Orphaned(lease, gone)
      BY <2>1 DEF CrashController
    <3> HIDE DEF gone
    <3> QED BY <1>2, <3>1
  <2>2. CASE PostStop(c)
    BY <1>1, <2>2 DEF PostStop
  <2> QED BY <1>7, <2>1, <2>2
<1>8. CASE WriteConfig
  BY <1>1, <1>8 DEF WriteConfig
<1>6. CASE Tick
  <2>1. lease.left \in Int /\ MaxAge \in Int
    BY <1>0, LeadershipAssumption DEF Lease
  <2>2. (IF lease.left > -MaxAge THEN lease.left - 1 ELSE lease.left) \in Int
    BY <2>1
  <2>3. lease' = [lease EXCEPT !.left =
                     IF lease.left > -MaxAge THEN lease.left - 1 ELSE lease.left]
    BY <1>6 DEF Tick
  <2> QED BY <1>3, <2>2, <2>3
<1> QED BY <1>4, <1>5, <1>6, <1>7, <1>8 DEF LeadNext

(* A lease with time left leaves its owner only by the owner's own release: *)
(* nobody takes it over early and a replaced dispatcher releases nothing.   *)
THEOREM NoTheft == LeadSpec => LeaseNotStolen
<1>1. LeadIInv /\ [LeadNext]_leadVars =>
        [ lease # None /\ lease.left > 0
          => \/ lease' # None /\ lease'.owner \in {lease.owner, None}
             \/ /\ lease' = None
                /\ \E d \in Dispatcher : Owns(d) /\ phase[d] = "draining"
        ]_leadVars
  BY LeaseStep DEF LeadIInv
<1> QED BY <1>1, LeadInvHolds, PTL DEF LeadSpec, LeaseNotStolen

-----------------------------------------------------------------------------
(* Files and rows.                                                          *)

Calls == [step : {"none", "checked", "copied", "placed", "done", "failed", "crashed"},
          task : Task \cup {Null}]

FileTypes ==
    /\ status \in [Task -> {"none", "open", "archived", "deleted"}]
    /\ rows \subseteq File
    /\ temporary \subseteq File
    /\ placed \subseteq File
    /\ attach \in [File -> Calls]
    /\ removal \in [File -> {"none", "read", "row deleted"}]
    /\ clearing \subseteq Task
    /\ left \subseteq File

\* Where the file of a call is at each of its steps; a removal is of a file
\* that was attached, and deletes its row once; nobody forgets a file.
FileOK(f) ==
    /\ attach[f].step # "none" => attach[f].task \in Task /\ status[attach[f].task] # "none"
    /\ f \in temporary => \/ attach[f].step = "copied"
                          \/ attach[f].step = "crashed" /\ f \in left
    /\ attach[f].step = "placed" /\ Exists(attach[f].task) => f \in placed
    /\ f \in rows => attach[f].step = "done" /\ Exists(attach[f].task) /\ f \in placed
    /\ removal[f] # "none" => attach[f].step = "done"
    /\ removal[f] = "row deleted" => f \notin rows
    /\ f \in (temporary \cup placed) \ rows =>
         \/ Unattached(f) \/ removal[f] = "row deleted"
         \/ attach[f].task \in clearing \/ f \in left

FilesInv ==
    /\ FileTypes
    /\ \A f \in File : FileOK(f)
    /\ \A t \in clearing : status[t] = "deleted"

LEMMA FilesInit == Init => FilesInv
  BY DEF Init, FilesInv, FileTypes, Calls, NoCall, FileOK, Unattached

\* What is said of a file stands while nothing of it changes.
LEMMA FileKept ==
  ASSUME NEW f \in File, FileOK(f),
         attach'[f] = attach[f], removal'[f] = removal[f], status' = status, clearing' = clearing,
         f \in temporary' <=> f \in temporary, f \in placed' <=> f \in placed,
         f \in rows' <=> f \in rows, f \in left => f \in left'
  PROVE  FileOK(f)'
  BY DEF FileOK, Exists, Unattached

\* A step of a call changes that call's step and nothing else of any call.
LEMMA StepTaken ==
  ASSUME FileTypes, NEW f \in File,
         NEW s \in {"checked", "copied", "placed", "done", "failed", "crashed"},
         attach' = [attach EXCEPT ![f].step = s]
  PROVE  /\ attach' \in [File -> Calls]
         /\ attach'[f].step = s /\ attach'[f].task = attach[f].task
         /\ \A g \in File : g # f => attach'[g] = attach[g]
<1>1. attach[f] \in Calls
  BY DEF FileTypes
<1> DEFINE call == [attach[f] EXCEPT !.step = s]
<1>2. call \in Calls /\ call.step = s /\ call.task = attach[f].task
  BY <1>1 DEF Calls
<1>3. attach' = [attach EXCEPT ![f] = call]
  OBVIOUS
<1> HIDE DEF call
<1> QED BY <1>2, <1>3 DEF FileTypes

LEMMA AttachKeeps ==
  ASSUME FilesInv, NEW f \in File,
         CopyFile(f) \/ PlaceFile(f) \/ RecordFile(f) \/ AttachFails(f) \/ AttachCrashes(f)
  PROVE  FilesInv'
<1>0. FileTypes /\ FileOK(f) /\ \A t \in clearing : status[t] = "deleted"
  BY DEF FilesInv
<1>s. PICK s \in {"copied", "placed", "done", "failed", "crashed"} :
         attach' = [attach EXCEPT ![f].step = s]
  BY DEF CopyFile, PlaceFile, RecordFile, AttachFails, AttachCrashes
<1>c. /\ attach' \in [File -> Calls]
      /\ attach'[f].step = s /\ attach'[f].task = attach[f].task
      /\ \A g \in File : g # f => attach'[g] = attach[g]
  BY <1>0, <1>s, StepTaken
<1>u. status' = status /\ removal' = removal /\ clearing' = clearing
  BY DEF CopyFile, PlaceFile, RecordFile, AttachFails, AttachCrashes
<1>g. ASSUME NEW g \in File, g # f
      PROVE  /\ g \in temporary' <=> g \in temporary
             /\ g \in placed' <=> g \in placed
             /\ g \in rows' <=> g \in rows
             /\ g \in left => g \in left'
  BY <1>g DEF CopyFile, PlaceFile, RecordFile, AttachFails, AttachCrashes
<1>1. ASSUME NEW g \in File, g # f PROVE FileOK(g)'
  BY <1>1, <1>c, <1>u, <1>g, FileKept DEF FilesInv
<1>2. FileOK(f)'
  <2>1. CASE CopyFile(f)
    <3>1. attach'[f].step = "copied" /\ attach[f].step = "checked"
      BY <1>0, <2>1, StepTaken DEF CopyFile
    <3> QED BY <1>0, <1>c, <1>u, <2>1, <3>1 DEF CopyFile, FileOK, Unattached, Exists
  <2>2. CASE PlaceFile(f)
    <3>1. attach'[f].step = "placed" /\ attach[f].step = "copied"
      BY <1>0, <2>2, StepTaken DEF PlaceFile
    <3> QED BY <1>0, <1>c, <1>u, <2>2, <3>1 DEF PlaceFile, FileOK, Unattached, Exists
  <2>3. CASE RecordFile(f)
    <3>1. attach'[f].step = "done" /\ attach[f].step = "placed"
      BY <1>0, <2>3, StepTaken DEF RecordFile
    <3> QED BY <1>0, <1>c, <1>u, <2>3, <3>1 DEF RecordFile, FileOK, Unattached, Exists
  <2>4. CASE AttachFails(f)
    <3>1. attach'[f].step = "failed" /\ attach[f].step \in {"checked", "copied", "placed"}
      BY <1>0, <2>4, StepTaken DEF AttachFails, Unattached
    <3> QED BY <1>0, <1>c, <1>u, <2>4, <3>1 DEF AttachFails, FileOK, Unattached, Exists
  <2>5. CASE AttachCrashes(f)
    <3>1. attach'[f].step = "crashed" /\ attach[f].step \in {"checked", "copied", "placed"}
      BY <1>0, <2>5, StepTaken DEF AttachCrashes, Unattached
    <3> QED BY <1>0, <1>c, <1>u, <2>5, <3>1 DEF AttachCrashes, FileOK, Unattached, Exists
  <2> QED BY <2>1, <2>2, <2>3, <2>4, <2>5
<1>3. FileTypes'
  BY <1>0, <1>c, <1>u DEF FileTypes, CopyFile, PlaceFile, RecordFile, AttachFails, AttachCrashes
<1> QED BY <1>0, <1>1, <1>2, <1>3, <1>u DEF FilesInv

LEMMA CheckKeeps ==
  ASSUME FilesInv, NEW f \in File, NEW t \in Task, CheckAttach(f, t)
  PROVE  FilesInv'
<1>1. /\ attach' \in [File -> Calls] /\ attach'[f] = [step |-> "checked", task |-> t]
      /\ \A g \in File : g # f => attach'[g] = attach[g]
      /\ UNCHANGED <<status, rows, temporary, placed, removal, clearing, left>>
      /\ attach[f].step = "none" /\ Exists(t)
  BY DEF CheckAttach, FilesInv, FileTypes, Calls
<1>2. \A g \in File : g # f => FileOK(g)'
  BY <1>1, FileKept DEF FilesInv
<1>3. FileOK(f)'
  <2>1. attach'[f].step = "checked" /\ attach'[f].task = t /\ status[t] # "none"
    BY <1>1 DEF Exists
  <2>2. FileOK(f)
    BY DEF FilesInv
  <2> QED BY <1>1, <2>1, <2>2 DEF FileOK, Unattached
<1> QED BY <1>1, <1>2, <1>3 DEF FilesInv, FileTypes

LEMMA RemovalKeeps ==
  ASSUME FilesInv, NEW f \in File,
         ReadForRemoval(f) \/ DeleteRow(f) \/ RemoveFile(f) \/ RemovalFails(f)
  PROVE  FilesInv'
<1>0. FileTypes /\ FileOK(f) /\ \A t \in clearing : status[t] = "deleted"
  BY DEF FilesInv
<1>u. UNCHANGED <<status, temporary, attach, clearing>>
  BY DEF ReadForRemoval, DeleteRow, RemoveFile, RemovalFails
<1>g. ASSUME NEW g \in File, g # f
      PROVE  /\ removal'[g] = removal[g]
             /\ g \in placed' <=> g \in placed
             /\ g \in rows' <=> g \in rows
             /\ g \in left => g \in left'
  BY <1>0, <1>g DEF ReadForRemoval, DeleteRow, RemoveFile, RemovalFails, FileTypes
<1>1. ASSUME NEW g \in File, g # f PROVE FileOK(g)'
  BY <1>1, <1>u, <1>g, FileKept DEF FilesInv
<1>2. FileTypes'
  BY <1>0, <1>u DEF FileTypes, ReadForRemoval, DeleteRow, RemoveFile, RemovalFails
<1>3. FileOK(f)'
  <2>1. CASE ReadForRemoval(f)
    BY <1>0, <1>u, <2>1 DEF ReadForRemoval, FileOK, FileTypes, Unattached, Exists
  <2>2. CASE DeleteRow(f)
    BY <1>0, <1>u, <2>2 DEF DeleteRow, FileOK, FileTypes, Unattached, Exists
  <2>3. CASE RemoveFile(f)
    BY <1>0, <1>u, <2>3 DEF RemoveFile, FileOK, FileTypes, Unattached, Exists
  <2>4. CASE RemovalFails(f)
    BY <1>0, <1>u, <2>4 DEF RemovalFails, FileOK, FileTypes, Unattached, Exists
  <2> QED BY <2>1, <2>2, <2>3, <2>4
<1> QED BY <1>0, <1>1, <1>2, <1>3, <1>u DEF FilesInv

LEMMA TaskKeeps ==
  ASSUME FilesInv, TaskSteps
  PROVE  FilesInv'
<1> PICK t \in Task : DeleteTask(t) \/ ClearDirectory(t) \/ ClearingFails(t) \/ ArchiveTask(t)
                        \/ ReopenTask(t)
  BY DEF TaskSteps
<1>0. FileTypes /\ \A u \in clearing : status[u] = "deleted"
  BY DEF FilesInv
<1>u. attach' = attach /\ removal' = removal
  BY DEF DeleteTask, ClearDirectory, ClearingFails, ArchiveTask, ReopenTask, files
<1>1. ASSUME NEW f \in File PROVE FileOK(f)'
  <2>0. FileOK(f)
    BY DEF FilesInv
  <2>1. CASE DeleteTask(t)
    BY <1>0, <1>u, <2>0, <2>1 DEF DeleteTask, OfTask, FileOK, FileTypes, Unattached, Exists
  <2>2. CASE ClearDirectory(t)
    BY <1>0, <1>u, <2>0, <2>2 DEF ClearDirectory, OfTask, FileOK, FileTypes, Unattached, Exists
  <2>3. CASE ClearingFails(t)
    BY <1>0, <1>u, <2>0, <2>3 DEF ClearingFails, OfTask, FileOK, FileTypes, Unattached, Exists
  <2>4. CASE ArchiveTask(t)
    BY <1>0, <1>u, <2>0, <2>4 DEF ArchiveTask, files, FileOK, FileTypes, Unattached, Exists
  <2>5. CASE ReopenTask(t)
    BY <1>0, <1>u, <2>0, <2>5 DEF ReopenTask, files, FileOK, FileTypes, Unattached, Exists
  <2> QED BY <2>1, <2>2, <2>3, <2>4, <2>5
<1>2. FileTypes'
  <2>1. CASE DeleteTask(t)
    BY <1>0, <1>u, <2>1 DEF FileTypes, DeleteTask
  <2>2. CASE ClearDirectory(t) \/ ClearingFails(t)
    BY <1>0, <1>u, <2>2 DEF FileTypes, ClearDirectory, ClearingFails, OfTask
  <2>3. CASE ArchiveTask(t) \/ ReopenTask(t)
    BY <1>0, <1>u, <2>3 DEF FileTypes, ArchiveTask, ReopenTask, files
  <2> QED BY <2>1, <2>2, <2>3
<1>3. \A u \in clearing' : status'[u] = "deleted"
  <2>1. CASE DeleteTask(t)
    BY <1>0, <2>1 DEF DeleteTask, FileTypes
  <2>2. CASE ClearDirectory(t) \/ ClearingFails(t)
    BY <1>0, <2>2 DEF ClearDirectory, ClearingFails
  <2>3. CASE ArchiveTask(t) \/ ReopenTask(t)
    BY <1>0, <2>3 DEF ArchiveTask, ReopenTask, files, FileTypes
  <2> QED BY <2>1, <2>2, <2>3
<1> QED BY <1>1, <1>2, <1>3 DEF FilesInv

LEMMA ImportKeeps ==
  ASSUME FilesInv, ImportSteps
  PROVE  FilesInv'
<1>1. UNCHANGED <<rows, temporary, placed, attach, removal, clearing, left>>
  BY DEF ImportSteps, Fetch, ImportIssue, RefuseIssue, Report, ImportAgain, files
<1>2. \/ status' = status
      \/ \E t \in Task : status[t] = "none" /\ status' = [status EXCEPT ![t] = "open"]
  BY DEF ImportSteps, Fetch, ImportIssue, RefuseIssue, Report, ImportAgain
<1>3. /\ status' \in [Task -> {"none", "open", "archived", "deleted"}]
      /\ \A u \in Task : status[u] # "none" => status'[u] = status[u]
  BY <1>2 DEF FilesInv, FileTypes
<1>4. ASSUME NEW f \in File PROVE FileOK(f)'
  <2>1. FileOK(f)
    BY DEF FilesInv
  <2> QED BY <1>1, <1>3, <2>1 DEF FileOK, Exists, Unattached
<1>5. FileTypes' /\ \A u \in clearing' : status'[u] = "deleted"
  BY <1>1, <1>3 DEF FilesInv, FileTypes
<1> QED BY <1>4, <1>5 DEF FilesInv

LEMMA FilesInductive == FilesInv /\ [Next]_vars => FilesInv'
<1> SUFFICES ASSUME FilesInv, [Next]_vars PROVE FilesInv'
  OBVIOUS
<1>1. CASE UNCHANGED vars
  BY <1>1, FileKept DEF vars, FilesInv, FileTypes
<1>2. CASE FileSteps
  BY <1>2, AttachKeeps, CheckKeeps, RemovalKeeps DEF FileSteps
<1> QED BY <1>1, <1>2, TaskKeeps, ImportKeeps DEF Next

(* However attachments, removals, deletions, failures and crashes interleave *)
(* a row has its file, and a file without a row is somebody's to clean up    *)
(* or was left by a crash or a failed removal.                               *)
THEOREM FilesAndRows == Spec => []FilesMatchRows
<1>1. FilesInv => FilesMatchRows
  BY DEF FilesInv, FileOK, FileTypes, FilesMatchRows, RowsHaveFiles, NoStrayFiles
<1> QED BY <1>1, FilesInit, FilesInductive, PTL DEF Spec

-----------------------------------------------------------------------------
(* Imports.                                                                 *)

Batches == [step : {"none", "importing", "success", "partial", "failed"},
            asked : SUBSET Issue, todo : SUBSET Issue, entries : SUBSET Issue,
            errors : SUBSET Issue]

ImportTypes ==
    /\ status \in [Task -> {"none", "open", "archived", "deleted"}]
    /\ key \in [Task -> Issue \cup {Null}]
    /\ imports \in [Importer -> Batches]

OneOpenTask == \A issue \in Issue : \A t, u \in Current(issue) : t = u

\* Every issue asked for is still to do, has its task, or is reported.
Accounted(batch) ==
    /\ batch.step # "none" => batch.asked \subseteq batch.todo \cup batch.entries \cup batch.errors
    /\ batch.step = "success" => batch.todo = {} /\ batch.errors = {}
    /\ \A issue \in batch.entries : \E t \in Task : key[t] = issue

ImportInv ==
    /\ ImportTypes
    /\ \A t \in Task : status[t] = "none" => key[t] = Null
    /\ OneOpenTask
    /\ \A i \in Importer : Accounted(imports[i])

LEMMA ImportInit == Init => ImportInv
  BY AttachmentAssumption DEF Init, ImportInv, ImportTypes, Batches, NoBatch, OneOpenTask,
     Current, Accounted

\* A batch moves on while the tasks stand still.
LEMMA BatchMoves ==
  ASSUME ImportInv, NEW i \in Importer, NEW batch \in Batches, Accounted(batch),
         imports' = [imports EXCEPT ![i] = batch], UNCHANGED <<status, key>>
  PROVE  ImportInv'
  BY DEF ImportInv, ImportTypes, OneOpenTask, Current, Accounted

LEMMA ImporterKeeps ==
  ASSUME ImportInv, NEW i \in Importer,
         \/ \E asked \in SUBSET Issue, found \in SUBSET Issue : Fetch(i, asked, found)
         \/ \E issue \in Issue : ImportIssue(i, issue) \/ RefuseIssue(i, issue)
         \/ Report(i) \/ ImportAgain(i)
  PROVE  ImportInv'
<1>0. imports[i] \in Batches /\ Accounted(imports[i])
  BY DEF ImportInv, ImportTypes
<1>1. ASSUME NEW asked \in SUBSET Issue, NEW found \in SUBSET Issue, Fetch(i, asked, found)
      PROVE  ImportInv'
  <2>1. Fetched(asked, found) \in Batches /\ Accounted(Fetched(asked, found))
    BY DEF Fetched, Batches, Accounted
  <2> QED BY <1>1, <2>1, BatchMoves DEF Fetch
<1>2. ASSUME NEW issue \in Issue, RefuseIssue(i, issue)
      PROVE  ImportInv'
  <2> DEFINE batch == Refused(imports[i], issue)
  <2>1. imports' = [imports EXCEPT ![i] = batch] /\ issue \in imports[i].todo
    BY <1>2 DEF RefuseIssue
  <2>2. /\ batch \in Batches
        /\ batch.step = imports[i].step /\ batch.asked = imports[i].asked
        /\ batch.todo = imports[i].todo \ {issue} /\ batch.entries = imports[i].entries
        /\ batch.errors = imports[i].errors \cup {issue}
    BY <1>0 DEF Batches, Refused
  <2>3. Accounted(batch)
    <3> HIDE DEF batch
    <3> QED BY <1>0, <2>1, <2>2 DEF Accounted
  <2> HIDE DEF batch
  <2> QED BY <1>2, <2>1, <2>2, <2>3, BatchMoves DEF RefuseIssue
<1>3. ASSUME NEW issue \in Issue, ImportIssue(i, issue)
      PROVE  ImportInv'
  <2> DEFINE batch == Imported(imports[i], issue)
  <2>1. imports' = [imports EXCEPT ![i] = batch] /\ issue \in imports[i].todo
    BY <1>3 DEF ImportIssue
  <2>2. /\ batch \in Batches
        /\ batch.step = imports[i].step /\ batch.asked = imports[i].asked
        /\ batch.todo = imports[i].todo \ {issue}
        /\ batch.entries = imports[i].entries \cup {issue}
        /\ batch.errors = imports[i].errors
    BY <1>0 DEF Batches, Imported
  <2> HIDE DEF batch
  <2>3. CASE Current(issue) # {} /\ UNCHANGED <<status, key>>
    <3>1. Accounted(batch)
      BY <1>0, <2>1, <2>2, <2>3 DEF Accounted, Current
    <3> QED BY <2>1, <2>2, <2>3, <3>1, BatchMoves
  <2>4. ASSUME NEW t \in Task, Current(issue) = {}, status[t] = "none",
               status' = [status EXCEPT ![t] = "open"], key' = [key EXCEPT ![t] = issue]
        PROVE  ImportInv'
    <3>1. key[t] = Null
      BY <2>4 DEF ImportInv
    <3>2. \A g \in Issue : Current(g)' = IF g = issue THEN {t} ELSE Current(g)
      BY <2>4, <3>1, AttachmentAssumption DEF Current, ImportInv, ImportTypes
    <3>3. \A g \in Issue : (\E u \in Task : key[u] = g) => \E u \in Task : key'[u] = g
      BY <2>4, <3>1, AttachmentAssumption DEF ImportInv, ImportTypes
    <3>4. \A j \in Importer : imports[j].entries \subseteq Issue
      BY DEF ImportInv, ImportTypes, Batches
    <3> DEFINE Settled(b) ==
          /\ b.step # "none" => b.asked \subseteq b.todo \cup b.entries \cup b.errors
          /\ b.step = "success" => b.todo = {} /\ b.errors = {}
          /\ \A g \in b.entries : \E u \in Task : key'[u] = g
    <3>5. ASSUME NEW j \in Importer PROVE Settled(imports'[j])
      <4>0. Accounted(imports[j])
        BY DEF ImportInv
      <4>1. CASE j = i
        <5>1. imports'[j] = batch
          BY <2>1, <4>1 DEF ImportInv, ImportTypes
        <5>2. issue \in Issue /\ key'[t] = issue
          BY <2>4 DEF ImportInv, ImportTypes
        <5>3. \A g \in batch.entries : \E u \in Task : key'[u] = g
          BY <1>0, <2>2, <3>3, <3>4, <5>2 DEF Accounted
        <5> QED BY <1>0, <2>1, <2>2, <5>1, <5>3 DEF Accounted
      <4>2. CASE j # i
        <5>1. imports'[j] = imports[j]
          BY <2>1, <4>2 DEF ImportInv, ImportTypes
        <5> QED BY <3>3, <3>4, <4>0, <5>1 DEF Accounted
      <4> QED BY <4>1, <4>2
    <3>6. \A j \in Importer : Accounted(imports[j])'
      BY <3>5 DEF Accounted
    <3>7. ImportTypes' /\ \A u \in Task : status'[u] = "none" => key'[u] = Null
      BY <2>1, <2>2, <2>4 DEF ImportInv, ImportTypes
    <3>8. OneOpenTask'
      BY <3>2 DEF OneOpenTask, ImportInv
    <3> QED BY <3>6, <3>7, <3>8 DEF ImportInv
  <2> QED BY <1>3, <2>3, <2>4 DEF ImportIssue
<1>4. CASE Report(i)
  <2> DEFINE batch == Reported(imports[i])
  <2>1. imports' = [imports EXCEPT ![i] = batch] /\ imports[i].todo = {}
        /\ imports[i].step = "importing"
    BY <1>4 DEF Report
  <2>2. /\ Outcome(imports[i]) \in {"success", "partial", "failed"}
        /\ Outcome(imports[i]) = "success" => imports[i].errors = {}
    BY DEF Outcome
  <2>3. /\ batch \in Batches
        /\ batch.step = Outcome(imports[i]) /\ batch.asked = imports[i].asked
        /\ batch.todo = imports[i].todo /\ batch.entries = imports[i].entries
        /\ batch.errors = imports[i].errors
    BY <1>0, <2>2 DEF Batches, Reported
  <2> HIDE DEF batch
  <2>4. Accounted(batch)
    BY <1>0, <2>1, <2>2, <2>3 DEF Accounted
  <2> QED BY <1>4, <2>1, <2>3, <2>4, BatchMoves DEF Report
<1>5. CASE ImportAgain(i)
  <2>1. NoBatch \in Batches /\ Accounted(NoBatch)
    BY DEF NoBatch, Batches, Accounted
  <2> QED BY <1>5, <2>1, BatchMoves DEF ImportAgain
<1> QED BY <1>1, <1>2, <1>3, <1>4, <1>5

LEMMA ImportInductive == ImportInv /\ [Next]_vars => ImportInv'
<1> SUFFICES ASSUME ImportInv, [Next]_vars PROVE ImportInv'
  OBVIOUS
<1> USE DEF ImportInv, ImportTypes, OneOpenTask, Accounted, Current
<1>1. CASE UNCHANGED <<status, key, imports>>
  BY <1>1
<1>2. CASE FileSteps
  BY <1>1, <1>2 DEF FileSteps, CheckAttach, CopyFile, PlaceFile, RecordFile, AttachFails,
     AttachCrashes, ReadForRemoval, DeleteRow, RemoveFile, RemovalFails
<1>3. CASE TaskSteps
  <2> PICK t \in Task : DeleteTask(t) \/ ClearDirectory(t) \/ ClearingFails(t) \/ ArchiveTask(t)
                          \/ ReopenTask(t)
    BY <1>3 DEF TaskSteps
  <2>1. CASE DeleteTask(t)
    BY <2>1 DEF DeleteTask, Exists
  <2>2. CASE ClearDirectory(t) \/ ClearingFails(t)
    BY <1>1, <2>2 DEF ClearDirectory, ClearingFails
  <2>3. CASE ArchiveTask(t)
    BY <2>3 DEF ArchiveTask
  <2>4. CASE ReopenTask(t)
    BY <2>4, AttachmentAssumption DEF ReopenTask
  <2> QED BY <2>1, <2>2, <2>3, <2>4
<1>4. CASE ImportSteps
  BY <1>4, ImporterKeeps DEF ImportSteps
<1>5. CASE UNCHANGED vars
  BY <1>1, <1>5 DEF vars
<1> QED BY <1>2, <1>3, <1>4, <1>5 DEF Next

(* However importers, archiving and reopening interleave, an issue has at   *)
(* most one task that is not archived, and an import that reports success   *)
(* has a task for every issue it was asked for.                             *)
THEOREM CompleteImports == Spec => []ImportsAreComplete
<1>1. ASSUME ImportInv PROVE ImportsAreComplete
  <2>1. ASSUME NEW issue \in Issue PROVE Cardinality(Current(issue)) <= 1
    <3>1. CASE Current(issue) = {}
      BY <3>1, FS_EmptySet
    <3>2. CASE Current(issue) # {}
      <4>1. PICK t : t \in Current(issue)
        BY <3>2
      <4>2. Current(issue) = {t}
        BY <1>1, <4>1 DEF ImportInv, OneOpenTask
      <4> QED BY <4>2, FS_Singleton
    <3> QED BY <3>1, <3>2
  <2>2. SuccessMeansAll
    BY <1>1 DEF ImportInv, ImportTypes, Batches, Accounted, SuccessMeansAll
  <2> QED BY <2>1, <2>2 DEF ImportsAreComplete, OneTaskPerIssue
<1> QED BY <1>1, ImportInit, ImportInductive, PTL DEF Spec
=============================================================================
