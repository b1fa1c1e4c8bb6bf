--------------------------- MODULE ServicesProofs ---------------------------
(* Proofs about Notifications, for any destinations, passes, events and      *)
(* leases that outlive the sends they are taken for, and about Agents, for    *)
(* any boards, profiles, fallbacks (cycles and repetitions included), caps,   *)
(* tasks and planner's candidates.                                            *)
EXTENDS Notifications, Agents, SequenceTheorems, FiniteSetTheorems, WellFoundedInduction, TLAPS

-----------------------------------------------------------------------------
(* Notifications. *)

(* No delivery of event e will be derived for t (again).                    *)
Past(t, e) == sub[t] = Nothing \/ e <= sub[t].last \/ event[e] = Nothing

(* Events are recorded in order; a delivery belongs to a subscription and   *)
(* to an event that is still there.                                         *)
EventsOK == \A e \in Event : event[e] # Nothing => e <= newest

RowsOK(t) ==
    /\ sub[t] # Nothing => sub[t].last <= newest
    /\ \A e \in Event : row[t][e] # Nothing => sub[t] # Nothing /\ event[e] # Nothing

(* A confirmed event stays so: its row says it, or it is past.              *)
AckedOK(t) ==
    \A e \in acked[t] :
        /\ e <= newest
        /\ IF row[t][e] = Nothing THEN Past(t, e) ELSE row[t][e].state = "delivered"

(* An owed event has a delivery that is not done, or will get one: it lies  *)
(* after the subscription's place and after every delivery there is.        *)
OwedOK(t) ==
    \A e \in owed[t] :
        /\ sub[t] # Nothing /\ event[e] # Nothing
        /\ IF row[t][e] # Nothing THEN row[t][e].state # "delivered"
           ELSE /\ e > sub[t].last /\ event[e] \in sub[t].kinds
                /\ \A f \in Event : row[t][f] # Nothing => f < e

BookOK == EventsOK /\ \A t \in Target : RowsOK(t) /\ AckedOK(t) /\ OwedOK(t)

(* While pass q sends an event, its lease keeps the others away, or the     *)
(* event is past.                                                           *)
IsSending(q, t) == claim[q][t] # Nothing /\ claim[q][t].stage = "sending"

InFlight(q, t, e) ==
    /\ e <= newest
    /\ IF row[t][e] = Nothing THEN Past(t, e)
       ELSE /\ row[t][e].state = "delivering"
            /\ row[t][e].token = q
            /\ row[t][e].left >= LeaseTicks - age[q]

ClaimsOK ==
    \A q \in Pass, t \in Target :
        IsSending(q, t) => age[q] <= SendTicks /\ InFlight(q, t, claim[q][t].event)

NoteInv == NoteTypeOK /\ BookOK /\ ClaimsOK

-----------------------------------------------------------------------------
(* Least and greatest events.                                               *)

LEMMA Least ==
  ASSUME NEW S \in SUBSET Event, S # {}
  PROVE  \E x \in S : \A y \in S : x <= y
<1> DEFINE R == {p \in Nat \X Nat : p[1] < p[2]}
<1>1. IsWellFoundedOn(R, Nat)
  BY NatLessThanWellFounded, SMT DEF OpToRel
<1>2. \A a, b \in Nat : <<a, b>> \in R <=> a < b
  OBVIOUS
<1>3. S \subseteq Nat
  BY NotificationAssumption DEF Event
<1> HIDE DEF R
<1>4. PICK x \in S : \A y \in S : ~ (<<y, x>> \in R)
  BY <1>1, <1>3, WFMin
<1>5. ASSUME NEW y \in S PROVE x <= y
  <2>1. x \in Nat /\ y \in Nat
    BY <1>3
  <2>2. ~ (y < x)
    BY <1>2, <1>4, <2>1
  <2> QED BY <2>1, <2>2
<1> QED BY <1>5

LEMMA Greatest ==
  ASSUME NEW S \in SUBSET Event, S # {}
  PROVE  \E x \in S : \A y \in S : y <= x
<1> DEFINE T == {e \in Event : MaxEvents + 1 - e \in S}
<1>1. T \in SUBSET Event /\ T # {}
  <2>1. PICK y \in S : TRUE
    OBVIOUS
  <2>2. MaxEvents + 1 - y \in T
    BY NotificationAssumption DEF Event
  <2> QED BY <2>2
<1>2. PICK x \in T : \A y \in T : x <= y
  BY <1>1, Least
<1>3. \A y \in S : MaxEvents + 1 - y \in T
  BY NotificationAssumption DEF Event
<1>4. MaxEvents + 1 - x \in S /\ \A y \in S : y <= MaxEvents + 1 - x
  BY <1>2, <1>3, NotificationAssumption DEF Event
<1> QED BY <1>4

LEMMA LatestIsKnown ==
  ASSUME NoteTypeOK
  PROVE  /\ LatestEvent \in 0..MaxEvents
         /\ \A e \in Event : event[e] # Nothing => e <= LatestEvent
         /\ LatestEvent # 0 => event[LatestEvent] # Nothing /\ LatestEvent \in Event
<1> DEFINE known == {e \in Event : event[e] # Nothing}
<1>1. CASE known = {}
  BY <1>1, NotificationAssumption DEF LatestEvent
<1>2. CASE known # {}
  <2>1. \E e \in known : \A f \in known : f <= e
    <3>1. known \in SUBSET Event
      OBVIOUS
    <3> HIDE DEF known
    <3> QED BY <1>2, <3>1, Greatest
  <2>2. LatestEvent \in known /\ \A f \in known : f <= LatestEvent
    BY <1>2, <2>1 DEF LatestEvent
  <2> QED BY <2>2, NotificationAssumption DEF Event
<1> QED BY <1>1, <1>2

-----------------------------------------------------------------------------
(* Rows.                                                                    *)

LEMMA RowKinds ==
  ASSUME NEW r \in Rows
  PROVE  /\ r # Nothing
         /\ r.state \in {"pending", "delivering", "delivered"}
         /\ r.state # "delivered" => r.left \in 0..LeaseTicks
         /\ r.state = "delivering" => /\ r.token \in Pass \cup {Nothing}
                                      /\ r = [state |-> "delivering", left |-> r.left, token |-> r.token]
         /\ r.state = "pending" => r = [state |-> "pending", left |-> r.left]
  BY NothingAssumption DEF Rows

LEMMA PassedRow ==
  ASSUME NEW r \in Rows
  PROVE  /\ Passed(r) \in Rows
         /\ Passed(r).state = r.state
         /\ r.state = "delivering" => /\ Passed(r).token = r.token
                                      /\ Passed(r).left >= r.left - 1
<1>0. r # Nothing /\ r.state \in {"pending", "delivering", "delivered"}
  BY RowKinds
<1>1. CASE r.state = "delivered"
  BY <1>0, <1>1 DEF Passed
<1> DEFINE n == IF r.left > 0 THEN r.left - 1 ELSE 0
<1>2. CASE r.state = "pending"
  <2>1. r.left \in 0..LeaseTicks /\ r = [state |-> "pending", left |-> r.left]
    BY <1>2, RowKinds
  <2>2. Passed(r) = [r EXCEPT !.left = n]
    BY <1>0, <1>2 DEF Passed
  <2>3. Passed(r) = [state |-> "pending", left |-> n]
    BY <2>1, <2>2
  <2>4. n \in 0..LeaseTicks
    BY <2>1, NotificationAssumption
  <2> QED BY <1>2, <2>3, <2>4 DEF Rows
<1>3. CASE r.state = "delivering"
  <2>1. /\ r.left \in 0..LeaseTicks /\ r.token \in Pass \cup {Nothing}
        /\ r = [state |-> "delivering", left |-> r.left, token |-> r.token]
    BY <1>3, RowKinds
  <2>2. Passed(r) = [r EXCEPT !.left = n]
    BY <1>0, <1>3 DEF Passed
  <2>3. Passed(r) = [state |-> "delivering", left |-> n, token |-> r.token]
    BY <2>1, <2>2
  <2>4. n \in 0..LeaseTicks /\ n >= r.left - 1
    BY <2>1, NotificationAssumption
  <2> QED BY <1>3, <2>1, <2>3, <2>4 DEF Rows
<1> QED BY <1>0, <1>1, <1>2, <1>3

LEMMA NewRows ==
  /\ [state |-> "pending", left |-> 0] \in Rows
  /\ \A p \in Pass : [state |-> "delivering", left |-> LeaseTicks, token |-> p] \in Rows
  /\ [state |-> "delivered"] \in Rows
  /\ [state |-> "pending", left |-> 1] \in Rows
  BY NotificationAssumption DEF Rows

LEMMA UnclaimedRows ==
  ASSUME NoteTypeOK, NEW p \in Pass, NEW t \in Target
  PROVE  /\ Unclaimed(p, t) \in [Event -> Rows \cup {Nothing}]
         /\ \A e \in Event :
              /\ row[t][e] = Nothing <=> Unclaimed(p, t)[e] = Nothing
              /\ row[t][e] # Nothing =>
                   /\ Unclaimed(p, t)[e].state = row[t][e].state
                   /\ row[t][e].state = "delivering" /\ row[t][e].token # p
                        => Unclaimed(p, t)[e] = row[t][e]
<1>1. ASSUME NEW e \in Event
      PROVE  /\ Unclaimed(p, t)[e] \in Rows \cup {Nothing}
             /\ row[t][e] = Nothing <=> Unclaimed(p, t)[e] = Nothing
             /\ row[t][e] # Nothing =>
                   /\ Unclaimed(p, t)[e].state = row[t][e].state
                   /\ row[t][e].state = "delivering" /\ row[t][e].token # p
                        => Unclaimed(p, t)[e] = row[t][e]
  <2>0. row[t][e] \in Rows \cup {Nothing}
    BY DEF NoteTypeOK
  <2>1. CASE ~ Leased(p, t, e)
    BY <2>0, <2>1 DEF Unclaimed
  <2>2. CASE Leased(p, t, e)
    <3> DEFINE r == row[t][e]
    <3>1. r \in Rows /\ r.state = "delivering" /\ r.token = p
      BY <2>0, <2>2 DEF Leased
    <3>2. r.left \in 0..LeaseTicks
          /\ r = [state |-> "delivering", left |-> r.left, token |-> r.token]
      BY <3>1, RowKinds
    <3>3. Unclaimed(p, t)[e] = [r EXCEPT !.token = Nothing]
      BY <2>2 DEF Unclaimed
    <3> HIDE DEF r
    <3>4. Unclaimed(p, t)[e] = [state |-> "delivering", left |-> r.left, token |-> Nothing]
      BY <3>2, <3>3
    <3>5. Unclaimed(p, t)[e] \in Rows
      BY <3>2, <3>4 DEF Rows
    <3>6. Unclaimed(p, t)[e] # Nothing
      BY <3>5, NothingAssumption
    <3> QED BY <3>1, <3>4, <3>5, <3>6, NothingAssumption DEF r
  <2> QED BY <2>1, <2>2
<1> QED BY <1>1 DEF Unclaimed

-----------------------------------------------------------------------------
(* What a claim derives, and what it takes.                                 *)

LEMMA DerivedRow ==
  ASSUME NoteTypeOK, NEW t \in Target, sub[t] # Nothing
  PROVE  /\ Derived(t) \in [Event -> Rows \cup {Nothing}]
         /\ \A e \in Event : row[t][e] # Nothing => Derived(t)[e] = row[t][e]
         /\ \A e \in Event : row[t][e] = Nothing /\ Derived(t)[e] # Nothing =>
              /\ e \in Undelivered(t)
              /\ \A f \in Undelivered(t) : e <= f
              /\ Derived(t)[e] = [state |-> "pending", left |-> 0]
         /\ Undelivered(t) # {} =>
              \E e \in Undelivered(t) : Derived(t)[e] = [state |-> "pending", left |-> 0]
<1>0. row[t] \in [Event -> Rows \cup {Nothing}]
  BY DEF NoteTypeOK
<1>1. CASE Undelivered(t) = {}
  BY <1>0, <1>1 DEF Derived
<1>2. CASE Undelivered(t) # {}
  <2> DEFINE new == Undelivered(t)
             pend == [state |-> "pending", left |-> 0]
             e0 == CHOOSE e \in new : \A f \in new : e <= f
  <2>1. new \in SUBSET Event /\ \A e \in new : row[t][e] = Nothing
    BY DEF Undelivered
  <2>2. pend \in Rows /\ pend # Nothing
    BY NewRows, NothingAssumption
  <2>3. Derived(t) = [row[t] EXCEPT ![e0] = pend]
    BY <1>2 DEF Derived
  <2>4. e0 \in new /\ \A f \in new : e0 <= f
    <3> HIDE DEF new
    <3>1. \E e \in new : \A f \in new : e <= f
      BY <1>2, <2>1, Least DEF new
    <3> QED BY <3>1
  <2> HIDE DEF e0, pend
  <2>5. e0 \in Event /\ row[t][e0] = Nothing
    BY <2>1, <2>4
  <2>6. Derived(t) \in [Event -> Rows \cup {Nothing}]
    BY <1>0, <2>2, <2>3, <2>5
  <2>7. Derived(t)[e0] = pend /\ \A e \in Event \ {e0} : Derived(t)[e] = row[t][e]
    BY <1>0, <2>3, <2>5
  <2> QED BY <2>2, <2>4, <2>5, <2>6, <2>7 DEF pend
<1> QED BY <1>1, <1>2

Lease(p) == [state |-> "delivering", left |-> LeaseTicks, token |-> p]

(* The transaction of ClaimDeliveries, destination by destination: it is    *)
(* finished, or its due event is taken, or it has a delivery derived.       *)
LEMMA ClaimSteps ==
  ASSUME NoteTypeOK, NEW p \in Pass, ClaimDeliveries(p)
  PROVE  \E finished \in SUBSET Target, mine \in SUBSET Target : \E picked \in [mine -> Event] :
           /\ \A t \in finished : sub[t] # Nothing /\ task = "done" /\ AllDelivered(Derived(t))
           /\ \A t \in mine : t \notin finished /\ sub[t] # Nothing /\ picked[t] \in Due(Derived(t))
           /\ row' = [t \in Target |->
                        IF sub[t] = Nothing \/ t \in finished THEN NoRows
                        ELSE IF t \notin mine THEN Derived(t)
                        ELSE [Derived(t) EXCEPT ![picked[t]] = Lease(p)]]
           /\ claim' = [claim EXCEPT ![p] =
                          [t \in Target |-> IF t \notin mine THEN Nothing
                                            ELSE [event |-> picked[t], stage |-> "sending"]]]
           /\ sub' = SubsWithout(finished)
           /\ owed' = OwedWithout(finished)
<1> DEFINE kept == {t \in Target : sub[t] # Nothing}
           derived == [t \in kept |-> Derived(t)]
           finished == {t \in kept : task = "done" /\ AllDelivered(derived[t])}
           live == kept \ finished
           ready == {t \in live : Due(derived[t]) # {}}
<1>1. PICK every \in [ready -> Event], mine \in SUBSET ready :
        /\ \A t \in ready : every[t] \in Due(derived[t])
        /\ row' = [t \in Target |->
                     IF t \notin live THEN NoRows
                     ELSE IF t \notin mine THEN derived[t]
                     ELSE [derived[t] EXCEPT ![every[t]] =
                             [state |-> "delivering", left |-> LeaseTicks, token |-> p]]]
        /\ claim' = [claim EXCEPT ![p] =
                       [t \in Target |-> IF t \notin mine THEN Nothing
                                         ELSE [event |-> every[t], stage |-> "sending"]]]
  BY DEF ClaimDeliveries
<1>2. sub' = SubsWithout(finished) /\ owed' = OwedWithout(finished)
  BY DEF ClaimDeliveries
<1> DEFINE picked == [t \in mine |-> every[t]]
<1>3. finished \in SUBSET Target /\ mine \in SUBSET Target /\ picked \in [mine -> Event]
  BY <1>1
<1>4. \A t \in kept : derived[t] = Derived(t)
  OBVIOUS
<1>5. \A t \in finished : sub[t] # Nothing /\ task = "done" /\ AllDelivered(Derived(t))
  BY <1>4
<1>6. \A t \in mine : t \notin finished /\ sub[t] # Nothing /\ picked[t] \in Due(Derived(t))
  BY <1>1, <1>4
<1>7. row' = [t \in Target |->
                IF sub[t] = Nothing \/ t \in finished THEN NoRows
                ELSE IF t \notin mine THEN Derived(t)
                ELSE [Derived(t) EXCEPT ![picked[t]] = Lease(p)]]
  <2>1. \A t \in Target : t \notin live <=> (sub[t] = Nothing \/ t \in finished)
    OBVIOUS
  <2>2. \A t \in mine : picked[t] = every[t]
    OBVIOUS
  <2> HIDE DEF finished, live, picked, derived, kept
  <2>3. \A t \in live : derived[t] = Derived(t)
    BY <1>4 DEF live
  <2> QED BY <1>1, <2>1, <2>2, <2>3 DEF Lease
<1>8. claim' = [claim EXCEPT ![p] =
                  [t \in Target |-> IF t \notin mine THEN Nothing
                                    ELSE [event |-> picked[t], stage |-> "sending"]]]
  BY <1>1
<1> HIDE DEF finished, picked
<1> QED BY <1>2, <1>3, <1>5, <1>6, <1>7, <1>8

-----------------------------------------------------------------------------
(* Steps that leave the books alone: no row comes or goes, none becomes     *)
(* delivered.                                                               *)

LEMMA BookKept ==
  ASSUME BookOK, UNCHANGED <<event, newest, sub, acked, owed>>,
         \A t \in Target, e \in Event :
           /\ row'[t][e] = Nothing <=> row[t][e] = Nothing
           /\ row[t][e] # Nothing =>
                (row'[t][e].state = "delivered" <=> row[t][e].state = "delivered"),
         NoteTypeOK
  PROVE  BookOK'
<1> SUFFICES ASSUME NEW t \in Target PROVE (RowsOK(t) /\ AckedOK(t) /\ OwedOK(t))'
  BY DEF BookOK, EventsOK
<1>0. acked[t] \subseteq Event /\ owed[t] \subseteq Event
  BY DEF NoteTypeOK
<1>1. RowsOK(t)'
  BY DEF BookOK, RowsOK
<1>2. AckedOK(t)'
  BY <1>0 DEF BookOK, AckedOK, Past
<1>3. OwedOK(t)'
  BY <1>0 DEF BookOK, OwedOK
<1> QED BY <1>1, <1>2, <1>3

(* A pass's lease protects its event as long as the row is not shortened    *)
(* or taken.                                                                *)
LEMMA FlightKept ==
  ASSUME NEW q \in Pass, NEW t \in Target, NEW e \in Event, InFlight(q, t, e),
         UNCHANGED <<event, newest, sub, age>>, row'[t][e] = row[t][e]
  PROVE  InFlight(q, t, e)'
  BY DEF InFlight, Past

LEMMA SendingEvent ==
  ASSUME NoteTypeOK, NEW q \in Pass, NEW t \in Target, claim[q][t] # Nothing
  PROVE  /\ claim[q][t] \in Claims
         /\ claim[q][t].event \in Event
         /\ claim[q][t].stage \in {"sending", "confirmed", "failed"}
  BY DEF NoteTypeOK, Claims

LEMMA DroppedClaims ==
  ASSUME NoteTypeOK, NEW p \in Pass, NEW t \in Target, Drop(p, t)
  PROVE  /\ claim' \in [Pass -> [Target -> Claims \cup {Nothing}]]
         /\ claim'[p][t] = Nothing
         /\ \A q \in Pass, u \in Target : q # p \/ u # t => claim'[q][u] = claim[q][u]
  BY DEF NoteTypeOK, Drop

(* What holds of a pass that is sending, with the event as a constant.      *)
LEMMA SendingFacts ==
  ASSUME NoteInv, NEW q \in Pass, NEW t \in Target, NEW e \in Event,
         IsSending(q, t), claim[q][t].event = e
  PROVE  age[q] <= SendTicks /\ InFlight(q, t, e)
  BY DEF NoteInv, ClaimsOK

LEMMA SendingNext ==
  ASSUME NoteTypeOK',
         \A q \in Pass, t \in Target, e \in Event :
           IsSending(q, t)' /\ claim'[q][t].event = e
           => age'[q] <= SendTicks /\ InFlight(q, t, e)'
  PROVE  ClaimsOK'
<1> SUFFICES ASSUME NEW q \in Pass, NEW t \in Target, IsSending(q, t)'
             PROVE  age'[q] <= SendTicks /\ InFlight(q, t, claim[q][t].event)'
  BY DEF ClaimsOK
<1>1. claim'[q][t].event \in Event
  BY DEF NoteTypeOK, IsSending, Claims
<1>2. PICK e \in Event : e = claim'[q][t].event
  BY <1>1
<1>3. age'[q] <= SendTicks /\ InFlight(q, t, e)'
  BY <1>2
<1> QED BY <1>2, <1>3 DEF InFlight, Past

-----------------------------------------------------------------------------
(* The initial states, and the steps of the task.                           *)

LEMMA NoteInitially == NoteInit => NoteInv
<1> SUFFICES ASSUME NoteInit PROVE NoteInv
  OBVIOUS
<1>1. NoteTypeOK
  BY NotificationAssumption DEF NoteInit, NoteTypeOK, NoRows, NoClaims
<1>2. BookOK
  BY DEF NoteInit, BookOK, EventsOK, RowsOK, AckedOK, OwedOK, NoRows
<1>3. ClaimsOK
  BY DEF NoteInit, ClaimsOK, IsSending, NoClaims
<1> QED BY <1>1, <1>2, <1>3 DEF NoteInv

(* An event that is recorded is the newest of all.                          *)
LEMMA RecordsKeeps ==
  ASSUME NoteInv, NEW kind \in Kinds, Records(kind), UNCHANGED <<sub, row, claim, age, acked>>,
         task' \in {"open", "done", "archived"}
  PROVE  NoteInv'
<1> DEFINE n == newest + 1
<1>0. /\ newest \in 0..MaxEvents /\ n \in Event /\ newest' = n
      /\ event \in [Event -> Kinds \cup {Nothing}]
      /\ event' = [event EXCEPT ![n] = kind]
      /\ \A e \in Event : e <= newest => e # n
      /\ kind # Nothing
  BY NotificationAssumption DEF Records, NoteInv, NoteTypeOK, Event
<1>1. /\ event'[n] = kind
      /\ \A e \in Event : e # n => event'[e] = event[e]
  BY <1>0
<1>2. event[n] = Nothing
  BY <1>0 DEF NoteInv, BookOK, EventsOK
<1>3. \A t \in Target : owed'[t] \in SUBSET (owed[t] \cup {n})
                        /\ (n \in owed'[t] => n \in owed[t] \/ (sub[t] # Nothing /\ kind \in sub[t].kinds))
  BY DEF Records
<1>4. NoteTypeOK'
  <2>1. event' \in [Event -> Kinds \cup {Nothing}] /\ newest' \in 0..MaxEvents
    BY <1>0 DEF Event
  <2>2. owed' \in [Target -> SUBSET Event]
    BY <1>0 DEF Records, NoteInv, NoteTypeOK
  <2> QED BY <2>1, <2>2 DEF NoteInv, NoteTypeOK
<1>5. BookOK'
  <2>1. EventsOK'
    BY <1>0, <1>1 DEF NoteInv, BookOK, EventsOK, Event
  <2> SUFFICES ASSUME NEW t \in Target PROVE (RowsOK(t) /\ AckedOK(t) /\ OwedOK(t))'
    BY <2>1 DEF BookOK
  <2>0. /\ RowsOK(t) /\ AckedOK(t) /\ OwedOK(t)
        /\ acked[t] \subseteq Event /\ owed[t] \subseteq Event
        /\ sub[t] # Nothing => sub[t].last \in 0..MaxEvents
    BY DEF NoteInv, BookOK, NoteTypeOK, Subs
  <2>2. RowsOK(t)'
    BY <1>0, <1>1, <1>2, <2>0 DEF RowsOK
  <2>3. AckedOK(t)'
    BY <1>0, <1>1, <2>0 DEF AckedOK, Past, Event
  <2>4. ASSUME NEW e \in owed'[t], e # n
        PROVE  e \in owed[t] /\ event'[e] = event[e]
    BY <1>1, <1>3, <2>0, <2>4
  <2>5. ASSUME n \in owed'[t]
        PROVE  /\ sub[t] # Nothing /\ event'[n] # Nothing /\ row[t][n] = Nothing
               /\ n > sub[t].last /\ event'[n] \in sub[t].kinds
               /\ \A f \in Event : row[t][f] # Nothing => f < n
    <3>1. n \notin owed[t]
      BY <1>2, <2>0 DEF OwedOK
    <3>2. sub[t] # Nothing /\ kind \in sub[t].kinds
      BY <1>3, <2>5, <3>1
    <3>3. \A f \in Event : row[t][f] # Nothing => f <= newest
      BY <2>0 DEF RowsOK, NoteInv, BookOK, EventsOK
    <3> QED BY <1>0, <1>1, <1>2, <2>0, <3>2, <3>3 DEF RowsOK, Event
  <2>6. OwedOK(t)'
    BY <2>0, <2>4, <2>5 DEF OwedOK
  <2> QED BY <2>2, <2>3, <2>6
<1>6. ASSUME NEW q \in Pass, NEW t \in Target, NEW e \in Event,
             IsSending(q, t)', claim'[q][t].event = e
      PROVE  age'[q] <= SendTicks /\ InFlight(q, t, e)'
  <2>1. age[q] <= SendTicks /\ InFlight(q, t, e)
    BY <1>6, SendingFacts DEF IsSending
  <2>2. event'[e] = event[e] /\ e <= n
    BY <1>0, <1>1, <2>1 DEF InFlight, Event
  <2> QED BY <1>0, <2>1, <2>2 DEF InFlight, Past
<1>7. ClaimsOK'
  BY <1>4, <1>6, SendingNext
<1> QED BY <1>4, <1>5, <1>7 DEF NoteInv

LEMMA HappensKeeps ==
  ASSUME NoteInv, Happens
  PROVE  NoteInv'
  BY RecordsKeeps DEF Happens, TaskMoves, Kinds

(* Where the subscription goes, its rows and debts go, and every event is   *)
(* past.                                                                    *)
LEMMA ArchiveKeeps ==
  ASSUME NoteInv, Archive
  PROVE  NoteInv'
<1>0. /\ newest \in 0..MaxEvents /\ newest + 1 \in Event /\ newest' = newest + 1
      /\ event \in [Event -> Kinds \cup {Nothing}]
      /\ event' = [event EXCEPT ![newest + 1] = "archived"]
  BY NotificationAssumption DEF Archive, NoteInv, NoteTypeOK, Event
<1>1. NoteTypeOK'
  BY <1>0 DEF Archive, NoteInv, NoteTypeOK, NoRows, Kinds, Event
<1>2. \A t \in Target : /\ sub'[t] = Nothing /\ owed'[t] = {}
                        /\ \A e \in Event : row'[t][e] = Nothing
  BY DEF Archive, NoRows
<1>3. EventsOK'
  BY <1>0 DEF NoteInv, BookOK, EventsOK, Event
<1>4. \A t \in Target : AckedOK(t)'
  <2> SUFFICES ASSUME NEW t \in Target, NEW e \in acked[t]
               PROVE  e \in Event /\ e <= newest'
    BY <1>2 DEF AckedOK, Past, Archive
  <2>1. e \in Event /\ e <= newest
    BY DEF NoteInv, NoteTypeOK, BookOK, AckedOK
  <2> QED BY <1>0, <2>1 DEF Event
<1>5. BookOK'
  <2>1. ASSUME NEW t \in Target PROVE RowsOK(t)' /\ OwedOK(t)'
    BY <1>2 DEF RowsOK, OwedOK
  <2> QED BY <1>3, <1>4, <2>1 DEF BookOK
<1>6. ASSUME NEW q \in Pass, NEW t \in Target, NEW e \in Event,
             IsSending(q, t)', claim'[q][t].event = e
      PROVE  age'[q] <= SendTicks /\ InFlight(q, t, e)'
  <2>1. age[q] <= SendTicks /\ InFlight(q, t, e)
    BY <1>6, SendingFacts DEF IsSending, Archive
  <2> QED BY <1>0, <1>2, <2>1 DEF InFlight, Past, Event, Archive
<1>7. ClaimsOK'
  BY <1>1, <1>6, SendingNext
<1> QED BY <1>1, <1>5, <1>7 DEF NoteInv

LEMMA ReopenKeeps ==
  ASSUME NoteInv, Reopen
  PROVE  NoteInv'
<1>1. NoteTypeOK'
  BY DEF Reopen, NoteInv, NoteTypeOK
<1>2. BookOK'
  BY BookKept DEF Reopen, NoteInv
<1>3. ASSUME NEW q \in Pass, NEW t \in Target, NEW e \in Event,
             IsSending(q, t)', claim'[q][t].event = e
      PROVE  age'[q] <= SendTicks /\ InFlight(q, t, e)'
  <2>1. age[q] <= SendTicks /\ InFlight(q, t, e)
    BY <1>3, SendingFacts DEF IsSending, Reopen
  <2> QED BY <2>1, FlightKept DEF Reopen
<1>4. ClaimsOK'
  BY <1>1, <1>3, SendingNext
<1> QED BY <1>1, <1>2, <1>4 DEF NoteInv

(* Old events go with their deliveries: what had a row is past by now.      *)
LEMMA CollectKeeps ==
  ASSUME NoteInv, CollectEvents
  PROVE  NoteInv'
<1>1. PICK cutoff \in Event :
        /\ event' = [e \in Event |-> IF e <= cutoff THEN Nothing ELSE event[e]]
        /\ row' = [t \in Target |-> [e \in Event |-> IF e <= cutoff THEN Nothing ELSE row[t][e]]]
        /\ owed' = [t \in Target |-> {e \in owed[t] : e > cutoff}]
        /\ UNCHANGED <<task, newest, sub, claim, age, acked>>
  BY DEF CollectEvents
<1>2. NoteTypeOK'
  BY <1>1 DEF NoteInv, NoteTypeOK
<1>3. \A e \in Event : /\ e <= cutoff => event'[e] = Nothing
                       /\ e > cutoff => event'[e] = event[e]
                       /\ e <= cutoff \/ e > cutoff
  BY <1>1 DEF Event
<1>4. \A t \in Target, e \in Event : /\ e <= cutoff => row'[t][e] = Nothing
                                    /\ e > cutoff => row'[t][e] = row[t][e]
  BY <1>1 DEF Event
<1>5. BookOK'
  <2>1. EventsOK'
    BY <1>1, <1>3 DEF NoteInv, BookOK, EventsOK
  <2> SUFFICES ASSUME NEW t \in Target PROVE (RowsOK(t) /\ AckedOK(t) /\ OwedOK(t))'
    BY <2>1 DEF BookOK
  <2>0. /\ RowsOK(t) /\ AckedOK(t) /\ OwedOK(t)
        /\ acked[t] \subseteq Event /\ owed[t] \subseteq Event
    BY DEF NoteInv, BookOK, NoteTypeOK
  <2>2. RowsOK(t)'
    BY <1>1, <1>3, <1>4, <2>0 DEF RowsOK
  <2>3. AckedOK(t)'
    BY <1>1, <1>3, <1>4, <2>0 DEF AckedOK, Past
  <2>4. \A e \in owed'[t] : e \in owed[t] /\ e \in Event /\ e > cutoff
    BY <1>1, <2>0
  <2>5. OwedOK(t)'
    BY <1>1, <1>3, <1>4, <2>0, <2>4 DEF OwedOK
  <2> QED BY <2>2, <2>3, <2>5
<1>6. ASSUME NEW q \in Pass, NEW t \in Target, NEW e \in Event,
             IsSending(q, t)', claim'[q][t].event = e
      PROVE  age'[q] <= SendTicks /\ InFlight(q, t, e)'
  <2>1. age[q] <= SendTicks /\ InFlight(q, t, e)
    BY <1>1, <1>6, SendingFacts DEF IsSending
  <2> QED BY <1>1, <1>3, <1>4, <2>1 DEF InFlight, Past
<1>7. ClaimsOK'
  BY <1>2, <1>6, SendingNext
<1> QED BY <1>2, <1>5, <1>7 DEF NoteInv

-----------------------------------------------------------------------------
(* Subscriptions.                                                           *)

(* A new subscription starts after every event there is, so whatever was    *)
(* confirmed to an earlier one stays past.                                  *)
LEMMA SubscribeKeeps ==
  ASSUME NoteInv, NEW t \in Target, Subscribe(t)
  PROVE  NoteInv'
<1>1. PICK kinds \in Interests :
        /\ sub' = [sub EXCEPT ![t] =
                     IF @ = Nothing THEN [kinds |-> kinds, last |-> LatestEvent]
                                 ELSE [@ EXCEPT !.kinds = kinds]]
        /\ owed' = [owed EXCEPT ![t] = {e \in @ : event[e] \in kinds \/ row[t][e] # Nothing}]
        /\ UNCHANGED <<task, event, newest, row, claim, age, acked>>
  BY DEF Subscribe
<1>0. /\ newest \in 0..MaxEvents /\ sub \in [Target -> Subs \cup {Nothing}]
      /\ owed \in [Target -> SUBSET Event] /\ acked \in [Target -> SUBSET Event]
      /\ LatestEvent \in 0..MaxEvents
      /\ \A e \in Event : event[e] # Nothing => e <= LatestEvent
      /\ LatestEvent <= newest
  <2>1. NoteTypeOK
    BY DEF NoteInv
  <2> QED BY <2>1, LatestIsKnown, NotificationAssumption DEF NoteTypeOK, NoteInv, BookOK, EventsOK
<1>2. /\ sub'[t] \in Subs /\ sub'[t].kinds = kinds
      /\ sub[t] = Nothing => sub'[t].last = LatestEvent
      /\ sub[t] # Nothing => sub'[t].last = sub[t].last
      /\ \A u \in Target \ {t} : sub'[u] = sub[u]
  <2>1. CASE sub[t] = Nothing
    <3>1. sub'[t] = [kinds |-> kinds, last |-> LatestEvent]
      BY <1>0, <1>1, <2>1
    <3> QED BY <1>0, <1>1, <2>1, <3>1 DEF Subs
  <2>2. CASE sub[t] # Nothing
    <3>1. sub[t] \in Subs
      BY <1>0, <2>2
    <3>2. sub'[t] = [sub[t] EXCEPT !.kinds = kinds]
      BY <1>0, <1>1, <2>2
    <3>3. sub'[t] = [kinds |-> kinds, last |-> sub[t].last] /\ sub[t].last \in 0..MaxEvents
      BY <3>1, <3>2 DEF Subs
    <3> QED BY <1>0, <1>1, <2>2, <3>3 DEF Subs
  <2> QED BY <2>1, <2>2
<1>3. /\ sub' \in [Target -> Subs \cup {Nothing}]
      /\ sub'[t] # Nothing
  BY <1>0, <1>1, <1>2, NothingAssumption
<1>4. /\ owed' \in [Target -> SUBSET Event]
      /\ owed'[t] = {e \in owed[t] : event[e] \in kinds \/ row[t][e] # Nothing}
      /\ \A u \in Target \ {t} : owed'[u] = owed[u]
  BY <1>0, <1>1
<1>5. NoteTypeOK'
  BY <1>1, <1>3, <1>4 DEF NoteInv, NoteTypeOK
<1>6. \A u \in Target, e \in Event : Past(u, e) => Past(u, e)'
  BY <1>0, <1>1, <1>2, <1>3 DEF Past
<1>7. BookOK'
  <2>1. EventsOK'
    BY <1>1 DEF NoteInv, BookOK, EventsOK
  <2> SUFFICES ASSUME NEW u \in Target PROVE (RowsOK(u) /\ AckedOK(u) /\ OwedOK(u))'
    BY <2>1 DEF BookOK
  <2>0. RowsOK(u) /\ AckedOK(u) /\ OwedOK(u)
    BY DEF NoteInv, BookOK
  <2>2. RowsOK(u)'
    BY <1>0, <1>1, <1>2, <1>3, <2>0 DEF RowsOK
  <2>3. AckedOK(u)'
    BY <1>0, <1>1, <1>6, <2>0 DEF AckedOK
  <2>4. OwedOK(u)'
    <3>1. CASE u # t
      BY <1>1, <1>2, <1>4, <2>0, <3>1 DEF OwedOK
    <3>2. CASE u = t
      BY <1>0, <1>1, <1>2, <1>3, <1>4, <2>0, <3>2 DEF OwedOK
    <3> QED BY <3>1, <3>2
  <2> QED BY <2>2, <2>3, <2>4
<1>8. ASSUME NEW q \in Pass, NEW u \in Target, NEW e \in Event,
             IsSending(q, u)', claim'[q][u].event = e
      PROVE  age'[q] <= SendTicks /\ InFlight(q, u, e)'
  <2>1. age[q] <= SendTicks /\ InFlight(q, u, e)
    BY <1>1, <1>8, SendingFacts DEF IsSending
  <2> QED BY <1>1, <1>6, <2>1 DEF InFlight
<1>9. ClaimsOK'
  BY <1>5, <1>8, SendingNext
<1> QED BY <1>5, <1>7, <1>9 DEF NoteInv

(* Where subscriptions go, and their rows and debts with them, every event  *)
(* is past.                                                                 *)
LEMMA GonePast ==
  ASSUME NEW t \in Target, sub'[t] = Nothing, owed'[t] = {},
         \A e \in Event : row'[t][e] = Nothing,
         acked'[t] \subseteq Event, \A e \in acked'[t] : e <= newest'
  PROVE  (RowsOK(t) /\ AckedOK(t) /\ OwedOK(t))'
<1>1. RowsOK(t)' /\ OwedOK(t)'
  BY DEF RowsOK, OwedOK
<1>2. AckedOK(t)'
  BY DEF AckedOK, Past
<1> QED BY <1>1, <1>2

LEMMA UnsubscribeKeeps ==
  ASSUME NoteInv, NEW t \in Target, Unsubscribe(t)
  PROVE  NoteInv'
<1>1. /\ sub'[t] = Nothing /\ owed'[t] = {} /\ \A e \in Event : row'[t][e] = Nothing
      /\ \A u \in Target \ {t} : sub'[u] = sub[u] /\ owed'[u] = owed[u] /\ row'[u] = row[u]
  BY DEF Unsubscribe, SubsWithout, OwedWithout, NoRows, NoteInv, NoteTypeOK
<1>2. NoteTypeOK'
  BY DEF Unsubscribe, SubsWithout, OwedWithout, NoRows, NoteInv, NoteTypeOK
<1>3. BookOK'
  <2>1. EventsOK'
    BY DEF NoteInv, BookOK, EventsOK, Unsubscribe
  <2> SUFFICES ASSUME NEW u \in Target PROVE (RowsOK(u) /\ AckedOK(u) /\ OwedOK(u))'
    BY <2>1 DEF BookOK
  <2>0. /\ RowsOK(u) /\ AckedOK(u) /\ OwedOK(u)
        /\ acked'[u] = acked[u] /\ acked[u] \subseteq Event
        /\ newest' = newest /\ event' = event
    BY DEF NoteInv, BookOK, NoteTypeOK, Unsubscribe
  <2>2. CASE u = t
    BY <1>1, <2>0, <2>2, GonePast DEF AckedOK
  <2>3. CASE u # t
    BY <1>1, <2>0, <2>3 DEF RowsOK, AckedOK, OwedOK, Past
  <2> QED BY <2>2, <2>3
<1>4. ASSUME NEW q \in Pass, NEW u \in Target, NEW e \in Event,
             IsSending(q, u)', claim'[q][u].event = e
      PROVE  age'[q] <= SendTicks /\ InFlight(q, u, e)'
  <2>1. age[q] <= SendTicks /\ InFlight(q, u, e)
    BY <1>4, SendingFacts DEF IsSending, Unsubscribe
  <2>2. CASE u = t
    BY <1>1, <2>1, <2>2 DEF InFlight, Past, Unsubscribe
  <2>3. CASE u # t
    BY <1>1, <2>1, <2>3 DEF InFlight, Past, Unsubscribe
  <2> QED BY <2>2, <2>3
<1>5. ClaimsOK'
  BY <1>2, <1>4, SendingNext
<1> QED BY <1>2, <1>3, <1>5 DEF NoteInv

-----------------------------------------------------------------------------
(* Time, and the answers of the adapter.                                    *)

(* A tick shortens the lease and ages the pass that is sending by one; the  *)
(* pass is not there any more when SendTicks are over.                      *)
LEMMA TickKeeps ==
  ASSUME NoteInv, NoteTick
  PROVE  NoteInv'
<1>1. ASSUME NEW t \in Target, NEW e \in Event
      PROVE  /\ row'[t][e] \in Rows \cup {Nothing}
             /\ row'[t][e] = Nothing <=> row[t][e] = Nothing
             /\ row[t][e] # Nothing =>
                  /\ row[t][e] \in Rows
                  /\ row'[t][e].state = row[t][e].state
                  /\ row[t][e].state = "delivering" =>
                       /\ row'[t][e].token = row[t][e].token
                       /\ row'[t][e].left >= row[t][e].left - 1
                       /\ row'[t][e] \in Rows
  <2>1. row'[t][e] = Passed(row[t][e]) /\ row[t][e] \in Rows \cup {Nothing}
    BY DEF NoteTick, NoteInv, NoteTypeOK
  <2>2. CASE row[t][e] = Nothing
    BY <2>1, <2>2 DEF Passed
  <2>3. CASE row[t][e] \in Rows
    BY <2>1, <2>3, PassedRow, NothingAssumption
  <2> QED BY <2>1, <2>2, <2>3
<1>2. \A q \in Pass : /\ age[q] \in 0..LeaseTicks
                      /\ Sending(q) => age'[q] = age[q] + 1 /\ age[q] < SendTicks
                      /\ ~ Sending(q) => age'[q] = 0
  BY DEF NoteTick, NoteInv, NoteTypeOK
<1>3. NoteTypeOK'
  <2>1. row' \in [Target -> [Event -> Rows \cup {Nothing}]]
    <3>1. row' = [t \in Target |-> [e \in Event |-> Passed(row[t][e])]]
      BY DEF NoteTick
    <3>2. \A t \in Target, e \in Event : Passed(row[t][e]) \in Rows \cup {Nothing}
      BY <1>1, <3>1
    <3> QED BY <3>1, <3>2
  <2>2. age' \in [Pass -> 0..LeaseTicks]
    <3>1. age' = [p \in Pass |-> IF Sending(p) THEN age[p] + 1 ELSE 0]
      BY DEF NoteTick
    <3> QED BY <1>2, <3>1, NotificationAssumption
  <2> QED BY <2>1, <2>2 DEF NoteTick, NoteInv, NoteTypeOK
<1>4. BookOK'
  BY <1>1, BookKept DEF NoteTick, NoteInv
<1>5. ASSUME NEW q \in Pass, NEW t \in Target, NEW e \in Event,
             IsSending(q, t)', claim'[q][t].event = e
      PROVE  age'[q] <= SendTicks /\ InFlight(q, t, e)'
  <2>1. age[q] <= SendTicks /\ InFlight(q, t, e)
    BY <1>5, SendingFacts DEF IsSending, NoteTick
  <2>2. Sending(q)
    BY <1>5 DEF Sending, IsSending, NoteTick
  <2>3. age'[q] = age[q] + 1 /\ age'[q] <= SendTicks /\ age[q] \in Nat
    BY <1>2, <2>2, NotificationAssumption
  <2>4. newest' = newest /\ event' = event /\ sub' = sub
    BY DEF NoteTick
  <2>5. CASE row[t][e] = Nothing
    BY <1>1, <2>1, <2>3, <2>4, <2>5 DEF InFlight, Past
  <2>6. CASE row[t][e] # Nothing
    <3>1. /\ row[t][e].state = "delivering" /\ row[t][e].token = q
          /\ row[t][e].left >= LeaseTicks - age[q]
      BY <2>1, <2>6 DEF InFlight
    <3>2. /\ row'[t][e] # Nothing /\ row'[t][e].state = "delivering" /\ row'[t][e].token = q
          /\ row'[t][e].left >= row[t][e].left - 1
          /\ row[t][e].left \in Nat /\ row'[t][e].left \in Nat
      BY <1>1, <2>6, <3>1, RowKinds, NotificationAssumption
    <3>3. row'[t][e].left >= LeaseTicks - age'[q]
      BY <2>3, <3>1, <3>2, NotificationAssumption
    <3> QED BY <2>1, <2>3, <2>4, <3>2, <3>3 DEF InFlight
  <2> QED BY <2>5, <2>6
<1>6. ClaimsOK'
  BY <1>3, <1>5, SendingNext
<1> QED BY <1>3, <1>4, <1>6 DEF NoteInv

LEMMA SendKeeps ==
  ASSUME NoteInv, NEW p \in Pass, NEW t \in Target, Send(p, t)
  PROVE  NoteInv'
<1>1. PICK answer \in {"confirmed", "failed"} : claim' = [claim EXCEPT ![p][t].stage = answer]
  BY DEF Send
<1>2. /\ claim[p][t] \in Claims /\ claim \in [Pass -> [Target -> Claims \cup {Nothing}]]
  BY SendingEvent DEF NoteInv, NoteTypeOK, Send
<1>3. /\ claim'[p][t] = [event |-> claim[p][t].event, stage |-> answer]
      /\ claim'[p][t] \in Claims
      /\ \A q \in Pass, u \in Target : q # p \/ u # t => claim'[q][u] = claim[q][u]
      /\ claim' \in [Pass -> [Target -> Claims \cup {Nothing}]]
  <2>1. claim' = [claim EXCEPT ![p] = [claim[p] EXCEPT ![t] = [claim[p][t] EXCEPT !.stage = answer]]]
    BY <1>1, <1>2
  <2>2. [claim[p][t] EXCEPT !.stage = answer] = [event |-> claim[p][t].event, stage |-> answer]
    BY <1>2 DEF Claims
  <2>3. [event |-> claim[p][t].event, stage |-> answer] \in Claims
    BY <1>2 DEF Claims
  <2> QED BY <1>2, <2>1, <2>2, <2>3
<1>4. NoteTypeOK'
  BY <1>3 DEF Send, NoteInv, NoteTypeOK
<1>5. BookOK'
  BY BookKept DEF Send, NoteInv
<1>6. ASSUME NEW q \in Pass, NEW u \in Target, NEW e \in Event,
             IsSending(q, u)', claim'[q][u].event = e
      PROVE  age'[q] <= SendTicks /\ InFlight(q, u, e)'
  <2>1. claim'[q][u] = claim[q][u]
    BY <1>3, <1>6 DEF IsSending
  <2>2. age[q] <= SendTicks /\ InFlight(q, u, e)
    BY <1>6, <2>1, SendingFacts DEF IsSending
  <2> QED BY <2>2, FlightKept DEF Send
<1>7. ClaimsOK'
  BY <1>4, <1>6, SendingNext
<1> QED BY <1>4, <1>5, <1>7 DEF NoteInv

-----------------------------------------------------------------------------
(* Resolutions.                                                             *)

(* A pass that resolves holds the row: nobody else is sending that event,   *)
(* and it sends it no more itself.                                          *)
LEMMA OthersSending ==
  ASSUME NoteInv, NEW p \in Pass, NEW t \in Target, NEW e \in Event, Leased(p, t, e),
         NEW q \in Pass, q # p, InFlight(q, t, e)
  PROVE  FALSE
  BY DEF Leased, InFlight

LEMMA ResolveFailedKeeps ==
  ASSUME NoteInv, NEW p \in Pass, NEW t \in Target, ResolveFailed(p, t)
  PROVE  NoteInv'
<1>1. PICK e \in Event : e = claim[p][t].event /\ Leased(p, t, e)
  BY SendingEvent DEF NoteInv, ResolveFailed
<1> DEFINE r == [state |-> "pending", left |-> 1]
<1>2. r \in Rows /\ r # Nothing
  BY NewRows, NothingAssumption
<1>3. row' = [row EXCEPT ![t][e] = r] /\ row \in [Target -> [Event -> Rows \cup {Nothing}]]
  BY <1>1 DEF ResolveFailed, NoteInv, NoteTypeOK
<1> HIDE DEF r
<1>4. /\ row'[t][e] = r
      /\ \A u \in Target, f \in Event : u # t \/ f # e => row'[u][f] = row[u][f]
      /\ row' \in [Target -> [Event -> Rows \cup {Nothing}]]
  BY <1>2, <1>3
<1>5. /\ claim' \in [Pass -> [Target -> Claims \cup {Nothing}]]
      /\ claim'[p][t] = Nothing
      /\ \A q \in Pass, u \in Target : q # p \/ u # t => claim'[q][u] = claim[q][u]
  BY DroppedClaims DEF ResolveFailed, NoteInv
<1>6. NoteTypeOK'
  BY <1>4, <1>5 DEF ResolveFailed, NoteInv, NoteTypeOK
<1>7. BookOK'
  <2>1. row[t][e] # Nothing /\ row[t][e].state = "delivering" /\ r.state = "pending"
    BY <1>1 DEF Leased, r
  <2> QED BY <1>2, <1>4, <2>1, BookKept DEF ResolveFailed, NoteInv
<1>8. ASSUME NEW q \in Pass, NEW u \in Target, NEW f \in Event,
             IsSending(q, u)', claim'[q][u].event = f
      PROVE  age'[q] <= SendTicks /\ InFlight(q, u, f)'
  <2>1. claim'[q][u] = claim[q][u] /\ (q # p \/ u # t)
    BY <1>5, <1>8 DEF IsSending
  <2>2. age[q] <= SendTicks /\ InFlight(q, u, f)
    BY <1>8, <2>1, SendingFacts DEF IsSending
  <2>3. u # t \/ f # e
    BY <1>1, <2>1, <2>2, OthersSending
  <2> QED BY <1>4, <2>2, <2>3, FlightKept DEF ResolveFailed
<1>9. ClaimsOK'
  BY <1>6, <1>8, SendingNext
<1> QED BY <1>6, <1>7, <1>9 DEF NoteInv

LEMMA ResolveDeliveredKeeps ==
  ASSUME NoteInv, NEW p \in Pass, NEW t \in Target, ResolveDelivered(p, t)
  PROVE  NoteInv'
<1>1. PICK e \in Event : e = claim[p][t].event /\ Leased(p, t, e)
  BY SendingEvent DEF NoteInv, ResolveDelivered
<1>2. /\ claim' \in [Pass -> [Target -> Claims \cup {Nothing}]]
      /\ claim'[p][t] = Nothing
      /\ \A q \in Pass, u \in Target : q # p \/ u # t => claim'[q][u] = claim[q][u]
  BY DroppedClaims DEF ResolveDelivered, NoteInv
<1>3. /\ acked' = [acked EXCEPT ![t] = @ \cup {e}]
      /\ task' = task /\ event' = event /\ newest' = newest /\ age' = age
  BY <1>1 DEF ResolveDelivered
<1>4. /\ sub[t] # Nothing /\ event[e] # Nothing /\ e <= newest
  BY <1>1 DEF Leased, NoteInv, BookOK, EventsOK, RowsOK
<1>5. acked' \in [Target -> SUBSET Event] /\ acked'[t] = acked[t] \cup {e}
      /\ \A u \in Target \ {t} : acked'[u] = acked[u]
  BY <1>3 DEF NoteInv, NoteTypeOK
<1>6. \A f \in acked'[t] : f \in Event /\ f <= newest'
  BY <1>3, <1>4, <1>5 DEF NoteInv, NoteTypeOK, BookOK, AckedOK
<1>7. EventsOK'
  BY <1>3 DEF NoteInv, BookOK, EventsOK
<1>8. ASSUME \A u \in Target \ {t} : sub'[u] = sub[u] /\ owed'[u] = owed[u] /\ row'[u] = row[u],
             NoteTypeOK', (RowsOK(t) /\ AckedOK(t) /\ OwedOK(t))',
             \A f \in Event \ {e} : Past(t, f) => Past(t, f)',
             sub'[t] # Nothing => \A f \in Event \ {e} : row'[t][f] = row[t][f],
             sub'[t] = Nothing => \A f \in Event : row'[t][f] = Nothing
      PROVE  NoteInv'
  <2>1. BookOK'
    <3> SUFFICES ASSUME NEW u \in Target, u # t PROVE (RowsOK(u) /\ AckedOK(u) /\ OwedOK(u))'
      BY <1>7, <1>8 DEF BookOK
    <3>1. RowsOK(u) /\ AckedOK(u) /\ OwedOK(u)
      BY DEF NoteInv, BookOK
    <3>2. /\ sub'[u] = sub[u] /\ owed'[u] = owed[u] /\ row'[u] = row[u] /\ acked'[u] = acked[u]
          /\ event' = event /\ newest' = newest
      BY <1>3, <1>5, <1>8
    <3> HIDE <1>8
    <3> QED BY <3>1, <3>2 DEF RowsOK, AckedOK, OwedOK, Past
  <2>2. ASSUME NEW q \in Pass, NEW u \in Target, NEW f \in Event,
               IsSending(q, u)', claim'[q][u].event = f
        PROVE  age'[q] <= SendTicks /\ InFlight(q, u, f)'
    <3>1. claim'[q][u] = claim[q][u] /\ (q # p \/ u # t)
      BY <1>2, <2>2 DEF IsSending
    <3>2. age[q] <= SendTicks /\ InFlight(q, u, f)
      BY <2>2, <3>1, SendingFacts DEF IsSending
    <3>3. u # t \/ f # e
      BY <1>1, <3>1, <3>2, OthersSending
    <3>4. CASE u # t
      BY <1>3, <1>8, <3>2, <3>4 DEF InFlight, Past
    <3>5. CASE u = t /\ sub'[t] = Nothing
      BY <1>3, <1>8, <3>2, <3>5 DEF InFlight, Past
    <3>6. CASE u = t /\ sub'[t] # Nothing
      BY <1>3, <1>8, <3>2, <3>3, <3>6 DEF InFlight
    <3> QED BY <3>4, <3>5, <3>6
  <2>3. ClaimsOK'
    BY <1>8, <2>2, SendingNext
  <2> QED BY <1>8, <2>1, <2>3 DEF NoteInv
<1>9. CASE event[e] \in LastWords
  <2>1. sub' = SubsWithout({t}) /\ owed' = OwedWithout({t}) /\ row' = [row EXCEPT ![t] = NoRows]
    BY <1>1, <1>9 DEF ResolveDelivered
  <2>2. /\ sub'[t] = Nothing /\ owed'[t] = {} /\ \A f \in Event : row'[t][f] = Nothing
        /\ \A u \in Target \ {t} : sub'[u] = sub[u] /\ owed'[u] = owed[u] /\ row'[u] = row[u]
    BY <2>1 DEF SubsWithout, OwedWithout, NoRows, NoteInv, NoteTypeOK
  <2>3. NoteTypeOK'
    BY <1>2, <1>3, <1>5, <2>1 DEF SubsWithout, OwedWithout, NoRows, NoteInv, NoteTypeOK
  <2>4. (RowsOK(t) /\ AckedOK(t) /\ OwedOK(t))'
    BY <1>6, <2>2, GonePast
  <2>5. \A f \in Event \ {e} : Past(t, f)'
    BY <2>2 DEF Past
  <2> QED BY <1>8, <2>2, <2>3, <2>4, <2>5
<1>10. CASE event[e] \notin LastWords
  <2> DEFINE place == IF sub[t].last > e THEN sub[t].last ELSE e
             done == [state |-> "delivered"]
  <2>1. /\ sub' = [sub EXCEPT ![t].last = IF @ > e THEN @ ELSE e]
        /\ owed' = [owed EXCEPT ![t] = @ \ {e}]
        /\ row' = [row EXCEPT ![t][e] = done]
    BY <1>1, <1>10 DEF ResolveDelivered
  <2>2. /\ sub[t] \in Subs /\ sub[t].last \in 0..MaxEvents
        /\ sub[t] = [kinds |-> sub[t].kinds, last |-> sub[t].last] /\ sub[t].kinds \in Interests
    <3>1. sub[t] \in Subs
      BY <1>4 DEF NoteInv, NoteTypeOK
    <3> QED BY <3>1 DEF Subs
  <2>3. done \in Rows /\ done # Nothing
    BY NewRows, NothingAssumption
  <2>4. /\ place \in 0..MaxEvents /\ place >= sub[t].last /\ place >= e
        /\ place = sub[t].last \/ place = e
    BY <2>2, NotificationAssumption DEF Event
  <2> HIDE DEF place, done
  <2>5. /\ sub'[t] = [kinds |-> sub[t].kinds, last |-> place]
        /\ \A u \in Target \ {t} : sub'[u] = sub[u]
    <3>1. sub' = [sub EXCEPT ![t] = [sub[t] EXCEPT !.last = place]]
      BY <2>1 DEF NoteInv, NoteTypeOK, place
    <3>2. [sub[t] EXCEPT !.last = place] = [kinds |-> sub[t].kinds, last |-> place]
      BY <2>2
    <3> QED BY <3>1, <3>2 DEF NoteInv, NoteTypeOK
  <2>6. /\ sub'[t] \in Subs /\ sub'[t] # Nothing
        /\ sub' \in [Target -> Subs \cup {Nothing}]
    <3>1. sub'[t] \in Subs
      BY <2>2, <2>4, <2>5 DEF Subs
    <3> QED BY <2>1, <2>5, <3>1, NothingAssumption DEF NoteInv, NoteTypeOK
  <2>7. /\ owed'[t] = owed[t] \ {e} /\ \A u \in Target \ {t} : owed'[u] = owed[u]
        /\ owed' \in [Target -> SUBSET Event]
    BY <2>1 DEF NoteInv, NoteTypeOK
  <2>8. /\ row'[t][e] = done /\ \A u \in Target \ {t} : row'[u] = row[u]
        /\ \A f \in Event \ {e} : row'[t][f] = row[t][f]
        /\ row' \in [Target -> [Event -> Rows \cup {Nothing}]]
    BY <2>1, <2>3 DEF NoteInv, NoteTypeOK
  <2>9. NoteTypeOK'
    BY <1>2, <1>3, <1>5, <2>6, <2>7, <2>8 DEF NoteInv, NoteTypeOK
  <2>10. /\ RowsOK(t) /\ AckedOK(t) /\ OwedOK(t)
         /\ owed[t] \subseteq Event /\ acked[t] \subseteq Event /\ newest \in Nat
    BY NotificationAssumption DEF NoteInv, BookOK, NoteTypeOK
  <2>11. \A f \in Event : f # e /\ Past(t, f) => Past(t, f)'
    BY <1>3, <1>4, <2>2, <2>4, <2>5 DEF Past, Event
  <2>12. RowsOK(t)'
    BY <1>3, <1>4, <2>2, <2>4, <2>5, <2>6, <2>8, <2>10 DEF RowsOK
  <2>13. AckedOK(t)'
    <3> SUFFICES ASSUME NEW f \in acked'[t]
                 PROVE  /\ f <= newest'
                        /\ IF row'[t][f] = Nothing THEN Past(t, f)' ELSE row'[t][f].state = "delivered"
      BY DEF AckedOK, Past
    <3>1. CASE f = e
      BY <1>3, <1>4, <2>3, <2>8, <3>1 DEF done
    <3>2. CASE f # e
      BY <1>3, <1>5, <2>8, <2>10, <2>11, <3>2 DEF AckedOK
    <3> QED BY <3>1, <3>2
  <2>14. OwedOK(t)'
    <3> SUFFICES ASSUME NEW f \in owed'[t]
                 PROVE  /\ sub'[t] # Nothing /\ event'[f] # Nothing
                        /\ IF row'[t][f] # Nothing THEN row'[t][f].state # "delivered"
                           ELSE /\ f > sub'[t].last /\ event'[f] \in sub'[t].kinds
                                /\ \A g \in Event : row'[t][g] # Nothing => g < f
      BY DEF OwedOK
    <3>1. f \in owed[t] /\ f # e /\ f \in Event /\ row'[t][f] = row[t][f]
      BY <2>7, <2>8, <2>10
    <3>2. row[t][e] # Nothing
      BY <1>1 DEF Leased
    <3>3. CASE row[t][f] # Nothing
      BY <1>3, <2>6, <2>10, <3>1, <3>3 DEF OwedOK
    <3>4. CASE row[t][f] = Nothing
      <4>1. f > sub[t].last /\ e < f /\ event[f] \in sub[t].kinds /\ event[f] # Nothing
            /\ \A g \in Event : row[t][g] # Nothing => g < f
        BY <2>10, <3>1, <3>2, <3>4 DEF OwedOK
      <4>2. f > place
        BY <2>4, <4>1
      <4>3. \A g \in Event : row'[t][g] # Nothing => g < f
        BY <2>8, <4>1
      <4> QED BY <1>3, <2>5, <2>6, <3>1, <3>4, <4>1, <4>2, <4>3
    <3> QED BY <3>3, <3>4
  <2> QED BY <1>8, <2>5, <2>6, <2>7, <2>8, <2>9, <2>11, <2>12, <2>13, <2>14
<1> QED BY <1>9, <1>10

(* A pass that gives up, or crashes, leaves its rows as they are, under a   *)
(* token that nobody holds.                                                 *)
LEMMA AbandonKeeps ==
  ASSUME NoteInv, NEW p \in Pass, NEW gone \in SUBSET Target,
         claim' = [claim EXCEPT ![p] = [t \in Target |-> IF t \in gone THEN Nothing ELSE claim[p][t]]],
         row' = [t \in Target |-> IF t \in gone THEN Unclaimed(p, t) ELSE row[t]],
         UNCHANGED <<task, event, newest, sub, age, acked, owed>>
  PROVE  NoteInv'
<1>1. /\ claim' \in [Pass -> [Target -> Claims \cup {Nothing}]]
      /\ \A t \in gone : claim'[p][t] = Nothing
      /\ \A q \in Pass, t \in Target : q # p \/ t \notin gone => claim'[q][t] = claim[q][t]
  BY DEF NoteInv, NoteTypeOK
<1>2. \A t \in gone : row'[t] = Unclaimed(p, t)
  OBVIOUS
<1>3. \A t \in Target \ gone : row'[t] = row[t]
  OBVIOUS
<1>4. NoteTypeOK'
  <2>1. row' \in [Target -> [Event -> Rows \cup {Nothing}]]
    BY UnclaimedRows DEF NoteInv, NoteTypeOK
  <2> QED BY <1>1, <2>1 DEF NoteInv, NoteTypeOK
<1>5. BookOK'
  <2>1. ASSUME NEW t \in Target, NEW e \in Event
        PROVE  /\ row'[t][e] = Nothing <=> row[t][e] = Nothing
               /\ row[t][e] # Nothing =>
                    (row'[t][e].state = "delivered" <=> row[t][e].state = "delivered")
    BY <1>2, <1>3, UnclaimedRows DEF NoteInv
  <2> QED BY <2>1, BookKept DEF NoteInv
<1>6. ASSUME NEW q \in Pass, NEW t \in Target, NEW e \in Event,
             IsSending(q, t)', claim'[q][t].event = e
      PROVE  age'[q] <= SendTicks /\ InFlight(q, t, e)'
  <2>1. claim'[q][t] = claim[q][t] /\ (q # p \/ t \notin gone)
    BY <1>1, <1>6 DEF IsSending
  <2>2. age[q] <= SendTicks /\ InFlight(q, t, e)
    BY <1>6, <2>1, SendingFacts DEF IsSending
  <2>3. CASE t \notin gone
    BY <1>3, <2>2, <2>3, FlightKept
  <2>4. CASE t \in gone /\ row[t][e] = Nothing
    <3>1. row'[t][e] = row[t][e]
      BY <1>2, <2>4, UnclaimedRows DEF NoteInv
    <3> QED BY <2>2, <3>1, FlightKept
  <2>5. CASE t \in gone /\ row[t][e] # Nothing
    <3>1. row[t][e].state = "delivering" /\ row[t][e].token # p
      BY <2>1, <2>2, <2>5 DEF InFlight
    <3>2. row'[t][e] = row[t][e]
      BY <1>2, <2>5, <3>1, UnclaimedRows DEF NoteInv
    <3> QED BY <2>2, <3>2, FlightKept
  <2> QED BY <2>3, <2>4, <2>5
<1>7. ClaimsOK'
  BY <1>4, <1>6, SendingNext
<1> QED BY <1>4, <1>5, <1>7 DEF NoteInv

LEMMA ResolveNothingKeeps ==
  ASSUME NoteInv, NEW p \in Pass, NEW t \in Target, ResolveNothing(p, t)
  PROVE  NoteInv'
<1>1. claim' = [claim EXCEPT ![p] = [u \in Target |-> IF u \in {t} THEN Nothing ELSE claim[p][u]]]
  BY DEF ResolveNothing, Drop, NoteInv, NoteTypeOK
<1>2. row' = [u \in Target |-> IF u \in {t} THEN Unclaimed(p, u) ELSE row[u]]
  BY DEF ResolveNothing, NoteInv, NoteTypeOK
<1> QED BY <1>1, <1>2, AbandonKeeps DEF ResolveNothing

LEMMA CrashPassKeeps ==
  ASSUME NoteInv, NEW p \in Pass, CrashPass(p)
  PROVE  NoteInv'
<1>1. claim' = [claim EXCEPT ![p] = [u \in Target |-> IF u \in Target THEN Nothing ELSE claim[p][u]]]
  BY DEF CrashPass, NoClaims
<1>2. row' = [u \in Target |-> IF u \in Target THEN Unclaimed(p, u) ELSE row[u]]
  BY DEF CrashPass
<1> QED BY <1>1, <1>2, AbandonKeeps DEF CrashPass

-----------------------------------------------------------------------------
(* Claims.                                                                  *)

(* What is due is not confirmed, and nobody is sending it: a delivery that  *)
(* is being sent has a lease that has not run out.                          *)
LEMMA DueFacts ==
  ASSUME NoteInv, NEW t \in Target, sub[t] # Nothing, NEW e \in Due(Derived(t))
  PROVE  /\ e \in Event /\ e <= newest /\ event[e] # Nothing
         /\ Derived(t)[e] # Nothing /\ Derived(t)[e].state # "delivered"
         /\ e \notin acked[t]
         /\ \A q \in Pass : IsSending(q, t) => ~ InFlight(q, t, e)
<1>1. /\ e \in Event /\ Derived(t)[e] # Nothing
      /\ Derived(t)[e].state \in {"pending", "delivering"} /\ Derived(t)[e].left = 0
  BY DEF Due
<1>2. NoteTypeOK /\ RowsOK(t) /\ AckedOK(t) /\ EventsOK
  BY DEF NoteInv, BookOK
<1>3. sub[t] \in Subs /\ sub[t].last \in 0..MaxEvents /\ sub[t].kinds \subseteq Kinds
  BY <1>2, NotificationAssumption DEF NoteTypeOK, Subs
<1>4. CASE row[t][e] # Nothing
  <2>1. Derived(t)[e] = row[t][e]
    BY <1>1, <1>2, <1>4, DerivedRow
  <2>2. event[e] # Nothing /\ e <= newest
    BY <1>1, <1>2, <1>4 DEF RowsOK, EventsOK
  <2>3. e \notin acked[t]
    BY <1>1, <1>2, <1>4, <2>1 DEF AckedOK
  <2>4. ASSUME NEW q \in Pass, IsSending(q, t), InFlight(q, t, e) PROVE FALSE
    <3>1. age[q] <= SendTicks /\ age[q] \in Nat
      BY <1>2, <2>4, NotificationAssumption DEF NoteInv, ClaimsOK, NoteTypeOK
    <3>2. row[t][e].left >= LeaseTicks - age[q]
      BY <1>4, <2>4 DEF InFlight
    <3> QED BY <1>1, <2>1, <3>1, <3>2, NotificationAssumption
  <2> QED BY <1>1, <2>1, <2>2, <2>3, <2>4
<1>5. CASE row[t][e] = Nothing
  <2>1. e \in Undelivered(t)
    BY <1>1, <1>2, <1>5, DerivedRow
  <2>2. event[e] # Nothing /\ e > sub[t].last
    BY <1>3, <2>1, NotificationAssumption DEF Undelivered
  <2>3. ~ Past(t, e)
    BY <1>1, <1>3, <2>2 DEF Past, Event
  <2> QED BY <1>1, <1>2, <1>5, <2>2, <2>3 DEF AckedOK, InFlight, EventsOK
<1> QED BY <1>4, <1>5

(* A delivery derived, or leased, leaves the books of a subscription in     *)
(* order: the oldest event comes first.                                     *)
LEMMA ClaimedBook ==
  ASSUME NoteInv, NEW t \in Target, sub[t] # Nothing,
         UNCHANGED <<event, newest, acked>>, sub'[t] = sub[t], owed'[t] = owed[t],
         \A e \in Event : /\ row'[t][e] = Nothing <=> Derived(t)[e] = Nothing
                          /\ row'[t][e] = Derived(t)[e]
                             \/ (e \in Due(Derived(t)) /\ row'[t][e].state = "delivering")
  PROVE  (RowsOK(t) /\ AckedOK(t) /\ OwedOK(t))'
<1>0. /\ NoteTypeOK /\ RowsOK(t) /\ AckedOK(t) /\ OwedOK(t)
      /\ owed[t] \subseteq Event /\ acked[t] \subseteq Event
      /\ sub[t] \in Subs /\ sub[t].last \in 0..MaxEvents /\ sub[t].kinds \subseteq Kinds
  BY NotificationAssumption DEF NoteInv, BookOK, NoteTypeOK, Subs
<1>1. ASSUME NEW e \in Event, row[t][e] = Nothing, Derived(t)[e] # Nothing
      PROVE  /\ e \in Undelivered(t) /\ \A f \in Undelivered(t) : e <= f
             /\ Derived(t)[e].state = "pending"
             /\ event[e] # Nothing /\ e > sub[t].last
  <2>1. /\ e \in Undelivered(t) /\ \A f \in Undelivered(t) : e <= f
        /\ Derived(t)[e] = [state |-> "pending", left |-> 0]
    BY <1>0, <1>1, DerivedRow
  <2> QED BY <1>0, <2>1, NotificationAssumption DEF Undelivered
<1>2. \A e \in Event : row[t][e] # Nothing => Derived(t)[e] = row[t][e]
  BY <1>0, DerivedRow
<1>3. RowsOK(t)'
  BY <1>0, <1>1, <1>2 DEF RowsOK
<1>4. AckedOK(t)'
  <2> SUFFICES ASSUME NEW e \in acked[t]
               PROVE  /\ e <= newest
                      /\ IF row'[t][e] = Nothing THEN Past(t, e) ELSE row'[t][e].state = "delivered"
    BY DEF AckedOK, Past
  <2>1. e \in Event /\ e <= newest /\ e \notin Due(Derived(t))
    BY <1>0, DueFacts DEF AckedOK
  <2>2. row'[t][e] = Derived(t)[e]
    BY <2>1
  <2>3. CASE row[t][e] # Nothing
    BY <1>0, <1>2, <2>1, <2>2, <2>3 DEF AckedOK
  <2>4. CASE row[t][e] = Nothing
    <3>1. Past(t, e)
      BY <1>0, <2>4 DEF AckedOK
    <3>2. Derived(t)[e] = Nothing
      BY <1>0, <1>1, <2>1, <2>4, <3>1 DEF Past, Event
    <3> QED BY <2>1, <2>2, <3>1, <3>2
  <2> QED BY <2>3, <2>4
<1>5. OwedOK(t)'
  <2> SUFFICES ASSUME NEW e \in owed[t]
               PROVE  /\ sub[t] # Nothing /\ event[e] # Nothing
                      /\ IF row'[t][e] # Nothing THEN row'[t][e].state # "delivered"
                         ELSE /\ e > sub[t].last /\ event[e] \in sub[t].kinds
                              /\ \A f \in Event : row'[t][f] # Nothing => f < e
    BY DEF OwedOK
  <2>1. e \in Event /\ event[e] # Nothing
    BY <1>0 DEF OwedOK
  <2>2. CASE row[t][e] # Nothing
    <3>1. Derived(t)[e] = row[t][e] /\ row[t][e].state # "delivered"
      BY <1>0, <1>2, <2>1, <2>2 DEF OwedOK
    <3> QED BY <2>1, <2>2, <3>1
  <2>3. CASE row[t][e] = Nothing
    <3>1. e > sub[t].last /\ event[e] \in sub[t].kinds
          /\ \A f \in Event : row[t][f] # Nothing => f < e
      BY <1>0, <2>3 DEF OwedOK
    <3>2. e \in Undelivered(t)
      BY <2>1, <2>3, <3>1 DEF Undelivered
    <3>3. CASE Derived(t)[e] # Nothing
      BY <1>1, <2>1, <2>3, <3>3
    <3>4. CASE Derived(t)[e] = Nothing
      <4>1. ASSUME NEW f \in Event, row'[t][f] # Nothing PROVE f < e
        <5>1. Derived(t)[f] # Nothing
          BY <4>1
        <5>2. CASE row[t][f] # Nothing
          BY <3>1, <5>2
        <5>3. CASE row[t][f] = Nothing
          <6>1. f <= e /\ f # e
            BY <1>1, <3>2, <3>4, <5>1, <5>3
          <6> QED BY <2>1, <6>1 DEF Event
        <5> QED BY <5>2, <5>3
      <4> QED BY <2>1, <3>1, <3>4, <4>1
    <3> QED BY <3>3, <3>4
  <2> QED BY <2>2, <2>3
<1> QED BY <1>3, <1>4, <1>5

LEMMA ClaimKeeps ==
  ASSUME NoteInv, NEW p \in Pass, ClaimDeliveries(p)
  PROVE  NoteInv'
<1>9. PICK finished \in SUBSET Target, mine \in SUBSET Target : \E picked \in [mine -> Event] :
           /\ \A t \in finished : sub[t] # Nothing /\ task = "done" /\ AllDelivered(Derived(t))
           /\ \A t \in mine : t \notin finished /\ sub[t] # Nothing /\ picked[t] \in Due(Derived(t))
           /\ row' = [t \in Target |->
                        IF sub[t] = Nothing \/ t \in finished THEN NoRows
                        ELSE IF t \notin mine THEN Derived(t)
                        ELSE [Derived(t) EXCEPT ![picked[t]] = Lease(p)]]
           /\ claim' = [claim EXCEPT ![p] =
                          [t \in Target |-> IF t \notin mine THEN Nothing
                                            ELSE [event |-> picked[t], stage |-> "sending"]]]
           /\ sub' = SubsWithout(finished)
           /\ owed' = OwedWithout(finished)
  BY ClaimSteps DEF NoteInv
<1>1. PICK picked \in [mine -> Event] :
           /\ \A t \in finished : sub[t] # Nothing /\ task = "done" /\ AllDelivered(Derived(t))
           /\ \A t \in mine : t \notin finished /\ sub[t] # Nothing /\ picked[t] \in Due(Derived(t))
           /\ row' = [t \in Target |->
                        IF sub[t] = Nothing \/ t \in finished THEN NoRows
                        ELSE IF t \notin mine THEN Derived(t)
                        ELSE [Derived(t) EXCEPT ![picked[t]] = Lease(p)]]
           /\ claim' = [claim EXCEPT ![p] =
                          [t \in Target |-> IF t \notin mine THEN Nothing
                                            ELSE [event |-> picked[t], stage |-> "sending"]]]
           /\ sub' = SubsWithout(finished)
           /\ owed' = OwedWithout(finished)
  BY <1>9
<1>0. /\ NoteTypeOK
      /\ task' = task /\ event' = event /\ newest' = newest /\ acked' = acked
      /\ age' = [age EXCEPT ![p] = 0]
  BY DEF ClaimDeliveries, NoteInv
<1>2. Lease(p) \in Rows /\ Lease(p) # Nothing
  BY NewRows, NothingAssumption DEF Lease
<1>3. ASSUME NEW t \in Target, sub[t] = Nothing \/ t \in finished
      PROVE  sub'[t] = Nothing /\ owed'[t] = {} /\ row'[t] = NoRows
  <2>1. sub[t] = Nothing => owed[t] = {}
    BY DEF NoteInv, BookOK, OwedOK
  <2> QED BY <1>1, <1>3, <2>1 DEF SubsWithout, OwedWithout
<1>4. ASSUME NEW t \in Target, sub[t] # Nothing, t \notin finished
      PROVE  sub'[t] = sub[t] /\ owed'[t] = owed[t]
  BY <1>1, <1>4 DEF SubsWithout, OwedWithout
<1>10. ASSUME NEW t \in Target, sub[t] # Nothing, t \notin finished
      PROVE  /\ row'[t] \in [Event -> Rows \cup {Nothing}]
             /\ \A e \in Event : row'[t][e] = Nothing <=> Derived(t)[e] = Nothing
             /\ \A e \in Event \ Due(Derived(t)) : row'[t][e] = Derived(t)[e]
             /\ \A e \in Due(Derived(t)) : row'[t][e] # Derived(t)[e] => row'[t][e].state = "delivering"
             /\ t \in mine => row'[t][picked[t]] = Lease(p)
  <2>1. Derived(t) \in [Event -> Rows \cup {Nothing}]
    BY <1>0, <1>10, DerivedRow
  <2>3. CASE t \notin mine
    <3>1. row'[t] = Derived(t)
      BY <1>1, <1>10, <2>3
    <3> QED BY <2>1, <2>3, <3>1
  <2>4. CASE t \in mine
    <3>1. row'[t] = [Derived(t) EXCEPT ![picked[t]] = Lease(p)]
      BY <1>1, <1>10, <2>4
    <3>4. /\ picked[t] \in Event /\ picked[t] \in Due(Derived(t))
          /\ Derived(t)[picked[t]] # Nothing
      BY <1>1, <1>10, <2>4, DueFacts
    <3> HIDE <1>1
    <3>2. /\ row'[t] \in [Event -> Rows \cup {Nothing}]
          /\ row'[t][picked[t]] = Lease(p)
          /\ \A e \in Event : e # picked[t] => row'[t][e] = Derived(t)[e]
      BY <1>2, <2>1, <3>1, <3>4
    <3>3. Lease(p).state = "delivering"
      BY DEF Lease
    <3>5. Due(Derived(t)) \subseteq Event
      BY DEF Due
    <3> QED BY <1>2, <3>2, <3>3, <3>4, <3>5
  <2> QED BY <2>3, <2>4
<1>5. NoteTypeOK'
  <2>1. row' \in [Target -> [Event -> Rows \cup {Nothing}]]
    <3>1. \A t \in Target : row'[t] \in [Event -> Rows \cup {Nothing}]
      BY <1>3, <1>10 DEF NoRows
    <3>2. row' = [t \in Target |-> row'[t]]
      BY <1>1
    <3> QED BY <3>1, <3>2
  <2>2. claim' \in [Pass -> [Target -> Claims \cup {Nothing}]]
    BY <1>0, <1>1 DEF NoteTypeOK, Claims
  <2>3. /\ sub' \in [Target -> Subs \cup {Nothing}]
        /\ owed' \in [Target -> SUBSET Event]
        /\ age' \in [Pass -> 0..LeaseTicks]
    BY <1>0, <1>1, NotificationAssumption DEF NoteTypeOK, SubsWithout, OwedWithout
  <2> QED BY <1>0, <2>1, <2>2, <2>3 DEF NoteTypeOK
<1>6. BookOK'
  <2>1. EventsOK'
    BY <1>0 DEF NoteInv, BookOK, EventsOK
  <2> SUFFICES ASSUME NEW t \in Target PROVE (RowsOK(t) /\ AckedOK(t) /\ OwedOK(t))'
    BY <2>1 DEF BookOK
  <2>2. CASE sub[t] = Nothing \/ t \in finished
    <3>1. acked'[t] \subseteq Event /\ \A e \in acked'[t] : e <= newest'
      BY <1>0 DEF NoteInv, BookOK, AckedOK, NoteTypeOK
    <3> QED BY <1>3, <2>2, <3>1, GonePast DEF NoRows
  <2>3. CASE sub[t] # Nothing /\ t \notin finished
    <3>1. \A e \in Event : /\ row'[t][e] = Nothing <=> Derived(t)[e] = Nothing
                           /\ row'[t][e] = Derived(t)[e]
                              \/ (e \in Due(Derived(t)) /\ row'[t][e].state = "delivering")
      BY <1>10, <2>3
    <3> QED BY <1>0, <1>4, <2>3, <3>1, ClaimedBook
  <2> QED BY <2>2, <2>3
<1>7. ASSUME NEW q \in Pass, NEW t \in Target, NEW e \in Event,
             IsSending(q, t)', claim'[q][t].event = e
      PROVE  age'[q] <= SendTicks /\ InFlight(q, t, e)'
  <2>1. CASE q = p
    <3>1. t \in mine /\ e = picked[t]
      BY <1>0, <1>1, <1>7, <2>1 DEF IsSending, NoteTypeOK
    <3>2. e <= newest /\ row'[t][e] = Lease(p)
      BY <1>1, <1>10, <3>1, DueFacts
    <3>3. age'[q] = 0
      BY <1>0, <2>1 DEF NoteTypeOK
    <3> QED BY <1>0, <1>2, <2>1, <3>2, <3>3, NotificationAssumption DEF InFlight, Lease
  <2>2. CASE q # p
    <3>1. claim'[q][t] = claim[q][t] /\ age'[q] = age[q]
      BY <1>0, <1>1, <2>2 DEF NoteTypeOK
    <3>2. IsSending(q, t) /\ age[q] <= SendTicks /\ InFlight(q, t, e)
      BY <1>7, <3>1, SendingFacts DEF IsSending
    <3>3. CASE sub[t] = Nothing \/ t \in finished
      BY <1>0, <1>3, <3>1, <3>2, <3>3 DEF InFlight, Past, NoRows
    <3>4. CASE sub[t] # Nothing /\ t \notin finished
      <4>1. e \notin Due(Derived(t))
        BY <3>2, <3>4, DueFacts
      <4>2. row'[t][e] = Derived(t)[e]
        BY <1>10, <3>4, <4>1
      <4>3. row'[t][e] = row[t][e]
        <5>1. CASE row[t][e] # Nothing
          BY <1>0, <3>4, <4>2, <5>1, DerivedRow
        <5>2. CASE row[t][e] = Nothing
          <6>1. Past(t, e)
            BY <3>2, <5>2 DEF InFlight
          <6>2. e \notin Undelivered(t)
            BY <1>0, <3>4, <6>1, NotificationAssumption DEF Past, Undelivered, NoteTypeOK, Subs, Event
          <6> QED BY <1>0, <3>4, <4>2, <5>2, <6>2, DerivedRow
        <5> QED BY <5>1, <5>2
      <4> QED BY <1>0, <1>4, <3>1, <3>2, <3>4, <4>3 DEF InFlight, Past
    <3> QED BY <3>3, <3>4
  <2> QED BY <2>1, <2>2
<1>8. ClaimsOK'
  BY <1>5, <1>7, SendingNext
<1> QED BY <1>5, <1>6, <1>8 DEF NoteInv

-----------------------------------------------------------------------------
(* The invariant, and what follows from it.                                 *)

LEMMA NoteInductive == NoteInv /\ [NoteNext]_noteVars => NoteInv'
<1> SUFFICES ASSUME NoteInv, [NoteNext]_noteVars PROVE NoteInv'
  OBVIOUS
<1>1. CASE UNCHANGED noteVars
  <2>1. NoteTypeOK'
    BY <1>1 DEF noteVars, NoteInv, NoteTypeOK
  <2>2. BookOK'
    BY <1>1, BookKept DEF noteVars, NoteInv
  <2>3. ASSUME NEW q \in Pass, NEW t \in Target, NEW e \in Event,
               IsSending(q, t)', claim'[q][t].event = e
        PROVE  age'[q] <= SendTicks /\ InFlight(q, t, e)'
    <3>1. age[q] <= SendTicks /\ InFlight(q, t, e)
      BY <1>1, <2>3, SendingFacts DEF IsSending, noteVars
    <3> QED BY <1>1, <3>1, FlightKept DEF noteVars
  <2>4. ClaimsOK'
    BY <2>1, <2>3, SendingNext
  <2> QED BY <2>1, <2>2, <2>4 DEF NoteInv
<1>2. CASE Happens \/ Archive \/ Reopen \/ CollectEvents \/ NoteTick
  BY <1>2, HappensKeeps, ArchiveKeeps, ReopenKeeps, CollectKeeps, TickKeeps
<1>3. ASSUME NEW t \in Target, Subscribe(t) \/ Unsubscribe(t) PROVE NoteInv'
  BY <1>3, SubscribeKeeps, UnsubscribeKeeps
<1>4. ASSUME NEW p \in Pass, PassStep(p) PROVE NoteInv'
  BY <1>4, ClaimKeeps, CrashPassKeeps, SendKeeps, ResolveDeliveredKeeps, ResolveFailedKeeps,
     ResolveNothingKeeps DEF PassStep
<1> QED BY <1>1, <1>2, <1>3, <1>4 DEF NoteNext

(* Every state of the notifications satisfies the invariant.                *)
THEOREM NotificationsInvariant == NoteSpec => []NoteInv
<1> QED BY NoteInitially, NoteInductive, PTL DEF NoteSpec

(* A pass gets hold of a delivery in a claim only.                          *)
LEMMA OnlyClaimsTake ==
  ASSUME NoteInv, [NoteNext]_noteVars, NEW p \in Pass, NEW t \in Target,
         claim[p][t] = Nothing, claim'[p][t] # Nothing
  PROVE  ClaimDeliveries(p)
<1>1. \A q \in Pass : claim[q] \in [Target -> Claims \cup {Nothing}]
  BY DEF NoteInv, NoteTypeOK
<1>2. claim # claim'
  OBVIOUS
<1>3. PICK q \in Pass : PassStep(q)
  BY <1>2 DEF NoteNext, noteVars, Happens, TaskMoves, Archive, Reopen, CollectEvents, NoteTick,
              Subscribe, Unsubscribe
<1>4. CASE ClaimDeliveries(q)
  <2>1. PICK new : claim' = [claim EXCEPT ![q] = new]
    BY <1>4 DEF ClaimDeliveries
  <2>2. q = p
    BY <2>1
  <2> QED BY <1>4, <2>2
<1>5. CASE CrashPass(q)
  BY <1>1, <1>5 DEF CrashPass, NoClaims, NoteInv, NoteTypeOK
<1>6. ASSUME NEW u \in Target, Send(q, u) PROVE FALSE
  <2>1. PICK answer \in {"confirmed", "failed"} : claim' = [claim EXCEPT ![q][u].stage = answer]
    BY <1>6 DEF Send
  <2>2. claim[q][u] # Nothing
    BY <1>6 DEF Send
  <2>3. q # p \/ u # t
    BY <2>2
  <2>4. claim'[p][t] = claim[p][t]
    BY <1>1, <2>1, <2>3 DEF NoteInv, NoteTypeOK
  <2> QED BY <2>4
<1>7. ASSUME NEW u \in Target, Drop(q, u) PROVE FALSE
  BY <1>7, DroppedClaims DEF NoteInv
<1> QED BY <1>3, <1>4, <1>5, <1>6, <1>7 DEF PassStep, ResolveDelivered, ResolveFailed, ResolveNothing

(* A pass takes up no event that is recorded as confirmed, nor one that     *)
(* another pass is sending: for any number of passes, destinations and      *)
(* events, as long as a lease outlives the send it was taken for.           *)
THEOREM EventsAreSentOnce == NoteSpec => SentOnce
<1> DEFINE Once ==
      \A p \in Pass, t \in Target :
          claim[p][t] = Nothing /\ claim'[p][t] # Nothing
          => /\ claim'[p][t].event \notin acked[t]
             /\ \A q \in Pass :
                  claim[q][t] # Nothing /\ claim[q][t].stage = "sending"
                  => claim[q][t].event # claim'[p][t].event
<1>1. NoteInv /\ [NoteNext]_noteVars => [Once]_noteVars
  <2> SUFFICES ASSUME NoteInv, [NoteNext]_noteVars, NEW p \in Pass, NEW t \in Target,
                      claim[p][t] = Nothing, claim'[p][t] # Nothing
               PROVE  /\ claim'[p][t].event \notin acked[t]
                      /\ \A q \in Pass :
                           IsSending(q, t) => claim[q][t].event # claim'[p][t].event
    BY DEF IsSending
  <2>1. ClaimDeliveries(p)
    BY OnlyClaimsTake
  <2>6. PICK finished \in SUBSET Target, mine \in SUBSET Target : \E picked \in [mine -> Event] :
           /\ \A u \in finished : sub[u] # Nothing /\ task = "done" /\ AllDelivered(Derived(u))
           /\ \A u \in mine : u \notin finished /\ sub[u] # Nothing /\ picked[u] \in Due(Derived(u))
           /\ row' = [u \in Target |->
                        IF sub[u] = Nothing \/ u \in finished THEN NoRows
                        ELSE IF u \notin mine THEN Derived(u)
                        ELSE [Derived(u) EXCEPT ![picked[u]] = Lease(p)]]
           /\ claim' = [claim EXCEPT ![p] =
                          [u \in Target |-> IF u \notin mine THEN Nothing
                                            ELSE [event |-> picked[u], stage |-> "sending"]]]
           /\ sub' = SubsWithout(finished)
           /\ owed' = OwedWithout(finished)
    BY <2>1, ClaimSteps DEF NoteInv
  <2>2. PICK picked \in [mine -> Event] :
           /\ \A u \in mine : u \notin finished /\ sub[u] # Nothing /\ picked[u] \in Due(Derived(u))
           /\ claim' = [claim EXCEPT ![p] =
                          [u \in Target |-> IF u \notin mine THEN Nothing
                                            ELSE [event |-> picked[u], stage |-> "sending"]]]
    BY <2>6
  <2>3. t \in mine /\ claim'[p][t].event = picked[t]
    BY <2>2 DEF NoteInv, NoteTypeOK
  <2>4. picked[t] \notin acked[t] /\ \A q \in Pass : IsSending(q, t) => ~ InFlight(q, t, picked[t])
    BY <2>2, <2>3, DueFacts
  <2>5. \A q \in Pass : IsSending(q, t) => InFlight(q, t, claim[q][t].event)
    BY DEF NoteInv, ClaimsOK
  <2> QED BY <2>3, <2>4, <2>5
<1>2. NoteSpec => [][Once]_noteVars
  <2> HIDE DEF Once
  <2> QED BY <1>1, NotificationsInvariant, PTL DEF NoteSpec
<1> QED BY <1>2 DEF SentOnce

LEMMA OwedIsAhead == NoteInv => NoneSkipped
  BY DEF NoteInv, BookOK, OwedOK, NoneSkipped

(* A subscription that the cleanup of a finished task removes has told of   *)
(* everything: were an event owed without a delivery, one would have been   *)
(* derived in this very transaction, and it would be pending.               *)
LEMMA CleanupIsLast ==
  ASSUME NoteInv, NEW p \in Pass, NEW t \in Target, ClaimDeliveries(p),
         sub[t] # Nothing, sub'[t] = Nothing
  PROVE  owed[t] = {}
<1>1. PICK finished \in SUBSET Target :
           /\ \A u \in finished : sub[u] # Nothing /\ AllDelivered(Derived(u))
           /\ sub' = SubsWithout(finished)
  BY ClaimSteps DEF NoteInv
<1>2. AllDelivered(Derived(t))
  BY <1>1 DEF SubsWithout
<1>3. OwedOK(t) /\ owed[t] \subseteq Event /\ NoteTypeOK
  BY DEF NoteInv, BookOK, NoteTypeOK
<1>4. ASSUME NEW e \in owed[t] PROVE FALSE
  <2>1. e \in Event
    BY <1>3
  <2>2. CASE row[t][e] # Nothing
    <3>1. Derived(t)[e] = row[t][e] /\ row[t][e].state # "delivered"
      BY <1>3, <2>1, <2>2, DerivedRow DEF OwedOK
    <3> QED BY <1>2, <2>1, <2>2, <3>1 DEF AllDelivered
  <2>3. CASE row[t][e] = Nothing
    <3>1. e \in Undelivered(t)
      BY <1>3, <2>1, <2>3 DEF OwedOK, Undelivered
    <3>2. PICK f \in Undelivered(t) : Derived(t)[f] = [state |-> "pending", left |-> 0]
      BY <1>3, <3>1, DerivedRow
    <3>3. f \in Event /\ Derived(t)[f] # Nothing
      BY <3>2, NewRows, NothingAssumption DEF Undelivered
    <3> QED BY <1>2, <3>2, <3>3 DEF AllDelivered
  <2> QED BY <2>2, <2>3
<1> QED BY <1>4

(* As long as neither an event nor its subscription is deleted (retention,  *)
(* unsubscribing, archiving, the last word), and its kinds are not changed, *)
(* the destination's place never moves past an event it must be told of;    *)
(* and the cleanup of finished tasks deletes no subscription that has still *)
(* to tell of one.                                                          *)
THEOREM NothingIsLost == NoteSpec => NothingOwedIsLost
<1> DEFINE Clean ==
      \A p \in Pass, t \in Target :
          /\ ClaimDeliveries(p)
          /\ task = "done"
          /\ sub[t] # Nothing /\ sub'[t] = Nothing
          => owed[t] = {}
<1>1. NoteInv => Clean
  BY CleanupIsLast
<1>2. NoteSpec => [][Clean]_noteVars
  <2> HIDE DEF Clean
  <2> QED BY <1>1, NotificationsInvariant, PTL
<1>3. NoteSpec => []NoneSkipped
  BY OwedIsAhead, NotificationsInvariant, PTL
<1> QED BY <1>2, <1>3 DEF NothingOwedIsLost, CleanupLosesNothing

-----------------------------------------------------------------------------
(* Agents: graphs of fallbacks. *)

USE DEF Launched

FallbacksOK == fallbacks \in [Profile -> Seq(Profile)]

LEMMA RangeTyped ==
    ASSUME NEW S, NEW s \in Seq(S)
    PROVE  Range(s) \subseteq S /\ \A r : r \in Range(s) <=> \E i \in 1..Len(s) : r = s[i]
  BY DEF Range

LEMMA WithinNone ==
    ASSUME NEW p \in Profile PROVE Within(p, 0) = {p}
<1>1. ASSUME NEW q \in Within(p, 0) PROVE q = p
  BY <1>1 DEF Within
<1>2. p \in Within(p, 0)
  <2> DEFINE path == [i \in 0..0 |-> p]
  <2>1. path \in [0..0 -> Profile] /\ path[0] = p /\ \A i \in 1..0 : FALSE
    OBVIOUS
  <2> QED
    BY <2>1 DEF Within
<1> QED
  BY <1>1, <1>2

LEMMA WithinNext ==
    ASSUME FallbacksOK, NEW p \in Profile, NEW n \in Nat, NEW q \in Within(p, n), NEW r,
           r = q \/ r \in Range(fallbacks[q])
    PROVE  r \in Within(p, n + 1)
<1>1. PICK path \in [0..n -> Profile] :
        /\ path[0] = p /\ path[n] = q
        /\ \A i \in 1..n : path[i] = path[i - 1] \/ path[i] \in Range(fallbacks[path[i - 1]])
  BY DEF Within
<1>2. q \in Profile /\ r \in Profile
  BY RangeTyped DEF Within, FallbacksOK
<1> DEFINE longer == [i \in 0..(n + 1) |-> IF i = n + 1 THEN r ELSE path[i]]
<1>3. longer \in [0..(n + 1) -> Profile]
  BY <1>2
<1>4. longer[0] = p /\ longer[n + 1] = r /\ longer[n] = q
  BY <1>1
<1>5. ASSUME NEW i \in 1..(n + 1)
      PROVE  longer[i] = longer[i - 1] \/ longer[i] \in Range(fallbacks[longer[i - 1]])
  <2>1. CASE i = n + 1
    BY <1>4, <2>1
  <2>2. CASE i # n + 1
    <3>1. i \in 1..n /\ i - 1 \in 0..n /\ i - 1 # n + 1
      BY <2>2
    <3>2. longer[i] = path[i] /\ longer[i - 1] = path[i - 1]
      BY <3>1
    <3> QED
      BY <1>1, <3>1, <3>2
  <2> QED
    BY <2>1, <2>2
<1> QED
  BY <1>2, <1>3, <1>4, <1>5 DEF Within

LEMMA WithinGrows ==
    ASSUME NEW p \in Profile, NEW m \in Nat, NEW n \in Nat, m <= n
    PROVE  Within(p, m) \subseteq Within(p, n)
<1> SUFFICES ASSUME NEW q \in Within(p, m) PROVE q \in Within(p, n)
  OBVIOUS
<1>1. PICK path \in [0..m -> Profile] :
        /\ path[0] = p /\ path[m] = q
        /\ \A i \in 1..m : path[i] = path[i - 1] \/ path[i] \in Range(fallbacks[path[i - 1]])
  BY DEF Within
<1> DEFINE longer == [i \in 0..n |-> IF i <= m THEN path[i] ELSE q]
<1>2. longer \in [0..n -> Profile] /\ longer[0] = p /\ longer[n] = q
  BY <1>1 DEF Within
<1>3. ASSUME NEW i \in 1..n
      PROVE  longer[i] = longer[i - 1] \/ longer[i] \in Range(fallbacks[longer[i - 1]])
  <2>1. CASE i <= m
    <3>1. i \in 1..m /\ longer[i] = path[i] /\ longer[i - 1] = path[i - 1]
      BY <2>1
    <3> QED
      BY <1>1, <3>1
  <2>2. CASE i > m
    <3>1. longer[i] = q
      BY <2>2
    <3>2. longer[i - 1] = q
      BY <1>1, <2>2
    <3> QED
      BY <3>1, <3>2
  <2> QED
    BY <2>1, <2>2
<1> QED
  BY <1>2, <1>3 DEF Within

LEMMA WithinBefore ==
    ASSUME NEW p \in Profile, NEW n \in Nat, NEW r \in Within(p, n + 1)
    PROVE  \E q \in Within(p, n) : r = q \/ r \in Range(fallbacks[q])
<1>1. PICK path \in [0..(n + 1) -> Profile] :
        /\ path[0] = p /\ path[n + 1] = r
        /\ \A i \in 1..(n + 1) : path[i] = path[i - 1] \/ path[i] \in Range(fallbacks[path[i - 1]])
  BY DEF Within
<1> DEFINE shorter == [i \in 0..n |-> path[i]]
<1>2. shorter \in [0..n -> Profile] /\ shorter[0] = p
  BY <1>1
<1>3. \A i \in 1..n : shorter[i] = shorter[i - 1] \/ shorter[i] \in Range(fallbacks[shorter[i - 1]])
  <2> TAKE i \in 1..n
  <2>1. i \in 1..(n + 1) /\ shorter[i] = path[i] /\ shorter[i - 1] = path[i - 1]
    OBVIOUS
  <2> QED
    BY <1>1, <2>1
<1>4. shorter[n] \in Within(p, n)
  <2>1. shorter[n] \in Profile
    OBVIOUS
  <2> HIDE DEF shorter
  <2> QED
    BY <1>2, <1>3, <2>1 DEF Within
<1>5. n + 1 \in 1..(n + 1) /\ (n + 1) - 1 = n /\ shorter[n] = path[n]
  OBVIOUS
<1>6. r = shorter[n] \/ r \in Range(fallbacks[shorter[n]])
  BY <1>1, <1>5
<1> QED
  BY <1>4, <1>6

LEMMA ReachableParts ==
    ASSUME FallbacksOK, NEW p \in Profile
    PROVE  /\ p \in Reachable(p)
           /\ \A q \in Reachable(p) : Range(fallbacks[q]) \subseteq Reachable(p)
           /\ \A profiles \in SUBSET Profile :
                 p \in profiles /\ Closed(profiles) => Reachable(p) \subseteq profiles
<1>1. \A q \in Profile : Range(fallbacks[q]) \subseteq Profile
  BY RangeTyped DEF FallbacksOK
<1> QED
  BY <1>1 DEF Reachable, Closed

\* A set that holds p and all fallbacks of its members holds what is within any
\* number of fallbacks of p.
LEMMA WithinClosed ==
    ASSUME NEW p \in Profile, NEW n \in Nat, NEW profiles, p \in profiles, Closed(profiles)
    PROVE  Within(p, n) \subseteq profiles
<1> SUFFICES ASSUME NEW q \in Within(p, n) PROVE q \in profiles
  OBVIOUS
<1>1. PICK path \in [0..n -> Profile] :
        /\ path[0] = p /\ path[n] = q
        /\ \A i \in 1..n : path[i] = path[i - 1] \/ path[i] \in Range(fallbacks[path[i - 1]])
  BY DEF Within
<1> DEFINE outside == {i \in 0..n : path[i] \notin profiles}
<1>2. CASE outside = {}
  BY <1>1, <1>2
<1>3. CASE outside # {}
  <2>1. outside \subseteq Nat
    OBVIOUS
  <2>2. PICK i \in outside : \A j \in outside : ~ (<<j, i>> \in OpToRel(<, Nat))
    BY <1>3, <2>1, NatLessThanWellFounded, WFMin, Zenon
  <2>3. \A j \in outside : ~ (j < i)
    BY <2>1, <2>2 DEF OpToRel
  <2>4. i # 0
    BY <1>1
  <2>5. i \in 1..n /\ i - 1 \in 0..n /\ i - 1 < i
    BY <2>4
  <2>6. path[i - 1] \in profiles
    BY <2>3, <2>5
  <2>7. path[i] \in profiles
    BY <1>1, <2>5, <2>6 DEF Closed
  <2> QED
    BY <2>7
<1> QED
  BY <1>2, <1>3

-----------------------------------------------------------------------------
(* Agents: searches. *)

Walking(t) == job[t].step \in {"searching", "counting"}

\* What was looked at and cannot be had.
PassedOver(t) == IF job[t].step = "counting" THEN job[t].seen \ {job[t].profile} ELSE job[t].seen

\* The queue: what is left of the profiles within n fallbacks, and then those
\* within one more.
Level(t, n, near, far) ==
    LET within(m) == Within(Desired[t], m) IN
    /\ job[t].queue = near \o far
    /\ Range(near) \subseteq within(n) /\ Range(far) \subseteq within(n + 1)
    /\ within(n) \subseteq job[t].seen \cup Range(near)
    /\ \A m \in Nat : m < n => within(m) \subseteq PassedOver(t)
    /\ job[t].step = "counting" => job[t].profile \in within(n)

Met(t) == job[t].seen \cup Range(job[t].queue)

WalkOK(t) ==
    /\ PassedOver(t) \cap steady[t] = {}
    /\ Desired[t] \in Met(t) /\ Met(t) \subseteq Reachable(Desired[t])
    /\ \A p \in job[t].seen : Range(fallbacks[p]) \subseteq Met(t)
    /\ job[t].step = "counting" => job[t].profile \in job[t].seen
    /\ \E n \in Nat, near, far \in Seq(Profile) : Level(t, n, near, far)

ChoiceOK(t) ==
    /\ job[t].profile \in Reachable(Desired[t])
    /\ \A n \in Nat : Within(Desired[t], n) \cap steady[t] # {} =>
                          job[t].profile \in Within(Desired[t], n)

SearchOK(t) ==
    /\ steady[t] \subseteq Usable(BoardOf[t])
    /\ Walking(t) => WalkOK(t)
    /\ job[t].step = "resolved" => ChoiceOK(t)

JobRows == [step : Steps, profile : Profile \cup {None}, queue : Seq(Profile), seen : SUBSET Profile]

JobsOK ==
    /\ job \in [Task -> JobRows]
    /\ \A t \in Task : job[t].step \in {"counting", "resolved", "slotted"} \cup Launched =>
                           job[t].profile \in Profile

LEMMA GraphStays ==
    ASSUME UNCHANGED fallbacks
    PROVE  /\ FallbacksOK' <=> FallbacksOK
           /\ \A p : Reachable(p)' = Reachable(p)
           /\ \A p, n : Within(p, n)' = Within(p, n)
  BY DEF FallbacksOK, Reachable, Closed, Within

\* What the history of a search becomes.
LEMMA SteadyNext ==
    ASSUME KeepsSteady, NEW t \in Task
    PROVE  /\ steady'[t] \subseteq Usable(BoardOf[t])'
           /\ job'[t].step \notin {"searching", "counting", "resolved"} => steady'[t] = {}
           /\ job[t].step # "claimed" => steady'[t] \subseteq steady[t]
<1>1. steady'[t] = IF job'[t].step \notin {"searching", "counting", "resolved"} THEN {}
                   ELSE IF job[t].step = "claimed" THEN Usable(BoardOf[t])'
                        ELSE steady[t] \cap Usable(BoardOf[t])'
  BY DEF KeepsSteady, Usables
<1> QED
  BY <1>1

LEMMA OneRange == ASSUME NEW p PROVE Range(<<p>>) = {p}
  BY DEF Range

LEMMA NoRange == Range(<<>>) = {}
  BY DEF Range

LEMMA SearchBegins ==
    ASSUME FallbacksOK, JobsOK, NEW t \in Task, BeginSearch(t), KeepsSteady
    PROVE  SearchOK(t)'
<1> DEFINE p == Desired[t]
<1>p. p \in Profile
  BY AgentsAssumption
<1>1. /\ job'[t].step = "searching" /\ job'[t].queue = <<p>> /\ job'[t].seen = {}
  BY DEF BeginSearch, JobsOK, NoJob
<1>2. UNCHANGED fallbacks
  BY DEF BeginSearch
<1>3. PassedOver(t)' = {}
  BY <1>1 DEF PassedOver
<1>4. Met(t)' = {p}
  BY <1>1, OneRange DEF Met
<1>5. p \in Reachable(p)'
  BY <1>p, <1>2, GraphStays, ReachableParts
<1>6. Level(t, 0, <<p>>, <<>>)'
  <2>1. Within(p, 0)' = {p}
    BY <1>p, <1>2, GraphStays, WithinNone
  <2>2. <<p>> = <<p>> \o <<>>
    BY <1>p, ConcatEmptySeq
  <2>3. \A m \in Nat : ~ (m < 0)
    OBVIOUS
  <2> QED
    BY <1>1, <2>1, <2>2, <2>3, OneRange, NoRange DEF Level
<1>7. <<p>> \in Seq(Profile) /\ <<>> \in Seq(Profile) /\ 0 \in Nat
  BY <1>p
<1>8. WalkOK(t)'
  BY <1>1, <1>3, <1>4, <1>5, <1>6, <1>7 DEF WalkOK
<1> QED
  BY <1>1, <1>8, SteadyNext DEF SearchOK

LEMMA DropsHead ==
    ASSUME NEW near \in Seq(Profile), NEW far \in Seq(Profile), near # <<>>
    PROVE  /\ Head(near \o far) = near[1] /\ Tail(near \o far) = Tail(near) \o far
           /\ Range(near) = {near[1]} \cup Range(Tail(near))
           /\ near[1] \in Profile /\ Tail(near) \in Seq(Profile)
<1>1. Len(near) \in Nat \ {0}
  BY EmptySeq
<1>2. near[1] \in Profile /\ Tail(near) \in Seq(Profile)
  BY <1>1, HeadTailProperties
<1>3. \A i \in 1..Len(Tail(near)) : Tail(near)[i] = near[i + 1]
  BY HeadTailProperties
<1>4. Len(Tail(near)) = Len(near) - 1
  BY HeadTailProperties
<1>5. near \o far \in Seq(Profile) /\ Len(near \o far) = Len(near) + Len(far)
  BY ConcatProperties
<1>5a. \A i \in 1..(Len(near) + Len(far)) : (near \o far)[i] = IF i <= Len(near) THEN near[i] ELSE far[i - Len(near)]
  BY ConcatProperties
<1>l. Len(far) \in Nat
  BY LenProperties
<1>6. near \o far # <<>>
  BY <1>1, <1>5, <1>l
<1>7. Head(near \o far) = near[1]
  BY <1>1, <1>5, <1>5a, <1>6, <1>l
<1>8. Tail(near \o far) = Tail(near) \o far
  <2>1. Tail(near \o far) \in Seq(Profile) /\ Len(Tail(near \o far)) = Len(near) + Len(far) - 1
    BY <1>5, <1>6, HeadTailProperties
  <2>2. \A i \in 1..Len(Tail(near \o far)) : Tail(near \o far)[i] = (near \o far)[i + 1]
    BY <1>5, <1>6, HeadTailProperties
  <2>3. Tail(near) \o far \in Seq(Profile) /\ Len(Tail(near) \o far) = Len(near) - 1 + Len(far)
    BY <1>2, <1>4, ConcatProperties
  <2>4. \A i \in 1..(Len(near) - 1 + Len(far)) :
           (Tail(near) \o far)[i] = IF i <= Len(near) - 1 THEN Tail(near)[i] ELSE far[i - (Len(near) - 1)]
    BY <1>2, <1>4, ConcatProperties
  <2>5. ASSUME NEW i \in 1..Len(Tail(near \o far))
        PROVE  Tail(near \o far)[i] = (Tail(near) \o far)[i]
    BY <1>1, <1>l, <1>3, <1>4, <1>5a, <2>1, <2>2, <2>4, <2>5
  <2>6. Len(Tail(near \o far)) = Len(Tail(near) \o far)
    BY <1>1, <1>l, <2>1, <2>3
  <2> QED
    BY <2>1, <2>3, <2>5, <2>6, SeqEqual
<1>9. Range(near) = {near[1]} \cup Range(Tail(near))
  <2>1. ASSUME NEW r \in Range(near) PROVE r \in {near[1]} \cup Range(Tail(near))
    <3>1. PICK i \in 1..Len(near) : r = near[i]
      BY RangeTyped
    <3>2. CASE i # 1
      <4>1. i - 1 \in 1..Len(Tail(near)) /\ Tail(near)[i - 1] = near[i]
        BY <1>1, <1>3, <1>4, <3>2
      <4> QED
        BY <3>1, <4>1, <1>2, RangeTyped
    <3> QED
      BY <3>1, <3>2
  <2>2. ASSUME NEW r \in Range(Tail(near)) PROVE r \in Range(near)
    <3>1. PICK i \in 1..Len(Tail(near)) : r = Tail(near)[i]
      BY <1>2, RangeTyped
    <3>2. i + 1 \in 1..Len(near) /\ near[i + 1] = r
      BY <1>1, <1>3, <1>4, <3>1
    <3> QED
      BY <3>2, RangeTyped
  <2>3. near[1] \in Range(near)
    BY <1>1, RangeTyped
  <2> QED
    BY <2>1, <2>2, <2>3
<1> QED
  BY <1>2, <1>7, <1>8, <1>9

LEMMA JoinsRanges ==
    ASSUME NEW s \in Seq(Profile), NEW u \in Seq(Profile)
    PROVE  Range(s \o u) = Range(s) \cup Range(u)
<1>1. s \o u \in Seq(Profile) /\ Len(s \o u) = Len(s) + Len(u) /\ Len(s) \in Nat /\ Len(u) \in Nat
  BY ConcatProperties, LenProperties
<1>2. \A i \in 1..(Len(s) + Len(u)) : (s \o u)[i] = IF i <= Len(s) THEN s[i] ELSE u[i - Len(s)]
  BY ConcatProperties
<1>3. ASSUME NEW r \in Range(s \o u) PROVE r \in Range(s) \cup Range(u)
  <2>1. PICK i \in 1..(Len(s) + Len(u)) : r = (s \o u)[i]
    BY <1>1, RangeTyped
  <2>2. CASE i <= Len(s)
    <3>1. i \in 1..Len(s) /\ r = s[i]
      BY <1>1, <1>2, <2>1, <2>2
    <3> QED
      BY <3>1, RangeTyped
  <2>3. CASE i > Len(s)
    <3>1. i - Len(s) \in 1..Len(u) /\ r = u[i - Len(s)]
      BY <1>1, <1>2, <2>1, <2>3
    <3> QED
      BY <3>1, RangeTyped
  <2> QED
    BY <1>1, <2>2, <2>3
<1>4. ASSUME NEW r \in Range(s) PROVE r \in Range(s \o u)
  <2>1. PICK i \in 1..Len(s) : r = s[i]
    BY RangeTyped
  <2>2. i \in 1..(Len(s) + Len(u)) /\ (s \o u)[i] = r
    BY <1>1, <1>2, <2>1
  <2> QED
    BY <1>1, <2>2, RangeTyped
<1>5. ASSUME NEW r \in Range(u) PROVE r \in Range(s \o u)
  <2>1. PICK i \in 1..Len(u) : r = u[i]
    BY RangeTyped
  <2>2. i + Len(s) \in 1..(Len(s) + Len(u)) /\ (s \o u)[i + Len(s)] = r
    BY <1>1, <1>2, <2>1
  <2> QED
    BY <1>1, <2>2, RangeTyped
<1> QED
  BY <1>3, <1>4, <1>5

\* When what is within n fallbacks is used up, what is within one more is next.
LEMMA NextLevel ==
    ASSUME FallbacksOK, JobsOK, NEW t \in Task, WalkOK(t), Searching(t)
    PROVE  \E n \in Nat, near, far \in Seq(Profile) : near # <<>> /\ Level(t, n, near, far)
<1> DEFINE p == Desired[t]
           within(m) == Within(p, m)
<1>p. p \in Profile
  BY AgentsAssumption
<1>1. job[t].step = "searching" /\ job[t].queue # <<>>
  BY DEF Searching
<1>2. PICK n \in Nat, near \in Seq(Profile), far \in Seq(Profile) : Level(t, n, near, far)
  BY DEF WalkOK
<1>3. CASE near # <<>>
  BY <1>2, <1>3
<1>4. CASE near = <<>>
  <2>1. job[t].queue = far
    BY <1>2, <1>4, ConcatEmptySeq DEF Level
  <2>2. far # <<>> /\ far = far \o <<>> /\ <<>> \in Seq(Profile)
    BY <1>1, <2>1, ConcatEmptySeq
  <2>3. within(n) \subseteq job[t].seen
    BY <1>2, <1>4, NoRange DEF Level
  <2>4. within(n + 1) \subseteq job[t].seen \cup Range(far)
    <3> SUFFICES ASSUME NEW r \in within(n + 1) PROVE r \in job[t].seen \cup Range(far)
      OBVIOUS
    <3>1. PICK q \in within(n) : r = q \/ r \in Range(fallbacks[q])
      BY <1>p, WithinBefore
    <3>2. q \in job[t].seen
      BY <2>3
    <3> QED
      BY <2>1, <3>1, <3>2 DEF WalkOK, Met
  <2>5. ASSUME NEW m \in Nat, m < n + 1 PROVE within(m) \subseteq PassedOver(t)
    <3>1. within(m) \subseteq within(n)
      BY <1>p, <2>5, WithinGrows
    <3> QED
      BY <1>1, <2>3, <3>1 DEF PassedOver
  <2>6. Range(far) \subseteq within(n + 1)
    BY <1>2 DEF Level
  <2>7. Level(t, n + 1, far, <<>>)
    BY <1>1, <2>1, <2>2, <2>4, <2>5, <2>6, NoRange DEF Level
  <2>8. n + 1 \in Nat
    OBVIOUS
  <2> QED
    BY <2>2, <2>7, <2>8, Zenon
<1> QED
  BY <1>3, <1>4

LEMMA SearchSkips ==
    ASSUME FallbacksOK, JobsOK, NEW t \in Task, SearchOK(t), SkipSeen(t), KeepsSteady
    PROVE  SearchOK(t)'
<1> DEFINE p == Desired[t]
           rest == Tail(job[t].queue)
           head == Head(job[t].queue)
<1>1. /\ job[t].step = "searching" /\ WalkOK(t) /\ head \in job[t].seen
      /\ UNCHANGED fallbacks
  BY DEF SkipSeen, Searching, SearchOK, Walking
<1>2. /\ job'[t].step = "searching" /\ job'[t].queue = rest /\ job'[t].seen = job[t].seen
  BY <1>1 DEF SkipSeen, JobsOK, JobRows
<1>3. PICK n \in Nat, near \in Seq(Profile), far \in Seq(Profile) :
        near # <<>> /\ Level(t, n, near, far)
  BY <1>1, NextLevel DEF SkipSeen
<1>4. /\ head = near[1] /\ rest = Tail(near) \o far /\ Tail(near) \in Seq(Profile)
      /\ Range(near) = {head} \cup Range(Tail(near))
  BY <1>3, DropsHead DEF Level
<1>5. Range(job[t].queue) = {head} \cup Range(rest)
  <2>1. Range(near \o far) = Range(near) \cup Range(far)
    BY JoinsRanges
  <2>2. Range(Tail(near) \o far) = Range(Tail(near)) \cup Range(far)
    BY <1>4, JoinsRanges
  <2>3. job[t].queue = near \o far
    BY <1>3 DEF Level
  <2> QED
    BY <1>4, <2>1, <2>2, <2>3
<1>6. Met(t)' = Met(t)
  BY <1>1, <1>2, <1>5 DEF Met
<1>7. PassedOver(t)' = job[t].seen /\ PassedOver(t) = job[t].seen
  BY <1>1, <1>2 DEF PassedOver
<1>8. Level(t, n, Tail(near), far)'
  <2>1. \A m : Within(p, m)' = Within(p, m)
    BY <1>1, GraphStays
  <2>2. Within(p, n) \subseteq job[t].seen \cup Range(Tail(near))
    BY <1>1, <1>3, <1>4 DEF Level
  <2>3. Range(Tail(near)) \subseteq Within(p, n)
    BY <1>3, <1>4 DEF Level
  <2> QED
    BY <1>2, <1>3, <1>4, <1>7, <2>1, <2>2, <2>3 DEF Level
<1>9. Reachable(p)' = Reachable(p)
  BY <1>1, GraphStays
<1>10. steady'[t] \subseteq steady[t] /\ steady'[t] \subseteq Usable(BoardOf[t])'
  BY <1>1, SteadyNext
<1>11. WalkOK(t)'
  BY <1>1, <1>2, <1>4, <1>6, <1>7, <1>8, <1>9, <1>10 DEF WalkOK
<1> QED
  BY <1>2, <1>10, <1>11 DEF SearchOK

LEMMA Associates ==
    ASSUME NEW s \in Seq(Profile), NEW u \in Seq(Profile), NEW v \in Seq(Profile)
    PROVE  (s \o u) \o v = s \o (u \o v)
  BY ConcatAssociative

LEMMA SearchLooks ==
    ASSUME FallbacksOK, JobsOK, NEW t \in Task, SearchOK(t), Look(t), KeepsSteady
    PROVE  SearchOK(t)'
<1> DEFINE p == Desired[t]
           head == Head(job[t].queue)
           rest == Tail(job[t].queue)
           well == ~ Unavailable(BoardOf[t], head)
<1>1. /\ job[t].step = "searching" /\ WalkOK(t) /\ head \notin job[t].seen
      /\ UNCHANGED fallbacks
  BY DEF Look, Searching, SearchOK, Walking
<1>p. p \in Profile
  BY AgentsAssumption
<1>2. /\ job'[t].step = IF well THEN "counting" ELSE "searching"
      /\ job'[t].profile = IF well THEN head ELSE None
      /\ job'[t].queue = rest \o fallbacks[head] /\ job'[t].seen = job[t].seen \cup {head}
  BY DEF Look, Looked, JobsOK, JobRows
<1>3. PICK n \in Nat, near \in Seq(Profile), far \in Seq(Profile) :
        near # <<>> /\ Level(t, n, near, far)
  BY <1>1, NextLevel DEF Look
<1>4. /\ head = near[1] /\ rest = Tail(near) \o far /\ Tail(near) \in Seq(Profile)
      /\ Range(near) = {head} \cup Range(Tail(near)) /\ head \in Profile
  BY <1>3, DropsHead DEF Level
<1>5. /\ fallbacks[head] \in Seq(Profile) /\ far \o fallbacks[head] \in Seq(Profile)
      /\ job'[t].queue = Tail(near) \o (far \o fallbacks[head])
  <2>1. fallbacks[head] \in Seq(Profile)
    BY <1>4 DEF FallbacksOK
  <2>2. far \o fallbacks[head] \in Seq(Profile)
    BY <2>1, ConcatProperties
  <2>3. (Tail(near) \o far) \o fallbacks[head] = Tail(near) \o (far \o fallbacks[head])
    BY <1>4, <2>1, Associates
  <2> QED
    BY <1>2, <1>4, <2>1, <2>2, <2>3
<1>6. /\ Range(job[t].queue) = {head} \cup Range(Tail(near)) \cup Range(far)
      /\ Range(far \o fallbacks[head]) = Range(far) \cup Range(fallbacks[head])
      /\ Range(job'[t].queue) = Range(Tail(near)) \cup Range(far) \cup Range(fallbacks[head])
  <2>1. Range(near \o far) = Range(near) \cup Range(far)
    BY JoinsRanges
  <2>2. Range(far \o fallbacks[head]) = Range(far) \cup Range(fallbacks[head])
    BY <1>5, JoinsRanges
  <2>3. Range(Tail(near) \o (far \o fallbacks[head])) = Range(Tail(near)) \cup Range(far \o fallbacks[head])
    BY <1>4, <1>5, JoinsRanges
  <2>4. job[t].queue = near \o far
    BY <1>3 DEF Level
  <2> QED
    BY <1>4, <1>5, <2>1, <2>2, <2>3, <2>4
<1>7. Met(t)' = Met(t) \cup Range(fallbacks[head]) /\ head \in Met(t)
  BY <1>2, <1>6 DEF Met
<1>8. PassedOver(t) = job[t].seen
  BY <1>1 DEF PassedOver
<1>9. PassedOver(t)' = IF well THEN job[t].seen ELSE job[t].seen \cup {head}
  BY <1>1, <1>2 DEF PassedOver
<1>10. head \in Within(p, n)
  BY <1>3, <1>4 DEF Level
<1>f. PICK further \in Seq(Profile) : further = far \o fallbacks[head]
  BY <1>5
<1>11. Level(t, n, Tail(near), further)'
  <2>1. \A m : Within(p, m)' = Within(p, m)
    BY <1>1, GraphStays
  <2>2. Within(p, n) \subseteq job'[t].seen \cup Range(Tail(near))
    BY <1>2, <1>3, <1>4 DEF Level
  <2>3. Range(Tail(near)) \subseteq Within(p, n)
    BY <1>3, <1>4 DEF Level
  <2>4. Range(far \o fallbacks[head]) \subseteq Within(p, n + 1)
    <3>1. Range(fallbacks[head]) \subseteq Within(p, n + 1)
      BY <1>p, <1>10, WithinNext
    <3> QED
      BY <1>3, <1>6, <3>1 DEF Level
  <2>5. \A m \in Nat : m < n => Within(p, m) \subseteq PassedOver(t)'
    BY <1>3, <1>8, <1>9 DEF Level
  <2>6. job'[t].step = "counting" => job'[t].profile \in Within(p, n)
    BY <1>2, <1>10
  <2>8. job'[t].queue = Tail(near) \o further /\ Range(further) \subseteq Within(p, n + 1)
    BY <1>5, <1>f, <2>4
  <2> QED
    BY <2>1, <2>2, <2>3, <2>5, <2>6, <2>8 DEF Level
<1>12. Reachable(p)' = Reachable(p)
  BY <1>1, GraphStays
<1>13. Met(t)' \subseteq Reachable(p)
  <2>1. Range(fallbacks[head]) \subseteq Reachable(p)
    BY <1>1, <1>p, <1>7, ReachableParts DEF WalkOK
  <2> QED
    BY <1>1, <1>7, <2>1 DEF WalkOK
<1>14. steady'[t] \subseteq steady[t] /\ steady'[t] \subseteq Usable(BoardOf[t])'
  BY <1>1, SteadyNext
<1>15. ~ well => head \notin steady[t]
  BY DEF SearchOK, Usable
<1>16. PassedOver(t)' \cap steady'[t] = {}
  BY <1>1, <1>8, <1>9, <1>14, <1>15 DEF WalkOK
<1>17. \A q \in job'[t].seen : Range(fallbacks'[q]) \subseteq Met(t)'
  BY <1>1, <1>2, <1>7 DEF WalkOK
<1>18. p \in Met(t)'
  BY <1>1, <1>7 DEF WalkOK
<1>19. job'[t].step = "counting" => job'[t].profile \in job'[t].seen
  BY <1>2
<1>20. WalkOK(t)'
  <2>1. \E n1 \in Nat, near1, far1 \in Seq(Profile) : Level(t, n1, near1, far1)'
    BY <1>4, <1>11, Zenon
  <2>2. Desired[t] \in Met(t)' /\ Met(t)' \subseteq Reachable(Desired[t])'
    BY <1>12, <1>13, <1>18
  <2> HIDE DEF p
  <2> QED
    BY <1>16, <1>17, <1>19, <2>1, <2>2 DEF WalkOK
<1>21. job'[t].step # "resolved"
  BY <1>2
<1> QED
  BY <1>14, <1>20, <1>21 DEF SearchOK

LEMMA SearchCounts ==
    ASSUME FallbacksOK, JobsOK, NEW t \in Task, SearchOK(t), Count(t), KeepsSteady
    PROVE  SearchOK(t)'
<1> DEFINE p == Desired[t]
           q == job[t].profile
           room == Recorded(BoardOf[t], q) < Cap[q]
<1>1. /\ job[t].step = "counting" /\ WalkOK(t) /\ UNCHANGED fallbacks
  BY DEF Count, SearchOK, Walking
<1>p. p \in Profile /\ q \in Profile
  BY <1>1, AgentsAssumption DEF JobsOK
<1>2. /\ job'[t].step = IF room THEN "resolved" ELSE "searching"
      /\ room => job'[t].profile = q
      /\ job'[t].queue = job[t].queue /\ job'[t].seen = job[t].seen
  BY DEF Count, JobsOK, JobRows
<1>3. PICK n \in Nat, near \in Seq(Profile), far \in Seq(Profile) : Level(t, n, near, far)
  BY <1>1 DEF WalkOK
<1>4. steady'[t] \subseteq steady[t] /\ steady'[t] \subseteq Usable(BoardOf[t])'
  BY <1>1, SteadyNext
<1>5. PassedOver(t) = job[t].seen \ {q}
  BY <1>1 DEF PassedOver
<1>6. Reachable(p)' = Reachable(p) /\ \A m : Within(p, m)' = Within(p, m)
  BY <1>1, GraphStays
<1>7. CASE room
  <2>1. q \in Reachable(p)
    BY <1>1 DEF WalkOK, Met
  <2>2. ASSUME NEW m \in Nat, Within(p, m) \cap steady'[t] # {} PROVE q \in Within(p, m)
    <3>1. ~ (m < n)
      BY <1>1, <1>3, <1>4, <2>2 DEF Level, WalkOK
    <3>2. Within(p, n) \subseteq Within(p, m)
      BY <1>p, <3>1, WithinGrows
    <3> QED
      BY <1>1, <1>3, <3>2 DEF Level
  <2>3. ChoiceOK(t)'
    BY <1>2, <1>6, <1>7, <2>1, <2>2 DEF ChoiceOK
  <2> QED
    BY <1>2, <1>4, <1>7, <2>3 DEF SearchOK, Walking
<1>8. CASE ~ room
  <2>1. Met(t)' = Met(t) /\ PassedOver(t)' = job[t].seen
    BY <1>2, <1>8 DEF Met, PassedOver
  <2>2. q \notin steady[t]
    BY <1>8 DEF SearchOK, Usable
  <2>3. PassedOver(t)' \cap steady'[t] = {}
    BY <1>1, <1>4, <1>5, <2>1, <2>2 DEF WalkOK
  <2>4. Level(t, n, near, far)'
    <3>1. \A m \in Nat : m < n => Within(p, m) \subseteq job[t].seen
      BY <1>3, <1>5 DEF Level
    <3> QED
      BY <1>2, <1>3, <1>6, <1>8, <2>1, <3>1 DEF Level
  <2>5. WalkOK(t)'
    BY <1>1, <1>2, <1>6, <1>8, <2>1, <2>3, <2>4 DEF WalkOK
  <2> QED
    BY <1>2, <1>4, <1>8, <2>5 DEF SearchOK
<1> QED
  BY <1>7, <1>8

\* What is not a step of a search leaves it alone or ends it.
Quiet(t) == job'[t] = job[t] \/ job'[t].step \notin {"searching", "counting", "resolved"}

LEMMA SearchRests ==
    ASSUME NEW t \in Task, SearchOK(t), UNCHANGED fallbacks, Quiet(t), KeepsSteady
    PROVE  SearchOK(t)'
<1> DEFINE p == Desired[t]
<1>1. steady'[t] \subseteq Usable(BoardOf[t])'
  BY SteadyNext
<1>2. CASE job'[t].step \notin {"searching", "counting", "resolved"}
  BY <1>1, <1>2 DEF SearchOK, Walking
<1>3. CASE job'[t] = job[t] /\ job'[t].step \in {"searching", "counting", "resolved"}
  <2>1. steady'[t] \subseteq steady[t]
    BY <1>3, SteadyNext
  <2>2. Reachable(p)' = Reachable(p) /\ \A m : Within(p, m)' = Within(p, m)
    BY GraphStays
  <2>3. Met(t)' = Met(t) /\ PassedOver(t)' = PassedOver(t)
    BY <1>3 DEF Met, PassedOver
  <2>4. ASSUME WalkOK(t) PROVE WalkOK(t)'
    <3>1. PICK n \in Nat, near \in Seq(Profile), far \in Seq(Profile) : Level(t, n, near, far)
      BY <2>4 DEF WalkOK
    <3>2. Level(t, n, near, far)'
      BY <1>3, <2>2, <2>3, <3>1 DEF Level
    <3>3. \E n1 \in Nat, near1, far1 \in Seq(Profile) : Level(t, n1, near1, far1)'
      BY <3>2, Zenon
    <3> QED
      BY <1>3, <2>1, <2>2, <2>3, <2>4, <3>3 DEF WalkOK
  <2>5. ASSUME ChoiceOK(t) PROVE ChoiceOK(t)'
    BY <1>3, <2>1, <2>2, <2>5 DEF ChoiceOK
  <2> QED
    BY <1>1, <1>3, <2>4, <2>5 DEF SearchOK, Walking
<1> QED
  BY <1>2, <1>3 DEF Quiet

-----------------------------------------------------------------------------
(* Agents: types. *)

\* The planner call of a candidate, and where the call is.
CallFits ==
    /\ call.step \in {"trying", "asking", "answered", "failed"} => call.at # 0
    /\ call.step \in {"asking", "answered", "failed"} => call.at <= Len(Candidates)

Typed == AgentsTypeOK /\ JobsOK /\ CallFits

LEMMA RemainderRange ==
    ASSUME NEW a \in Int, NEW b \in Nat \ {0} PROVE (a % b) + 1 \in 1..b
  BY Z3

LEMMA RotatedTyped ==
    ASSUME NEW b \in Board
    PROVE  Rotated(b) \in Seq(Board) /\ After(b) \in Board
<1>b. Boards \in Nat \ {0}
  BY AgentsAssumption
<1>1. \A i \in 1..Boards : ((b + i - 2) % Boards) + 1 \in Board
  BY <1>b, RemainderRange DEF Board
<1>2. Rotated(b) \in [1..Boards -> Board]
  BY <1>1 DEF Rotated
<1>3. Rotated(b) \in Seq(Board)
  BY <1>b, <1>2
<1> QED
  BY <1>b, <1>3, RemainderRange DEF After, Board

\* What every step of the search of t keeps of the others' state.
SearchStep(t) == BeginSearch(t) \/ Look(t) \/ SkipSeen(t) \/ Count(t)

Kept == <<fallbacks, health, taskStatus, call, pass, nextBoard, mishaps>>

LEMMA SearchTyped ==
    ASSUME Typed, NEW t \in Task, SearchStep(t)
    PROVE  JobsOK' /\ UNCHANGED Kept /\ \A x \in Task : x # t => job'[x] = job[x]
<1>1. FallbacksOK /\ job \in [Task -> JobRows] /\ job[t] \in JobRows /\ JobsOK
  BY DEF Typed, AgentsTypeOK, FallbacksOK, JobsOK, JobRows
<1>2. UNCHANGED Kept
  BY DEF SearchStep, BeginSearch, Look, SkipSeen, Count, Kept
<1>3. ASSUME NEW r \in JobRows, job' = [job EXCEPT ![t] = r],
             r.step \in {"counting", "resolved", "slotted"} \cup Launched => r.profile \in Profile
      PROVE  JobsOK' /\ \A x \in Task : x # t => job'[x] = job[x]
  BY <1>1, <1>3 DEF JobsOK
<1>4. CASE BeginSearch(t)
  <2>1. <<Desired[t]>> \in Seq(Profile)
    BY AgentsAssumption
  <2>2. [NoJob EXCEPT !.step = "searching", !.queue = <<Desired[t]>>] \in JobRows
    BY <2>1 DEF NoJob, JobRows, Steps
  <2> QED
    BY <1>2, <1>3, <1>4, <2>2 DEF BeginSearch, NoJob
<1>5. ASSUME Searching(t)
      PROVE  Head(job[t].queue) \in Profile /\ Tail(job[t].queue) \in Seq(Profile)
  <2>1. job[t].queue \in Seq(Profile) /\ job[t].queue # <<>>
    BY <1>1, <1>5 DEF Searching, JobRows
  <2> QED
    BY <2>1, HeadTailProperties
<1>6. CASE Look(t)
  <2> DEFINE p == Head(job[t].queue)
             well == ~ Unavailable(BoardOf[t], p)
             rest == Tail(job[t].queue) \o fallbacks[p]
             r == [job[t] EXCEPT !.step = IF well THEN "counting" ELSE "searching",
                                 !.profile = IF well THEN p ELSE None,
                                 !.queue = rest, !.seen = @ \cup {p}]
  <2>1. p \in Profile /\ Tail(job[t].queue) \in Seq(Profile)
    BY <1>5, <1>6 DEF Look
  <2>2. rest \in Seq(Profile)
    BY <1>1, <2>1, ConcatProperties DEF FallbacksOK
  <2>3. job' = [job EXCEPT ![t] = r]
    BY <1>1, <1>6 DEF Look, Looked
  <2> HIDE DEF p, well, rest
  <2>4. r \in JobRows /\ (r.step = "counting" => r.profile \in Profile)
        /\ r.step \in {"counting", "searching"}
    BY <1>1, <2>1, <2>2 DEF JobRows, Steps
  <2> HIDE DEF r
  <2> QED
    BY <1>2, <1>3, <2>3, <2>4
<1>7. CASE SkipSeen(t)
  <2> DEFINE r == [job[t] EXCEPT !.queue = Tail(@)]
  <2>1. job' = [job EXCEPT ![t] = r]
    BY <1>1, <1>7 DEF SkipSeen
  <2>2. r \in JobRows /\ r.step = "searching"
    BY <1>1, <1>5, <1>7 DEF SkipSeen, Searching, JobRows
  <2> HIDE DEF r
  <2> QED
    BY <1>2, <1>3, <2>1, <2>2
<1>8. CASE Count(t)
  <2> DEFINE room == Recorded(BoardOf[t], job[t].profile) < Cap[job[t].profile]
             r == [job[t] EXCEPT !.step = IF room THEN "resolved" ELSE "searching",
                                 !.profile = IF room THEN @ ELSE None]
  <2>1. job' = [job EXCEPT ![t] = r]
    BY <1>1, <1>8 DEF Count
  <2>2. job[t].profile \in Profile
    BY <1>1, <1>8 DEF Count, JobsOK
  <2> HIDE DEF room
  <2>3. r \in JobRows /\ r.step \in {"resolved", "searching"} /\ (r.step = "resolved" => r.profile \in Profile)
    BY <1>1, <2>2 DEF JobRows, Steps
  <2> HIDE DEF r
  <2> QED
    BY <1>2, <1>3, <2>1, <2>3
<1> QED
  BY <1>4, <1>6, <1>7, <1>8 DEF SearchStep

\* A task that is queued again.
LEMMA RequeuedTyped ==
    ASSUME Typed, NEW t \in Task, NEW status \in {"ready", "waiting", "done"}, Requeued(t, status)
    PROVE  /\ JobsOK'
           /\ taskStatus' \in [Task -> {"ready", "running", "waiting", "due", "done"}]
           /\ \A x \in Task : job'[x] = job[x] \/ job'[x].step = "none"
<1>1. NoJob \in JobRows /\ NoJob.step = "none"
  BY DEF NoJob, JobRows, Steps
<1>2. job \in [Task -> JobRows] /\ taskStatus \in [Task -> {"ready", "running", "waiting", "due", "done"}]
  BY DEF Typed, JobsOK, AgentsTypeOK
<1>3. job' = [job EXCEPT ![t] = NoJob] /\ taskStatus' = [taskStatus EXCEPT ![t] = status]
  BY DEF Requeued
<1> QED
  BY <1>1, <1>2, <1>3 DEF Typed, JobsOK

\* The job of t goes on to the next step with the profile it has.
LEMMA StepTyped ==
    ASSUME Typed, NEW t \in Task, NEW step \in Steps, job[t].step \in {"resolved", "slotted"} \cup Launched,
           job' = [job EXCEPT ![t].step = step]
    PROVE  /\ JobsOK' /\ job'[t].step = step
           /\ \A x \in Task : x # t => job'[x] = job[x]
<1>1. job \in [Task -> JobRows] /\ job[t] \in JobRows /\ job[t].profile \in Profile
  BY DEF Typed, JobsOK
<1> DEFINE r == [job[t] EXCEPT !.step = step]
<1>2. job' = [job EXCEPT ![t] = r]
  BY <1>1
<1>3. r \in JobRows /\ r.profile = job[t].profile /\ r.step = step
  BY <1>1 DEF JobRows
<1> HIDE DEF r
<1> QED
  BY <1>1, <1>2, <1>3 DEF Typed, JobsOK

LEMMA HealthTyped ==
    ASSUME Typed, NEW b \in Board, NEW p, NEW status \in Health, SetHealth(b, p, status)
    PROVE  health' \in [Board -> [Profile -> Health]]
<1>1. health \in [Board -> [Profile -> Health]] /\ health[b] \in [Profile -> Health]
  BY DEF Typed, AgentsTypeOK
<1>2. [health[b] EXCEPT ![p] = status] \in [Profile -> Health]
  BY <1>1
<1>3. health' = [health EXCEPT ![b] = [health[b] EXCEPT ![p] = status]]
  BY <1>1 DEF SetHealth
<1> QED
  BY <1>1, <1>2, <1>3

TasksTyped == /\ JobsOK
              /\ taskStatus \in [Task -> {"ready", "running", "waiting", "due", "done"}]
HealthOK == health \in [Board -> [Profile -> Health]]
CallTyped ==
    /\ call \in [step : {"idle", "trying", "asking", "answered", "failed", "refused"}, board : Board,
                 at : 0..(Len(Candidates) + 1), held : Profile \cup {None}]
    /\ CallFits
PassTyped == /\ pass \in [open : BOOLEAN, left : Seq(Board), found : BOOLEAN]
             /\ nextBoard \in Board
MishapsOK == mishaps \in 0..MaxMishaps

\* What a step leaves behind: types, and searches that others do not disturb.
StepKeeps == /\ FallbacksOK' /\ TasksTyped' /\ HealthOK' /\ CallTyped' /\ PassTyped' /\ MishapsOK'
             /\ UNCHANGED fallbacks
             /\ \A x \in Task : Quiet(x) \/ SearchStep(x)

LEMMA TypedParts ==
    Typed <=> /\ FallbacksOK /\ TasksTyped /\ HealthOK /\ CallTyped /\ PassTyped /\ MishapsOK
              /\ steady \in [Task -> SUBSET Profile]
  BY DEF Typed, AgentsTypeOK, FallbacksOK, TasksTyped, JobsOK, JobRows, HealthOK, CallTyped, PassTyped,
         MishapsOK

LEMMA PartsStay ==
    ASSUME Typed
    PROVE  /\ UNCHANGED fallbacks => FallbacksOK'
           /\ UNCHANGED work => TasksTyped'
           /\ UNCHANGED health => HealthOK'
           /\ UNCHANGED call => CallTyped'
           /\ UNCHANGED <<pass, nextBoard>> => PassTyped'
           /\ UNCHANGED mishaps => MishapsOK'
           /\ UNCHANGED job => \A x \in Task : Quiet(x)
  BY TypedParts DEF FallbacksOK, TasksTyped, JobsOK, HealthOK, CallTyped, CallFits, PassTyped, MishapsOK,
                    work, Quiet

LEMMA FirstJobs ==
    /\ NoJob \in JobRows /\ NoJob.step = "none"
    /\ Claimed \in JobRows /\ Claimed.step = "claimed"
<1>1. NoJob \in JobRows /\ NoJob.step = "none"
  BY DEF NoJob, JobRows, Steps
<1>2. Claimed = [step |-> "claimed", profile |-> None, queue |-> <<>>, seen |-> {}]
  BY DEF Claimed, NoJob
<1>3. Claimed \in JobRows /\ Claimed.step = "claimed"
  BY <1>2 DEF JobRows, Steps
<1> QED
  BY <1>1, <1>3

LEMMA DispatchKeeps == ASSUME Typed, Dispatch PROVE StepKeeps
<1>1. /\ taskStatus \in [Task -> {"ready", "running", "waiting", "due", "done"}]
      /\ pass \in [open : BOOLEAN, left : Seq(Board), found : BOOLEAN] /\ nextBoard \in Board
      /\ health \in [Board -> [Profile -> Health]] /\ job \in [Task -> JobRows]
  BY DEF Typed, AgentsTypeOK, JobsOK
<1>2. /\ NewRound \in [open : BOOLEAN, left : Seq(Board), found : BOOLEAN]
      /\ NoPass \in [open : BOOLEAN, left : Seq(Board), found : BOOLEAN]
  <2>1. <<>> \in Seq(Board)
    OBVIOUS
  <2> QED
    BY <1>1, <2>1, RotatedTyped DEF NewRound, NoPass
<1>3. CASE BeginPass
  <2>1. HealthOK'
    BY <1>1, <1>3 DEF BeginPass, HealthOK, Health
  <2>2. TasksTyped'
    BY <1>1, <1>3, TypedParts DEF BeginPass, TasksTyped, JobsOK
  <2>3. PassTyped'
    BY <1>1, <1>2, <1>3 DEF BeginPass, PassTyped
  <2> QED
    BY <1>3, <2>1, <2>2, <2>3, PartsStay DEF BeginPass, StepKeeps
<1>4. ASSUME pass.left # <<>> PROVE Tail(pass.left) \in Seq(Board)
  BY <1>1, <1>4, HeadTailProperties
<1>5. CASE NothingToClaim
  <2>1. PassTyped'
    BY <1>1, <1>4, <1>5 DEF NothingToClaim, PassTyped
  <2>2. UNCHANGED job
    BY <1>5 DEF NothingToClaim, work
  <2> QED
    BY <1>5, <2>1, <2>2, PartsStay DEF NothingToClaim, StepKeeps
<1>6. CASE EndRound
  <2>1. PassTyped'
    BY <1>1, <1>2, <1>6, RotatedTyped DEF EndRound, PassTyped
  <2>2. UNCHANGED job
    BY <1>6 DEF EndRound, work
  <2> QED
    BY <1>6, <2>1, <2>2, PartsStay DEF EndRound, StepKeeps
<1>7. ASSUME NEW t \in Task, Claim(t) PROVE StepKeeps
  <2>1. BoardOf[t] \in Board
    BY AgentsAssumption DEF Board
  <2>2. PassTyped'
    BY <1>1, <1>4, <1>7, <2>1, RotatedTyped DEF Claim, PassTyped
  <2>3. Claimed \in JobRows /\ Claimed.step = "claimed"
    BY FirstJobs
  <2>4. TasksTyped' /\ \A x \in Task : Quiet(x)
    BY <1>1, <1>7, <2>3, TypedParts DEF Claim, TasksTyped, JobsOK, Quiet
  <2> QED
    BY <1>7, <2>2, <2>4, PartsStay DEF Claim, StepKeeps
<1> QED
  BY <1>3, <1>5, <1>6, <1>7 DEF Dispatch

LEMMA WorkerKeeps == ASSUME Typed, NEW t \in Task, Worker(t) PROVE StepKeeps
<1>1. TasksTyped /\ BoardOf[t] \in Board
  BY TypedParts, AgentsAssumption DEF Board
<1>2. ASSUME SearchStep(t) PROVE StepKeeps
  BY <1>1, <1>2, SearchTyped, PartsStay DEF StepKeeps, Kept, TasksTyped, Quiet
<1>3. ASSUME NEW status \in {"ready", "waiting", "done"}, Requeued(t, status)
      PROVE  TasksTyped' /\ \A x \in Task : Quiet(x)
  BY <1>3, RequeuedTyped DEF TasksTyped, Quiet
<1>4. ASSUME NEW step \in {"slotted"} \cup Launched, job[t].step \in {"resolved", "slotted"} \cup Launched,
             job' = [job EXCEPT ![t].step = step], UNCHANGED taskStatus
      PROVE  TasksTyped' /\ \A x \in Task : Quiet(x)
  <2>1. step \in Steps
    BY <1>4 DEF Steps
  <2>2. /\ JobsOK' /\ job'[t].step = step
        /\ \A x \in Task : x # t => job'[x] = job[x]
    BY <1>4, <2>1, StepTyped
  <2> QED
    BY <1>1, <1>4, <2>2 DEF TasksTyped, Quiet
<1>5. CASE FindsNone(t)
  BY <1>3, <1>5, PartsStay DEF FindsNone, StepKeeps
<1>6. CASE AcquireSlot(t)
  <2>1. TasksTyped' /\ \A x \in Task : Quiet(x)
    BY <1>3, <1>4, <1>6 DEF AcquireSlot
  <2> QED
    BY <1>6, <2>1, PartsStay DEF AcquireSlot, StepKeeps
<1>7. CASE Launch(t)
  <2>1. TasksTyped' /\ \A x \in Task : Quiet(x)
    BY <1>4, <1>7 DEF Launch
  <2> QED
    BY <1>7, <2>1, PartsStay DEF Launch, StepKeeps
<1>8. CASE Succeed(t)
  <2>1. TasksTyped' /\ \A x \in Task : Quiet(x)
    BY <1>3, <1>8 DEF Succeed
  <2>2. HealthOK'
    BY <1>1, <1>8, HealthTyped DEF Succeed, HealthOK, Health
  <2> QED
    BY <1>8, <2>1, <2>2, PartsStay DEF Succeed, StepKeeps
<1>9. ASSUME NEW status \in {"limited", "broken"}, AgentFails(t, status) PROVE StepKeeps
  <2>1. TasksTyped' /\ \A x \in Task : Quiet(x)
    BY <1>4, <1>9 DEF AgentFails
  <2>2. HealthOK'
    BY <1>1, <1>9, HealthTyped DEF AgentFails, HealthOK, Health
  <2>3. MishapsOK'
    BY <1>9, TypedParts, AgentsAssumption DEF AgentFails, MishapsOK
  <2> QED
    BY <1>9, <2>1, <2>2, <2>3, PartsStay DEF AgentFails, StepKeeps
<1>10. CASE HealthUnwritten(t)
  <2>1. TasksTyped' /\ \A x \in Task : Quiet(x)
    BY <1>3, <1>10 DEF HealthUnwritten
  <2>2. MishapsOK'
    BY <1>10, TypedParts, AgentsAssumption DEF HealthUnwritten, MishapsOK
  <2> QED
    BY <1>10, <2>1, <2>2, PartsStay DEF HealthUnwritten, StepKeeps
<1>11. CASE FindFallback(t)
  <2>1. PICK step \in {"pausing", "leaving"} : job' = [job EXCEPT ![t].step = step]
    BY <1>11 DEF FindFallback
  <2>2. job[t].step \in Launched /\ UNCHANGED taskStatus
    BY <1>11 DEF FindFallback
  <2>3. TasksTyped' /\ \A x \in Task : Quiet(x)
    BY <1>4, <2>1, <2>2
  <2> QED
    BY <1>11, <2>3, PartsStay DEF FindFallback, StepKeeps
<1>12. CASE LeaveAgent(t)
  <2>1. TasksTyped' /\ \A x \in Task : Quiet(x)
    BY <1>3, <1>12 DEF LeaveAgent
  <2> QED
    BY <1>12, <2>1, PartsStay DEF LeaveAgent, StepKeeps
<1> QED
  BY <1>2, <1>5, <1>6, <1>7, <1>8, <1>9, <1>10, <1>11, <1>12 DEF Worker, Search, SearchStep

LEMMA CallKeeps ==
    ASSUME Typed, PlannerCall \/ \E b \in Board : BeginCall(b)
    PROVE  StepKeeps
<1> DEFINE calls == [step : {"idle", "trying", "asking", "answered", "failed", "refused"}, board : Board,
                     at : 0..(Len(Candidates) + 1), held : Profile \cup {None}]
<1>1. call \in calls /\ CallFits /\ mishaps \in 0..MaxMishaps /\ MaxMishaps \in Nat
  BY AgentsAssumption DEF Typed, AgentsTypeOK
<1>2. Len(Candidates) \in Nat /\ \A i \in 1..Len(Candidates) : Candidates[i] \in Profile
  BY AgentsAssumption, ElementOfSeq, LenProperties
<1>3. 1 \in Board
  BY AgentsAssumption DEF Board
<1>4. NoCall \in calls
  BY <1>2, <1>3 DEF NoCall
<1>5. ASSUME UNCHANGED work PROVE \A x \in Task : Quiet(x)
  BY <1>5 DEF work, Quiet
<1>6. CASE TryCandidate
  <2> DEFINE p == Candidates[call.at]
  <2>a. /\ call.step = "trying" /\ call.at \in 1..Len(Candidates) /\ p \in Profile
        /\ call.at + 1 \in 0..(Len(Candidates) + 1) /\ call.at + 1 # 0
    BY <1>1, <1>2, <1>6 DEF TryCandidate, CallFits
  <2>b. call' = [call EXCEPT !.at = call.at + 1] \/ call' = [call EXCEPT !.step = "asking", !.held = p]
    BY <1>1, <1>6 DEF TryCandidate
  <2> HIDE DEF p
  <2>1. CallTyped'
    <3>1. CASE call' = [call EXCEPT !.at = call.at + 1]
      BY <1>1, <2>a, <3>1 DEF CallTyped, CallFits
    <3>2. CASE call' = [call EXCEPT !.step = "asking", !.held = p]
      <4>1. [call EXCEPT !.step = "asking", !.held = p] \in calls
        BY <1>1, <2>a
      <4>2. call'.step = "asking" /\ call'.at = call.at
        BY <1>1, <3>2
      <4>3. call'.at # 0 /\ call'.at <= Len(Candidates)
        BY <1>2, <2>a, <4>2
      <4> QED
        BY <3>2, <4>1, <4>2, <4>3 DEF CallTyped, CallFits
    <3> QED
      BY <2>b, <3>1, <3>2
  <2> QED
    BY <1>5, <1>6, <2>1, PartsStay DEF TryCandidate, StepKeeps
<1>7. ASSUME NEW outcome \in {"answered", "refused", "failed"}, Answer(outcome) PROVE StepKeeps
  <2>1. CallTyped'
    BY <1>1, <1>7 DEF Answer, CallTyped, CallFits
  <2>2. MishapsOK'
    BY <1>1, <1>7 DEF Answer, MishapsOK
  <2> QED
    BY <1>5, <1>7, <2>1, <2>2, PartsStay DEF Answer, StepKeeps
<1>8. CASE RecordAnswer
  <2>1. HealthOK'
    BY <1>1, <1>8, HealthTyped DEF RecordAnswer, HealthOK, Health
  <2>2. CallTyped'
    BY <1>4, <1>8 DEF RecordAnswer, CallTyped, CallFits, NoCall
  <2> QED
    BY <1>5, <1>8, <2>1, <2>2, PartsStay DEF RecordAnswer, StepKeeps
<1>9. ASSUME NEW status \in {"limited", "broken"}, RecordFailure(status) PROVE StepKeeps
  <2>1. HealthOK'
    BY <1>1, <1>9, HealthTyped DEF RecordFailure, HealthOK, Health
  <2>a. /\ call.at \in 1..Len(Candidates)
        /\ call.at + 1 \in 0..(Len(Candidates) + 1) /\ call.at + 1 # 0
    BY <1>1, <1>2, <1>9 DEF RecordFailure, CallFits
  <2>b. call' = [call EXCEPT !.step = "trying", !.at = call.at + 1]
    BY <1>1, <1>9 DEF RecordFailure
  <2>2. CallTyped'
    BY <1>1, <2>a, <2>b DEF CallTyped, CallFits
  <2> QED
    BY <1>5, <1>9, <2>1, <2>2, PartsStay DEF RecordFailure, StepKeeps
<1>10. CASE EndCall
  <2>1. CallTyped'
    BY <1>4, <1>10 DEF EndCall, CallTyped, CallFits, NoCall
  <2> QED
    BY <1>5, <1>10, <2>1, PartsStay DEF EndCall, StepKeeps
<1>11. ASSUME NEW b \in Board, BeginCall(b) PROVE StepKeeps
  <2>a. call' = [step |-> "trying", board |-> b, at |-> 1, held |-> None]
    BY <1>11 DEF BeginCall, NoCall
  <2>b. 1 \in 0..(Len(Candidates) + 1)
    BY <1>2
  <2>1. CallTyped'
    BY <2>a, <2>b DEF CallTyped, CallFits
  <2> QED
    BY <1>5, <1>11, <2>1, PartsStay DEF BeginCall, StepKeeps
<1> QED
  BY <1>6, <1>7, <1>8, <1>9, <1>10, <1>11 DEF PlannerCall

LEMMA OtherStepsKeep ==
    ASSUME Typed, Time \/ \E t \in Task : AddWork(t)
    PROVE  StepKeeps
<1>1. TasksTyped
  BY TypedParts
<1>2. ASSUME NEW b \in Board, NEW p \in Profile, AgentCools(b, p) PROVE StepKeeps
  <2>1. HealthOK'
    BY <1>2, HealthTyped DEF AgentCools, HealthOK, Health
  <2> QED
    BY <1>2, <2>1, PartsStay DEF AgentCools, StepKeeps, work
<1>3. ASSUME NEW t \in Task, TaskFallsDue(t) PROVE StepKeeps
  <2>1. TasksTyped'
    BY <1>1, <1>3 DEF TaskFallsDue, TasksTyped, JobsOK
  <2> QED
    BY <1>3, <2>1, PartsStay DEF TaskFallsDue, StepKeeps
<1>4. ASSUME NEW t \in Task, AddWork(t) PROVE StepKeeps
  <2>1. TasksTyped'
    BY <1>1, <1>4 DEF AddWork, TasksTyped, JobsOK
  <2> QED
    BY <1>4, <2>1, PartsStay DEF AddWork, StepKeeps
<1> QED
  BY <1>2, <1>3, <1>4 DEF Time

LEMMA AgentsStepKeeps == ASSUME Typed, AgentsStep PROVE StepKeeps
  BY DispatchKeeps, WorkerKeeps, CallKeeps, OtherStepsKeep DEF AgentsStep

-----------------------------------------------------------------------------
(* Agents: the invariant. *)

AgentsInv == Typed /\ \A t \in Task : SearchOK(t)

LEMMA AgentsBegin == ASSUME AgentsInit PROVE AgentsInv
<1>1. PICK graph \in [Profile -> Seq(Profile)], known \in [Profile -> Health],
           jobs \in [Task -> {NoJob, Claimed}] : AgentsStart(graph, known, jobs)
  BY DEF AgentsInit
<1>2. {NoJob, Claimed} \subseteq JobRows /\ NoJob.step = "none" /\ Claimed.step = "claimed"
  BY FirstJobs
<1>3. FallbacksOK /\ HealthOK
  BY <1>1 DEF AgentsStart, FallbacksOK, HealthOK
<1>4. TasksTyped
  BY <1>1, <1>2 DEF AgentsStart, TasksTyped, JobsOK
<1>5. 1 \in Board /\ Len(Candidates) \in Nat
  BY AgentsAssumption, LenProperties DEF Board
<1>6. CallTyped /\ PassTyped
  BY <1>1, <1>5 DEF AgentsStart, CallTyped, CallFits, NoCall, PassTyped, NoPass
<1>7. MishapsOK
  BY <1>1, AgentsAssumption DEF AgentsStart, MishapsOK
<1>8. \A t \in Task : SearchOK(t)
  BY <1>1, <1>2 DEF AgentsStart, SearchOK, Walking
<1> QED
  BY <1>1, <1>3, <1>4, <1>6, <1>7, <1>8, TypedParts DEF AgentsStart, AgentsInv

LEMMA AgentsStepInv == ASSUME AgentsInv, [AgentsNext]_<<agentVars, steady>> PROVE AgentsInv'
<1>1. CASE AgentsNext
  <2>1. StepKeeps /\ KeepsSteady
    BY <1>1, AgentsStepKeeps DEF AgentsNext, AgentsInv
  <2>2. steady' \in [Task -> SUBSET Profile]
    BY <2>1 DEF KeepsSteady, Usables, Usable, AgentsInv, Typed, AgentsTypeOK
  <2>3. Typed'
    <3>1. FallbacksOK' /\ TasksTyped' /\ HealthOK' /\ CallTyped' /\ PassTyped' /\ MishapsOK'
      BY <2>1 DEF StepKeeps
    <3>2. (steady \in [Task -> SUBSET Profile])'
      BY <2>2
    <3> QED
      BY <3>1, <3>2, TypedParts, PTL
  <2>4. ASSUME NEW t \in Task PROVE SearchOK(t)'
    <3>1. FallbacksOK /\ JobsOK /\ SearchOK(t)
      BY TypedParts DEF AgentsInv, Typed
    <3>2. Quiet(t) \/ SearchStep(t)
      BY <2>1 DEF StepKeeps
    <3>3. UNCHANGED fallbacks
      BY <2>1 DEF StepKeeps
    <3> QED
      BY <2>1, <3>1, <3>2, <3>3, SearchBegins, SearchSkips, SearchLooks, SearchCounts, SearchRests
         DEF SearchStep
  <2> QED
    BY <2>3, <2>4 DEF AgentsInv
<1>2. CASE UNCHANGED <<agentVars, steady>>
  <2>1. UNCHANGED <<fallbacks, health, taskStatus, job, call, pass, nextBoard, mishaps, steady>>
    BY <1>2 DEF agentVars
  <2>2. Typed /\ UNCHANGED work /\ steady \in [Task -> SUBSET Profile]
    BY <2>1, TypedParts DEF AgentsInv, work
  <2>3. FallbacksOK' /\ TasksTyped' /\ HealthOK' /\ CallTyped' /\ PassTyped' /\ MishapsOK'
    BY <2>1, <2>2, PartsStay
  <2>4. (steady \in [Task -> SUBSET Profile])'
    BY <2>1, <2>2
  <2>5. Typed'
    BY <2>3, <2>4, TypedParts, PTL
  <2>6. ASSUME NEW t \in Task PROVE SearchOK(t)'
    <3>1. SearchOK(t)
      BY DEF AgentsInv
    <3>2. Met(t)' = Met(t) /\ PassedOver(t)' = PassedOver(t) /\ (Walking(t)' <=> Walking(t))
      BY <2>1 DEF Met, PassedOver, Walking
    <3>3. /\ Reachable(Desired[t])' = Reachable(Desired[t])
          /\ \A m : Within(Desired[t], m)' = Within(Desired[t], m)
      BY <2>1, GraphStays
    <3>4. Usable(BoardOf[t])' = Usable(BoardOf[t])
      BY <2>1 DEF Usable, Unavailable, Recorded
    <3>5. \A n, near, far : Level(t, n, near, far)' <=> Level(t, n, near, far)
      BY <2>1, <3>2, <3>3 DEF Level
    <3>6. WalkOK(t)' <=> WalkOK(t)
      BY <2>1, <3>2, <3>3, <3>5 DEF WalkOK
    <3>7. ChoiceOK(t)' <=> ChoiceOK(t)
      BY <2>1, <3>3 DEF ChoiceOK
    <3> QED
      BY <2>1, <3>1, <3>2, <3>4, <3>6, <3>7 DEF SearchOK
  <2> QED
    BY <2>5, <2>6 DEF AgentsInv
<1> QED
  BY <1>1, <1>2

\* AgentsInv is an invariant of the agents' specification.
THEOREM AgentsInvariant == AgentsSpec => []AgentsInv
  BY AgentsBegin, AgentsStepInv, PTL DEF AgentsSpec

\* A search with nothing left to look at has passed over all that can be reached.
LEMMA NothingLeft ==
    ASSUME AgentsInv, NEW t \in Task, job[t].step = "searching", job[t].queue = <<>>
    PROVE  Reachable(Desired[t]) \cap steady[t] = {}
<1>1. FallbacksOK /\ WalkOK(t) /\ Desired[t] \in Profile /\ job[t] \in JobRows
  BY AgentsAssumption, TypedParts DEF AgentsInv, Typed, JobsOK, SearchOK, Walking
<1>2. Met(t) = job[t].seen /\ PassedOver(t) = job[t].seen
  BY NoRange DEF Met, PassedOver
<1>3. job[t].seen \in SUBSET Profile /\ Desired[t] \in job[t].seen /\ Closed(job[t].seen)
  BY <1>1, <1>2 DEF WalkOK, Closed, JobRows
<1>4. Reachable(Desired[t]) \subseteq job[t].seen
  BY <1>1, <1>3, ReachableParts
<1> QED
  BY <1>1, <1>2, <1>4 DEF WalkOK

\* Whatever changes while a task's agent is looked for along the fallbacks, the
\* one chosen is no further than any that was usable all the time
\* (selectAvailableProfile).
THEOREM NearestIsSelected == AgentsSpec => []SelectsNearest
<1>1. ASSUME AgentsInv PROVE SelectsNearest
  <2>1. ASSUME NEW t \in Task, job[t].step = "resolved",
               NEW n \in 0..(Cardinality(Profile) - 1), Within(Desired[t], n) \cap steady[t] # {}
        PROVE  job[t].profile \in Within(Desired[t], n)
    <3>1. n \in Nat
      BY AgentsAssumption, FS_CardinalityType
    <3> QED
      BY <1>1, <2>1, <3>1 DEF AgentsInv, SearchOK, ChoiceOK
  <2>2. ASSUME NEW t \in Task, job[t].step = "resolved" PROVE job[t].profile \in Reachable(Desired[t])
    BY <1>1, <2>2 DEF AgentsInv, SearchOK, ChoiceOK
  <2> QED
    BY <1>1, <2>1, <2>2, NothingLeft DEF SelectsNearest
<1> QED
  BY <1>1, AgentsInvariant, PTL

\* The values the agents' state can take, in every reachable state.
THEOREM AgentsTypeCorrect == AgentsSpec => []AgentsTypeOK
<1>1. ASSUME AgentsInv PROVE AgentsTypeOK
  BY <1>1 DEF AgentsInv, Typed
<1> QED
  BY <1>1, AgentsInvariant, PTL
=============================================================================
