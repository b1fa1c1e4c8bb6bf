--------------------------- MODULE Notifications ---------------------------
(* Task notifications: subscriptions, the deliveries derived from a task's  *)
(* events, and the delivery passes that send them (store/notifications.go,  *)
(* notifications/deliver.go).  A pass is run by every dispatcher, by        *)
(* `dispatch --once`, by notify-deliver and by the dashboard, so any number *)
(* run at once; nothing but the lease of a delivery keeps them apart.       *)
EXTENDS Integers, FiniteSets

CONSTANTS
    Target,      \* destinations (platform, chat, thread) of one task
    Pass,        \* delivery passes at work at one time
    Interests,   \* the sets of event kinds a destination may ask for
    Nothing,
    MaxEvents,   \* bound: events of the task
    Limit,       \* deliveries a pass claims at most
    LeaseTicks,  \* life of a delivery's lease, in ticks
    SendTicks    \* ticks a send may take

Kinds     == {"blocked", "completed", "archived"}
LastWords == {"completed", "archived"}

ASSUME NotificationAssumption ==
    /\ MaxEvents \in Nat /\ Limit \in Nat \ {0}
    /\ LeaseTicks \in Nat /\ SendTicks \in Nat
    /\ LeaseTicks > SendTicks       \* Deliver takes at least five seconds more
    /\ Interests \subseteq SUBSET Kinds
    /\ Nothing \notin Pass \cup Kinds

VARIABLES
    task,     \* the task's status, as far as notifications care
    event,    \* task_events by id, Nothing when not there (yet, or any more)
    newest,   \* the autoincrement of task_events
    sub,      \* notification_subscriptions
    row,      \* notification_deliveries
    claim,    \* what each pass holds for each destination
    age,      \* ticks since a pass claimed what it holds
    acked,    \* history: events recorded as confirmed by a destination
    owed      \* history: events a destination must still be told of, as long as
              \* neither they nor its subscription are deleted

noteVars == <<task, event, newest, sub, row, claim, age, acked, owed>>

Event == 1..MaxEvents
Rows  == [state : {"pending"}, left : 0..LeaseTicks]
         \cup [state : {"delivering"}, left : 0..LeaseTicks, token : Pass \cup {Nothing}]
         \cup [state : {"delivered"}]
Claims == [event : Event, stage : {"sending", "confirmed", "failed"}]
Subs   == [kinds : Interests, last : 0..MaxEvents]

ASSUME NothingAssumption == Nothing \notin Rows \cup Claims \cup Subs

NoteTypeOK ==
    /\ task \in {"open", "done", "archived"}
    /\ event \in [Event -> Kinds \cup {Nothing}]
    /\ newest \in 0..MaxEvents
    /\ sub \in [Target -> Subs \cup {Nothing}]
    /\ row \in [Target -> [Event -> Rows \cup {Nothing}]]
    /\ claim \in [Pass -> [Target -> Claims \cup {Nothing}]]
    /\ age \in [Pass -> 0..LeaseTicks]
    /\ acked \in [Target -> SUBSET Event]
    /\ owed \in [Target -> SUBSET Event]

NoRows   == [e \in Event |-> Nothing]
NoClaims == [t \in Target |-> Nothing]

NoteInit ==
    /\ task = "open"
    /\ event = [e \in Event |-> Nothing]
    /\ newest = 0
    /\ sub = [t \in Target |-> Nothing]
    /\ row = [t \in Target |-> NoRows]
    /\ claim = [p \in Pass |-> NoClaims]
    /\ age = [p \in Pass |-> 0]
    /\ acked = [t \in Target |-> {}]
    /\ owed = [t \in Target |-> {}]

-----------------------------------------------------------------------------
(* The task moves on and its events are recorded, in the same transaction.  *)

Records(kind) ==
    /\ newest < MaxEvents
    /\ newest' = newest + 1
    /\ event' = [event EXCEPT ![newest + 1] = kind]
    /\ owed' = [t \in Target |->
                  IF sub[t] # Nothing /\ kind \in sub[t].kinds
                  THEN owed[t] \cup {newest + 1} ELSE owed[t]]

TaskMoves(kind, from, to) ==
    /\ task \in from
    /\ task' = to
    /\ Records(kind)
    /\ UNCHANGED <<sub, row, claim, age, acked>>

Happens ==
    \/ TaskMoves("blocked", {"open"}, "open")
    \/ TaskMoves("completed", {"open"}, "done")

(* Archiving records its event and deletes the subscriptions of the task in *)
(* the same transaction.                                                    *)
Archive ==
    /\ task # "archived"
    /\ newest < MaxEvents
    /\ task' = "archived"
    /\ newest' = newest + 1
    /\ event' = [event EXCEPT ![newest + 1] = "archived"]
    /\ sub' = [t \in Target |-> Nothing]
    /\ owed' = [t \in Target |-> {}]
    /\ row' = [t \in Target |-> NoRows]
    /\ UNCHANGED <<claim, age, acked>>

(* Reopened or unarchived, with an event nobody can be interested in here.  *)
Reopen ==
    /\ task # "open"
    /\ task' = "open"
    /\ UNCHANGED <<event, newest, sub, row, claim, age, acked, owed>>

(* GarbageCollectEvents: the oldest events go, and their deliveries with    *)
(* them (ON DELETE CASCADE), whatever state those are in.                   *)
CollectEvents ==
    \E cutoff \in Event :
        /\ \E e \in 1..cutoff : event[e] # Nothing
        /\ event' = [e \in Event |-> IF e <= cutoff THEN Nothing ELSE event[e]]
        /\ row' = [t \in Target |-> [e \in Event |-> IF e <= cutoff THEN Nothing ELSE row[t][e]]]
        /\ owed' = [t \in Target |-> {e \in owed[t] : e > cutoff}]
        /\ UNCHANGED <<task, newest, sub, claim, age, acked>>

-----------------------------------------------------------------------------
(* Subscriptions.                                                           *)

LatestEvent ==
    LET known == {e \in Event : event[e] # Nothing} IN
    IF known = {} THEN 0 ELSE CHOOSE e \in known : \A f \in known : f <= e

(* SubscribeTask: a new subscription starts after the latest event, an      *)
(* existing one changes its kinds and keeps its place.                      *)
Subscribe(t) ==
    /\ task = "open"
    /\ \E kinds \in Interests :
        /\ sub' = [sub EXCEPT ![t] =
                     IF @ = Nothing THEN [kinds |-> kinds, last |-> LatestEvent]
                                 ELSE [@ EXCEPT !.kinds = kinds]]
        /\ owed' = [owed EXCEPT ![t] = {e \in @ : event[e] \in kinds \/ row[t][e] # Nothing}]
    /\ UNCHANGED <<task, event, newest, row, claim, age, acked>>

(* The subscriptions in gone are deleted, and their deliveries with them.   *)
SubsWithout(gone) == [t \in Target |-> IF t \in gone THEN Nothing ELSE sub[t]]
OwedWithout(gone) == [t \in Target |-> IF t \in gone THEN {} ELSE owed[t]]

Unsubscribe(t) ==
    /\ sub[t] # Nothing
    /\ sub' = SubsWithout({t})
    /\ owed' = OwedWithout({t})
    /\ row' = [row EXCEPT ![t] = NoRows]
    /\ UNCHANGED <<task, event, newest, claim, age, acked>>

-----------------------------------------------------------------------------
(* A delivery pass.                                                         *)

Undelivered(t) ==
    {e \in Event : /\ event[e] \in sub[t].kinds
                   /\ e > sub[t].last
                   /\ row[t][e] = Nothing}

(* One delivery is derived per subscription and pass: its oldest event.     *)
Derived(t) ==
    LET new == Undelivered(t) IN
    IF new = {} THEN row[t]
    ELSE [row[t] EXCEPT ![CHOOSE e \in new : \A f \in new : e <= f] =
            [state |-> "pending", left |-> 0]]

\* MUTANT: the cleanup looks at pending deliveries only.
AllDeliveredOrLeased(rows) ==
    \A e \in Event : rows[e] # Nothing => rows[e].state # "pending"

AllDelivered(rows) ==
    \A e \in Event : rows[e] # Nothing => rows[e].state = "delivered"

\* MUTANT: a lease is ignored.
DueAtOnce(rows) ==
    {e \in Event : rows[e] # Nothing /\ rows[e].state \in {"pending", "delivering"}}

\* MUTANT: a lease that expired is not taken over.
DuePending(rows) ==
    {e \in Event : rows[e] # Nothing /\ rows[e].state = "pending" /\ rows[e].left = 0}

Due(rows) ==
    {e \in Event : /\ rows[e] # Nothing
                   /\ rows[e].state \in {"pending", "delivering"}
                   /\ rows[e].left = 0}

(* ClaimNotificationDeliveries, one transaction: the next delivery of every *)
(* subscription is derived, those of a done task with nothing left to       *)
(* deliver go, and of what is due one delivery per subscription is leased,  *)
(* up to the limit.  (Which one of a subscription's due deliveries, and     *)
(* whose, is any here; in the code it is the one that was derived first.    *)
(* An archived task has no subscription left to remove.)                    *)
ClaimDeliveries(p) ==
    LET kept     == {t \in Target : sub[t] # Nothing}
        derived  == [t \in kept |-> Derived(t)]
        finished == {t \in kept : task = "done" /\ AllDelivered(derived[t])}
        live     == kept \ finished
        ready    == {t \in live : Due(derived[t]) # {}}
    IN
    /\ claim[p] = NoClaims
    /\ \E picked \in [ready -> Event], mine \in SUBSET ready :
        /\ \A t \in ready : picked[t] \in Due(derived[t])
        /\ Cardinality(mine) <= Limit
        /\ mine = ready \/ Cardinality(mine) = Limit
        /\ row' = [t \in Target |->
                     IF t \notin live THEN NoRows
                     ELSE IF t \notin mine THEN derived[t]
                     ELSE [derived[t] EXCEPT ![picked[t]] =
                             [state |-> "delivering", left |-> LeaseTicks, token |-> p]]]
        /\ claim' = [claim EXCEPT ![p] =
                       [t \in Target |-> IF t \notin mine THEN Nothing
                                         ELSE [event |-> picked[t], stage |-> "sending"]]]
    /\ sub' = SubsWithout(finished)
    /\ owed' = OwedWithout(finished)
    /\ age' = [age EXCEPT ![p] = 0]
    /\ UNCHANGED <<task, event, newest, acked>>

(* The adapter answers: the destination took the message, or the send       *)
(* failed, which does not say that the destination did not get it.          *)
Send(p, t) ==
    /\ claim[p][t] # Nothing /\ claim[p][t].stage = "sending"
    /\ \E answer \in {"confirmed", "failed"} :
        claim' = [claim EXCEPT ![p][t].stage = answer]
    /\ UNCHANGED <<task, event, newest, sub, row, age, acked, owed>>

Leased(p, t, e) ==
    /\ row[t][e] # Nothing
    /\ row[t][e].state = "delivering"
    /\ row[t][e].token = p

Drop(p, t) == claim' = [claim EXCEPT ![p][t] = Nothing]

(* ResolveNotificationDelivery with no error: the subscription moves up to  *)
(* the event, and a last word ends it together with all its deliveries.     *)
ResolveDelivered(p, t) ==
    /\ claim[p][t] # Nothing /\ claim[p][t].stage = "confirmed"
    /\ LET e == claim[p][t].event IN
       /\ Leased(p, t, e)
       /\ acked' = [acked EXCEPT ![t] = @ \cup {e}]
       /\ IF event[e] \in LastWords
          THEN /\ sub' = SubsWithout({t})
               /\ owed' = OwedWithout({t})
               /\ row' = [row EXCEPT ![t] = NoRows]
          ELSE /\ sub' = [sub EXCEPT ![t].last = IF @ > e THEN @ ELSE e]
               /\ owed' = [owed EXCEPT ![t] = @ \ {e}]
               /\ row' = [row EXCEPT ![t][e] = [state |-> "delivered"]]
    /\ Drop(p, t)
    /\ UNCHANGED <<task, event, newest, age>>

(* With an error: due again after a backoff.                                *)
ResolveFailed(p, t) ==
    /\ claim[p][t] # Nothing /\ claim[p][t].stage = "failed"
    /\ Leased(p, t, claim[p][t].event)
    /\ row' = [row EXCEPT ![t][claim[p][t].event] = [state |-> "pending", left |-> 1]]
    /\ Drop(p, t)
    /\ UNCHANGED <<task, event, newest, sub, age, acked, owed>>

(* The row is gone, leased to another pass by now, or the store does not    *)
(* answer: the pass gives up on it and the row stays as it is.  Its token   *)
(* is then one that nobody holds.                                           *)
Unclaimed(p, t) ==
    [e \in Event |-> IF Leased(p, t, e) THEN [row[t][e] EXCEPT !.token = Nothing]
                                        ELSE row[t][e]]

ResolveNothing(p, t) ==
    /\ claim[p][t] # Nothing /\ claim[p][t].stage # "sending"
    /\ row' = [row EXCEPT ![t] = Unclaimed(p, t)]
    /\ Drop(p, t)
    /\ UNCHANGED <<task, event, newest, sub, age, acked, owed>>

CrashPass(p) ==
    /\ claim[p] # NoClaims
    /\ claim' = [claim EXCEPT ![p] = NoClaims]
    /\ row' = [t \in Target |-> Unclaimed(p, t)]
    /\ UNCHANGED <<task, event, newest, sub, age, acked, owed>>

(* Time passes.  A send does not outlive its timeout.                       *)
Sending(p) == \E t \in Target : claim[p][t] # Nothing /\ claim[p][t].stage = "sending"

Passed(r) ==
    IF r = Nothing THEN r
    ELSE IF r.state = "delivered" THEN r
    ELSE [r EXCEPT !.left = IF @ > 0 THEN @ - 1 ELSE 0]

NoteTick ==
    /\ \A p \in Pass : Sending(p) => age[p] < SendTicks
    /\ row' = [t \in Target |-> [e \in Event |-> Passed(row[t][e])]]
    /\ age' = [p \in Pass |-> IF Sending(p) THEN age[p] + 1 ELSE 0]
    /\ UNCHANGED <<task, event, newest, sub, claim, acked, owed>>

PassStep(p) ==
    \/ ClaimDeliveries(p)
    \/ CrashPass(p)
    \/ \E t \in Target : Send(p, t) \/ ResolveDelivered(p, t) \/ ResolveFailed(p, t)
                         \/ ResolveNothing(p, t)

NoteNext ==
    \/ Happens \/ Archive \/ Reopen \/ CollectEvents \/ NoteTick
    \/ \E t \in Target : Subscribe(t) \/ Unsubscribe(t)
    \/ \E p \in Pass : PassStep(p)

NoteSpec == NoteInit /\ [][NoteNext]_noteVars

Confirmed(p, t) == Send(p, t) /\ claim'[p][t].stage = "confirmed"

(* Passes are run again and again, a pass that runs goes on, a destination  *)
(* that is tried for ever answers some day, and so does the store.          *)
NoteFairness ==
    /\ SF_noteVars(\E p \in Pass : ClaimDeliveries(p))
    /\ \A t \in Target :
        /\ SF_noteVars(\E p \in Pass : Confirmed(p, t))
        /\ SF_noteVars(\E p \in Pass : ResolveDelivered(p, t))
        /\ \A p \in Pass : /\ WF_noteVars(Send(p, t))
                           /\ WF_noteVars(ResolveFailed(p, t) \/ ResolveNothing(p, t))
    /\ WF_noteVars(NoteTick)

FairNoteSpec == NoteSpec /\ NoteFairness

-----------------------------------------------------------------------------
(* A pass takes up no event whose confirmation by the destination has been  *)
(* recorded, not even when that unsubscribes and subscribes anew, or when a *)
(* pass that lost its lease comes back with its own answer; and none that   *)
(* another pass is sending at the time: the lease outlives the send it was  *)
(* taken for.  (A crash between the confirmation and its record is followed *)
(* by a second send: the outbox delivers at least once.)                    *)
SentOnce ==
    [][ \A p \in Pass, t \in Target :
          claim[p][t] = Nothing /\ claim'[p][t] # Nothing
          => /\ claim'[p][t].event \notin acked[t]
             /\ \A q \in Pass :
                  claim[q][t] # Nothing /\ claim[q][t].stage = "sending"
                  => claim[q][t].event # claim'[p][t].event
      ]_noteVars

(* A subscription's place moves past no event it has still to tell of:      *)
(* deliveries may be confirmed out of order, and kinds may change, but an   *)
(* event that is owed has its delivery or lies ahead.                       *)
NoneSkipped ==
    \A t \in Target : \A e \in owed[t] :
        \/ row[t][e] # Nothing
        \/ e > sub[t].last /\ event[e] \in sub[t].kinds

(* The cleanup of a finished task's subscriptions takes no delivery away    *)
(* that is pending or leased, nor one that is yet to be derived.            *)
CleanupLosesNothing ==
    [][ \A p \in Pass, t \in Target :
          /\ ClaimDeliveries(p)
          /\ task = "done"
          /\ sub[t] # Nothing /\ sub'[t] = Nothing
          => owed[t] = {}
      ]_noteVars

(* Neither the place of a subscription nor the cleanup loses an event.      *)
(* Some steps do by what they are, and end the debt: the retention of       *)
(* events, unsubscribing, subscribing to other kinds, archiving, and the    *)
(* last word, whose delivery deletes the subscription with what is still    *)
(* pending of earlier events.                                               *)
NothingOwedIsLost == []NoneSkipped /\ CleanupLosesNothing

(* What is owed is delivered in the end, or the event goes by retention, or *)
(* its subscription by one of the steps above.                              *)
OwedIsDelivered ==
    \A t \in Target : \A e \in Event : e \in owed[t] ~> e \notin owed[t]
=============================================================================
