------------------------------ MODULE Console -------------------------------
(***************************************************************************)
(* The terminal board (internal/terminalui): a single event loop that      *)
(* shows a copy of the board's rows, while commands it started - loading   *)
(* the list, loading a detail, one mutation - answer in any order and      *)
(* other clients change the rows.                                          *)
(*                                                                         *)
(* The list is ordered by priority, which no step here changes.  Text,     *)
(* layout, the panel with the details of a task and the filters that only  *)
(* hide loaded rows are left out.  Archiving stands for every change of    *)
(* status: the store refuses it while a run is active.                     *)
(***************************************************************************)
EXTENDS Naturals, Sequences, FiniteSets, RunIds

CONSTANTS
    Card,         \* the tasks
    Order,        \* every task, in the order of the list
    Search,       \* what the list can be searched for
    Matches,      \* the tasks each search finds
    NoSearch,
    MaxVersion,   \* bound: others change a row until it reaches this version
    MaxKeys,      \* bound: what a person does
    MaxLoads,     \* bound: list loads under way
    MaxFailures,  \* bound: list loads that fail
    Columns,      \* the columns, archived tasks apart
    Actions       \* the keys a person uses

ASSUME ConsoleAssumption ==
    /\ None \notin Card
    /\ Order \in Seq(Card) /\ \A t \in Card : \E i \in DOMAIN Order : Order[i] = t
    /\ Columns \in Seq(STRING)
    /\ \A s \in {"ready", "running"} : \E i \in DOMAIN Columns : Columns[i] = s

VARIABLES
    row,          \* the board: task -> row of the database
    list,         \* m.allTasks, m.tasks, m.column, m.cursors
    search,       \* m.search
    archived,     \* m.showArchived
    loading,      \* m.loading
    failed,       \* m.tasksErr is set
    modal,        \* form, menu, prompt, confirmation or search line, if any
    chosen,       \* history: the task displayed when the modal was opened
    mutation,     \* the mutation under way (m.busy)
    desired,      \* m.desiredSelection
    settings,     \* m.boardContext is loaded
    loads,        \* list loads: asked, or answered and not yet handled
    failures,
    keys

counts == <<failures, keys>>
want == <<search, archived>>
pane == <<list, loading, failed, desired>>
consoleVars == <<row, list, search, archived, loading, failed, modal, chosen, mutation,
                 desired, settings, loads, failures, keys>>

Statuses(all) == IF all THEN Columns \o <<"archived">> ELSE Columns
Named(all) == {Statuses(all)[i] : i \in DOMAIN Statuses(all)}

Absent == [status |-> "absent", version |-> 0, run |-> 0]
NoModal == [kind |-> "none", action |-> "none", task |-> None, seen |-> Absent]
NoMutation == [step |-> "none", action |-> "none", task |-> None, seen |-> Absent]
Request == [step |-> "asked", search |-> search, archived |-> archived, rows |-> <<>>, ok |-> TRUE]

\* One more thing a person does, within the bound.
Pressed == keys < MaxKeys /\ keys' = keys + 1

Exists(t) == row[t].status # "absent"

ConsoleInit ==
    /\ row \in [Card -> {Absent} \cup
                         {[status |-> s, version |-> 1, run |-> IF s = "running" THEN 1 ELSE 0] :
                             s \in {"ready", "running"}}]
    /\ list = [rows |-> <<>>, visible |-> {}, column |-> 1,
               cursor |-> [s \in Named(TRUE) |-> 1]]
    /\ search = NoSearch /\ archived = FALSE
    /\ loading = TRUE /\ failed = FALSE
    /\ desired = None
    /\ modal = NoModal /\ chosen = None
    /\ mutation = NoMutation
    /\ settings = FALSE
    /\ loads = {[step |-> "asked", search |-> NoSearch, archived |-> FALSE, rows |-> <<>>, ok |-> TRUE]}
    /\ failures \in 0..MaxFailures /\ keys \in 0..MaxKeys

-----------------------------------------------------------------------------
(* The list and the selection *)

Lower(a, b) == IF a < b THEN a ELSE b
Higher(a, b) == IF a > b THEN a ELSE b

Column(l, s) == {t \in l.visible : l.rows[t].status = s}

\* The place of a card in its column, which is in the order of the list.
Position(t) == CHOOSE i \in DOMAIN Order : Order[i] = t
Ordinal(l, t) == Cardinality({x \in Column(l, l.rows[t].status) : Position(x) <= Position(t)})

\* selectedTask brings the column and its cursor back into range.
Settled(l, all) ==
    LET c == Lower(l.column, Len(Statuses(all)))
        s == Statuses(all)[c]
        items == Column(l, s)
    IN [l EXCEPT !.column = c,
                 !.cursor[s] = IF items = {} THEN @ ELSE Lower(@, Cardinality(items))]

Selected(l, all) ==
    LET settled == Settled(l, all)
        s == Statuses(all)[settled.column]
        items == Column(l, s)
    IN IF items = {} THEN None ELSE CHOOSE t \in items : Ordinal(l, t) = settled.cursor[s]

Shown == Selected(list, archived)

\* statusIndex: a status without a column is taken for the first.
StatusIndex(all, s) ==
    IF s \in Named(all) THEN CHOOSE i \in DOMAIN Statuses(all) : Statuses(all)[i] = s ELSE 1

\* The column and cursor at which task t is listed, if it is.
Placed(l, all, t) ==
    IF t \notin l.visible THEN l
    ELSE LET s == l.rows[t].status IN
         [l EXCEPT !.column = StatusIndex(all, s),
                   !.cursor[s] = Ordinal(l, t)]

Regrouped(l, rows, text) == [l EXCEPT !.rows = rows, !.visible = DOMAIN rows \cap Matches[text]]

Moved(l) == /\ list' = Settled(l, archived)
            /\ Pressed
            /\ UNCHANGED <<row, want, loading, failed, modal, chosen, mutation,
                           desired, settings, loads, failures>>

MoveColumn(c) ==
    /\ c \in {list.column - 1, list.column + 1} /\ c \in 1..Len(Statuses(archived))
    /\ Moved([list EXCEPT !.column = c])

\* Keys move the cursor when no modal takes them, the mouse always does.
MoveCard(i) ==
    LET s == Statuses(archived)[list.column] IN
    /\ i \in {list.cursor[s] - 1, list.cursor[s] + 1} /\ i \in 1..Cardinality(Column(list, s))
    /\ Moved([list EXCEPT !.cursor[s] = i])

\* 'g' and 'G', the first and the last card.
Jump(i) ==
    LET s == Statuses(archived)[list.column] IN
    /\ modal = NoModal
    /\ i \in {1, Higher(1, Cardinality(Column(list, s)))}
    /\ Moved([list EXCEPT !.cursor[s] = i])

-----------------------------------------------------------------------------
(* Loading *)

CanAsk == Cardinality(loads) < MaxLoads

Reload ==
    /\ modal = NoModal /\ CanAsk
    /\ loading' = TRUE
    /\ loads' = loads \cup {Request}
    /\ Pressed
    /\ UNCHANGED <<row, want, list, failed, modal, chosen, mutation,
                   desired, settings, failures>>

\* The tick comes back whatever is on the screen.
Refresh ==
    /\ CanAsk
    /\ loads' = loads \cup {Request}
    /\ settings' = TRUE
    /\ UNCHANGED <<row, want, pane, modal, chosen, mutation, counts>>

ToggleArchived ==
    /\ modal = NoModal /\ CanAsk
    /\ archived' = ~archived
    /\ list' = [list EXCEPT !.column = Lower(@, Len(Statuses(~archived)))]
    /\ loading' = TRUE
    /\ loads' = loads \cup {[Request EXCEPT !.archived = ~archived]}
    /\ Pressed
    /\ UNCHANGED <<row, search, failed, modal, chosen, mutation,
                   desired, settings, failures>>

\* The search line, typed and entered.
SubmitSearch(text) ==
    /\ modal = NoModal /\ CanAsk
    /\ search' = text
    /\ loading' = TRUE
    /\ loads' = loads \cup {[Request EXCEPT !.search = text]}
    /\ Pressed
    /\ UNCHANGED <<row, archived, list, failed, modal, chosen, mutation,
                   desired, settings, failures>>

Rows(all) == [t \in {x \in Card : Exists(x) /\ (row[x].status = "archived" => all)} |-> row[t]]

\* ListTasks, some time after it was asked for; or it fails.
QueryList(load) ==
    /\ load.step = "asked"
    /\ loads' = (loads \ {load}) \cup
                {[load EXCEPT !.step = "answered", !.rows = Rows(load.archived)]}
    /\ UNCHANGED <<row, want, pane, modal, chosen, mutation, settings, counts>>

QueryFails(load) ==
    /\ load.step = "asked" /\ failures < MaxFailures
    /\ failures' = failures + 1
    /\ loads' = (loads \ {load}) \cup {[load EXCEPT !.step = "answered", !.ok = FALSE]}
    /\ UNCHANGED <<row, want, pane, modal, chosen, mutation, settings, keys>>

\* MUTANT: any answer is shown.
ExpectedAny(load) == load.search \in Search

\* An answer to another question than the one asked now is dropped.
Expected(load) == load.search = search /\ load.archived = archived

\* MUTANT: the cursors stay where they are when the list is replaced.
AfterLoadInPlace(rows, detailed) == Settled(Regrouped(list, rows, search), archived)

\* The new rows, and the selection on the task that was selected before or
\* that a mutation asked for.  The old place is brought into range first when a
\* detail is shown (regroupTasks).
AfterLoad(rows, detailed) ==
    LET goal == IF desired # None THEN desired ELSE Shown
        fresh == Regrouped(Settled(list, archived), rows, search)
        old == IF detailed THEN Settled(fresh, archived) ELSE fresh
    IN Settled(IF goal = None THEN old ELSE Placed(old, archived, goal), archived)

DropAnswer(load) ==
    /\ load.step = "answered" /\ ~Expected(load)
    /\ loads' = loads \ {load}
    /\ UNCHANGED <<row, want, pane, modal, chosen, mutation, settings, counts>>

ListFails(load) ==
    /\ load.step = "answered" /\ Expected(load) /\ ~load.ok
    /\ loads' = loads \ {load}
    /\ loading' = FALSE /\ failed' = TRUE
    /\ UNCHANGED <<row, want, list, desired, modal, chosen, mutation,
                   settings, counts>>

ListArrives(load) ==
    /\ load.step = "answered" /\ Expected(load) /\ load.ok
    /\ loads' = loads \ {load}
    /\ loading' = FALSE /\ failed' = FALSE
    /\ \E detailed \in BOOLEAN : list' = AfterLoad(load.rows, detailed)
    /\ desired' = None
    /\ UNCHANGED <<row, want, modal, chosen, mutation, settings, counts>>

-----------------------------------------------------------------------------
(* Menus, prompts, confirmations and forms *)

Mutating == mutation # NoMutation

\* MUTANT: the keys that lead to a mutation are not ignored while one runs.
KeysFreeAlways == modal = NoModal

\* mutationKey: the keys that lead to a mutation are ignored while one runs.
KeysFree == modal = NoModal /\ ~Mutating

OpenModal(kind, action, t, seen) ==
    /\ modal' = [kind |-> kind, action |-> action, task |-> t, seen |-> seen]
    /\ chosen' = t
    /\ Pressed
    /\ UNCHANGED <<row, want, pane, mutation, settings, loads, failures>>

\* What the row shown allows: `seen` is the copy in the list.
Offered(action, seen) ==
    CASE action = "archive" -> seen.run = 0 /\ seen.status # "archived"
      [] action = "delete" -> seen.run = 0
      [] action = "terminate" -> seen.run # 0
      [] OTHER -> TRUE

KindOf(action) == CASE action \in {"create", "edit"} -> "form"
                    [] action = "comment" -> "prompt"
                    [] OTHER -> "confirm"

\* A form needs the settings of the board.
Editable(action) == action \in {"create", "edit"} => settings

\* The keys of single actions.
PressKey(action) ==
    /\ KeysFree
    /\ action \in {"edit", "comment", "archive"}
    /\ Editable(action)
    /\ Shown # None /\ Offered(action, list.rows[Shown])
    /\ OpenModal(KindOf(action), action, Shown, list.rows[Shown])

PressCreate ==
    /\ KeysFree /\ Editable("create") /\ "create" \in Actions
    /\ OpenModal("form", "create", None, Absent)

OpenMenu ==
    /\ KeysFree
    /\ Shown # None
    /\ OpenModal("menu", "none", Shown, list.rows[Shown])

\* A choice acts on the row the menu was opened with.
ChooseAction(action) ==
    /\ modal.kind = "menu"
    /\ Offered(action, modal.seen)
    /\ action # "create" /\ Editable(action)
    /\ modal' = [modal EXCEPT !.kind = KindOf(action), !.action = action]
    /\ Pressed
    /\ UNCHANGED <<row, want, pane, chosen, mutation, settings, loads, failures>>

Cancel ==
    /\ modal # NoModal
    /\ modal' = NoModal /\ chosen' = None
    /\ Pressed
    /\ UNCHANGED <<row, want, pane, mutation, settings, loads, failures>>

Submitted == [step |-> "sent", action |-> modal.action, task |-> modal.task, seen |-> modal.seen]

\* beginMutation refuses a second mutation, and then what was entered is gone.
Submit ==
    /\ modal.kind \in {"form", "prompt", "confirm"}
    /\ modal' = NoModal
    /\ mutation' = IF Mutating THEN mutation ELSE Submitted
    /\ Pressed
    /\ UNCHANGED <<row, want, pane, chosen, settings, loads, failures>>

-----------------------------------------------------------------------------
(* The mutation *)

Changed(t, status, run) == row' = [row EXCEPT ![t] = [status |-> status, version |-> @.version + 1, run |-> run]]

\* What the store does with an action on task t that saw row `seen`; an action
\* it refuses has no effect of this kind.
Effect(action, t, seen) ==
    \/ /\ action = "create"
       /\ Changed(t, "ready", 0)
    \/ /\ action = "edit" /\ row[t].version = seen.version
       /\ Changed(t, row[t].status, row[t].run)
    \/ /\ action = "comment"
       /\ UNCHANGED row
    \/ /\ action = "archive" /\ row[t].run = 0
       /\ Changed(t, "archived", 0)
    \/ /\ action = "delete" /\ row[t].run = 0
       /\ Changed(t, "absent", 0)
    \/ /\ action = "terminate" /\ row[t].run = seen.run
       /\ Changed(t, "ready", 0)

Apply(t) ==
    /\ mutation.step = "sent"
    /\ IF mutation.action = "create" THEN ~Exists(t) ELSE t = mutation.task /\ Exists(t)
    /\ Effect(mutation.action, t, mutation.seen)
    /\ mutation' = [mutation EXCEPT !.step = "done",
                                   !.task = IF mutation.action = "delete" THEN None ELSE t]
    /\ UNCHANGED <<want, pane, modal, chosen, settings, loads, counts>>

\* The store says no, or fails.
Refuse ==
    /\ mutation.step = "sent"
    /\ mutation' = [mutation EXCEPT !.step = "refused"]
    /\ UNCHANGED <<row, want, pane, modal, chosen, settings, loads, counts>>

MutationAnswers ==
    /\ mutation.step = "done" /\ CanAsk
    /\ mutation' = NoMutation /\ chosen' = None
    /\ desired' = IF mutation.task # None THEN mutation.task ELSE desired
    /\ loading' = TRUE
    /\ loads' = loads \cup {Request}
    /\ UNCHANGED <<row, want, list, failed, modal, settings, counts>>

MutationRefused ==
    /\ mutation.step = "refused"
    /\ mutation' = NoMutation /\ chosen' = None
    /\ UNCHANGED <<row, want, pane, modal, settings, loads, counts>>

-----------------------------------------------------------------------------
\* Dispatchers, workers, other boards and people.
OthersChange(t) ==
    /\ Exists(t) /\ row[t].version < MaxVersion
    /\ \E s \in Named(TRUE) \ {row[t].status} :
          Changed(t, s, IF s = "running" THEN row[t].version + 1 ELSE 0)
    /\ UNCHANGED <<want, pane, modal, chosen, mutation, settings, loads, counts>>

Keys == \/ \E c \in 1..Len(Statuses(TRUE)) : MoveColumn(c)
        \/ \E i \in 1..Cardinality(Card) : MoveCard(i) \/ Jump(i)
        \/ Reload \/ ToggleArchived \/ OpenMenu \/ PressCreate \/ Cancel \/ Submit
        \/ \E text \in Search : SubmitSearch(text)
        \/ \E action \in Actions :
              PressKey(action) \/ ChooseAction(action)
Answers == \/ \E load \in loads : \/ QueryList(load) \/ QueryFails(load) \/ DropAnswer(load)
                                  \/ ListFails(load) \/ ListArrives(load)
           \/ \E t \in Card : Apply(t)
           \/ Refuse \/ MutationAnswers \/ MutationRefused
ConsoleNext == Keys \/ Answers \/ Refresh \/ \E t \in Card : OthersChange(t)

ConsoleSpec == ConsoleInit /\ [][ConsoleNext]_consoleVars

-----------------------------------------------------------------------------
(* Properties *)

\* What a person enters is never thrown away: while a menu, a form, a prompt or
\* a confirmation is open no mutation runs, so the one it leads to begins
\* (mutationKey and the guards of the menu, form, prompt and confirmation).
NothingEnteredInVain == modal.kind \in {"menu", "form", "prompt", "confirm"} => ~Mutating

\* README: "Destructive and planner actions remain pinned to the displayed task
\* ID while the board refreshes": the mutation sent is for the task that was
\* displayed when its menu, prompt or form was opened.
PinnedToDisplayed ==
    mutation.step = "sent" /\ mutation.action # "create" => mutation.task = chosen

\* Both of the above.
InputHitsItsTarget == NothingEnteredInVain /\ PinnedToDisplayed

\* When nothing is being loaded and the last load worked, the list is one that
\* was asked for: answers to an earlier search, or from before archived tasks
\* were hidden, never replace it (tasksLoadedMsg carries what it answers).
ListMatchesView ==
    ~loading /\ ~failed =>
        /\ list.visible = DOMAIN list.rows \cap Matches[search]
        /\ ~archived => \A t \in DOMAIN list.rows : list.rows[t].status # "archived"

\* A list that arrives leaves the selection on the task it was on, wherever the
\* task is listed now, unless a mutation asked for another one.
SelectionStays ==
    [][\A load \in loads :
          ListArrives(load) /\ desired = None /\ Shown \in list'.visible =>
              Selected(list', archived) = Shown]_consoleVars
=============================================================================
