----------------------------- MODULE Attachments ------------------------------
(***************************************************************************)
(* Files attached to tasks (store/attachments.go) and tasks imported from  *)
(* GitHub issues (githubissues/import.go).                                 *)
(*                                                                         *)
(* An attached file is a row of the database and a file of the board's     *)
(* directory: no transaction covers both, so every operation orders its    *)
(* steps, and a process can end between any two.  An import is a batch of  *)
(* transactions, one per issue, that other importers, people who archive   *)
(* and reopen tasks, and failures of single issues interleave with.        *)
(*                                                                         *)
(* The bytes of a file, names and media types are left out; so are URL     *)
(* attachments, which are rows alone, and an imported issue's title and    *)
(* body.  A task is deleted only once no run of it is active: runs are the *)
(* business of TaskStore.                                                  *)
(***************************************************************************)
EXTENDS Naturals, FiniteSets

CONSTANTS
    Task,
    File,         \* attachment ids: each is used once
    Issue,
    Importer,
    Null

ASSUME AttachmentAssumption == Null \notin Task \cup Issue

VARIABLES
    status,       \* task -> "none" (no row yet), "open", "archived" or "deleted"
    key,          \* task -> the issue whose idempotency key it carries, or Null
    rows,         \* task_attachments: the files recorded
    temporary,    \* files under a temporary name, not yet in place
    placed,       \* files in place
    attach,       \* file -> the call that attaches it
    removal,      \* file -> the call that removes it
    clearing,     \* deleted tasks whose directory is still to be removed
    left,         \* history: files that a crash or a failed removal left behind
    imports       \* importer -> its batch

files == <<rows, temporary, placed, attach, removal, clearing, left>>
vars == <<status, key, rows, temporary, placed, attach, removal, clearing, left, imports>>

NoCall == [step |-> "none", task |-> Null]
NoBatch == [step |-> "none", asked |-> {}, todo |-> {}, entries |-> {}, errors |-> {}]

Exists(t) == status[t] \in {"open", "archived"}
OfTask(t) == {f \in File : attach[f].task = t}

Init ==
    /\ status \in [Task -> {"none", "open"}]
    /\ key = [t \in Task |-> Null]
    /\ rows = {} /\ temporary = {} /\ placed = {}
    /\ attach = [f \in File |-> NoCall]
    /\ removal = [f \in File |-> "none"]
    /\ clearing = {} /\ left = {}
    /\ imports = [i \in Importer |-> NoBatch]

-----------------------------------------------------------------------------
(* AttachFile *)

Unattached(f) == attach[f].step \in {"checked", "copied", "placed"}

CheckAttach(f, t) ==
    /\ attach[f].step = "none" /\ Exists(t)
    /\ attach' = [attach EXCEPT ![f] = [step |-> "checked", task |-> t]]
    /\ UNCHANGED <<status, key, rows, temporary, placed, removal, clearing, left, imports>>

CopyFile(f) ==
    /\ attach[f].step = "checked"
    /\ attach' = [attach EXCEPT ![f].step = "copied"]
    /\ temporary' = temporary \cup {f}
    /\ UNCHANGED <<status, key, rows, placed, removal, clearing, left, imports>>

\* The rename, possible only while the directory has not been removed.
PlaceFile(f) ==
    /\ attach[f].step = "copied" /\ f \in temporary
    /\ attach' = [attach EXCEPT ![f].step = "placed"]
    /\ temporary' = temporary \ {f} /\ placed' = placed \cup {f}
    /\ UNCHANGED <<status, key, rows, removal, clearing, left, imports>>

\* MUTANT: the task is not looked up again in the transaction.
RecordFileUnchecked(f) ==
    /\ attach[f].step = "placed"
    /\ attach' = [attach EXCEPT ![f].step = "done"]
    /\ rows' = rows \cup {f}
    /\ UNCHANGED <<status, key, temporary, placed, removal, clearing, left, imports>>

RecordFile(f) ==
    /\ attach[f].step = "placed" /\ Exists(attach[f].task)
    /\ attach' = [attach EXCEPT ![f].step = "done"]
    /\ rows' = rows \cup {f}
    /\ UNCHANGED <<status, key, temporary, placed, removal, clearing, left, imports>>

\* Any step can fail; the deferred clean-up removes both names.
AttachFails(f) ==
    /\ Unattached(f)
    /\ attach' = [attach EXCEPT ![f].step = "failed"]
    /\ temporary' = temporary \ {f} /\ placed' = placed \ {f}
    /\ UNCHANGED <<status, key, rows, removal, clearing, left, imports>>

AttachCrashes(f) ==
    /\ Unattached(f)
    /\ attach' = [attach EXCEPT ![f].step = "crashed"]
    /\ left' = left \cup {f}
    /\ UNCHANGED <<status, key, rows, temporary, placed, removal, clearing, imports>>

-----------------------------------------------------------------------------
(* RemoveAttachment *)

ReadForRemoval(f) ==
    /\ f \in rows /\ removal[f] = "none"
    /\ removal' = [removal EXCEPT ![f] = "read"]
    /\ UNCHANGED <<status, key, rows, temporary, placed, attach, clearing, left, imports>>

DeleteRow(f) ==
    /\ removal[f] = "read"
    /\ removal' = [removal EXCEPT ![f] = "row deleted"]
    /\ rows' = rows \ {f}
    /\ UNCHANGED <<status, key, temporary, placed, attach, clearing, left, imports>>

RemoveFile(f) ==
    /\ removal[f] = "row deleted"
    /\ removal' = [removal EXCEPT ![f] = "none"]
    /\ placed' = placed \ {f}
    /\ UNCHANGED <<status, key, rows, temporary, attach, clearing, left, imports>>

\* os.Remove fails, or the process ends: nothing will try again.
RemovalFails(f) ==
    /\ removal[f] # "none"
    /\ removal' = [removal EXCEPT ![f] = "none"]
    /\ left' = IF removal[f] = "row deleted" THEN left \cup {f} ELSE left
    /\ UNCHANGED <<status, key, rows, temporary, placed, attach, clearing, imports>>

-----------------------------------------------------------------------------
(* Tasks *)

DeleteTask(t) ==
    /\ Exists(t)
    /\ status' = [status EXCEPT ![t] = "deleted"]
    /\ rows' = rows \ OfTask(t)
    /\ clearing' = clearing \cup {t}
    /\ UNCHANGED <<key, temporary, placed, attach, removal, left, imports>>

ClearDirectory(t) ==
    /\ t \in clearing
    /\ clearing' = clearing \ {t}
    /\ temporary' = temporary \ OfTask(t) /\ placed' = placed \ OfTask(t)
    /\ UNCHANGED <<status, key, rows, attach, removal, left, imports>>

ClearingFails(t) ==
    /\ t \in clearing
    /\ clearing' = clearing \ {t}
    /\ left' = left \cup OfTask(t)
    /\ UNCHANGED <<status, key, rows, temporary, placed, attach, removal, imports>>

ArchiveTask(t) ==
    /\ status[t] = "open"
    /\ status' = [status EXCEPT ![t] = "archived"]
    /\ UNCHANGED <<key, files, imports>>

\* FindTaskByIdempotencyKey: archived tasks are ignored.
Current(issue) == {t \in Task : status[t] = "open" /\ key[t] = issue}

\* MUTANT: no unique index on the keys of tasks that are not archived.
ReopenTaskAnyway(t) ==
    /\ status[t] = "archived"
    /\ status' = [status EXCEPT ![t] = "open"]
    /\ UNCHANGED <<key, files, imports>>

\* The unique index refuses a second open task of one issue.
ReopenTask(t) ==
    /\ status[t] = "archived" /\ (key[t] # Null => Current(key[t]) = {})
    /\ status' = [status EXCEPT ![t] = "open"]
    /\ UNCHANGED <<key, files, imports>>

-----------------------------------------------------------------------------
(* Import *)

Fetched(asked, found) ==
    [step |-> "importing", asked |-> asked, todo |-> found, entries |-> {}, errors |-> asked \ found]

\* Issues named by number are fetched one by one and each can fail; a list of
\* issues is fetched whole.
Fetch(i, asked, found) ==
    /\ imports[i].step = "none" /\ asked # {} /\ found \subseteq asked
    /\ imports' = [imports EXCEPT ![i] = Fetched(asked, found)]
    /\ UNCHANGED <<status, key, files>>

Imported(batch, issue) ==
    [batch EXCEPT !.todo = @ \ {issue}, !.entries = @ \cup {issue}]
Refused(batch, issue) ==
    [batch EXCEPT !.todo = @ \ {issue}, !.errors = @ \cup {issue}]

\* CreateTaskWithURLSource, one transaction; a task it creates is in triage.
ImportIssue(i, issue) ==
    /\ issue \in imports[i].todo
    /\ imports' = [imports EXCEPT ![i] = Imported(@, issue)]
    /\ \/ /\ Current(issue) # {}
          /\ UNCHANGED <<status, key>>
       \/ /\ Current(issue) = {}
          /\ \E t \in Task : /\ status[t] = "none"
                             /\ status' = [status EXCEPT ![t] = "open"]
                             /\ key' = [key EXCEPT ![t] = issue]
    /\ UNCHANGED files

\* The issue's URL is not one of an issue, or the transaction fails.
RefuseIssue(i, issue) ==
    /\ issue \in imports[i].todo
    /\ imports' = [imports EXCEPT ![i] = Refused(@, issue)]
    /\ UNCHANGED <<status, key, files>>

Outcome(batch) == CASE batch.errors = {} -> "success"
                    [] batch.entries # {} -> "partial"
                    [] OTHER -> "failed"

Reported(batch) == [batch EXCEPT !.step = Outcome(batch)]

Report(i) ==
    /\ imports[i].step = "importing" /\ imports[i].todo = {}
    /\ imports' = [imports EXCEPT ![i] = Reported(@)]
    /\ UNCHANGED <<status, key, files>>

\* The caller runs the import again, as the README says it may.
ImportAgain(i) ==
    /\ imports[i].step \in {"success", "partial", "failed"}
    /\ imports' = [imports EXCEPT ![i] = NoBatch]
    /\ UNCHANGED <<status, key, files>>

FileSteps ==
    \E f \in File :
        \/ \E t \in Task : CheckAttach(f, t)
        \/ CopyFile(f) \/ PlaceFile(f) \/ RecordFile(f) \/ AttachFails(f) \/ AttachCrashes(f)
        \/ ReadForRemoval(f) \/ DeleteRow(f) \/ RemoveFile(f) \/ RemovalFails(f)
TaskSteps ==
    \E t \in Task :
        DeleteTask(t) \/ ClearDirectory(t) \/ ClearingFails(t) \/ ArchiveTask(t) \/ ReopenTask(t)
ImportSteps ==
    \E i \in Importer :
        \/ \E asked \in SUBSET Issue, found \in SUBSET Issue : Fetch(i, asked, found)
        \/ \E issue \in Issue : ImportIssue(i, issue) \/ RefuseIssue(i, issue)
        \/ Report(i) \/ ImportAgain(i)
Next == FileSteps \/ TaskSteps \/ ImportSteps

Spec == Init /\ [][Next]_vars

-----------------------------------------------------------------------------
(* Properties *)

\* A row always has its file: it is written after the file is in place, in a
\* transaction that finds the task still there, and deleted before the file.
RowsHaveFiles == rows \subseteq placed

\* A file without a row belongs to an operation under way, or was left by one
\* that a crash or a failed removal cut short: AttachFile cleans up whatever
\* happened to its task meanwhile.
NoStrayFiles ==
    \A f \in (temporary \cup placed) \ rows :
        Unattached(f) \/ removal[f] = "row deleted" \/ attach[f].task \in clearing \/ f \in left

\* Both of the above.
FilesMatchRows == RowsHaveFiles /\ NoStrayFiles

\* README: an import can be run again.  However importers, archiving and
\* reopening interleave, one issue has at most one task that is not archived.
OneTaskPerIssue == \A issue \in Issue : Cardinality(Current(issue)) <= 1

\* An import that reports success made or found a task of every issue it was
\* asked for, whatever single issue failed on the way.
SuccessMeansAll ==
    \A i \in Importer :
        imports[i].step = "success" =>
            \A issue \in imports[i].asked : \E t \in Task : key[t] = issue

\* Both of the above.
ImportsAreComplete == OneTaskPerIssue /\ SuccessMeansAll
=============================================================================
