------------------------------ MODULE Changes ------------------------------
(* Change approval (changes.rs) with the version records it keeps           *)
(* (versioning.rs) and the budget of the agent's task that it charges        *)
(* (task_integrity), on one file of a project.                               *)
(*                                                                          *)
(* An agent's call submits a change, which is queued for review or applied  *)
(* at once; the desk, the window of the application, approves, rejects and   *)
(* undoes changes.  Every call is taken apart where another call, an editor, *)
(* a failed save or a crash may come between: the histories are read,        *)
(* changed and written back as whole files, and the check of the project     *)
(* file is apart from its write.                                            *)
(*                                                                          *)
(* The submissions of all agents are one actor, since they hold             *)
(* CHANGE_SUBMISSION_LOCK; so are the commands of the desk, which the        *)
(* application runs one after the other.  Neither excludes the other.        *)
(*                                                                          *)
(* Left out: patches, renames, moves, deletions and directories; the scope   *)
(* of a task and the generations of its files, whose mismatch is a refusal   *)
(* that may come at any time; duplicate requests; edit groups, restores and  *)
(* retention of versions; the clearing of the history.  A reply that cannot  *)
(* change anything (a change that is not pending, a missing request) is no   *)
(* step.                                                                     *)
EXTENDS Naturals, FiniteSets

CONSTANTS
    Changes,    \* the changes, each of which would leave content of its own
    Worlds,     \* what may befall a behaviour: sets of Faults
    Unread,     \* a file that a call has not loaded yet
    Root,       \* the state of the project before every version
    Budgets     \* the changed lines a task may be allowed; here one per change

\* overlap: the agent and the desk act at the same time; save: a write of any
\* file may fail; remove: so may the removal of one; crash: the process may die
\* between two steps or in a write; editor: the user edits the file outside
\* RepoTunnel.
Faults == {"overlap", "save", "remove", "crash", "editor"}

ASSUME ChangesAssumption ==
    /\ Worlds \subseteq SUBSET Faults
    /\ IsFiniteSet(Changes) /\ Root \notin Changes
    /\ Changes \cap {"base", "gone", "edited", "torn"} = {}
    /\ Budgets \subseteq Nat

\* A file holds what a change wrote, what was there, or what an editor or a
\* creation that failed half way left; "gone" is no file.
Contents == Changes \cup {"base", "gone", "edited", "torn"}

ASSUME UnreadAssumption == Unread \notin Contents \cup {Root}

Statuses == {"none", "pending", "applied", "rejected", "undone", "failed"}

VARIABLES
    file,       \* the content of the project file
    payload,    \* for each change, the content it was prepared against
    history,    \* history.json: the status of each change
    requests,   \* the changes whose pending request is on disk
    backups,    \* the changes whose undo payload is on disk: their payload
    versions,   \* version history: the parent of each change's version
    current,    \* version state: the current version of the workspace
    torn,       \* the version files that hold a part of a text, which no load
                \* accepts
    contract,   \* the task: the changes it is charged for, those among them
                \* that are not settled, and its budget
    calls,      \* what the agent and the desk are doing
    told,       \* the last answer on each change
    lost,       \* (for the properties) the version files that a save cut short
    denied,     \* (for the properties) the changes that are in place although
                \* their write answered an error
    faults      \* what may befall this behaviour

vars == <<file, payload, history, requests, backups, versions, current, torn,
          contract, calls, told, lost, denied, faults>>
metadata == <<payload, requests, contract, denied, faults>>
versionFiles == <<versions, current, torn, lost>>

Actors == {"agent", "desk"}
Unwritten == [c \in Changes |-> Unread]

\* A call: what it does, its next step, its change, the change history, the
\* contract and the version files it loaded, and the parent its version was
\* prepared with.
Idle == [op |-> "none", step |-> "none", change |-> Root, seen |-> Unread,
         task |-> Unread, base |-> Unread, parent |-> Root]
Steps == {"none", "request", "queue", "reserve", "prepare", "start", "check",
          "backup", "write", "applied", "rollback", "revert", "rolledBack",
          "fail", "failed", "release", "commit", "saveVersion", "savePointer",
          "advance", "undo", "verify", "restore", "undone", "reconcile",
          "finish", "reject", "discard"}
Contracts == [usage : SUBSET Changes, reserved : SUBSET Changes, budget : Budgets]
Histories == [Changes -> Statuses]
VersionFiles == [versions : [Changes -> Changes \cup {Root, Unread}],
                 current : Changes \cup {Root}]
Calls == [op : {"none", "submit", "approve", "reject", "undo"}, step : Steps,
          change : Changes \cup {Root}, seen : Histories \cup {Unread},
          task : Contracts \cup {Unread},
          base : VersionFiles \cup {Unread}, parent : Changes \cup {Root}]

-----------------------------------------------------------------------------
(* Calls and their files *)

Fails == "save" \in faults
Alone == "overlap" \notin faults
Free(p) == calls[p] = Idle /\ (Alone => \A q \in Actors : calls[q] = Idle)
Subject(p) == calls[p].change
At(p, step) == calls[p].op # "none" /\ calls[p].step = step

Begin(p, op, step, c, seen) ==
    calls' = [calls EXCEPT ![p] = [Idle EXCEPT !.op = op, !.step = step,
                                               !.change = c, !.seen = seen]]
Go(p, step) == calls' = [calls EXCEPT ![p].step = step] /\ UNCHANGED told
Answer(p, answer) ==
    /\ calls' = [calls EXCEPT ![p] = Idle]
    /\ told' = [told EXCEPT ![Subject(p)] = answer]
\* A rejection or an undo that fails leaves what was said before.
AnswerError(p) ==
    /\ calls' = [calls EXCEPT ![p] = Idle]
    /\ told' = IF calls[p].op \in {"submit", "approve"}
               THEN [told EXCEPT ![Subject(p)] = "failed"] ELSE told

\* persist_record loads the history just before it saves it.
Persisting == {"queue", "start", "applied", "rolledBack", "failed"}
LoadHistory(p) ==
    /\ calls[p].step \in Persisting /\ calls[p].seen = Unread
    /\ calls' = [calls EXCEPT ![p].seen = history]
    /\ UNCHANGED <<file, history, backups, versionFiles, told, metadata>>

\* save_history: the whole file is replaced by what was loaded, changed.
Saves(p, status) ==
    /\ calls[p].seen # Unread
    /\ history' = [calls[p].seen EXCEPT ![Subject(p)] = status]
CannotSave(p) == Fails /\ calls[p].seen # Unread /\ UNCHANGED history
Proceed(p, step) ==
    /\ calls' = [calls EXCEPT ![p].step = step, ![p].seen = Unread,
                              ![p].task = Unread]
    /\ UNCHANGED told

\* remove_file_if_present ignores a failure.
Removed(files, c) ==
    {files \ {c}} \cup IF "remove" \in faults THEN {files} ELSE {}

\* A failure that may have left the edit in the project: the approval, which
\* keeps the request after the failures proven to have left nothing, drops it.
GiveUp(p) ==
    /\ AnswerError(p)
    /\ requests' \in IF calls[p].op = "approve"
                     THEN Removed(requests, Subject(p)) ELSE {requests}

-----------------------------------------------------------------------------
(* The budget of the task *)

Budgeting == {"reserve", "release", "advance", "reconcile"}

\* The contract and the history it is compared with are read, and the contract
\* is written back later, as a whole.
LoadContract(p) ==
    /\ calls[p].step \in Budgeting /\ calls[p].task = Unread
    /\ calls' = [calls EXCEPT ![p].task = contract, ![p].seen = history]
    /\ UNCHANGED <<file, history, backups, versionFiles, told, metadata>>

\* Fault: an undone change is not charged.
SettledUndone(task, seen, cs) ==
    LET settled == {c \in cs \cap task.reserved : seen[c] # "pending"} IN
    [task EXCEPT !.reserved = @ \ settled,
                 !.usage = @ \ {c \in settled : seen[c] # "applied"}]
\* Fault: what was never made stays charged.
SettledAsCharged(task, seen, cs) ==
    [task EXCEPT !.reserved = @ \ {c \in cs : seen[c] # "pending"}]
\* settle_task_budget_reservation: what was applied, even if it was undone,
\* stays charged; what was rejected, failed or never recorded does not.
Settled(task, seen, cs) ==
    LET settled == {c \in cs \cap task.reserved : seen[c] # "pending"} IN
    [task EXCEPT !.reserved = @ \ settled,
                 !.usage = @ \ {c \in settled : seen[c] \notin {"applied", "undone"}}]

\* A contract that did not change is not saved.
Upsert(p, task) ==
    /\ calls[p].task # Unread
    /\ contract' = IF task = calls[p].task THEN contract ELSE task
\* A save that fails may do so after the new contract is in place.
CannotUpsert(p, task) ==
    /\ Fails /\ calls[p].task # Unread
    /\ contract' \in {contract} \cup ({task} \ {calls[p].task})

\* enforce_task_budget, after the checks of the task's authority and of the
\* generation of the file, which may refuse the change too.
Reserve(p) ==
    LET task == Settled(calls[p].task, calls[p].seen, Changes)
        charged == [task EXCEPT !.usage = @ \cup {Subject(p)},
                                !.reserved = @ \cup {Subject(p)}]
    IN  /\ At(p, "reserve") /\ calls[p].task # Unread
        /\ \/ /\ Cardinality(charged.usage) <= charged.budget
              /\ \/ Upsert(p, charged) /\ Proceed(p, "prepare")
                 \/ CannotUpsert(p, charged) /\ AnswerError(p)
           \/ UNCHANGED contract /\ AnswerError(p)
        /\ UNCHANGED <<file, payload, history, requests, backups, versionFiles, denied, faults>>

\* release_task_budget_after_safe_failure: nothing of the change is left in the
\* project, whatever the history says.
Release(p) ==
    LET task == Settled(calls[p].task, [calls[p].seen EXCEPT ![Subject(p)] = "failed"],
                        {Subject(p)})
    IN
    /\ At(p, "release")
    /\ Upsert(p, task) \/ CannotUpsert(p, task)
    /\ AnswerError(p)
    /\ UNCHANGED <<file, payload, history, requests, backups, versionFiles, denied, faults>>

\* advance_persisted_task_generations_after_apply: the contract is always
\* saved, for the new generation of the file.  If that fails, the call does.
Advance(p) ==
    LET task == Settled(calls[p].task, [calls[p].seen EXCEPT ![Subject(p)] = "applied"],
                        {Subject(p)})
    IN
    /\ At(p, "advance") /\ calls[p].task # Unread
    /\ \/ contract' = task /\ Proceed(p, "finish")
       \/ Fails /\ contract' \in {contract, task} /\ AnswerError(p)
    /\ UNCHANGED <<file, payload, history, requests, backups, versionFiles, denied, faults>>

\* reconcile_persisted_task_budget_reservation: the record decides.
Reconcile(p) ==
    /\ At(p, "reconcile")
    /\ LET task == Settled(calls[p].task, calls[p].seen, {Subject(p)})
       IN  Upsert(p, task) \/ CannotUpsert(p, task)
    /\ GiveUp(p)
    /\ UNCHANGED <<file, payload, history, backups, versionFiles, denied, faults>>

-----------------------------------------------------------------------------
(* submit_payload_with_review *)

\* write_file and create_file prepare the change against the file as it is,
\* and the project's policy or the caller decides on the review.
Submit(c) ==
    /\ Free("agent")
    /\ payload[c] = Unread
    /\ payload' = [payload EXCEPT ![c] = file]
    /\ \E step \in {"request", "reserve"} : Begin("agent", "submit", step, c, Unread)
    /\ UNCHANGED <<file, history, requests, backups, versionFiles, contract,
                   told, denied, faults>>

WriteRequest(p) ==
    /\ At(p, "request")
    /\ \/ requests' = requests \cup {Subject(p)} /\ Go(p, "queue")
       \/ Fails /\ UNCHANGED requests /\ AnswerError(p)
    /\ UNCHANGED <<file, payload, history, backups, versionFiles, contract, denied, faults>>

QueueRecord(p) ==
    /\ At(p, "queue")
    /\ \/ Saves(p, "pending") /\ Answer(p, "queued") /\ UNCHANGED requests
       \/ /\ CannotSave(p) /\ AnswerError(p)
          /\ requests' \in Removed(requests, Subject(p))
    /\ UNCHANGED <<file, payload, backups, versionFiles, contract, denied, faults>>

\* versioning::prepare_change, whose snapshot may fail.
PrepareVersion(p) ==
    /\ At(p, "prepare")
    /\ \/ /\ torn = {}
          /\ calls' = [calls EXCEPT ![p].parent = current,
                            ![p].step = IF calls[p].op = "submit" THEN "start"
                                        ELSE "check"]
          /\ UNCHANGED told
       \/ (Fails \/ torn # {}) /\ Go(p, "release")
    /\ UNCHANGED <<file, history, backups, versionFiles, metadata>>

StartRecord(p) ==
    /\ At(p, "start")
    /\ \/ Saves(p, "pending") /\ Proceed(p, "check")
       \/ CannotSave(p) /\ Proceed(p, "release")
    /\ UNCHANGED <<file, backups, versionFiles, metadata>>

-----------------------------------------------------------------------------
(* apply_record *)

\* validate_payload and prepare_undo: the file is as the change expects it.
CheckFile(p) ==
    /\ At(p, "check")
    /\ Go(p, IF file = payload[Subject(p)] THEN "backup" ELSE "fail")
    /\ UNCHANGED <<file, history, backups, versionFiles, metadata>>

WriteBackup(p) ==
    /\ At(p, "backup")
    /\ \/ backups' = backups \cup {Subject(p)} /\ Go(p, "write")
       \/ Fails /\ UNCHANGED backups /\ Go(p, "fail")
    /\ UNCHANGED <<file, history, versionFiles, metadata>>

\* apply_payload: create_file insists that there is no file, write_file that
\* there is one; neither looks at its content again.  Either may fail with the
\* whole content in place, at the sync of the new file or the look at the file
\* that follows; create_file also with a part of it.
Writable(c) == (payload[c] = "gone") <=> (file = "gone")
WritePayload(p) ==
    LET c == Subject(p) IN
    /\ At(p, "write")
    /\ \/ Writable(c) /\ file' = c /\ Go(p, "applied") /\ denied' = denied \ {c}
       \/ ~Writable(c) /\ Go(p, "fail") /\ UNCHANGED <<file, denied>>
       \/ /\ Fails /\ Writable(c) /\ Go(p, "fail")
          /\ file' \in {file, c} \cup (IF payload[c] = "gone" THEN {"torn"} ELSE {})
          /\ denied' = IF file' = c THEN denied \cup {c} ELSE denied
    /\ UNCHANGED <<payload, history, requests, backups, versionFiles, contract, faults>>

\* Faults: the failed save is ignored, or taken for a failed write.
RecordAppliedAnyway(p) ==
    /\ At(p, "applied")
    /\ \/ Saves(p, "applied") /\ Proceed(p, "commit")
       \/ CannotSave(p) /\ Proceed(p, "commit")
    /\ UNCHANGED <<file, backups, versionFiles, metadata>>
RecordAppliedOrFail(p) ==
    /\ At(p, "applied")
    /\ \/ Saves(p, "applied") /\ Proceed(p, "commit")
       \/ CannotSave(p) /\ Proceed(p, "fail")
    /\ UNCHANGED <<file, backups, versionFiles, metadata>>
RecordApplied(p) ==
    /\ At(p, "applied")
    /\ \/ Saves(p, "applied") /\ Proceed(p, "commit")
       \/ CannotSave(p) /\ Proceed(p, "rollback")
    /\ UNCHANGED <<file, backups, versionFiles, metadata>>

\* undo_payload checks the file, and then removes or writes it.  The write may
\* fail with the old content in place.
PutBack(p) == file' = payload[Subject(p)]
CannotPutBack(p) == Fails /\ file' \in {file} \cup ({payload[Subject(p)]} \ {"gone"})

CheckRollback(p) ==
    /\ At(p, "rollback")
    /\ \/ file = Subject(p) /\ Go(p, "revert") /\ UNCHANGED requests
       \/ file # Subject(p) /\ GiveUp(p)
    /\ UNCHANGED <<file, payload, history, backups, versionFiles, contract, denied, faults>>
\* Fault: an ambiguous failure frees the charge like a safe one.
RevertOrRelease(p) ==
    /\ At(p, "revert")
    /\ \/ PutBack(p) /\ Go(p, "rolledBack")
       \/ CannotPutBack(p) /\ Go(p, "release")
    /\ UNCHANGED <<history, backups, versionFiles, metadata>>
Revert(p) ==
    /\ At(p, "revert")
    /\ \/ PutBack(p) /\ Go(p, "rolledBack") /\ UNCHANGED requests
       \/ CannotPutBack(p) /\ GiveUp(p)
    /\ UNCHANGED <<payload, history, backups, versionFiles, contract, denied, faults>>

RecordRolledBack(p) ==
    /\ At(p, "rolledBack")
    /\ Proceed(p, "release")
    /\ \/ Saves(p, "failed") /\ backups' \in Removed(backups, Subject(p))
       \/ CannotSave(p) /\ UNCHANGED backups
    /\ UNCHANGED <<file, versionFiles, metadata>>

\* fail_record: nothing was written, the backup goes first.
Fail(p) ==
    /\ At(p, "fail")
    /\ backups' \in Removed(backups, Subject(p))
    /\ Go(p, "failed")
    /\ UNCHANGED <<file, history, versionFiles, metadata>>
RecordFailed(p) ==
    /\ At(p, "failed")
    /\ Proceed(p, "release")
    /\ Saves(p, "failed") \/ CannotSave(p)
    /\ UNCHANGED <<file, backups, versionFiles, metadata>>

-----------------------------------------------------------------------------
(* versioning::commit_change *)

VersionStore == {"history", "state"}

\* save_json writes a version file in place, so a save that fails may also leave
\* it cut short: empty, which loads as the default, or with a part of the text.
\* Of the version files those in whole hold the content, those in cut are cut
\* short, and the others are as they were.
Writes(whole, cut, content) ==
    /\ versions' = IF "history" \in cut THEN Unwritten
                   ELSE IF "history" \in whole THEN content.versions ELSE versions
    /\ current' = IF "state" \in cut THEN Root
                  ELSE IF "state" \in whole THEN content.current ELSE current
    /\ \E part \in SUBSET cut : torn' = (torn \ (whole \cup cut)) \cup part
    /\ lost' = lost \cup cut

\* Fault: the pointer to put back is not loaded.
LoadVersionsOnly(p) ==
    /\ At(p, "commit")
    /\ torn = {}
    /\ calls' = [calls EXCEPT ![p].step = "saveVersion",
                              ![p].base = [versions |-> versions]]
    /\ UNCHANGED <<file, history, backups, versionFiles, told, metadata>>
\* The snapshot of the files may fail, and so may the loads.
LoadVersions(p) ==
    /\ At(p, "commit")
    /\ \/ /\ torn = {}
          /\ calls' = [calls EXCEPT ![p].step = "saveVersion",
                    ![p].base = [versions |-> versions, current |-> current]]
          /\ UNCHANGED told
       \/ (Fails \/ torn # {}) /\ Go(p, "undo")
    /\ UNCHANGED <<file, history, backups, versionFiles, metadata>>

Committed(p) == [versions |-> [calls[p].base.versions EXCEPT ![Subject(p)] = calls[p].parent],
                 current  |-> Subject(p)]

\* Fault: the pointer is saved after the history failed.
SaveVersionAnyway(p) ==
    /\ At(p, "saveVersion")
    /\ \/ Writes({"history"}, {}, Committed(p))
       \/ Fails /\ \E cut \in SUBSET {"history"} : Writes({}, cut, Committed(p))
    /\ Go(p, "savePointer")
    /\ UNCHANGED <<file, history, backups, metadata>>
\* save_version_metadata_pair: the history, and then the pointer; a failure of
\* the pointer puts both back, as far as that succeeds.
SaveVersion(p) ==
    /\ At(p, "saveVersion")
    /\ \/ Writes({"history"}, {}, Committed(p)) /\ Go(p, "savePointer")
       \/ /\ Fails /\ Go(p, "undo")
          /\ \E cut \in SUBSET {"history"} : Writes({}, cut, Committed(p))
    /\ UNCHANGED <<file, history, backups, metadata>>

SavePointer(p) ==
    /\ At(p, "savePointer")
    /\ \/ Writes({"state"}, {}, Committed(p)) /\ Go(p, "advance")
       \/ /\ Fails /\ Go(p, "undo")
          /\ \E back, cut \in SUBSET VersionStore :
                back \cap cut = {} /\ Writes(back, cut, calls[p].base)
    /\ UNCHANGED <<file, history, backups, metadata>>

\* The end of an undo: that of the user, or the one for a failed version save,
\* which leaves the charge to be reconciled.
EndUndo(p, answer) ==
    /\ IF calls[p].op = "undo" THEN answer ELSE Proceed(p, "reconcile")
    /\ UNCHANGED requests

\* A failed save of the version undoes the change like the user would.
UndoCommit(p) ==
    /\ At(p, "undo")
    /\ \/ /\ history[Subject(p)] = "applied" /\ Subject(p) \in backups
          /\ calls' = [calls EXCEPT ![p].step = "verify", ![p].seen = history]
          /\ UNCHANGED <<told, requests>>
       \/ /\ ~(history[Subject(p)] = "applied" /\ Subject(p) \in backups)
          /\ EndUndo(p, AnswerError(p))
    /\ UNCHANGED <<file, payload, history, backups, versionFiles, contract, denied, faults>>

\* The end of a submission or of an approval that succeeded.
Finish(p) ==
    /\ At(p, "finish")
    /\ Answer(p, "applied")
    /\ requests' \in IF calls[p].op = "approve"
                     THEN Removed(requests, Subject(p)) ELSE {requests}
    /\ UNCHANGED <<file, payload, history, backups, versionFiles, contract, denied, faults>>

-----------------------------------------------------------------------------
(* approve_change, reject_change and undo_change *)

Approve(c) ==
    /\ Free("desk")
    /\ history[c] = "pending" /\ c \in requests
    /\ Begin("desk", "approve", "reserve", c, Unread)
    /\ UNCHANGED <<file, history, backups, versionFiles, told, metadata>>

Reject(c) ==
    /\ Free("desk")
    /\ history[c] = "pending"
    /\ Begin("desk", "reject", "reject", c, history)
    /\ UNCHANGED <<file, history, backups, versionFiles, told, metadata>>
RecordRejected(p) ==
    /\ At(p, "reject")
    /\ \/ Saves(p, "rejected") /\ Go(p, "discard")
       \/ CannotSave(p) /\ AnswerError(p)
    /\ UNCHANGED <<file, backups, versionFiles, metadata>>
\* Fault: the request of a rejected change stays on disk.
DiscardNothing(p) ==
    /\ At(p, "discard")
    /\ Answer(p, "rejected")
    /\ UNCHANGED <<file, history, backups, versionFiles, metadata>>
Discard(p) ==
    /\ At(p, "discard")
    /\ requests' \in Removed(requests, Subject(p))
    /\ Answer(p, "rejected")
    /\ UNCHANGED <<file, payload, history, backups, versionFiles, contract, denied, faults>>

Undo(c) ==
    /\ Free("desk")
    /\ history[c] = "applied" /\ c \in backups
    /\ Begin("desk", "undo", "verify", c, history)
    /\ UNCHANGED <<file, history, backups, versionFiles, told, metadata>>

\* undo_payload, which checks the file and then writes it, and the record.
Verify(p) ==
    /\ At(p, "verify")
    /\ \/ file = Subject(p) /\ Go(p, "restore") /\ UNCHANGED requests
       \/ file # Subject(p) /\ EndUndo(p, AnswerError(p))
    /\ UNCHANGED <<file, payload, history, backups, versionFiles, contract, denied, faults>>
Restore(p) ==
    /\ At(p, "restore")
    /\ \/ PutBack(p) /\ Go(p, "undone") /\ UNCHANGED requests
       \/ CannotPutBack(p) /\ EndUndo(p, AnswerError(p))
    /\ UNCHANGED <<payload, history, backups, versionFiles, contract, denied, faults>>
RecordUndone(p) ==
    /\ At(p, "undone")
    /\ \/ Saves(p, "undone") /\ backups' \in Removed(backups, Subject(p))
          /\ EndUndo(p, Answer(p, "undone"))
       \/ CannotSave(p) /\ UNCHANGED backups /\ EndUndo(p, AnswerError(p))
    /\ UNCHANGED <<file, payload, versionFiles, contract, denied, faults>>

-----------------------------------------------------------------------------
(* The user's editor and the end of the process *)

Edit ==
    /\ "editor" \in faults /\ file # "edited"
    /\ file' = "edited"
    /\ UNCHANGED <<history, backups, versionFiles, calls, told, metadata>>

\* The version files that a call may be writing, and those that it may have put
\* back after the pointer could not be saved.
BeingSaved(p) == IF At(p, "saveVersion") THEN {"history"}
                 ELSE IF At(p, "savePointer") THEN {"state"} \cup (IF Fails THEN {"history"} ELSE {})
                 ELSE {}
BeingPutBack(p) == IF At(p, "savePointer") /\ Fails THEN VersionStore ELSE {}

\* A crash in the write of a version file cuts it short, and one in create_file
\* leaves a part of the new file.
Crash ==
    /\ "crash" \in faults
    /\ \E p \in Actors :
        /\ calls[p] # Idle
        /\ \E back \in SUBSET BeingPutBack(p), cut \in SUBSET UNION {BeingSaved(q) : q \in Actors} :
                back \cap cut = {} /\ Writes(back, cut, calls[p].base)
    /\ calls' = [p \in Actors |-> Idle]
    /\ file' \in {file} \cup
            IF \E p \in Actors : At(p, "write") /\ {file, payload[Subject(p)]} = {"gone"}
            THEN {"torn"} ELSE {}
    /\ UNCHANGED <<history, backups, told, metadata>>

-----------------------------------------------------------------------------
Init ==
    /\ file \in {"base", "gone"}
    /\ payload = Unwritten
    /\ history = [c \in Changes |-> "none"]
    /\ requests = {} /\ backups = {}
    /\ versions = Unwritten /\ current = Root /\ torn = {} /\ lost = {} /\ denied = {}
    /\ contract \in [usage : {{}}, reserved : {{}}, budget : Budgets]
    /\ calls = [p \in Actors |-> Idle]
    /\ told = [c \in Changes |-> "nothing"]
    /\ faults \in Worlds

Step(p) ==
    \/ LoadHistory(p) \/ LoadContract(p)
    \/ Reserve(p) \/ Release(p) \/ Advance(p) \/ Reconcile(p)
    \/ WriteRequest(p) \/ QueueRecord(p) \/ PrepareVersion(p) \/ StartRecord(p)
    \/ CheckFile(p) \/ WriteBackup(p) \/ WritePayload(p) \/ RecordApplied(p)
    \/ CheckRollback(p) \/ Revert(p) \/ RecordRolledBack(p)
    \/ Fail(p) \/ RecordFailed(p)
    \/ LoadVersions(p) \/ SaveVersion(p) \/ SavePointer(p) \/ UndoCommit(p) \/ Finish(p)
    \/ RecordRejected(p) \/ Discard(p)
    \/ Verify(p) \/ Restore(p) \/ RecordUndone(p)

Next ==
    \/ \E c \in Changes : Submit(c) \/ Approve(c) \/ Reject(c) \/ Undo(c)
    \/ \E p \in Actors : Step(p)
    \/ Edit
    \/ Crash

Spec == Init /\ [][Next]_vars

-----------------------------------------------------------------------------
(* Properties *)

TypeOK ==
    /\ file \in Contents
    /\ payload \in [Changes -> Contents \cup {Unread}]
    /\ history \in Histories
    /\ requests \subseteq Changes /\ backups \subseteq Changes
    /\ versions \in [Changes -> Changes \cup {Root, Unread}]
    /\ current \in Changes \cup {Root}
    /\ torn \subseteq VersionStore /\ lost \subseteq VersionStore
    /\ contract \in Contracts
    /\ calls \in [Actors -> Calls]
    /\ told \in [Changes -> {"nothing", "queued", "applied", "rejected", "undone", "failed"}]
    /\ denied \subseteq Changes /\ faults \in Worlds

\* The write of a change reaches the project file.
Lands(p) == At(p, "write") /\ file' = Subject(p) /\ file # file'

\* The desk does not write a change to the project that was answered as
\* rejected, applied or undone, though an old copy of the history may have
\* brought its record back as pending.
SettledStays ==
    [][\A p \in Actors : Lands(p) /\ calls[p].op = "approve" =>
            told[Subject(p)] \notin {"rejected", "applied", "undone"}]_vars

\* A change that was answered as applied stays in the history as applied,
\* until it is undone ("An applied mutation is not reported as a clean success
\* if RepoTunnel cannot persist the corresponding history/version state").
\* Only while nobody else is at work: a history saved from an older copy loses
\* what was recorded since.
Recorded ==
    Alone => \A c \in Changes :
                told[c] = "applied" => history[c] \in {"applied", "undone"}

\* As long as no version file was cut short, every version that another one, the
\* pointer or an answer relies on is in the version history, whichever of the
\* saves of the pair fail and wherever the process dies between them.  (A save
\* that fails in the middle may lose the earlier versions, whose file is written
\* in place, and is not put back if it was the history's.)
VersionsConnected ==
    Alone /\ lost = {} =>
        /\ current = Root \/ versions[current] # Unread
        /\ \A c \in Changes :
            /\ versions[c] \in Changes => versions[versions[c]] # Unread
            /\ told[c] = "applied" => versions[c] # Unread

\* While the project holds an edit, the content it replaced is kept for its
\* undo, and its record does not call it failed, undone or never made.  (A write
\* that answers an error with the edit in place is taken for one that left
\* nothing: its undo is removed and its record says that it failed.)
EditsKept ==
    Alone /\ {"crash", "remove"} \cap faults = {} =>
        \A c \in Changes \ denied : file = c =>
            c \in backups /\ history[c] \notin {"none", "failed", "undone"}

\* What the task is charged for has all that it made, undone since or not, and
\* stays within the budget, whatever fails between the reservation, the record
\* and the settlement.
BudgetKept ==
    Alone => /\ Cardinality(contract.usage) <= contract.budget
             /\ \A c \in Changes :
                    history[c] \in {"applied", "undone"} => c \in contract.usage

\* An edit that an ambiguous failure left in the project with a pending record
\* stays charged.  (The user may reject the record, which frees the charge with
\* the edit still there.  After a crash it is the generation of the file, left
\* out here, that stops a second approval, which would fail and free it.  The
\* charge of a write that failed with the edit in place is freed.)
EditsCharged ==
    Alone /\ {"crash", "remove"} \cap faults = {} =>
        \A c \in Changes \ denied :
            file = c /\ history[c] = "pending" => c \in contract.usage

\* A change that came to nothing is charged only while its reservation waits to
\* be settled, so that the next reservation finds the budget free again.
ChargesSettle ==
    Alone => \A c \in contract.usage \ contract.reserved :
                history[c] \in {"applied", "undone"}

=============================================================================
