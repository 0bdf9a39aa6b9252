--------------------------- MODULE ChangesProofs ---------------------------
(***************************************************************************)
(* Theorems about Changes for every finite set of changes, every set of    *)
(* budgets and every choice of faults.                                     *)
(*                                                                         *)
(* Invariants that build on each other.  TypeInv types the state and what  *)
(* the calls hold.  AloneInv says that, while the agent and the desk do    *)
(* not overlap, what a call loaded is what is on disk, and relates its     *)
(* step to the record and the charge of its change: without it a save      *)
(* could bring back an older history or contract.  VersionInv says, as     *)
(* long as no version file was cut short, that the copies a failed save    *)
(* puts back are connected.  OrderInv holds of any interleaving: no change lies below    *)
(* itself.  EditsInv follows the edits that the file holds or may hold     *)
(* again through undos and rollbacks.  AnswersInv and CopiesInv relate     *)
(* what was answered to every copy of the history there is.                *)
(***************************************************************************)
EXTENDS Changes, FiniteSetTheorems, TLAPS

-----------------------------------------------------------------------------
(* The types, and what a call holds at its steps *)

\* A call is about a change that was submitted, and no copy of the history
\* knows a change that was not; the version files are loaded before they are
\* saved.
CallTypes ==
    \A p \in Actors :
        /\ calls[p].op # "none" =>
                calls[p].change \in Changes /\ payload[calls[p].change] # Unread
        /\ calls[p].seen # Unread =>
                \A c \in Changes : payload[c] = Unread => calls[p].seen[c] = "none"
        /\ calls[p].step \in {"saveVersion", "savePointer"} => calls[p].base \in VersionFiles
        /\ calls[p].op = "none" => calls[p] = Idle

Prepared == \A c \in Changes : payload[c] = Unread => history[c] = "none"

TypeInv == TypeOK /\ CallTypes /\ Prepared

-----------------------------------------------------------------------------
(* One actor at a time *)

\* While nobody overlaps, one call is at work.
Serial == \A p, q \in Actors : p # q => calls[p] = Idle \/ calls[q] = Idle

\* What a call loaded is what is on disk.
Fresh(p) ==
    /\ calls[p].step # "discard" => calls[p].seen \in {Unread, history}
    /\ calls[p].task \in {Unread, contract}
    /\ calls[p].step # "discard" /\ calls[p].task # Unread => calls[p].seen = history

\* The steps before the change is made, those among them that the task is
\* charged for, and the steps after it was recorded.
Making == {"request", "queue", "reserve", "prepare", "start", "check", "backup",
           "write", "applied", "rollback", "revert", "rolledBack", "fail",
           "failed", "release"}
Charged == {"prepare", "start", "check", "backup", "write", "applied"}
Made == {"commit", "saveVersion", "savePointer", "advance", "finish", "undo",
         "verify", "restore", "undone"}
Unmade == {"none", "pending", "failed"}
Kept == {"applied", "undone"}

Doing(p) ==
    /\ calls[p].step \in Making => history[Subject(p)] \in Unmade
    /\ calls[p].step \in Charged => Subject(p) \in contract.usage
    /\ calls[p].step \in Made => history[Subject(p)] = "applied"
    /\ calls[p].step = "reject" => history[Subject(p)] = "pending"

Ledger ==
    /\ Cardinality(contract.usage) <= contract.budget
    /\ \A c \in Changes : history[c] \in Kept => c \in contract.usage
    /\ \A c \in contract.usage \ contract.reserved : history[c] \in Kept
    /\ \A c \in Changes : told[c] = "applied" => history[c] \in Kept

AloneInv == Alone => Serial /\ Ledger /\ \A p \in Actors : Fresh(p) /\ Doing(p)

-----------------------------------------------------------------------------
(* The version files *)

Connected(vs, cur) ==
    /\ cur = Root \/ vs[cur] # Unread
    /\ \A c \in Changes :
        /\ vs[c] \in Changes => vs[vs[c]] # Unread
        /\ told[c] = "applied" => vs[c] # Unread

Saving(p) ==
    /\ calls[p].step \in {"start", "check", "backup", "write", "applied", "commit",
                          "saveVersion"} => calls[p].parent = current
    /\ calls[p].step = "saveVersion" =>
            calls[p].base = [versions |-> versions, current |-> current]
    /\ calls[p].step = "savePointer" =>
            /\ Connected(calls[p].base.versions, calls[p].base.current)
            /\ current = calls[p].base.current
            /\ versions[Subject(p)] # Unread
    /\ calls[p].step \in {"advance", "finish"} => versions[Subject(p)] # Unread

VersionInv ==
    Alone /\ lost = {} =>
        /\ Connected(versions, current)
        /\ \A p \in Actors : Saving(p)

-----------------------------------------------------------------------------
(* The types are kept *)

LEMMA CallUpdate ==
    ASSUME calls \in [Actors -> Calls], NEW p \in Actors, NEW k \in Calls
    PROVE  [calls EXCEPT ![p] = k] \in [Actors -> Calls]
OBVIOUS

\* Settling takes charges and reservations away.
LEMMA SettledType ==
    ASSUME NEW task \in Contracts, NEW seen, NEW cs
    PROVE  /\ Settled(task, seen, cs) \in Contracts
           /\ Settled(task, seen, cs).budget = task.budget
           /\ Settled(task, seen, cs).usage \subseteq task.usage
           /\ Settled(task, seen, cs).reserved \subseteq task.reserved
BY DEF Settled, Contracts

\* The calls after a step that sets several of their fields.
LEMMA BeginType ==
    ASSUME TypeInv, NEW p \in Actors, NEW c \in Changes,
           NEW op \in {"submit", "approve", "reject", "undo"}, NEW step \in Steps,
           NEW seen \in Histories \cup {Unread}, Begin(p, op, step, c, seen)
    PROVE  calls' \in [Actors -> Calls]
<1>1. [Idle EXCEPT !.op = op, !.step = step, !.change = c, !.seen = seen] \in Calls
  BY DEF Idle, Calls
<1> QED
  BY <1>1, CallUpdate DEF TypeInv, TypeOK, Begin

\* The calls after the commands, and after the steps that load.
LEMMA CommandCalls ==
    ASSUME TypeInv, NEW c \in Changes, Submit(c) \/ Reject(c) \/ Undo(c)
    PROVE  calls' \in [Actors -> Calls]
<1>1. "agent" \in Actors /\ "desk" \in Actors
  BY DEF Actors
<1>2. {"request", "reserve", "reject", "verify"} \subseteq Steps
  BY DEF Steps
<1>3. history \in Histories
  BY DEF TypeInv, TypeOK
<1> QED
  BY <1>1, <1>2, <1>3, BeginType DEF Submit, Reject, Undo

LEMMA FieldTypes ==
    ASSUME NEW k \in Calls
    PROVE  /\ \A step \in Steps : [k EXCEPT !.step = step] \in Calls
           /\ \A seen \in Histories : [k EXCEPT !.seen = seen] \in Calls
           /\ \A task \in Contracts : [k EXCEPT !.task = task] \in Calls
           /\ \A base \in VersionFiles : [k EXCEPT !.base = base] \in Calls
BY DEF Calls

LEMMA LoadContractCalls ==
    ASSUME TypeInv, NEW p \in Actors, LoadContract(p)
    PROVE  calls' \in [Actors -> Calls]
<1>1. [calls[p] EXCEPT !.task = contract, !.seen = history] \in Calls
  BY FieldTypes DEF TypeInv, TypeOK
<1> QED
  BY <1>1, CallUpdate DEF LoadContract, TypeInv, TypeOK

LEMMA LoadVersionsCalls ==
    ASSUME TypeInv, NEW p \in Actors, LoadVersions(p)
    PROVE  calls' \in [Actors -> Calls]
<1>1. [versions |-> versions, current |-> current] \in VersionFiles
  BY DEF TypeInv, TypeOK, VersionFiles
<1>2. [calls[p] EXCEPT !.step = "saveVersion",
                       !.base = [versions |-> versions, current |-> current]] \in Calls
  BY <1>1, FieldTypes DEF TypeInv, TypeOK, Steps
<1>3. [calls[p] EXCEPT !.step = "undo"] \in Calls
  BY FieldTypes DEF TypeInv, TypeOK, Steps
<1> QED
  BY <1>2, <1>3, CallUpdate DEF LoadVersions, Go, TypeInv, TypeOK

\* A save of version files keeps their types.
LEMMA WritesTypes ==
    ASSUME TypeInv, NEW whole \in SUBSET VersionStore, NEW cut \in SUBSET VersionStore,
           NEW content, whole = {} \/ content \in VersionFiles,
           Writes(whole, cut, content)
    PROVE  /\ versions' \in [Changes -> Changes \cup {Root, Unread}]
           /\ current' \in Changes \cup {Root}
           /\ torn' \subseteq VersionStore /\ lost' \subseteq VersionStore
<1>1. /\ versions' \in {Unwritten, versions} \/ (whole # {} /\ versions' = content.versions)
      /\ current' \in {Root, current} \/ (whole # {} /\ current' = content.current)
  BY DEF Writes
<1>2. Unwritten \in [Changes -> Changes \cup {Root, Unread}]
  BY DEF Unwritten
<1>3. torn' \subseteq VersionStore /\ lost' \subseteq VersionStore
  BY DEF Writes, TypeInv, TypeOK
<1> QED
  BY <1>1, <1>2, <1>3 DEF TypeInv, TypeOK, VersionFiles

\* What a call at the save of its version writes.
LEMMA CommittedTypes ==
    ASSUME TypeInv, NEW p \in Actors, calls[p].op # "none",
           calls[p].step \in {"saveVersion", "savePointer"}
    PROVE  Committed(p) \in VersionFiles /\ calls[p].base \in VersionFiles
<1>1. /\ calls[p].base \in VersionFiles /\ Subject(p) \in Changes
      /\ calls[p].parent \in Changes \cup {Root}
  BY DEF TypeInv, TypeOK, CallTypes, Calls, Subject
<1> QED
  BY <1>1 DEF Committed, VersionFiles

\* Every command and every step keeps the types.
LEMMA CommandTypes ==
    ASSUME TypeInv,
           NEW c \in Changes, Submit(c) \/ Approve(c) \/ Reject(c) \/ Undo(c)
    PROVE  TypeInv'
<1> USE ChangesAssumption, UnreadAssumption
<1> USE DEF TypeInv, TypeOK, CallTypes, Prepared, Calls, Steps, Contents, Statuses,
           Histories, Contracts, VersionFiles, Actors, Idle, Subject, At, Fails,
           Alone, Free, metadata, versionFiles, Go, Begin, Answer, AnswerError,
           Proceed, Saves, CannotSave, Removed, GiveUp, EndUndo
<1>1. ASSUME Submit(c) PROVE TypeInv'
  <2>1. calls' \in [Actors -> Calls]
    BY <1>1, CommandCalls
  <2> QED
    BY <1>1, <2>1 DEF Submit
<1>2. ASSUME Approve(c) PROVE TypeInv'
  <2>1. TypeOK'
    BY <1>2 DEF Approve
  <2>2. CallTypes' /\ Prepared'
    BY <1>2 DEF Approve
  <2> QED
    BY <2>1, <2>2
<1>3. ASSUME Reject(c) PROVE TypeInv'
  <2>1. calls' \in [Actors -> Calls]
    BY <1>3, CommandCalls
  <2>2. TypeOK'
    BY <1>3, <2>1 DEF Reject
  <2>3. CallTypes' /\ Prepared'
    BY <1>3 DEF Reject
  <2> QED
    BY <2>2, <2>3
<1>4. ASSUME Undo(c) PROVE TypeInv'
  <2>1. calls' \in [Actors -> Calls]
    BY <1>4, CommandCalls
  <2>2. TypeOK'
    BY <1>4, <2>1 DEF Undo
  <2>3. CallTypes' /\ Prepared'
    BY <1>4 DEF Undo
  <2> QED
    BY <2>2, <2>3
<1> QED
  BY <1>1, <1>2, <1>3, <1>4

\* A save of the history keeps its type, and does not know a change that was
\* not submitted.
LEMMA SavesTypes ==
    ASSUME TypeInv, NEW p \in Actors, calls[p].op # "none", payload' = payload,
           NEW status \in Statuses, Saves(p, status) \/ CannotSave(p)
    PROVE  history' \in Histories /\ Prepared'
<1>1. Subject(p) \in Changes /\ payload[Subject(p)] # Unread
  BY DEF TypeInv, CallTypes, Subject
<1>2. CASE CannotSave(p)
  BY <1>2 DEF CannotSave, TypeInv, TypeOK, Prepared
<1>3. CASE Saves(p, status)
  <2>1. /\ calls[p].seen \in Histories
        /\ \A c \in Changes : payload[c] = Unread => calls[p].seen[c] = "none"
        /\ history' = [calls[p].seen EXCEPT ![Subject(p)] = status]
    BY <1>3 DEF Saves, TypeInv, TypeOK, CallTypes, Calls
  <2> QED
    BY <1>1, <2>1 DEF Histories, Prepared
<1> QED
  BY <1>2, <1>3

LEMMA ReservedType ==
    ASSUME TypeInv, NEW p \in Actors, Reserve(p)
    PROVE  contract' \in Contracts
<1> DEFINE task == Settled(calls[p].task, calls[p].seen, Changes)
           charged == [task EXCEPT !.usage = @ \cup {Subject(p)},
                                   !.reserved = @ \cup {Subject(p)}]
<1>1. calls[p].task \in Contracts /\ Subject(p) \in Changes
  BY DEF Reserve, At, TypeInv, TypeOK, CallTypes, Calls, Subject
<1>2. task \in Contracts
  BY <1>1, SettledType
<1> HIDE DEF task
<1>3. charged \in Contracts
  BY <1>1, <1>2 DEF Contracts
<1> HIDE DEF charged
<1>4. contract' = contract \/ contract' = charged
  BY DEF Reserve, Upsert, CannotUpsert, task, charged
<1> QED
  BY <1>3, <1>4 DEF TypeInv, TypeOK

LEMMA ProceedTypes ==
    ASSUME TypeInv, NEW p \in Actors, NEW step \in Steps \ {"saveVersion", "savePointer"},
           calls[p].op # "none", Proceed(p, step), payload' = payload
    PROVE  calls' \in [Actors -> Calls] /\ CallTypes'
<1> DEFINE k == [calls[p] EXCEPT !.step = step, !.seen = Unread, !.task = Unread]
<1>1. calls \in [Actors -> Calls] /\ calls[p] \in Calls
  BY DEF TypeInv, TypeOK
<1>2. /\ k \in Calls /\ k.step = step /\ k.seen = Unread /\ k.op = calls[p].op
      /\ k.change = calls[p].change
  BY <1>1 DEF Calls
<1>3. calls' = [calls EXCEPT ![p] = k]
  BY <1>1 DEF Proceed
<1> HIDE DEF k
<1>4. calls' \in [Actors -> Calls]
  BY <1>1, <1>2, <1>3
<1> QED
  BY <1>1, <1>2, <1>3, <1>4 DEF TypeInv, CallTypes

LEMMA RecordTypes ==
    ASSUME TypeInv, NEW p \in Actors, RecordRolledBack(p) \/ RecordFailed(p)
    PROVE  TypeInv'
<1>1. /\ calls[p].op # "none" /\ payload' = payload /\ Proceed(p, "release")
      /\ Saves(p, "failed") \/ CannotSave(p)
  BY DEF RecordRolledBack, RecordFailed, At, metadata
<1>2. history' \in Histories /\ Prepared'
  BY <1>1, SavesTypes DEF Statuses
<1>3. calls' \in [Actors -> Calls] /\ CallTypes'
  BY <1>1, ProceedTypes DEF Steps
<1>4. backups' \subseteq Changes
  BY DEF RecordRolledBack, RecordFailed, Removed, TypeInv, TypeOK
<1>5. /\ file' = file /\ requests' = requests /\ versions' = versions /\ current' = current
      /\ torn' = torn /\ lost' = lost /\ denied' = denied
      /\ contract' = contract /\ told' = told /\ faults' = faults
  BY <1>1 DEF RecordRolledBack, RecordFailed, Proceed, metadata, versionFiles
<1> QED
  BY <1>1, <1>2, <1>3, <1>4, <1>5 DEF TypeInv, TypeOK

LEMMA StepTypes ==
    ASSUME TypeInv, NEW p \in Actors, Step(p)
    PROVE  TypeInv'
<1> USE ChangesAssumption, UnreadAssumption
<1> USE DEF TypeInv, TypeOK, CallTypes, Prepared, Calls, Steps, Contents, Statuses,
           Histories, Contracts, VersionFiles, Actors, Idle, Subject, At, Fails,
           Alone, Free, metadata, versionFiles, Go, Begin, Answer, AnswerError,
           Proceed, Saves, CannotSave, Removed, GiveUp, EndUndo
<1>1. ASSUME LoadHistory(p) PROVE TypeInv'
  <2>1. TypeOK'
    BY <1>1 DEF LoadHistory, Persisting
  <2>2. CallTypes' /\ Prepared'
    BY <1>1 DEF LoadHistory, Persisting
  <2> QED
    BY <2>1, <2>2
<1>2. ASSUME LoadContract(p) PROVE TypeInv'
  <2>2. calls' \in [Actors -> Calls]
    BY <1>2, LoadContractCalls
  <2>3. TypeOK'
    BY <1>2, <2>2 DEF LoadContract
  <2>4. CallTypes' /\ Prepared'
    BY <1>2 DEF LoadContract, Budgeting
  <2> QED
    BY <2>3, <2>4
<1>3. ASSUME Reserve(p) PROVE TypeInv'
  <2>1. contract' \in Contracts
    BY <1>3, ReservedType
  <2>2. TypeOK'
    BY <1>3, <2>1 DEF Reserve
  <2>3. CallTypes' /\ Prepared'
    BY <1>3 DEF Reserve
  <2> QED
    BY <2>2, <2>3
<1>4. ASSUME Release(p) PROVE TypeInv'
  <2>1. contract' \in Contracts
    BY <1>4, SettledType DEF Release, Upsert, CannotUpsert
  <2> QED
    BY <1>4, <2>1 DEF Release
<1>5. ASSUME Advance(p) PROVE TypeInv'
  <2>1. contract' \in Contracts
    BY <1>5, SettledType DEF Advance
  <2>2. CASE Proceed(p, "finish")
    <3>1. TypeOK'
      BY <1>5, <2>1, <2>2 DEF Advance
    <3>2. CallTypes' /\ Prepared'
      BY <1>5, <2>2 DEF Advance
    <3> QED
      BY <3>1, <3>2
  <2>3. CASE AnswerError(p)
    BY <1>5, <2>1, <2>3 DEF Advance
  <2> QED
    BY <1>5, <2>2, <2>3 DEF Advance
<1>6. ASSUME Reconcile(p) PROVE TypeInv'
  <2>1. contract' \in Contracts
    BY <1>6, SettledType DEF Reconcile, Upsert, CannotUpsert
  <2> QED
    BY <1>6, <2>1 DEF Reconcile
<1>7. ASSUME WriteRequest(p) PROVE TypeInv'
  <2>1. TypeOK'
    BY <1>7 DEF WriteRequest
  <2>2. CallTypes' /\ Prepared'
    BY <1>7 DEF WriteRequest
  <2> QED
    BY <2>1, <2>2
<1>8. ASSUME QueueRecord(p) PROVE TypeInv'
  <2>1. TypeOK'
    BY <1>8 DEF QueueRecord
  <2>2. CallTypes' /\ Prepared'
    BY <1>8 DEF QueueRecord
  <2> QED
    BY <2>1, <2>2
<1>9. ASSUME PrepareVersion(p) PROVE TypeInv'
  <2>1. TypeOK'
    BY <1>9 DEF PrepareVersion
  <2>2. CallTypes' /\ Prepared'
    BY <1>9 DEF PrepareVersion
  <2> QED
    BY <2>1, <2>2
<1>10. ASSUME StartRecord(p) PROVE TypeInv'
  <2>1. TypeOK'
    BY <1>10 DEF StartRecord
  <2>2. CallTypes' /\ Prepared'
    BY <1>10 DEF StartRecord
  <2> QED
    BY <2>1, <2>2
<1>11. ASSUME CheckFile(p) PROVE TypeInv'
  <2>1. TypeOK'
    BY <1>11 DEF CheckFile
  <2>2. CallTypes' /\ Prepared'
    BY <1>11 DEF CheckFile
  <2> QED
    BY <2>1, <2>2
<1>12. ASSUME WriteBackup(p) PROVE TypeInv'
  <2>1. TypeOK'
    BY <1>12 DEF WriteBackup
  <2>2. CallTypes' /\ Prepared'
    BY <1>12 DEF WriteBackup
  <2> QED
    BY <2>1, <2>2
<1>13. ASSUME WritePayload(p) PROVE TypeInv'
  <2>1. TypeOK'
    BY <1>13 DEF WritePayload, Writable
  <2>2. CallTypes' /\ Prepared'
    BY <1>13 DEF WritePayload, Writable
  <2> QED
    BY <2>1, <2>2
<1>14. ASSUME RecordApplied(p) PROVE TypeInv'
  <2>1. TypeOK'
    BY <1>14 DEF RecordApplied
  <2>2. CallTypes' /\ Prepared'
    BY <1>14 DEF RecordApplied
  <2> QED
    BY <2>1, <2>2
<1>15. ASSUME CheckRollback(p) PROVE TypeInv'
  <2>1. TypeOK'
    BY <1>15 DEF CheckRollback
  <2>2. CallTypes' /\ Prepared'
    BY <1>15 DEF CheckRollback
  <2> QED
    BY <2>1, <2>2
<1>16. ASSUME Revert(p) PROVE TypeInv'
  <2>1. TypeOK'
    BY <1>16 DEF Revert, PutBack, CannotPutBack
  <2>2. CallTypes' /\ Prepared'
    BY <1>16 DEF Revert, PutBack, CannotPutBack
  <2> QED
    BY <2>1, <2>2
<1>17. ASSUME RecordRolledBack(p) PROVE TypeInv'
  BY <1>17, RecordTypes
<1>18. ASSUME Fail(p) PROVE TypeInv'
  <2>1. TypeOK'
    BY <1>18 DEF Fail
  <2>2. CallTypes' /\ Prepared'
    BY <1>18 DEF Fail
  <2> QED
    BY <2>1, <2>2
<1>19. ASSUME RecordFailed(p) PROVE TypeInv'
  BY <1>19, RecordTypes
<1>20. ASSUME LoadVersions(p) PROVE TypeInv'
  <2>2. calls' \in [Actors -> Calls]
    BY <1>20, LoadVersionsCalls
  <2>3. TypeOK'
    BY <1>20, <2>2 DEF LoadVersions
  <2>4. CallTypes' /\ Prepared'
    BY <1>20 DEF LoadVersions
  <2> QED
    BY <2>3, <2>4
<1>21. ASSUME SaveVersion(p) PROVE TypeInv'
  <2>1. /\ versions' \in [Changes -> Changes \cup {Root, Unread}]
        /\ current' \in Changes \cup {Root}
        /\ torn' \subseteq VersionStore /\ lost' \subseteq VersionStore
    BY <1>21, WritesTypes, CommittedTypes DEF SaveVersion, VersionStore
  <2>2. TypeOK'
    BY <1>21, <2>1 DEF SaveVersion
  <2>3. CallTypes' /\ Prepared'
    BY <1>21 DEF SaveVersion
  <2> QED
    BY <2>2, <2>3
<1>22. ASSUME SavePointer(p) PROVE TypeInv'
  <2>1. /\ versions' \in [Changes -> Changes \cup {Root, Unread}]
        /\ current' \in Changes \cup {Root}
        /\ torn' \subseteq VersionStore /\ lost' \subseteq VersionStore
    BY <1>22, WritesTypes, CommittedTypes DEF SavePointer, VersionStore
  <2>2. TypeOK'
    BY <1>22, <2>1 DEF SavePointer
  <2>3. CallTypes' /\ Prepared'
    BY <1>22 DEF SavePointer
  <2> QED
    BY <2>2, <2>3
<1>23. ASSUME UndoCommit(p) PROVE TypeInv'
  <2>1. TypeOK'
    BY <1>23 DEF UndoCommit
  <2>2. CallTypes' /\ Prepared'
    BY <1>23 DEF UndoCommit
  <2> QED
    BY <2>1, <2>2
<1>24. ASSUME Finish(p) PROVE TypeInv'
  <2>1. TypeOK'
    BY <1>24 DEF Finish
  <2>2. CallTypes' /\ Prepared'
    BY <1>24 DEF Finish
  <2> QED
    BY <2>1, <2>2
<1>25. ASSUME RecordRejected(p) PROVE TypeInv'
  <2>1. TypeOK'
    BY <1>25 DEF RecordRejected
  <2>2. CallTypes' /\ Prepared'
    BY <1>25 DEF RecordRejected
  <2> QED
    BY <2>1, <2>2
<1>26. ASSUME Discard(p) PROVE TypeInv'
  <2>1. TypeOK'
    BY <1>26 DEF Discard
  <2>2. CallTypes' /\ Prepared'
    BY <1>26 DEF Discard
  <2> QED
    BY <2>1, <2>2
<1>27. ASSUME Verify(p) PROVE TypeInv'
  <2>1. TypeOK'
    BY <1>27 DEF Verify
  <2>2. CallTypes' /\ Prepared'
    BY <1>27 DEF Verify
  <2> QED
    BY <2>1, <2>2
<1>28. ASSUME Restore(p) PROVE TypeInv'
  <2>1. TypeOK'
    BY <1>28 DEF Restore, PutBack, CannotPutBack
  <2>2. CallTypes' /\ Prepared'
    BY <1>28 DEF Restore, PutBack, CannotPutBack
  <2> QED
    BY <2>1, <2>2
<1>29. ASSUME RecordUndone(p) PROVE TypeInv'
  <2>1. history' \in Histories /\ Prepared'
    BY <1>29, SavesTypes DEF RecordUndone
  <2>2. TypeOK'
    BY <1>29, <2>1 DEF RecordUndone
  <2>3. CallTypes'
    BY <1>29 DEF RecordUndone
  <2> QED
    BY <2>1, <2>2, <2>3, SMTT(30)
<1> HIDE DEF TypeInv, TypeOK, CallTypes, Prepared, Calls, Steps, Contents, Statuses,
           Histories, Contracts, VersionFiles, Actors, Idle, Subject, At, Fails,
           Alone, Free, metadata, versionFiles, Go, Begin, Answer, AnswerError,
           Proceed, Saves, CannotSave, Removed, GiveUp, EndUndo
<1> QED
  BY <1>1, <1>2, <1>3, <1>4, <1>5, <1>6, <1>7, <1>8, <1>9, <1>10, <1>11, <1>12, <1>13,
     <1>14, <1>15, <1>16, <1>17, <1>18, <1>19, <1>20, <1>21, <1>22, <1>23, <1>24,
     <1>25, <1>26, <1>27, <1>28, <1>29
     DEF Step

LEMMA TypeInvStep == TypeInv /\ [Next]_vars => TypeInv'
<1> SUFFICES ASSUME TypeInv, [Next]_vars PROVE TypeInv'
  OBVIOUS
<1>1. CASE Edit
  BY <1>1
     DEF Edit, TypeInv, TypeOK, CallTypes, Prepared, Contents, metadata, versionFiles
<1>2. CASE Crash
  <2>1. PICK p \in Actors :
            \E back \in SUBSET BeingPutBack(p), cut \in SUBSET UNION {BeingSaved(q) : q \in Actors} :
                Writes(back, cut, calls[p].base)
    BY <1>2 DEF Crash
  <2>2. /\ BeingPutBack(p) = {} \/ calls[p].base \in VersionFiles
        /\ BeingPutBack(p) \subseteq VersionStore
    BY CommittedTypes DEF BeingPutBack, At
  <2>3. UNION {BeingSaved(q) : q \in Actors} \subseteq VersionStore
    BY DEF BeingSaved, VersionStore
  <2>4. /\ versions' \in [Changes -> Changes \cup {Root, Unread}]
        /\ current' \in Changes \cup {Root}
        /\ torn' \subseteq VersionStore /\ lost' \subseteq VersionStore
    BY <2>1, <2>2, <2>3, WritesTypes
  <2>5. Idle \in Calls
    BY DEF Idle, Calls, Steps
  <2>6. calls' = [q \in Actors |-> Idle] /\ file' \in Contents
    BY <1>2 DEF Crash, TypeInv, TypeOK, Contents
  <2>7. TypeOK'
    BY <1>2, <2>4, <2>5, <2>6 DEF Crash, TypeInv, TypeOK, metadata
  <2>8. CallTypes' /\ Prepared'
    BY <1>2, <2>6 DEF Crash, TypeInv, CallTypes, Prepared, Idle, metadata
  <2> QED
    BY <2>7, <2>8 DEF TypeInv
<1>3. CASE UNCHANGED vars
  BY <1>3 DEF vars, TypeInv, TypeOK, CallTypes, Prepared
<1> QED
  BY <1>1, <1>2, <1>3, CommandTypes, StepTypes DEF Next

LEMMA TypeInvInit == Init => TypeInv
BY ChangesAssumption, UnreadAssumption
   DEF Init, Unwritten, VersionStore, TypeInv, TypeOK, CallTypes, Prepared, Calls, Idle, Steps, Contents,
       Histories, Statuses, Contracts, Actors

\* Every file and every call keeps its type, for any changes, budgets and faults.
THEOREM ChangeTypes == Spec => []TypeOK
<1>1. TypeInv => TypeOK
  BY DEF TypeInv
<1> QED
  BY <1>1, TypeInvInit, TypeInvStep, PTL DEF Spec

-----------------------------------------------------------------------------
(* A step of a call leaves the other call alone *)

LEMMA StepLocal ==
    ASSUME TypeInv, NEW p \in Actors, Step(p)
    PROVE  /\ calls[p] # Idle
           /\ faults' = faults
           /\ \A q \in Actors : q # p => calls'[q] = calls[q]
<1> USE DEF Subject, At, Fails, Go, Begin, Answer, AnswerError, Proceed, Saves,
   CannotSave,
           GiveUp, EndUndo, metadata, versionFiles
<1>1. calls \in [Actors -> Calls]
  BY DEF TypeInv, TypeOK
<1>2. Idle.op = "none" /\ Idle.step = "none"
  BY DEF Idle
<1>3. ASSUME LoadHistory(p)
      PROVE  calls[p] # Idle /\ faults' = faults /\ \A q \in Actors : q # p => calls'[q] = calls[q]
  BY <1>1, <1>2, <1>3 DEF LoadHistory, Persisting
<1>4. ASSUME LoadContract(p)
      PROVE  calls[p] # Idle /\ faults' = faults /\ \A q \in Actors : q # p => calls'[q] = calls[q]
  BY <1>1, <1>2, <1>4 DEF LoadContract, Budgeting
<1>5. ASSUME Reserve(p)
      PROVE  calls[p] # Idle /\ faults' = faults /\ \A q \in Actors : q # p => calls'[q] = calls[q]
  BY <1>1, <1>2, <1>5 DEF Reserve
<1>6. ASSUME Release(p)
      PROVE  calls[p] # Idle /\ faults' = faults /\ \A q \in Actors : q # p => calls'[q] = calls[q]
  BY <1>1, <1>2, <1>6 DEF Release
<1>7. ASSUME Advance(p)
      PROVE  calls[p] # Idle /\ faults' = faults /\ \A q \in Actors : q # p => calls'[q] = calls[q]
  BY <1>1, <1>2, <1>7 DEF Advance
<1>8. ASSUME Reconcile(p)
      PROVE  calls[p] # Idle /\ faults' = faults /\ \A q \in Actors : q # p => calls'[q] = calls[q]
  BY <1>1, <1>2, <1>8 DEF Reconcile
<1>9. ASSUME WriteRequest(p)
      PROVE  calls[p] # Idle /\ faults' = faults /\ \A q \in Actors : q # p => calls'[q] = calls[q]
  BY <1>1, <1>2, <1>9 DEF WriteRequest
<1>10. ASSUME QueueRecord(p)
      PROVE  calls[p] # Idle /\ faults' = faults /\ \A q \in Actors : q # p => calls'[q] = calls[q]
  BY <1>1, <1>2, <1>10 DEF QueueRecord
<1>11. ASSUME PrepareVersion(p)
      PROVE  calls[p] # Idle /\ faults' = faults /\ \A q \in Actors : q # p => calls'[q] = calls[q]
  BY <1>1, <1>2, <1>11 DEF PrepareVersion
<1>12. ASSUME StartRecord(p)
      PROVE  calls[p] # Idle /\ faults' = faults /\ \A q \in Actors : q # p => calls'[q] = calls[q]
  BY <1>1, <1>2, <1>12 DEF StartRecord
<1>13. ASSUME CheckFile(p)
      PROVE  calls[p] # Idle /\ faults' = faults /\ \A q \in Actors : q # p => calls'[q] = calls[q]
  BY <1>1, <1>2, <1>13 DEF CheckFile
<1>14. ASSUME WriteBackup(p)
      PROVE  calls[p] # Idle /\ faults' = faults /\ \A q \in Actors : q # p => calls'[q] = calls[q]
  BY <1>1, <1>2, <1>14 DEF WriteBackup
<1>15. ASSUME WritePayload(p)
      PROVE  calls[p] # Idle /\ faults' = faults /\ \A q \in Actors : q # p => calls'[q] = calls[q]
  BY <1>1, <1>2, <1>15 DEF WritePayload
<1>16. ASSUME RecordApplied(p)
      PROVE  calls[p] # Idle /\ faults' = faults /\ \A q \in Actors : q # p => calls'[q] = calls[q]
  BY <1>1, <1>2, <1>16 DEF RecordApplied
<1>17. ASSUME CheckRollback(p)
      PROVE  calls[p] # Idle /\ faults' = faults /\ \A q \in Actors : q # p => calls'[q] = calls[q]
  BY <1>1, <1>2, <1>17 DEF CheckRollback
<1>18. ASSUME Revert(p)
      PROVE  calls[p] # Idle /\ faults' = faults /\ \A q \in Actors : q # p => calls'[q] = calls[q]
  BY <1>1, <1>2, <1>18 DEF Revert
<1>19. ASSUME RecordRolledBack(p)
      PROVE  calls[p] # Idle /\ faults' = faults /\ \A q \in Actors : q # p => calls'[q] = calls[q]
  BY <1>1, <1>2, <1>19 DEF RecordRolledBack
<1>20. ASSUME Fail(p)
      PROVE  calls[p] # Idle /\ faults' = faults /\ \A q \in Actors : q # p => calls'[q] = calls[q]
  BY <1>1, <1>2, <1>20 DEF Fail
<1>21. ASSUME RecordFailed(p)
      PROVE  calls[p] # Idle /\ faults' = faults /\ \A q \in Actors : q # p => calls'[q] = calls[q]
  BY <1>1, <1>2, <1>21 DEF RecordFailed
<1>22. ASSUME LoadVersions(p)
      PROVE  calls[p] # Idle /\ faults' = faults /\ \A q \in Actors : q # p => calls'[q] = calls[q]
  BY <1>1, <1>2, <1>22 DEF LoadVersions
<1>23. ASSUME SaveVersion(p)
      PROVE  calls[p] # Idle /\ faults' = faults /\ \A q \in Actors : q # p => calls'[q] = calls[q]
  BY <1>1, <1>2, <1>23 DEF SaveVersion
<1>24. ASSUME SavePointer(p)
      PROVE  calls[p] # Idle /\ faults' = faults /\ \A q \in Actors : q # p => calls'[q] = calls[q]
  BY <1>1, <1>2, <1>24 DEF SavePointer
<1>25. ASSUME UndoCommit(p)
      PROVE  calls[p] # Idle /\ faults' = faults /\ \A q \in Actors : q # p => calls'[q] = calls[q]
  BY <1>1, <1>2, <1>25 DEF UndoCommit
<1>26. ASSUME Finish(p)
      PROVE  calls[p] # Idle /\ faults' = faults /\ \A q \in Actors : q # p => calls'[q] = calls[q]
  BY <1>1, <1>2, <1>26 DEF Finish
<1>27. ASSUME RecordRejected(p)
      PROVE  calls[p] # Idle /\ faults' = faults /\ \A q \in Actors : q # p => calls'[q] = calls[q]
  BY <1>1, <1>2, <1>27 DEF RecordRejected
<1>28. ASSUME Discard(p)
      PROVE  calls[p] # Idle /\ faults' = faults /\ \A q \in Actors : q # p => calls'[q] = calls[q]
  BY <1>1, <1>2, <1>28 DEF Discard
<1>29. ASSUME Verify(p)
      PROVE  calls[p] # Idle /\ faults' = faults /\ \A q \in Actors : q # p => calls'[q] = calls[q]
  BY <1>1, <1>2, <1>29 DEF Verify
<1>30. ASSUME Restore(p)
      PROVE  calls[p] # Idle /\ faults' = faults /\ \A q \in Actors : q # p => calls'[q] = calls[q]
  BY <1>1, <1>2, <1>30 DEF Restore
<1>31. ASSUME RecordUndone(p)
      PROVE  calls[p] # Idle /\ faults' = faults /\ \A q \in Actors : q # p => calls'[q] = calls[q]
  BY <1>1, <1>2, <1>31 DEF RecordUndone
<1> HIDE DEF Subject, At, Fails, Go, Begin, Answer, AnswerError, Proceed, Saves,
   CannotSave,
           GiveUp, EndUndo, metadata, versionFiles
<1> QED
  BY <1>3, <1>4, <1>5, <1>6, <1>7, <1>8, <1>9, <1>10, <1>11, <1>12, <1>13, <1>14,
     <1>15, <1>16, <1>17, <1>18, <1>19, <1>20, <1>21, <1>22, <1>23, <1>24, <1>25,
     <1>26, <1>27, <1>28, <1>29, <1>30, <1>31
     DEF Step

-----------------------------------------------------------------------------
(* While nobody overlaps *)

\* It is enough to look at the call that makes the step.
LEMMA AloneIf ==
    ASSUME TypeInv, AloneInv, NEW p \in Actors, Step(p),
           Alone => Ledger' /\ Fresh(p)' /\ Doing(p)'
    PROVE  AloneInv'
<1> SUFFICES ASSUME Alone' PROVE Serial' /\ Ledger' /\ \A q \in Actors : Fresh(q)' /\ Doing(q)'
  BY DEF AloneInv
<1>1. Alone
  BY StepLocal DEF Alone
<1>2. \A q \in Actors : q # p => calls'[q] = Idle
  BY <1>1, StepLocal DEF AloneInv, Serial
<1>3. Serial'
  BY <1>2 DEF Serial
<1>4. \A q \in Actors : q # p => Fresh(q)' /\ Doing(q)'
  BY <1>2 DEF Fresh, Doing, Idle, Making, Charged, Made
<1> QED
  BY <1>1, <1>3, <1>4

\* What a step makes of its call: it goes on with what it loaded, goes on
\* without it, or ends.
Went(p, step) ==
    /\ calls'[p].step = step /\ calls'[p].op = calls[p].op
    /\ calls'[p].change = calls[p].change /\ calls'[p].seen = calls[p].seen
    /\ calls'[p].task = calls[p].task /\ calls'[p].base = calls[p].base
    /\ calls'[p].parent = calls[p].parent
    /\ told' = told
Proceeded(p, step) ==
    /\ calls'[p].step = step /\ calls'[p].op = calls[p].op
    /\ calls'[p].change = calls[p].change /\ calls'[p].seen = Unread
    /\ calls'[p].task = Unread /\ calls'[p].base = calls[p].base
    /\ calls'[p].parent = calls[p].parent
    /\ told' = told
Ended(p) ==
    /\ calls'[p] = Idle
    /\ \A c \in Changes : told'[c] = "applied" => told[c] = "applied"

LEMMA IdleFields ==
    /\ Idle.op = "none" /\ Idle.step = "none" /\ Idle.change = Root
    /\ Idle.seen = Unread /\ Idle.task = Unread
BY DEF Idle

\* How the operators that steps are built from go on.
LEMMA Control ==
    ASSUME TypeInv, NEW p \in Actors
    PROVE  /\ \A step \in Steps : Go(p, step) => Went(p, step)
           /\ \A step \in Steps : Proceed(p, step) => Proceeded(p, step)
           /\ \A answer : answer # "applied" /\ Answer(p, answer) => Ended(p)
           /\ AnswerError(p) => Ended(p)
           /\ GiveUp(p) => Ended(p)
<1>1. calls \in [Actors -> Calls]
  BY DEF TypeInv, TypeOK
<1>2. told \in [Changes -> {"nothing", "queued", "applied", "rejected", "undone", "failed"}]
  BY DEF TypeInv, TypeOK
<1>3. ASSUME NEW step \in Steps, Go(p, step) PROVE Went(p, step)
  BY <1>1, <1>3 DEF Go, Went, Calls
<1>4. ASSUME NEW step \in Steps, Proceed(p, step) PROVE Proceeded(p, step)
  BY <1>1, <1>4 DEF Proceed, Proceeded, Calls
<1>5. ASSUME NEW answer, answer # "applied", Answer(p, answer) PROVE Ended(p)
  <2>1. calls'[p] = Idle
    BY <1>1, <1>5 DEF Answer
  <2>2. \A c \in Changes : told'[c] = "applied" => told[c] = "applied"
    BY <1>2, <1>5 DEF Answer
  <2> QED
    BY <2>1, <2>2 DEF Ended
<1>6. ASSUME AnswerError(p) PROVE Ended(p)
  <2>1. calls'[p] = Idle
    BY <1>1, <1>6 DEF AnswerError
  <2>2. \A c \in Changes : told'[c] = "applied" => told[c] = "applied"
    BY <1>2, <1>6 DEF AnswerError
  <2> QED
    BY <2>1, <2>2 DEF Ended
<1> QED
  BY <1>3, <1>4, <1>5, <1>6 DEF GiveUp

LEMMA EndedAlone ==
    ASSUME NEW p \in Actors, Ended(p)
    PROVE  Fresh(p)' /\ Doing(p)'
BY IdleFields DEF Ended, Fresh, Doing, Making, Charged, Made

\* A step that saves no history and no contract.
LEMMA LedgerKept ==
    ASSUME Ledger, history' = history, contract' = contract,
           \A c \in Changes : told'[c] = "applied" => told[c] = "applied" \/ history[c] \in Kept
    PROVE  Ledger'
BY DEF Ledger

\* A step that records the status of its change.
LEMMA LedgerRecorded ==
    ASSUME Ledger, history \in Histories, contract.usage \subseteq Changes,
           NEW c \in Changes, NEW status \in Statuses,
           history' = [history EXCEPT ![c] = status], contract' = contract,
           status \in Kept => c \in contract.usage,
           status \notin Kept => history[c] \notin Kept,
           \A d \in Changes : told'[d] = "applied" => told[d] = "applied"
    PROVE  Ledger'
<1>1. \A d \in Changes : history'[d] = IF d = c THEN status ELSE history[d]
  BY DEF Histories
<1>2. \A d \in Changes : history[d] \in Kept => history'[d] \in Kept
  BY <1>1
<1>3. \A d \in Changes : history'[d] \in Kept => history[d] \in Kept \/ d \in contract.usage
  BY <1>1
<1>4. \A d \in contract.usage \ contract.reserved : history'[d] \in Kept
  BY <1>2 DEF Ledger
<1> QED
  BY <1>2, <1>3, <1>4 DEF Ledger

\* A save by a call with a fresh copy changes only the record of its change.
LEMMA SavesFresh ==
    ASSUME NEW p \in Actors, NEW status, Fresh(p), calls[p].step # "discard", Saves(p, status)
    PROVE  history' = [history EXCEPT ![Subject(p)] = status]
BY DEF Fresh, Saves

\* What stays charged, and what stays reserved.
LEMMA SettledMembers ==
    ASSUME NEW task \in Contracts, NEW seen, NEW cs, NEW c
    PROVE  /\ c \in Settled(task, seen, cs).usage <=>
                c \in task.usage /\ ~(c \in cs /\ c \in task.reserved
                                     /\ seen[c] \notin {"pending", "applied", "undone"})
           /\ c \in Settled(task, seen, cs).reserved <=>
                c \in task.reserved /\ ~(c \in cs /\ seen[c] # "pending")
BY DEF Settled, Contracts

\* A contract that is settled by a history that knows what was made of the
\* changes, and the one that is reserved after it.
LEMMA LedgerSettled ==
    ASSUME Ledger, contract \in Contracts, NEW seen, NEW cs,
           \A c \in Changes : c \in cs => (history[c] \in Kept <=> seen[c] \in Kept)
    PROVE  LET task == Settled(contract, seen, cs) IN
           /\ task \in Contracts
           /\ Cardinality(task.usage) <= task.budget
           /\ \A c \in Changes : history[c] \in Kept => c \in task.usage
           /\ \A c \in task.usage \ task.reserved : history[c] \in Kept
<1> DEFINE task == Settled(contract, seen, cs)
<1>1. /\ task \in Contracts /\ task.budget = contract.budget
      /\ task.usage \subseteq contract.usage /\ contract.usage \subseteq Changes
      /\ contract.reserved \subseteq Changes /\ contract.budget \in Nat
  BY SettledType, ChangesAssumption DEF Contracts
<1>2. Cardinality(task.usage) <= task.budget
  <2>1. IsFiniteSet(contract.usage)
    BY <1>1, ChangesAssumption, FS_Subset
  <2>2. IsFiniteSet(task.usage) /\ Cardinality(task.usage) <= Cardinality(contract.usage)
    BY <1>1, <2>1, FS_Subset
  <2>3. Cardinality(task.usage) \in Nat /\ Cardinality(contract.usage) \in Nat
    BY <2>1, <2>2, FS_CardinalityType
  <2>4. Cardinality(contract.usage) <= contract.budget
    BY DEF Ledger
  <2> HIDE DEF task
  <2> QED
    BY <1>1, <2>2, <2>3, <2>4
<1>3. \A c \in Changes :
        /\ c \in task.usage <=>
                c \in contract.usage /\ ~(c \in cs /\ c \in contract.reserved
                                         /\ seen[c] \notin {"pending", "applied", "undone"})
        /\ c \in task.reserved <=>
                c \in contract.reserved /\ ~(c \in cs /\ seen[c] # "pending")
  BY SettledMembers
<1> HIDE DEF task
<1>4. \A c \in Changes : history[c] \in Kept => c \in task.usage
  BY <1>3 DEF Ledger, Kept
<1>5. \A c \in task.usage \ task.reserved : history[c] \in Kept
  BY <1>1, <1>3 DEF Ledger, Kept
<1> QED
  BY <1>1, <1>2, <1>4, <1>5 DEF task

\* A step that may settle the contract of its call, and does nothing else to
\* the files.
LEMMA ContractSettled ==
    ASSUME Ledger, contract \in Contracts, history' = history,
           \A c \in Changes : told'[c] = "applied" => told[c] = "applied",
           NEW seen, NEW cs,
           \A c \in Changes : c \in cs => (history[c] \in Kept <=> seen[c] \in Kept),
           contract' = contract \/ contract' = Settled(contract, seen, cs)
    PROVE  Ledger'
<1>1. CASE contract' = contract
  BY <1>1, LedgerKept
<1>2. CASE contract' = Settled(contract, seen, cs)
  BY <1>2, LedgerSettled DEF Ledger
<1> QED
  BY <1>1, <1>2

\* Every step of a call keeps the ledger.
LEMMA StepAlone ==
    ASSUME TypeInv, AloneInv, NEW p \in Actors, Step(p)
    PROVE  AloneInv'
<1> SUFFICES ASSUME Alone PROVE Ledger' /\ Fresh(p)' /\ Doing(p)'
  BY AloneIf
<1>1. Ledger /\ Fresh(p) /\ Doing(p)
  BY DEF AloneInv
<1>2. /\ history \in Histories /\ contract \in Contracts /\ contract.usage \subseteq Changes
      /\ calls[p].op # "none" => Subject(p) \in Changes
  BY DEF TypeInv, TypeOK, CallTypes, Subject, Contracts
<1>3. calls \in [Actors -> Calls]
  BY DEF TypeInv, TypeOK
<1>4. ASSUME LoadHistory(p) PROVE Ledger' /\ Fresh(p)' /\ Doing(p)'
  <2>1. Ledger'
    BY <1>1, <1>4, LedgerKept DEF LoadHistory, metadata
  <2>2. Fresh(p)' /\ Doing(p)'
    BY <1>1, <1>3, <1>4
       DEF LoadHistory, Persisting, metadata, Fresh, Doing, Subject, Calls, Making,
           Charged, Made
  <2> QED
    BY <2>1, <2>2
<1>5. ASSUME LoadContract(p) PROVE Ledger' /\ Fresh(p)' /\ Doing(p)'
  <2>1. Ledger'
    BY <1>1, <1>5, LedgerKept DEF LoadContract, metadata
  <2>2. Fresh(p)' /\ Doing(p)'
    BY <1>1, <1>3, <1>5
       DEF LoadContract, Budgeting, metadata, Fresh, Doing, Subject, Calls, Making,
           Charged, Made
  <2> QED
    BY <2>1, <2>2
<1>6. ASSUME Reserve(p) PROVE Ledger' /\ Fresh(p)' /\ Doing(p)'
  <2> DEFINE task == Settled(calls[p].task, calls[p].seen, Changes)
             charged == [task EXCEPT !.usage = @ \cup {Subject(p)},
                                     !.reserved = @ \cup {Subject(p)}]
  <2>1. /\ calls[p].step = "reserve" /\ history' = history /\ Subject(p) \in Changes
        /\ calls[p].task = contract /\ calls[p].seen = history
    BY <1>1, <1>2, <1>6 DEF Reserve, At, Fresh
  <2>2. CASE contract' = contract /\ Ended(p)
    <3>1. Ledger'
      BY <1>1, <2>1, <2>2, LedgerKept DEF Ended
    <3> QED
      BY <2>2, <3>1, EndedAlone
  <2>3. CASE /\ Cardinality(charged.usage) <= charged.budget
             /\ contract' = charged /\ (Proceeded(p, "prepare") \/ Ended(p))
    <3>1. /\ task \in Contracts
          /\ \A c \in Changes : history[c] \in Kept => c \in task.usage
          /\ \A c \in task.usage \ task.reserved : history[c] \in Kept
      BY <1>1, <1>2, <2>1, LedgerSettled
    <3> HIDE DEF task
    <3>2. /\ charged.usage = task.usage \cup {Subject(p)}
          /\ charged.reserved = task.reserved \cup {Subject(p)}
          /\ charged.budget = task.budget
      BY <3>1 DEF Contracts
    <3> HIDE DEF charged
    <3>3. Ledger'
      BY <2>1, <2>3, <3>1, <3>2, <1>1 DEF Ledger, Proceeded, Ended
    <3>4. Fresh(p)' /\ Doing(p)'
      BY <1>1, <2>1, <2>3, <3>2, EndedAlone
         DEF Proceeded, Fresh, Doing, Subject, Making, Charged, Made
    <3> QED
      BY <3>3, <3>4
  <2>4. AnswerError(p) => Ended(p)
    BY Control
  <2>5. Proceed(p, "prepare") => Proceeded(p, "prepare")
    BY Control DEF Steps
  <2>6. Upsert(p, charged) => contract' = charged
    BY <2>1 DEF Upsert
  <2>7. CannotUpsert(p, charged) => contract' \in {contract, charged}
    BY DEF CannotUpsert
  <2> HIDE DEF charged
  <2>8. \/ /\ Cardinality(charged.usage) <= charged.budget
           /\ \/ Upsert(p, charged) /\ Proceed(p, "prepare")
              \/ CannotUpsert(p, charged) /\ AnswerError(p)
        \/ contract' = contract /\ AnswerError(p)
    BY <1>6 DEF Reserve, charged
  <2> QED
    BY <2>2, <2>3, <2>4, <2>5, <2>6, <2>7, <2>8
<1>7. ASSUME Release(p) PROVE Ledger' /\ Fresh(p)' /\ Doing(p)'
  <2> DEFINE seen == [calls[p].seen EXCEPT ![Subject(p)] = "failed"]
  <2>1. calls[p].step = "release" /\ history' = history /\ Subject(p) \in Changes /\ Ended(p)
    BY <1>2, <1>7, Control DEF Release, At
  <2> DEFINE task == Settled(calls[p].task, seen, {Subject(p)})
  <2>2. Upsert(p, task) \/ CannotUpsert(p, task)
    BY <1>7 DEF Release
  <2>3. calls[p].task = contract /\ calls[p].seen = history
    BY <1>1, <2>1, <2>2 DEF Upsert, CannotUpsert, Fresh
  <2>4. contract' = contract \/ contract' = Settled(contract, seen, {Subject(p)})
    BY <2>2, <2>3 DEF Upsert, CannotUpsert
  <2>5. history[Subject(p)] \notin Kept /\ seen[Subject(p)] \notin Kept
    BY <1>1, <1>2, <2>1, <2>3 DEF Doing, Making, Unmade, Kept, Histories
  <2> HIDE DEF seen
  <2>6. Ledger'
    BY <1>1, <1>2, <2>1, <2>4, <2>5, ContractSettled DEF Ended
  <2> QED
    BY <2>1, <2>6, EndedAlone
<1>8. ASSUME Advance(p) PROVE Ledger' /\ Fresh(p)' /\ Doing(p)'
  <2> DEFINE seen == [calls[p].seen EXCEPT ![Subject(p)] = "applied"]
  <2>1. calls[p].step = "advance" /\ history' = history /\ Subject(p) \in Changes
    BY <1>2, <1>8 DEF Advance, At
  <2> DEFINE task == Settled(calls[p].task, seen, {Subject(p)})
  <2>2. calls[p].task = contract /\ calls[p].seen = history
    BY <1>1, <1>8, <2>1 DEF Advance, Fresh
  <2>3. contract' = contract \/ contract' = Settled(contract, seen, {Subject(p)})
    BY <1>8, <2>2 DEF Advance
  <2>4. history[Subject(p)] = "applied" /\ seen[Subject(p)] \in Kept
    BY <1>1, <1>2, <2>1, <2>2 DEF Doing, Made, Kept, Histories
  <2>5. Proceeded(p, "finish") \/ Ended(p)
    BY <1>8, Control DEF Advance, Steps
  <2> HIDE DEF seen
  <2>6. Ledger'
    BY <1>1, <1>2, <2>1, <2>3, <2>4, <2>5, ContractSettled DEF Proceeded, Ended, Kept
  <2>7. Fresh(p)' /\ Doing(p)'
    BY <2>1, <2>4, <2>5, EndedAlone
       DEF Proceeded, Fresh, Doing, Subject, Making, Charged, Made
  <2> QED
    BY <2>6, <2>7
<1>9. ASSUME Reconcile(p) PROVE Ledger' /\ Fresh(p)' /\ Doing(p)'
  <2>1. calls[p].step = "reconcile" /\ history' = history /\ Ended(p)
    BY <1>9, Control DEF Reconcile, At
  <2> DEFINE task == Settled(calls[p].task, calls[p].seen, {Subject(p)})
  <2>2. Upsert(p, task) \/ CannotUpsert(p, task)
    BY <1>9 DEF Reconcile
  <2>3. calls[p].task = contract /\ calls[p].seen = history
    BY <1>1, <2>1, <2>2 DEF Upsert, CannotUpsert, Fresh
  <2>4. contract' = contract \/ contract' = Settled(contract, history, {Subject(p)})
    BY <2>2, <2>3 DEF Upsert, CannotUpsert
  <2>5. Ledger'
    BY <1>1, <1>2, <2>1, <2>4, ContractSettled DEF Ended
  <2> QED
    BY <2>1, <2>5, EndedAlone
<1>10. ASSUME WriteRequest(p) PROVE Ledger' /\ Fresh(p)' /\ Doing(p)'
  <2>1. Ended(p) \/ Went(p, "queue")
    BY <1>10, Control DEF WriteRequest, Steps
  <2>2. calls[p].step = "request" /\ history' = history /\ contract' = contract
    BY <1>10 DEF WriteRequest, At, metadata
  <2>3. Ledger'
    BY <1>1, <2>1, <2>2, LedgerKept DEF Ended, Went
  <2>4. Fresh(p)' /\ Doing(p)'
    BY <1>1, <2>1, <2>2, EndedAlone
       DEF Ended, Went, Fresh, Doing, Subject, Making, Charged, Made
  <2> QED
    BY <2>3, <2>4
<1>11. ASSUME QueueRecord(p) PROVE Ledger' /\ Fresh(p)' /\ Doing(p)'
  <2>1. \/ Saves(p, "pending") /\ Ended(p)
        \/ history' = history /\ Ended(p)
    BY <1>11, Control DEF QueueRecord, CannotSave, Steps
  <2>2. calls[p].step = "queue" /\ contract' = contract /\ Subject(p) \in Changes
    BY <1>2, <1>11 DEF QueueRecord, At, metadata
  <2>3. \A c \in Changes : told'[c] = "applied" => told[c] = "applied"
    BY <2>1 DEF Ended
  <2>4. CASE history' = history
    <3>1. Ledger'
      BY <1>1, <2>2, <2>3, <2>4, LedgerKept
    <3>2. Fresh(p)' /\ Doing(p)'
      BY <1>1, <1>2, <2>1, <2>2, <2>4, EndedAlone, SavesFresh
         DEF Ended, Fresh, Doing, Subject, Making, Charged, Made, Unmade, Histories
    <3> QED
      BY <3>1, <3>2
  <2>5. CASE Saves(p, "pending") /\ Ended(p)
    <3>1. history' = [history EXCEPT ![Subject(p)] = "pending"]
      BY <1>1, <2>2, <2>5, SavesFresh
    <3>2. Ledger'
      BY <1>1, <1>2, <2>2, <2>3, <3>1, LedgerRecorded
         DEF Statuses, Kept, Doing, Making, Charged, Made, Unmade, Ledger
    <3>3. Fresh(p)' /\ Doing(p)'
      BY <1>1, <1>2, <2>2, <2>5, <3>1, EndedAlone
         DEF Ended, Fresh, Doing, Subject, Making, Charged, Made, Unmade, Histories
    <3> QED
      BY <3>2, <3>3
  <2> QED
    BY <2>1, <2>4, <2>5
<1>12. ASSUME PrepareVersion(p) PROVE Ledger' /\ Fresh(p)' /\ Doing(p)'
  <2>1. calls[p].step = "prepare" /\ history' = history /\ contract' = contract /\ told' = told
    BY <1>12 DEF PrepareVersion, At, metadata, Go
  <2>2. /\ calls'[p].step \in {"start", "check", "release"} /\ calls'[p].change = calls[p].change
        /\ calls'[p].seen = calls[p].seen /\ calls'[p].task = calls[p].task
    <3>1. CASE Go(p, "release")
      BY <3>1, Control DEF Went, Steps
    <3>2. CASE ~Go(p, "release")
      BY <1>3, <1>12, <3>2 DEF PrepareVersion, Calls
    <3> QED
      BY <3>1, <3>2
  <2>3. Ledger'
    BY <1>1, <2>1, LedgerKept
  <2>4. Fresh(p)' /\ Doing(p)'
    BY <1>1, <2>1, <2>2 DEF Fresh, Doing, Subject, Making, Charged, Made
  <2> QED
    BY <2>3, <2>4
<1>13. ASSUME StartRecord(p) PROVE Ledger' /\ Fresh(p)' /\ Doing(p)'
  <2>1. \/ Saves(p, "pending") /\ Proceeded(p, "check")
        \/ history' = history /\ Proceeded(p, "release")
    BY <1>13, Control DEF StartRecord, CannotSave, Steps
  <2>2. calls[p].step = "start" /\ contract' = contract /\ Subject(p) \in Changes
    BY <1>2, <1>13 DEF StartRecord, At, metadata
  <2>3. \A c \in Changes : told'[c] = "applied" => told[c] = "applied"
    BY <2>1 DEF Proceeded
  <2>4. CASE history' = history
    <3>1. Ledger'
      BY <1>1, <2>2, <2>3, <2>4, LedgerKept
    <3>2. Fresh(p)' /\ Doing(p)'
      BY <1>1, <1>2, <2>1, <2>2, <2>4, SavesFresh
         DEF Proceeded, Fresh, Doing, Subject, Making, Charged, Made, Unmade, Histories
    <3> QED
      BY <3>1, <3>2
  <2>5. CASE Saves(p, "pending") /\ Proceeded(p, "check")
    <3>1. history' = [history EXCEPT ![Subject(p)] = "pending"]
      BY <1>1, <2>2, <2>5, SavesFresh
    <3>2. Ledger'
      BY <1>1, <1>2, <2>2, <2>3, <3>1, LedgerRecorded
         DEF Statuses, Kept, Doing, Making, Charged, Made, Unmade, Ledger
    <3>3. Fresh(p)' /\ Doing(p)'
      BY <1>1, <1>2, <2>2, <2>5, <3>1
         DEF Proceeded, Fresh, Doing, Subject, Making, Charged, Made, Unmade, Histories
    <3> QED
      BY <3>2, <3>3
  <2> QED
    BY <2>1, <2>4, <2>5
<1>14. ASSUME CheckFile(p) PROVE Ledger' /\ Fresh(p)' /\ Doing(p)'
  <2>1. Went(p, "backup") \/ Went(p, "fail")
    BY <1>14, Control DEF CheckFile, Steps
  <2>2. calls[p].step = "check" /\ history' = history /\ contract' = contract
    BY <1>14 DEF CheckFile, At, metadata
  <2>3. Ledger'
    BY <1>1, <2>1, <2>2, LedgerKept DEF Went
  <2>4. Fresh(p)' /\ Doing(p)'
    BY <1>1, <2>1, <2>2 DEF Went, Fresh, Doing, Subject, Making, Charged, Made
  <2> QED
    BY <2>3, <2>4
<1>15. ASSUME WriteBackup(p) PROVE Ledger' /\ Fresh(p)' /\ Doing(p)'
  <2>1. Went(p, "write") \/ Went(p, "fail")
    BY <1>15, Control DEF WriteBackup, Steps
  <2>2. calls[p].step = "backup" /\ history' = history /\ contract' = contract
    BY <1>15 DEF WriteBackup, At, metadata
  <2>3. Ledger'
    BY <1>1, <2>1, <2>2, LedgerKept DEF Went
  <2>4. Fresh(p)' /\ Doing(p)'
    BY <1>1, <2>1, <2>2 DEF Went, Fresh, Doing, Subject, Making, Charged, Made
  <2> QED
    BY <2>3, <2>4
<1>16. ASSUME WritePayload(p) PROVE Ledger' /\ Fresh(p)' /\ Doing(p)'
  <2>1. Went(p, "applied") \/ Went(p, "fail")
    BY <1>16, Control DEF WritePayload, Steps
  <2>2. calls[p].step = "write" /\ history' = history /\ contract' = contract
    BY <1>16 DEF WritePayload, At
  <2>3. Ledger'
    BY <1>1, <2>1, <2>2, LedgerKept DEF Went
  <2>4. Fresh(p)' /\ Doing(p)'
    BY <1>1, <2>1, <2>2 DEF Went, Fresh, Doing, Subject, Making, Charged, Made
  <2> QED
    BY <2>3, <2>4
<1>17. ASSUME RecordApplied(p) PROVE Ledger' /\ Fresh(p)' /\ Doing(p)'
  <2>1. \/ Saves(p, "applied") /\ Proceeded(p, "commit")
        \/ history' = history /\ Proceeded(p, "rollback")
    BY <1>17, Control DEF RecordApplied, CannotSave, Steps
  <2>2. calls[p].step = "applied" /\ contract' = contract /\ Subject(p) \in Changes
    BY <1>2, <1>17 DEF RecordApplied, At, metadata
  <2>3. \A c \in Changes : told'[c] = "applied" => told[c] = "applied"
    BY <2>1 DEF Proceeded
  <2>4. CASE history' = history
    <3>1. Ledger'
      BY <1>1, <2>2, <2>3, <2>4, LedgerKept
    <3>2. Fresh(p)' /\ Doing(p)'
      BY <1>1, <1>2, <2>1, <2>2, <2>4, SavesFresh
         DEF Proceeded, Fresh, Doing, Subject, Making, Charged, Made, Unmade, Histories
    <3> QED
      BY <3>1, <3>2
  <2>5. CASE Saves(p, "applied") /\ Proceeded(p, "commit")
    <3>1. history' = [history EXCEPT ![Subject(p)] = "applied"]
      BY <1>1, <2>2, <2>5, SavesFresh
    <3>2. Ledger'
      BY <1>1, <1>2, <2>2, <2>3, <3>1, LedgerRecorded
         DEF Statuses, Kept, Doing, Making, Charged, Made, Unmade, Ledger
    <3>3. Fresh(p)' /\ Doing(p)'
      BY <1>1, <1>2, <2>2, <2>5, <3>1
         DEF Proceeded, Fresh, Doing, Subject, Making, Charged, Made, Unmade, Histories
    <3> QED
      BY <3>2, <3>3
  <2> QED
    BY <2>1, <2>4, <2>5
<1>18. ASSUME CheckRollback(p) PROVE Ledger' /\ Fresh(p)' /\ Doing(p)'
  <2>1. Ended(p) \/ Went(p, "revert")
    BY <1>18, Control DEF CheckRollback, Steps
  <2>2. calls[p].step = "rollback" /\ history' = history /\ contract' = contract
    BY <1>18 DEF CheckRollback, At, metadata
  <2>3. Ledger'
    BY <1>1, <2>1, <2>2, LedgerKept DEF Ended, Went
  <2>4. Fresh(p)' /\ Doing(p)'
    BY <1>1, <2>1, <2>2, EndedAlone
       DEF Ended, Went, Fresh, Doing, Subject, Making, Charged, Made
  <2> QED
    BY <2>3, <2>4
<1>19. ASSUME Revert(p) PROVE Ledger' /\ Fresh(p)' /\ Doing(p)'
  <2>1. Ended(p) \/ Went(p, "rolledBack")
    BY <1>19, Control DEF Revert, Steps
  <2>2. calls[p].step = "revert" /\ history' = history /\ contract' = contract
    BY <1>19 DEF Revert, At, metadata
  <2>3. Ledger'
    BY <1>1, <2>1, <2>2, LedgerKept DEF Ended, Went
  <2>4. Fresh(p)' /\ Doing(p)'
    BY <1>1, <2>1, <2>2, EndedAlone
       DEF Ended, Went, Fresh, Doing, Subject, Making, Charged, Made
  <2> QED
    BY <2>3, <2>4
<1>20. ASSUME RecordRolledBack(p) PROVE Ledger' /\ Fresh(p)' /\ Doing(p)'
  <2>1. \/ Saves(p, "failed") /\ Proceeded(p, "release")
        \/ history' = history /\ Proceeded(p, "release")
    BY <1>20, Control DEF RecordRolledBack, CannotSave, Steps
  <2>2. calls[p].step = "rolledBack" /\ contract' = contract /\ Subject(p) \in Changes
    BY <1>2, <1>20 DEF RecordRolledBack, At, metadata
  <2>3. \A c \in Changes : told'[c] = "applied" => told[c] = "applied"
    BY <2>1 DEF Proceeded
  <2>4. CASE history' = history
    <3>1. Ledger'
      BY <1>1, <2>2, <2>3, <2>4, LedgerKept
    <3>2. Fresh(p)' /\ Doing(p)'
      BY <1>1, <1>2, <2>1, <2>2, <2>4, SavesFresh
         DEF Proceeded, Fresh, Doing, Subject, Making, Charged, Made, Unmade, Histories
    <3> QED
      BY <3>1, <3>2
  <2>5. CASE Saves(p, "failed") /\ Proceeded(p, "release")
    <3>1. history' = [history EXCEPT ![Subject(p)] = "failed"]
      BY <1>1, <2>2, <2>5, SavesFresh
    <3>2. Ledger'
      BY <1>1, <1>2, <2>2, <2>3, <3>1, LedgerRecorded
         DEF Statuses, Kept, Doing, Making, Charged, Made, Unmade, Ledger
    <3>3. Fresh(p)' /\ Doing(p)'
      BY <1>1, <1>2, <2>2, <2>5, <3>1
         DEF Proceeded, Fresh, Doing, Subject, Making, Charged, Made, Unmade, Histories
    <3> QED
      BY <3>2, <3>3
  <2> QED
    BY <2>1, <2>4, <2>5
<1>21. ASSUME Fail(p) PROVE Ledger' /\ Fresh(p)' /\ Doing(p)'
  <2>1. Went(p, "failed")
    BY <1>21, Control DEF Fail, Steps
  <2>2. calls[p].step = "fail" /\ history' = history /\ contract' = contract
    BY <1>21 DEF Fail, At, metadata
  <2>3. Ledger'
    BY <1>1, <2>1, <2>2, LedgerKept DEF Went
  <2>4. Fresh(p)' /\ Doing(p)'
    BY <1>1, <2>1, <2>2 DEF Went, Fresh, Doing, Subject, Making, Charged, Made
  <2> QED
    BY <2>3, <2>4
<1>22. ASSUME RecordFailed(p) PROVE Ledger' /\ Fresh(p)' /\ Doing(p)'
  <2>1. \/ Saves(p, "failed") /\ Proceeded(p, "release")
        \/ history' = history /\ Proceeded(p, "release")
    BY <1>22, Control DEF RecordFailed, CannotSave, Steps
  <2>2. calls[p].step = "failed" /\ contract' = contract /\ Subject(p) \in Changes
    BY <1>2, <1>22 DEF RecordFailed, At, metadata
  <2>3. \A c \in Changes : told'[c] = "applied" => told[c] = "applied"
    BY <2>1 DEF Proceeded
  <2>4. CASE history' = history
    <3>1. Ledger'
      BY <1>1, <2>2, <2>3, <2>4, LedgerKept
    <3>2. Fresh(p)' /\ Doing(p)'
      BY <1>1, <1>2, <2>1, <2>2, <2>4, SavesFresh
         DEF Proceeded, Fresh, Doing, Subject, Making, Charged, Made, Unmade, Histories
    <3> QED
      BY <3>1, <3>2
  <2>5. CASE Saves(p, "failed") /\ Proceeded(p, "release")
    <3>1. history' = [history EXCEPT ![Subject(p)] = "failed"]
      BY <1>1, <2>2, <2>5, SavesFresh
    <3>2. Ledger'
      BY <1>1, <1>2, <2>2, <2>3, <3>1, LedgerRecorded
         DEF Statuses, Kept, Doing, Making, Charged, Made, Unmade, Ledger
    <3>3. Fresh(p)' /\ Doing(p)'
      BY <1>1, <1>2, <2>2, <2>5, <3>1
         DEF Proceeded, Fresh, Doing, Subject, Making, Charged, Made, Unmade, Histories
    <3> QED
      BY <3>2, <3>3
  <2> QED
    BY <2>1, <2>4, <2>5
<1>23. ASSUME LoadVersions(p) PROVE Ledger' /\ Fresh(p)' /\ Doing(p)'
  <2>1. calls[p].step = "commit" /\ history' = history /\ contract' = contract /\ told' = told
    BY <1>23 DEF LoadVersions, At, metadata, Go
  <2>2. /\ calls'[p].step \in {"saveVersion", "undo"} /\ calls'[p].change = calls[p].change
        /\ calls'[p].seen = calls[p].seen /\ calls'[p].task = calls[p].task
    <3>1. CASE Go(p, "undo")
      BY <3>1, Control DEF Went, Steps
    <3>2. CASE ~Go(p, "undo")
      BY <1>3, <1>23, <3>2 DEF LoadVersions, Calls
    <3> QED
      BY <3>1, <3>2
  <2>3. Ledger'
    BY <1>1, <2>1, LedgerKept
  <2>4. Fresh(p)' /\ Doing(p)'
    BY <1>1, <2>1, <2>2 DEF Fresh, Doing, Subject, Making, Charged, Made
  <2> QED
    BY <2>3, <2>4
<1>24. ASSUME SaveVersion(p) PROVE Ledger' /\ Fresh(p)' /\ Doing(p)'
  <2>1. Went(p, "savePointer") \/ Went(p, "undo")
    BY <1>24, Control DEF SaveVersion, Steps
  <2>2. calls[p].step = "saveVersion" /\ history' = history /\ contract' = contract
    BY <1>24 DEF SaveVersion, At, metadata
  <2>3. Ledger'
    BY <1>1, <2>1, <2>2, LedgerKept DEF Went
  <2>4. Fresh(p)' /\ Doing(p)'
    BY <1>1, <2>1, <2>2 DEF Went, Fresh, Doing, Subject, Making, Charged, Made
  <2> QED
    BY <2>3, <2>4
<1>25. ASSUME SavePointer(p) PROVE Ledger' /\ Fresh(p)' /\ Doing(p)'
  <2>1. Went(p, "advance") \/ Went(p, "undo")
    BY <1>25, Control DEF SavePointer, Steps
  <2>2. calls[p].step = "savePointer" /\ history' = history /\ contract' = contract
    BY <1>25 DEF SavePointer, At, metadata
  <2>3. Ledger'
    BY <1>1, <2>1, <2>2, LedgerKept DEF Went
  <2>4. Fresh(p)' /\ Doing(p)'
    BY <1>1, <2>1, <2>2 DEF Went, Fresh, Doing, Subject, Making, Charged, Made
  <2> QED
    BY <2>3, <2>4
<1>26. ASSUME UndoCommit(p) PROVE Ledger' /\ Fresh(p)' /\ Doing(p)'
  <2>1. /\ calls[p].step = "undo" /\ history' = history /\ contract' = contract
    BY <1>26 DEF UndoCommit, At, metadata
  <2>2. \/ Ended(p) \/ Proceeded(p, "reconcile")
        \/ /\ calls'[p].step = "verify" /\ calls'[p].change = calls[p].change
           /\ calls'[p].seen = history /\ calls'[p].task = calls[p].task /\ told' = told
    <3>1. CASE EndUndo(p, AnswerError(p))
      BY <3>1, Control DEF EndUndo, Steps
    <3>2. CASE ~EndUndo(p, AnswerError(p))
      BY <1>3, <1>26, <3>2 DEF UndoCommit, Calls
    <3> QED
      BY <3>1, <3>2
  <2>3. Ledger'
    BY <1>1, <2>1, <2>2, LedgerKept DEF Ended, Proceeded
  <2>4. Fresh(p)' /\ Doing(p)'
    BY <1>1, <2>1, <2>2, EndedAlone
       DEF Proceeded, Fresh, Doing, Subject, Making, Charged, Made
  <2> QED
    BY <2>3, <2>4
<1>27. ASSUME Finish(p) PROVE Ledger' /\ Fresh(p)' /\ Doing(p)'
  <2>1. calls[p].step = "finish" /\ history' = history /\ contract' = contract /\ calls'[p] = Idle
    BY <1>3, <1>27 DEF Finish, At, metadata, Answer
  <2>2. \A c \in Changes : told'[c] = "applied" => told[c] = "applied" \/ c = Subject(p)
    BY <1>27 DEF Finish, Answer, TypeInv, TypeOK
  <2>3. Ledger'
    BY <1>1, <2>1, <2>2, LedgerKept DEF Doing, Made, Kept
  <2>4. Fresh(p)' /\ Doing(p)'
    BY <2>1, IdleFields DEF Fresh, Doing, Making, Charged, Made
  <2> QED
    BY <2>3, <2>4
<1>28. ASSUME RecordRejected(p) PROVE Ledger' /\ Fresh(p)' /\ Doing(p)'
  <2>1. \/ Saves(p, "rejected") /\ Went(p, "discard")
        \/ history' = history /\ Ended(p)
    BY <1>28, Control DEF RecordRejected, CannotSave, Steps
  <2>2. calls[p].step = "reject" /\ contract' = contract /\ Subject(p) \in Changes
    BY <1>2, <1>28 DEF RecordRejected, At, metadata
  <2>3. \A c \in Changes : told'[c] = "applied" => told[c] = "applied"
    BY <2>1 DEF Ended, Went
  <2>4. CASE history' = history
    <3>1. Ledger'
      BY <1>1, <2>2, <2>3, <2>4, LedgerKept
    <3>2. Fresh(p)' /\ Doing(p)'
      BY <1>1, <1>2, <2>1, <2>2, <2>4, EndedAlone, SavesFresh
         DEF Ended, Went, Fresh, Doing, Subject, Making, Charged, Made, Unmade,
             Histories
    <3> QED
      BY <3>1, <3>2
  <2>5. CASE Saves(p, "rejected") /\ Went(p, "discard")
    <3>1. history' = [history EXCEPT ![Subject(p)] = "rejected"]
      BY <1>1, <2>2, <2>5, SavesFresh
    <3>2. Ledger'
      BY <1>1, <1>2, <2>2, <2>3, <3>1, LedgerRecorded
         DEF Statuses, Kept, Doing, Making, Charged, Made, Unmade, Ledger
    <3>3. Fresh(p)' /\ Doing(p)'
      BY <1>1, <1>2, <2>2, <2>5, <3>1, EndedAlone
         DEF Went, Fresh, Doing, Subject, Making, Charged, Made, Unmade, Histories
    <3> QED
      BY <3>2, <3>3
  <2> QED
    BY <2>1, <2>4, <2>5
<1>29. ASSUME Discard(p) PROVE Ledger' /\ Fresh(p)' /\ Doing(p)'
  <2>1. Ended(p)
    BY <1>29, Control DEF Discard, Steps
  <2>2. calls[p].step = "discard" /\ history' = history /\ contract' = contract
    BY <1>29 DEF Discard, At, metadata
  <2>3. Ledger'
    BY <1>1, <2>1, <2>2, LedgerKept DEF Ended
  <2>4. Fresh(p)' /\ Doing(p)'
    BY <1>1, <2>1, <2>2, EndedAlone
       DEF Ended, Fresh, Doing, Subject, Making, Charged, Made
  <2> QED
    BY <2>3, <2>4
<1>30. ASSUME Verify(p) PROVE Ledger' /\ Fresh(p)' /\ Doing(p)'
  <2>1. Ended(p) \/ Went(p, "restore") \/ Proceeded(p, "reconcile")
    BY <1>30, Control DEF Verify, Steps, EndUndo
  <2>2. calls[p].step = "verify" /\ history' = history /\ contract' = contract
    BY <1>30 DEF Verify, At, metadata
  <2>3. Ledger'
    BY <1>1, <2>1, <2>2, LedgerKept DEF Ended, Proceeded, Went
  <2>4. Fresh(p)' /\ Doing(p)'
    BY <1>1, <2>1, <2>2, EndedAlone
       DEF Ended, Proceeded, Went, Fresh, Doing, Subject, Making, Charged, Made
  <2> QED
    BY <2>3, <2>4
<1>31. ASSUME Restore(p) PROVE Ledger' /\ Fresh(p)' /\ Doing(p)'
  <2>1. Ended(p) \/ Went(p, "undone") \/ Proceeded(p, "reconcile")
    BY <1>31, Control DEF Restore, Steps, EndUndo
  <2>2. calls[p].step = "restore" /\ history' = history /\ contract' = contract
    BY <1>31 DEF Restore, At, metadata
  <2>3. Ledger'
    BY <1>1, <2>1, <2>2, LedgerKept DEF Ended, Proceeded, Went
  <2>4. Fresh(p)' /\ Doing(p)'
    BY <1>1, <2>1, <2>2, EndedAlone
       DEF Ended, Proceeded, Went, Fresh, Doing, Subject, Making, Charged, Made
  <2> QED
    BY <2>3, <2>4
<1>32. ASSUME RecordUndone(p) PROVE Ledger' /\ Fresh(p)' /\ Doing(p)'
  <2>1. \/ Saves(p, "undone") /\ (Ended(p) \/ Proceeded(p, "reconcile"))
        \/ history' = history /\ (Ended(p) \/ Proceeded(p, "reconcile"))
    BY <1>32, Control DEF RecordUndone, CannotSave, Steps, EndUndo
  <2>2. calls[p].step = "undone" /\ contract' = contract /\ Subject(p) \in Changes
    BY <1>2, <1>32 DEF RecordUndone, At, metadata
  <2>3. \A c \in Changes : told'[c] = "applied" => told[c] = "applied"
    BY <2>1 DEF Ended, Proceeded
  <2>4. CASE history' = history
    <3>1. Ledger'
      BY <1>1, <2>2, <2>3, <2>4, LedgerKept
    <3>2. Fresh(p)' /\ Doing(p)'
      BY <1>1, <1>2, <2>1, <2>2, <2>4, EndedAlone, SavesFresh
         DEF Ended, Proceeded, Fresh, Doing, Subject, Making, Charged, Made, Unmade,
             Histories
    <3> QED
      BY <3>1, <3>2
  <2>5. CASE Saves(p, "undone") /\ (Ended(p) \/ Proceeded(p, "reconcile"))
    <3>1. history' = [history EXCEPT ![Subject(p)] = "undone"]
      BY <1>1, <2>2, <2>5, SavesFresh
    <3>2. Ledger'
      BY <1>1, <1>2, <2>2, <2>3, <3>1, LedgerRecorded
         DEF Statuses, Kept, Doing, Making, Charged, Made, Unmade, Ledger
    <3>3. Fresh(p)' /\ Doing(p)'
      BY <1>1, <1>2, <2>2, <2>5, <3>1, EndedAlone
         DEF Ended, Proceeded, Fresh, Doing, Subject, Making, Charged, Made, Unmade,
             Histories
    <3> QED
      BY <3>2, <3>3
  <2> QED
    BY <2>1, <2>4, <2>5
<1> QED
  BY <1>4, <1>5, <1>6, <1>7, <1>8, <1>9, <1>10, <1>11, <1>12, <1>13, <1>14, <1>15,
     <1>16, <1>17, <1>18, <1>19, <1>20, <1>21, <1>22, <1>23, <1>24, <1>25, <1>26,
     <1>27, <1>28, <1>29, <1>30, <1>31, <1>32
     DEF Step

\* A call that begins on its own.
LEMMA BeginAlone ==
    ASSUME TypeInv, AloneInv, Alone, NEW p \in Actors, Free(p),
           NEW op, NEW step, NEW c \in Changes, NEW seen, Begin(p, op, step, c, seen),
           history' = history, contract' = contract, told' = told,
           seen \in {Unread, history}, step # "discard",
           step \in Making => history[c] \in Unmade,
           step \notin Charged,
           step \in Made => history[c] = "applied",
           step = "reject" => history[c] = "pending"
    PROVE  Serial' /\ Ledger' /\ \A q \in Actors : Fresh(q)' /\ Doing(q)'
<1>1. calls \in [Actors -> Calls] /\ \A q \in Actors : calls[q] = Idle
  BY DEF TypeInv, TypeOK, Free
<1>2. /\ calls'[p].step = step /\ calls'[p].change = c
      /\ calls'[p].seen = seen /\ calls'[p].task = Unread
  BY <1>1 DEF Begin, Idle
<1>3. \A q \in Actors : q # p => calls'[q] = Idle
  BY <1>1 DEF Begin
<1>4. Serial'
  BY <1>3 DEF Serial
<1>5. Ledger'
  BY LedgerKept DEF AloneInv
<1>6. Fresh(p)' /\ Doing(p)'
  BY <1>2 DEF Fresh, Doing, Subject
<1>7. \A q \in Actors : q # p => Fresh(q)' /\ Doing(q)'
  BY <1>3, IdleFields DEF Fresh, Doing, Making, Charged, Made
<1> QED
  BY <1>4, <1>5, <1>6, <1>7

LEMMA CommandAlone ==
    ASSUME TypeInv, AloneInv, NEW c \in Changes, Submit(c) \/ Approve(c) \/ Reject(c) \/ Undo(c)
    PROVE  AloneInv'
<1> SUFFICES ASSUME Alone
             PROVE  Serial' /\ Ledger' /\ \A q \in Actors : Fresh(q)' /\ Doing(q)'
  BY DEF AloneInv, Alone, Submit, Approve, Reject, Undo, metadata
<1>1. "agent" \in Actors /\ "desk" \in Actors
  BY DEF Actors
<1>2. CASE Submit(c)
  <2>1. history[c] = "none"
    BY <1>2 DEF Submit, TypeInv, Prepared
  <2>2. PICK step \in {"request", "reserve"} : Begin("agent", "submit", step, c, Unread)
    BY <1>2 DEF Submit
  <2>3. Free("agent") /\ history' = history /\ contract' = contract /\ told' = told
    BY <1>2 DEF Submit
  <2> QED
    BY <1>1, <2>1, <2>2, <2>3, BeginAlone DEF Making, Charged, Made, Unmade
<1>3. CASE Approve(c)
  <2>1. /\ Begin("desk", "approve", "reserve", c, Unread) /\ Free("desk")
        /\ history' = history /\ contract' = contract /\ told' = told
        /\ history[c] = "pending"
    BY <1>3 DEF Approve, metadata
  <2> QED
    BY <1>1, <2>1, BeginAlone DEF Making, Charged, Made, Unmade
<1>4. CASE Reject(c)
  <2>1. /\ Begin("desk", "reject", "reject", c, history) /\ Free("desk")
        /\ history' = history /\ contract' = contract /\ told' = told
        /\ history[c] = "pending"
    BY <1>4 DEF Reject, metadata
  <2> QED
    BY <1>1, <2>1, BeginAlone DEF Making, Charged, Made, Unmade
<1>5. CASE Undo(c)
  <2>1. /\ Begin("desk", "undo", "verify", c, history) /\ Free("desk")
        /\ history' = history /\ contract' = contract /\ told' = told
        /\ history[c] = "applied"
    BY <1>5 DEF Undo, metadata
  <2> QED
    BY <1>1, <2>1, BeginAlone DEF Making, Charged, Made, Unmade
<1> QED
  BY <1>2, <1>3, <1>4, <1>5

LEMMA AloneInvStep == TypeInv /\ AloneInv /\ [Next]_vars => AloneInv'
<1> SUFFICES ASSUME TypeInv, AloneInv, [Next]_vars PROVE AloneInv'
  OBVIOUS
<1>1. CASE Edit
  BY <1>1 DEF Edit, AloneInv, Alone, Serial, Ledger, Fresh, Doing, Subject, metadata
<1>2. CASE Crash
  <2>1. \A q \in Actors : calls'[q] = Idle
    BY <1>2 DEF Crash
  <2>2. faults' = faults /\ history' = history /\ contract' = contract /\ told' = told
    BY <1>2 DEF Crash, metadata
  <2>3. \A q \in Actors : Fresh(q)' /\ Doing(q)'
    BY <2>1, IdleFields DEF Fresh, Doing, Making, Charged, Made
  <2> QED
    BY <2>1, <2>2, <2>3, LedgerKept DEF AloneInv, Alone, Serial
<1>3. CASE UNCHANGED vars
  BY <1>3 DEF vars, AloneInv, Alone, Serial, Ledger, Fresh, Doing, Subject
<1> QED
  BY <1>1, <1>2, <1>3, CommandAlone, StepAlone DEF Next

LEMMA AloneInvInit == Init => AloneInv
<1> SUFFICES ASSUME Init PROVE AloneInv
  OBVIOUS
<1>1. \A p \in Actors : calls[p] = Idle
  BY DEF Init
<1>2. \A p \in Actors : Fresh(p) /\ Doing(p)
  BY <1>1, IdleFields DEF Fresh, Doing, Making, Charged, Made
<1>3. contract.usage = {} /\ contract.reserved = {} /\ contract.budget \in Nat
  BY ChangesAssumption DEF Init
<1>4. Ledger
  <2>1. Cardinality(contract.usage) <= contract.budget
    BY <1>3, FS_EmptySet
  <2> QED
    BY <1>3, <2>1 DEF Init, Ledger, Kept
<1> QED
  BY <1>1, <1>2, <1>4 DEF AloneInv, Serial

LEMMA AloneAlways == Spec => [](TypeInv /\ AloneInv)
BY TypeInvInit, TypeInvStep, AloneInvInit, AloneInvStep, PTL DEF Spec

\* What was answered as applied stays in the history as applied until it is
\* undone, while the calls do not overlap, whichever saves fail.
THEOREM AppliedIsRecorded == Spec => []Recorded
<1>1. AloneInv => Recorded
  BY DEF AloneInv, Ledger, Recorded, Kept
<1> QED
  BY <1>1, AloneAlways, PTL

\* The task stays within its budget, and all that was made is charged to it.
THEOREM BudgetIsKept == Spec => []BudgetKept
<1>1. AloneInv => BudgetKept
  BY DEF AloneInv, Ledger, BudgetKept, Kept
<1> QED
  BY <1>1, AloneAlways, PTL

\* What came to nothing is charged only while its reservation is open.
THEOREM ChargesAreSettled == Spec => []ChargesSettle
<1>1. AloneInv => ChargesSettle
  BY DEF AloneInv, Ledger, ChargesSettle, Kept
<1> QED
  BY <1>1, AloneAlways, PTL

-----------------------------------------------------------------------------
(* The version files, while nobody overlaps and none is cut short *)

\* The steps from the preparation of the version to its save.
Versioned == {"start", "check", "backup", "write", "applied", "commit", "saveVersion"}

\* A step that does not touch the version files, nor how they are saved.
Onward(p) ==
    /\ versions' = versions /\ current' = current
    /\ torn' = torn /\ lost' = lost
    /\ \A c \in Changes : told'[c] = "applied" => told[c] = "applied"
    /\ calls'[p].step \in Versioned =>
            calls[p].step \in Versioned /\ calls'[p].parent = calls[p].parent
    /\ calls'[p].step \notin {"saveVersion", "savePointer"}
    /\ calls'[p].step \in {"advance", "finish"} =>
            calls[p].step \in {"advance", "finish"} /\ calls'[p].change = calls[p].change

\* What the steps that load leave as it was.
LEMMA Loads ==
    ASSUME TypeInv, NEW p \in Actors
    PROVE  /\ LoadHistory(p) \/ LoadContract(p) =>
                /\ calls'[p].step = calls[p].step /\ calls'[p].change = calls[p].change
                /\ calls'[p].parent = calls[p].parent
           /\ calls' = [calls EXCEPT ![p].step = "verify", ![p].seen = history] =>
                calls'[p].step = "verify"
<1>1. calls \in [Actors -> Calls]
  BY DEF TypeInv, TypeOK
<1> QED
  BY <1>1 DEF LoadHistory, LoadContract, Calls

LEMMA StepOnward ==
    ASSUME TypeInv, NEW p \in Actors, Step(p)
    PROVE  \/ PrepareVersion(p) \/ LoadVersions(p) \/ SaveVersion(p)
           \/ SavePointer(p) \/ Finish(p) \/ Onward(p)
<1>1. calls \in [Actors -> Calls]
  BY DEF TypeInv, TypeOK
<1> USE IdleFields, Control
<1> USE DEF At, Onward, Versioned, Went, Proceeded, Ended, Steps, metadata,
   versionFiles, EndUndo
<1>2. ASSUME LoadHistory(p) PROVE Onward(p)
  <2>1. /\ calls'[p].step = calls[p].step /\ calls'[p].change = calls[p].change
        /\ calls'[p].parent = calls[p].parent
    BY <1>2, Loads
  <2>2. UNCHANGED <<versions, current, torn, lost, told>>
    BY <1>2 DEF LoadHistory
  <2>3. calls[p].step \in Persisting
    BY <1>2 DEF LoadHistory
  <2> QED
    BY <2>1, <2>2, <2>3 DEF Persisting
<1>3. ASSUME LoadContract(p) PROVE Onward(p)
  <2>1. /\ calls'[p].step = calls[p].step /\ calls'[p].change = calls[p].change
        /\ calls'[p].parent = calls[p].parent
    BY <1>3, Loads, ZenonT(60)
  <2>2. UNCHANGED <<versions, current, torn, lost, told>>
    BY <1>3, ZenonT(60) DEF LoadContract
  <2>3. calls[p].step \in Budgeting
    BY <1>3, ZenonT(60) DEF LoadContract
  <2> QED
    BY <2>1, <2>2, <2>3 DEF Budgeting
<1>4. ASSUME Reserve(p) PROVE Onward(p)
  BY <1>1, <1>4 DEF Reserve
<1>5. ASSUME Release(p) PROVE Onward(p)
  BY <1>1, <1>5 DEF Release
<1>6. ASSUME Advance(p) PROVE Onward(p)
  BY <1>1, <1>6 DEF Advance
<1>7. ASSUME Reconcile(p) PROVE Onward(p)
  BY <1>1, <1>7 DEF Reconcile
<1>8. ASSUME WriteRequest(p) PROVE Onward(p)
  BY <1>1, <1>8 DEF WriteRequest
<1>9. ASSUME QueueRecord(p) PROVE Onward(p)
  BY <1>1, <1>9 DEF QueueRecord
<1>10. ASSUME StartRecord(p) PROVE Onward(p)
  BY <1>1, <1>10 DEF StartRecord
<1>11. ASSUME CheckFile(p) PROVE Onward(p)
  BY <1>1, <1>11 DEF CheckFile
<1>12. ASSUME WriteBackup(p) PROVE Onward(p)
  BY <1>1, <1>12 DEF WriteBackup
<1>13. ASSUME WritePayload(p) PROVE Onward(p)
  BY <1>1, <1>13 DEF WritePayload
<1>14. ASSUME RecordApplied(p) PROVE Onward(p)
  BY <1>1, <1>14 DEF RecordApplied
<1>15. ASSUME CheckRollback(p) PROVE Onward(p)
  BY <1>1, <1>15 DEF CheckRollback
<1>16. ASSUME Revert(p) PROVE Onward(p)
  BY <1>1, <1>16 DEF Revert
<1>17. ASSUME RecordRolledBack(p) PROVE Onward(p)
  BY <1>1, <1>17 DEF RecordRolledBack
<1>18. ASSUME Fail(p) PROVE Onward(p)
  BY <1>1, <1>18 DEF Fail
<1>19. ASSUME RecordFailed(p) PROVE Onward(p)
  BY <1>1, <1>19 DEF RecordFailed
<1>20. ASSUME UndoCommit(p) PROVE Onward(p)
  <2>1. UNCHANGED <<versions, current, torn, lost>> /\ calls[p].step = "undo"
    BY <1>20 DEF UndoCommit
  <2>2. \/ Ended(p) \/ Proceeded(p, "reconcile")
        \/ calls'[p].step = "verify" /\ told' = told
    <3>1. CASE EndUndo(p, AnswerError(p))
      BY <3>1
    <3>2. CASE ~EndUndo(p, AnswerError(p))
      BY <1>20, <3>2, Loads DEF UndoCommit
    <3> QED
      BY <3>1, <3>2
  <2> QED
    BY <2>1, <2>2
<1>21. ASSUME RecordRejected(p) PROVE Onward(p)
  BY <1>1, <1>21 DEF RecordRejected
<1>22. ASSUME Discard(p) PROVE Onward(p)
  BY <1>1, <1>22 DEF Discard
<1>23. ASSUME Verify(p) PROVE Onward(p)
  BY <1>1, <1>23 DEF Verify
<1>24. ASSUME Restore(p) PROVE Onward(p)
  BY <1>1, <1>24 DEF Restore
<1>25. ASSUME RecordUndone(p) PROVE Onward(p)
  BY <1>1, <1>25 DEF RecordUndone
<1> QED
  BY <1>2, <1>3, <1>4, <1>5, <1>6, <1>7, <1>8, <1>9, <1>10, <1>11, <1>12, <1>13, <1>14,
     <1>15, <1>16, <1>17, <1>18, <1>19, <1>20, <1>21, <1>22, <1>23, <1>24, <1>25
     DEF Step

\* It is enough to look at the call that makes the step.
LEMMA VersionsIf ==
    ASSUME TypeInv, AloneInv, VersionInv, NEW p \in Actors, Step(p),
           Alone /\ lost = {} /\ lost' = {} => Connected(versions, current)' /\ Saving(p)'
    PROVE  VersionInv'
<1> SUFFICES ASSUME Alone', lost' = {}
             PROVE  Connected(versions, current)' /\ \A q \in Actors : Saving(q)'
  BY DEF VersionInv
<1>1. Alone
  BY StepLocal DEF Alone
<1>2. lost = {}
  BY StepOnward DEF Onward, PrepareVersion, LoadVersions, SaveVersion, SavePointer, Finish,
                    Writes, versionFiles
<1>3. \A q \in Actors : q # p => calls'[q] = Idle
  BY <1>1, StepLocal DEF AloneInv, Serial
<1>4. \A q \in Actors : q # p => Saving(q)'
  BY <1>3, IdleFields DEF Saving
<1> QED
  BY <1>1, <1>2, <1>4

\* A save that cuts no file short.
LEMMA WritesWhole ==
    ASSUME NEW whole, NEW cut, NEW content, Writes(whole, cut, content), lost' = {}
    PROVE  /\ versions' = IF "history" \in whole THEN content.versions ELSE versions
           /\ current' = IF "state" \in whole THEN content.current ELSE current
<1>1. cut = {}
  BY DEF Writes
<1> QED
  BY <1>1 DEF Writes

LEMMA StepVersions ==
    ASSUME TypeInv, AloneInv, VersionInv, NEW p \in Actors, Step(p)
    PROVE  VersionInv'
<1> SUFFICES ASSUME Alone, lost = {}, lost' = {}
             PROVE  Connected(versions, current)' /\ Saving(p)'
  BY VersionsIf
<1>1. Connected(versions, current) /\ Saving(p)
  BY DEF VersionInv
<1>2. /\ calls \in [Actors -> Calls] /\ current \in Changes \cup {Root}
      /\ versions \in [Changes -> Changes \cup {Root, Unread}]
      /\ \A c \in Changes : c # Unread
      /\ Root # Unread /\ Root \notin Changes
      /\ calls[p].op # "none" => Subject(p) \in Changes
  BY ChangesAssumption, UnreadAssumption
     DEF TypeInv, TypeOK, CallTypes, Subject, Contents
<1>3. CASE Onward(p)
  BY <1>1, <1>3 DEF Onward, Versioned, Connected, Saving, Subject
<1>4. CASE PrepareVersion(p)
  <2>1. versions' = versions /\ current' = current /\ told' = told
    BY <1>4 DEF PrepareVersion, versionFiles, Go
  <2>2. \/ calls'[p].step \in {"start", "check"} /\ calls'[p].parent = current
        \/ calls'[p].step = "release"
    <3>1. CASE Go(p, "release")
      BY <3>1, Control DEF Went, Steps
    <3>2. CASE ~Go(p, "release")
      BY <1>2, <1>4, <3>2 DEF PrepareVersion, Calls
    <3> QED
      BY <3>1, <3>2
  <2>3. Connected(versions, current)'
    BY <1>1, <2>1 DEF Connected
  <2>4. Saving(p)'
    BY <2>1, <2>2 DEF Saving
  <2> QED
    BY <2>3, <2>4
<1>5. CASE LoadVersions(p)
  <2>1. versions' = versions /\ current' = current /\ told' = told /\ calls[p].step = "commit"
    BY <1>5 DEF LoadVersions, versionFiles, At, Go
  <2>2. \/ /\ calls'[p].step = "saveVersion" /\ calls'[p].parent = calls[p].parent
           /\ calls'[p].base = [versions |-> versions, current |-> current]
        \/ calls'[p].step = "undo"
    <3>1. CASE Go(p, "undo")
      BY <3>1, Control DEF Went, Steps
    <3>2. CASE ~Go(p, "undo")
      BY <1>2, <1>5, <3>2 DEF LoadVersions, Calls
    <3> QED
      BY <3>1, <3>2
  <2>3. Connected(versions, current)'
    BY <1>1, <2>1 DEF Connected
  <2>4. Saving(p)'
    BY <1>1, <2>1, <2>2 DEF Saving
  <2> QED
    BY <2>3, <2>4
<1>6. CASE SaveVersion(p)
  <2>1. /\ calls[p].step = "saveVersion" /\ told' = told /\ Subject(p) \in Changes
    BY <1>2, <1>6 DEF SaveVersion, At, Go
  <2>2. calls[p].base = [versions |-> versions, current |-> current] /\ calls[p].parent = current
    BY <1>1, <2>1 DEF Saving
  <2>3. CASE /\ versions' = [versions EXCEPT ![Subject(p)] = current] /\ current' = current
             /\ Went(p, "savePointer")
    <3>1. \A c \in Changes : versions'[c] = IF c = Subject(p) THEN current ELSE versions[c]
      BY <1>2, <2>3
    <3>2. Connected(versions, current)'
      BY <1>1, <1>2, <2>1, <2>3, <3>1 DEF Connected
    <3>3. Connected(calls[p].base.versions, calls[p].base.current)
      BY <1>1, <2>2
    <3>4. Saving(p)'
      BY <1>2, <2>1, <2>2, <2>3, <3>1, <3>3 DEF Saving, Went, Connected, Subject
    <3> QED
      BY <3>2, <3>4
  <2>4. CASE versions' = versions /\ current' = current /\ Went(p, "undo")
    BY <1>1, <2>1, <2>4 DEF Connected, Saving, Went
  <2>5. CASE Writes({"history"}, {}, Committed(p)) /\ Go(p, "savePointer")
    BY <2>2, <2>3, <2>5, WritesWhole, Control DEF Committed, Steps
  <2>6. CASE Go(p, "undo") /\ \E cut \in SUBSET {"history"} : Writes({}, cut, Committed(p))
    BY <2>4, <2>6, WritesWhole, Control DEF Steps
  <2> QED
    BY <1>6, <2>5, <2>6 DEF SaveVersion
<1>7. CASE SavePointer(p)
  <2>1. /\ calls[p].step = "savePointer" /\ told' = told /\ Subject(p) \in Changes
    BY <1>2, <1>7 DEF SavePointer, At, Go
  <2>2. /\ Connected(calls[p].base.versions, calls[p].base.current)
        /\ current = calls[p].base.current /\ versions[Subject(p)] # Unread
    BY <1>1, <2>1 DEF Saving
  <2>3. CASE versions' = versions /\ current' = Subject(p) /\ Went(p, "advance")
    <3>1. Connected(versions, current)'
      BY <1>1, <2>1, <2>2, <2>3 DEF Connected
    <3>2. Saving(p)'
      BY <2>2, <2>3 DEF Saving, Went, Subject
    <3> QED
      BY <3>1, <3>2
  <2>4. CASE /\ versions' \in {versions, calls[p].base.versions}
             /\ current' = current /\ Went(p, "undo")
    <3>1. Connected(versions, current)'
      BY <1>1, <2>1, <2>2, <2>4 DEF Connected
    <3>2. Saving(p)'
      BY <2>4 DEF Saving, Went
    <3> QED
      BY <3>1, <3>2
  <2>5. CASE Writes({"state"}, {}, Committed(p)) /\ Go(p, "advance")
    BY <2>3, <2>5, WritesWhole, Control DEF Committed, Steps
  <2>6. CASE Go(p, "undo") /\ \E back, cut \in SUBSET VersionStore :
                                back \cap cut = {} /\ Writes(back, cut, calls[p].base)
    BY <2>2, <2>4, <2>6, WritesWhole, Control DEF Steps
  <2> QED
    BY <1>7, <2>5, <2>6 DEF SavePointer
<1>8. CASE Finish(p)
  <2>1. /\ calls[p].step = "finish" /\ versions' = versions /\ current' = current
        /\ calls'[p] = Idle
    BY <1>2, <1>8 DEF Finish, At, versionFiles, Answer
  <2>2. \A c \in Changes : told'[c] = "applied" => told[c] = "applied" \/ c = Subject(p)
    BY <1>8 DEF Finish, Answer, TypeInv, TypeOK
  <2>3. Connected(versions, current)'
    BY <1>1, <2>1, <2>2 DEF Connected, Saving
  <2>4. Saving(p)'
    BY <2>1, IdleFields DEF Saving
  <2> QED
    BY <2>3, <2>4
<1> QED
  BY <1>3, <1>4, <1>5, <1>6, <1>7, <1>8, StepOnward

LEMMA VersionInvStep == TypeInv /\ AloneInv /\ VersionInv /\ [Next]_vars => VersionInv'
<1> SUFFICES ASSUME TypeInv, AloneInv, VersionInv, [Next]_vars PROVE VersionInv'
  OBVIOUS
<1>1. ASSUME NEW c \in Changes, Submit(c) \/ Approve(c) \/ Reject(c) \/ Undo(c)
      PROVE  VersionInv'
  <2>1. /\ versions' = versions /\ current' = current /\ lost' = lost
        /\ told' = told /\ faults' = faults
    BY <1>1 DEF Submit, Approve, Reject, Undo, metadata, versionFiles
  <2>2. \A p \in Actors : \/ calls'[p] = calls[p]
                          \/ calls'[p].step \in {"request", "reserve", "reject", "verify"}
    <3>1. PICK a \in Actors, op \in {"submit", "approve", "reject", "undo"},
               step \in {"request", "reserve", "reject", "verify"},
               seen \in Histories \cup {Unread} : Begin(a, op, step, c, seen)
      BY <1>1 DEF Submit, Approve, Reject, Undo, Actors, TypeInv, TypeOK
    <3>2. calls \in [Actors -> Calls]
      BY DEF TypeInv, TypeOK
    <3>3. calls'[a].step = step /\ \A p \in Actors : p # a => calls'[p] = calls[p]
      BY <3>1, <3>2 DEF Begin, Idle
    <3> QED
      BY <3>3
  <2>3. \A p \in Actors : Saving(p) => Saving(p)'
    BY <2>1, <2>2 DEF Saving, Connected, Subject
  <2> QED
    BY <2>1, <2>3 DEF VersionInv, Alone, Connected
<1>2. CASE Edit
  BY <1>2
     DEF Edit, VersionInv, Alone, Connected, Saving, Subject, metadata, versionFiles
<1>3. CASE Crash
  <2> SUFFICES ASSUME Alone, lost' = {}
               PROVE  Connected(versions, current)' /\ \A q \in Actors : Saving(q)'
    BY <1>3 DEF Crash, VersionInv, Alone, metadata
  <2>1. PICK p \in Actors :
            \E back \in SUBSET BeingPutBack(p), cut \in SUBSET UNION {BeingSaved(q) : q \in Actors} :
                Writes(back, cut, calls[p].base)
    BY <1>3 DEF Crash
  <2>2. PICK back \in SUBSET BeingPutBack(p), cut \in SUBSET UNION {BeingSaved(q) : q \in Actors} :
            Writes(back, cut, calls[p].base)
    BY <2>1
  <2>3. Connected(versions, current) /\ Saving(p) /\ told' = told
    BY <1>3, <2>2 DEF VersionInv, Writes, Crash
  <2>4. ASSUME back = {} PROVE Connected(versions, current)'
    BY <2>2, <2>3, <2>4, WritesWhole DEF Connected
  <2>5. ASSUME back # {} PROVE Connected(versions, current)'
    <3>1. calls[p].step = "savePointer"
      BY <2>5 DEF BeingPutBack, At
    <3>2. Connected(calls[p].base.versions, calls[p].base.current) /\ current = calls[p].base.current
      BY <2>3, <3>1 DEF Saving
    <3> QED
      BY <2>2, <2>3, <3>2, WritesWhole DEF Connected
  <2>6. \A q \in Actors : Saving(q)'
    BY <1>3, IdleFields DEF Crash, Saving
  <2> QED
    BY <2>4, <2>5, <2>6
<1>4. CASE UNCHANGED vars
  BY <1>4 DEF vars, VersionInv, Alone, Connected, Saving, Subject
<1> QED
  BY <1>1, <1>2, <1>3, <1>4, StepVersions DEF Next

LEMMA VersionInvInit == Init => VersionInv
<1> SUFFICES ASSUME Init PROVE VersionInv
  OBVIOUS
<1>1. \A p \in Actors : Saving(p)
  BY IdleFields DEF Init, Saving
<1>2. Connected(versions, current)
  <2>1. \A c \in Changes : versions[c] = Unread /\ told[c] # "applied"
    BY DEF Init, Unwritten
  <2> QED
    BY <2>1, UnreadAssumption DEF Init, Connected, Contents
<1> QED
  BY <1>1, <1>2 DEF VersionInv

\* As long as no save cut a version file short, no version that another one, the
\* pointer or an answer relies on is missing, whichever of the saves of the pair
\* fail and wherever the process dies.
THEOREM VersionsStayConnected == Spec => []VersionsConnected
<1>1. VersionInv => VersionsConnected
  BY DEF VersionInv, Connected, VersionsConnected
<1>2. Init => TypeInv /\ AloneInv /\ VersionInv
  BY TypeInvInit, AloneInvInit, VersionInvInit
<1>3. TypeInv /\ AloneInv /\ VersionInv /\ [Next]_vars => (TypeInv /\ AloneInv /\ VersionInv)'
  BY TypeInvStep, AloneInvStep, VersionInvStep
<1> QED
  BY <1>1, <1>2, <1>3, PTL DEF Spec

-----------------------------------------------------------------------------
(* Who does what, and what the changes were prepared against *)

\* Undoing a change uncovers what it was prepared against, so a set of edits
\* that may come back holds with each of them the one below it.
Closed(S) == \A c \in S : payload[c] \in Changes => payload[c] \in S
Covers(S, content) == content \in Changes => content \in S

\* A change was prepared against a file that held none that was submitted
\* after it: no change lies below itself.
Layered == \A c \in Changes :
    \E T \in SUBSET Changes : Closed(T) /\ c \notin T /\ Covers(T, payload[c])

\* Only what was submitted is written, prepared against or requested.
Submitted ==
    /\ file \in Changes => payload[file] # Unread
    /\ \A c \in Changes : payload[c] \in Changes => payload[payload[c]] # Unread
    /\ \A c \in requests : payload[c] # Unread

\* The agent submits and the desk does the rest; a change that is applied at
\* once has no request.
Role(p) ==
    /\ calls[p].op = "submit" => p = "agent"
    /\ calls[p].op \in {"approve", "reject", "undo"} => p = "desk"
    /\ calls[p].step \in {"request", "queue"} => calls[p].op = "submit"
    /\ calls[p].step \in Making => calls[p].op \in {"submit", "approve"}
    /\ calls[p].op = "submit" /\ calls[p].step \notin {"request", "queue"} =>
            Subject(p) \notin requests

OrderInv == Layered /\ Submitted /\ \A p \in Actors : Role(p)

\* The steps that rely on what the change was prepared against.
Relying == {"backup", "write", "revert", "restore"}

\* What a step of a call does to the file, the requests and the call, whoever
\* else is at work.
Course(p) ==
    /\ payload' = payload /\ calls[p].op # "none"
    /\ \/ calls'[p] = Idle
       \/ /\ calls'[p].op = calls[p].op /\ calls'[p].change = calls[p].change
          /\ calls'[p].step \in {"request", "queue"} <=> calls[p].step \in {"request", "queue"}
          /\ calls'[p].step \in Making => calls[p].step \in Making
    /\ requests' \subseteq requests \cup {Subject(p)}
    /\ calls[p].step # "request" => requests' \subseteq requests
    /\ denied \ {Subject(p)} \subseteq denied'
    /\ \/ /\ calls[p].step = "write" /\ calls'[p].step = "applied" /\ file' = Subject(p)
          /\ UNCHANGED <<history, backups, contract>>
       \/ /\ denied \subseteq denied'
          /\ \/ file' = file \/ file' \notin Changes
             \/ /\ calls[p].step = "write" /\ calls'[p].step = "fail"
                /\ file' = Subject(p) /\ Subject(p) \in denied'
             \/ calls[p].step \in {"revert", "restore"} /\ file' = payload[Subject(p)]
    /\ calls'[p].step \in Relying =>
            \/ calls[p].step = "check" /\ file = payload[Subject(p)]
            \/ calls[p].step = "backup"
            \/ calls[p].step \in {"rollback", "verify"} /\ file = Subject(p)
    /\ calls'[p].step \in {"reserve", "prepare", "check", "backup", "write"} =>
            \/ StartRecord(p)
            \/ /\ history' = history
               /\ \/ calls[p].step = "reserve" /\ calls'[p].step \in {"reserve", "prepare"}
                  \/ calls[p].step = "prepare" /\ calls[p].op # "submit" /\ calls'[p].step = "check"
                  \/ calls[p].step = "check" /\ calls'[p].step = "backup"
                  \/ calls[p].step = "backup" /\ Subject(p) \in backups'

\* The calls after the steps that set several of their fields.
LEMMA Fields ==
    ASSUME TypeInv, NEW p \in Actors, Step(p)
    PROVE  /\ LoadHistory(p) \/ LoadContract(p) =>
                /\ calls'[p].op = calls[p].op /\ calls'[p].change = calls[p].change
                /\ calls'[p].step = calls[p].step
                /\ calls[p].step \in Persisting \cup Budgeting
           /\ PrepareVersion(p) =>
                /\ calls'[p].op = calls[p].op /\ calls'[p].change = calls[p].change
                /\ calls'[p].step \in {"start", "check", "release"}
                /\ calls'[p].step = "start" => calls[p].op = "submit"
           /\ LoadVersions(p) =>
                /\ calls'[p].op = calls[p].op /\ calls'[p].change = calls[p].change
                /\ calls'[p].seen = calls[p].seen
                /\ \/ calls'[p].step = "saveVersion"
                   \/ calls'[p].step = "undo" /\ (Fails \/ torn # {})
           /\ UndoCommit(p) =>
                \/ calls'[p] = Idle
                \/ /\ calls'[p].op = calls[p].op /\ calls'[p].change = calls[p].change
                   /\ calls'[p].step \in {"verify", "reconcile"}
<1>1. calls \in [Actors -> Calls]
  BY DEF TypeInv, TypeOK
<1>2. LoadHistory(p) \/ LoadContract(p) =>
                /\ calls'[p].op = calls[p].op /\ calls'[p].change = calls[p].change
                /\ calls'[p].step = calls[p].step
                /\ calls[p].step \in Persisting \cup Budgeting
  BY <1>1 DEF LoadHistory, LoadContract, Calls
<1>3. PrepareVersion(p) =>
                /\ calls'[p].op = calls[p].op /\ calls'[p].change = calls[p].change
                /\ calls'[p].step \in {"start", "check", "release"}
                /\ calls'[p].step = "start" => calls[p].op = "submit"
  BY <1>1 DEF PrepareVersion, Go, Calls
<1>4. LoadVersions(p) =>
                /\ calls'[p].op = calls[p].op /\ calls'[p].change = calls[p].change
                /\ calls'[p].seen = calls[p].seen
                /\ \/ calls'[p].step = "saveVersion"
                   \/ calls'[p].step = "undo" /\ (Fails \/ torn # {})
  BY <1>1 DEF LoadVersions, Go, Calls
<1>5. UndoCommit(p) =>
                \/ calls'[p] = Idle
                \/ /\ calls'[p].op = calls[p].op /\ calls'[p].change = calls[p].change
                   /\ calls'[p].step \in {"verify", "reconcile"}
  BY <1>1 DEF UndoCommit, EndUndo, AnswerError, Proceed, Calls
<1> QED
  BY <1>2, <1>3, <1>4, <1>5

LEMMA StepCourse ==
    ASSUME TypeInv, NEW p \in Actors, Step(p)
    PROVE  Course(p)
<1>1. calls[p].op # "none"
  <2>1. calls[p] # Idle
    BY StepLocal
  <2> QED
    BY <2>1 DEF TypeInv, CallTypes
<1>2. /\ calls \in [Actors -> Calls]
      /\ "torn" \notin Changes /\ "gone" \notin Changes
  BY ChangesAssumption DEF TypeInv, TypeOK
<1>3. ASSUME UNCHANGED <<payload, file, requests, denied>>,
             \/ calls'[p] = Idle
             \/ /\ calls'[p].op = calls[p].op /\ calls'[p].change = calls[p].change
                /\ calls'[p].step \in {"request", "queue"} <=> calls[p].step \in {"request", "queue"}
                /\ calls'[p].step \in Making => calls[p].step \in Making,
             calls'[p].step \notin Relying \cup {"reserve", "prepare", "check"}
      PROVE  Course(p)
  BY <1>1, <1>3 DEF Course, Relying
<1> USE IdleFields, Control
<1> USE DEF At, Went, Proceeded, Ended, Steps, metadata, EndUndo, Relying, Making
<1>4. ASSUME LoadHistory(p) PROVE Course(p)
  <2>1. /\ UNCHANGED <<payload, file, requests, denied>>
        /\ calls[p].step \in Persisting
    BY <1>4 DEF LoadHistory
  <2>2. /\ calls'[p].op = calls[p].op /\ calls'[p].change = calls[p].change
        /\ calls'[p].step = calls[p].step
    BY <1>4, Fields
  <2> QED
    BY <1>3, <2>1, <2>2 DEF Persisting
<1>5. ASSUME LoadContract(p) PROVE Course(p)
  BY <1>1, <1>5, Fields, ZenonT(60) DEF LoadContract, Course, Persisting, Budgeting
<1>6. ASSUME Reserve(p) PROVE Course(p)
  BY <1>1, <1>2, <1>6 DEF Reserve, Course, GiveUp, Removed
<1>7. ASSUME Release(p) PROVE Course(p)
  BY <1>1, <1>2, <1>7 DEF Release, Course, GiveUp, Removed
<1>8. ASSUME Advance(p) PROVE Course(p)
  BY <1>1, <1>2, <1>8 DEF Advance, Course, GiveUp, Removed
<1>9. ASSUME Reconcile(p) PROVE Course(p)
  BY <1>1, <1>2, <1>9 DEF Reconcile, Course, GiveUp, Removed
<1>10. ASSUME WriteRequest(p) PROVE Course(p)
  BY <1>1, <1>2, <1>10 DEF WriteRequest, Course, GiveUp, Removed
<1>11. ASSUME QueueRecord(p) PROVE Course(p)
  BY <1>1, <1>2, <1>11 DEF QueueRecord, Course, GiveUp, Removed
<1>12. ASSUME PrepareVersion(p) PROVE Course(p)
  <2>1. calls'[p].step = "check" => calls[p].op # "submit"
    BY <1>2, <1>12 DEF PrepareVersion, Go, Calls
  <2> QED
    BY <1>1, <1>12, <2>1, Fields DEF PrepareVersion, Course
<1>13. ASSUME StartRecord(p) PROVE Course(p)
  BY <1>1, <1>2, <1>13 DEF StartRecord, Course, GiveUp, Removed
<1>14. ASSUME CheckFile(p) PROVE Course(p)
  BY <1>1, <1>2, <1>14 DEF CheckFile, Course, GiveUp, Removed
<1>15. ASSUME WriteBackup(p) PROVE Course(p)
  BY <1>1, <1>2, <1>15 DEF WriteBackup, Course, GiveUp, Removed
<1>16. ASSUME WritePayload(p) PROVE Course(p)
  BY <1>1, <1>2, <1>16 DEF WritePayload, Course, GiveUp, Removed
<1>17. ASSUME RecordApplied(p) PROVE Course(p)
  BY <1>1, <1>2, <1>17 DEF RecordApplied, Course, GiveUp, Removed
<1>18. ASSUME CheckRollback(p) PROVE Course(p)
  BY <1>1, <1>2, <1>18 DEF CheckRollback, Course, GiveUp, Removed
<1>19. ASSUME Revert(p) PROVE Course(p)
  BY <1>1, <1>2, <1>19 DEF Revert, PutBack, CannotPutBack, Course, GiveUp, Removed
<1>20. ASSUME RecordRolledBack(p) PROVE Course(p)
  BY <1>1, <1>2, <1>20 DEF RecordRolledBack, Course, GiveUp, Removed
<1>21. ASSUME Fail(p) PROVE Course(p)
  BY <1>1, <1>2, <1>21 DEF Fail, Course, GiveUp, Removed
<1>22. ASSUME RecordFailed(p) PROVE Course(p)
  BY <1>1, <1>2, <1>22 DEF RecordFailed, Course, GiveUp, Removed
<1>23. ASSUME LoadVersions(p) PROVE Course(p)
  <2>1. /\ UNCHANGED <<payload, file, requests, denied>> /\ calls[p].step = "commit"
        /\ calls'[p].op = calls[p].op /\ calls'[p].change = calls[p].change
        /\ calls'[p].step \in {"saveVersion", "undo"}
    BY <1>23, Fields, ZenonT(60) DEF LoadVersions
  <2> QED
    BY <1>3, <2>1, SMTT(30)
<1>24. ASSUME SaveVersion(p) PROVE Course(p)
  BY <1>1, <1>2, <1>24 DEF SaveVersion, Course, GiveUp, Removed
<1>25. ASSUME SavePointer(p) PROVE Course(p)
  BY <1>1, <1>2, <1>25 DEF SavePointer, Course, GiveUp, Removed
<1>26. ASSUME UndoCommit(p) PROVE Course(p)
  BY <1>1, <1>26, Fields DEF UndoCommit, Course
<1>27. ASSUME Finish(p) PROVE Course(p)
  BY <1>1, <1>2, <1>27 DEF Finish, Answer, Course, Removed
<1>28. ASSUME RecordRejected(p) PROVE Course(p)
  BY <1>1, <1>2, <1>28 DEF RecordRejected, Course, GiveUp, Removed
<1>29. ASSUME Discard(p) PROVE Course(p)
  BY <1>1, <1>2, <1>29 DEF Discard, Course, GiveUp, Removed
<1>30. ASSUME Verify(p) PROVE Course(p)
  BY <1>1, <1>2, <1>30 DEF Verify, Course, GiveUp, Removed
<1>31. ASSUME Restore(p) PROVE Course(p)
  BY <1>1, <1>2, <1>31 DEF Restore, PutBack, CannotPutBack, Course, GiveUp, Removed
<1>32. ASSUME RecordUndone(p) PROVE Course(p)
  BY <1>1, <1>2, <1>32 DEF RecordUndone, Course, GiveUp, Removed
<1> QED
  BY <1>4, <1>5, <1>6, <1>7, <1>8, <1>9, <1>10, <1>11, <1>12, <1>13, <1>14, <1>15,
     <1>16, <1>17, <1>18, <1>19, <1>20, <1>21, <1>22, <1>23, <1>24, <1>25, <1>26,
     <1>27, <1>28, <1>29, <1>30, <1>31, <1>32
     DEF Step

LEMMA StepOrder ==
    ASSUME TypeInv, OrderInv, NEW p \in Actors, Step(p)
    PROVE  OrderInv'
<1>1. Course(p) /\ \A q \in Actors : q # p => calls'[q] = calls[q]
  BY StepCourse, StepLocal
<1>2. /\ Subject(p) \in Changes /\ payload[Subject(p)] # Unread
      /\ \A c \in Changes : c # Unread /\ c # Root
  BY <1>1, ChangesAssumption, UnreadAssumption
     DEF Course, TypeInv, CallTypes, Subject, Contents
<1>3. Layered'
  BY <1>1 DEF Course, OrderInv, Layered, Closed, Covers
<1>4. Submitted'
  BY <1>1, <1>2 DEF Course, OrderInv, Submitted
<1>5. ASSUME NEW q \in Actors PROVE Role(q)'
  <2>1. Role(p) /\ Role(q)
    BY DEF OrderInv
  <2>2. CASE q = p
    BY <1>1, <2>1, <2>2, IdleFields DEF Course, Role, Subject, Making
  <2>3. CASE q # p /\ calls[p].step = "request"
    <3>1. calls[q].op # "submit"
      BY <2>1, <2>3 DEF Role
    <3> QED
      BY <1>1, <2>1, <2>3, <3>1 DEF Role, Subject
  <2>4. CASE q # p /\ calls[p].step # "request"
    BY <1>1, <2>1, <2>4 DEF Course, Role, Subject
  <2> QED
    BY <2>2, <2>3, <2>4
<1> QED
  BY <1>3, <1>4, <1>5 DEF OrderInv

\* What a command makes of the call of its actor.
LEMMA CommandCall ==
    ASSUME TypeInv, NEW c \in Changes, Submit(c) \/ Approve(c) \/ Reject(c) \/ Undo(c)
    PROVE  \E a \in Actors :
            /\ calls[a] = Idle /\ \A q \in Actors : q # a => calls'[q] = calls[q]
            /\ Alone => \A q \in Actors : calls[q] = Idle
            /\ calls'[a].change = c
            /\ \/ /\ Submit(c) /\ a = "agent" /\ calls'[a].op = "submit"
                  /\ calls'[a].step \in {"request", "reserve"} /\ calls'[a].seen = Unread
               \/ /\ Approve(c) /\ a = "desk" /\ calls'[a].op = "approve"
                  /\ calls'[a].step = "reserve" /\ calls'[a].seen = Unread
               \/ /\ Reject(c) /\ a = "desk" /\ calls'[a].op = "reject"
                  /\ calls'[a].step = "reject" /\ calls'[a].seen = history
               \/ /\ Undo(c) /\ a = "desk" /\ calls'[a].op = "undo"
                  /\ calls'[a].step = "verify" /\ calls'[a].seen = history
<1>1. ASSUME NEW a \in Actors, NEW op, NEW step, NEW seen, Begin(a, op, step, c, seen)
      PROVE  /\ \A q \in Actors : q # a => calls'[q] = calls[q]
             /\ calls'[a].op = op /\ calls'[a].step = step
             /\ calls'[a].change = c /\ calls'[a].seen = seen
  BY <1>1 DEF Begin, Idle, TypeInv, TypeOK
<1>2. "agent" \in Actors /\ "desk" \in Actors
  BY DEF Actors
<1>3. CASE Submit(c)
  BY <1>1, <1>2, <1>3 DEF Submit, Free
<1>4. CASE Approve(c)
  BY <1>1, <1>2, <1>4 DEF Approve, Free
<1>5. CASE Reject(c)
  BY <1>1, <1>2, <1>5 DEF Reject, Free
<1>6. CASE Undo(c)
  BY <1>1, <1>2, <1>6 DEF Undo, Free
<1> QED
  BY <1>3, <1>4, <1>5, <1>6

LEMMA CommandOrder ==
    ASSUME TypeInv, OrderInv, NEW c \in Changes, Submit(c) \/ Approve(c) \/ Reject(c) \/ Undo(c)
    PROVE  OrderInv'
<1>1. PICK a \in Actors :
            /\ \A q \in Actors : q # a => calls'[q] = calls[q]
            /\ calls'[a].change = c
            /\ \/ /\ Submit(c) /\ a = "agent" /\ calls'[a].op = "submit"
                  /\ calls'[a].step \in {"request", "reserve"}
               \/ /\ ~Submit(c) /\ a = "desk"
                  /\ calls'[a].op \in {"approve", "reject", "undo"}
                  /\ calls'[a].step \in {"reserve", "reject", "verify"}
                  /\ calls'[a].step = "reserve" => calls'[a].op = "approve"
  <2>1. CASE Submit(c)
    BY <2>1, CommandCall DEF Submit, Approve, Reject, Undo, TypeInv, Prepared
  <2>2. CASE ~Submit(c)
    BY <2>2, CommandCall
  <2> QED
    BY <2>1, <2>2
<1>2. file' = file /\ requests' = requests
  BY DEF Submit, Approve, Reject, Undo, metadata
<1>3. CASE Submit(c)
  <2>1. /\ payload[c] = Unread /\ payload \in [Changes -> Contents \cup {Unread}]
        /\ payload' = [payload EXCEPT ![c] = file] /\ file # Unread
    BY <1>3, UnreadAssumption DEF Submit, TypeInv, TypeOK
  <2>2. /\ \A d \in Changes : payload'[d] = IF d = c THEN file ELSE payload[d]
        /\ \A d \in Changes : payload'[d] # c /\ d # Unread
    BY <2>1, UnreadAssumption DEF OrderInv, Submitted, Contents
  <2>3. Submitted'
    BY <1>2, <2>1, <2>2 DEF OrderInv, Submitted
  <2>4. ASSUME NEW d \in Changes
        PROVE  \E T \in SUBSET Changes : Closed(T)' /\ d \notin T /\ Covers(T, payload[d])'
    <3>1. CASE d = c
      <4>0. PICK T \in SUBSET Changes : T = {e \in Changes : payload[e] # Unread}
        OBVIOUS
      <4>1. Closed(T)' /\ c \notin T
        BY <2>1, <2>2, <4>0 DEF OrderInv, Submitted, Closed
      <4>2. Covers(T, payload[c])'
        BY <2>2, <4>0 DEF OrderInv, Submitted, Covers
      <4> QED
        BY <3>1, <4>1, <4>2 DEF Covers
    <3>2. CASE d # c
      <4>1. PICK T \in SUBSET Changes : Closed(T) /\ d \notin T /\ Covers(T, payload[d])
        BY DEF OrderInv, Layered
      <4>2. Closed(T \ {c})' /\ Covers(T \ {c}, payload[d])'
        BY <2>2, <3>2, <4>1 DEF Closed, Covers
      <4> QED
        BY <4>1, <4>2
    <3> QED
      BY <3>1, <3>2
  <2>5. \A q \in Actors : Role(q)'
    BY <1>1, <1>2, <1>3, <2>1 DEF OrderInv, Role, Submitted, Subject, Making
  <2> QED
    BY <2>3, <2>4, <2>5 DEF OrderInv, Layered
<1>4. CASE ~Submit(c)
  <2>1. payload' = payload
    BY <1>4 DEF Approve, Reject, Undo, metadata
  <2>2. \A q \in Actors : Role(q)'
    BY <1>1, <1>2, <1>4 DEF OrderInv, Role, Subject, Making
  <2> QED
    BY <1>2, <2>1, <2>2 DEF OrderInv, Layered, Closed, Covers, Submitted
<1> QED
  BY <1>3, <1>4

LEMMA OrderInvStep == TypeInv /\ OrderInv /\ [Next]_vars => OrderInv'
<1> SUFFICES ASSUME TypeInv, OrderInv, [Next]_vars PROVE OrderInv'
  OBVIOUS
<1> USE DEF OrderInv, Layered, Closed, Covers, Submitted, Role, Subject, Making
<1>1. CASE Edit
  BY <1>1, ChangesAssumption DEF Edit, metadata
<1>2. CASE Crash
  BY <1>2, IdleFields, ChangesAssumption DEF Crash, metadata
<1>3. CASE UNCHANGED vars
  BY <1>3 DEF vars
<1> HIDE DEF OrderInv, Layered, Closed, Covers, Submitted, Role, Subject, Making
<1> QED
  BY <1>1, <1>2, <1>3, CommandOrder, StepOrder DEF Next

LEMMA OrderInvInit == Init => OrderInv
<1> SUFFICES ASSUME Init PROVE OrderInv
  OBVIOUS
<1>1. /\ \A c \in Changes : payload[c] = Unread
      /\ Unread \notin Changes /\ file \notin Changes /\ requests = {}
      /\ \A p \in Actors : calls[p] = Idle
  BY ChangesAssumption, UnreadAssumption DEF Init, Unwritten, Contents
<1>2. Layered
  <2>1. \A c \in Changes : Closed({}) /\ c \notin {} /\ Covers({}, payload[c])
    BY <1>1 DEF Closed, Covers
  <2> QED
    BY <2>1 DEF Layered
<1> QED
  BY <1>1, <1>2, IdleFields DEF OrderInv, Submitted, Role, Making

-----------------------------------------------------------------------------
(* The edits that the project holds or may hold again *)

Calm == Alone /\ {"crash", "remove"} \cap faults = {}

\* The steps of a call at which the content of its change is not in the file,
\* and those at which it was written and is not recorded yet.
Outside == {"request", "queue", "reserve", "prepare", "start", "check", "backup",
            "write", "rolledBack", "fail", "failed", "release", "undone"}
Writing == {"applied", "rollback", "revert"}

\* An edit that can be undone and is charged, and a change that may still be
\* written.
Standing(c) ==
    /\ c \in backups /\ history[c] \notin {"none", "failed", "undone"}
    /\ history[c] = "pending" => c \in contract.usage
Open(c) ==
    \/ /\ c \in requests /\ history[c] = "pending"
       /\ \A p \in Actors : ~(Subject(p) = c /\ calls[p].step \in Writing)
    \/ \E p \in Actors : Subject(p) = c /\ calls[p].step \in Outside

\* The edits in and below the file, and those that a call is about to write
\* over or to uncover.  Those whose write answered an error are among them,
\* though their record may say that they failed.
Layers(S) ==
    /\ Closed(S) /\ Covers(S, file)
    /\ \A c \in S : payload[c] # Unread
    /\ \A c \in S \ denied : Standing(c) /\ ~Open(c)
    /\ \A p \in Actors : calls[p].step \in Relying => Covers(S, payload[Subject(p)])

\* What is being applied is recorded as pending, and can be undone before it
\* is written.
Recording(p) ==
    /\ calls[p].step \in {"reserve", "prepare"} /\ calls[p].op # "submit" =>
            history[Subject(p)] = "pending"
    /\ calls[p].step \in {"check", "backup", "write"} => history[Subject(p)] = "pending"
    /\ calls[p].step = "write" => Subject(p) \in backups

EditsInv ==
    Calm => /\ \E S \in SUBSET Changes : Layers(S)
            /\ \A p \in Actors : Recording(p)

\* What a step of a call leaves to the other changes.
Spares(p) ==
    \A c \in Changes \ {Subject(p)} :
        /\ c \in backups => c \in backups'
        /\ history'[c] = history[c]
        /\ history[c] = "pending" /\ c \in contract.usage => c \in contract'.usage

LEMMA StepSpares ==
    ASSUME TypeInv, AloneInv, Alone, NEW p \in Actors, Step(p)
    PROVE  Spares(p)
<1>1. /\ Fresh(p) /\ history \in Histories /\ contract \in Contracts
      /\ calls[p].op # "none" => Subject(p) \in Changes
  BY DEF AloneInv, TypeInv, TypeOK, CallTypes, Subject
<1>2. ASSUME NEW status, calls[p].step # "discard", Saves(p, status)
      PROVE  \A c \in Changes \ {Subject(p)} : history'[c] = history[c]
  BY <1>1, <1>2, SavesFresh DEF Histories
<1>3. ASSUME NEW seen, NEW c \in Changes \ {Subject(p)}, c \in contract.usage
      PROVE  c \in Settled(contract, seen, {Subject(p)}).usage
  BY <1>1, <1>3, SettledMembers
<1> USE DEF At, metadata, Spares, Removed
<1>4. ASSUME LoadHistory(p) PROVE Spares(p)
  BY <1>1, <1>2, <1>4 DEF LoadHistory, CannotSave
<1>5. ASSUME LoadContract(p) PROVE Spares(p)
  BY <1>1, <1>2, <1>5 DEF LoadContract, CannotSave
<1>6. ASSUME Reserve(p) PROVE Spares(p)
  <2> DEFINE task == Settled(calls[p].task, calls[p].seen, Changes)
             charged == [task EXCEPT !.usage = @ \cup {Subject(p)},
                                     !.reserved = @ \cup {Subject(p)}]
  <2>1. /\ calls[p].task = contract /\ calls[p].seen = history
        /\ history' = history /\ backups' = backups
    BY <1>1, <1>6 DEF Reserve, Fresh
  <2>2. task \in Contracts
        /\ \A c \in Changes : history[c] = "pending" /\ c \in contract.usage => c \in task.usage
    BY <1>1, <2>1, SettledType, SettledMembers
  <2> HIDE DEF task
  <2>3. charged.usage = task.usage \cup {Subject(p)}
    BY <2>2 DEF Contracts
  <2> HIDE DEF charged
  <2>4. contract' = contract \/ contract' = charged
    BY <1>6 DEF Reserve, Upsert, CannotUpsert, task, charged
  <2> QED
    BY <2>1, <2>2, <2>3, <2>4
<1>7. ASSUME Release(p) PROVE Spares(p)
  BY <1>1, <1>3, <1>7 DEF Release, Upsert, CannotUpsert, Fresh
<1>8. ASSUME Advance(p) PROVE Spares(p)
  BY <1>1, <1>3, <1>8 DEF Advance, Fresh
<1>9. ASSUME Reconcile(p) PROVE Spares(p)
  BY <1>1, <1>3, <1>9 DEF Reconcile, Upsert, CannotUpsert, Fresh
<1>10. ASSUME WriteRequest(p) PROVE Spares(p)
  BY <1>1, <1>2, <1>10 DEF WriteRequest, CannotSave
<1>11. ASSUME QueueRecord(p) PROVE Spares(p)
  BY <1>1, <1>2, <1>11 DEF QueueRecord, CannotSave
<1>12. ASSUME PrepareVersion(p) PROVE Spares(p)
  BY <1>1, <1>2, <1>12 DEF PrepareVersion, CannotSave
<1>13. ASSUME StartRecord(p) PROVE Spares(p)
  BY <1>1, <1>2, <1>13 DEF StartRecord, CannotSave
<1>14. ASSUME CheckFile(p) PROVE Spares(p)
  BY <1>1, <1>2, <1>14 DEF CheckFile, CannotSave
<1>15. ASSUME WriteBackup(p) PROVE Spares(p)
  BY <1>1, <1>2, <1>15 DEF WriteBackup, CannotSave
<1>16. ASSUME WritePayload(p) PROVE Spares(p)
  BY <1>1, <1>2, <1>16 DEF WritePayload, CannotSave
<1>17. ASSUME RecordApplied(p) PROVE Spares(p)
  BY <1>1, <1>2, <1>17 DEF RecordApplied, CannotSave
<1>18. ASSUME CheckRollback(p) PROVE Spares(p)
  BY <1>1, <1>2, <1>18 DEF CheckRollback, CannotSave
<1>19. ASSUME Revert(p) PROVE Spares(p)
  BY <1>1, <1>2, <1>19 DEF Revert, CannotSave
<1>20. ASSUME RecordRolledBack(p) PROVE Spares(p)
  BY <1>1, <1>2, <1>20 DEF RecordRolledBack, CannotSave
<1>21. ASSUME Fail(p) PROVE Spares(p)
  BY <1>1, <1>2, <1>21 DEF Fail, CannotSave
<1>22. ASSUME RecordFailed(p) PROVE Spares(p)
  BY <1>1, <1>2, <1>22 DEF RecordFailed, CannotSave
<1>23. ASSUME LoadVersions(p) PROVE Spares(p)
  BY <1>1, <1>2, <1>23 DEF LoadVersions, CannotSave
<1>24. ASSUME SaveVersion(p) PROVE Spares(p)
  BY <1>1, <1>2, <1>24 DEF SaveVersion, CannotSave
<1>25. ASSUME SavePointer(p) PROVE Spares(p)
  BY <1>1, <1>2, <1>25 DEF SavePointer, CannotSave
<1>26. ASSUME UndoCommit(p) PROVE Spares(p)
  BY <1>1, <1>2, <1>26 DEF UndoCommit, CannotSave
<1>27. ASSUME Finish(p) PROVE Spares(p)
  BY <1>1, <1>2, <1>27 DEF Finish, CannotSave
<1>28. ASSUME RecordRejected(p) PROVE Spares(p)
  BY <1>1, <1>2, <1>28 DEF RecordRejected, CannotSave
<1>29. ASSUME Discard(p) PROVE Spares(p)
  BY <1>1, <1>2, <1>29 DEF Discard, CannotSave
<1>30. ASSUME Verify(p) PROVE Spares(p)
  BY <1>1, <1>2, <1>30 DEF Verify, CannotSave
<1>31. ASSUME Restore(p) PROVE Spares(p)
  BY <1>1, <1>2, <1>31 DEF Restore, CannotSave
<1>32. ASSUME RecordUndone(p) PROVE Spares(p)
  BY <1>1, <1>2, <1>32, SMTT(30) DEF RecordUndone, CannotSave
<1> QED
  BY <1>4, <1>5, <1>6, <1>7, <1>8, <1>9, <1>10, <1>11, <1>12, <1>13, <1>14, <1>15,
     <1>16, <1>17, <1>18, <1>19, <1>20, <1>21, <1>22, <1>23, <1>24, <1>25, <1>26,
     <1>27, <1>28, <1>29, <1>30, <1>31, <1>32
     DEF Step

\* What a step of a call does to the change it is about, whose content is or
\* was in the file.
Own(p) ==
    LET d == Subject(p) IN
    /\ d \in backups => d \in backups'
    /\ history'[d] = history[d] \/ history'[d] \in {"applied", "rejected"}
    /\ history[d] = "pending" /\ history'[d] = "pending" /\ d \in contract.usage =>
            d \in contract'.usage
    /\ calls'[p].step \in Outside =>
            calls[p].step \in {"revert", "restore"} /\ file' = payload[d]
    /\ calls[p].step \in Writing =>
            calls'[p].step \in Writing \cup Outside \/ history'[d] # "pending" \/ d \notin requests'

LEMMA StepOwn ==
    ASSUME TypeInv, AloneInv, OrderInv, Calm, NEW p \in Actors, Step(p),
           calls[p].step \notin Outside
    PROVE  Own(p)
<1>1. /\ Fresh(p) /\ Doing(p) /\ history \in Histories /\ contract \in Contracts
      /\ calls \in [Actors -> Calls] /\ calls[p].op # "none" /\ Subject(p) \in Changes
      /\ "remove" \notin faults
  BY StepCourse DEF Calm, AloneInv, TypeInv, TypeOK, CallTypes, Subject, Course
<1>2. ASSUME NEW status \in {"applied", "rejected"}, calls[p].step # "discard", Saves(p, status)
      PROVE  history'[Subject(p)] = status
  BY <1>1, <1>2, SavesFresh DEF Histories
<1>3. calls[p].step \in Writing /\ GiveUp(p) => Subject(p) \notin requests'
  <2>1. calls[p].op \in {"submit", "approve", "reject", "undo"}
    BY <1>1 DEF Calls
  <2>2. calls[p].op = "submit" /\ calls[p].step \in Writing => Subject(p) \notin requests
    BY DEF OrderInv, Role, Writing
  <2>3. calls[p].step \in Writing => calls[p].op \in {"submit", "approve"}
    BY SMTT(30) DEF OrderInv, Role, Writing, Making
  <2> QED
    BY <1>1, <2>1, <2>2, <2>3 DEF GiveUp, Removed
<1> USE IdleFields, Control
<1> USE DEF At, Went, Proceeded, Ended, Steps, metadata, EndUndo, Outside, Writing, Own
<1>4. ASSUME LoadHistory(p) PROVE Own(p)
  <2>1. /\ history' = history /\ backups' = backups /\ contract' = contract
        /\ calls'[p].step = calls[p].step
    BY <1>4, Fields DEF LoadHistory
  <2> QED
    BY <2>1
<1>5. ASSUME LoadContract(p) PROVE Own(p)
  BY <1>1, <1>5, Fields, ZenonT(60) DEF LoadContract
<1>6. ASSUME Reserve(p) PROVE Own(p)
  BY <1>1, <1>2, <1>3, <1>6 DEF Reserve, CannotSave
<1>7. ASSUME Release(p) PROVE Own(p)
  BY <1>1, <1>2, <1>3, <1>7 DEF Release, CannotSave
<1>8. ASSUME Advance(p) PROVE Own(p)
  BY <1>1, <1>8, SettledMembers DEF Advance, Fresh, Doing, Made
<1>9. ASSUME Reconcile(p) PROVE Own(p)
  BY <1>1, <1>9, SettledMembers DEF Reconcile, Upsert, CannotUpsert, Fresh, Doing, Made
<1>10. ASSUME WriteRequest(p) PROVE Own(p)
  BY <1>1, <1>2, <1>3, <1>10 DEF WriteRequest, CannotSave
<1>11. ASSUME QueueRecord(p) PROVE Own(p)
  BY <1>1, <1>2, <1>3, <1>11 DEF QueueRecord, CannotSave
<1>12. ASSUME PrepareVersion(p) PROVE Own(p)
  BY <1>1, <1>12, Fields DEF PrepareVersion
<1>13. ASSUME StartRecord(p) PROVE Own(p)
  BY <1>1, <1>2, <1>3, <1>13 DEF StartRecord, CannotSave
<1>14. ASSUME CheckFile(p) PROVE Own(p)
  BY <1>1, <1>2, <1>3, <1>14 DEF CheckFile, CannotSave
<1>15. ASSUME WriteBackup(p) PROVE Own(p)
  BY <1>1, <1>2, <1>3, <1>15 DEF WriteBackup, CannotSave
<1>16. ASSUME WritePayload(p) PROVE Own(p)
  BY <1>1, <1>2, <1>3, <1>16 DEF WritePayload, CannotSave
<1>17. ASSUME RecordApplied(p) PROVE Own(p)
  BY <1>1, <1>2, <1>3, <1>17 DEF RecordApplied, CannotSave
<1>18. ASSUME CheckRollback(p) PROVE Own(p)
  BY <1>1, <1>2, <1>3, <1>18 DEF CheckRollback, CannotSave
<1>19. ASSUME Revert(p) PROVE Own(p)
  BY <1>1, <1>2, <1>3, <1>19 DEF Revert, PutBack, CannotPutBack, CannotSave
<1>20. ASSUME RecordRolledBack(p) PROVE Own(p)
  BY <1>1, <1>2, <1>3, <1>20 DEF RecordRolledBack, CannotSave
<1>21. ASSUME Fail(p) PROVE Own(p)
  BY <1>1, <1>2, <1>3, <1>21 DEF Fail, CannotSave
<1>22. ASSUME RecordFailed(p) PROVE Own(p)
  BY <1>1, <1>2, <1>3, <1>22, SMTT(30) DEF RecordFailed, CannotSave
<1>23. ASSUME LoadVersions(p) PROVE Own(p)
  BY <1>1, <1>23, Fields, ZenonT(60) DEF LoadVersions
<1>24. ASSUME SaveVersion(p) PROVE Own(p)
  BY <1>1, <1>2, <1>3, <1>24 DEF SaveVersion, CannotSave
<1>25. ASSUME SavePointer(p) PROVE Own(p)
  BY <1>1, <1>2, <1>3, <1>25 DEF SavePointer, CannotSave
<1>26. ASSUME UndoCommit(p) PROVE Own(p)
  BY <1>1, <1>26, Fields DEF UndoCommit
<1>27. ASSUME Finish(p) PROVE Own(p)
  BY <1>1, <1>27 DEF Finish, Answer
<1>28. ASSUME RecordRejected(p) PROVE Own(p)
  BY <1>1, <1>2, <1>3, <1>28 DEF RecordRejected, CannotSave
<1>29. ASSUME Discard(p) PROVE Own(p)
  BY <1>1, <1>2, <1>3, <1>29 DEF Discard, CannotSave
<1>30. ASSUME Verify(p) PROVE Own(p)
  BY <1>1, <1>2, <1>3, <1>30 DEF Verify, CannotSave
<1>31. ASSUME Restore(p) PROVE Own(p)
  BY <1>1, <1>2, <1>3, <1>31 DEF Restore, PutBack, CannotPutBack, CannotSave
<1>32. ASSUME RecordUndone(p) PROVE Own(p)
  BY <1>1, <1>2, <1>3, <1>32 DEF RecordUndone, CannotSave
<1> QED
  BY <1>4, <1>5, <1>6, <1>7, <1>8, <1>9, <1>10, <1>11, <1>12, <1>13, <1>14, <1>15,
     <1>16, <1>17, <1>18, <1>19, <1>20, <1>21, <1>22, <1>23, <1>24, <1>25, <1>26,
     <1>27, <1>28, <1>29, <1>30, <1>31, <1>32
     DEF Step

\* A call that records, or that goes on from a record.
LEMMA StepRecording ==
    ASSUME TypeInv, AloneInv, OrderInv, Calm, NEW p \in Actors, Step(p), Recording(p)
    PROVE  Recording(p)'
<1>1. /\ Fresh(p) /\ history \in Histories /\ calls \in [Actors -> Calls]
      /\ calls[p].op # "none" /\ Subject(p) \in Changes /\ Role(p)
      /\ calls[p].step \in {"fail", "prepare"} => calls[p].op \in {"submit", "approve"}
  BY StepCourse
     DEF Calm, AloneInv, TypeInv, TypeOK, CallTypes, Subject, Course, OrderInv, Role, Making
<1>2. CASE calls'[p].step \notin {"reserve", "prepare", "check", "backup", "write"}
  BY <1>2 DEF Recording
<1>3. CASE calls'[p].step \in {"reserve", "prepare", "check", "backup", "write"}
  <2>1. /\ Course(p) /\ Subject(p)' = Subject(p)
        /\ calls'[p].op = calls[p].op
    BY <1>3, StepCourse, IdleFields DEF Course, Subject
  <2>2. CASE StartRecord(p)
    <3>1. /\ Saves(p, "pending") /\ calls[p].step = "start"
          /\ calls'[p].step = "check"
      BY <1>3, <2>2, Control DEF StartRecord, At, Proceeded, Steps
    <3>2. history'[Subject(p)] = "pending"
      BY <1>1, <3>1, SavesFresh DEF Histories
    <3> QED
      BY <2>1, <3>1, <3>2 DEF Recording
  <2> QED
    BY <1>1, <1>3, <2>1, <2>2 DEF Course, Recording
<1> QED
  BY <1>2, <1>3

\* What a call that may still write its change does not disturb is carried on.
LEMMA Carried ==
    ASSUME TypeInv, AloneInv, Calm, NEW p \in Actors, Step(p),
           NEW d \in Changes, d = Subject(p),
           NEW S \in SUBSET Changes, Layers(S), NEW U, U \subseteq S \cup {d},
           Closed(U), Covers(U, file'), d \in U \ denied' => Standing(d)' /\ ~Open(d)',
           calls'[p].step \in Relying => Covers(U, payload[d])
    PROVE  Layers(U)'
<1>1. /\ Course(p) /\ Spares(p) /\ Alone
      /\ \A q \in Actors : q # p => Subject(q) = Root
      /\ \A q \in Actors : q # p => calls'[q] = Idle
      /\ Subject(p)' \in {d, Root} /\ Root \notin Changes
      /\ calls'[p].step \in Relying => Subject(p)' = d
      /\ payload[d] # Unread
  BY ChangesAssumption, StepCourse, StepSpares, StepLocal, IdleFields
     DEF Calm, AloneInv, Serial, Course, Subject, Relying, TypeInv, CallTypes
<1>2. Closed(U)' /\ Covers(U, file)' /\ \A c \in U : payload'[c] # Unread
  BY <1>1 DEF Course, Closed, Covers, Layers
<1>3. ASSUME NEW c \in U \ denied', c # d PROVE Standing(c)' /\ ~Open(c)'
  <2>1. c \in S \ denied /\ Standing(c) /\ ~Open(c) /\ c \in Changes
    BY <1>1, <1>3 DEF Layers, Course
  <2>2. Standing(c)'
    BY <1>1, <1>3, <2>1 DEF Spares, Standing
  <2>3. ~(c \in requests' /\ history'[c] = "pending")
    BY <1>1, <1>3, <2>1 DEF Spares, Course, Open
  <2>4. \A q \in Actors : Subject(q)' # c
    BY <1>1, <1>3, <2>1, IdleFields DEF Subject
  <2> QED
    BY <2>2, <2>3, <2>4 DEF Open
<1>4. ASSUME NEW q \in Actors, calls'[q].step \in Relying
      PROVE  Covers(U, payload[Subject(q)])'
  <2>1. q = p
    BY <1>1, <1>4, IdleFields DEF Relying
  <2> QED
    BY <1>1, <1>4, <2>1 DEF Course, Covers
<1> QED
  BY <1>2, <1>3, <1>4 DEF Layers

\* The edit that a call is about is below the file after the step, as before it.
LEMMA SubjectStays ==
    ASSUME TypeInv, AloneInv, OrderInv, Calm, NEW p \in Actors, Step(p),
           NEW d \in Changes, d = Subject(p),
           NEW S, Layers(S), d \in S \ denied, calls'[p].step \notin Outside
    PROVE  Standing(d)' /\ ~Open(d)'
<1>1. /\ Standing(d) /\ ~Open(d) /\ calls[p].step \notin Outside
      /\ \A q \in Actors : q # p => calls'[q] = Idle /\ calls[q] = Idle
      /\ Course(p) /\ Own(p) /\ Root \notin Changes
  <2>1. Standing(d) /\ ~Open(d)
    BY DEF Layers
  <2>2. calls[p].step \notin Outside
    BY <2>1 DEF Open
  <2>3. calls[p] # Idle
    BY StepLocal
  <2> QED
    BY <2>1, <2>2, <2>3, ChangesAssumption, StepLocal, StepCourse, StepOwn
       DEF Calm, AloneInv, Serial
<1>2. Standing(d)'
  BY <1>1 DEF Own, Standing
<1>3. ASSUME d \in requests', history'[d] = "pending"
      PROVE  Subject(p)' = d /\ calls'[p].step \in Writing
  <2>1. history[d] = "pending" /\ d \in requests
    BY <1>1, <1>3 DEF Own, Course, Outside
  <2>2. calls[p].step \in Writing
    BY <1>1, <2>1, IdleFields DEF Open, Writing
  <2>3. calls'[p].step \in Writing
    BY <1>1, <1>3, <2>2 DEF Own
  <2> QED
    BY <1>1, <2>3, IdleFields DEF Course, Subject, Writing
<1>4. \A q \in Actors : calls'[q].step \notin Outside
  BY <1>1, IdleFields DEF Outside
<1>5. ~Open(d)'
  BY <1>3, <1>4 DEF Open
<1> QED
  BY <1>2, <1>5

LEMMA StepEdits ==
    ASSUME TypeInv, AloneInv, OrderInv, EditsInv, NEW p \in Actors, Step(p)
    PROVE  EditsInv'
<1> SUFFICES ASSUME Calm' PROVE (\E S \in SUBSET Changes : Layers(S))'
                                /\ \A q \in Actors : Recording(q)'
  BY DEF EditsInv
<1>1. /\ Calm /\ Course(p)
      /\ calls[p].step \notin Outside => Own(p)
      /\ \A q \in Actors : q # p => calls'[q] = Idle
  <2>1. Calm
    BY StepLocal DEF Calm, Alone
  <2> QED
    BY <2>1, StepLocal, StepCourse, StepOwn DEF Calm, AloneInv, Serial
<1>2. \A q \in Actors : Recording(q)'
  <2>1. Recording(p)'
    BY <1>1, StepRecording DEF EditsInv
  <2> QED
    BY <1>1, <2>1, IdleFields DEF Recording
<1>3. PICK S \in SUBSET Changes : Layers(S)
  BY <1>1 DEF EditsInv
<1>4. PICK d \in Changes : d = Subject(p)
  BY <1>1 DEF Course, TypeInv, CallTypes, Subject
<1>5. calls[p].step \in Outside => d \notin S \ denied
  BY <1>3, <1>4 DEF Layers, Open
<1>6. calls'[p].step \in Relying => Covers(S, payload[d])
  BY <1>1, <1>3, <1>4, <1>5 DEF Course, Layers, Covers, Closed, Outside, Relying
<1>7. CASE /\ calls[p].step = "write" /\ calls'[p].step = "applied" /\ file' = d
           /\ UNCHANGED <<history, backups, contract>>
  <2>1. /\ history' = history /\ backups' = backups /\ contract' = contract
        /\ Subject(p)' = d
    BY <1>1, <1>4, <1>7, IdleFields DEF Course, Subject
  <2>2. Closed(S \cup {d}) /\ Covers(S \cup {d}, file')
    BY <1>3, <1>4, <1>7 DEF Layers, Closed, Covers, Relying
  <2>3. Standing(d)'
    BY <1>1, <1>4, <1>7, <2>1
       DEF EditsInv, Recording, Standing, AloneInv, Doing, Charged, Calm
  <2>4. ~Open(d)'
    BY <1>1, <1>7, <2>1, IdleFields DEF Open, Writing, Outside
  <2>5. Layers(S \cup {d})'
    BY <1>1, <1>3, <1>4, <1>7, <2>2, <2>3, <2>4, Carried DEF Relying
  <2> QED
    BY <1>2, <2>5
<1>8. CASE calls[p].step \in {"revert", "restore"} /\ file' = payload[d]
  <2>1. PICK T \in SUBSET Changes : Closed(T) /\ d \notin T /\ Covers(T, payload[d])
    BY DEF OrderInv, Layered
  <2>2. Closed(S \cap T) /\ Covers(S \cap T, file') /\ d \notin S \cap T
    BY <1>3, <1>4, <1>8, <2>1 DEF Layers, Closed, Covers, Relying
  <2>3. calls'[p].step \notin Relying
    BY <1>1, <1>8 DEF Course
  <2>4. Layers(S \cap T)'
    BY <1>1, <1>3, <1>4, <2>2, <2>3, Carried
  <2> QED
    BY <1>2, <2>4
<1>9. CASE denied \subseteq denied' /\ (file' = file \/ file' \notin Changes)
  <2>1. Covers(S, file') /\ Closed(S)
    BY <1>3, <1>9 DEF Layers, Covers
  <2>2. CASE d \notin S \ denied
    <3>1. d \notin S \ denied'
      BY <1>9, <2>2
    <3> QED
      BY <1>1, <1>2, <1>3, <1>4, <1>6, <2>1, <3>1, Carried
  <2>3. CASE d \in S \ denied /\ calls'[p].step \notin Outside
    BY <1>1, <1>2, <1>3, <1>4, <1>6, <2>1, <2>3, Carried, SubjectStays
  <2>4. CASE d \in S \ denied /\ calls'[p].step \in Outside
    BY <1>1, <1>4, <1>5, <1>8, <2>4 DEF Own
  <2> QED
    BY <2>2, <2>3, <2>4
\* A write that answers an error with its change in place.
<1>10. CASE /\ calls[p].step = "write" /\ calls'[p].step = "fail"
            /\ file' = d /\ d \in denied'
  <2>1. Closed(S \cup {d}) /\ Covers(S \cup {d}, file')
    BY <1>3, <1>4, <1>10 DEF Layers, Closed, Covers, Relying
  <2>2. Layers(S \cup {d})'
    BY <1>1, <1>3, <1>4, <1>10, <2>1, Carried DEF Relying
  <2> QED
    BY <1>2, <2>2
<1> QED
  BY <1>1, <1>4, <1>7, <1>8, <1>9, <1>10 DEF Course

LEMMA CommandEdits ==
    ASSUME TypeInv, OrderInv, EditsInv, NEW c \in Changes,
           Submit(c) \/ Approve(c) \/ Reject(c) \/ Undo(c)
    PROVE  EditsInv'
<1> SUFFICES ASSUME Calm' PROVE (\E S \in SUBSET Changes : Layers(S))'
                                /\ \A q \in Actors : Recording(q)'
  BY DEF EditsInv
<1>1. /\ file' = file /\ history' = history /\ requests' = requests /\ backups' = backups
      /\ contract' = contract /\ denied' = denied /\ Calm /\ Root \notin Changes
      /\ \A d \in Changes : payload'[d] = payload[d] \/ (d = c /\ Submit(c))
  BY ChangesAssumption
     DEF Calm, Alone, Submit, Approve, Reject, Undo, metadata, TypeInv, TypeOK
<1>2. PICK S \in SUBSET Changes : Layers(S)
  BY <1>1 DEF EditsInv
<1>3. PICK a \in Actors :
        /\ \A q \in Actors : q # a => calls'[q] = Idle
        /\ \A q \in Actors : calls[q] = Idle
        /\ calls'[a].change = c
        /\ calls'[a].step \in {"request", "reserve", "reject", "verify"}
        /\ calls'[a].step = "reserve" /\ calls'[a].op # "submit" => Approve(c)
        /\ calls'[a].step \in {"request", "reserve"} => Submit(c) \/ Approve(c)
  BY <1>1, CommandCall DEF Calm
<1>4. \A q \in Actors : Recording(q)'
  <2>1. Recording(a)'
    BY <1>1, <1>3 DEF Recording, Subject, Approve
  <2> QED
    BY <1>3, <2>1, IdleFields DEF Recording
<1>5. (Submit(c) => c \notin S) /\ (Approve(c) => c \notin S \ denied)
  <2>1. Submit(c) => payload[c] = Unread
    BY DEF Submit
  <2>2. Approve(c) => Open(c)
    BY <1>1, <1>3, IdleFields DEF Approve, Open, Subject
  <2> QED
    BY <1>2, <2>1, <2>2 DEF Layers
<1>6. Closed(S)' /\ Covers(S, file)' /\ \A d \in S : payload'[d] # Unread
  BY <1>1, <1>2, <1>5 DEF Layers, Closed, Covers
<1>7. ASSUME NEW d \in S \ denied PROVE Standing(d)' /\ ~Open(d)'
  <2>1. Standing(d) /\ ~Open(d)
    BY <1>2 DEF Layers
  <2>2. ~(d \in requests /\ history[d] = "pending")
    BY <1>1, <1>3, <2>1, IdleFields DEF Open, Writing, Subject
  <2>3. \A q \in Actors : Subject(q)' = d => calls'[q].step \notin Outside
    BY <1>1, <1>3, <1>5, IdleFields DEF Subject, Outside
  <2> QED
    BY <1>1, <2>1, <2>2, <2>3 DEF Standing, Open
<1>8. \A q \in Actors : calls'[q].step \notin Relying
  BY <1>3, IdleFields DEF Relying
<1> QED
  BY <1>1, <1>4, <1>6, <1>7, <1>8 DEF Layers

LEMMA EditsInvStep ==
    TypeInv /\ AloneInv /\ OrderInv /\ EditsInv /\ [Next]_vars => EditsInv'
<1> SUFFICES ASSUME TypeInv, AloneInv, OrderInv, EditsInv, [Next]_vars PROVE EditsInv'
  OBVIOUS
<1>1. CASE Edit
  <2>1. /\ UNCHANGED <<history, backups, calls, metadata>>
        /\ file' \notin Changes
    BY <1>1, ChangesAssumption DEF Edit
  <2>2. \A S \in SUBSET Changes : Layers(S) => Layers(S)'
    BY <2>1 DEF Layers, Closed, Covers, Standing, Open, Subject, metadata
  <2> QED
    BY <2>1, <2>2 DEF EditsInv, Calm, Alone, Recording, Subject, metadata
<1>2. CASE Crash
  BY <1>2 DEF Crash, EditsInv, Calm, metadata
<1>3. CASE UNCHANGED vars
  BY <1>3
     DEF vars, EditsInv, Calm, Alone, Layers, Closed, Covers, Standing, Open, Recording, Subject
<1> QED
  BY <1>1, <1>2, <1>3, CommandEdits, StepEdits DEF Next

LEMMA EditsInvInit == Init => EditsInv
<1> SUFFICES ASSUME Init PROVE EditsInv
  OBVIOUS
<1>1. file \notin Changes /\ \A p \in Actors : calls[p] = Idle
  BY ChangesAssumption DEF Init
<1>2. Layers({})
  BY <1>1, IdleFields DEF Layers, Closed, Covers, Relying
<1>3. \A p \in Actors : Recording(p)
  BY <1>1, IdleFields DEF Recording
<1> QED
  BY <1>2, <1>3 DEF EditsInv

LEMMA EditsAlways == Spec => []EditsInv
<1>1. Init => TypeInv /\ AloneInv /\ OrderInv /\ EditsInv
  BY TypeInvInit, AloneInvInit, OrderInvInit, EditsInvInit
<1>2. TypeInv /\ AloneInv /\ OrderInv /\ EditsInv /\ [Next]_vars
        => (TypeInv /\ AloneInv /\ OrderInv /\ EditsInv)'
  BY TypeInvStep, AloneInvStep, OrderInvStep, EditsInvStep
<1> QED
  BY <1>1, <1>2, PTL DEF Spec

\* While the project holds an edit, it can be undone, and its record does not
\* say that it is not there, unless its write answered an error.
THEOREM EditsAreKept == Spec => []EditsKept
<1>1. EditsInv => EditsKept
  BY DEF EditsInv, EditsKept, Calm, Layers, Covers, Standing
<1> QED
  BY <1>1, EditsAlways, PTL

\* An edit that a failure left in the project as pending stays charged, unless
\* its write answered an error.
THEOREM EditsStayCharged == Spec => []EditsCharged
<1>1. EditsInv => EditsCharged
  BY DEF EditsInv, EditsCharged, Calm, Layers, Covers, Standing
<1> QED
  BY <1>1, EditsAlways, PTL
-----------------------------------------------------------------------------
(* What was answered, and the copies of the history *)

Done == {"rejected", "applied", "undone"}

\* What a step of a call answers and records, and what it has loaded.
Recorder(p) ==
    LET d == Subject(p)
        s == calls[p].step
    IN
    /\ calls'[p].seen \in {Unread, calls[p].seen, history}
    /\ \/ history' = history
       \/ Saves(p, "pending") /\ s = "queue" /\ calls'[p] = Idle
       \/ Saves(p, "pending") /\ s = "start"
       \/ Saves(p, "applied") /\ s = "applied" /\ calls'[p].step = "commit"
       \/ Saves(p, "failed") /\ s \in {"failed", "rolledBack"}
       \/ Saves(p, "rejected") /\ s = "reject"
       \/ Saves(p, "undone") /\ s = "undone"
    /\ \A c \in Changes \ {d} : told'[c] = told[c]
    /\ calls'[p] = Idle \/ told' = told
    /\ \/ told'[d] = told[d] \/ told'[d] \notin Done
       \/ s = "finish" /\ told'[d] = "applied"
       \/ s = "discard" /\ told'[d] = "rejected"
       \/ s = "undone" /\ told'[d] = "undone" /\ Saves(p, "undone")
    /\ "remove" \notin faults /\ (s = "discard" \/ (s = "finish" /\ calls[p].op = "approve")) =>
            d \notin requests'
    /\ calls'[p].step = "discard" => s = "reject" /\ Saves(p, "rejected")

LEMMA StepRecorder ==
    ASSUME TypeInv, NEW p \in Actors, Step(p)
    PROVE  Recorder(p)
<1>1. /\ calls \in [Actors -> Calls] /\ calls[p].op # "none" /\ Subject(p) \in Changes
      /\ told \in [Changes -> {"nothing", "queued", "applied", "rejected", "undone", "failed"}]
  BY StepCourse DEF Course, TypeInv, TypeOK, CallTypes, Subject
<1>2. /\ \A answer : Answer(p, answer) =>
            /\ \A c \in Changes \ {Subject(p)} : told'[c] = told[c]
            /\ told'[Subject(p)] = answer
      /\ AnswerError(p) =>
            /\ \A c \in Changes \ {Subject(p)} : told'[c] = told[c]
            /\ told'[Subject(p)] \in {told[Subject(p)], "failed"}
      /\ \A answer : Answer(p, answer) =>
            calls'[p] = Idle /\ calls'[p].seen = Unread /\ calls'[p].step = "none"
      /\ AnswerError(p) =>
            calls'[p] = Idle /\ calls'[p].seen = Unread /\ calls'[p].step = "none"
  BY <1>1, IdleFields DEF Answer, AnswerError
<1> USE Control
<1> USE DEF At, Went, Proceeded, Steps, metadata, EndUndo, GiveUp, Removed, CannotSave, Done
<1>3. ASSUME LoadHistory(p) PROVE Recorder(p)
  <2>1. calls'[p].seen = history
    <3>1. calls[p] \in Calls /\ calls'[p] = [calls[p] EXCEPT !.seen = history]
      BY <1>1, <1>3 DEF LoadHistory
    <3>2. [calls[p] EXCEPT !.seen = history].seen = history
      BY <3>1 DEF Calls
    <3> QED
      BY <3>1, <3>2
  <2>2. /\ history' = history /\ told' = told
        /\ calls[p].step \notin {"finish", "discard"}
    BY <1>3 DEF LoadHistory, Persisting
  <2>3. calls'[p].step # "discard"
    BY <1>3, Fields DEF Persisting, Budgeting
  <2> QED
    BY <2>1, <2>2, <2>3 DEF Recorder
<1>4. ASSUME LoadContract(p) PROVE Recorder(p)
  <2>1. calls'[p].seen = history
    <3>1. calls[p] \in Calls /\ calls'[p] = [calls[p] EXCEPT !.task = contract, !.seen = history]
      BY <1>1, <1>4, ZenonT(60) DEF LoadContract
    <3>2. [calls[p] EXCEPT !.task = contract, !.seen = history].seen = history
      BY <3>1, SMTT(30) DEF Calls
    <3> QED
      BY <3>1, <3>2, SMTT(30)
  <2>2. /\ history' = history /\ told' = told
        /\ calls[p].step \notin {"finish", "discard"}
    BY <1>4 DEF LoadContract, Budgeting
  <2>3. calls'[p].step # "discard"
    BY <1>4, Fields, SMTT(30) DEF Persisting, Budgeting
  <2> QED
    BY <2>1, <2>2, <2>3 DEF Recorder
<1>5. ASSUME Reserve(p) PROVE Recorder(p)
  BY <1>1, <1>2, <1>5 DEF Reserve, Recorder
<1>6. ASSUME Release(p) PROVE Recorder(p)
  BY <1>1, <1>2, <1>6 DEF Release, Recorder
<1>7. ASSUME Advance(p) PROVE Recorder(p)
  BY <1>1, <1>2, <1>7 DEF Advance, Recorder
<1>8. ASSUME Reconcile(p) PROVE Recorder(p)
  BY <1>1, <1>2, <1>8 DEF Reconcile, Recorder
<1>9. ASSUME WriteRequest(p) PROVE Recorder(p)
  BY <1>1, <1>2, <1>9 DEF WriteRequest, Recorder
<1>10. ASSUME QueueRecord(p) PROVE Recorder(p)
  BY <1>1, <1>2, <1>10 DEF QueueRecord, Recorder
<1>11. ASSUME PrepareVersion(p) PROVE Recorder(p)
  BY <1>1, <1>2, <1>11, Fields DEF PrepareVersion, Recorder, Calls, Go, Persisting, Budgeting
<1>12. ASSUME StartRecord(p) PROVE Recorder(p)
  BY <1>1, <1>2, <1>12 DEF StartRecord, Recorder
<1>13. ASSUME CheckFile(p) PROVE Recorder(p)
  BY <1>1, <1>2, <1>13 DEF CheckFile, Recorder
<1>14. ASSUME WriteBackup(p) PROVE Recorder(p)
  BY <1>1, <1>2, <1>14 DEF WriteBackup, Recorder
<1>15. ASSUME WritePayload(p) PROVE Recorder(p)
  BY <1>1, <1>2, <1>15 DEF WritePayload, Recorder
<1>16. ASSUME RecordApplied(p) PROVE Recorder(p)
  BY <1>1, <1>2, <1>16 DEF RecordApplied, Recorder
<1>17. ASSUME CheckRollback(p) PROVE Recorder(p)
  BY <1>1, <1>2, <1>17 DEF CheckRollback, Recorder
<1>18. ASSUME Revert(p) PROVE Recorder(p)
  BY <1>1, <1>2, <1>18 DEF Revert, Recorder
<1>19. ASSUME RecordRolledBack(p) PROVE Recorder(p)
  BY <1>1, <1>2, <1>19 DEF RecordRolledBack, Recorder
<1>20. ASSUME Fail(p) PROVE Recorder(p)
  BY <1>1, <1>2, <1>20 DEF Fail, Recorder
<1>21. ASSUME RecordFailed(p) PROVE Recorder(p)
  BY <1>1, <1>2, <1>21 DEF RecordFailed, Recorder
<1>22. ASSUME LoadVersions(p) PROVE Recorder(p)
  <2>1. calls'[p].seen = calls[p].seen /\ calls'[p].step # "discard"
    BY <1>22, Fields
  <2>2. /\ history' = history /\ told' = told
        /\ calls[p].step \notin {"finish", "discard"}
    BY <1>22, ZenonT(60) DEF LoadVersions, Go
  <2> QED
    BY <2>1, <2>2 DEF Recorder
<1>23. ASSUME SaveVersion(p) PROVE Recorder(p)
  BY <1>1, <1>2, <1>23 DEF SaveVersion, Recorder
<1>24. ASSUME SavePointer(p) PROVE Recorder(p)
  BY <1>1, <1>2, <1>24 DEF SavePointer, Recorder
<1>25. ASSUME UndoCommit(p) PROVE Recorder(p)
  BY <1>1, <1>2, <1>25, Fields DEF UndoCommit, Recorder, Calls, Go, Persisting, Budgeting
<1>26. ASSUME Finish(p) PROVE Recorder(p)
  BY <1>1, <1>2, <1>26 DEF Finish, Recorder
<1>27. ASSUME RecordRejected(p) PROVE Recorder(p)
  BY <1>1, <1>2, <1>27 DEF RecordRejected, Recorder
<1>28. ASSUME Discard(p) PROVE Recorder(p)
  BY <1>1, <1>2, <1>28 DEF Discard, Recorder
<1>29. ASSUME Verify(p) PROVE Recorder(p)
  BY <1>1, <1>2, <1>29 DEF Verify, Recorder
<1>30. ASSUME Restore(p) PROVE Recorder(p)
  BY <1>1, <1>2, <1>30 DEF Restore, Recorder
<1>31. ASSUME RecordUndone(p) PROVE Recorder(p)
  BY <1>1, <1>2, <1>31 DEF RecordUndone, Recorder
<1> QED
  BY <1>3, <1>4, <1>5, <1>6, <1>7, <1>8, <1>9, <1>10, <1>11, <1>12, <1>13, <1>14,
     <1>15, <1>16, <1>17, <1>18, <1>19, <1>20, <1>21, <1>22, <1>23, <1>24, <1>25,
     <1>26, <1>27, <1>28, <1>29, <1>30, <1>31
     DEF Step

-----------------------------------------------------------------------------
(* The answers while nobody overlaps *)

AnswersInv ==
    Alone =>
        /\ \A p \in Actors : calls[p].step = "discard" => history[Subject(p)] = "rejected"
        /\ \A c \in Changes : told[c] \in {"rejected", "undone"} => history[c] = told[c]

LEMMA StepAnswers ==
    ASSUME TypeInv, AloneInv, AnswersInv, NEW p \in Actors, Step(p)
    PROVE  AnswersInv'
<1> SUFFICES ASSUME Alone'
             PROVE  /\ \A q \in Actors :
                            calls'[q].step = "discard" => history'[Subject(q)'] = "rejected"
                    /\ \A c \in Changes :
                            told'[c] \in {"rejected", "undone"} => history'[c] = told'[c]
  BY DEF AnswersInv, Subject
<1>1. /\ Alone /\ Recorder(p) /\ Fresh(p) /\ Doing(p) /\ history \in Histories
      /\ \A q \in Actors : q # p => calls'[q] = Idle
  BY StepLocal, StepRecorder DEF Alone, AloneInv, Serial, TypeInv, TypeOK
<1>2. PICK d \in Changes : d = Subject(p)
  BY StepCourse DEF Course, TypeInv, CallTypes, Subject
<1>3. ASSUME NEW status, calls[p].step # "discard", Saves(p, status)
      PROVE  /\ history'[d] = status
             /\ \A c \in Changes \ {d} : history'[c] = history[c]
  BY <1>1, <1>2, <1>3, SavesFresh DEF Histories
<1>4. ASSUME NEW c \in Changes, told'[c] \in {"rejected", "undone"}
      PROVE  history'[c] = told'[c]
  <2>1. CASE c # d
    BY <1>1, <1>2, <1>3, <1>4, <2>1 DEF Recorder, AnswersInv
  <2>2. CASE c = d /\ told'[d] = told[d]
    <3>1. history[d] \in {"rejected", "undone"}
      BY <1>1, <1>4, <2>2 DEF AnswersInv
    <3>2. history' = history
      BY <1>1, <1>2, <3>1 DEF Recorder, Doing, Making, Made, Unmade
    <3> QED
      BY <1>1, <1>4, <2>2, <3>2 DEF AnswersInv
  <2>3. CASE c = d /\ told'[d] # told[d]
    BY <1>1, <1>2, <1>3, <1>4, <2>3 DEF Recorder, AnswersInv, Done, Saves
  <2> QED
    BY <2>1, <2>2, <2>3
<1>5. calls'[p].step = "discard" => history'[Subject(p)'] = "rejected"
  <2> SUFFICES ASSUME calls'[p].step = "discard" PROVE history'[Subject(p)'] = "rejected"
    OBVIOUS
  <2>1. Subject(p)' = d
    BY <1>2, StepCourse, IdleFields DEF Course, Subject
  <2> QED
    BY <1>1, <1>3, <2>1 DEF Recorder
<1> QED
  BY <1>1, <1>4, <1>5, IdleFields

-----------------------------------------------------------------------------
(* The copies of the history while the agent and the desk overlap *)

\* The steps of an application before its record says applied, and after that;
\* nothing goes back unless a save fails.
Early == {"reserve", "prepare", "start", "check", "backup", "write", "applied",
          "fail", "failed", "release"}
Late == {"commit", "saveVersion", "savePointer", "advance", "finish"}
Placed(p) ==
    /\ calls[p].op = "submit" => calls[p].step \in {"request", "queue"} \cup Early \cup Late
    /\ calls[p].op = "approve" => calls[p].step \in (Early \ {"start"}) \cup Late
    /\ calls[p].op = "reject" => calls[p].step \in {"reject", "discard"}
    /\ calls[p].op = "undo" => calls[p].step \in {"verify", "restore", "undone"}

\* A version file that a crash left with a part of a text stops every
\* application before it writes to the project.
Loadable(p) == torn # {} => calls[p].step \notin Versioned

LEMMA StepLoadable ==
    ASSUME TypeInv, ~Fails, NEW p \in Actors, Loadable(p), Step(p)
    PROVE  Loadable(p)' /\ (torn' # {} => torn # {})
<1>1. CASE Onward(p)
  BY <1>1 DEF Onward, Loadable
<1>2. CASE PrepareVersion(p)
  <2>1. torn' = torn /\ (torn # {} => Went(p, "release"))
    BY <1>2, Control DEF PrepareVersion, versionFiles, Steps
  <2> QED
    BY <2>1 DEF Loadable, Went, Versioned
<1>3. CASE LoadVersions(p)
  BY <1>3 DEF LoadVersions, At, Loadable, Versioned, versionFiles
<1>4. CASE SaveVersion(p) \/ SavePointer(p)
  <2>1. torn' \subseteq torn
    BY <1>4 DEF SaveVersion, SavePointer, Writes
  <2>2. Went(p, "savePointer") \/ Went(p, "advance")
    BY <1>4, Control DEF SaveVersion, SavePointer, Steps
  <2> QED
    BY <2>1, <2>2 DEF Loadable, Went, Versioned
<1>5. CASE Finish(p)
  <2>1. torn' = torn /\ calls'[p] = Idle
    BY <1>5 DEF Finish, Answer, versionFiles, TypeInv, TypeOK
  <2> QED
    BY <2>1, IdleFields DEF Loadable, Versioned
<1> QED
  BY <1>1, <1>2, <1>3, <1>4, <1>5, StepOnward

LEMMA StepPlaced ==
    ASSUME TypeInv, ~Fails, NEW p \in Actors, Placed(p), Loadable(p), Step(p)
    PROVE  /\ Placed(p)'
           /\ calls[p].step \in Late => calls'[p].step \in Late \/ calls[p].step = "finish"
<1> DEFINE Track == /\ Placed(p)'
                    /\ calls[p].step \in Late => calls'[p].step \in Late \/ calls[p].step = "finish"
<1>1. /\ Course(p)
      /\ calls[p].op \in {"submit", "approve", "reject", "undo"}
  BY StepCourse DEF Course, TypeInv, TypeOK, Calls
<1> USE IdleFields, Control
<1> USE DEF At, Went, Proceeded, Ended, Steps, EndUndo, CannotSave, CannotUpsert, Course,
   Placed, Early, Late
<1>2. ASSUME LoadHistory(p) PROVE Track
  <2>1. calls'[p].op = calls[p].op /\ calls'[p].step = calls[p].step
    BY <1>2, Fields
  <2> QED
    BY <2>1
<1>3. ASSUME LoadContract(p) PROVE Track
  BY <1>1, <1>3, Fields, ZenonT(60) DEF LoadContract
<1>4. ASSUME Reserve(p) PROVE Track
  BY <1>1, <1>4, ZenonT(60) DEF Reserve
<1>5. ASSUME Release(p) PROVE Track
  BY <1>1, <1>5 DEF Release
<1>6. ASSUME Advance(p) PROVE Track
  BY <1>1, <1>6 DEF Advance
<1>7. ASSUME Reconcile(p) PROVE Track
  BY <1>1, <1>7 DEF Reconcile
<1>8. ASSUME WriteRequest(p) PROVE Track
  BY <1>1, <1>8 DEF WriteRequest
<1>9. ASSUME QueueRecord(p) PROVE Track
  BY <1>1, <1>9 DEF QueueRecord
<1>10. ASSUME PrepareVersion(p) PROVE Track
  BY <1>1, <1>10, Fields DEF PrepareVersion
<1>11. ASSUME StartRecord(p) PROVE Track
  BY <1>1, <1>11 DEF StartRecord
<1>12. ASSUME CheckFile(p) PROVE Track
  BY <1>1, <1>12 DEF CheckFile
<1>13. ASSUME WriteBackup(p) PROVE Track
  BY <1>1, <1>13 DEF WriteBackup
<1>14. ASSUME WritePayload(p) PROVE Track
  BY <1>1, <1>14 DEF WritePayload
<1>15. ASSUME RecordApplied(p) PROVE Track
  BY <1>1, <1>15 DEF RecordApplied
<1>16. ASSUME CheckRollback(p) PROVE Track
  BY <1>1, <1>16 DEF CheckRollback
<1>17. ASSUME Revert(p) PROVE Track
  BY <1>1, <1>17 DEF Revert, CannotPutBack
<1>18. ASSUME RecordRolledBack(p) PROVE Track
  BY <1>1, <1>18 DEF RecordRolledBack
<1>19. ASSUME Fail(p) PROVE Track
  BY <1>1, <1>19 DEF Fail
<1>20. ASSUME RecordFailed(p) PROVE Track
  BY <1>1, <1>20, SMTT(30) DEF RecordFailed
<1>21. ASSUME LoadVersions(p) PROVE Track
  <2>1. calls[p].step = "commit" /\ calls'[p].step = "saveVersion" /\ calls'[p].op = calls[p].op
    BY <1>21, Fields DEF LoadVersions, Loadable, Versioned
  <2> QED
    BY <1>1, <2>1
<1>22. ASSUME SaveVersion(p) PROVE Track
  BY <1>1, <1>22 DEF SaveVersion
<1>23. ASSUME SavePointer(p) PROVE Track
  BY <1>1, <1>23, SMTT(30) DEF SavePointer
<1>24. ASSUME UndoCommit(p) PROVE Track
  BY <1>1, <1>24, Fields, SMTT(30) DEF UndoCommit
<1>25. ASSUME Finish(p) PROVE Track
  BY <1>1, <1>25 DEF Finish, Answer, TypeInv, TypeOK
<1>26. ASSUME RecordRejected(p) PROVE Track
  BY <1>1, <1>26 DEF RecordRejected
<1>27. ASSUME Discard(p) PROVE Track
  BY <1>1, <1>27 DEF Discard
<1>28. ASSUME Verify(p) PROVE Track
  BY <1>1, <1>28 DEF Verify
<1>29. ASSUME Restore(p) PROVE Track
  BY <1>1, <1>29 DEF Restore, CannotPutBack
<1>30. ASSUME RecordUndone(p) PROVE Track
  BY <1>1, <1>30 DEF RecordUndone
<1> QED
  BY <1>2, <1>3, <1>4, <1>5, <1>6, <1>7, <1>8, <1>9, <1>10, <1>11, <1>12, <1>13,
     <1>14, <1>15, <1>16, <1>17, <1>18, <1>19, <1>20, <1>21, <1>22, <1>23, <1>24,
     <1>25, <1>26, <1>27, <1>28, <1>29, <1>30
     DEF Step

\* A history, on disk or loaded by a call, has this status for a change.
Knows(c, status) ==
    \/ history[c] = status
    \/ \E p \in Actors : calls[p].seen # Unread /\ calls[p].seen[c] = status

\* A change that was settled, or that some copy knows as made, and whose request
\* is still there is pending in no copy, so that it cannot be approved again.
CopiesInv ==
    ~Alone =>
        /\ \A p \in Actors : Placed(p) /\ Loadable(p)
        /\ \A c \in Changes : payload[c] = Unread => told[c] = "nothing"
        /\ \A p \in Actors : calls[p].step \in {"request", "queue"} =>
                /\ told[Subject(p)] = "nothing" /\ Subject("desk") # Subject(p)
                /\ \A status \in {"pending", "applied", "undone"} : ~Knows(Subject(p), status)
        /\ calls["agent"].op = "submit" /\ calls["desk"].op = "approve" =>
                Subject("agent") # Subject("desk")
        /\ \A c \in requests : told[c] \in Done => ~Knows(c, "pending")
        /\ \A c \in requests : Knows(c, "applied") \/ Knows(c, "undone") =>
                \/ ~Knows(c, "pending")
                \/ /\ calls["desk"].op = "approve" /\ Subject("desk") = c
                   /\ calls["desk"].step \in Late
        /\ calls["desk"].op = "approve" => told[Subject("desk")] \notin Done
        /\ calls["desk"].op = "undo" /\ Subject("desk") \in requests =>
                ~Knows(Subject("desk"), "pending")

\* A step adds to what is known only what it records of its change.
LEMMA StepKnows ==
    ASSUME TypeInv, NEW p \in Actors, Step(p), NEW c \in Changes, NEW status, Knows(c, status)'
    PROVE  \/ Knows(c, status)
           \/ /\ c = Subject(p)
              /\ status = "pending" =>
                    calls[p].step = "start" \/ (calls[p].step = "queue" /\ calls'[p] = Idle)
              /\ status = "applied" => calls[p].step = "applied" /\ calls'[p].step = "commit"
              /\ status = "undone" => calls[p].step = "undone"
<1>1. /\ Recorder(p) /\ \A q \in Actors : q # p => calls'[q] = calls[q]
      /\ calls[p].seen # Unread => calls[p].seen \in Histories
  BY StepRecorder, StepLocal DEF TypeInv, TypeOK, Calls
<1>2. ASSUME history'[c] = status
      PROVE  \/ Knows(c, status)
             \/ /\ c = Subject(p)
                /\ status = "pending" =>
                    calls[p].step = "start" \/ (calls[p].step = "queue" /\ calls'[p] = Idle)
                /\ status = "applied" => calls[p].step = "applied" /\ calls'[p].step = "commit"
                /\ status = "undone" => calls[p].step = "undone"
  BY <1>1, <1>2 DEF Recorder, Saves, Knows, Histories
<1>3. ASSUME NEW q \in Actors, calls'[q].seen # Unread, calls'[q].seen[c] = status
      PROVE  Knows(c, status)
  BY <1>1, <1>3 DEF Recorder, Knows
<1> QED
  BY <1>2, <1>3 DEF Knows

\* Where the agent and the desk overlap, no save and no removal fails.
OverlapIsSafe == \A faulty \in Worlds : "overlap" \in faulty => {"save", "remove"} \cap faulty = {}

LEMMA StepCopies ==
    ASSUME OverlapIsSafe, TypeInv, OrderInv, CopiesInv, NEW p \in Actors, Step(p)
    PROVE  CopiesInv'
<1> SUFFICES ASSUME ~Alone' PROVE CopiesInv'
  BY DEF CopiesInv
<1>1. /\ ~Alone /\ ~Fails /\ "remove" \notin faults
      /\ Course(p) /\ Recorder(p) /\ Placed(p) /\ Role(p)
      /\ \A q \in Actors : q # p => calls'[q] = calls[q]
      /\ "agent" \in Actors /\ "desk" \in Actors /\ p \in {"agent", "desk"}
  <2>1. ~Alone /\ \A q \in Actors : q # p => calls'[q] = calls[q]
    BY StepLocal DEF Alone
  <2> QED
    BY <2>1, StepCourse, StepRecorder
       DEF OverlapIsSafe, TypeInv, TypeOK, Alone, Fails, OrderInv, CopiesInv, Actors
<1>2. PICK d \in Changes : d = Subject(p) /\ payload[d] # Unread
  BY <1>1 DEF Course, TypeInv, CallTypes, Subject
<1>3. /\ calls[p].op \in {"submit", "approve", "reject", "undo"}
      /\ p = "agent" <=> calls[p].op = "submit"
      /\ Root \notin Changes
  BY <1>1, ChangesAssumption DEF Course, Role, TypeInv, TypeOK, Calls
<1>4. /\ Placed(p)'
      /\ calls[p].step \in Late => calls'[p].step \in Late \/ calls[p].step = "finish"
      /\ Loadable(p)' /\ (torn' # {} => torn # {})
  BY <1>1, StepPlaced, StepLoadable DEF CopiesInv
<1>5. \/ calls'[p] = Idle /\ Subject(p)' = Root
      \/ /\ calls'[p].op = calls[p].op /\ Subject(p)' = d
         /\ calls'[p].step \in {"request", "queue"} <=> calls[p].step \in {"request", "queue"}
  BY <1>1, <1>2, IdleFields DEF Course, Subject
<1>6. \A q \in Actors : q # p => Subject(q)' = Subject(q)
  BY <1>1 DEF Subject
<1>7. /\ \A c \in Changes \ {d}, status \in Statuses : Knows(c, status)' => Knows(c, status)
      /\ Knows(d, "pending")' =>
            \/ Knows(d, "pending") \/ calls[p].step = "start"
            \/ calls[p].step = "queue" /\ calls'[p] = Idle
      /\ Knows(d, "applied")' =>
            Knows(d, "applied") \/ (calls[p].step = "applied" /\ calls'[p].step = "commit")
      /\ Knows(d, "undone")' => Knows(d, "undone") \/ calls[p].step = "undone"
  <2>1. ASSUME NEW c \in Changes, NEW status, Knows(c, status)', ~Knows(c, status)
        PROVE  /\ c = d
               /\ status = "pending" =>
                    calls[p].step = "start" \/ (calls[p].step = "queue" /\ calls'[p] = Idle)
               /\ status = "applied" => calls[p].step = "applied" /\ calls'[p].step = "commit"
               /\ status = "undone" => calls[p].step = "undone"
    BY <1>2, <2>1, StepKnows
  <2> QED
    BY <2>1
\* What the agent is queueing nobody else knows, and what it applies at once
\* has no request.
<1>8. calls[p].step \in {"request", "queue"} =>
            /\ p = "agent" /\ told[d] = "nothing" /\ Subject("desk") # d
            /\ ~Knows(d, "pending") /\ ~Knows(d, "applied") /\ ~Knows(d, "undone")
  BY <1>1, <1>2 DEF CopiesInv, Role
<1>9. p = "agent" /\ calls[p].step \notin {"request", "queue"} => d \notin requests'
  BY <1>1, <1>2, <1>3 DEF Role, Course
<1>10. d \in requests' => d \in requests \/ calls[p].step = "request"
  BY <1>1, <1>2 DEF Course
<1>11. \A c \in requests' : c # d => c \in requests
  BY <1>1, <1>2 DEF Course
<1>12. requests' \subseteq Changes
  BY <1>1, <1>2 DEF Course, TypeInv, TypeOK
\* The answer of the call settles its change only when its request is gone, or
\* when an undo found it pending nowhere.
<1>13. told'[d] \in Done /\ d \in requests' =>
            told'[d] = told[d] \/ (calls[p].op = "undo" /\ calls[p].step = "undone")
  <2> SUFFICES ASSUME told'[d] \in Done, d \in requests', told'[d] # told[d]
               PROVE  calls[p].op = "undo" /\ calls[p].step = "undone"
    OBVIOUS
  <2>1. calls[p].step \in {"finish", "discard", "undone"}
    BY <1>1, <1>2 DEF Recorder
  <2>2. calls[p].op # "submit"
    BY <1>3, <1>9, <2>1
  <2>3. calls[p].step # "discard" /\ ~(calls[p].step = "finish" /\ calls[p].op = "approve")
    BY <1>1, <1>2 DEF Recorder
  <2> QED
    BY <1>1, <1>3, <2>1, <2>2, <2>3 DEF Placed, Early, Late
<1>14. calls[p].op = "undo" /\ d \in requests => ~Knows(d, "pending")
  BY <1>1, <1>2, <1>3 DEF CopiesInv
<1>15. ASSUME NEW q \in Actors PROVE Placed(q)' /\ Loadable(q)'
  BY <1>1, <1>4, <1>15 DEF CopiesInv, Placed, Loadable
<1>16. ASSUME NEW c \in Changes, payload'[c] = Unread PROVE told'[c] = "nothing"
  BY <1>1, <1>2, <1>16 DEF CopiesInv, Course, Recorder
<1>17. ASSUME NEW q \in Actors, calls'[q].step \in {"request", "queue"}
       PROVE  /\ told'[Subject(q)'] = "nothing" /\ Subject("desk")' # Subject(q)'
              /\ \A status \in {"pending", "applied", "undone"} : ~Knows(Subject(q), status)'
  <2>1. CASE q = p
    <3>1. /\ calls'[p] # Idle /\ calls[p].step \in {"request", "queue"} /\ Subject(q)' = d
      BY <1>5, <1>17, <2>1, IdleFields
    <3>2. told'[d] = "nothing" /\ Subject("desk")' # d
      BY <1>1, <1>6, <1>8, <3>1 DEF Recorder
    <3>3. \A status \in {"pending", "applied", "undone"} : ~Knows(d, status)'
      BY <1>7, <1>8, <3>1
    <3> QED
      BY <2>1, <3>1, <3>2, <3>3 DEF Knows
  <2>2. CASE q # p
    <3>1. PICK e \in Changes :
            /\ e = Subject(q) /\ Subject(q)' = e /\ calls[q].step \in {"request", "queue"}
            /\ q = "agent" /\ p = "desk" /\ e # d
      BY <1>1, <1>2, <1>6, <1>17, <2>2, IdleFields
         DEF CopiesInv, OrderInv, Role, TypeInv, CallTypes, Subject
    <3>2. /\ told[e] = "nothing"
          /\ \A status \in {"pending", "applied", "undone"} : ~Knows(e, status)
      BY <1>1, <3>1 DEF CopiesInv
    <3>3. told'[e] = "nothing" /\ Subject("desk")' # e
      BY <1>1, <1>2, <1>3, <1>5, <3>1, <3>2 DEF Recorder
    <3>4. \A status \in {"pending", "applied", "undone"} : ~Knows(e, status)'
      BY <1>7, <3>1, <3>2 DEF Statuses
    <3> QED
      BY <3>1, <3>3, <3>4 DEF Knows
  <2> QED
    BY <2>1, <2>2
<1>18. ASSUME calls'["agent"].op = "submit", calls'["desk"].op = "approve"
       PROVE  Subject("agent")' # Subject("desk")'
  BY <1>1, <1>2, <1>3, <1>5, <1>6, <1>18, IdleFields DEF CopiesInv
<1>19. ASSUME NEW c \in requests', told'[c] \in Done PROVE ~Knows(c, "pending")'
  <2>1. CASE c # d
    BY <1>1, <1>2, <1>7, <1>11, <1>12, <1>19, <2>1 DEF CopiesInv, Recorder, Statuses
  <2>2. CASE c = d
    <3>1. d \in requests
      BY <1>8, <1>10, <1>13, <1>19, <2>2 DEF Done
    <3>2. ~Knows(d, "pending")
      BY <1>1, <1>13, <1>14, <1>19, <2>2, <3>1 DEF CopiesInv
    <3>3. calls[p].step # "start" /\ ~(calls[p].step = "queue" /\ calls'[p] = Idle)
      BY <1>1, <1>3, <1>8, <1>9, <1>13, <1>19, <2>2, <3>1 DEF Placed, Early, Late, Done
    <3> QED
      BY <1>7, <2>2, <3>2, <3>3
  <2> QED
    BY <2>1, <2>2
<1>20. ASSUME NEW c \in requests', (Knows(c, "applied") \/ Knows(c, "undone"))',
              Knows(c, "pending")'
       PROVE  /\ calls'["desk"].op = "approve" /\ Subject("desk")' = c
              /\ calls'["desk"].step \in Late
  <2>1. CASE c # d
    <3>1. /\ calls["desk"].op = "approve" /\ Subject("desk") = c
          /\ calls["desk"].step \in Late
      BY <1>1, <1>7, <1>11, <1>12, <1>20, <2>1 DEF CopiesInv, Statuses
    <3> QED
      BY <1>1, <1>2, <1>6, <2>1, <3>1
  <2>2. CASE c = d
    <3>1. p = "desk" /\ d \in requests /\ Knows(d, "pending")
      BY <1>1, <1>3, <1>7, <1>8, <1>9, <1>10, <1>20, <2>2 DEF Placed, Early, Late
    <3>2. calls[p].op = "approve" /\ calls'[p].step \in Late
      <4>1. CASE Knows(d, "applied") \/ Knows(d, "undone")
        <5>1. calls[p].op = "approve" /\ calls[p].step \in Late
          BY <1>1, <3>1, <4>1 DEF CopiesInv
        <5>2. calls[p].step # "finish"
          BY <1>1, <1>2, <1>20, <2>2, <5>1 DEF Recorder
        <5> QED
          BY <1>4, <5>1, <5>2
      <4>2. CASE calls[p].step = "applied" /\ calls'[p].step = "commit"
        BY <1>1, <1>3, <3>1, <4>2 DEF Placed, Late
      <4>3. CASE calls[p].step = "undone"
        BY <1>1, <1>3, <1>14, <3>1, <4>3 DEF Placed, Early, Late
      <4> QED
        BY <1>7, <1>20, <2>2, <4>1, <4>2, <4>3
    <3> QED
      BY <1>5, <2>2, <3>1, <3>2, IdleFields DEF Late
  <2> QED
    BY <2>1, <2>2
<1>21. ASSUME calls'["desk"].op = "approve" PROVE told'[Subject("desk")'] \notin Done
  <2>1. CASE p = "desk"
    <3>1. /\ Subject(p)' = d /\ calls[p].op = "approve" /\ told[d] \notin Done
          /\ calls'[p] # Idle
      BY <1>1, <1>2, <1>5, <1>21, <2>1, IdleFields DEF CopiesInv
    <3> QED
      BY <1>1, <2>1, <3>1 DEF Recorder
  <2>2. CASE p = "agent"
    <3>1. /\ calls["desk"].op = "approve" /\ Subject("desk")' = Subject("desk")
          /\ Subject("desk") # d /\ told[Subject("desk")] \notin Done
      BY <1>1, <1>2, <1>3, <1>6, <1>21, <2>2 DEF CopiesInv
    <3>2. Subject("desk") \in Changes
      BY <1>1, <3>1 DEF TypeInv, CallTypes, Subject
    <3> QED
      BY <1>1, <1>2, <3>1, <3>2 DEF Recorder
  <2> QED
    BY <1>1, <2>1, <2>2
<1>22. ASSUME calls'["desk"].op = "undo", Subject("desk")' \in requests'
       PROVE ~Knows(Subject("desk"), "pending")'
  <2>1. CASE p = "desk"
    <3>1. Subject(p)' = d /\ calls[p].op = "undo" /\ d \in requests'
      BY <1>5, <1>22, <2>1, IdleFields
    <3>2. ~Knows(d, "pending") /\ calls[p].step \notin {"queue", "start"}
      BY <1>1, <1>10, <1>14, <3>1 DEF Placed
    <3> QED
      BY <1>7, <2>1, <3>1, <3>2 DEF Knows
  <2>2. CASE p = "agent"
    <3>1. PICK e \in Changes : e = Subject("desk") /\ Subject("desk")' = e /\ e \in requests'
                              /\ calls["desk"].op = "undo"
      BY <1>1, <1>6, <1>12, <1>22, <2>2
    <3>2. e # d /\ e \in requests
      BY <1>8, <1>9, <1>11, <2>2, <3>1
    <3>3. ~Knows(e, "pending")
      BY <1>1, <3>1, <3>2 DEF CopiesInv
    <3> QED
      BY <1>7, <3>1, <3>2, <3>3 DEF Knows, Statuses
  <2> QED
    BY <1>1, <2>1, <2>2
<1> QED
  BY <1>15, <1>16, <1>17, <1>18, <1>19, <1>20, <1>21, <1>22 DEF CopiesInv

\* A command loads the history or nothing, and answers nothing.
LEMMA CommandKnows ==
    ASSUME TypeInv, NEW c \in Changes, Submit(c) \/ Approve(c) \/ Reject(c) \/ Undo(c)
    PROVE  /\ told' = told /\ history' = history /\ requests' = requests /\ faults' = faults
           /\ torn' = torn
           /\ \A d \in Changes, status \in Statuses : Knows(d, status)' => Knows(d, status)
<1>1. UNCHANGED <<told, history, requests, faults, torn>>
  BY DEF Submit, Approve, Reject, Undo, metadata, versionFiles
<1>2. \A q \in Actors : calls'[q].seen \in {Unread, history, calls[q].seen}
  BY CommandCall
<1> QED
  BY <1>1, <1>2 DEF Knows

LEMMA CommandAnswers ==
    ASSUME TypeInv, AnswersInv, NEW c \in Changes,
           Submit(c) \/ Approve(c) \/ Reject(c) \/ Undo(c)
    PROVE  AnswersInv'
<1>1. \A q \in Actors : \/ calls'[q] = calls[q]
                        \/ calls'[q].step \in {"request", "reserve", "reject", "verify"}
  BY CommandCall
<1> QED
  BY <1>1, CommandKnows DEF AnswersInv, Alone, Subject

LEMMA CommandCopies ==
    ASSUME TypeInv, OrderInv, CopiesInv, NEW c \in Changes,
           Submit(c) \/ Approve(c) \/ Reject(c) \/ Undo(c)
    PROVE  CopiesInv'
<1> SUFFICES ASSUME ~Alone' PROVE CopiesInv'
  BY DEF CopiesInv
<1>1. /\ ~Alone /\ told' = told /\ history' = history /\ requests' = requests
      /\ torn' = torn
      /\ \A d \in Changes, status \in Statuses : Knows(d, status)' => Knows(d, status)
      /\ "agent" \in Actors /\ "desk" \in Actors
      /\ requests \subseteq Changes
      /\ \A q \in Actors : calls[q].op # "none" => Subject(q) \in Changes
      /\ {"pending", "applied", "undone"} \subseteq Statuses
  BY CommandKnows DEF Alone, Actors, TypeInv, TypeOK, CallTypes, Subject, Statuses
<1>2. \/ /\ Submit(c) /\ calls["agent"] = Idle /\ Subject("agent")' = c
         /\ calls'["agent"].op = "submit" /\ calls'["agent"].step \in {"request", "reserve"}
         /\ calls'["desk"] = calls["desk"]
      \/ /\ Approve(c) /\ calls["desk"] = Idle /\ Subject("desk")' = c
         /\ calls'["desk"].op = "approve" /\ calls'["desk"].step = "reserve"
         /\ calls'["agent"] = calls["agent"]
      \/ /\ Reject(c) /\ calls["desk"] = Idle /\ Subject("desk")' = c
         /\ calls'["desk"].op = "reject" /\ calls'["desk"].step = "reject"
         /\ calls'["agent"] = calls["agent"]
      \/ /\ Undo(c) /\ calls["desk"] = Idle /\ Subject("desk")' = c
         /\ calls'["desk"].op = "undo" /\ calls'["desk"].step = "verify"
         /\ calls'["agent"] = calls["agent"]
  BY <1>1, CommandCall DEF Subject
\* What does not depend on which command it is: a call is placed where it
\* begins, and no copy comes to know more.
<1>3. \A q \in Actors : Placed(q)' /\ Loadable(q)'
  <2>1. \A q \in Actors : q \in {"agent", "desk"}
    BY DEF Actors
  <2> QED
    BY <1>1, <1>2, <2>1 DEF CopiesInv, Placed, Early, Loadable, Versioned
<1>4. \A d \in Changes : payload'[d] = Unread => told'[d] = "nothing"
  <2>1. \A d \in Changes : payload'[d] = Unread => payload[d] = Unread
    BY UnreadAssumption
       DEF Submit, Approve, Reject, Undo, metadata, TypeInv, TypeOK
  <2> QED
    BY <1>1, <2>1 DEF CopiesInv
<1>5. \A d \in requests : told[d] \in Done => ~Knows(d, "pending")'
  BY <1>1 DEF CopiesInv
<1>6. /\ Submit(c) => /\ payload[c] = Unread /\ told[c] = "nothing" /\ c \notin requests
                       /\ \A status \in {"pending", "applied", "undone"} : ~Knows(c, status)
                       /\ Subject("desk") # c
      /\ Approve(c) => c \in requests /\ Knows(c, "pending")
      /\ Reject(c) => Knows(c, "pending")
      /\ Undo(c) => Knows(c, "applied")
  <2>1. ASSUME Submit(c)
        PROVE  /\ payload[c] = Unread /\ told[c] = "nothing" /\ c \notin requests
               /\ \A status \in {"pending", "applied", "undone"} : ~Knows(c, status)
               /\ Subject("desk") # c
    <3>1. payload[c] = Unread
      BY <2>1 DEF Submit
    <3>2. /\ history[c] = "none"
          /\ \A q \in Actors : calls[q].seen # Unread => calls[q].seen[c] = "none"
      BY <3>1 DEF TypeInv, CallTypes, Prepared
    <3>3. Subject("desk") # c
      BY <1>1, <3>1, IdleFields, ChangesAssumption DEF TypeInv, CallTypes, Subject
    <3> QED
      BY <1>1, <3>1, <3>2, <3>3 DEF CopiesInv, Knows, OrderInv, Submitted
  <2> QED
    BY <2>1 DEF Approve, Reject, Undo, Knows
<1>7. CASE /\ Submit(c) /\ Subject("agent")' = c /\ calls'["desk"] = calls["desk"]
           /\ calls'["agent"].op = "submit" /\ calls'["agent"].step \in {"request", "reserve"}
  <2>1. Subject("desk")' = Subject("desk")
    BY <1>7 DEF Subject
  <2>2. ASSUME NEW q \in Actors, calls'[q].step \in {"request", "queue"}
        PROVE  /\ told'[Subject(q)'] = "nothing" /\ Subject("desk")' # Subject(q)'
               /\ \A status \in {"pending", "applied", "undone"} : ~Knows(Subject(q), status)'
    <3>1. q = "agent"
      BY <1>1, <1>7, <2>2 DEF OrderInv, Role, Actors
    <3>2. \A status \in {"pending", "applied", "undone"} : ~Knows(c, status)'
      BY <1>1, <1>6, <1>7
    <3> QED
      BY <1>1, <1>6, <1>7, <2>1, <3>1, <3>2 DEF Knows
  <2> QED
    BY <1>1, <1>3, <1>4, <1>5, <1>6, <1>7, <2>1, <2>2 DEF CopiesInv
<1>8. CASE /\ ~Submit(c) /\ calls["desk"] = Idle /\ Subject("desk")' = c
           /\ calls'["agent"] = calls["agent"]
           /\ \/ Approve(c) /\ calls'["desk"].op = "approve" /\ calls'["desk"].step = "reserve"
              \/ Reject(c) /\ calls'["desk"].op = "reject" /\ calls'["desk"].step = "reject"
              \/ Undo(c) /\ calls'["desk"].op = "undo" /\ calls'["desk"].step = "verify"
  <2>1. Subject("agent")' = Subject("agent") /\ calls["desk"].op = "none"
    BY <1>8, IdleFields DEF Subject
  <2>2. ASSUME NEW q \in Actors, calls'[q].step \in {"request", "queue"}
        PROVE  /\ told'[Subject(q)'] = "nothing" /\ Subject("desk")' # Subject(q)'
               /\ \A status \in {"pending", "applied", "undone"} : ~Knows(Subject(q), status)'
    <3>1. q = "agent" /\ calls["agent"].step \in {"request", "queue"}
      BY <1>1, <1>8, <2>2 DEF Actors
    <3>2. PICK e \in Changes : /\ e = Subject("agent") /\ told[e] = "nothing"
              /\ \A status \in {"pending", "applied", "undone"} : ~Knows(e, status)
      BY <1>1, <3>1 DEF CopiesInv, OrderInv, Role
    <3>3. e # c
      BY <1>6, <1>8, <3>2
    <3>4. \A status \in {"pending", "applied", "undone"} : ~Knows(e, status)'
      BY <1>1, <3>2
    <3>5. /\ Subject(q)' = e /\ Subject("desk")' = c
          /\ Knows(Subject(q), "pending")' <=> Knows(e, "pending")'
          /\ Knows(Subject(q), "applied")' <=> Knows(e, "applied")'
          /\ Knows(Subject(q), "undone")' <=> Knows(e, "undone")'
      BY <1>8, <2>1, <3>1, <3>2 DEF Knows
    <3> QED
      BY <1>1, <3>2, <3>3, <3>4, <3>5
  <2>3. calls'["agent"].op = "submit" /\ calls'["desk"].op = "approve" =>
            Subject("agent")' # Subject("desk")'
    <3> SUFFICES ASSUME calls["agent"].op = "submit", calls'["desk"].op = "approve",
                        Subject("agent") = c
                 PROVE  FALSE
      BY <1>8, <2>1
    <3>1. c \in requests /\ Knows(c, "pending")
      BY <1>6, <1>8
    <3>2. calls["agent"].step \in {"request", "queue"}
      BY <1>1, <3>1 DEF OrderInv, Role
    <3> QED
      BY <1>1, <3>1, <3>2 DEF CopiesInv
  <2>4. ASSUME NEW d \in requests, Knows(d, "applied") \/ Knows(d, "undone")
        PROVE  ~Knows(d, "pending")
    BY <1>1, <2>1, <2>4 DEF CopiesInv
  <2>5. calls'["desk"].op = "approve" => told[c] \notin Done
    BY <1>1, <1>6, <1>8 DEF CopiesInv
  <2>6. calls'["desk"].op = "undo" /\ c \in requests => ~Knows(c, "pending")
    BY <1>6, <1>8, <2>4
  <2> QED
    BY <1>1, <1>3, <1>4, <1>5, <1>8, <2>1, <2>2, <2>3, <2>4, <2>5, <2>6 DEF CopiesInv
<1> QED
  BY <1>2, <1>6, <1>7, <1>8

-----------------------------------------------------------------------------
(* What was settled stays settled *)

LEMMA AnswersInvStep == TypeInv /\ AloneInv /\ AnswersInv /\ [Next]_vars => AnswersInv'
<1> SUFFICES ASSUME TypeInv, AloneInv, AnswersInv, [Next]_vars PROVE AnswersInv'
  OBVIOUS
<1>1. CASE Edit \/ UNCHANGED vars
  BY <1>1 DEF Edit, vars, metadata, AnswersInv, Alone, Subject
<1>2. CASE Crash
  BY <1>2, IdleFields DEF Crash, metadata, AnswersInv, Alone
<1> QED
  BY <1>1, <1>2, CommandAnswers, StepAnswers DEF Next

LEMMA CopiesInvStep ==
    ASSUME OverlapIsSafe
    PROVE  TypeInv /\ OrderInv /\ CopiesInv /\ [Next]_vars => CopiesInv'
<1> SUFFICES ASSUME TypeInv, OrderInv, CopiesInv, [Next]_vars PROVE CopiesInv'
  OBVIOUS
<1>1. CASE Edit \/ UNCHANGED vars
  <2>1. UNCHANGED <<history, calls, told, payload, requests, torn, faults>>
    BY <1>1 DEF Edit, vars, metadata, versionFiles
  <2> QED
    BY <2>1 DEF CopiesInv, Alone, Placed, Loadable, Knows, Subject
<1>2. CASE Crash
  <2>1. /\ UNCHANGED <<history, told, payload, requests, faults>>
        /\ \A q \in Actors : calls'[q] = Idle
        /\ "agent" \in Actors /\ "desk" \in Actors
        /\ requests \subseteq Changes
    BY <1>2 DEF Crash, metadata, Actors, TypeInv, TypeOK
  <2>2. /\ \A q \in Actors : calls'[q].seen = Unread /\ calls'[q].op = "none"
                               /\ calls'[q].step = "none"
    BY <2>1, IdleFields
  <2>3. \A c \in Changes, status \in Statuses : Knows(c, status)' => history[c] = status
    BY <2>1, <2>2 DEF Knows
  <2>4. \A q \in Actors : Placed(q)' /\ Loadable(q)'
    BY <2>2 DEF Placed, Loadable, Versioned
  <2> QED
    BY <2>1, <2>2, <2>3, <2>4 DEF CopiesInv, Alone, Knows, Statuses
<1> QED
  BY <1>1, <1>2, CommandCopies, StepCopies DEF Next

LEMMA AnswersInit == Init => AnswersInv /\ CopiesInv
<1> SUFFICES ASSUME Init PROVE AnswersInv /\ CopiesInv
  OBVIOUS
<1>1. /\ \A c \in Changes : told[c] = "nothing" /\ history[c] = "none"
      /\ requests = {} /\ "agent" \in Actors /\ "desk" \in Actors
      /\ \A q \in Actors : calls[q] = Idle
  BY DEF Init, Actors
<1> QED
  BY <1>1, IdleFields DEF AnswersInv, CopiesInv, Placed, Loadable, Versioned

\* The desk does not write a change that was answered as rejected, applied or
\* undone, though a stale history may have brought its record back; the agent
\* and the desk overlap, or else saves and removals fail.
THEOREM SettledChangesStay ==
    ASSUME OverlapIsSafe
    PROVE  Spec => SettledStays
<1> DEFINE Stays == \A p \in Actors : Lands(p) /\ calls[p].op = "approve" =>
                        told[Subject(p)] \notin {"rejected", "applied", "undone"}
<1>1. TypeInv /\ AloneInv /\ OrderInv /\ AnswersInv /\ CopiesInv => Stays
  <2> SUFFICES ASSUME TypeInv, AloneInv, OrderInv, AnswersInv, CopiesInv,
                      NEW p \in Actors, calls[p].step = "write", calls[p].op = "approve"
               PROVE  told[Subject(p)] \notin {"rejected", "applied", "undone"}
    BY DEF Lands, At
  <2>1. CASE Alone
    <3>1. Subject(p) \in Changes /\ history[Subject(p)] \in Unmade
      BY <2>1 DEF AloneInv, Doing, Making, TypeInv, CallTypes, Subject
    <3> QED
      BY <2>1, <3>1 DEF AloneInv, Ledger, AnswersInv, Unmade, Kept
  <2>2. CASE ~Alone
    <3>1. p = "desk"
      BY DEF OrderInv, Role
    <3> QED
      BY <2>2, <3>1 DEF CopiesInv, Done
  <2> QED
    BY <2>1, <2>2
<1>2. Init => TypeInv /\ AloneInv /\ OrderInv /\ AnswersInv /\ CopiesInv
  BY TypeInvInit, AloneInvInit, OrderInvInit, AnswersInit
<1>3. TypeInv /\ AloneInv /\ OrderInv /\ AnswersInv /\ CopiesInv /\ [Next]_vars
        => (TypeInv /\ AloneInv /\ OrderInv /\ AnswersInv /\ CopiesInv)'
  BY TypeInvStep, AloneInvStep, OrderInvStep, AnswersInvStep, CopiesInvStep
<1>4. Spec => [][Stays]_vars
  BY <1>1, <1>2, <1>3, PTL DEF Spec
<1> QED
  BY <1>4 DEF SettledStays
=============================================================================
