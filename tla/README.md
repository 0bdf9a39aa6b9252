# A TLA+ model of RepoTunnel

RepoTunnel is a desktop application (Rust with Tauri, and a React frontend) that
gives AI clients bounded access to approved local projects over MCP. Its core
logic is in `src-tauri/src`. This directory holds TLA+ specifications of that
logic, TLC models that check them on small instances, and TLAPS proofs of the
properties that matter most.

The paths below are relative to `src-tauri/src` unless they say otherwise.

## 1. The system

### Components

| Component | State it keeps | Operations | Hard behaviour | What makes it correct |
|---|---|---|---|---|
| **Agent Missions**, `mission/` | one `snapshot.json` per mission: mission status, agents with leases and assignments, the task graph, evidence and reviews, decisions, questions, gates, audit; an event journal; a private overlay per task | worker calls, human calls, scheduler ticks, integration | agents that vanish, two leases per agent, checks on stale snapshots, effects after the lock is released, human directives that invalidate everything | one agent per task, no overlapping writers, nothing verified without independent review on current evidence, no task lost with a silent agent |
| Task integrity, `task_integrity/` | tasks with scope, a change budget, receipts and a verification ledger | begin, reserve and settle the budget, record, drift check, verify, finish | evidence that goes stale under later edits; a budget reserved before a change that may fail anywhere | a finished task was verified after its last change; a task is charged for what it made and no more |
| Change approval, `changes.rs`, `versioning.rs` | per project: `history.json`, a pending request and an undo payload per change, the version history and its pointer | submit, approve, apply, reject, undo, commit of a version | five files saved one after the other, each save may fail; agents and the desk at the same time; the file moved between proposal and application | an answer matches the record, an edit keeps its undo, a version has its ancestors, a settled change is not applied again |
| Team mode, `team.rs`, `team_comms.rs`, `review_council_core.rs` | members, leases, claims, messages, reviews | join, claim, post, review | expiry of claims, message order | a claim has one holder |
| ChatGPT continuation, `extensions/chatgpt-continuation` (repository root), `chatgpt_bridge.rs`, `self_continuation.rs`, `conversation.rs`, `continuity.rs` | jobs with claims and attempts, the bindings of conversations, the message prepared in a tab | queue, claim, prepare, begin the send, click, acknowledge, cancel | two tabs, requests served late, lost acknowledgements, restarts and failed saves | a message is sent at most once, where its client is bound, and every job ends |
| Browser and UI transactions, `browser_transaction.rs`, `ui_transaction.rs` | open transaction and its steps | begin, act, verify, commit | the page changes between observation and act | an act follows a fresh observation |
| Recovery store, checkpoints, temporary workspaces, `recovery_store.rs`, `checkpoint.rs`, `temp_workspace.rs` | primary file and its previous version; copies of a project | save, load, promote | a crash between two renames | a load returns the old or the new version |
| Remote projects, `remote_*.rs` | intents, stages, proofs, fleet of devices | intend, stage, receive, review, promote | retries, devices that vanish | only a reviewed stage is promoted, once |
| MCP server, authorisation and tunnels, `mcp_server.rs`, `mcp_auth.rs`, `gateway.rs`, `direct_https.rs`, `public_tunnel.rs` | codes, tokens, tunnel process | dispatch, authorise, refresh | expiry, reconnection | a code is redeemed once |
| Terminal and execution, `terminal.rs`, `execution.rs`, `platform_sandbox.rs` | sessions and processes | start, read, stop | processes that outlive a session | the pool stays bounded |
| Workflows, `workflow.rs` | run and step records | start, step, resume | restart in a step | a step is not run twice |
| Device and desktop control, video, repository access, project knowledge, capabilities, application shell, frontend, website, scripts | files, caches, settings | mostly sequential I/O | external APIs | not a state machine worth a model |

Missions come first: they have the most concurrency, the most state that must
agree, and they call on most of the others (changes to write to the base,
task integrity for the facts of a receipt, the recovery store to save). The
continuation and change approval come next: each keeps several files or two
programs in agreement, and each tells its user what has been done.

### How a mission works

Worker agents, each an AI client with a principal, reach the mission through the
MCP server. A worker joins (`mod.rs` `worker_join`), keeps its presence lease with
`worker_heartbeat`, and gets work in two ways: it claims a ready task itself
(`worker_claim_task`), or a scheduler tick assigns it a task, a review or a plan.
It reads its context packet, which acknowledges the current *authority revision*,
and may then write: `mutation_state_for_principal` checks the authority and the
write goes to the task's private overlay. It submits its result, another agent
reviews it, somebody attaches evidence, and an evaluation turns the task
Verified. The overlay is then applied to the base project
(`integrate_task_workspace`) and the task is Integrated.

Beside its tasks a mission settles *decisions* and *questions*. A worker proposes a
decision between options; a tick assigns as many other workers as its
significance asks for, each assesses it independently, and the last assessment opens a debate.
Challenges and recorded experiments move it on until somebody asks for the
adjudication, and a worker who did not propose it chooses. The human may ask a question: up
to three workers answer it, and one of them then writes the synthesis. A worker that
vanishes in between is replaced (`reconcile_unavailable_workers_snapshot`).

The human may pause, stop, resume, remove or restore agents, and submit a
directive, which advances the authority revision and so makes every recorded
evidence, review and verification stale.

The scheduler has no thread of its own: a handler that changed something calls
`drive_once` when it has saved its change.

**Concurrency.** `mutate_snapshot` (`mod.rs` 1070-1090) holds one process-wide
lock while it loads the snapshot, runs a closure on it and saves it; the closure's
`Err` saves nothing. So what happens inside is atomic. What happens outside is not:

* `drive_once` runs after the handler's lock was released. Other handlers come
  in between, and a restart loses it.
* `mutation_state_for_principal` and `provision_for_binding` read the snapshot
  without the lock; the write follows.
* `integrate_task_workspace` reads its binding and the overlay without the lock,
  applies files, then takes the lock to record the outcome, then releases it and
  removes the overlay.
* Files that a handler writes before the save stay when the save does not come.
  The event journal is written in this way, so an error or a crash leaves events
  that no snapshot counts, and the next append undoes them
  (`reconcile_projection`).
* Readers of the journal (`read_since`, `context_event_window`) hold no lock
  while they load the snapshot, list the segment files and read them.

### How a continuation is delivered

An AI client leaves a message for its conversation (`queue_message_for_identities`, or
`ensure_automatic_fallback_for_identities` while it works). The bridge keeps it in its
store. The service worker of the browser extension polls for a saved tab
(`claim_for_target`), has the content script put the message into the composer, asks the bridge
to begin the send (`begin_send`), has the content script click, and acknowledges
what it saw. Each handler of the bridge locks its memory, first expires what has
lapsed (`cleanup_locked`), then changes memory and saves the store. So memory and
store differ after a failed save until something else saves. A claim has a
lease, a job has an age and a number of attempts.

### How a change is made

An agent's `write_file` or `create_file` becomes a change: its payload, a fingerprint of
the file it expects, and a record in `history.json`. Either the change waits as
a request until the desk, the window of the application, approves or rejects it,
or it is applied at once. To apply it the code reserves the budget of the task,
prepares a version, checks the file, stores the undo payload, writes the file,
records `Applied`, saves the version history and its pointer, and settles the
budget. Each of these is a file of its own, and each failure has its own way
back: fail the record, roll the edit back, put the version files back, undo the
change, free the charge or leave it to be reconciled. Submissions exclude each
other (`CHANGE_SUBMISSION_LOCK`), the desk's commands do not exclude them.

## 2. Modules

| Module | Contents |
|---|---|
| `TaskPromise` | what a mission promises of its tasks: begun when they can be, approved by another agent, verified while the approval stands, merged unless a directive came |
| `MissionWork` | the state machine of one mission's work: all the variables, one action per handler, the properties |
| `MissionWorkMC` | small instances: values of the constants that are functions or relations |
| `MissionProofs` | lemmas on the operators, one typing lemma per action, `TypeCorrect` |
| `MissionSafety` | the inductive invariant and the safety theorems |
| `MissionSteps` | what a step does to the record of a task and to the slots in use; the theorems on validation, merged work and slots, and the refinement of `TaskPromise` |
| `MissionCouncil` | decisions and questions: their handlers, their part of a tick, the reconciliation of workers that vanish; the properties |
| `MissionCouncilMC` | the symmetry of a small council |
| `MissionCouncilProofs` | the inductive invariant of the council and its theorems |
| `MissionHistory` | what the event journal promises: a history that only grows, committed a handler at a time, whose oldest part may be compacted |
| `MissionEvents` | the segment files, checkpoints and saved projection that implement it, with errors, crashes and readers; the properties |
| `MissionEventsMC` | a reader with no purpose, for the instances without readers |
| `MissionEventsProofs` | the inductive invariants of the journal and its projections, their theorems, and the refinement of `MissionHistory` |
| `MissionReaderProofs` | the invariant of a reader without a lock, what pages and context packets have, and the limits and types of the journal |
| `ContinuationPromise` | what the continuation promises of a message: sent at most once, only while authorised, never offered again |
| `Continuation` | the bridge with its store, the service workers, the content scripts and what is on its way between them |
| `ContinuationMC` | two conversations, two clients, two workspaces |
| `ContinuationProofs` | the inductive invariants of `Continuation`, its theorems, the refinement of `ContinuationPromise`, and that every checkpoint settles |
| `Changes` | change approval, the version files and the budget of the task on one file, save by save |
| `ChangesMC` | two changes and what may befall them |
| `ChangesProofs` | the inductive invariants of `Changes` and its theorems |

`MissionWork` and `MissionEvents` describe two sides of the same handlers. What
`MissionWork` does in one action under the lock, `MissionEvents` does in the steps
from `Begin` to `Save`; the first leaves out the events, the second everything
else in the snapshot. `MissionEvents` implements `MissionHistory` through
`INSTANCE MissionHistory WITH log <- CommittedLog`, where the committed log is
the journal up to the saved cursor. `MissionCouncil` is a third side: it keeps decisions, questions and the
presence of the agents, and hides the tasks, as `MissionWork` hides decisions and questions.
What the one hides is a choice of the other: a tick of the council finds any subset of
the free agents and any number of the free reasoning slots, because the tasks and
their reviews are served first (`scheduler.rs` 378-470). In the same way `Continuation` implements
`ContinuationPromise`: the phase of a message is what the bridge has told of it,
and it is sent when Send was clicked. And `MissionWork` implements `TaskPromise`: the phase of a task is
read off its status, its approval is an accepted review of the current revision (of a merged task, the
review it was merged with), and the merges under way are the integrations that are applying, each
with whether a directive came since it began.

### State of the work

| Variable | Code |
|---|---|
| `missionStatus` | `AgentMission.status` |
| `planCycles` | `planning_no_progress_cycles`, saturated at `CycleLimit` |
| `agents[a]` | the `MissionAgent` of a principal: `status`; `live`, its presence lease; `acked`, whether `acknowledged_authority_revision` is current; `work`, its `MissionAssignment` |
| `tasks[t]` | the `MissionTask` with a given fingerprint: status, dependencies, `owner`, `author`, `reviewer`, the accepted `review`, the ages of its `evidence`, its `verified` revision, `recheck` (`needs_directive_recheck`), `repeats`, `diversify` and the workers that asked for a human gate on it |
| `overlays[t]` | the task's overlay directory: none, provisioned at the current revision, or at an older one |
| `writes[a]` | a write whose authority check passed and which has not landed |
| `integrations` | the `integrate_task_workspace` calls in progress, by stage: the binding is still to be read, files are being applied, the overlay is still to be removed |
| `drivesDue` | the `drive_once` calls that finished handlers still owe |

### Actions of the work

| Actions | Code |
|---|---|
| `Join`, `Heartbeat`, `Release` | `worker_join`, `worker_heartbeat`, `worker_release` with the functions of `agents.rs` and `tasks.rs` they call |
| `Propose`, `CompletePlan`, `ClaimTask`, `AckContext`, `SubmitResult`, `RecordBlocker`, `RequestGate`, `SubmitReview` | the `worker_...` handlers of the same names |
| `AttachEvidence`, `EvaluateTask` | `evidence.rs` `attach_evidence`, `evaluate_task_completion` |
| `BeginWrite`, `LandWrite` | the two halves of a write |
| `BeginIntegration`, `RefuseIntegration`, `IntegrationApplied`, `IntegrationUndone`, `ResetOverlay`, `IntegrationAmbiguous` | the parts of `integrate_task_workspace` between its locks |
| `TickHeld`, `TickAborts`, `TickSchedules` | `schedule_once_snapshot`: early return, `Err`, and a full tick |
| `Pause`, `Resume`, `Stop`, `Directive`, `Remove`, `RemoveAgain`, `Restore` | `human.rs`, `remove_mission_agent`, `restore_mission_agent` |
| `LeaseLapse`, `AssignmentLapse`, `Restart` | the clock and the operating system |

A tick is one action. It expires what has lapsed, checks the replanning
triggers, and then chooses an assignment `job` of free agents to tasks that
satisfies what the loops of the code guarantee: `ClaimsReady` for the ready loop
(with the agents that a claim failing on an overlap uses up), `StaffsReviews`
for the reviews, and `WantsPlanner` for the planner. The order of the agents and
tasks in the vectors of the snapshot is not modelled, so any order the code may
meet is one of the choices.

### State and actions of the council

| Variable | Code |
|---|---|
| `missionStatus` | `AgentMission.status`; Replanning counts as Running |
| `agents[a]` | the presence lease of an agent, whether it joined, left or was removed, and the decision or question its assignment is about, with the lease of the assignment |
| `decisions[d]` | the `MissionDecision`: stage, significance, proposer, who assessed it, rounds without new evidence, the options its experiments falsify, adjudicator and outcome |
| `questions[q]` | the `MissionHumanQuestion`: first assignee, contributors, who answered, synthesizer, whether the synthesis is there |

| Actions | Code |
|---|---|
| `Join`, `Heartbeat`, `Release`, `Remove`, `Restore`, `Stop`, `Pause`, `Resume` | the handlers of `MissionWork`'s actions of these names, for what they do to questions and to these assignments |
| `ProposeDecision`, `Assess`, `Challenge`, `RecordExperiment`, `RequestAdjudication`, `Adjudicate` | the `worker_..._decision...` handlers with `deliberation.rs` |
| `Ask`, `Answer` | `human::submit_question`, `worker_submit_human_answer` |
| `Tick`, `Jobs` | the expiry pass, `schedule_decision_work` and `schedule_question_contributors` of `schedule_once_snapshot` |
| `LeaseLapse`, `AssignmentLapse`, `OtherWorkEnds` | the clock; a handler of a task completes an assignment, which renews the agent |

### State of the journal

| Variable | Code |
|---|---|
| `saved` | `MissionEventProjection` in `snapshot.json`: `last_sequence`, `first_retained_sequence`, `compaction_revision`, `compacted_through_sequence`, the sequence numbers of `active_directives` |
| `work` | the projection in the snapshot that the closure of `mutate_snapshot` has in memory |
| `stage`, `doomed` | where the handler is, and the segment files it still has to remove |
| `events` | the complete lines of all segments, by sequence number |
| `starts` | the segment files, by the sequence number in their names; a file's lines are those from its start to the next start |
| `torn` | the last segment ends in an incomplete line |
| `checkpoint` | the checkpoint with the highest revision |
| `reader` | one `read_since` in progress, and what it returns |

### Actions of the journal

| Actions | Code |
|---|---|
| `Begin`, `Again`, `Save`, `Abort` | `mutate_snapshot`, and handlers that append more than one event (`worker_propose_tasks`); `Abort` is an `Err` or the death of the process after any step |
| `Rollback`, `RemoveOrphan`, `Reconcile`, `Refuse` | `reconcile_projection`: roll back, repair of an incomplete tail, the projection of an unsaved compaction, the `Err`s |
| `Write`, `WriteTorn` | the rest of `append`; a line that reaches the disk whole, or in part |
| `Compact`, `RemoveCompacted`, `NeedNotCompact` | `compact_if_needed`, one file at a time |
| `Load`, `List`, `ReadSegment` | `read_since_with_stats` |
| `Merge` | the rest of `context_event_window` |

### State and actions of the continuation

| Variable | Code |
|---|---|
| `jobs`, `bound`, `live` | the jobs and the bindings of conversations in the memory of the bridge; the targets that registered lately |
| `disk` | the store: jobs and bindings as last saved |
| `net` | requests to begin a send and acknowledgements that the bridge has not served yet |
| `worker[t]` | the poll of a service worker (`pollBridge` in `background.js`): the stage and the claim it works on |
| `mail[t]`, `prepared[t]` | messages on their way to the content script, and the message in the composer (`preparedDelivery` in `content.js`) |
| `clicks[j]` | how often Send was clicked for a job |

| Actions | Code |
|---|---|
| `Queue`, `Ensure`, `Close` | `queue_message_for_identities`, `ensure_automatic_fallback_for_identities`, `cancel_job_for_identities` and `complete_work_for_identities` |
| `Register`, `Claim`, `ServeBegin`, `ServeAck` | `register_target`, `claim_for_target`, `begin_send`, `acknowledge` |
| `RetryPrepare`, `PrepareFails`, `BeginFails`, `CommitFails`, `WorkerDies` | the ways `pollBridge` goes on without an answer |
| `Prepare`, `CommitRefused`, `CommitClicks`, `Reload` | the content script and its page |
| `ClaimLapses`, `Expires`, `Vanish`, `SweepFails`, `Restart` | the clock, a tab that stops registering, a cleanup whose save fails, `initialize` |

### State and actions of a change

| Variable | Code |
|---|---|
| `file` | the content of the project file |
| `payload[c]`, `requests`, `history`, `backups` | the content a change was prepared against, the request on disk, the record in `history.json`, the undo payload |
| `versions`, `current` | `history.json` and `state.json` of `versioning.rs`: the parent of each version, and the pointer |
| `torn` | which of these two hold a part of a text, so that no load accepts them |
| `contract` | the task's `change_budget` with its usage and its reservations |
| `calls[p]` | the call of the agent or of the desk: its step and what it has loaded |
| `told[c]` | the last answer on a change |
| `faults` | what may befall the behaviour, chosen at its start |
| `lost`, `denied` | nothing in the code; history for the properties: the version files that a save has cut short, and the changes that are in the project although their write answered an error |

| Actions | Code |
|---|---|
| `Submit`, `WriteRequest`, `QueueRecord`, `StartRecord` | `submit_payload_with_review` |
| `Reserve`, `Release`, `Advance`, `Reconcile` | `enforce_task_budget`, `release_task_budget_after_safe_failure`, `advance_persisted_task_generations_after_apply`, `reconcile_persisted_task_budget_reservation`, each with the load and the save of the contract |
| `PrepareVersion`, `LoadVersions`, `SaveVersion`, `SavePointer` | `prepare_change` and `commit_change` with `save_version_metadata_pair` |
| `CheckFile`, `WriteBackup`, `WritePayload`, `RecordApplied`, `CheckRollback`, `Revert`, `RecordRolledBack`, `Fail`, `RecordFailed` | `apply_record` and `fail_record` |
| `Approve`, `Reject`, `RecordRejected`, `Discard`, `Undo`, `Verify`, `Restore`, `RecordUndone`, `UndoCommit`, `Finish` | `approve_change`, `reject_change`, `undo_change`, and the undo after a failed version save |
| `LoadHistory`, `LoadContract` | the loads of `persist_record` and of the contract, apart from their saves |
| `Edit`, `Crash` | the user's editor; the process dies |

Definitions marked *Fault* are plausible bugs. They are used by no action: each
replaces one definition to show that a property would notice.

### What is abstracted

* **Time.** The code compares a lease with `now`; the model keeps the answer.
  `LeaseLapse` and `AssignmentLapse` may happen at any moment. A call that renews
  a lease sets it live.
* **The authority revision.** Every recorded revision is compared only for
  equality with the current one. `acked`, `fresh` and the overlay's mark are
  those comparisons, and `Directive` falsifies them all.
* **Agent statuses.** Active, Idle, Busy and Offline repeat what the lease and
  the assignment say; they are one status, `Present`. Retired is `Released` or, when
  revoked, `Removed`.
* **Mission statuses.** HumanGateRequired, ReadyForHumanReview, Completed and
  FailedUnrecoverable are entered by gates, the completion audit and the human's
  acceptance, which are not modelled. In production code no criterion is ever
  counted (`set_criterion_progress_for_test`, `model.rs` 615, is the only setter), so
  the audit is never assigned and ReadyForHumanReview is never entered.
* **Task statuses.** BlockedExternal and Cancelled are entered by no production
  handler of the modelled part.
* **Human gates.** Of a gate only who asked for it is kept: its request completes the
  assignment of the worker. `MAX_HUMAN_GATES` is left out; the answers to a gate only
  release a task that is BlockedExternal.
* **Receipts.** Whether they succeed and cover what is required is one Boolean
  of an evaluation, `sufficient`.
* **Slots.** `SlotChoices` is the set of capacities `derive_resource_slots` may
  return; each tick picks one.
* **A proposal** holds one task. The code takes several and treats them one by
  one before it refreshes the ready list.

And in `MissionCouncil`:

* **An experiment** is the set of options it falsifies, a challenge whether it asks for
  evidence. Texts, confidences and the options an experiment supports are data.
* **What a worker is shown.** The blind views of a decision (`decision_view_snapshot`) are answers,
  not state.
* **The bounded lists** of decisions, questions and answers (`push_bounded`, 256) are not bounded.
* **The order** in which a tick serves decisions and questions is the order of the
  vectors in the code and any order here.

And in `MissionEvents`:

* **An event** is its kind, a directive or something else (`finding`). Its number is
  its place in the journal.
* **The byte limit of a segment** is a free choice to rotate before the limit of
  events.
* **What an append computes again** from the files before using it (the
  `current_segment_...` fields, `closed_segment_count`) is not state.
* **A checkpoint and a snapshot** are replaced by one rename (`save_json`). The
  recovery store's previous version is not modelled.
* **A read** of one segment file is one step; the cursor a client sends is any
  number that is not answered without a look at the journal.
* **`active_event_refs`** is set by no production handler (`events.rs`), so only
  directives are preserved by a compaction.
* **Creation, listing and removal of a mission** are left out.

And in `Continuation`:

* **A claim token** is random in the code and the number of the attempt here. A
  message is its job and revision; `content.js` compares the text too.
* **One session per call.** In production `continuation_identity_keys_from`
  (`mcp_server.rs` 3737) gives a call one key, so the answers for ambiguous keys
  never arise.
* **Delays** (`not_before`), the cap on targets, the retention of finished jobs, the
  manual default action and the recovery of an interrupted response are left out.
  Two targets never have the same address, so the rebind between two such targets
  (`chatgpt_bridge.rs` 709-711), which unfinished work allows, never arises.
* **Jobs end.** A finished job keeps its state and age only; nothing else of its
  record is read again.

And in `Changes`:

* **One file.** A change is named by the content it leaves. Patches, moves,
  deletions and directories are other payloads of the same protocol.
* **One line each.** A change costs the budget one line, and all changes belong
  to one task.
* **Generations.** The modification time and inode that a task remembers of a file
  only refuse changes, so a refusal may come at any time.
* **A failed save** is as bad as the code that writes the file. The histories, requests and backups of
  changes and the contract are replaced by a rename, and fail with the old content in place; the contract also with
  the new, when what follows the rename fails. The version files are written in place (`versioning.rs` 112-117): a
  save that fails, like a crash in one, may leave the file empty, which loads as the default (126-128),
  or with a part of the text, which every load refuses. The project file may have the whole content of a
  change although its write answered `Err` (`filesystem.rs` 407-410, 427-428), a new one also a part of it, and
  the write of an undo or a rollback may fail with the old content in place.
* **The agents** are one actor, because they hold `CHANGE_SUBMISSION_LOCK`.
* **The correlation** of a write with the drift watcher (`changes.rs` 1612-1618) never refuses; it
  would if its lock were poisoned or its registry full, before the file is touched.
* Restores, edit groups, retention and the clearing of the history are left out,
  and so are answers that change nothing.

## 3. Properties and runs

The runs of the work instantiate `MissionWorkMC`. The constant `Events` names the
optional events that a run includes; what it leaves out is included by another.
The run of the council instantiates `MissionCouncilMC`. The runs of the journal instantiate `MissionEventsMC`; `Purposes` says what its
reader reads for. Those of the continuation instantiate `ContinuationMC`, where
`Faults` names the handlers whose save may fail, and those of changes `ChangesMC`,
where `Worlds` lists what may befall a behaviour. Together the passing runs take every action and every disjunct
of the next-state relations.

| Run | Instance | Shows |
|---|---|---|
| `verification` | 2 agents, 1 task; writes, evidence, directives, restarts | `IndependentlyVerified`, `SnapshotValid`, `SoleAssignee`, `IntegratedKept`, `TaskPromiseKept` |
| `presence` | 2 agents, 1 task; leases, assignments, release, removal, gates, pause, stop, restarts; fair heartbeats | `InProgressIsHeld`, `AbandonedTaskReturns` |
| `overlap` | 2 agents, 2 tasks on overlapping paths, a writer and a heavy process; assignments lapse, results are blocked, reviewed and refused | `ActivePathsDisjoint`, `WritersDisjoint`, `TicksWithinSlots` |
| `hold` | 2 agents, 1 task; pause | `HoldLasts` is violated |
| `council` | 3 agents, 1 decision or 1 question, routine or significant; 2 contributors, 2 slots, 2 options, 2 rounds | `CouncilValid`, `SynthesisFromAll`, `OutcomeJustified`, `DebateAfterReview`, `NoSpareReviewers`, `NobodyIdlesOnSettled`, `NothingStranded`, `ContributionsKept` |
| `journal` | 8 events, segments of 3, two compactions; no reader | `NothingLost`, `AppendContinues`, `DirectivesKept`, `HistoryKept` |
| `readers` | 5 events, segments of 2; a reader of pages or of a context packet | `PageFaithful`, `PacketHasRecentDirective` |
| `recovery` | as `journal`, smaller | `Recoverable` is violated |
| `delivery` | 1 job of 1 client in 1 tab, 3 attempts, 2 requests on their way; saves that fail; a fair clock | `PromiseKept`, `Settles` |
| `conversations` | 2 jobs, 2 targets, 2 clients, 2 workspaces; 1 attempt | `OneActive`, `BindingHolds` |
| `resend` | as `delivery`, with a `begin_send` whose save fails | `AtMostOnce` is violated |
| `edits` | 2 changes, a budget for one or both; overlap and editor, or failed saves and editor, or failed saves and removals and a crash | `Recorded`, `VersionsConnected`, `EditsKept`, `BudgetKept`, `EditsCharged`, `ChargesSettle`, `SettledStays` |

Each module's type invariant is checked by one of its runs.

What the properties say:

* `SoleAssignee`: no task is the assignment of two agents, of whatever kind.
* `InProgressIsHeld`: a task in progress has an owner that still holds the
  assignment to implement it, or that asked for a human gate on it. Without it
  the expiry of the assignment could not give the task back.
* `ActivePathsDisjoint`: tasks in progress or in review never overlap. The
  code checks this at a claim only; lapsed assignments and refused results put tasks back to
  Ready under it. Integrations that end late do too: in `overlap` nobody writes, so there are none there, and
  what covers them is the theorem.
* `WritersDisjoint`: the authority check never accepts two agents on one task or
  on overlapping paths.
* `IndependentlyVerified`: what is Verified was accepted by another agent than
  its author, at the current revision, and all of its evidence is current.
* `SnapshotValid`: `MissionSnapshot::validate`, run by every save, refuses no
  snapshot a handler produces; a refusal would lose the whole operation. The
  one exception is the ambiguous integration of a task that is Ready again,
  because that path does not refresh the ready list; the action models the
  refusal.
* `IntegratedKept`: an integrated task is not reopened, except by an older
  integration of the same task that was still applying.
* `TaskPromiseKept`: the work implements `TaskPromise`. It says of the whole life of a task what the
  invariants say of its states: a task is begun only when what it depends on is done (a task whose worker lapsed, in
  the tick that reclaims it too), an approval is only given to what was submitted and never by its worker,
  a directive ends every approval but those of merged tasks, and what merges is a verified task, by an integration
  that began after the last directive. Only a restart forgets a merge under way.
* `TicksWithinSlots`: a tick adds no work to a resource class beyond the capacity
  it read, the claims, reviews and planner of the same tick counted together. It speaks of
  ticks that hand out work: `claim_task` looks at no capacity, so workers that claim for
  themselves may already be over it, and a tick only adds nothing then.
* `AbandonedTaskReturns`: a task whose owner has gone silent leaves that owner.
* `CouncilValid`: `validate` refuses no decision and no question that a handler or a tick produces.
* `SynthesisFromAll`: an answered question was answered by all its contributors. The
  handler compares how many answers and how many contributors there are
  (`human.rs` 238), while contributors are dropped and added around it.
* `OutcomeJustified`: a final decision had its assessments, was not made by its
  proposer, and no experiment falsifies what was chosen.
* `DebateAfterReview`: only the last assessment needed, or an experiment, opens a debate.
* `NoSpareReviewers`: the assessments given and the reviewers assigned are never more than a
  decision asks for. A lapsed reviewer still counts until it is reclaimed, may
  answer late, and may be replaced.
* `NobodyIdlesOnSettled`: no agent with running leases is left with an assignment that it
  can no longer fulfil.
* `NothingStranded`: an open question and a decision that waits for its adjudicator can be taken up
  by a tick again when nobody is at work on it. It says that a tick may (that there is something
  in its `Jobs`), not that it will: other subjects may come first.
* `ContributionsKept`: no assessment, falsification or answer is lost, nothing final changes.
* `NothingLost`: a committed event is in the journal or covered by the latest
  checkpoint, wherever a rollback or a compaction was interrupted.
* `AppendContinues`: no event of a handler that was never saved is in the journal
  when another handler writes, so none is committed by that handler's save.
* `DirectivesKept`: a directive the snapshot refers to stays readable after its
  segment was removed. The oldest of a full list is excepted: a handler that adds
  one directive, compacts and then fails has pushed it out of the checkpoint's list
  but not out of the saved one.
* `HistoryKept`: the journal implements `MissionHistory`.
* `PageFaithful`: a page that is read while handlers append, roll back and compact
  has every committed event of its range, unchanged.
* `PacketHasRecentDirective`: a context packet has the latest directive as long as it
  is in the tail, and again when it is in a checkpoint.
* `PromiseKept`: the delivery implements `ContinuationPromise`. Send is clicked once, and
  only for a claim that `begin_send` accepted, whichever request is late, repeated or
  lost; "delivered" is said only of what was sent; no restart offers again what
  was sent or withdrawn.
* `Settles`: no job stays unfinished, whoever dies with it in hand.
* `OneActive`: a conversation has one unfinished checkpoint.
* `BindingHolds`: unfinished work is delivered where its conversation is bound.
* `Recorded`: a change that was answered as applied is applied or undone in the history.
* `VersionsConnected`: every version that another one, the pointer or an answer relies
  on is in the version history, whichever saves fail and wherever the process dies, as long as none of
  that cut a version file short (`lost`). One that was cut short may have lost the earlier versions, and nothing is claimed then.
* `EditsKept`: an edit in the project has its undo payload, and its record does not
  call it failed, undone or never made. Excepted are the edits whose write answered an error (`denied`): the
  code takes these for not made.
* `BudgetKept`: a task is charged for all that it made, and stays within its budget.
* `EditsCharged`: an edit that an ambiguous failure left in the project under a
  pending record stays charged, with the same exception.
* `ChargesSettle`: what came to nothing is charged only while its reservation is
  open.
* `SettledStays`: the desk does not write a change that was answered as rejected,
  applied or undone, even where an old copy of the history brought its record
  back as pending. This one is about calls that overlap.

The other properties of changes hold while the agent and the desk do not overlap
(`Alone`), and where they name it, without crashes and without the failures that `lost` and `denied` record. Section 6
says what happens otherwise.

### Bounds

* `RepeatLimit` and `CycleLimit` are 2 where the code has 3: one step below the
  limit, the limit, and a value that saturates are all reached. In `verification`, which is not
  about planning, `CycleLimit` is 1.
* `MaxDrives` is 1: `drivesDue` saturates. Ticks that follow one another without
  another handler between them do nothing new after the first, and a later
  handler owes its own.
* `MaxRegistered` is the number of agents of the instance (3 in the code), and
  the proofs take it as any number.
* One task is enough for a property of one task's life; overlaps, dependencies
  and slots need two. Three agents let two of them work while a third reviews.
* Agents are symmetric where no liveness is checked.
* In `council` the three agents are a proposer and two reviewers, or two contributors
  and one that replaces them. `MaxContributors` is 2 where the code has 3: a first
  contributor from `Ask` and one from a tick. `MaxSubjects` is 1, so a behaviour has a decision or a
  question; the two share only agents and slots, and a tick that finds fewer of both is one of
  its choices. The proofs take any number. Routine needs one assessment, Significant two; Critical,
  with three, is covered by the proofs.
* `MaxSeq` bounds the events of a mission. In `journal` segments are longer than the
  list of directives, as in production (256 and 32), and 8 events reach a second
  compaction, which has the first one's checkpoint to carry on, and its
  interruptions. The runs with a reader stop at 5 events, where one
  compaction can overtake it. `PageLimits` are the lengths of a page that a client
  asks for; one shorter than what is there is enough to end a page early.
* In `delivery`, `MaxAttempts` is 3: a first claim, one given back and the last. Two
  requests and two messages on their way let a late one meet its repetition;
  what exceeds `MaxTransit` is lost, as anything may be. `MaxRevision` lets a
  pending message be replaced once. In `conversations` there is one attempt, so
  a claim that fails or lapses never makes its job Pending again; the theorems are about any number. Jobs that
  wait for their tab to come back do occur. Only one of the two tabs takes messages.
* In `edits` two changes are enough for one to be made on another, or to wait while
  another is made; a budget of 1 is exhausted by the first, one of 2 is not. A
  behaviour ends when both are used up, so deadlock is not checked in `edits`.
  Failures are not bounded.
* `TicksWithinSlots` is exercised by a planner and a reviewer of one tick, which
  share the reasoning slots. Two claims of one tick need two disjoint tasks and are not in
  these instances.
* `MaxAppends` bounds the events of a handler, and is at most `Retain`
  (`RetainAssumption`). A handler that filled more segments than are retained would
  compact its own events before they are saved. In production that takes
  more than 32 segments of 256 events in one call.

### Fairness

`FairSpec` assumes weak fairness of `\E a \in Agents : Heartbeat(a)` only: some
worker that may call heartbeat does so in the end. The lease returned to a worker
tells it to, and a worker that does not is one whose lease lapses. Ticks are not
assumed fair: `drive_once` may be lost in a restart or end in `Err`, and
`AbandonedTaskReturns` holds all the same because the heartbeat reclaims lapsed
work by itself. `MissionEvents`, `MissionCouncil` and `Changes` assume no fairness: their
properties are safety.

The `FairSpec` of `Continuation` assumes that the clock goes on (`ClaimLapses` and
`Expires`, weakly fair for each job) and that some tab keeps registering, as
`background.js` does on an alarm; the cleanup that every handler begins with
runs then. The service worker, the content script and the client may stop at any time.

### Where the code and its tests disagree

* `hold`. The test `pause_blocks_new_scheduling_without_destroying_existing_state_and_resume_restores`
  (`mission/human.rs` 577) says that a paused mission schedules nothing until it
  is resumed, and `gates.rs` 118-124 takes care not to overwrite a pause. But
  `record_planning_cycle_snapshot` (`scheduler.rs` 563-565), a blocker at its limit
  (`mod.rs` 825-829) and a rejected review at its limit (`scheduler.rs` 501-503) set
  Replanning whatever the status was. The counterexample: a planner is assigned,
  the human pauses, the planner ends an empty plan.
* `recovery`. The test `recovery_adopts_durable_compaction_checkpoint_when_snapshot_save_never_committed`
  (`mission/events.rs` 1275) expects that an unsaved compaction is adopted. It is when
  the snapshot is lost after all removals. `compact_if_needed` removes the segments
  one at a time, and `reconcile_projection` (388) asks the checkpoint to end exactly
  before the first segment left; so a process that dies between two removals leaves a
  journal that refuses every later append.
* `resend`. Comments in `chatgpt_bridge.rs` say that a send that began is never repeated
  automatically (552) and that retrying begin-send never clicks again (1707). `begin_send` sets
  Sending in memory before it saves. When the save fails it answers `Err`; the
  extension tries again and is answered `Ok` from memory, without a save, and
  clicks. After a restart the store still says Claimed, the lease lapses and
  the message is sent a second time.

## 4. Proofs

The theorems hold for any finite sets of agents and tasks, any symmetric overlap
relation, any classes and capacities, and any limits; they use the assumptions
named in `MissionWork` (`FinitenessAssumption`, `NoneAssumption`, `OverlapAssumption`, `ClassAssumption`,
`LimitAssumption`), which TLC evaluates in every run. Those about `Changes` hold
for any finite set of changes, any budgets and any set of worlds
(`ChangesAssumption`, which also says that a change's content is its own, and `UnreadAssumption`), and those about `MissionCouncil` for any
finite set of agents, any decisions, questions and options, and any limits
(`AgentsAssumption`, `NothingAssumption`, and the `LimitAssumption` of that module).
Those about `Continuation` hold for any number of jobs, attempts, revisions and requests on
their way, and any tabs, sessions and workspaces (`ContinuationAssumption`); `PromiseHolds` and
`SentAtMostOnce` assume also that certain saves succeed, see below. Those about `MissionEvents` hold for
segments of any size, any limits on what is listed, read and retained, and any bound on the events of
a mission (`SegmentAssumption`, `PageAssumption`, `BoundAssumption`); `RetainAssumption` says that
compaction retains at least as many segments as a handler appends events (section 3, Bounds).

| Theorem | States |
|---|---|
| `MissionProofs!TypeCorrect` | `Spec => []TypeOK` |
| `MissionSafety!OneAssignee` | `Spec => []SoleAssignee` |
| `MissionSafety!InProgressHeld` | `Spec => []InProgressIsHeld` |
| `MissionSafety!ActiveDisjoint` | `Spec => []ActivePathsDisjoint` |
| `MissionSafety!Writers` | `Spec => []WritersDisjoint` |
| `MissionSafety!Verified` | `Spec => []IndependentlyVerified` |
| `MissionSteps!SnapshotsValid` | `Spec => []SnapshotValid` |
| `MissionSteps!MergedWorkKept` | `Spec => IntegratedKept` |
| `MissionSteps!TicksStayWithinSlots` | `Spec => TicksWithinSlots` |
| `MissionSteps!TasksKeepPromise` | `Spec => TaskPromiseKept`: `MissionWork` implements `TaskPromise` |
| `MissionSteps!AbandonedTasksReturn` | `Spec /\ HeartbeatsGoOn => AbandonedTaskReturns` |
| `MissionCouncilProofs!CouncilTypes` | `Spec => []TypeOK` |
| `MissionCouncilProofs!CouncilStaysValid` | `Spec => []CouncilValid` |
| `MissionCouncilProofs!SynthesisIsFromAll` | `Spec => []SynthesisFromAll` |
| `MissionCouncilProofs!OutcomeIsJustified` | `Spec => []OutcomeJustified` |
| `MissionCouncilProofs!DebateFollowsReview` | `Spec => []DebateAfterReview` |
| `MissionCouncilProofs!NoReviewerTooMany` | `Spec => []NoSpareReviewers` |
| `MissionCouncilProofs!NobodyIdles` | `Spec => []NobodyIdlesOnSettled` |
| `MissionCouncilProofs!ContributionsAreKept` | `Spec => ContributionsKept` |
| `MissionCouncilProofs!NothingIsStranded` | `Spec => []NothingStranded` |
| `ChangesProofs!ChangeTypes` | `Spec => []TypeOK` |
| `ChangesProofs!AppliedIsRecorded` | `Spec => []Recorded` |
| `ChangesProofs!BudgetIsKept` | `Spec => []BudgetKept` |
| `ChangesProofs!ChargesAreSettled` | `Spec => []ChargesSettle` |
| `ChangesProofs!VersionsStayConnected` | `Spec => []VersionsConnected` |
| `ChangesProofs!EditsAreKept` | `Spec => []EditsKept` |
| `ChangesProofs!EditsStayCharged` | `Spec => []EditsCharged` |
| `ChangesProofs!SettledChangesStay` | `Spec => SettledStays`, under `OverlapIsSafe` |
| `MissionEventsProofs!JournalHolds` | `Spec => []JournalInv`, the files of the journal in every state |
| `MissionEventsProofs!NothingIsLost` | `Spec => []NothingLost` |
| `MissionEventsProofs!AppendsContinue` | `Spec => []AppendContinues` |
| `MissionEventsProofs!HistoryIsKept` | `Spec => HistoryKept` |
| `MissionEventsProofs!DirectivesAreKept` | `Spec => []DirectivesKept` |
| `MissionReaderProofs!PagesAreFaithful` | `Spec => []PageFaithful` |
| `MissionReaderProofs!TypesHold` | `Spec => []TypeOK` |
| `MissionReaderProofs!LimitsHold` | `Spec => []LimitsInv`, how much the journal and its checkpoint ever hold |
| `MissionReaderProofs!PacketsAreRecent` | `Spec => []PacketHasRecentDirective`, for pages longer than what may follow the directive |
| `ContinuationProofs!TypesHold` | `Spec => []TypeOK` |
| `ContinuationProofs!OneActiveHolds` | `Spec => []OneActive` |
| `ContinuationProofs!BindingAlwaysHolds` | `Spec => []BindingHolds` |
| `ContinuationProofs!PromiseHolds` | `Spec => PromiseKept`, under `SafeSaves` |
| `ContinuationProofs!SentAtMostOnce` | `Spec => []AtMostOnce`, under `SafeSaves` |
| `ContinuationProofs!CheckpointsSettle` | `Spec /\ ClockGoesOn /\ CleanupsGoOn => Settles` |

**The argument.** `MissionProofs` first proves what each helper returns (`Refresh`,
`ExpireTasks`, `Claimed`, `Failed`, `Redirected`, `Staffed` and so on keep the type) and
then has one lemma per action.

`SoleAssignee` is inductive over `TypeOK`. Each action either keeps or clears
every agent's task, or it lets agents take tasks nobody else holds; the
second case covers a claim and a whole tick, whose `job` is injective and gives
away only tasks with `AssignedTo(ag, t) = {}`.

The other three need each other, so they are parts of one invariant,

    IInv == TypeOK /\ WorkersPresent /\ InProgressIsHeld
                   /\ ActivePathsDisjoint /\ IndependentlyVerified

`WorkersPresent` (an agent with an assignment is Present) is the strengthening: without it a
restored agent could hold an assignment to a task it lost. The tick, the largest
action, is first reduced to what it does to a single task: `Lives(t)` collects
what any step may do to one (leave it, refresh it, claim it for an agent that
gets the assignment, retire it, verify it, and so on), and `LivesStep` shows that every
action is one of those for every task. Each conjunct of `IInv` then follows from
`Lives` and from what the step does to the assignments. `WritersDisjoint` is a
consequence of `ActivePathsDisjoint`, because `MayMutate` asks for ownership of a
task in progress.

`MissionSteps` looks at one record at a time. `Sound` is a step of a record that needs no
reason: it stays valid, keeps its dependencies and is not reopened once integrated. Such
steps compose (`SoundTwice`), so an action that changes a record, expires others and then
refreshes the ready list is sound because each part is. Only two actions need more: `Propose`,
which adds dependencies it found in the mission, and the end of an integration. `Steps` names these
exceptions, and `SnapshotsValid` and `MergedWorkKept` follow from it, the first with `WorkersPresent` from
`IInv`. For `TicksStayWithinSlots` the agents of a class grow by those the tick
gives tasks to, and since `job` is injective these are no more than the tasks (`JobCounts`): the
ready tasks of a class are counted by the demand, the reviewers and the
planner by the reasoning budget.

`TasksKeepPromise` needs `IInv`, and `Fitting` besides: a task in progress has no accepted review, so that what
is submitted is not approved already, and an integration that has not begun to write begins at the
current revision. `Moves` names what may be seen of a task in one step: nothing but new dependencies (`Alike`), that it
is given up (`Drops`), or that it starts, is submitted, approved or verified. A refresh of the
ready list is never seen (`AlikeRefresh`), so a handler is one move and a refresh. A tick is
an expiry and a claim at once, and `ReadyAfterExpiry` shows that what it claims could have been claimed before the
expiry: reclaiming undoes no dependency. Directives and the ends of integrations are mapped by themselves
(`DirectiveRedirects`, `IntegrationEnds`); there `IInv` is used, since a verified task shows its approval
only if its review is of the current revision. The run `verification` has one task and hence no dependencies; the theorem
is about any number.

In `MissionCouncilProofs` the invariant has parts of two kinds,

    IInv == TypeOK /\ DecisionInv /\ QuestionInv

`DecisionOk` and `QuestionOk` speak of one record: what a decision has gathered at
its stage, and that the agents a question names are among its contributors. The others
tie the assignments to the records. `DecisionSlots` counts: assessments and reviewers together stay
within what is required, or the decision is fully assessed and at most one
agent, the adjudicator, is assigned. Without its second half the adjudication could
leave another agent on a final decision, and `NobodyIdlesOnSettled` would not be inductive.
`SynthesisFromAll` needs no count of its own: the answers are among the contributors, so equal
numbers are equal sets (`FS_Subset`). Most steps lessen the assignments and change one record;
`StepKeeps` reduces each action to lemmas about that (`SameDecisions`, `Expiry`, `Reconciliation`), and
the tick is the expiry, the reconciliation and then a staffing in which
every new assignment is justified by `StaffedDecision` or `StaffedQuestion`.

`NothingIsStranded` says that a step is possible, and so shows one: a tick that finds only the free agent and one slot.
If some decision lacks an agent and this one may serve, it gets that (`DecisionJob`). Otherwise what waits is a
question, and after the reconciliation its contributors are those that have answered and it has no synthesizer, so
that the agent can be either (`QuestionJob`). A tick is `Running` and any job of `Jobs`, whose effects are
always defined, which is why the property can speak of `Jobs` in place of ENABLED.

In `ChangesProofs` the invariants build on each other:

* `TypeInv` is `TypeOK` with what a call holds at its step: a call is about a change that
  was submitted, and the version files are loaded before they are saved.
* `AloneInv` holds while nobody overlaps. At most one call is at work, and what
  it has loaded, of the history as of the contract, is what is on disk (`Fresh`); without
  that a save could bring back anything. `Doing` says which status its change has and
  whether it is charged at each step, and `Ledger` relates the history, the charges
  and the answers. `Recorded`, `BudgetKept` and `ChargesSettle` are parts of it.
* `VersionInv` holds as long as no version file was cut short (`lost = {}`), wherever the process dies. The parent that a version was prepared
  with is the current version until it is saved, and the copies that a failed save of the pointer
  puts back are connected and have the same pointer.
* `OrderInv` holds of any interleaving: a change was prepared against a file that held nothing
  submitted after it (`Layered`), and the agent submits while the desk does the rest.
* `EditsInv` holds while nobody overlaps, nothing crashes and removals succeed. `EditsKept` speaks of the
  edit that is in the file, and an undo or a rollback puts another one there: what the change was
  prepared against. So the invariant is about a set of edits (`Layers`) that contains the one in the file and,
  with each, the one it was prepared against. Each of them can be undone, is charged
  if its record says pending, and is not one that may still be written (`Open`). A write adds its change on
  top: nothing in the set was prepared against it, because the file was compared with what
  the change was prepared against (`check`). `OrderInv` is what makes a submitted change new to the set.
  Edits whose write answered an error are in the set, because others may lie on them, but nothing is said of them; such a
  write adds its change to the set and to `denied` at once.
* `AnswersInv` holds while nobody overlaps: a change answered as rejected or undone has that record. `CopiesInv` holds
  when the agent and the desk overlap. Then a save may bring back any record that a call has
  loaded, so it speaks of all copies (`Knows`), on disk and in the calls: a change that was settled and
  whose request is still there is pending in none. The approval needs both, the request and the record. A version file that a
  crash left with a part of a text stops every application before it writes (`Loadable`).

A step either goes on (`Went`, `Proceeded`) or ends its call (`Ended`); the lemma
`Control` says so of the operators that steps are built from, so that each action is
reduced to one of these and to what it saves.

`ContinuationProofs` has two invariants for safety. `BridgeInv` types the state and says the same of the
store in memory and of the one on disk: a pending job has an attempt left, a conversation has one
unfinished job, and its session is bound to it. The disk has to satisfy it by itself,
because a restart makes it the memory; it does, because `disk` only ever becomes what memory
was at a save, and the cleanup only lets jobs go on or end. It holds whichever saves fail.

`DeliveryInv` follows one message from `begin_send` to the acknowledgement. A click that is on
its way belongs to the attempt the record has authorised (`InStep`), there is one of them and the
job has not been clicked (`CommitsOk`), the attempt has one worker (`WorkersOk`), an
acknowledgement on its way is right about what happened, however late it is served (`AcksOk`), and
the disk knows of whatever must not be offered again (`StoreFollows`). This is said of the record in memory
*and* of the one on disk, which is what makes a restart between any two steps harmless.
Each handler of the bridge is the cleanup and then a change of at most a few records;
`HandlerSteps` reduces it to what happens to one record (`Stepped`), and to whether that step
may be lost by the save (`MayBeLost`). Two steps may not be: the one that authorises a click and
the one that withdraws a message. So `PromiseHolds` and `SentAtMostOnce` assume
`SafeSaves`: those saves succeed. The code does not guarantee it: `begin_send` and the two closing calls
change the record before they save it and keep the change when the save fails. The run `resend` shows that
the message is then sent twice; the theorems show that, in the model, nothing else can lead to it.

In `MissionEventsProofs` the journal is described by two sets of numbers, those of its events and those
in the names of its segments. `Shape` says that every event is in a segment and that only the last
segment may lack its first event; `Solid` says that the events up to a cursor are an interval that ends
there. `JournalInv` adds what each stage of a handler finds (`AtStage`): what lies beyond the saved cursor is
this handler's, or it is about to be undone, or the stage is before the point at which it must be. Removing
one segment, cutting one and writing one line are each shown to keep these sets in shape (`DropFirst`, `DropLate`,
`WriteOk`), which is what makes an abort after any step harmless. `Survivor` is the counting step: a handler
appends at most `MaxAppends` events, so it starts no more segments than compaction retains,
and one that begins with a committed event is left. For `HistoryIsKept` it
then suffices that only `RemoveCompacted` and `Save` change the committed log (`LogStays`): the one turns a
first part of it into compacted events, the other appends what its handler wrote.

`DirectivesAreKept` needs to know why a directive that compaction does not
preserve is not missed. Compaction preserves what the *handler's* list refers to, and that list is not the saved one: it has
lost what was rolled back and pushed out, and has what `reconcile_projection` found in the last
segment. `Accounted` says that the directives of the last segment are at the end of a list, and that a list
that lacks one of them refers to nothing older. So whatever the saved list refers to is in
the handler's list, or in the last committed segment, which compaction leaves
(`Held`), or is the oldest of a full list. `Revisions` is what `TypesHold` needs: each compaction covers an event
that none before it covered, so there are no more revisions than events.

`MissionReaderProofs` is about a reader that saw the saved cursor, then the list of segments, then one
segment after another, while handlers went on. `Listed` says that what happened since can only have taken the oldest
of its segments away, and `Gathered` that below its cursor its page has no hole and agrees with the
journal wherever that still has the event. Handlers keep both because they change nothing up to the
saved cursor except by compaction (`StartsStay`, `CommittedStay`); beyond that cursor a page
may have what was rolled back, and `PageFaithful` does not speak of it.

`PacketsAreRecent` counts. A packet is the latest `MaxPage` events of a page and of the checkpoint, and the
latest directive is among them if fewer than `MaxPage` of these follow it. `LimitsInv` bounds them: the journal is at most
`MaxAppends` events ahead of the snapshot (`Ahead`), a checkpoint preserves at most
`DirectiveLimit` (`Preserves`). So the theorem assumes `ContextTail + MaxAppends + DirectiveLimit <= MaxPage`,
which the production limits satisfy (128 + 32 + 32 and 256), and `DirectiveLimit > 1`, because the only
directive of a list of one may be lost. That the directive is in the page or in the checkpoint at
all needs that what a saved compaction covers is really gone (`Retained`): a compaction that was
interrupted leaves segments that its checkpoint covers, and `Counted` shows that the next one removes them, because it
begins as soon as there is one segment too many and so removes no fewer. The instance of the run `readers` is smaller than
the theorem asks for (a page of 4, with 2 + 1 + 2 to hold), so that packets are cut there.

`AbandonedTasksReturn` is a theorem about liveness. `WF_vars` is defined with ENABLED, of which the provers know nothing,
so the theorem assumes `HeartbeatsGoOn` instead: unless time and again no heartbeat is due (`HeartbeatDue`:
some worker is Present and somebody's assignment has lapsed), heartbeats go on. `FairSpec` implies it, since a heartbeat that is
due is enabled and changes something. That one fact speaks of ENABLED and is not proved; it holds in every state of the
run `presence`. The rest is temporal: an abandoned task makes a heartbeat due, because its owner is
Present (`WorkersPresent`), and the next heartbeat of anybody gives the task back (`ExpireTasksStatus`).

`CheckpointsSettle` is the other one, and assumes no `SafeSaves`. Its fairness is that of `FairSpec`, with the guards of
its steps in place of ENABLED: a claim held forever lapses and an unfinished job expires in the end (`ClockGoesOn`), and unless time
and again the cleanup has nothing to do, tabs keep registering (`CleanupsGoOn`). One might expect an induction over attempts and revisions, each
of which puts a deadline off; there is none, because once a job has expired nothing does. The cleanup comes
first in every handler, so an expired job is never claimed, taken over or given another attempt, and what is
left of it is at most one claim. So an expired job is `Waiting` (no claim holds it), `Held`, or `Lost` (its claim has
lapsed), and `Aging` says how a step may move it: never back from `Lost` to `Held`, and from any of them to
`Settled`. A restart may find on disk a claim that memory had already given up, so it may lead from `Waiting` to `Held`, once.
It finds no deadline put off: that is the invariant `Deadlines`, that what has expired or lapsed in memory
has on disk too, or is over there. With the deadlines gone, the next cleanup ends the job.

**Only model-checked.** Each property of a passing run is a theorem. For the two about liveness what is left to TLC is that `FairSpec`
implies the fairness the theorem assumes, that is, that the guards are the ENABLED conditions of the steps: TLC
finds so in every state of `presence` and of `delivery`, and checks `FairSpec => AbandonedTaskReturns` and
`FairSpec => Settles` there.

## 5. Not modelled yet, and the plan

Within missions, in this order:

1. `MissionGates`: the answers to deferred human gates (`gates.rs`), their one-shot
   consumption by a dispatcher, expiry and directives.
2. The council and the work in one module, with the slots they compete for.
3. The liveness questions of section 6.

Then restores, retention and edit groups of versions, and the life of a task with its
scope, drift and verification, both in modules that share `Changes`. Then the other
components: team claims, browser transactions, the remote source pipeline, the
authorisation codes.

Proofs planned: those of the modules above; and whether an approval may repeat a settled change when both
overlapping calls and failing saves are narrowed to what the code could guarantee (section 6).

**Not modelled, and why.** The completion audit of a mission (`completion.rs`) is not reached: its
first test asks for criteria that only test code sets. The terminal, the sandboxes, device and desktop control,
video production, repository access, capabilities and the scripts are sequential
code around the operating system or other programs: what could go wrong in them lies in those,
not in their own state. The frontend, the website and the application shell show
or wire what the rest keeps. The MCP server dispatches to the components and carries
transports; its authorisation codes are in the plan. Project knowledge is kept by
sequential code in one file each.

## 6. Known limits of the code that no property states

They are modelled, so a later property can be about them, but no document
promises otherwise:

* The overlay of a task keeps the revision it was provisioned at
  (`task_workspace.rs` 439-447), so a task verified again after a directive is
  refused at its integration, and nothing tries again.
* A task in Review keeps an accepted review that a directive made stale
  (`scheduler.rs` 133): no new review is staffed, and the evaluation refuses the
  old one.
* An integration that applied its files and then finds the authority changed
  records nothing (`task_workspace.rs` 1226-1233).
* A tick ends in `Err` when a ready task is still somebody's assignment
  (`scheduler.rs` 406).
* A write lands under a later owner of the same task (`task_workspace.rs` 508):
  the status, the revision and the paths are compared, the owner is not.
* `worker_claim_task` (`mod.rs` 702-713) takes no slot, so writers that claim for
  themselves may be more than the slots. The tests in `mission/resources.rs` (334,
  377) bound the slots that are derived, not the claims.
* A request for a human gate strands its task (`mod.rs` 849-884): it completes the
  assignment of the worker, and the task stays InProgress with its owner. Only the
  removal of the owner, a stop or the late end of an integration takes it
  back. HumanGateRequired and BlockedExternal, which the answers to a gate look for, are
  entered by no production handler, and the use of an approved gate looks for the
  task of the current assignment (`gates.rs` 402), which the worker no longer has.
* No mission becomes ReadyForHumanReview: `completion_base_state` (`completion.rs` 129) asks for
  criteria, and only a test-only function sets their number (`model.rs` 615).
* When the experiments of a decision falsify all of its options, it can never be made final
  (`deliberation.rs` 662), and its adjudicator keeps the assignment until the lease lapses.
* A decision's rounds and stage restart with every experiment, whatever the stage was
  (`deliberation.rs` 573), so an experiment during the independent pass ends it, and the other
  reviewers see what was assessed before.
* `submit_question` assigns a contributor in a paused mission too (`human.rs` 181).
* `read_since` (`events.rs` 661) does not stop at the saved cursor when it fills a page,
  so a client may be given a record that is rolled back later and whose number
  another event takes.
* `context_event_window` (`events.rs` 966) adds directives from a checkpoint only, so one that has
  left the tail of 128 events but is in no removed segment is missing from a packet.
* `reconcile_projection` adds the directives of the last segment that are missing
  from the list at its end (`events.rs` 407-416). When that segment has more than 32 of them,
  older ones come back and newer ones leave.
* A crash between the checkpoint and the removal of its segments makes the next
  compaction count these events in `compacted_event_count` again.
* A process that dies with an incomplete first line in a new segment, after an
  unsaved compaction, leaves a journal that is refused too: the last segment has no
  event to name its mission (`events.rs` 375-377).

In the continuation:

* A failed save of a cancellation leaves the job Cancelled in memory, the repeated call
  answers `Ok` without a save, and a restart brings the job back. It is the same
  gap as that of `resend`; no run lets a cancellation's save fail (`"close"` in `Faults`).
* `commitDelivery` waits up to three seconds for the composer and does not compare the
  page's address again before it clicks.

In change approval, where `Alone` or a crash is excluded from a property:

* The history is loaded, changed and saved without a lock. When the desk acts while
  an agent submits, the later save loses what the other recorded; version files
  and the pointer may then dangle, and an undone change may be called applied.
* The contract is loaded and saved under two acquisitions of the store's lock, so
  charges are lost in the same way, and an ended task may get its old status back.
* A change that is applied at once is stored as Pending before it is written (`changes.rs`
  1777), and `reject_change` asks for Pending only and takes no lock. It may answer that such a change
  is rejected, and `apply_record` writes it afterwards, though `docs/safe-editing.md` 17 says that a
  rejected request was discarded without touching the project.
* The file is checked and then written: what an editor saved in between is lost.
* A crash after the write and before the record leaves the change Pending with its
  edit in the project. Approving it again fails on the fingerprint, and `fail_record`
  removes the undo payload, though `docs/safe-editing.md` 43 says that an ambiguous
  state keeps it. (A generation check usually refuses the approval first.)
* An ambiguous failure keeps the record Pending with the edit in the project. The
  user may reject it, which frees the charge with the edit still there.
* A write may answer an error with the whole edit in place: `create_file` at the sync or at the look at the
  file that follows (`filesystem.rs` 407-410), `write_file` at that look, after its rename (427-428).
  `apply_record` takes it for a write that left nothing (`changes.rs` 1672-1675): the undo payload is removed, the record
  becomes Failed and the charge is freed, while the edit stays. `docs/safe-editing.md` 43 keeps the recovery data when a
  rollback cannot be confirmed; here none is tried. These are the edits that `denied` excepts.
* The version files are written in place (`versioning.rs` 112-117). A save that fails in the middle, or a crash in it, may leave one
  of them empty, and it loads as the default: the earlier versions are gone, or the pointer is. A failed save of
  the history is not followed by any attempt to put it back (166); one of the pointer is (167-169), which may fail likewise.
  A file with a part of a text is refused by every load, so that every later change is refused too
  (`prepare_change` loads both). These are the cases that `lost` excepts.
* A crash while the history is cleared leaves the pointer at a version that is gone.
* An undo does not move the version pointer. A change made after it has the undone
  version as its parent, though its content was made without it.
* An approval whose contract save fails leaves its request on disk (`changes.rs` 2308 returns
  before 2323 removes it). `SettledChangesStay` assumes that no save and no removal fails while the agent
  and the desk overlap (`OverlapIsSafe`), as the run `edits` does. Without that assumption TLC finds a change approved twice: it is
  approved and undone, the agent saves a history it had loaded in between, which has the change as
  pending again, and its request is still there.
