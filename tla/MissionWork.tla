----------------------------- MODULE MissionWork -----------------------------
(***************************************************************************)
(* The work of one Agent Mission (src-tauri/src/mission): worker agents    *)
(* join, hold leases, are assigned tasks, review each other's tasks, and   *)
(* their private overlays are integrated into the base project, while the  *)
(* human pauses, stops, redirects or removes them.                         *)
(*                                                                         *)
(* Every handler runs inside mutate_snapshot: under one process-wide lock  *)
(* it loads the saved snapshot, changes it and saves it, or saves nothing  *)
(* when it returns Err.  So a handler is one action, and an Err is a       *)
(* disabled action.  What a handler does after that lock is another step:  *)
(* drive_once (drivesDue), the integration of a verified task              *)
(* (integrations), and a write that passed its authority check (writes).   *)
(*                                                                         *)
(* Time is abstracted to the two facts the code reads from it: whether a   *)
(* lease is still in the future (live).  The authority revision is         *)
(* abstracted to the fact the code compares: whether a recorded revision   *)
(* equals the current one (fresh, acked); a directive makes all of them    *)
(* stale at once, because it is the only thing that advances it.           *)
(***************************************************************************)
EXTENDS Integers, FiniteSets

CONSTANTS
    Agents,         \* the principals that may ever join
    Tasks,          \* the task fingerprints that may ever be proposed
    NoOne, NoTask,  \* the None of the agent and task options
    Overlap,        \* pairs of tasks whose requested paths overlap
    ClassOf,        \* the resource class of each task (classify_task)
    SlotChoices,    \* the capacities derive_resource_slots may return
    RepeatLimit,    \* equal failures that make a task Stale (3 in the code)
    CycleLimit,     \* empty plans that force Replanning (3 in the code)
    MaxRegistered,  \* MAX_REGISTERED_AGENTS
    Events,         \* what the workers, the human and the clock may do
    MaxDrives       \* bound on the drive_once calls still to run

Classes == {"Reasoning", "ReadOnly", "Writer", "HeavyProcess",
            "BrowserMutation", "AiWorkspaceMutation"}

\* The events that Next leaves out of a model when Events does not name them;
\* the code has them all.
AllEvents == {"release", "write", "evidence", "gate", "remove", "pause", "stop",
              "directive", "lease", "assignment", "restart"}

ASSUME FinitenessAssumption == IsFiniteSet(Agents) /\ IsFiniteSet(Tasks)
ASSUME NoneAssumption == NoOne \notin Agents /\ NoTask \notin Tasks
ASSUME OverlapAssumption ==
    /\ Overlap \subseteq Tasks \X Tasks
    /\ \A s, t \in Tasks : <<s, t>> \in Overlap => <<t, s>> \in Overlap
ASSUME ClassAssumption ==
    /\ ClassOf \in [Tasks -> Classes \ {"Reasoning"}]
    /\ SlotChoices \subseteq [Classes -> Nat \ {0}]
ASSUME LimitAssumption ==
    /\ RepeatLimit \in Nat \ {0}
    /\ CycleLimit \in Nat \ {0}
    /\ MaxRegistered \in Nat
    /\ MaxDrives \in Nat \ {0}
    /\ Events \subseteq AllEvents

VARIABLES
    missionStatus,  \* AgentMission.status
    planCycles,     \* planning_no_progress_cycles, saturated at CycleLimit
    agents,         \* MissionSnapshot.agents, "Absent" before the first join
    tasks,          \* MissionSnapshot.tasks, "Absent" before it is proposed
    overlays,       \* the private overlay directory of each task
    writes,         \* per agent, the task of a write past its authority check
    integrations,   \* integrate_task_workspace calls in progress
    drivesDue       \* drive_once calls a finished handler still owes

snapshot == <<missionStatus, planCycles, agents, tasks>>
inFlight == <<writes, integrations, drivesDue>>
vars == <<missionStatus, planCycles, agents, tasks, overlays, writes,
          integrations, drivesDue>>

-----------------------------------------------------------------------------
(* Records of the snapshot *)

Statuses == {"Running", "Replanning", "PausedByHuman", "StoppedByHuman"}
Held == {"PausedByHuman", "StoppedByHuman"}

\* Active, Idle, Busy and Offline only repeat what live and work say (Offline
\* is never live), so they are one status, Present.  Retired is Released after
\* worker_release and Removed when the binding is revoked.
AgentStatuses == {"Absent", "Present", "Released", "Removed"}

TaskStatuses == {"Absent", "Proposed", "Ready", "BlockedDependency",
                 "InProgress", "Review", "Verified", "Integrated", "Stale"}
Unstarted == {"Proposed", "Ready", "BlockedDependency"}
Active == {"InProgress", "Review"}
Done == {"Verified", "Integrated"}

\* An assignment is made at the current revision and renewed by the same
\* acknowledgement that sets acked, so that its own revision is current
\* whenever acked holds; it is not recorded.
NoWork == [kind |-> "None", task |-> NoTask, live |-> FALSE]
Work == {NoWork}
        \cup [kind : {"Implement", "Review"}, task : Tasks, live : BOOLEAN]
        \cup [kind : {"Plan"}, task : {NoTask}, live : BOOLEAN]

AgentRecords == [status : AgentStatuses, acked : BOOLEAN, live : BOOLEAN,
                 work : Work]

\* The accepted review.  A rejected one is only displayed until the next claim
\* clears it, and is not recorded.
NoReview == [by |-> NoOne, fresh |-> FALSE]
Reviews == {NoReview} \cup [by : Agents, fresh : BOOLEAN]

\* Of the human gates only their requesters are kept: a worker's own request
\* ends its assignment, whatever the human then answers.
TaskRecords ==
    [status : TaskStatuses, deps : SUBSET Tasks,
     owner : Agents \cup {NoOne}, author : Agents \cup {NoOne},
     reviewer : Agents \cup {NoOne}, review : Reviews,
     evidence : SUBSET {"fresh", "stale"}, verified : {"no", "fresh", "stale"},
     recheck : BOOLEAN, repeats : 0..RepeatLimit, diversify : BOOLEAN,
     gates : SUBSET Agents]

Integrations == [task : Tasks, stage : {"begin", "apply", "reset"},
                 current : BOOLEAN]

-----------------------------------------------------------------------------
(* Helpers on the snapshot *)

Later(n, limit) == IF n < limit THEN n + 1 ELSE limit

Registered == {a \in Agents : agents[a].status \in {"Present", "Released"}}

DepsDone(ts, t) == \A d \in ts[t].deps : ts[d].status \in Done

\* refresh_ready_projection: an unstarted task is Ready exactly when all its
\* dependencies are Verified or Integrated.
Refresh(ts) ==
    [t \in Tasks |->
        IF ts[t].status \in Unstarted
        THEN [ts[t] EXCEPT !.status = IF DepsDone(ts, t) THEN "Ready"
                                      ELSE "BlockedDependency"]
        ELSE ts[t]]

LapsedWork(g) == g.work.kind # "None" /\ ~(g.work.live /\ g.live)

\* expire_stale_leases_snapshot
ExpireAgents(ag) ==
    [a \in Agents |-> IF LapsedWork(ag[a]) THEN [ag[a] EXCEPT !.work = NoWork]
                      ELSE ag[a]]

\* Fault: a task is taken back only when the assignment itself has lapsed, not
\* when its owner has.
ExpireTasksByAssignment(ag, ts) ==
    Refresh([t \in Tasks |->
        IF /\ ts[t].status = "InProgress"
           /\ \E a \in Agents : /\ ts[t].owner = a
                                /\ ag[a].work.task = t /\ ~ag[a].work.live
        THEN [ts[t] EXCEPT !.status = "Proposed", !.owner = NoOne]
        ELSE ts[t]])

\* expire_task_assignments_snapshot: a task in progress goes back to the pool
\* when it is its owner whose assignment to it expires.
ExpireTasks(ag, ts) ==
    Refresh([t \in Tasks |->
        IF /\ ts[t].status = "InProgress"
           /\ \E a \in Agents : /\ ts[t].owner = a
                                /\ ag[a].work.task = t
                                /\ LapsedWork(ag[a])
        THEN [ts[t] EXCEPT !.status = "Proposed", !.owner = NoOne]
        ELSE ts[t]])

\* assign_work_snapshot: no other agent may be assigned to the task, and the
\* agent must be live, neither Offline nor Retired, and without work.
Available(g) == g.status = "Present" /\ g.live /\ g.work.kind = "None"
\* Fault: a review does not count as an assignment to the task.
ImplementersOf(ag, t) ==
    {a \in Agents : ag[a].work.task = t /\ ag[a].work.kind = "Implement"}
AssignedTo(ag, t) == {a \in Agents : ag[a].work.task = t}
Assigned(g, kind, t) ==
    [g EXCEPT !.work = [kind |-> kind, task |-> t, live |-> TRUE]]

\* Fault: the finished assignment keeps its task.
CompletedKeepingTask(g) ==
    [g EXCEPT !.status = "Present", !.live = TRUE, !.work.kind = "None"]

\* complete_assignment_snapshot: it also renews the presence lease.
Completed(g) == [g EXCEPT !.status = "Present", !.live = TRUE, !.work = NoWork]

\* Faults: only a task in progress, or only one in review, is active work.
OverlapsInProgress(ts, t) ==
    \E s \in Tasks \ {t} : ts[s].status = "InProgress" /\ <<s, t>> \in Overlap
OverlapsInReview(ts, t) ==
    \E s \in Tasks \ {t} : ts[s].status = "Review" /\ <<s, t>> \in Overlap

\* claim_task_snapshot
OverlapsActive(ts, t) ==
    \E s \in Tasks \ {t} : ts[s].status \in Active /\ <<s, t>> \in Overlap
Claimed(k, a) ==
    [k EXCEPT !.status = "InProgress", !.author = a, !.owner = a,
              !.reviewer = NoOne, !.review = NoReview, !.evidence = {},
              !.verified = "no"]

\* record_failure_snapshot on a task already put back to Proposed: the same
\* failure again counts up, another one starts at one; at the limit the task
\* is Stale and asks for another approach.
Failed(k, again) ==
    LET n == IF again THEN Later(k.repeats, RepeatLimit) ELSE 1 IN
    [k EXCEPT !.status = IF n >= RepeatLimit THEN "Stale" ELSE "Proposed",
              !.owner = NoOne, !.reviewer = NoOne, !.repeats = n,
              !.diversify = @ \/ n >= RepeatLimit]
ReachesLimit(k, again) ==
    IF again THEN Later(k.repeats, RepeatLimit) >= RepeatLimit
    ELSE 1 >= RepeatLimit

\* graph_has_cycle, negated: a graph has a cycle exactly when some nonempty
\* set of tasks has, for each of its members, a dependency in the set.
Acyclic(ts) ==
    \A S \in SUBSET Tasks \ {{}} :
        \E t \in S : ts[t].deps \cap S = {}

\* A handler ends by calling drive_once, under a lock of its own.
OweDrive == drivesDue' = Later(drivesDue, MaxDrives)

-----------------------------------------------------------------------------
Init ==
    /\ missionStatus = "Running"
    /\ planCycles = 0
    /\ agents = [a \in Agents |->
                    [status |-> "Absent", acked |-> FALSE, live |-> FALSE,
                     work |-> NoWork]]
    /\ tasks = [t \in Tasks |->
                    [status |-> "Absent", deps |-> {}, owner |-> NoOne,
                     author |-> NoOne, reviewer |-> NoOne, review |-> NoReview,
                     evidence |-> {}, verified |-> "no", recheck |-> FALSE,
                     repeats |-> 0, diversify |-> FALSE, gates |-> {}]]
    /\ overlays = [t \in Tasks |-> "none"]
    /\ writes = [a \in Agents |-> NoTask]
    /\ integrations = {}
    /\ drivesDue = 0

-----------------------------------------------------------------------------
(* Presence of the workers *)

Renewed(g) == [g EXCEPT !.live = TRUE, !.status = "Present"]

\* worker_join: expired work is reclaimed first, from every agent.
Join(a) ==
    /\ agents[a].status # "Removed"
    /\ agents[a].status = "Absent" => Cardinality(Registered) < MaxRegistered
    /\ agents' = [ExpireAgents(agents) EXCEPT ![a] = Renewed(@)]
    /\ tasks' = ExpireTasks(agents, tasks)
    /\ OweDrive
    /\ UNCHANGED <<missionStatus, planCycles, overlays, writes, integrations>>

\* Fault: the heartbeat renews the worker and reclaims nothing.
HeartbeatOnly(a) ==
    /\ agents[a].status = "Present"
    /\ agents' = [agents EXCEPT ![a] = Renewed(@)]
    /\ UNCHANGED <<missionStatus, planCycles, tasks, overlays, inFlight>>

\* worker_heartbeat: it reclaims expired work, and drives, only if there is some.
Heartbeat(a) ==
    /\ agents[a].status = "Present"
    /\ IF \E b \in Agents : LapsedWork(agents[b])
       THEN /\ agents' = [ExpireAgents(agents) EXCEPT ![a] = Renewed(@)]
            /\ tasks' = ExpireTasks(agents, tasks)
            /\ OweDrive
       ELSE /\ agents' = [agents EXCEPT ![a] = Renewed(@)]
            /\ UNCHANGED <<tasks, drivesDue>>
    /\ UNCHANGED <<missionStatus, planCycles, overlays, writes, integrations>>

\* release_task_claim_snapshot
Unclaimed(k) ==
    [k EXCEPT !.owner = NoOne,
              !.status = IF @ \in {"InProgress", "Stale"} THEN "Proposed" ELSE @]

\* worker_release: refused when the agent's work is a task it does not own.
Release(a) ==
    LET t == agents[a].work.task IN
    /\ a \in Registered
    /\ t # NoTask => tasks[t].owner = a
    /\ agents' = [agents EXCEPT ![a] = [@ EXCEPT !.status = "Released",
                                                 !.live = FALSE, !.work = NoWork]]
    /\ tasks' = IF t = NoTask THEN tasks
                ELSE Refresh([tasks EXCEPT ![t] = Unclaimed(@)])
    /\ OweDrive
    /\ UNCHANGED <<missionStatus, planCycles, overlays, writes, integrations>>

\* remove_mission_agent, by the human.
Remove(a) ==
    /\ a \in Registered
    /\ agents' = [agents EXCEPT ![a] =
            [status |-> "Removed", acked |-> FALSE, live |-> FALSE, work |-> NoWork]]
    /\ tasks' = Refresh([t \in Tasks |->
            LET k == tasks[t] IN
            [k EXCEPT
                !.owner = IF @ = a THEN NoOne ELSE @,
                !.reviewer = IF @ = a THEN NoOne ELSE @,
                !.status = IF \/ k.owner = a /\ @ \in Active
                              \/ k.reviewer = a /\ @ = "Review"
                           THEN "Stale" ELSE @]])
    /\ OweDrive
    /\ UNCHANGED <<missionStatus, planCycles, overlays, writes, integrations>>

\* Removing an agent again only drives the scheduler.
RemoveAgain(a) ==
    /\ agents[a].status = "Removed"
    /\ OweDrive
    /\ UNCHANGED <<snapshot, overlays, writes, integrations>>

\* restore_mission_agent
Restore(a) ==
    /\ agents[a].status = "Removed"
    /\ Cardinality(Registered) < MaxRegistered
    /\ agents' = [agents EXCEPT ![a] = [@ EXCEPT !.status = "Present", !.live = FALSE,
                                                 !.work = NoWork]]
    /\ UNCHANGED <<missionStatus, planCycles, tasks, overlays, inFlight>>

\* The clock passes an agent's lease, or the lease of its assignment.
LeaseLapse(a) ==
    /\ agents[a].live
    /\ agents' = [agents EXCEPT ![a].live = FALSE]
    /\ UNCHANGED <<missionStatus, planCycles, tasks, overlays, inFlight>>

AssignmentLapse(a) ==
    /\ agents[a].work.live
    /\ agents' = [agents EXCEPT ![a].work.live = FALSE]
    /\ UNCHANGED <<missionStatus, planCycles, tasks, overlays, inFlight>>

-----------------------------------------------------------------------------
(* Work of the agents *)

\* worker_identity_and_assignment: the assignment lease is checked, the
\* presence lease is not.
Working(a, kinds) ==
    a \in Registered /\ agents[a].work.kind \in kinds /\ agents[a].work.live

\* record_planning_cycle_snapshot: it looks at the status only to end a
\* replanning, not to start one.
PlanningCycle(newTask) ==
    /\ planCycles' = IF newTask THEN 0 ELSE Later(planCycles, CycleLimit)
    /\ missionStatus' =
            IF newTask /\ missionStatus = "Replanning" THEN "Running"
            ELSE IF ~newTask /\ Later(planCycles, CycleLimit) >= CycleLimit
            THEN "Replanning" ELSE missionStatus

\* propose_tasks_snapshot: a known fingerprint only gains dependencies.
Proposed(k, deps) ==
    [k EXCEPT !.deps = @ \cup deps,
              !.status = IF @ = "Absent" THEN "Proposed" ELSE @]

\* worker_propose_tasks, with one proposal.  A planner's proposal completes its
\* planning assignment.
Propose(a, t, deps) ==
    LET new == tasks[t].status = "Absent"
        proposed == [tasks EXCEPT ![t] = Proposed(@, deps)]
    IN
    /\ a \in Registered
    /\ \A d \in deps : tasks[d].status # "Absent"
    /\ Acyclic(proposed)
    /\ tasks' = Refresh(proposed)
    /\ IF agents[a].work.kind = "Plan"
       THEN /\ PlanningCycle(new)
            /\ agents' = [agents EXCEPT ![a] = Completed(@)]
       ELSE UNCHANGED <<missionStatus, planCycles, agents>>
    /\ OweDrive
    /\ UNCHANGED <<overlays, writes, integrations>>

\* worker_complete_plan
CompletePlan(a) ==
    /\ a \in Registered
    /\ agents[a].work.kind = "Plan"
    /\ PlanningCycle(FALSE)
    /\ agents' = [agents EXCEPT ![a] = Completed(@)]
    /\ OweDrive
    /\ UNCHANGED <<tasks, overlays, writes, integrations>>

CanClaim(ag, ts, a, t) ==
    /\ ts[t].status = "Ready"
    /\ DepsDone(ts, t)
    /\ ~OverlapsActive(ts, t)
    /\ AssignedTo(ag, t) \subseteq {a}
    /\ Available(ag[a])

\* worker_claim_task: neither the mission status nor the slots are looked at,
\* and the scheduler is not driven.
ClaimTask(a, t) ==
    /\ a \in Registered
    /\ CanClaim(agents, tasks, a, t)
    /\ agents' = [agents EXCEPT ![a] = Assigned(@, "Implement", t)]
    /\ tasks' = Refresh([tasks EXCEPT ![t] = Claimed(@, a)])
    /\ UNCHANGED <<missionStatus, planCycles, overlays, inFlight>>

\* worker_context_packet: reading the packet acknowledges the revision; only
\* the owner of the assigned task clears the task's directive recheck.
AckContext(a) ==
    LET t == agents[a].work.task IN
    /\ a \in Registered
    /\ agents' = [agents EXCEPT ![a].acked = TRUE]
    /\ tasks' = [s \in Tasks |->
            IF s = t /\ tasks[s].owner = a THEN [tasks[s] EXCEPT !.recheck = FALSE]
            ELSE tasks[s]]
    /\ UNCHANGED <<missionStatus, planCycles, overlays, inFlight>>

\* mutation_state_for_principal answers Active
MayMutate(a) ==
    LET g == agents[a] IN
    /\ missionStatus \notin Held
    /\ g.live /\ g.work.live /\ g.work.kind = "Implement"
    /\ tasks[g.work.task].status = "InProgress"
    /\ tasks[g.work.task].owner = a
    /\ g.acked /\ ~tasks[g.work.task].recheck

\* A project write: the authority is checked on a snapshot loaded without the
\* lock, and the overlay is written afterwards.
BeginWrite(a) ==
    /\ writes[a] = NoTask
    /\ MayMutate(a)
    /\ writes' = [writes EXCEPT ![a] = agents[a].work.task]
    /\ UNCHANGED <<snapshot, overlays, integrations, drivesDue>>

\* provision_for_binding: the task must still be InProgress, under whichever
\* owner, at the revision of the check.  An overlay that exists is kept as it is.
LandWrite(a) ==
    /\ writes[a] # NoTask
    /\ overlays' = [t \in Tasks |->
            IF t = writes[a] /\ tasks[t].status = "InProgress" /\ overlays[t] = "none"
            THEN "fresh" ELSE overlays[t]]
    /\ writes' = [writes EXCEPT ![a] = NoTask]
    /\ UNCHANGED <<snapshot, integrations, drivesDue>>

\* worker_submit_result
SubmitResult(a) ==
    LET t == agents[a].work.task IN
    /\ Working(a, {"Implement"})
    /\ tasks[t].owner = a /\ tasks[t].status = "InProgress"
    /\ tasks' = Refresh([tasks EXCEPT ![t].status = "Review"])
    /\ agents' = [agents EXCEPT ![a] = Completed(@)]
    /\ OweDrive
    /\ UNCHANGED <<missionStatus, planCycles, overlays, writes, integrations>>

\* worker_record_blocker; again: the same failure as the task's last one.
RecordBlocker(a, again) ==
    LET t == agents[a].work.task IN
    /\ Working(a, {"Implement", "Review"})
    /\ tasks[t].owner = a /\ tasks[t].status = "InProgress"
    /\ again => tasks[t].repeats > 0
    /\ tasks' = Refresh([tasks EXCEPT ![t] = Failed(@, again)])
    /\ missionStatus' = IF ReachesLimit(tasks[t], again) THEN "Replanning"
                        ELSE missionStatus
    /\ agents' = [agents EXCEPT ![a] = Completed(@)]
    /\ OweDrive
    /\ UNCHANGED <<planCycles, overlays, writes, integrations>>

\* worker_request_human_gate, for an action only the human may allow.  The
\* agent's assignment is completed, but the task stays in progress with its
\* owner: approval, rejection and expiry of the gate only release a task that
\* is BlockedExternal, which no task ever is.
RequestGate(a) ==
    LET t == agents[a].work.task IN
    /\ Working(a, {"Implement", "Review"})
    /\ tasks[t].owner = a /\ tasks[t].status = "InProgress"
    /\ missionStatus # "StoppedByHuman"
    /\ tasks' = [tasks EXCEPT ![t].gates = @ \cup {a}]
    /\ agents' = [agents EXCEPT ![a] = Completed(@)]
    /\ OweDrive
    /\ UNCHANGED <<missionStatus, planCycles, overlays, writes, integrations>>

\* attach_evidence: any registered agent, a receipt of the current revision.
AttachEvidence(a, t) ==
    /\ a \in Registered
    /\ tasks[t].status # "Absent"
    /\ tasks' = [tasks EXCEPT ![t].evidence = @ \cup {"fresh"}]
    /\ UNCHANGED <<missionStatus, planCycles, agents, overlays, inFlight>>

\* worker_submit_review
SubmitReview(a, accepted, again) ==
    LET t == agents[a].work.task IN
    /\ Working(a, {"Review"})
    /\ tasks[t].status = "Review"
    /\ tasks[t].author # a
    /\ tasks[t].reviewer \in {NoOne, a}
    /\ tasks[t].evidence # {}
    /\ again => ~accepted /\ tasks[t].repeats > 0
    /\ IF accepted
       THEN /\ tasks' = [tasks EXCEPT ![t] = [@ EXCEPT !.reviewer = a,
                                   !.review = [by |-> a, fresh |-> TRUE]]]
            /\ UNCHANGED missionStatus
       ELSE /\ tasks' = Refresh([tasks EXCEPT ![t] =
                            Failed([@ EXCEPT !.review = NoReview], again)])
            /\ missionStatus' = IF ReachesLimit(tasks[t], again) THEN "Replanning"
                                ELSE missionStatus
    /\ agents' = [agents EXCEPT ![a] = Completed(@)]
    /\ OweDrive
    /\ UNCHANGED <<planCycles, overlays, writes, integrations>>

\* Fault: stale evidence is skipped instead of being a blocker.
VerifiableInPart(k) ==
    /\ "fresh" \in k.evidence
    /\ k.review # NoReview /\ k.review.fresh /\ k.review.by # k.author

\* evaluate_task_completion has no blocker: all evidence and the accepted
\* review are of the current revision, and the reviewer is not the author.
Verifiable(k) ==
    /\ k.evidence = {"fresh"}
    /\ k.review # NoReview /\ k.review.fresh /\ k.review.by # k.author

\* evaluate_task_completion; sufficient: the receipts still succeed, cover the
\* acceptance criteria and reach the verification floor (task_integrity).  A
\* verified task goes straight to its integration, without a scheduler tick.
EvaluateTask(a, t, sufficient) ==
    /\ a \in Registered
    /\ tasks[t].status = "Review"
    /\ IF sufficient /\ Verifiable(tasks[t])
       THEN /\ tasks' = [tasks EXCEPT ![t] = [@ EXCEPT !.status = "Verified",
                                                       !.verified = "fresh", !.owner = NoOne]]
            /\ integrations' = integrations \cup
                    {[task |-> t, stage |-> "begin", current |-> TRUE]}
            /\ UNCHANGED drivesDue
       ELSE /\ OweDrive
            /\ UNCHANGED <<tasks, integrations>>
    /\ UNCHANGED <<missionStatus, planCycles, agents, overlays, writes>>

-----------------------------------------------------------------------------
(* Integration of a verified task into the base project *)

\* integration_binding_snapshot
Bindable(k) == k.status = "Verified" /\ k.verified = "fresh" /\ ~k.recheck

Advance(i, stage) ==
    integrations' = (integrations \ {i}) \cup {[i EXCEPT !.stage = stage]}
Finish(i) == integrations' = integrations \ {i}

\* The binding and the overlay are read without the lock, and the overlay must
\* have been provisioned at the current revision.
BeginIntegration(i) ==
    /\ i.stage = "begin"
    /\ Bindable(tasks[i.task])
    /\ overlays[i.task] = "fresh"
    /\ Advance(i, "apply")
    /\ UNCHANGED <<snapshot, overlays, writes, drivesDue>>

\* Otherwise the call ends in Err, and so it does, before any base write, when
\* the plan cannot be made or a staged file is not UTF-8.  Nothing is recorded
\* and nobody is told to try again.
RefuseIntegration(i) ==
    /\ i.stage = "begin"
    /\ Finish(i)
    /\ UNCHANGED <<snapshot, overlays, writes, drivesDue>>

\* Fault: the binding is read again, but not the authority revision.
IntegrationAppliedRegardless(i) ==
    LET t == i.task IN
    /\ i.stage = "apply"
    /\ IF Bindable(tasks[t])
       THEN /\ tasks' = Refresh([tasks EXCEPT ![t] =
                    [@ EXCEPT !.status = "Integrated", !.owner = NoOne,
                              !.reviewer = NoOne]])
            /\ OweDrive
       ELSE UNCHANGED <<tasks, drivesDue>>
    /\ Finish(i)
    /\ UNCHANGED <<missionStatus, planCycles, agents, overlays, writes>>

\* Every base write succeeded.  The binding is read again: if the authority or
\* the task changed meanwhile the call ends in Err and records nothing.
IntegrationApplied(i) ==
    LET t == i.task IN
    /\ i.stage = "apply"
    /\ IF Bindable(tasks[t]) /\ i.current
       THEN /\ tasks' = Refresh([tasks EXCEPT ![t] =
                    [@ EXCEPT !.status = "Integrated", !.owner = NoOne,
                              !.reviewer = NoOne]])
            /\ OweDrive
       ELSE UNCHANGED <<tasks, drivesDue>>
    /\ Finish(i)
    /\ UNCHANGED <<missionStatus, planCycles, agents, overlays, writes>>

\* The base changed since the overlay was made, or a base write failed and the
\* earlier ones were undone.  Neither path looks at the task again.
IntegrationUndone(i) ==
    /\ i.stage = "apply"
    /\ tasks' = Refresh([tasks EXCEPT ![i.task] =
            [@ EXCEPT !.status = "Ready", !.verified = "no", !.owner = NoOne,
                      !.reviewer = NoOne]])
    /\ Advance(i, "reset")
    /\ UNCHANGED <<missionStatus, planCycles, agents, overlays, writes, drivesDue>>

\* reset_task_workspace_for_retry, after the lock was released.
ResetOverlay(i) ==
    /\ i.stage = "reset"
    /\ overlays' = [overlays EXCEPT ![i.task] = "none"]
    /\ Finish(i)
    /\ OweDrive
    /\ UNCHANGED <<snapshot, writes>>

\* A base write failed and the undo of the earlier ones too.  The ready list is
\* not refreshed on this path, so validate refuses to save a task that is
\* still listed as ready, and the call ends in Err.
IntegrationAmbiguous(i) ==
    LET t == i.task IN
    /\ i.stage = "apply"
    /\ tasks' = IF tasks[t].status = "Ready" THEN tasks
                ELSE [tasks EXCEPT ![t] =
                        [@ EXCEPT !.status = "Stale", !.verified = "no",
                                  !.owner = NoOne, !.reviewer = NoOne]]
    /\ Finish(i)
    /\ UNCHANGED <<missionStatus, planCycles, agents, overlays, writes, drivesDue>>

\* RepoTunnel restarts: the saved snapshot and the overlays survive, and what
\* the handlers still had to do is lost.
Restart ==
    /\ writes' = [a \in Agents |-> NoTask]
    /\ integrations' = {}
    /\ drivesDue' = 0
    /\ UNCHANGED <<snapshot, overlays>>

-----------------------------------------------------------------------------
(* The human *)

Pause ==
    /\ missionStatus \notin Held
    /\ missionStatus' = "PausedByHuman"
    /\ UNCHANGED <<planCycles, agents, tasks, overlays, inFlight>>

\* resume; resuming a mission that runs only drives it.
Resume ==
    /\ missionStatus' = IF missionStatus \in Held THEN "Running" ELSE missionStatus
    /\ OweDrive
    /\ UNCHANGED <<planCycles, agents, tasks, overlays, writes, integrations>>

\* stop_snapshot
Stop ==
    /\ missionStatus' = "StoppedByHuman"
    /\ agents' = [a \in Agents |->
            [agents[a] EXCEPT !.work = NoWork,
                              !.status = IF @ = "Released" THEN "Present" ELSE @]]
    /\ tasks' = [t \in Tasks |->
            IF tasks[t].status \in Active
            THEN [tasks[t] EXCEPT !.status = "Stale", !.owner = NoOne, !.reviewer = NoOne]
            ELSE tasks[t]]
    /\ UNCHANGED <<planCycles, overlays, inFlight>>

\* What grows old with the authority revision.
Aged(set) == IF set = {} THEN {} ELSE {"stale"}

\* Faults: a verified task is requeued with its verdict; a directive reopens an
\* integrated task like a verified one.
RedirectedWithVerdict(k) ==
    LET aged == [k EXCEPT !.review = [by |-> @.by, fresh |-> FALSE],
                          !.evidence = Aged(@),
                          !.verified = IF @ = "no" THEN "no" ELSE "stale"]
    IN  CASE k.status \in {"Absent", "Integrated"} -> aged
          [] k.status = "Verified" -> [aged EXCEPT !.status = "Ready", !.recheck = TRUE]
          [] OTHER -> [aged EXCEPT !.recheck = TRUE]
RedirectedIntegrated(k) ==
    LET aged == [k EXCEPT !.review = [by |-> @.by, fresh |-> FALSE],
                          !.evidence = Aged(@)]
    IN  CASE k.status = "Absent" -> aged
          [] k.status \in Done ->
                [aged EXCEPT !.status = "Ready", !.verified = "no", !.recheck = TRUE]
          [] OTHER -> [aged EXCEPT !.recheck = TRUE]

\* What a directive does to a task, besides making its records stale.
Redirected(k) ==
    LET aged == [k EXCEPT !.review = [by |-> @.by, fresh |-> FALSE],
                          !.evidence = Aged(@),
                          !.verified = IF @ = "no" THEN "no" ELSE "stale"]
    IN  CASE k.status \in {"Absent", "Integrated"} -> aged
          [] k.status = "Verified" ->
                [aged EXCEPT !.status = "Ready", !.verified = "no", !.recheck = TRUE]
          [] OTHER -> [aged EXCEPT !.recheck = TRUE]

\* submit_directive: the authority revision advances.  A write whose check was
\* done at the older revision is refused when it lands.
Directive ==
    /\ missionStatus # "StoppedByHuman"
    /\ tasks' = Refresh([t \in Tasks |-> Redirected(tasks[t])])
    /\ agents' = [a \in Agents |->
            [agents[a] EXCEPT !.acked = FALSE]]
    /\ overlays' = [t \in Tasks |-> IF overlays[t] = "none" THEN "none" ELSE "stale"]
    /\ integrations' = {[i EXCEPT !.current = (i.stage # "apply")] : i \in integrations}
    /\ writes' = [a \in Agents |-> NoTask]
    /\ OweDrive
    /\ UNCHANGED <<missionStatus, planCycles>>

-----------------------------------------------------------------------------
(* The scheduler: schedule_once_snapshot, run by drive_once *)

\* active_usage, after the expiry pass: every assignment left is live.
Usage(ag, class) ==
    Cardinality({a \in Agents :
        CASE ag[a].work.kind = "None" -> FALSE
          [] ag[a].work.kind = "Implement" -> ClassOf[ag[a].work.task] = class
          [] OTHER -> class = "Reasoning"})

\* The dependency deadlock and stale work triggers.
NeedsReplan(ts) ==
    \E t \in Tasks :
        \/ ts[t].status = "Stale" \/ ts[t].diversify
        \/ /\ ts[t].status = "BlockedDependency"
           /\ \E d \in ts[t].deps : ts[d].status = "Stale"

AwaitsReview(ag, ts) ==
    {t \in Tasks : /\ ts[t].status = "Review" /\ ts[t].review = NoReview
                   /\ \A a \in AssignedTo(ag, t) : ag[a].work.kind # "Review"}

\* A tick that runs while the human holds the mission changes nothing.
TickHeld ==
    /\ drivesDue > 0
    /\ missionStatus \in Held
    /\ drivesDue' = drivesDue - 1
    /\ UNCHANGED <<snapshot, overlays, writes, integrations>>

\* The claim of a ready task fails with an error other than an overlap when an
\* agent still holds an assignment to it: the whole tick ends in Err, and the
\* expiry and replanning it had done are not saved.
TickAborts ==
    LET ag == ExpireAgents(agents)
        ts == ExpireTasks(agents, tasks)
    IN
    /\ drivesDue > 0
    /\ missionStatus \notin Held
    /\ \E a \in Agents : Available(ag[a])
    /\ \E slots \in SlotChoices, t \in Tasks :
            /\ ts[t].status = "Ready" /\ AssignedTo(ag, t) # {}
            /\ ~OverlapsActive(ts, t)
            /\ Usage(ag, ClassOf[t]) < slots[ClassOf[t]]
    /\ drivesDue' = drivesDue - 1
    /\ UNCHANGED <<snapshot, overlays, writes, integrations>>

\* usage.increment after every claim of the tick.
Demand(ag, claimed, class) ==
    Usage(ag, class) + Cardinality({t \in claimed : ClassOf[t] = class})

\* The ready loop.  job gives each available agent a task or NoTask; burnt are
\* the tasks whose claim failed with an overlap, each of which used up the next
\* agent of the loop.  A ready task left aside lacked a slot or an agent.
ClaimsReady(ag, ts, slots, job) ==
    LET free == DOMAIN job
        ready == {t \in Tasks : ts[t].status = "Ready"}
        claimed == {t \in ready : \E a \in free : job[a] = t}
        blocked(t) == \/ OverlapsActive(ts, t)
                      \/ \E s \in claimed : <<s, t>> \in Overlap
    IN
    /\ \A t \in claimed :
            /\ AssignedTo(ag, t) = {}
            /\ ~OverlapsActive(ts, t)
            /\ \A s \in claimed \ {t} : <<s, t>> \notin Overlap
            /\ Demand(ag, claimed, ClassOf[t]) <= slots[ClassOf[t]]
    /\ \E burnt \in SUBSET {t \in ready \ claimed : blocked(t)} :
            LET used == Cardinality(claimed) + Cardinality(burnt) IN
            /\ used <= Cardinality(free)
            /\ \A t \in ready \ (claimed \cup burnt) :
                    \/ Demand(ag, claimed, ClassOf[t]) >= slots[ClassOf[t]]
                    \/ used = Cardinality(free)

\* Fault: reviews are staffed whatever the planner already uses up.
StaffsReviewsUnbudgeted(ag, ts, budget, job) ==
    /\ \A a \in DOMAIN job : job[a] \in AwaitsReview(ag, ts) =>
            ts[job[a]].author # a /\ AssignedTo(ag, job[a]) = {}
    /\ \A t \in AwaitsReview(ag, ts) :
            \/ \E a \in DOMAIN job : job[a] = t
            \/ {a \in DOMAIN job : job[a] = NoTask} \subseteq {ts[t].author}
\* schedule_task_reviews: an agent other than the author, within the budget.
StaffsReviews(ag, ts, budget, job) ==
    LET free == DOMAIN job
        idle == {a \in free : job[a] = NoTask}
        wanted == AwaitsReview(ag, ts)
        staffed == {t \in wanted : \E a \in free : job[a] = t}
    IN
    /\ \A a \in free : job[a] \in wanted =>
            ts[job[a]].author # a /\ AssignedTo(ag, job[a]) = {}
    /\ Cardinality(staffed) <= budget
    /\ \A t \in wanted \ staffed :
            Cardinality(staffed) = budget \/ idle \subseteq {ts[t].author}

\* needs_planning: the criteria are never resolved (only a test sets their
\* counts), so a planner is wanted when no task is left or when replanning.
WantsPlanner(ag, ts, status) ==
    /\ status = "Replanning"
       \/ \A t \in Tasks : ts[t].status \in Done \cup {"Absent"}
    /\ \A a \in Agents : ag[a].work.kind # "Plan"

\* The tasks and agents after the assignments of a tick.
Dispatched(ag, job, planner, ts) ==
    [a \in Agents |->
        IF a \in DOMAIN job /\ job[a] # NoTask
        THEN Assigned(ag[a], IF ts[job[a]].status = "Ready" THEN "Implement"
                             ELSE "Review", job[a])
        ELSE IF a = planner THEN Assigned(ag[a], "Plan", NoTask) ELSE ag[a]]
Staffed(ts, job) ==
    Refresh([t \in Tasks |->
        IF \E a \in DOMAIN job : job[a] = t
        THEN LET a == CHOOSE b \in DOMAIN job : job[b] = t IN
             IF ts[t].status = "Ready" THEN Claimed(ts[t], a)
             ELSE [ts[t] EXCEPT !.reviewer = a]
        ELSE ts[t]])

TickSchedules ==
    LET ag == ExpireAgents(agents)
        ts == ExpireTasks(agents, tasks)
        status == IF NeedsReplan(ts) THEN "Replanning" ELSE missionStatus
        free == {a \in Agents : Available(ag[a])}
        ready == {t \in Tasks : ts[t].status = "Ready"}
        open == ready \cup AwaitsReview(ag, ts)
    IN
    /\ drivesDue > 0
    /\ missionStatus \notin Held
    /\ \E slots \in SlotChoices, job \in [free -> open \cup {NoTask}] :
        LET used == Usage(ag, "Reasoning")
            budget == IF used < slots["Reasoning"] THEN slots["Reasoning"] - used ELSE 0
            staffed == {a \in free : job[a] \in AwaitsReview(ag, ts)}
            idle == {a \in free : job[a] = NoTask}
            planners == IF /\ WantsPlanner(ag, Staffed(ts, job), status)
                           /\ budget > Cardinality(staffed) /\ idle # {}
                        THEN idle ELSE {NoOne}
        IN
        /\ \A a, b \in free : job[a] = job[b] => a = b \/ job[a] = NoTask
        /\ ClaimsReady(ag, ts, slots, job)
        /\ StaffsReviews(ag, ts, budget, job)
        /\ tasks' = Staffed(ts, job)
        /\ \E planner \in planners : agents' = Dispatched(ag, job, planner, ts)
    /\ missionStatus' = status
    /\ drivesDue' = drivesDue - 1
    /\ UNCHANGED <<planCycles, overlays, writes, integrations>>

-----------------------------------------------------------------------------
\* Events restricts which of these a model includes.
WorkerStep ==
    \E a \in Agents :
        \/ Join(a) \/ Heartbeat(a) \/ CompletePlan(a) \/ AckContext(a)
        \/ LandWrite(a) \/ SubmitResult(a)
        \/ "release" \in Events /\ Release(a)
        \/ "write" \in Events /\ BeginWrite(a)
        \/ "gate" \in Events /\ RequestGate(a)
        \/ \E again \in BOOLEAN : RecordBlocker(a, again)
        \/ \E accepted, again \in BOOLEAN : SubmitReview(a, accepted, again)
        \/ \E t \in Tasks :
            \/ ClaimTask(a, t)
            \/ "evidence" \in Events /\ AttachEvidence(a, t)
            \/ \E deps \in SUBSET Tasks : Propose(a, t, deps)
            \/ \E sufficient \in BOOLEAN : EvaluateTask(a, t, sufficient)

IntegrationStep ==
    \E i \in integrations :
        \/ BeginIntegration(i) \/ RefuseIntegration(i) \/ IntegrationApplied(i) \/ IntegrationUndone(i)
        \/ ResetOverlay(i) \/ IntegrationAmbiguous(i)

Tick == TickHeld \/ TickAborts \/ TickSchedules

HumanStep ==
    \/ "pause" \in Events /\ Pause
    \/ "stop" \in Events /\ Stop
    \/ "directive" \in Events /\ Directive
    \/ Resume
    \/ \E a \in Agents : "remove" \in Events /\ (Remove(a) \/ RemoveAgain(a) \/ Restore(a))

Environment ==
    \/ "restart" \in Events /\ Restart
    \/ \E a \in Agents : \/ "lease" \in Events /\ LeaseLapse(a)
                         \/ "assignment" \in Events /\ AssignmentLapse(a)

Next == WorkerStep \/ IntegrationStep \/ Tick \/ HumanStep \/ Environment

Spec == Init /\ [][Next]_vars

-----------------------------------------------------------------------------
(* Invariants *)

TypeOK ==
    /\ missionStatus \in Statuses
    /\ planCycles \in 0..CycleLimit
    /\ agents \in [Agents -> AgentRecords]
    /\ tasks \in [Tasks -> TaskRecords]
    /\ overlays \in [Tasks -> {"none", "fresh", "stale"}]
    /\ writes \in [Agents -> Tasks \cup {NoTask}]
    /\ integrations \subseteq Integrations
    /\ drivesDue \in 0..MaxDrives

\* No task is the assignment of two agents, whatever its kind: the author's
\* lease is gone before a reviewer is assigned, and a task that returns to the
\* pool while someone still holds it is not given away.
SoleAssignee ==
    \A a, b \in Agents : agents[a].work.task = agents[b].work.task =>
        a = b \/ agents[a].work.task = NoTask

\* Two tasks in progress or in review never touch overlapping paths, however
\* late outcomes of older integrations interleave with claims.
ActivePathsDisjoint ==
    \A s, t \in Tasks :
        s # t /\ tasks[s].status \in Active /\ tasks[t].status \in Active
            => <<s, t>> \notin Overlap

\* mutation_state_for_principal never authorises two agents at once on one
\* task or on overlapping paths.
WritersDisjoint ==
    \A a, b \in Agents : a # b /\ MayMutate(a) /\ MayMutate(b) =>
        /\ agents[a].work.task # agents[b].work.task
        /\ <<agents[a].work.task, agents[b].work.task>> \notin Overlap

\* A task in progress has an owner, and the owner still holds the assignment to
\* implement it, so that the expiry of that lease can give the task back; or the
\* owner asked for a human gate on it, and then only the owner's removal, a stop
\* or the late end of an integration takes the task back.
InProgressIsHeld ==
    \A t \in Tasks : tasks[t].status = "InProgress" =>
        \E a \in Agents :
            /\ tasks[t].owner = a
            /\ \/ agents[a].work.kind = "Implement" /\ agents[a].work.task = t
               \/ a \in tasks[t].gates

\* A verified task was accepted, at the current authority revision, by an agent
\* that did not implement it, on evidence all of which is current; and an
\* integrated one was so when it was verified.
IndependentlyVerified ==
    \A t \in Tasks :
        LET k == tasks[t] IN
        /\ k.status \in Done =>
                /\ k.evidence # {}
                /\ k.review.by # NoOne /\ k.review.by # k.author
        /\ k.status = "Verified" => k.review.fresh /\ k.evidence = {"fresh"}

\* MissionSnapshot::validate refuses no snapshot a handler produces (a refused
\* one would lose the whole operation), but for the ambiguous integration.
SnapshotValid ==
    /\ \A t \in Tasks :
        LET k == tasks[t] IN
        /\ CASE k.status = "Verified" -> k.verified = "fresh"
             [] k.status = "Integrated" -> k.verified # "no"
             [] OTHER -> k.verified = "no"
        /\ \A d \in k.deps : tasks[d].status # "Absent"
        /\ k.review # NoReview => k.review.by # k.author /\ k.evidence # {}
    /\ \A a \in Agents : agents[a].status = "Removed" => agents[a].work = NoWork

-----------------------------------------------------------------------------
(* What a step may do *)

\* Work merged into the base project is not reopened, unless an older
\* integration of the same task is still applying and ends only now: neither a
\* directive, a stop or a removal touches an integrated task.
IntegratedKept ==
    [][\A t \in Tasks :
        tasks[t].status = "Integrated" /\ tasks'[t].status # "Integrated" =>
            \E i \in integrations : i.task = t /\ i.stage = "apply"]_vars

\* A scheduler tick that gives out work never adds to a resource class beyond the
\* capacity it was given, counting the reviewers and the planner it assigns together.
\* (A claim by a worker looks at no capacity: a tick may find it exceeded.)
TicksWithinSlots ==
    [][drivesDue' < drivesDue /\ agents' # agents =>
        \E slots \in SlotChoices : \A class \in Classes :
            \/ Usage(agents', class) <= slots[class]
            \/ Usage(agents', class) <= Usage(ExpireAgents(agents), class)]_vars

\* human.rs, pause_blocks_new_scheduling_without_destroying_existing_state_and_
\* resume_restores: a mission the human paused schedules nothing until the
\* human resumes it.  The code breaks it: a planner that ends an empty plan, a
\* blocker or a rejected review can set Replanning over PausedByHuman.
HoldLasts ==
    [][(missionStatus \in Held /\ missionStatus' \notin Held) => Resume]_vars

-----------------------------------------------------------------------------
(* The tasks as others see them *)

\* What an actor sees of a task.  An approval is an accepted review of the current
\* authority revision, or the one that a merged task was merged with.
Phase(k) ==
    CASE k.status = "InProgress" -> "working"
      [] k.status = "Review" -> "review"
      [] k.status = "Verified" -> "verified"
      [] k.status = "Integrated" -> "merged"
      [] OTHER -> "open"
Approval(k) ==
    IF \/ k.status = "Integrated"
       \/ k.status \in {"Review", "Verified"} /\ k.review.fresh
    THEN k.review.by ELSE NoOne

Phases == [t \in Tasks |-> Phase(tasks[t])]
Needs == [t \in Tasks |-> tasks[t].deps]
Authors == [t \in Tasks |-> tasks[t].author]
Approvals == [t \in Tasks |-> Approval(tasks[t])]
Merges == {<<i.task, i.current>> : i \in {j \in integrations : j.stage = "apply"}}

Promise == INSTANCE TaskPromise WITH
    phase <- Phases, needs <- Needs, worker <- Authors, approval <- Approvals,
    merges <- Merges

\* The mission keeps what TaskPromise says of its tasks, whatever leases lapse,
\* directives and restarts come, and however late reviews and integrations end.
TaskPromiseKept == Promise!Spec

-----------------------------------------------------------------------------
(* What must happen *)

\* The workers keep calling heartbeat, as the lease they were given demands;
\* nothing else is taken for granted, the scheduler's ticks included.
FairSpec == Spec /\ WF_vars(\E a \in Agents : Heartbeat(a))

\* A task whose owner went silent does not stay with it: the heartbeat of any
\* worker that is left takes it back, or a tick gives it out anew, even when
\* every tick aborts or is lost in a restart.  With InProgressIsHeld, only a gate
\* can leave a task in progress for ever with nobody at work on it.
Abandoned(t) ==
    /\ tasks[t].status = "InProgress"
    /\ \E a \in Agents : /\ tasks[t].owner = a /\ agents[a].work.task = t
                         /\ LapsedWork(agents[a])
AbandonedTaskReturns == \A t \in Tasks : Abandoned(t) ~> ~Abandoned(t)

=============================================================================
