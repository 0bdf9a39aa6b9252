---------------------------- MODULE MissionProofs ----------------------------
(***************************************************************************)
(* Theorems about MissionWork for every set of agents and tasks, every     *)
(* overlap relation and every bound.                                       *)
(***************************************************************************)
EXTENDS MissionWork, TLAPS

-----------------------------------------------------------------------------
(* The helpers on the snapshot return records of the right type *)

LEMMA NoWorkType == NoWork \in Work
BY DEF Work

LEMMA LapsedType ==
    ASSUME NEW w \in Work, w # NoWork
    PROVE  [w EXCEPT !.live = FALSE] \in Work
BY DEF Work

LEMMA TaskUpdate ==
    ASSUME NEW ts \in [Tasks -> TaskRecords], NEW t,
           NEW k, t \in Tasks => k \in TaskRecords
    PROVE  [ts EXCEPT ![t] = k] \in [Tasks -> TaskRecords]
OBVIOUS

LEMMA AgentUpdate ==
    ASSUME NEW ag \in [Agents -> AgentRecords], NEW a, NEW g \in AgentRecords
    PROVE  [ag EXCEPT ![a] = g] \in [Agents -> AgentRecords]
OBVIOUS

LEMMA LaterType ==
    ASSUME NEW limit \in Nat, NEW n \in 0..limit
    PROVE  Later(n, limit) \in 0..limit
BY DEF Later

LEMMA RefreshType ==
    ASSUME NEW ts \in [Tasks -> TaskRecords]
    PROVE  Refresh(ts) \in [Tasks -> TaskRecords]
<1>1. ASSUME NEW t \in Tasks, NEW s \in TaskStatuses
      PROVE  [ts[t] EXCEPT !.status = s] \in TaskRecords
  BY <1>1 DEF TaskRecords
<1> QED
  BY <1>1 DEF Refresh, TaskStatuses

LEMMA ExpireAgentsType ==
    ASSUME NEW ag \in [Agents -> AgentRecords]
    PROVE  ExpireAgents(ag) \in [Agents -> AgentRecords]
<1>1. ASSUME NEW a \in Agents
      PROVE  [ag[a] EXCEPT !.work = NoWork] \in AgentRecords
  BY DEF AgentRecords, Work
<1> QED
  BY <1>1 DEF ExpireAgents

LEMMA ExpireTasksType ==
    ASSUME NEW ag, NEW ts \in [Tasks -> TaskRecords]
    PROVE  ExpireTasks(ag, ts) \in [Tasks -> TaskRecords]
<1>1. ASSUME NEW k \in TaskRecords
      PROVE  [k EXCEPT !.status = "Proposed", !.owner = NoOne] \in TaskRecords
  BY DEF TaskRecords, TaskStatuses
<1> QED
  BY <1>1, RefreshType DEF ExpireTasks

LEMMA UnclaimedType ==
    ASSUME NEW k \in TaskRecords
    PROVE  Unclaimed(k) \in TaskRecords
<1>1. ASSUME NEW s \in TaskStatuses
      PROVE  [k EXCEPT !.owner = NoOne, !.status = s] \in TaskRecords
  BY DEF TaskRecords
<1>2. k.status \in TaskStatuses /\ "Proposed" \in TaskStatuses
  BY DEF TaskRecords, TaskStatuses
<1> QED
  BY <1>1, <1>2 DEF Unclaimed

LEMMA ProposedType ==
    ASSUME NEW k \in TaskRecords, NEW deps \in SUBSET Tasks
    PROVE  Proposed(k, deps) \in TaskRecords
<1>1. ASSUME NEW s \in TaskStatuses, NEW d \in SUBSET Tasks
      PROVE  [k EXCEPT !.deps = d, !.status = s] \in TaskRecords
  BY DEF TaskRecords
<1>2. /\ k.status \in TaskStatuses /\ "Proposed" \in TaskStatuses
      /\ k.deps \cup deps \in SUBSET Tasks
  BY DEF TaskRecords, TaskStatuses
<1> QED
  BY <1>1, <1>2 DEF Proposed

LEMMA ClaimedType ==
    ASSUME NEW k \in TaskRecords, NEW a \in Agents
    PROVE  Claimed(k, a) \in TaskRecords
BY DEF Claimed, TaskRecords, TaskStatuses, Reviews

LEMMA GatedType ==
    ASSUME NEW k \in TaskRecords, NEW a \in Agents
    PROVE  [k EXCEPT !.gates = @ \cup {a}] \in TaskRecords
BY DEF TaskRecords

LEMMA FailedType ==
    ASSUME NEW k \in TaskRecords, NEW again \in BOOLEAN
    PROVE  Failed(k, again) \in TaskRecords
<1> DEFINE n == IF again THEN Later(k.repeats, RepeatLimit) ELSE 1
<1>1. n \in 0..RepeatLimit
  BY LaterType, LimitAssumption DEF TaskRecords
<1>2. ASSUME NEW m \in 0..RepeatLimit, NEW s \in TaskStatuses, NEW d \in BOOLEAN
      PROVE  [k EXCEPT !.status = s, !.owner = NoOne, !.reviewer = NoOne,
                       !.repeats = m, !.diversify = d] \in TaskRecords
  BY DEF TaskRecords
<1>3. k.diversify \in BOOLEAN /\ "Stale" \in TaskStatuses /\ "Proposed" \in TaskStatuses
  BY DEF TaskRecords, TaskStatuses
<1>4. CASE n >= RepeatLimit
  <2>1. Failed(k, again) = [k EXCEPT !.status = "Stale", !.owner = NoOne, !.reviewer = NoOne,
                                     !.repeats = n, !.diversify = TRUE]
    BY <1>3, <1>4 DEF Failed
  <2>2. [k EXCEPT !.status = "Stale", !.owner = NoOne, !.reviewer = NoOne,
                  !.repeats = n, !.diversify = TRUE] \in TaskRecords
    <3> HIDE DEF n
    <3> QED
      BY <1>1, <1>2, <1>3, Zenon
  <2> QED
    BY <2>1, <2>2, Zenon
<1>5. CASE ~(n >= RepeatLimit)
  <2>1. Failed(k, again) = [k EXCEPT !.status = "Proposed", !.owner = NoOne, !.reviewer = NoOne,
                                     !.repeats = n, !.diversify = k.diversify]
    BY <1>3, <1>5 DEF Failed
  <2>2. [k EXCEPT !.status = "Proposed", !.owner = NoOne, !.reviewer = NoOne,
                  !.repeats = n, !.diversify = k.diversify] \in TaskRecords
    <3> HIDE DEF n
    <3> QED
      BY <1>1, <1>2, <1>3, Zenon
  <2> QED
    BY <2>1, <2>2, Zenon
<1> QED
  BY <1>4, <1>5

LEMMA RedirectedType ==
    ASSUME NEW k \in TaskRecords
    PROVE  Redirected(k) \in TaskRecords
<1> DEFINE review == [by |-> k.review.by, fresh |-> FALSE]
<1> DEFINE aged == [k EXCEPT !.review = review, !.evidence = Aged(@),
                             !.verified = IF @ = "no" THEN "no" ELSE "stale"]
<1>1. review \in Reviews
  <2>1. CASE k.review = NoReview
    BY <2>1 DEF NoReview, Reviews
  <2>2. CASE k.review \in [by : Agents, fresh : BOOLEAN]
    BY <2>2 DEF Reviews
  <2> QED
    BY <2>1, <2>2 DEF TaskRecords, Reviews
<1>2. aged \in TaskRecords
  BY <1>1 DEF TaskRecords, Aged
<1> HIDE DEF aged
<1>3. [aged EXCEPT !.recheck = TRUE] \in TaskRecords
  BY <1>2 DEF TaskRecords
<1>4. [aged EXCEPT !.status = "Ready", !.verified = "no", !.recheck = TRUE] \in TaskRecords
  BY <1>2 DEF TaskRecords, TaskStatuses
<1>5. Redirected(k) = CASE k.status \in {"Absent", "Integrated"} -> aged
          [] k.status = "Verified" ->
                [aged EXCEPT !.status = "Ready", !.verified = "no", !.recheck = TRUE]
          [] OTHER -> [aged EXCEPT !.recheck = TRUE]
  BY DEF Redirected, aged
<1> QED
  BY <1>2, <1>3, <1>4, <1>5

LEMMA CompletedType ==
    ASSUME NEW g \in AgentRecords
    PROVE  Completed(g) \in AgentRecords
BY DEF Completed, AgentRecords, AgentStatuses, Work

LEMMA AssignedType ==
    ASSUME NEW g \in AgentRecords, NEW kind, NEW t,
           \/ kind \in {"Implement", "Review"} /\ t \in Tasks
           \/ kind = "Plan" /\ t = NoTask
    PROVE  Assigned(g, kind, t) \in AgentRecords
BY DEF Assigned, AgentRecords, Work

-----------------------------------------------------------------------------
(* Type correctness *)

LEMMA InitType == Init => TypeOK
BY LimitAssumption, NoneAssumption
DEF Init, TypeOK, Statuses, AgentRecords, AgentStatuses, Work, TaskRecords,
    TaskStatuses, Reviews, Integrations

LEMMA OweDriveType ==
    ASSUME drivesDue \in 0..MaxDrives, OweDrive
    PROVE  drivesDue' \in 0..MaxDrives
BY LaterType, LimitAssumption DEF OweDrive

\* The steps of the workers' presence.
LEMMA PresenceType ==
    ASSUME TypeOK, NEW a \in Agents,
           \/ Join(a) \/ Heartbeat(a) \/ Release(a) \/ Remove(a)
           \/ RemoveAgain(a) \/ Restore(a) \/ LeaseLapse(a) \/ AssignmentLapse(a)
    PROVE  TypeOK'
<1>1. ASSUME NEW ag \in [Agents -> AgentRecords]
      PROVE  [ag EXCEPT ![a] = Renewed(@)] \in [Agents -> AgentRecords]
  BY DEF Renewed, AgentRecords, AgentStatuses
<1>2. ExpireAgents(agents) \in [Agents -> AgentRecords]
  BY ExpireAgentsType DEF TypeOK
<1>3. ExpireTasks(agents, tasks) \in [Tasks -> TaskRecords]
  BY ExpireTasksType DEF TypeOK
<1>4. ASSUME Join(a) PROVE TypeOK'
  BY <1>1, <1>2, <1>3, <1>4, OweDriveType DEF TypeOK, Join
<1>5. ASSUME Heartbeat(a) PROVE TypeOK'
  BY <1>1, <1>2, <1>3, <1>5, OweDriveType DEF TypeOK, Heartbeat
<1>6. ASSUME Release(a) PROVE TypeOK'
  <2>1. agents' \in [Agents -> AgentRecords]
    <3>1. [agents[a] EXCEPT !.status = "Released", !.live = FALSE, !.work = NoWork]
            \in AgentRecords
      BY NoWorkType DEF TypeOK, AgentRecords, AgentStatuses
    <3> QED
      BY <1>6, <3>1 DEF TypeOK, Release
  <2>2. tasks' \in [Tasks -> TaskRecords]
    <3> DEFINE t == agents[a].work.task
    <3> DEFINE k == Unclaimed(tasks[t])
    <3>2. t \in Tasks => k \in TaskRecords
      BY UnclaimedType DEF TypeOK
    <3>3. tasks' = IF t = NoTask THEN tasks ELSE Refresh([tasks EXCEPT ![t] = k])
      BY <1>6 DEF Release
    <3> HIDE DEF t, k
    <3>4. tasks \in [Tasks -> TaskRecords]
      BY DEF TypeOK
    <3>5. [tasks EXCEPT ![t] = k] \in [Tasks -> TaskRecords]
      BY <3>2, <3>4, TaskUpdate
    <3>6. Refresh([tasks EXCEPT ![t] = k]) \in [Tasks -> TaskRecords]
      BY <3>5, RefreshType
    <3> QED
      BY <3>3, <3>4, <3>6
  <2> QED
    BY <2>1, <2>2, <1>6, OweDriveType DEF TypeOK, Release
<1>7. ASSUME Remove(a) PROVE TypeOK'
  <2>1. agents' \in [Agents -> AgentRecords]
    <3>1. [status |-> "Removed", acked |-> FALSE, live |-> FALSE, work |-> NoWork]
            \in AgentRecords
      BY NoWorkType DEF AgentRecords, AgentStatuses
    <3> QED
      BY <1>7, <3>1 DEF TypeOK, Remove
  <2>2. tasks' \in [Tasks -> TaskRecords]
    <3>1. ASSUME NEW k \in TaskRecords, NEW o \in Agents \cup {NoOne},
                 NEW r \in Agents \cup {NoOne}, NEW st \in TaskStatuses
          PROVE  [k EXCEPT !.owner = o, !.reviewer = r, !.status = st] \in TaskRecords
      BY DEF TaskRecords
    <3> DEFINE revoked(k) ==
            [k EXCEPT
                !.owner = IF @ = a THEN NoOne ELSE @,
                !.reviewer = IF @ = a THEN NoOne ELSE @,
                !.status = IF \/ k.owner = a /\ @ \in Active
                              \/ k.reviewer = a /\ @ = "Review"
                           THEN "Stale" ELSE @]
    <3>2. ASSUME NEW k \in TaskRecords PROVE revoked(k) \in TaskRecords
      <4>1. /\ k.status \in TaskStatuses /\ "Stale" \in TaskStatuses
            /\ k.owner \in Agents \cup {NoOne} /\ k.reviewer \in Agents \cup {NoOne}
        BY DEF TaskRecords, TaskStatuses
      <4> QED
        BY <3>1, <4>1
    <3>3. [t \in Tasks |-> revoked(tasks[t])] \in [Tasks -> TaskRecords]
      BY <3>2 DEF TypeOK
    <3>4. tasks' = Refresh([t \in Tasks |-> revoked(tasks[t])])
      BY <1>7 DEF Remove
    <3> HIDE DEF revoked
    <3> QED
      BY <3>3, <3>4, RefreshType
  <2> QED
    BY <2>1, <2>2, <1>7, OweDriveType DEF TypeOK, Remove
<1>8. ASSUME RemoveAgain(a) PROVE TypeOK'
  BY <1>8, OweDriveType DEF TypeOK, RemoveAgain, snapshot
<1>9. ASSUME Restore(a) PROVE TypeOK'
  <2>1. [agents[a] EXCEPT !.status = "Present", !.live = FALSE, !.work = NoWork]
          \in AgentRecords
    BY NoWorkType DEF TypeOK, AgentRecords, AgentStatuses
  <2> QED
    BY <1>9, <2>1 DEF TypeOK, Restore, inFlight
<1>10. ASSUME LeaseLapse(a) PROVE TypeOK'
  BY <1>10 DEF TypeOK, LeaseLapse, inFlight, AgentRecords
<1>11. ASSUME AssignmentLapse(a) PROVE TypeOK'
  <2>1. [agents[a].work EXCEPT !.live = FALSE] \in Work
    <3>1. agents[a].work \in Work /\ agents[a].work # NoWork
      BY <1>11 DEF TypeOK, AssignmentLapse, AgentRecords, NoWork
    <3> QED
      BY <3>1, LapsedType
  <2>2. agents' \in [Agents -> AgentRecords]
    BY <2>1, <1>11 DEF TypeOK, AssignmentLapse, AgentRecords
  <2> QED
    BY <2>2, <1>11 DEF TypeOK, AssignmentLapse, inFlight
<1> QED
  BY <1>4, <1>5, <1>6, <1>7, <1>8, <1>9, <1>10, <1>11

LEMMA AssignedTask ==
    ASSUME TypeOK, NEW a \in Agents, agents[a].work.kind \in {"Implement", "Review"}
    PROVE  agents[a].work.task \in Tasks
BY DEF TypeOK, AgentRecords, Work, NoWork

LEMMA PlanningCycleType ==
    ASSUME TypeOK, NEW new \in BOOLEAN, PlanningCycle(new)
    PROVE  missionStatus' \in Statuses /\ planCycles' \in 0..CycleLimit
BY LaterType, LimitAssumption DEF TypeOK, PlanningCycle, Statuses

\* The work of the agents.
LEMMA WorkType ==
    ASSUME TypeOK, NEW a \in Agents
    PROVE  /\ CompletePlan(a) \/ AckContext(a) \/ LandWrite(a) \/ BeginWrite(a) => TypeOK'
           /\ SubmitResult(a) \/ RequestGate(a) => TypeOK'
           /\ \A again \in BOOLEAN : RecordBlocker(a, again) => TypeOK'
           /\ \A accepted, again \in BOOLEAN : SubmitReview(a, accepted, again) => TypeOK'
<1>1. [agents EXCEPT ![a] = Completed(@)] \in [Agents -> AgentRecords]
  BY CompletedType DEF TypeOK
<1>2. tasks \in [Tasks -> TaskRecords]
  BY DEF TypeOK
<1>3. ASSUME CompletePlan(a) PROVE TypeOK'
  BY <1>1, <1>3, PlanningCycleType, OweDriveType DEF TypeOK, CompletePlan
<1>4. ASSUME AckContext(a) PROVE TypeOK'
  <2>1. [agents[a] EXCEPT !.acked = TRUE] \in AgentRecords
    BY DEF TypeOK, AgentRecords
  <2>2. agents' \in [Agents -> AgentRecords]
    BY <1>4, <2>1 DEF TypeOK, AckContext
  <2>3. \A k \in TaskRecords : [k EXCEPT !.recheck = FALSE] \in TaskRecords
    BY DEF TaskRecords
  <2>4. tasks' \in [Tasks -> TaskRecords]
    BY <1>2, <1>4, <2>3 DEF AckContext
  <2> QED
    BY <1>4, <2>2, <2>4 DEF TypeOK, AckContext, inFlight
<1>5. ASSUME LandWrite(a) PROVE TypeOK'
  BY <1>5 DEF TypeOK, LandWrite, snapshot
<1>6. ASSUME BeginWrite(a) PROVE TypeOK'
  BY <1>6, AssignedTask DEF TypeOK, BeginWrite, MayMutate, snapshot
<1>7. ASSUME SubmitResult(a) PROVE TypeOK'
  <2> DEFINE t == agents[a].work.task
  <2>1. t \in Tasks => [tasks[t] EXCEPT !.status = "Review"] \in TaskRecords
    BY <1>2 DEF TaskRecords, TaskStatuses
  <2>2. [tasks EXCEPT ![t].status = "Review"] \in [Tasks -> TaskRecords]
    BY <1>2, <2>1
  <2>3. tasks' \in [Tasks -> TaskRecords]
    BY <1>7, <2>2, RefreshType DEF SubmitResult
  <2> QED
    BY <1>1, <1>7, <2>3, OweDriveType DEF TypeOK, SubmitResult
<1>8. ASSUME NEW again \in BOOLEAN, RecordBlocker(a, again) PROVE TypeOK'
  <2> DEFINE t == agents[a].work.task
             k == Failed(tasks[t], again)
  <2>1. t \in Tasks => k \in TaskRecords
    BY <1>2, FailedType
  <2>2. tasks' = Refresh([tasks EXCEPT ![t] = k])
    BY <1>8 DEF RecordBlocker
  <2> HIDE DEF t, k
  <2>3. tasks' \in [Tasks -> TaskRecords]
    BY <1>2, <2>1, <2>2, TaskUpdate, RefreshType
  <2> QED
    BY <1>1, <1>8, <2>3, OweDriveType DEF TypeOK, RecordBlocker, Statuses
<1>9. ASSUME NEW accepted \in BOOLEAN, NEW again \in BOOLEAN,
             SubmitReview(a, accepted, again)
      PROVE  TypeOK'
  <2> DEFINE t == agents[a].work.task
             yes == [tasks[t] EXCEPT !.reviewer = a, !.review = [by |-> a, fresh |-> TRUE]]
             no == Failed([tasks[t] EXCEPT !.review = NoReview], again)
  <2>0. [by |-> a, fresh |-> TRUE] \in Reviews
    BY DEF Reviews
  <2>1. t \in Tasks => yes \in TaskRecords
    <3>1. ASSUME NEW k \in TaskRecords, NEW r \in Reviews
          PROVE  [k EXCEPT !.reviewer = a, !.review = r] \in TaskRecords
      BY DEF TaskRecords
    <3> QED
      BY <1>2, <2>0, <3>1
  <2>2. t \in Tasks => [tasks[t] EXCEPT !.review = NoReview] \in TaskRecords
    BY <1>2 DEF TaskRecords, Reviews
  <2>3. t \in Tasks => no \in TaskRecords
    BY <2>2, FailedType
  <2>4. \/ tasks' = [tasks EXCEPT ![t] = yes]
        \/ tasks' = Refresh([tasks EXCEPT ![t] = no])
    BY <1>9 DEF SubmitReview
  <2> HIDE DEF t, yes, no
  <2>5. tasks' \in [Tasks -> TaskRecords]
    BY <1>2, <2>1, <2>3, <2>4, TaskUpdate, RefreshType
  <2>6. missionStatus' \in Statuses
    BY <1>9 DEF SubmitReview, TypeOK, Statuses
  <2> QED
    BY <1>1, <1>9, <2>5, <2>6, OweDriveType DEF TypeOK, SubmitReview
<1>10. ASSUME RequestGate(a) PROVE TypeOK'
  <2> DEFINE t == agents[a].work.task
             k == [tasks[t] EXCEPT !.gates = @ \cup {a}]
  <2>1. t \in Tasks => k \in TaskRecords
    BY <1>2, GatedType
  <2>2. tasks' = [tasks EXCEPT ![t] = k]
    BY <1>10 DEF RequestGate
  <2> HIDE DEF t, k
  <2>3. tasks' \in [Tasks -> TaskRecords]
    BY <1>2, <2>1, <2>2, TaskUpdate
  <2> QED
    BY <1>1, <1>10, <2>3, OweDriveType DEF TypeOK, RequestGate
<1> QED
  BY <1>3, <1>4, <1>5, <1>6, <1>7, <1>8, <1>9, <1>10

\* The work of the agents on a task they name.
LEMMA TaskWorkType ==
    ASSUME TypeOK, NEW a \in Agents, NEW t \in Tasks
    PROVE  /\ ClaimTask(a, t) \/ AttachEvidence(a, t) => TypeOK'
           /\ \A deps \in SUBSET Tasks : Propose(a, t, deps) => TypeOK'
           /\ \A sufficient \in BOOLEAN : EvaluateTask(a, t, sufficient) => TypeOK'
<1>1. tasks \in [Tasks -> TaskRecords] /\ tasks[t] \in TaskRecords
  BY DEF TypeOK
<1>2. agents \in [Agents -> AgentRecords] /\ agents[a] \in AgentRecords
  BY DEF TypeOK
<1>3. ASSUME ClaimTask(a, t) PROVE TypeOK'
  <2>1. [tasks EXCEPT ![t] = Claimed(@, a)] \in [Tasks -> TaskRecords]
    BY <1>1, ClaimedType
  <2>2. tasks' \in [Tasks -> TaskRecords]
    BY <1>3, <2>1, RefreshType DEF ClaimTask
  <2>3. agents' \in [Agents -> AgentRecords]
    BY <1>2, <1>3, AssignedType DEF ClaimTask
  <2> QED
    BY <1>3, <2>2, <2>3 DEF TypeOK, ClaimTask, inFlight
<1>4. ASSUME AttachEvidence(a, t) PROVE TypeOK'
  <2>1. [tasks[t] EXCEPT !.evidence = @ \cup {"fresh"}] \in TaskRecords
    BY <1>1 DEF TaskRecords
  <2>2. tasks' \in [Tasks -> TaskRecords]
    BY <1>1, <1>4, <2>1 DEF AttachEvidence
  <2> QED
    BY <1>4, <2>2 DEF TypeOK, AttachEvidence, inFlight
<1>5. ASSUME NEW deps \in SUBSET Tasks, Propose(a, t, deps) PROVE TypeOK'
  <2>1. [tasks EXCEPT ![t] = Proposed(@, deps)] \in [Tasks -> TaskRecords]
    BY <1>1, ProposedType
  <2>2. tasks' \in [Tasks -> TaskRecords]
    BY <1>5, <2>1, RefreshType DEF Propose
  <2>3. agents' \in [Agents -> AgentRecords]
    BY <1>2, <1>5, CompletedType DEF Propose
  <2>4. missionStatus' \in Statuses /\ planCycles' \in 0..CycleLimit
    <3>1. CASE agents[a].work.kind = "Plan"
      <4>1. PlanningCycle(tasks[t].status = "Absent")
        BY <1>5, <3>1 DEF Propose
      <4> QED
        BY <4>1, PlanningCycleType
    <3>2. CASE agents[a].work.kind # "Plan"
      BY <1>5, <3>2 DEF Propose, TypeOK
    <3> QED
      BY <3>1, <3>2
  <2> QED
    BY <1>5, <2>2, <2>3, <2>4, OweDriveType DEF TypeOK, Propose
<1>6. ASSUME NEW sufficient \in BOOLEAN, EvaluateTask(a, t, sufficient) PROVE TypeOK'
  <2>1. [tasks[t] EXCEPT !.status = "Verified", !.verified = "fresh", !.owner = NoOne]
            \in TaskRecords
    BY <1>1 DEF TaskRecords, TaskStatuses
  <2>2. tasks' \in [Tasks -> TaskRecords]
    BY <1>1, <1>6, <2>1 DEF EvaluateTask
  <2>3. integrations' \subseteq Integrations
    <3>1. [task |-> t, stage |-> "begin", current |-> TRUE] \in Integrations
      BY DEF Integrations
    <3> QED
      BY <1>6, <3>1 DEF EvaluateTask, TypeOK
  <2>4. drivesDue' \in 0..MaxDrives
    BY <1>6, OweDriveType DEF EvaluateTask, TypeOK
  <2> QED
    BY <1>6, <2>2, <2>3, <2>4 DEF TypeOK, EvaluateTask
<1> QED
  BY <1>3, <1>4, <1>5, <1>6

\* The integration of a verified task.
LEMMA IntegrationType ==
    ASSUME TypeOK, NEW i \in integrations
    PROVE  /\ BeginIntegration(i) \/ RefuseIntegration(i) => TypeOK'
           /\ IntegrationApplied(i) => TypeOK'
           /\ IntegrationUndone(i) => TypeOK'
           /\ ResetOverlay(i) => TypeOK'
           /\ IntegrationAmbiguous(i) => TypeOK'
<1> DEFINE t == i.task
           k == tasks[t]
<1>1. tasks \in [Tasks -> TaskRecords] /\ i \in Integrations /\ t \in Tasks
      /\ k \in TaskRecords
  BY DEF TypeOK, Integrations
<1>2. ASSUME NEW stage \in {"begin", "apply", "reset"}, Advance(i, stage)
      PROVE  integrations' \subseteq Integrations
  <2>1. [i EXCEPT !.stage = stage] \in Integrations
    BY <1>1 DEF Integrations
  <2> QED
    BY <1>2, <2>1 DEF TypeOK, Advance
<1>3. Finish(i) => integrations' \subseteq Integrations
  BY DEF TypeOK, Finish
<1>4. ASSUME NEW s \in TaskStatuses, NEW v \in {"no", "fresh", "stale"}
      PROVE  /\ [k EXCEPT !.status = s, !.owner = NoOne, !.reviewer = NoOne] \in TaskRecords
             /\ [k EXCEPT !.status = s, !.verified = v, !.owner = NoOne,
                          !.reviewer = NoOne] \in TaskRecords
  BY <1>1 DEF TaskRecords
<1>5. {"Ready", "Integrated", "Stale"} \subseteq TaskStatuses
  BY DEF TaskStatuses
<1>6. ASSUME BeginIntegration(i) \/ RefuseIntegration(i) PROVE TypeOK'
  BY <1>2, <1>3, <1>6 DEF TypeOK, BeginIntegration, RefuseIntegration, snapshot
<1>7. ASSUME IntegrationApplied(i) PROVE TypeOK'
  <2> DEFINE done == [k EXCEPT !.status = "Integrated", !.owner = NoOne,
                               !.reviewer = NoOne]
  <2>1. [tasks EXCEPT ![t] = done] \in [Tasks -> TaskRecords]
    BY <1>1, <1>4, <1>5
  <2>2. tasks' = Refresh([tasks EXCEPT ![t] = done]) \/ tasks' = tasks
    BY <1>7 DEF IntegrationApplied
  <2> HIDE DEF done
  <2>3. tasks' \in [Tasks -> TaskRecords]
    BY <1>1, <2>1, <2>2, RefreshType
  <2>4. drivesDue' \in 0..MaxDrives
    BY <1>7, OweDriveType DEF IntegrationApplied, TypeOK
  <2> QED
    BY <1>3, <1>7, <2>3, <2>4 DEF TypeOK, IntegrationApplied
<1>8. ASSUME IntegrationUndone(i) PROVE TypeOK'
  <2> DEFINE undone == [k EXCEPT !.status = "Ready", !.verified = "no",
                                 !.owner = NoOne, !.reviewer = NoOne]
  <2>1. [tasks EXCEPT ![t] = undone] \in [Tasks -> TaskRecords]
    BY <1>1, <1>4, <1>5
  <2>2. tasks' = Refresh([tasks EXCEPT ![t] = undone])
    BY <1>8 DEF IntegrationUndone
  <2> HIDE DEF undone
  <2>3. tasks' \in [Tasks -> TaskRecords]
    BY <1>1, <2>1, <2>2, RefreshType
  <2> QED
    BY <1>2, <1>8, <2>3 DEF TypeOK, IntegrationUndone
<1>9. ASSUME ResetOverlay(i) PROVE TypeOK'
  BY <1>1, <1>3, <1>9, OweDriveType DEF TypeOK, ResetOverlay, snapshot
<1>10. ASSUME IntegrationAmbiguous(i) PROVE TypeOK'
  <2>1. [tasks EXCEPT ![t] = [k EXCEPT !.status = "Stale", !.verified = "no",
                                       !.owner = NoOne, !.reviewer = NoOne]]
            \in [Tasks -> TaskRecords]
    BY <1>1, <1>4, <1>5
  <2>2. tasks' \in [Tasks -> TaskRecords]
    BY <1>1, <1>10, <2>1 DEF IntegrationAmbiguous
  <2> QED
    BY <1>3, <1>10, <2>2 DEF TypeOK, IntegrationAmbiguous
<1> QED
  BY <1>6, <1>7, <1>8, <1>9, <1>10

\* A restart, and what the human does to the whole mission.
LEMMA MissionType ==
    ASSUME TypeOK, Restart \/ Pause \/ Resume \/ Stop \/ Directive
    PROVE  TypeOK'
<1>1. tasks \in [Tasks -> TaskRecords] /\ agents \in [Agents -> AgentRecords]
  BY DEF TypeOK
<1>2. ASSUME Restart PROVE TypeOK'
  BY <1>2, LimitAssumption DEF TypeOK, Restart, snapshot
<1>3. ASSUME Pause PROVE TypeOK'
  BY <1>3 DEF TypeOK, Pause, inFlight, Statuses
<1>4. ASSUME Resume PROVE TypeOK'
  BY <1>4, OweDriveType DEF TypeOK, Resume, Statuses
<1>5. ASSUME Stop PROVE TypeOK'
  <2>1. ASSUME NEW g \in AgentRecords
        PROVE  [g EXCEPT !.work = NoWork,
                         !.status = IF @ = "Released" THEN "Present" ELSE @] \in AgentRecords
    <3>1. ASSUME NEW s \in AgentStatuses
          PROVE  [g EXCEPT !.work = NoWork, !.status = s] \in AgentRecords
      BY NoWorkType DEF AgentRecords
    <3>2. g.status \in AgentStatuses /\ "Present" \in AgentStatuses
      BY DEF AgentRecords, AgentStatuses
    <3> QED
      BY <3>1, <3>2
  <2>2. agents' \in [Agents -> AgentRecords]
    BY <1>1, <1>5, <2>1 DEF Stop
  <2>3. ASSUME NEW k \in TaskRecords
        PROVE  [k EXCEPT !.status = "Stale", !.owner = NoOne, !.reviewer = NoOne]
                    \in TaskRecords
    BY DEF TaskRecords, TaskStatuses
  <2>4. tasks' \in [Tasks -> TaskRecords]
    BY <1>1, <1>5, <2>3 DEF Stop
  <2> QED
    BY <1>5, <2>2, <2>4 DEF TypeOK, Stop, inFlight, Statuses
<1>6. ASSUME Directive PROVE TypeOK'
  <2>1. [t \in Tasks |-> Redirected(tasks[t])] \in [Tasks -> TaskRecords]
    BY <1>1, RedirectedType
  <2>2. tasks' \in [Tasks -> TaskRecords]
    BY <1>6, <2>1, RefreshType DEF Directive
  <2>3. ASSUME NEW g \in AgentRecords PROVE [g EXCEPT !.acked = FALSE] \in AgentRecords
    BY DEF AgentRecords
  <2>4. agents' \in [Agents -> AgentRecords]
    BY <1>1, <1>6, <2>3 DEF Directive
  <2>5. ASSUME NEW i \in Integrations
        PROVE  [i EXCEPT !.current = (i.stage # "apply")] \in Integrations
    BY DEF Integrations
  <2>6. integrations' \subseteq Integrations
    BY <1>6, <2>5 DEF TypeOK, Directive
  <2>7. overlays' \in [Tasks -> {"none", "fresh", "stale"}]
    BY <1>6 DEF Directive
  <2>8. writes' \in [Agents -> Tasks \cup {NoTask}]
    BY <1>6 DEF Directive
  <2> QED
    BY <1>6, <2>2, <2>4, <2>6, <2>7, <2>8, OweDriveType DEF TypeOK, Directive
<1> QED
  BY <1>2, <1>3, <1>4, <1>5, <1>6

LEMMA StaffedType ==
    ASSUME NEW ts \in [Tasks -> TaskRecords], NEW job, DOMAIN job \subseteq Agents
    PROVE  Staffed(ts, job) \in [Tasks -> TaskRecords]
<1> DEFINE chosen(t) == CHOOSE b \in DOMAIN job : job[b] = t
           given(t) == IF \E a \in DOMAIN job : job[a] = t
                       THEN IF ts[t].status = "Ready" THEN Claimed(ts[t], chosen(t))
                            ELSE [ts[t] EXCEPT !.reviewer = chosen(t)]
                       ELSE ts[t]
<1>1. ASSUME NEW t \in Tasks, \E a \in DOMAIN job : job[a] = t PROVE chosen(t) \in Agents
  BY <1>1
<1>2. ASSUME NEW k \in TaskRecords, NEW a \in Agents
      PROVE  [k EXCEPT !.reviewer = a] \in TaskRecords
  BY DEF TaskRecords
<1>3. ASSUME NEW t \in Tasks PROVE given(t) \in TaskRecords
  <2> HIDE DEF chosen
  <2> QED
    BY <1>1, <1>2, ClaimedType
<1>4. [t \in Tasks |-> given(t)] \in [Tasks -> TaskRecords]
  BY <1>3
<1>5. Staffed(ts, job) = Refresh([t \in Tasks |-> given(t)])
  BY DEF Staffed
<1> HIDE DEF given
<1> QED
  BY <1>4, <1>5, RefreshType

LEMMA DispatchedType ==
    ASSUME NEW ag \in [Agents -> AgentRecords], NEW ts, NEW planner,
           NEW free \in SUBSET Agents, NEW job \in [free -> Tasks \cup {NoTask}]
    PROVE  Dispatched(ag, job, planner, ts) \in [Agents -> AgentRecords]
<1>1. ASSUME NEW a \in Agents, NEW kind \in {"Implement", "Review"}, NEW t \in Tasks
      PROVE  Assigned(ag[a], kind, t) \in AgentRecords
  BY AssignedType
<1>2. ASSUME NEW a \in Agents PROVE Assigned(ag[a], "Plan", NoTask) \in AgentRecords
  BY AssignedType
<1> QED
  BY <1>1, <1>2 DEF Dispatched

\* The scheduler.
LEMMA TickType == TypeOK /\ Tick => TypeOK'
<1> SUFFICES ASSUME TypeOK, Tick PROVE TypeOK'
  OBVIOUS
<1>1. drivesDue > 0 => drivesDue - 1 \in 0..MaxDrives
  BY LimitAssumption DEF TypeOK
<1>2. CASE TickHeld
  BY <1>1, <1>2 DEF TypeOK, TickHeld, snapshot
<1>3. CASE TickAborts
  BY <1>1, <1>3 DEF TypeOK, TickAborts, snapshot
<1>4. CASE TickSchedules
  <2> DEFINE ag == ExpireAgents(agents)
             ts == ExpireTasks(agents, tasks)
             free == {a \in Agents : Available(ag[a])}
             open == {t \in Tasks : ts[t].status = "Ready"} \cup AwaitsReview(ag, ts)
  <2>1. ag \in [Agents -> AgentRecords] /\ ts \in [Tasks -> TaskRecords]
    BY ExpireAgentsType, ExpireTasksType DEF TypeOK
  <2>2. PICK job \in [free -> open \cup {NoTask}], planner \in Agents \cup {NoOne} :
            /\ tasks' = Staffed(ts, job)
            /\ agents' = Dispatched(ag, job, planner, ts)
    BY <1>4 DEF TickSchedules
  <2>3. free \subseteq Agents /\ job \in [free -> Tasks \cup {NoTask}]
    BY DEF AwaitsReview
  <2> HIDE DEF ag, ts, free, open
  <2>4. tasks' \in [Tasks -> TaskRecords]
    BY <2>1, <2>2, <2>3, StaffedType
  <2>5. agents' \in [Agents -> AgentRecords]
    BY <2>1, <2>2, <2>3, DispatchedType
  <2>6. missionStatus' \in Statuses
    BY <1>4 DEF TickSchedules, TypeOK, Statuses
  <2> QED
    BY <1>1, <1>4, <2>4, <2>5, <2>6 DEF TypeOK, TickSchedules
<1> QED
  BY <1>2, <1>3, <1>4 DEF Tick

LEMMA TypeStep == TypeOK /\ [Next]_vars => TypeOK'
<1> SUFFICES ASSUME TypeOK, [Next]_vars PROVE TypeOK'
  OBVIOUS
<1>1. CASE WorkerStep
  BY <1>1, PresenceType, WorkType, TaskWorkType DEF WorkerStep
<1>2. CASE IntegrationStep
  BY <1>2, IntegrationType DEF IntegrationStep
<1>3. CASE Tick
  BY <1>3, TickType
<1>4. CASE HumanStep
  BY <1>4, MissionType, PresenceType DEF HumanStep
<1>5. CASE Environment
  BY <1>5, MissionType, PresenceType DEF Environment
<1>6. CASE UNCHANGED vars
  BY <1>6 DEF TypeOK, vars
<1> QED
  BY <1>1, <1>2, <1>3, <1>4, <1>5, <1>6 DEF Next

\* Every reachable snapshot is well typed, and so are the overlays and what is
\* in flight: in particular an assignment always names its task, a planning one
\* never does, and the review of a task names an agent.
THEOREM TypeCorrect == Spec => []TypeOK
BY InitType, TypeStep, PTL DEF Spec

=============================================================================
