---------------------------- MODULE MissionSteps ----------------------------
(***************************************************************************)
(* What the steps of MissionWork do to the record of a task, and to the    *)
(* slots in use, for every set of agents and tasks: every saved snapshot   *)
(* is valid, merged work is kept, a tick stays within its slots, the whole *)
(* mission implements TaskPromise, and abandoned tasks return.             *)
(***************************************************************************)
EXTENDS MissionSafety, FiniteSetTheorems

-----------------------------------------------------------------------------
(* Steps of one record *)

\* What validate asks of one task by itself.
ValidTask(k) ==
    /\ CASE k.status = "Verified" -> k.verified = "fresh"
         [] k.status = "Integrated" -> k.verified # "no"
         [] OTHER -> k.verified = "no"
    /\ k.review # NoReview => k.review.by # k.author /\ k.evidence # {}

\* The step of a record that does not need a reason: it stays valid, is not forgotten,
\* keeps its dependencies and is not reopened once integrated.
Sound(k, l) ==
    /\ ValidTask(k) => ValidTask(l)
    /\ k.status # "Absent" => l.status # "Absent"
    /\ l.deps = k.deps
    /\ k.status = "Integrated" => l.status = "Integrated"

SoundStep(ts, ts2) == \A t \in Tasks : Sound(ts[t], ts2[t])

\* The steps that need one: new dependencies are known tasks, and an integrated task is
\* reopened by the end of an older integration.
Steps(t) ==
    LET k == tasks[t]
        l == tasks'[t]
    IN  /\ ValidTask(k) => ValidTask(l)
        /\ k.status # "Absent" => l.status # "Absent"
        /\ \A d \in l.deps \ k.deps : tasks[d].status # "Absent"
        /\ k.status = "Integrated" /\ l.status # "Integrated" =>
                \E i \in integrations : i.task = t /\ i.stage = "apply"

\* Such steps compose,
LEMMA SoundTwice ==
    ASSUME NEW k, NEW l, NEW m, Sound(k, l), Sound(l, m)
    PROVE  Sound(k, m)
BY DEF Sound

\* of one record and of all of them,
LEMMA SoundTwiceAll ==
    ASSUME NEW ts, NEW ts2, NEW ts3, SoundStep(ts, ts2), SoundStep(ts2, ts3)
    PROVE  SoundStep(ts, ts3)
BY SoundTwice DEF SoundStep

\* and they are among the steps a mission may take.
LEMMA SoundSteps ==
    ASSUME SoundStep(tasks, tasks'), NEW t \in Tasks
    PROVE  Steps(t)
BY DEF SoundStep, Sound, Steps

\* A status that says nothing of a verdict, in a record that keeps what validate reads.
LEMMA SoundStatus ==
    ASSUME NEW k \in TaskRecords, NEW l \in TaskRecords, l.deps = k.deps,
           l.review = k.review, l.author = k.author, l.evidence = k.evidence,
           l.verified = k.verified,
           \/ l.status = k.status
           \/ k.status \notin Done /\ l.status \notin Done \cup {"Absent"}
    PROVE  Sound(k, l)
BY DEF Sound, ValidTask, Done

\* A change of one record.
LEMMA SoundOne ==
    ASSUME NEW ts \in [Tasks -> TaskRecords], NEW t \in Tasks, NEW k, Sound(ts[t], k)
    PROVE  SoundStep(ts, [ts EXCEPT ![t] = k])
BY DEF SoundStep, Sound

\* The refresh of the ready list only moves tasks that have not started.
LEMMA SoundRefresh ==
    ASSUME NEW ts \in [Tasks -> TaskRecords]
    PROVE  SoundStep(ts, Refresh(ts))
<1> SUFFICES ASSUME NEW t \in Tasks PROVE Sound(ts[t], Refresh(ts)[t])
  BY DEF SoundStep
<1>1. CASE ts[t].status \in Unstarted
  <2>1. PICK s \in {"Ready", "BlockedDependency"} :
            Refresh(ts)[t] = [ts[t] EXCEPT !.status = s]
    BY <1>1, RefreshFacts
  <2>2. [ts[t] EXCEPT !.status = s] \in TaskRecords
    BY DEF TaskRecords, TaskStatuses
  <2>3. Sound(ts[t], [ts[t] EXCEPT !.status = s])
    BY <1>1, <2>2, SoundStatus DEF TaskRecords, Unstarted, Done
  <2> QED BY <2>1, <2>3
<1>2. CASE ts[t].status \notin Unstarted
  BY <1>2, RefreshFacts DEF Sound
<1> QED BY <1>1, <1>2

\* A change of one record, followed by a refresh.
LEMMA SoundUpdate ==
    ASSUME NEW ts \in [Tasks -> TaskRecords], NEW t \in Tasks, NEW k \in TaskRecords,
           Sound(ts[t], k)
    PROVE  SoundStep(ts, Refresh([ts EXCEPT ![t] = k]))
<1> DEFINE ts2 == [ts EXCEPT ![t] = k]
<1>1. SoundStep(ts, ts2) BY SoundOne
<1>2. ts2 \in [Tasks -> TaskRecords] OBVIOUS
<1> HIDE DEF ts2
<1>3. SoundStep(ts2, Refresh(ts2)) BY <1>2, SoundRefresh
<1>4. SoundStep(ts, Refresh(ts2)) BY <1>1, <1>3, SoundTwiceAll
<1> QED BY <1>4 DEF ts2

\* The expiry pass gives tasks back.
LEMMA SoundExpiry ==
    ASSUME NEW ag, NEW ts \in [Tasks -> TaskRecords]
    PROVE  SoundStep(ts, ExpireTasks(ag, ts))
<1> DEFINE lapsed(t) == /\ ts[t].status = "InProgress"
                        /\ \E a \in Agents : /\ ts[t].owner = a
                                             /\ ag[a].work.task = t
                                             /\ LapsedWork(ag[a])
           back(t) == [ts[t] EXCEPT !.status = "Proposed", !.owner = NoOne]
           ts2 == [t \in Tasks |-> IF lapsed(t) THEN back(t) ELSE ts[t]]
<1>1. ASSUME NEW t \in Tasks
      PROVE  /\ back(t) \in TaskRecords
             /\ ts[t].status = "InProgress" => Sound(ts[t], back(t))
  <2>1. ASSUME NEW k \in TaskRecords, NEW l, l = [k EXCEPT !.status = "Proposed", !.owner = NoOne]
        PROVE  l \in TaskRecords /\ (k.status = "InProgress" => Sound(k, l))
    <3>1. l \in TaskRecords BY <2>1 DEF TaskRecords, TaskStatuses
    <3> QED BY <2>1, <3>1, SoundStatus DEF TaskRecords, Done
  <2> QED BY <2>1
<1>2. ASSUME NEW t \in Tasks, ts[t].status = "InProgress" PROVE Sound(ts[t], back(t))
  BY <1>1, <1>2
<1>3. \A t \in Tasks : lapsed(t) => ts[t].status = "InProgress"
  OBVIOUS
<1>4. ExpireTasks(ag, ts) = Refresh(ts2)
  BY DEF ExpireTasks
<1> HIDE DEF lapsed, back
<1>5. ts2 \in [Tasks -> TaskRecords]
  BY <1>1
<1>6. SoundStep(ts, ts2)
  BY <1>2, <1>3 DEF SoundStep, Sound
<1> HIDE DEF ts2
<1> QED BY <1>4, <1>5, <1>6, SoundRefresh, SoundTwiceAll

\* The steps of the records that the handlers make.
LEMMA SoundRecords ==
    ASSUME NEW k \in TaskRecords
    PROVE  /\ Sound(k, Unclaimed(k))
           /\ \A a \in Agents : k.status = "Ready" => Sound(k, Claimed(k, a))
           /\ \A again \in BOOLEAN : k.status \in Active => Sound(k, Failed(k, again))
           /\ Sound(k, Redirected(k))
<1>1. Sound(k, Unclaimed(k))
  <2>1. Unclaimed(k) \in TaskRecords BY UnclaimedType
  <2>2. /\ Unclaimed(k).deps = k.deps /\ Unclaimed(k).review = k.review
        /\ Unclaimed(k).author = k.author /\ Unclaimed(k).evidence = k.evidence
        /\ Unclaimed(k).verified = k.verified
        /\ Unclaimed(k).status = IF k.status \in {"InProgress", "Stale"} THEN "Proposed"
                                 ELSE k.status
    BY DEF Unclaimed, TaskRecords
  <2> QED BY <2>1, <2>2, SoundStatus DEF Done
<1>2. ASSUME NEW a \in Agents, k.status = "Ready" PROVE Sound(k, Claimed(k, a))
  BY <1>2 DEF Sound, ValidTask, Claimed, TaskRecords
<1>3. ASSUME NEW again \in BOOLEAN, k.status \in Active PROVE Sound(k, Failed(k, again))
  <2>1. Failed(k, again) \in TaskRecords BY FailedType
  <2>2. /\ Failed(k, again).deps = k.deps /\ Failed(k, again).review = k.review
        /\ Failed(k, again).author = k.author /\ Failed(k, again).evidence = k.evidence
        /\ Failed(k, again).verified = k.verified
        /\ Failed(k, again).status \in {"Stale", "Proposed"}
    BY DEF Failed, TaskRecords
  <2> QED BY <1>3, <2>1, <2>2, SoundStatus DEF Done, Active
<1>4. Sound(k, Redirected(k))
  <2> DEFINE review == [by |-> k.review.by, fresh |-> FALSE]
             aged == [k EXCEPT !.review = review, !.evidence = Aged(@),
                               !.verified = IF @ = "no" THEN "no" ELSE "stale"]
  <2>1. /\ aged.status = k.status /\ aged.deps = k.deps /\ aged.author = k.author
        /\ aged.review = review /\ aged.evidence = Aged(k.evidence)
        /\ aged.verified = (IF k.verified = "no" THEN "no" ELSE "stale")
    BY DEF TaskRecords
  <2>2. k.review # NoReview /\ review # NoReview => review.by = k.review.by
    OBVIOUS
  <2>3. k.review = NoReview => review = NoReview
    BY DEF NoReview
  <2>4. k.evidence # {} => Aged(k.evidence) # {}
    BY DEF Aged
  <2>5. /\ Redirected(k).deps = k.deps /\ Redirected(k).author = k.author
        /\ Redirected(k).review = review /\ Redirected(k).evidence = Aged(k.evidence)
        /\ Redirected(k).status = IF k.status = "Verified" THEN "Ready" ELSE k.status
        /\ Redirected(k).verified = IF k.status = "Verified" \/ k.verified = "no" THEN "no"
                                    ELSE "stale"
    BY DEF Redirected, TaskRecords
  <2> HIDE DEF review, aged
  <2>6. ValidTask(k) => ValidTask(Redirected(k))
    BY <2>2, <2>3, <2>4, <2>5, RedirectedType DEF ValidTask, TaskRecords, TaskStatuses, review
  <2> QED BY <2>5, <2>6 DEF Sound
<1> QED BY <1>1, <1>2, <1>3, <1>4

\* Whatever leaves the tasks alone.
LEMMA SoundUnchanged ==
    ASSUME UNCHANGED tasks
    PROVE  SoundStep(tasks, tasks')
BY DEF SoundStep, Sound

-----------------------------------------------------------------------------
(* Every step *)

\* Presence: what a worker or a human does to leases and assignments.
LEMMA PresenceSound ==
    ASSUME TypeOK, NEW a \in Agents,
           \/ Join(a) \/ Heartbeat(a) \/ Release(a) \/ Remove(a)
           \/ RemoveAgain(a) \/ Restore(a) \/ LeaseLapse(a) \/ AssignmentLapse(a)
    PROVE  SoundStep(tasks, tasks')
<1>1. tasks \in [Tasks -> TaskRecords] /\ agents \in [Agents -> AgentRecords]
  BY DEF TypeOK
<1>2. CASE Join(a) \/ Heartbeat(a)
  BY <1>1, <1>2, SoundExpiry, SoundUnchanged DEF Join, Heartbeat
<1>3. CASE Release(a)
  <2> DEFINE u == agents[a].work.task
  <2>1. CASE u = NoTask
    BY <1>3, <2>1, SoundUnchanged DEF Release
  <2>2. CASE u # NoTask
    <3>1. u \in Tasks
      BY <1>1, <2>2 DEF AgentRecords, Work, NoWork
    <3>2. tasks' = Refresh([tasks EXCEPT ![u] = Unclaimed(tasks[u])])
      BY <1>3, <2>2 DEF Release
    <3> HIDE DEF u
    <3> QED BY <1>1, <3>1, <3>2, SoundUpdate, SoundRecords, UnclaimedType
  <2> QED BY <2>1, <2>2
<1>4. CASE Remove(a)
  <2> DEFINE leave(k) ==
        [k EXCEPT !.owner = IF @ = a THEN NoOne ELSE @,
                  !.reviewer = IF @ = a THEN NoOne ELSE @,
                  !.status = IF \/ k.owner = a /\ @ \in Active
                                \/ k.reviewer = a /\ @ = "Review"
                             THEN "Stale" ELSE @]
             ts2 == [t \in Tasks |-> leave(tasks[t])]
  <2>1. ASSUME NEW k \in TaskRecords PROVE leave(k) \in TaskRecords /\ Sound(k, leave(k))
    <3>1. leave(k) \in TaskRecords
      BY DEF TaskRecords, TaskStatuses
    <3>2. /\ leave(k).deps = k.deps /\ leave(k).review = k.review
          /\ leave(k).author = k.author /\ leave(k).evidence = k.evidence
          /\ leave(k).verified = k.verified
          /\ \/ leave(k).status = k.status
             \/ k.status \in Active /\ leave(k).status = "Stale"
      BY DEF TaskRecords, Active
    <3> HIDE DEF leave
    <3> QED BY <3>1, <3>2, SoundStatus DEF Active, Done
  <2>2. tasks' = Refresh(ts2)
    BY <1>4 DEF Remove
  <2> HIDE DEF leave
  <2>3. ts2 \in [Tasks -> TaskRecords] /\ SoundStep(tasks, ts2)
    BY <1>1, <2>1 DEF SoundStep
  <2> HIDE DEF ts2
  <2> QED BY <2>2, <2>3, SoundRefresh, SoundTwiceAll
<1>5. CASE RemoveAgain(a) \/ Restore(a) \/ LeaseLapse(a) \/ AssignmentLapse(a)
  BY <1>5, SoundUnchanged DEF RemoveAgain, Restore, LeaseLapse, AssignmentLapse, snapshot
<1> QED BY <1>2, <1>3, <1>4, <1>5

\* What a worker does about the task it was assigned.
LEMMA WorkSound ==
    ASSUME TypeOK, NEW a \in Agents,
           \/ CompletePlan(a) \/ AckContext(a) \/ BeginWrite(a) \/ LandWrite(a)
           \/ SubmitResult(a) \/ RequestGate(a)
           \/ \E again \in BOOLEAN : RecordBlocker(a, again)
           \/ \E accepted, again \in BOOLEAN : SubmitReview(a, accepted, again)
    PROVE  SoundStep(tasks, tasks')
<1> DEFINE u == agents[a].work.task
<1>1. tasks \in [Tasks -> TaskRecords] /\ agents \in [Agents -> AgentRecords]
  BY DEF TypeOK
<1>2. CASE CompletePlan(a) \/ BeginWrite(a) \/ LandWrite(a)
  BY <1>2, SoundUnchanged DEF CompletePlan, BeginWrite, LandWrite, snapshot
<1>3. CASE AckContext(a)
  <2>1. ASSUME NEW k \in TaskRecords PROVE Sound(k, [k EXCEPT !.recheck = FALSE])
    <3>1. [k EXCEPT !.recheck = FALSE] \in TaskRecords
      BY DEF TaskRecords
    <3> QED BY <3>1, SoundStatus DEF TaskRecords
  <2>2. ASSUME NEW t \in Tasks PROVE tasks'[t] \in {tasks[t], [tasks[t] EXCEPT !.recheck = FALSE]}
    BY <1>3 DEF AckContext
  <2> QED BY <1>1, <2>1, <2>2 DEF SoundStep, Sound
<1>4. ASSUME NEW kinds, kinds \subseteq {"Implement", "Review"}, Working(a, kinds)
      PROVE  u \in Tasks /\ tasks[u] \in TaskRecords
  BY <1>1, <1>4 DEF Working, AgentRecords, Work, NoWork
<1>5. CASE SubmitResult(a)
  <2> DEFINE k == [tasks[u] EXCEPT !.status = "Review"]
  <2>1. u \in Tasks /\ tasks[u] \in TaskRecords /\ tasks[u].status = "InProgress"
    BY <1>4, <1>5 DEF SubmitResult
  <2>2. k \in TaskRecords /\ Sound(tasks[u], k)
    <3>1. k \in TaskRecords BY <2>1 DEF TaskRecords, TaskStatuses
    <3> QED BY <2>1, <3>1, SoundStatus DEF TaskRecords, Done
  <2>3. tasks' = Refresh([tasks EXCEPT ![u] = k])
    BY <1>5 DEF SubmitResult
  <2> HIDE DEF k, u
  <2> QED BY <1>1, <2>1, <2>2, <2>3, SoundUpdate
<1>6. CASE RequestGate(a)
  <2> DEFINE k == [tasks[u] EXCEPT !.gates = @ \cup {a}]
  <2>1. u \in Tasks /\ tasks[u] \in TaskRecords
    BY <1>4, <1>6 DEF RequestGate
  <2>2. k \in TaskRecords BY <2>1, GatedType
  <2>3. Sound(tasks[u], k)
    BY <2>1, <2>2, SoundStatus DEF TaskRecords
  <2>4. tasks' = [tasks EXCEPT ![u] = k]
    BY <1>6 DEF RequestGate
  <2> HIDE DEF k, u
  <2> QED BY <1>1, <2>1, <2>3, <2>4, SoundOne
<1>7. ASSUME NEW again \in BOOLEAN, RecordBlocker(a, again) PROVE SoundStep(tasks, tasks')
  <2>1. u \in Tasks /\ tasks[u] \in TaskRecords /\ tasks[u].status \in Active
    BY <1>4, <1>7 DEF RecordBlocker, Active
  <2>2. tasks' = Refresh([tasks EXCEPT ![u] = Failed(tasks[u], again)])
    BY <1>7 DEF RecordBlocker
  <2> HIDE DEF u
  <2> QED BY <1>1, <2>1, <2>2, SoundUpdate, SoundRecords, FailedType
<1>8. ASSUME NEW accepted \in BOOLEAN, NEW again \in BOOLEAN, SubmitReview(a, accepted, again)
      PROVE  SoundStep(tasks, tasks')
  <2>1. /\ u \in Tasks /\ tasks[u] \in TaskRecords /\ tasks[u].status = "Review"
        /\ tasks[u].author # a /\ tasks[u].evidence # {}
    BY <1>4, <1>8 DEF SubmitReview
  <2>2. CASE accepted
    <3> DEFINE k == [tasks[u] EXCEPT !.reviewer = a, !.review = [by |-> a, fresh |-> TRUE]]
    <3>1. Sound(tasks[u], k)
      BY <2>1 DEF Sound, ValidTask, TaskRecords
    <3>2. tasks' = [tasks EXCEPT ![u] = k]
      BY <1>8, <2>2 DEF SubmitReview
    <3> HIDE DEF k, u
    <3> QED BY <1>1, <2>1, <3>1, <3>2, SoundOne
  <2>3. CASE ~accepted
    <3> DEFINE k == [tasks[u] EXCEPT !.review = NoReview]
    <3>1. k \in TaskRecords /\ k.status \in Active /\ Sound(tasks[u], k)
      BY <2>1 DEF Sound, ValidTask, TaskRecords, Reviews, Active
    <3>2. tasks' = Refresh([tasks EXCEPT ![u] = Failed(k, again)])
      BY <1>8, <2>3 DEF SubmitReview
    <3> HIDE DEF k, u
    <3>3. Sound(k, Failed(k, again)) /\ Failed(k, again) \in TaskRecords
      BY <3>1, SoundRecords, FailedType
    <3>4. Sound(tasks[u], Failed(k, again))
      BY <3>1, <3>3, SoundTwice
    <3> QED BY <1>1, <2>1, <3>2, <3>3, <3>4, SoundUpdate
  <2> QED BY <2>2, <2>3
<1> QED BY <1>2, <1>3, <1>5, <1>6, <1>7, <1>8

\* What a worker does about a task it names.
LEMMA TaskWorkSound ==
    ASSUME TypeOK, NEW a \in Agents, NEW u \in Tasks,
           \/ ClaimTask(a, u) \/ AttachEvidence(a, u)
           \/ \E sufficient \in BOOLEAN : EvaluateTask(a, u, sufficient)
    PROVE  SoundStep(tasks, tasks')
<1>1. tasks \in [Tasks -> TaskRecords] /\ tasks[u] \in TaskRecords
  BY DEF TypeOK
<1>2. CASE ClaimTask(a, u)
  <2>1. tasks' = Refresh([tasks EXCEPT ![u] = Claimed(tasks[u], a)]) /\ tasks[u].status = "Ready"
    BY <1>2 DEF ClaimTask, CanClaim
  <2> QED BY <1>1, <2>1, SoundUpdate, SoundRecords, ClaimedType
<1>3. CASE AttachEvidence(a, u)
  <2> DEFINE k == [tasks[u] EXCEPT !.evidence = @ \cup {"fresh"}]
  <2>1. Sound(tasks[u], k)
    BY <1>1 DEF Sound, ValidTask, TaskRecords
  <2>2. tasks' = [tasks EXCEPT ![u] = k]
    BY <1>3 DEF AttachEvidence
  <2> HIDE DEF k
  <2> QED BY <1>1, <2>1, <2>2, SoundOne
<1>4. ASSUME NEW sufficient \in BOOLEAN, EvaluateTask(a, u, sufficient)
      PROVE  SoundStep(tasks, tasks')
  <2>1. CASE sufficient /\ Verifiable(tasks[u])
    <3> DEFINE k == [tasks[u] EXCEPT !.status = "Verified", !.verified = "fresh", !.owner = NoOne]
    <3>1. Sound(tasks[u], k)
      BY <1>1, <1>4, <2>1 DEF EvaluateTask, Sound, ValidTask, TaskRecords
    <3>2. tasks' = [tasks EXCEPT ![u] = k]
      BY <1>4, <2>1 DEF EvaluateTask
    <3> HIDE DEF k
    <3> QED BY <1>1, <3>1, <3>2, SoundOne
  <2>2. CASE ~(sufficient /\ Verifiable(tasks[u]))
    BY <1>4, <2>2, SoundUnchanged DEF EvaluateTask
  <2> QED BY <2>1, <2>2
<1> QED BY <1>2, <1>3, <1>4

\* A proposal adds known tasks to the dependencies of a task.
LEMMA ProposeSteps ==
    ASSUME TypeOK, NEW a \in Agents, NEW u \in Tasks, NEW deps \in SUBSET Tasks,
           Propose(a, u, deps), NEW t \in Tasks
    PROVE  Steps(t)
<1> DEFINE ts == [tasks EXCEPT ![u] = Proposed(tasks[u], deps)]
<1>1. tasks \in [Tasks -> TaskRecords] /\ tasks[u] \in TaskRecords
  BY DEF TypeOK
<1>2. ts \in [Tasks -> TaskRecords] /\ tasks' = Refresh(ts)
      /\ \A d \in deps : tasks[d].status # "Absent"
  BY <1>1, ProposedType DEF Propose
<1>3. /\ ValidTask(tasks[t]) => ValidTask(ts[t])
      /\ tasks[t].status # "Absent" => ts[t].status # "Absent"
      /\ ts[t].deps \subseteq tasks[t].deps \cup deps
      /\ tasks[t].status = "Integrated" => ts[t].status = "Integrated"
  <2>1. ASSUME NEW k \in TaskRecords
        PROVE  /\ ValidTask(k) => ValidTask(Proposed(k, deps))
               /\ k.status # "Absent" => Proposed(k, deps).status # "Absent"
               /\ Proposed(k, deps).deps \subseteq k.deps \cup deps
               /\ k.status = "Integrated" => Proposed(k, deps).status = "Integrated"
    BY DEF Proposed, ValidTask, TaskRecords
  <2>2. CASE t = u BY <1>1, <2>1, <2>2
  <2>3. CASE t # u BY <2>3
  <2> QED BY <2>2, <2>3
<1> HIDE DEF ts
<1>4. Sound(ts[t], tasks'[t])
  BY <1>2, SoundRefresh DEF SoundStep
<1> QED BY <1>2, <1>3, <1>4 DEF Steps, Sound

\* Only the end of an integration that was applying reopens what is integrated.
LEMMA IntegrationSteps ==
    ASSUME TypeOK, NEW i \in integrations, NEW t \in Tasks,
           \/ BeginIntegration(i) \/ RefuseIntegration(i) \/ IntegrationApplied(i)
           \/ IntegrationUndone(i) \/ ResetOverlay(i) \/ IntegrationAmbiguous(i)
    PROVE  Steps(t)
<1> DEFINE u == i.task
           as(s) == [tasks[u] EXCEPT !.status = s, !.verified = "no", !.owner = NoOne,
                                     !.reviewer = NoOne]
<1>1. tasks \in [Tasks -> TaskRecords] /\ u \in Tasks /\ tasks[u] \in TaskRecords
  BY DEF TypeOK, Integrations
<1>2. CASE tasks' = tasks
  BY <1>2, SoundUnchanged, SoundSteps
<1>3. ASSUME NEW s \in {"Ready", "Stale"}, i.stage = "apply", NEW ts,
             ts = [tasks EXCEPT ![u] = as(s)], SoundStep(ts, tasks')
      PROVE  Steps(t)
  <2>1. /\ ValidTask(tasks[u]) => ValidTask(as(s))
        /\ as(s).status # "Absent" /\ as(s).deps = tasks[u].deps
    BY <1>1 DEF ValidTask, TaskRecords
  <2>2. CASE t = u
    <3>1. ts[t] = as(s) BY <1>1, <1>3, <2>2
    <3> HIDE DEF as
    <3> QED BY <1>3, <2>1, <2>2, <3>1 DEF SoundStep, Sound, Steps
  <2>3. CASE t # u
    <3>1. ts[t] = tasks[t] BY <1>1, <1>3, <2>3
    <3> QED BY <1>3, <3>1 DEF SoundStep, Sound, Steps
  <2> QED BY <2>2, <2>3
<1>4. ASSUME NEW s \in {"Ready", "Stale"} PROVE as(s) \in TaskRecords
  BY <1>1 DEF TaskRecords, TaskStatuses
<1>5. CASE IntegrationApplied(i)
  <2> DEFINE k == [tasks[u] EXCEPT !.status = "Integrated", !.owner = NoOne, !.reviewer = NoOne]
  <2>1. CASE tasks[u].status = "Verified" /\ tasks[u].verified = "fresh"
             /\ tasks' = Refresh([tasks EXCEPT ![u] = k])
    <3>1. k \in TaskRecords /\ Sound(tasks[u], k)
      BY <1>1, <2>1 DEF Sound, ValidTask, TaskRecords, TaskStatuses
    <3> HIDE DEF k, u
    <3> QED BY <1>1, <2>1, <3>1, SoundUpdate, SoundSteps
  <2>2. \/ tasks' = tasks
        \/ tasks[u].status = "Verified" /\ tasks[u].verified = "fresh"
             /\ tasks' = Refresh([tasks EXCEPT ![u] = k])
    BY <1>5 DEF IntegrationApplied, Bindable
  <2> QED BY <1>2, <2>1, <2>2
<1>6. CASE IntegrationUndone(i)
  <2> DEFINE ts == [tasks EXCEPT ![u] = as("Ready")]
  <2>1. i.stage = "apply" /\ tasks' = Refresh(ts)
    BY <1>6 DEF IntegrationUndone
  <2>2. ts \in [Tasks -> TaskRecords]
    BY <1>1, <1>4
  <2>3. ts = [tasks EXCEPT ![u] = as("Ready")] OBVIOUS
  <2> HIDE DEF ts, as, u
  <2> QED BY <1>3, <2>1, <2>2, <2>3, SoundRefresh
<1>7. CASE IntegrationAmbiguous(i)
  <2> DEFINE ts == [tasks EXCEPT ![u] = as("Stale")]
  <2>1. i.stage = "apply" /\ (tasks' = tasks \/ tasks' = ts)
    BY <1>7 DEF IntegrationAmbiguous
  <2>2. SoundStep(ts, ts) BY DEF SoundStep, Sound
  <2>3. ts = [tasks EXCEPT ![u] = as("Stale")] OBVIOUS
  <2> HIDE DEF ts, as, u
  <2> QED BY <1>2, <1>3, <2>1, <2>2, <2>3
<1>8. CASE BeginIntegration(i) \/ RefuseIntegration(i) \/ ResetOverlay(i)
  BY <1>2, <1>8 DEF BeginIntegration, RefuseIntegration, ResetOverlay, snapshot
<1> QED BY <1>5, <1>6, <1>7, <1>8

\* The controls of the mission, and a restart.
LEMMA MissionSound ==
    ASSUME TypeOK, Restart \/ Pause \/ Resume \/ Stop \/ Directive \/ UNCHANGED vars
    PROVE  SoundStep(tasks, tasks')
<1>1. tasks \in [Tasks -> TaskRecords]
  BY DEF TypeOK
<1>2. CASE Restart \/ Pause \/ Resume \/ UNCHANGED vars
  BY <1>2, SoundUnchanged DEF Restart, Pause, Resume, snapshot, vars
<1>3. CASE Stop
  <2> DEFINE stopped(k) == [k EXCEPT !.status = "Stale", !.owner = NoOne, !.reviewer = NoOne]
  <2>1. ASSUME NEW k \in TaskRecords, k.status \in Active PROVE Sound(k, stopped(k))
    <3>1. stopped(k) \in TaskRecords BY DEF TaskRecords, TaskStatuses
    <3> QED BY <2>1, <3>1, SoundStatus DEF TaskRecords, Active, Done
  <2>2. ASSUME NEW t \in Tasks
        PROVE  \/ tasks'[t] = tasks[t]
               \/ tasks[t].status \in Active /\ tasks'[t] = stopped(tasks[t])
    BY <1>3 DEF Stop
  <2> HIDE DEF stopped
  <2> QED BY <1>1, <2>1, <2>2 DEF SoundStep, Sound
<1>4. CASE Directive
  <2> DEFINE ts == [t \in Tasks |-> Redirected(tasks[t])]
  <2>1. ts \in [Tasks -> TaskRecords] /\ SoundStep(tasks, ts)
    BY <1>1, RedirectedType, SoundRecords DEF SoundStep
  <2>2. tasks' = Refresh(ts) BY <1>4 DEF Directive
  <2> HIDE DEF ts
  <2> QED BY <2>1, <2>2, SoundRefresh, SoundTwiceAll
<1> QED BY <1>2, <1>3, <1>4

\* A tick: expiry, the agents it gives tasks to, and a refresh.
LEMMA TickSound ==
    ASSUME TypeOK, Tick
    PROVE  SoundStep(tasks, tasks')
<1>1. CASE TickHeld \/ TickAborts
  BY <1>1, SoundUnchanged DEF TickHeld, TickAborts, snapshot
<1>2. CASE TickSchedules
  <2>1. PICK ag, ts, job, planner : Dispatch(ag, ts, job, planner)
    BY <1>2, TickDispatches
  <2> DEFINE free == {a \in Agents : Available(ag[a])}
             chosen(t) == CHOOSE b \in DOMAIN job : job[b] = t
             given(t) == IF \E a \in DOMAIN job : job[a] = t
                         THEN IF ts[t].status = "Ready" THEN Claimed(ts[t], chosen(t))
                              ELSE [ts[t] EXCEPT !.reviewer = chosen(t)]
                         ELSE ts[t]
             ts2 == [t \in Tasks |-> given(t)]
  <2>2. /\ tasks \in [Tasks -> TaskRecords] /\ ts \in [Tasks -> TaskRecords]
        /\ SoundStep(tasks, ts) /\ DOMAIN job \subseteq Agents
        /\ tasks' = Refresh(ts2)
    BY <2>1, ExpireTasksType, SoundExpiry DEF TypeOK, Dispatch, Staffed
  <2>3. ASSUME NEW t \in Tasks PROVE given(t) \in TaskRecords /\ Sound(ts[t], given(t))
    <3>1. CASE \E a \in DOMAIN job : job[a] = t
      <4>1. chosen(t) \in Agents BY <2>2, <3>1
      <4>2. given(t) = IF ts[t].status = "Ready" THEN Claimed(ts[t], chosen(t))
                       ELSE [ts[t] EXCEPT !.reviewer = chosen(t)]
        BY <3>1
      <4>3. ASSUME NEW k \in TaskRecords, NEW a \in Agents
            PROVE  [k EXCEPT !.reviewer = a] \in TaskRecords /\ Sound(k, [k EXCEPT !.reviewer = a])
        <5>1. [k EXCEPT !.reviewer = a] \in TaskRecords BY DEF TaskRecords
        <5> QED BY <5>1, SoundStatus DEF TaskRecords
      <4> HIDE DEF chosen, given
      <4> QED BY <2>2, <4>1, <4>2, <4>3, SoundRecords, ClaimedType
    <3>2. CASE ~\E a \in DOMAIN job : job[a] = t
      BY <2>2, <3>2 DEF Sound
    <3> QED BY <3>1, <3>2
  <2> HIDE DEF given
  <2>4. ts2 \in [Tasks -> TaskRecords] /\ SoundStep(ts, ts2)
    BY <2>3 DEF SoundStep
  <2> HIDE DEF ts2
  <2> QED BY <2>2, <2>4, SoundRefresh, SoundTwiceAll
<1> QED BY <1>1, <1>2 DEF Tick

\* Every step of the mission, by its actor.
LEMMA StepsAlways ==
    ASSUME TypeOK, [Next]_vars, NEW t \in Tasks
    PROVE  Steps(t)
<1>1. CASE WorkerStep
  <2>1. PICK a \in Agents :
            \/ Join(a) \/ Heartbeat(a) \/ Release(a)
            \/ CompletePlan(a) \/ AckContext(a)
            \/ LandWrite(a) \/ SubmitResult(a) \/ RequestGate(a) \/ BeginWrite(a)
            \/ \E again \in BOOLEAN : RecordBlocker(a, again)
            \/ \E accepted, again \in BOOLEAN : SubmitReview(a, accepted, again)
            \/ \E u \in Tasks :
                \/ ClaimTask(a, u) \/ AttachEvidence(a, u)
                \/ \E deps \in SUBSET Tasks : Propose(a, u, deps)
                \/ \E sufficient \in BOOLEAN : EvaluateTask(a, u, sufficient)
    BY <1>1 DEF WorkerStep
  <2> QED BY <2>1, PresenceSound, WorkSound, TaskWorkSound, ProposeSteps, SoundSteps
<1>2. CASE IntegrationStep
  BY <1>2, IntegrationSteps DEF IntegrationStep
<1>3. CASE Tick
  BY <1>3, TickSound, SoundSteps
<1>4. CASE HumanStep
  BY <1>4, MissionSound, PresenceSound, SoundSteps DEF HumanStep
<1>5. CASE Environment
  BY <1>5, MissionSound, PresenceSound, SoundSteps DEF Environment
<1>6. CASE UNCHANGED vars
  BY <1>6, MissionSound, SoundSteps
<1> QED BY <1>1, <1>2, <1>3, <1>4, <1>5, <1>6 DEF Next

-----------------------------------------------------------------------------
(* The theorems about the records *)

\* MissionSnapshot::validate refuses no snapshot that a handler saves: verdicts match
\* statuses, dependencies are known, an accepted review is another agent's and on
\* evidence, and a removed agent has no work, whatever directives, expiries, late
\* integrations and removals do in between.
THEOREM SnapshotsValid == Spec => []SnapshotValid
<1>1. Init => SnapshotValid
  <2> SUFFICES ASSUME Init PROVE SnapshotValid OBVIOUS
  <2>1. \A t \in Tasks : /\ tasks[t].status = "Absent" /\ tasks[t].verified = "no"
                         /\ tasks[t].deps = {} /\ tasks[t].review = NoReview
    BY DEF Init
  <2>2. \A a \in Agents : agents[a].status = "Absent" BY DEF Init
  <2> QED BY <2>1, <2>2 DEF SnapshotValid
<1>2. TypeOK /\ WorkersPresent' /\ SnapshotValid /\ [Next]_vars => SnapshotValid'
  <2> SUFFICES ASSUME TypeOK, WorkersPresent', SnapshotValid, [Next]_vars PROVE SnapshotValid'
    OBVIOUS
  <2>1. ASSUME NEW t \in Tasks PROVE Steps(t) /\ ValidTask(tasks[t])
    BY StepsAlways DEF SnapshotValid, ValidTask
  <2>2. ASSUME NEW t \in Tasks, NEW d \in tasks'[t].deps PROVE tasks'[d].status # "Absent"
    <3>1. d \in Tasks
      <4>1. TypeOK' BY TypeStep
      <4> QED BY <4>1, <2>2 DEF TypeOK, TaskRecords
    <3>2. tasks[d].status # "Absent"
      BY <2>1, <2>2 DEF Steps, SnapshotValid
    <3> QED BY <2>1, <3>1, <3>2 DEF Steps
  <2>3. ASSUME NEW t \in Tasks PROVE ValidTask(tasks'[t])
    BY <2>1 DEF Steps
  <2> QED BY <2>2, <2>3 DEF SnapshotValid, ValidTask, WorkersPresent
<1>3. IInv => TypeOK /\ WorkersPresent
  BY DEF IInv
<1> QED BY <1>1, <1>2, <1>3, IInvHolds, PTL DEF Spec

\* What was merged into the base project stays merged: no directive, stop, removal,
\* expiry or tick reopens an integrated task; only an older integration of the same
\* task that was still applying does, when it ends.
THEOREM MergedWorkKept == Spec => IntegratedKept
<1>1. TypeOK /\ [Next]_vars =>
        [\A t \in Tasks : tasks[t].status = "Integrated" /\ tasks'[t].status # "Integrated" =>
            \E i \in integrations : i.task = t /\ i.stage = "apply"]_vars
  BY StepsAlways DEF Steps
<1> QED BY <1>1, TypeCorrect, PTL DEF Spec, IntegratedKept

-----------------------------------------------------------------------------
(* The slots of a tick *)

\* Who works in a resource class.
Users(ag, class) ==
    {a \in Agents :
        CASE ag[a].work.kind = "None" -> FALSE
          [] ag[a].work.kind = "Implement" -> ClassOf[ag[a].work.task] = class
          [] OTHER -> class = "Reasoning"}

\* The agents that a job gives tasks of a set are no more than those tasks.
LEMMA JobCounts ==
    ASSUME NEW free, NEW job, Choice(job, free), NEW S \in SUBSET Tasks,
           NEW G, G = {a \in free : job[a] \in S}
    PROVE  /\ IsFiniteSet(G) /\ IsFiniteSet(S)
           /\ Cardinality(G) \in Nat /\ Cardinality(S) \in Nat
           /\ Cardinality(G) <= Cardinality(S)
<1>1. IsFiniteSet(S) BY FinitenessAssumption, FS_Subset
<1> DEFINE f == [a \in G |-> job[a]]
<1>2. f \in [G -> S] BY DEF Choice
<1>3. ASSUME NEW a \in G, NEW b \in G, f[a] = f[b] PROVE a = b
  <2>1. job[a] = job[b] /\ job[a] \in Tasks BY <1>3
  <2> QED BY <2>1, NoneAssumption DEF Choice
<1>4. f \in Injection(G, S) BY <1>2, <1>3 DEF Injection, IsInjective
<1> HIDE DEF f
<1>5. IsFiniteSet(G) /\ Cardinality(G) <= Cardinality(S) BY <1>1, <1>4, FS_Injection
<1> QED BY <1>1, <1>5, FS_CardinalityType

\* A set of users that grows by another set.
LEMMA GrowsBy ==
    ASSUME NEW A, NEW B \in SUBSET Agents, NEW C \in SUBSET Agents, A \subseteq B \cup C
    PROVE  /\ Cardinality(A) \in Nat /\ Cardinality(B) \in Nat /\ Cardinality(C) \in Nat
           /\ Cardinality(A) <= Cardinality(B) + Cardinality(C)
<1>1. IsFiniteSet(B) /\ IsFiniteSet(C) BY FinitenessAssumption, FS_Subset
<1>2. /\ IsFiniteSet(B \cup C)
      /\ Cardinality(B \cup C) = Cardinality(B) + Cardinality(C) - Cardinality(B \cap C)
  BY <1>1, FS_Union
<1>3. IsFiniteSet(A) /\ Cardinality(A) <= Cardinality(B \cup C)
  BY <1>2, FS_Subset
<1>4. IsFiniteSet(B \cap C) BY <1>1, FS_Subset
<1>5. /\ Cardinality(A) \in Nat /\ Cardinality(B) \in Nat /\ Cardinality(C) \in Nat
      /\ Cardinality(B \cap C) \in Nat
  BY <1>1, <1>3, <1>4, FS_CardinalityType
<1> QED BY <1>2, <1>3, <1>5

\* Only a tick that schedules takes a due drive and changes an assignment.
LEMMA OnlyTicks ==
    ASSUME TypeOK, [Next]_vars, drivesDue' < drivesDue, agents' # agents
    PROVE  TickSchedules
<1>1. drivesDue \in 0..MaxDrives /\ MaxDrives \in Nat
  BY LimitAssumption DEF TypeOK
<1>2. ~OweDrive BY <1>1 DEF OweDrive, Later
<1>3. drivesDue' # drivesDue BY <1>1
<1>4. ~WorkerStep
  <2>1. ASSUME NEW a \in Agents
        PROVE  /\ ~Join(a) /\ ~Heartbeat(a) /\ ~CompletePlan(a) /\ ~AckContext(a)
               /\ ~LandWrite(a) /\ ~SubmitResult(a) /\ ~Release(a) /\ ~BeginWrite(a)
               /\ ~RequestGate(a) /\ \A again \in BOOLEAN : ~RecordBlocker(a, again)
               /\ \A accepted, again \in BOOLEAN : ~SubmitReview(a, accepted, again)
    BY <1>2, <1>3 DEF Join, Heartbeat, CompletePlan, AckContext, LandWrite, SubmitResult,
          Release, BeginWrite, RequestGate, RecordBlocker, SubmitReview, inFlight
  <2>2. ASSUME NEW a \in Agents, NEW t \in Tasks
        PROVE  /\ ~ClaimTask(a, t) /\ ~AttachEvidence(a, t)
               /\ \A deps \in SUBSET Tasks : ~Propose(a, t, deps)
               /\ \A sufficient \in BOOLEAN : ~EvaluateTask(a, t, sufficient)
    BY <1>2, <1>3 DEF ClaimTask, AttachEvidence, Propose, EvaluateTask, inFlight
  <2> QED BY <2>1, <2>2 DEF WorkerStep
<1>5. ~IntegrationStep
  BY <1>2, <1>3 DEF IntegrationStep, BeginIntegration, RefuseIntegration,
        IntegrationApplied, IntegrationUndone, ResetOverlay, IntegrationAmbiguous
<1>6. ~HumanStep
  BY <1>2, <1>3 DEF HumanStep, Pause, Stop, Directive, Resume, Remove, RemoveAgain,
        Restore, inFlight
<1>7. ~Environment
  BY <1>3 DEF Environment, Restart, LeaseLapse, AssignmentLapse, snapshot, inFlight
<1>8. ~TickHeld /\ ~TickAborts BY DEF TickHeld, TickAborts, snapshot
<1>9. ~UNCHANGED vars BY DEF vars
<1> QED BY <1>4, <1>5, <1>6, <1>7, <1>8, <1>9 DEF Next, Tick

\* What the tick adds to a class: in the classes of tasks the tasks it claims, among the
\* reasoning slots the reviewers and the planner.
LEMMA TickAdds ==
    ASSUME TypeOK, NEW ag, ag = ExpireAgents(agents), NEW ts, NEW job, NEW planner,
           NEW free, free = {a \in Agents : Available(ag[a])},
           Choice(job, free),
           planner \in {a \in free : job[a] = NoTask} \cup {NoOne},
           agents' = Dispatched(ag, job, planner, ts),
           \A a \in free : job[a] # NoTask =>
                ts[job[a]].status = "Ready" \/ job[a] \in AwaitsReview(ag, ts),
           NEW class \in Classes
    PROVE  /\ Users(agents', class) \subseteq Users(ag, class) \cup
                {a \in free : job[a] \in {t \in Tasks : ts[t].status = "Ready" /\ ClassOf[t] = class}}
                \cup (IF class = "Reasoning"
                      THEN {a \in free : job[a] \in AwaitsReview(ag, ts)} \cup ({planner} \cap Agents)
                      ELSE {})
           /\ class = "Reasoning" =>
                {a \in free : job[a] \in {t \in Tasks : ts[t].status = "Ready" /\ ClassOf[t] = class}} = {}
<1>1. ag \in [Agents -> AgentRecords] /\ free \subseteq Agents
      /\ DOMAIN job = free /\ \A a \in free : job[a] \in Tasks \cup {NoTask}
  BY ExpireAgentsType DEF TypeOK, Choice
<1>2. ASSUME NEW a \in Agents, NEW kind, NEW t
      PROVE  Assigned(ag[a], kind, t).work = [kind |-> kind, task |-> t, live |-> TRUE]
  BY <1>1 DEF Assigned, AgentRecords
<1>3. ASSUME NEW a \in Users(agents', class)
      PROVE  \/ a \in Users(ag, class)
             \/ a \in free /\ job[a] \in {t \in Tasks : ts[t].status = "Ready" /\ ClassOf[t] = class}
             \/ class = "Reasoning" /\ a \in free /\ job[a] \in AwaitsReview(ag, ts)
             \/ class = "Reasoning" /\ a = planner
  <2>1. a \in Agents BY DEF Users
  <2>2. CASE a \in free /\ job[a] # NoTask
    <3> DEFINE kind == IF ts[job[a]].status = "Ready" THEN "Implement" ELSE "Review"
    <3>1. agents'[a] = Assigned(ag[a], kind, job[a])
      BY <1>1, <2>1, <2>2 DEF Dispatched
    <3>2. agents'[a].work = [kind |-> kind, task |-> job[a], live |-> TRUE]
      BY <1>2, <2>1, <3>1
    <3>3. CASE ts[job[a]].status = "Ready"
      <4>1. ClassOf[job[a]] = class
        BY <3>2, <3>3 DEF Users
      <4> QED BY <1>1, <2>2, <3>3, <4>1
    <3>4. CASE ts[job[a]].status # "Ready"
      <4>1. class = "Reasoning" BY <3>2, <3>4 DEF Users
      <4> QED BY <2>2, <3>4, <4>1
    <3> QED BY <3>3, <3>4
  <2>3. CASE ~(a \in free /\ job[a] # NoTask) /\ a = planner
    <3>1. agents'[a] = Assigned(ag[a], "Plan", NoTask)
      BY <1>1, <2>1, <2>3 DEF Dispatched
    <3>2. agents'[a].work = [kind |-> "Plan", task |-> NoTask, live |-> TRUE]
      BY <1>2, <2>1, <3>1
    <3> QED BY <2>3, <3>2 DEF Users
  <2>4. CASE ~(a \in free /\ job[a] # NoTask) /\ a # planner
    <3>1. agents'[a] = ag[a] BY <1>1, <2>1, <2>4 DEF Dispatched
    <3> QED BY <3>1 DEF Users
  <2> QED BY <2>2, <2>3, <2>4
<1>4. Users(agents', class) \subseteq Agents BY DEF Users
<1>5. class = "Reasoning" =>
        {a \in free : job[a] \in {t \in Tasks : ts[t].status = "Ready" /\ ClassOf[t] = class}} = {}
  BY ClassAssumption
<1> QED BY <1>3, <1>4, <1>5

\* A tick never gives out more slots of a class than it was given, its reviewers and
\* its planner counted together, although each of its three loops counts for itself.
THEOREM TicksStayWithinSlots == Spec => TicksWithinSlots
<1> DEFINE Within ==
        \E slots \in SlotChoices : \A class \in Classes :
            \/ Usage(agents', class) <= slots[class]
            \/ Usage(agents', class) <= Usage(ExpireAgents(agents), class)
<1>1. ASSUME TypeOK, TickSchedules PROVE Within
  <2> DEFINE ag == ExpireAgents(agents)
             ts == ExpireTasks(agents, tasks)
             free == {a \in Agents : Available(ag[a])}
             ready == {t \in Tasks : ts[t].status = "Ready"}
             wanted == AwaitsReview(ag, ts)
             used == Usage(ag, "Reasoning")
             budget(slots) == IF used < slots["Reasoning"] THEN slots["Reasoning"] - used ELSE 0
  <2>1. PICK slots \in SlotChoices, job \in [free -> (ready \cup wanted) \cup {NoTask}] :
          /\ \A a, b \in free : job[a] = job[b] => a = b \/ job[a] = NoTask
          /\ ClaimsReady(ag, ts, slots, job)
          /\ StaffsReviews(ag, ts, budget(slots), job)
          /\ \E planner \in {a \in free : job[a] = NoTask} \cup {NoOne} :
                /\ agents' = Dispatched(ag, job, planner, ts)
                /\ planner # NoOne =>
                      budget(slots) > Cardinality({a \in free : job[a] \in wanted})
    BY <1>1 DEF TickSchedules
  <2>2. PICK planner \in {a \in free : job[a] = NoTask} \cup {NoOne} :
                /\ agents' = Dispatched(ag, job, planner, ts)
                /\ planner # NoOne =>
                      budget(slots) > Cardinality({a \in free : job[a] \in wanted})
    BY <2>1
  <2>3. Choice(job, free) /\ DOMAIN job = free
    BY <2>1 DEF Choice, AwaitsReview
  <2>4. \A a \in free : job[a] # NoTask =>
            ts[job[a]].status = "Ready" \/ job[a] \in AwaitsReview(ag, ts)
    BY <2>1
  <2> DEFINE of(class) == {t \in Tasks : ts[t].status = "Ready" /\ ClassOf[t] = class}
             claimers(class) == {a \in free : job[a] \in of(class)}
             reviewers == {a \in free : job[a] \in wanted}
  <2>5. ag = ExpireAgents(agents) /\ free = {a \in Agents : Available(ag[a])}
    OBVIOUS
  <2>6. wanted \subseteq Tasks /\ \A class \in Classes : of(class) \subseteq Tasks
    BY DEF AwaitsReview
  <2>7. slots \in [Classes -> Nat \ {0}] BY ClassAssumption
  <2>8. ClaimsReady(ag, ts, slots, job) /\ StaffsReviews(ag, ts, budget(slots), job) BY <2>1
  <2>9. ready = {t \in Tasks : ts[t].status = "Ready"} OBVIOUS
  <2> HIDE DEF ag, ts, free, wanted, ready
  <2>10. ASSUME NEW class \in Classes
         PROVE  /\ Users(agents', class) \subseteq Users(ag, class) \cup claimers(class)
                      \cup (IF class = "Reasoning"
                            THEN reviewers \cup ({planner} \cap Agents) ELSE {})
                /\ class = "Reasoning" => claimers(class) = {}
                /\ Usage(agents', class) = Cardinality(Users(agents', class))
                /\ Usage(ag, class) = Cardinality(Users(ag, class))
    BY <1>1, <2>2, <2>3, <2>4, <2>5, TickAdds DEF Usage, Users, wanted
  <2>11. ASSUME NEW class \in Classes, class # "Reasoning"
         PROVE  \/ Usage(agents', class) <= slots[class]
                \/ Usage(agents', class) <= Usage(ag, class)
    <3> DEFINE claimed == {t \in ready : \E a \in free : job[a] = t}
               S == {t \in claimed : ClassOf[t] = class}
    <3>1. claimers(class) = {a \in free : job[a] \in S} /\ S \in SUBSET Tasks
      BY <2>9
    <3>2. /\ Cardinality(claimers(class)) <= Cardinality(S)
          /\ Cardinality(claimers(class)) \in Nat /\ Cardinality(S) \in Nat
      BY <2>3, <3>1, JobCounts
    <3>3. /\ Users(agents', class) \subseteq Users(ag, class) \cup claimers(class)
          /\ Users(ag, class) \subseteq Agents /\ claimers(class) \subseteq Agents
      BY <2>5, <2>10, <2>11 DEF Users
    <3>4. /\ Usage(agents', class) <= Usage(ag, class) + Cardinality(S)
          /\ Usage(agents', class) \in Nat /\ Usage(ag, class) \in Nat
      <4> HIDE DEF claimers, S
      <4>1. /\ Usage(agents', class) <= Usage(ag, class) + Cardinality(claimers(class))
            /\ Usage(agents', class) \in Nat /\ Usage(ag, class) \in Nat
        BY <2>10, <3>3, GrowsBy
      <4> QED BY <3>2, <4>1
    <3>5. CASE S = {}
      <4>1. Cardinality(S) = 0 BY <3>5, FS_EmptySet
      <4> HIDE DEF S
      <4> QED BY <3>4, <4>1
    <3>6. CASE S # {}
      <4>1. PICK t \in S : TRUE BY <3>6
      <4>2. Demand(ag, claimed, class) <= slots[class]
        BY <2>3, <2>8, <2>9, <4>1 DEF ClaimsReady
      <4>3. Demand(ag, claimed, class) = Usage(ag, class) + Cardinality(S)
        BY DEF Demand
      <4>4. slots[class] \in Nat BY <2>7
      <4> HIDE DEF S, claimed
      <4> QED BY <3>2, <3>4, <4>2, <4>3, <4>4
    <3> QED BY <3>5, <3>6
  <2>12. \/ Usage(agents', "Reasoning") <= slots["Reasoning"]
         \/ Usage(agents', "Reasoning") <= Usage(ag, "Reasoning")
    <3> DEFINE S == {t \in wanted : \E a \in free : job[a] = t}
               added == reviewers \cup ({planner} \cap Agents)
    <3>1. "Reasoning" \in Classes BY DEF Classes
    <3>2. reviewers = {a \in free : job[a] \in S} /\ S \in SUBSET Tasks
      BY <2>6
    <3>3. Cardinality(S) <= budget(slots)
      BY <2>3, <2>8 DEF StaffsReviews, wanted
    <3>4. /\ Users(agents', "Reasoning") \subseteq Users(ag, "Reasoning") \cup added
          /\ Users(ag, "Reasoning") \subseteq Agents /\ added \subseteq Agents
      BY <2>5, <2>10, <3>1 DEF Users
    <3>5. /\ Usage(agents', "Reasoning") = Cardinality(Users(agents', "Reasoning"))
          /\ used = Cardinality(Users(ag, "Reasoning"))
      BY <2>10, <3>1
    <3> HIDE DEF used
    <3>6. /\ IsFiniteSet(reviewers)
          /\ Cardinality(reviewers) \in Nat /\ Cardinality(S) \in Nat
          /\ Cardinality(reviewers) <= Cardinality(S)
      <4> HIDE DEF S, reviewers
      <4> QED BY <2>3, <3>2, JobCounts DEF reviewers
    <3>7. Cardinality(added) <= budget(slots)
      <4>1. CASE planner = NoOne
        <5>1. added = reviewers BY <4>1, NoneAssumption
        <5> HIDE DEF added, reviewers, S, budget
        <5>2. Cardinality(added) = Cardinality(reviewers) BY <5>1
        <5>3. budget(slots) \in Nat BY <2>7, <3>1, <3>5, <3>4, GrowsBy DEF budget
        <5> QED BY <3>3, <3>6, <5>2, <5>3
      <4>2. CASE planner # NoOne
        <5>1. added \in {reviewers, reviewers \cup {planner}} OBVIOUS
        <5>2. Cardinality(reviewers) < budget(slots) BY <2>2, <4>2
        <5> HIDE DEF added, reviewers, S, budget
        <5>3. Cardinality(added) \in {Cardinality(reviewers), Cardinality(reviewers) + 1}
          <6>1. Cardinality(reviewers \cup {planner}) =
                    IF planner \in reviewers THEN Cardinality(reviewers)
                    ELSE Cardinality(reviewers) + 1
            BY <3>6, FS_AddElement
          <6> QED BY <5>1, <6>1
        <5>4. budget(slots) \in Nat BY <2>7, <3>1, <3>5, <3>4, GrowsBy DEF budget
        <5>5. Cardinality(added) \in Nat
          BY <3>6, <5>3
        <5> QED BY <3>6, <5>2, <5>3, <5>4, <5>5
      <4> QED BY <4>1, <4>2
    <3>8. /\ Cardinality(added) \in Nat /\ used \in Nat
          /\ Usage(agents', "Reasoning") \in Nat
          /\ Usage(agents', "Reasoning") <= used + Cardinality(added)
      <4> HIDE DEF added
      <4> QED BY <3>4, <3>5, GrowsBy
    <3>9. slots["Reasoning"] \in Nat BY <2>7, <3>1
    <3>10. used = Usage(ag, "Reasoning") BY DEF used
    <3> HIDE DEF added
    <3> QED BY <3>7, <3>8, <3>9, <3>10
  <2> QED BY <2>5, <2>11, <2>12
<1> QED BY <1>1, OnlyTicks, TypeCorrect, PTL DEF Spec, TicksWithinSlots
-----------------------------------------------------------------------------
(* The steps of a task as others see them *)

\* A task in progress was not reviewed yet.
Fits(k) == k.status = "InProgress" => k.review = NoReview

\* The two ways to treat a task that need no reason: nothing of it is seen to change, but
\* that it may gain dependencies; and it is given up.
Alike(k, l) ==
    /\ Phase(l) = Phase(k) /\ l.author = k.author /\ Approval(l) = Approval(k)
    /\ k.deps \subseteq l.deps /\ (Fits(k) => Fits(l))
Drops(k, l) ==
    /\ Phase(k) \in {"working", "review"} /\ Phase(l) = "open"
    /\ l.author = k.author /\ Approval(l) = NoOne
    /\ k.deps \subseteq l.deps /\ Fits(l)
Quiet(k, l) == Alike(k, l) \/ Drops(k, l)

\* The others.
Starts(ts, t, l) ==
    /\ Phase(ts[t]) \in {"open", "working"} /\ DepsDone(ts, t)
    /\ Phase(l) = "working" /\ l.author \in Agents /\ Approval(l) = NoOne
Submits(k, l) ==
    /\ Phase(k) = "working" /\ Phase(l) = "review"
    /\ l.author = k.author /\ (Fits(k) => Approval(l) = NoOne)
Approves(k, l) ==
    /\ Phase(k) = "review" /\ Phase(l) = "review"
    /\ l.author = k.author /\ Approval(l) \in Agents \ {k.author}
Verifies(k, l) ==
    /\ Phase(k) = "review" /\ Phase(l) = "verified"
    /\ l.author = k.author /\ Approval(l) = Approval(k) /\ Approval(k) # NoOne

Moves(ts, t, l) ==
    \/ Quiet(ts[t], l)
    \/ /\ Starts(ts, t, l) \/ Submits(ts[t], l) \/ Approves(ts[t], l) \/ Verifies(ts[t], l)
       /\ ts[t].deps \subseteq l.deps /\ Fits(l)

QuietStep(ts, ts2) == \A t \in Tasks : Quiet(ts[t], ts2[t])
MovesStep(ts, ts2) == \A t \in Tasks : Moves(ts, t, ts2[t])

LEMMA AlikeSelf == \A k : Alike(k, k)
BY DEF Alike

LEMMA QuietTwice ==
    ASSUME NEW k, NEW l, NEW m, Quiet(k, l), Quiet(l, m)
    PROVE  Quiet(k, m)
BY DEF Quiet, Alike, Drops

LEMMA MovesThenAlike ==
    ASSUME NEW ts, NEW t, NEW l, NEW m, Moves(ts, t, l), Alike(l, m)
    PROVE  Moves(ts, t, m)
BY DEF Moves, Quiet, Alike, Drops, Starts, Submits, Approves, Verifies

LEMMA QuietMoves ==
    ASSUME NEW ts, NEW ts2, QuietStep(ts, ts2)
    PROVE  MovesStep(ts, ts2)
BY DEF QuietStep, MovesStep, Moves

\* What a phase is, and what is not seen of a record.
LEMMA PhaseFacts ==
    ASSUME NEW k \in TaskRecords
    PROVE  /\ Phase(k) \in {"open", "working", "review", "verified", "merged"}
           /\ Phase(k) = "open" <=> k.status \notin Active \cup Done
           /\ Phase(k) = "working" <=> k.status = "InProgress"
           /\ Phase(k) = "review" <=> k.status = "Review"
           /\ Phase(k) = "verified" <=> k.status = "Verified"
           /\ Phase(k) = "merged" <=> k.status = "Integrated"
           /\ Phase(k) = "open" => Approval(k) = NoOne
BY DEF Phase, Approval, Active, Done

LEMMA QuietStatus ==
    ASSUME NEW k \in TaskRecords, NEW l \in TaskRecords,
           k.deps \subseteq l.deps, l.author = k.author,
           \/ l.status = k.status /\ l.review = k.review
           \/ k.status \notin Done /\ l.status \notin Active \cup Done
    PROVE  /\ Quiet(k, l)
           /\ l.status = k.status \/ k.status \notin Active => Alike(k, l)
           /\ k.status = "InProgress" /\ l.status # k.status => Drops(k, l) /\ Phase(k) = "working"
<1>1. CASE l.status = k.status /\ l.review = k.review
  BY <1>1 DEF Quiet, Alike, Fits, Phase, Approval
<1>2. CASE k.status \notin Done /\ l.status \notin Active \cup Done
  <2>1. Phase(l) = "open" /\ Approval(l) = NoOne /\ Fits(l) /\ l.status # "InProgress"
    BY <1>2, PhaseFacts DEF Fits, Active
  <2>2. CASE k.status \in Active
    <3>1. Phase(k) \in {"working", "review"}
      BY <2>2, PhaseFacts DEF Active
    <3>2. l.status # k.status
      BY <1>2, <2>2
    <3> QED BY <2>1, <2>2, <3>1, <3>2, PhaseFacts DEF Quiet, Drops
  <2>3. CASE k.status \notin Active
    <3>1. Phase(k) = "open" /\ Approval(k) = NoOne /\ k.status # "InProgress"
      BY <1>2, <2>3, PhaseFacts DEF Active
    <3> QED BY <2>1, <3>1 DEF Quiet, Alike
  <2> QED BY <2>2, <2>3
<1> QED BY <1>1, <1>2

\* The refresh of the ready list is not seen.
LEMMA AlikeRefresh ==
    ASSUME NEW ts \in [Tasks -> TaskRecords], NEW t \in Tasks
    PROVE  Alike(ts[t], Refresh(ts)[t]) /\ Refresh(ts)[t].deps = ts[t].deps
<1>1. CASE ts[t].status \in Unstarted
  <2>1. PICK s \in {"Ready", "BlockedDependency"} :
            Refresh(ts)[t] = [ts[t] EXCEPT !.status = s]
    BY <1>1, RefreshFacts
  <2> DEFINE k == ts[t]
             l == [ts[t] EXCEPT !.status = s]
  <2>2. k \in TaskRecords /\ l \in TaskRecords
    BY DEF TaskRecords, TaskStatuses
  <2>3. l.deps = k.deps /\ l.author = k.author /\ l.status = s
    BY DEF TaskRecords
  <2>4. k.status \notin Active \cup Done /\ l.status \notin Active \cup Done
    BY <1>1, <2>3 DEF Active, Done, Unstarted
  <2> HIDE DEF k, l
  <2>5. Alike(k, l) /\ l.deps = k.deps
    BY <2>2, <2>3, <2>4, QuietStatus
  <2> QED BY <2>1, <2>5 DEF k, l
<1>2. CASE ts[t].status \notin Unstarted
  BY <1>2, RefreshFacts, AlikeSelf
<1> QED BY <1>1, <1>2

\* The expiry pass gives up tasks in progress only.
LEMMA QuietExpiry ==
    ASSUME NEW ag, NEW ts \in [Tasks -> TaskRecords], NEW t \in Tasks
    PROVE  LET l == ExpireTasks(ag, ts)[t] IN
           /\ Quiet(ts[t], l)
           /\ Phase(l) = "open" => Phase(ts[t]) \in {"open", "working"}
<1> DEFINE lapsed(s) == /\ ts[s].status = "InProgress"
                        /\ \E a \in Agents : /\ ts[s].owner = a
                                             /\ ag[a].work.task = s
                                             /\ LapsedWork(ag[a])
           back(s) == [ts[s] EXCEPT !.status = "Proposed", !.owner = NoOne]
           ts2 == [s \in Tasks |-> IF lapsed(s) THEN back(s) ELSE ts[s]]
<1>1. ASSUME NEW s \in Tasks
      PROVE  /\ back(s) \in TaskRecords
             /\ ts[s].status = "InProgress" =>
                    Drops(ts[s], back(s)) /\ Phase(ts[s]) = "working"
  <2>1. ASSUME NEW k \in TaskRecords, NEW l, l = [k EXCEPT !.status = "Proposed", !.owner = NoOne]
        PROVE  /\ l \in TaskRecords
               /\ k.status = "InProgress" => Drops(k, l) /\ Phase(k) = "working"
    <3>1. l \in TaskRecords /\ l.deps = k.deps /\ l.author = k.author /\ l.status = "Proposed"
      BY <2>1 DEF TaskRecords, TaskStatuses
    <3> QED BY <3>1, QuietStatus DEF Active, Done
  <2> QED BY <2>1
<1>2. lapsed(t) => ts[t].status = "InProgress"
  OBVIOUS
<1>3. ExpireTasks(ag, ts) = Refresh(ts2)
  BY DEF ExpireTasks
<1> HIDE DEF lapsed, back
<1>4. ts2 \in [Tasks -> TaskRecords]
  BY <1>1
<1>5. \/ ts2[t] = ts[t]
      \/ Drops(ts[t], ts2[t]) /\ Phase(ts[t]) = "working"
  BY <1>1, <1>2
<1> HIDE DEF ts2
<1>6. Alike(ts2[t], ExpireTasks(ag, ts)[t])
  BY <1>3, <1>4, AlikeRefresh
<1>7. Quiet(ts[t], ts2[t])
  BY <1>5, AlikeSelf DEF Quiet
<1> QED BY <1>5, <1>6, <1>7, QuietTwice DEF Quiet, Alike

\* A change of one record, with or without a refresh.
LEMMA UpdateMoves ==
    ASSUME NEW ts \in [Tasks -> TaskRecords], NEW u \in Tasks, NEW k \in TaskRecords,
           Moves(ts, u, k)
    PROVE  /\ MovesStep(ts, [ts EXCEPT ![u] = k])
           /\ MovesStep(ts, Refresh([ts EXCEPT ![u] = k]))
<1> DEFINE ts2 == [ts EXCEPT ![u] = k]
<1>1. ts2 \in [Tasks -> TaskRecords]
  OBVIOUS
<1>2. ASSUME NEW t \in Tasks PROVE Moves(ts, t, ts2[t])
  BY AlikeSelf DEF Moves, Quiet
<1> HIDE DEF ts2
<1>3. ASSUME NEW t \in Tasks PROVE Moves(ts, t, Refresh(ts2)[t])
  BY <1>1, <1>2, AlikeRefresh, MovesThenAlike
<1>4. MovesStep(ts, ts2) /\ MovesStep(ts, Refresh(ts2))
  BY <1>2, <1>3 DEF MovesStep
<1> QED BY <1>4 DEF ts2

LEMMA StillMoves ==
    ASSUME UNCHANGED tasks
    PROVE  MovesStep(tasks, tasks')
BY AlikeSelf DEF MovesStep, Moves, Quiet

-----------------------------------------------------------------------------
(* The moves that the handlers make *)

LEMMA RecordMoves ==
    ASSUME NEW k \in TaskRecords
    PROVE  /\ Quiet(k, Unclaimed(k))
           /\ \A again \in BOOLEAN : k.status \in Active =>
                /\ Quiet(k, Failed(k, again))
                /\ Quiet(k, Failed([k EXCEPT !.review = NoReview], again))
           /\ \A a \in Agents : /\ Phase(Claimed(k, a)) = "working" /\ Claimed(k, a).author = a
                               /\ Approval(Claimed(k, a)) = NoOne /\ Fits(Claimed(k, a))
                               /\ Claimed(k, a).deps = k.deps
<1>1. Quiet(k, Unclaimed(k))
  <2>1. Unclaimed(k) \in TaskRecords BY UnclaimedType
  <2>2. /\ Unclaimed(k).deps = k.deps /\ Unclaimed(k).review = k.review
        /\ Unclaimed(k).author = k.author
        /\ Unclaimed(k).status = IF k.status \in {"InProgress", "Stale"} THEN "Proposed"
                                 ELSE k.status
    BY DEF Unclaimed, TaskRecords
  <2> QED BY <2>1, <2>2, QuietStatus DEF Active, Done
<1>2. ASSUME NEW again \in BOOLEAN, k.status \in Active
      PROVE  /\ Quiet(k, Failed(k, again))
             /\ Quiet(k, Failed([k EXCEPT !.review = NoReview], again))
  <2>1. ASSUME NEW l \in TaskRecords, l.deps = k.deps, l.author = k.author
        PROVE  Quiet(k, Failed(l, again))
    <3>1. Failed(l, again) \in TaskRecords BY FailedType
    <3>2. /\ Failed(l, again).deps = l.deps /\ Failed(l, again).author = l.author
          /\ Failed(l, again).status \in {"Stale", "Proposed"}
      BY DEF Failed, TaskRecords
    <3> QED BY <1>2, <2>1, <3>1, <3>2, QuietStatus DEF Done, Active
  <2>2. /\ [k EXCEPT !.review = NoReview] \in TaskRecords
        /\ [k EXCEPT !.review = NoReview].deps = k.deps
        /\ [k EXCEPT !.review = NoReview].author = k.author
    BY DEF TaskRecords, Reviews
  <2> QED BY <2>1, <2>2
<1>3. ASSUME NEW a \in Agents
      PROVE  /\ Phase(Claimed(k, a)) = "working" /\ Claimed(k, a).author = a
             /\ Approval(Claimed(k, a)) = NoOne /\ Fits(Claimed(k, a))
             /\ Claimed(k, a).deps = k.deps
  BY DEF Claimed, TaskRecords, Phase, Approval, Fits
<1> QED BY <1>1, <1>2, <1>3

LEMMA PresenceMoves ==
    ASSUME TypeOK, NEW a \in Agents,
           \/ Join(a) \/ Heartbeat(a) \/ Release(a) \/ Remove(a)
           \/ RemoveAgain(a) \/ Restore(a) \/ LeaseLapse(a) \/ AssignmentLapse(a)
    PROVE  MovesStep(tasks, tasks') /\ integrations' = integrations
<1>0. integrations' = integrations
  BY DEF Join, Heartbeat, Release, Remove, RemoveAgain, Restore, LeaseLapse, AssignmentLapse,
         inFlight
<1>1. tasks \in [Tasks -> TaskRecords] /\ agents \in [Agents -> AgentRecords]
  BY DEF TypeOK
<1>2. CASE Join(a) \/ Heartbeat(a)
  <2>1. tasks' = ExpireTasks(agents, tasks) \/ UNCHANGED tasks
    BY <1>2 DEF Join, Heartbeat
  <2> QED BY <1>0, <1>1, <2>1, QuietExpiry, QuietMoves, StillMoves DEF QuietStep
<1>3. CASE Release(a)
  <2> DEFINE u == agents[a].work.task
  <2>1. CASE u = NoTask
    BY <1>3, <2>1, StillMoves DEF Release
  <2>2. CASE u # NoTask
    <3>1. u \in Tasks
      BY <1>1, <2>2 DEF AgentRecords, Work, NoWork
    <3>2. tasks' = Refresh([tasks EXCEPT ![u] = Unclaimed(tasks[u])])
      BY <1>3, <2>2 DEF Release
    <3> HIDE DEF u
    <3>3. Moves(tasks, u, Unclaimed(tasks[u]))
      BY <1>1, <3>1, RecordMoves DEF Moves
    <3> QED BY <1>0, <1>1, <3>1, <3>2, <3>3, UpdateMoves, UnclaimedType
  <2> QED BY <2>1, <2>2
<1>4. CASE Remove(a)
  <2> DEFINE leave(k) ==
        [k EXCEPT !.owner = IF @ = a THEN NoOne ELSE @,
                  !.reviewer = IF @ = a THEN NoOne ELSE @,
                  !.status = IF \/ k.owner = a /\ @ \in Active
                                \/ k.reviewer = a /\ @ = "Review"
                             THEN "Stale" ELSE @]
             ts2 == [t \in Tasks |-> leave(tasks[t])]
  <2>1. ASSUME NEW k \in TaskRecords PROVE leave(k) \in TaskRecords /\ Quiet(k, leave(k))
    <3>1. leave(k) \in TaskRecords
      BY DEF TaskRecords, TaskStatuses
    <3>2. /\ leave(k).deps = k.deps /\ leave(k).review = k.review
          /\ leave(k).author = k.author
          /\ \/ leave(k).status = k.status
             \/ k.status \in Active /\ leave(k).status = "Stale"
      BY DEF TaskRecords, Active
    <3> HIDE DEF leave
    <3> QED BY <3>1, <3>2, QuietStatus DEF Active, Done
  <2>2. tasks' = Refresh(ts2)
    BY <1>4 DEF Remove
  <2> HIDE DEF leave
  <2>3. ts2 \in [Tasks -> TaskRecords] /\ \A t \in Tasks : Quiet(tasks[t], ts2[t])
    BY <1>1, <2>1
  <2> HIDE DEF ts2
  <2>4. ASSUME NEW t \in Tasks PROVE Quiet(tasks[t], tasks'[t])
    BY <2>2, <2>3, AlikeRefresh, QuietTwice DEF Quiet
  <2> QED BY <1>0, <2>4, QuietMoves DEF QuietStep
<1>5. CASE RemoveAgain(a) \/ Restore(a) \/ LeaseLapse(a) \/ AssignmentLapse(a)
  BY <1>0, <1>5, StillMoves DEF RemoveAgain, Restore, LeaseLapse, AssignmentLapse, snapshot
<1> QED BY <1>0, <1>2, <1>3, <1>4, <1>5

LEMMA WorkMoves ==
    ASSUME TypeOK, NEW a \in Agents,
           \/ CompletePlan(a) \/ AckContext(a) \/ BeginWrite(a) \/ LandWrite(a)
           \/ SubmitResult(a) \/ RequestGate(a)
           \/ \E again \in BOOLEAN : RecordBlocker(a, again)
           \/ \E accepted, again \in BOOLEAN : SubmitReview(a, accepted, again)
    PROVE  MovesStep(tasks, tasks') /\ integrations' = integrations
<1> DEFINE u == agents[a].work.task
<1>0. integrations' = integrations
  BY DEF CompletePlan, AckContext, BeginWrite, LandWrite, SubmitResult, RequestGate,
         RecordBlocker, SubmitReview, inFlight
<1>1. tasks \in [Tasks -> TaskRecords] /\ agents \in [Agents -> AgentRecords]
  BY DEF TypeOK
<1>2. CASE CompletePlan(a) \/ BeginWrite(a) \/ LandWrite(a)
  BY <1>2, StillMoves DEF CompletePlan, BeginWrite, LandWrite, snapshot
<1>3. CASE AckContext(a)
  <2>1. ASSUME NEW k \in TaskRecords PROVE Quiet(k, [k EXCEPT !.recheck = FALSE])
    <3> DEFINE l == [k EXCEPT !.recheck = FALSE]
    <3>1. /\ l \in TaskRecords /\ l.status = k.status /\ l.review = k.review
          /\ l.author = k.author /\ l.deps = k.deps
      BY DEF TaskRecords
    <3> HIDE DEF l
    <3>2. Quiet(k, l) BY <3>1, QuietStatus
    <3> QED BY <3>2 DEF l
  <2>2. ASSUME NEW t \in Tasks PROVE tasks'[t] \in {tasks[t], [tasks[t] EXCEPT !.recheck = FALSE]}
    BY <1>3 DEF AckContext
  <2>3. QuietStep(tasks, tasks')
    BY <1>1, <2>1, <2>2, AlikeSelf DEF QuietStep, Quiet
  <2> QED BY <1>0, <2>3, QuietMoves
<1>4. ASSUME NEW kinds, kinds \subseteq {"Implement", "Review"}, Working(a, kinds)
      PROVE  u \in Tasks /\ tasks[u] \in TaskRecords
  BY <1>1, <1>4 DEF Working, AgentRecords, Work, NoWork
<1>5. CASE SubmitResult(a)
  <2> DEFINE k == [tasks[u] EXCEPT !.status = "Review"]
  <2>1. u \in Tasks /\ tasks[u] \in TaskRecords /\ tasks[u].status = "InProgress"
    BY <1>4, <1>5 DEF SubmitResult
  <2>2. /\ k \in TaskRecords /\ k.status = "Review" /\ k.review = tasks[u].review
        /\ k.author = tasks[u].author /\ k.deps = tasks[u].deps
    BY <2>1 DEF TaskRecords, TaskStatuses
  <2>3. tasks' = Refresh([tasks EXCEPT ![u] = k])
    BY <1>5 DEF SubmitResult
  <2> HIDE DEF k, u
  <2>4. Moves(tasks, u, k)
    BY <2>1, <2>2, NoneAssumption DEF Moves, Submits, Phase, Approval, Fits, NoReview
  <2> QED BY <1>0, <1>1, <2>1, <2>2, <2>3, <2>4, UpdateMoves
<1>6. CASE RequestGate(a)
  <2> DEFINE k == [tasks[u] EXCEPT !.gates = @ \cup {a}]
  <2>1. u \in Tasks /\ tasks[u] \in TaskRecords
    BY <1>4, <1>6 DEF RequestGate
  <2>2. k \in TaskRecords BY <2>1, GatedType
  <2>3. /\ k.status = tasks[u].status /\ k.review = tasks[u].review
        /\ k.author = tasks[u].author /\ k.deps = tasks[u].deps
    BY <2>1 DEF TaskRecords
  <2>4. tasks' = [tasks EXCEPT ![u] = k]
    BY <1>6 DEF RequestGate
  <2> HIDE DEF k, u
  <2>5. Moves(tasks, u, k)
    BY <2>1, <2>2, <2>3, QuietStatus DEF Moves
  <2> QED BY <1>0, <1>1, <2>1, <2>2, <2>4, <2>5, UpdateMoves
<1>7. ASSUME NEW again \in BOOLEAN, RecordBlocker(a, again) PROVE MovesStep(tasks, tasks')
  <2>1. u \in Tasks /\ tasks[u] \in TaskRecords /\ tasks[u].status \in Active
    BY <1>4, <1>7 DEF RecordBlocker, Active
  <2>2. tasks' = Refresh([tasks EXCEPT ![u] = Failed(tasks[u], again)])
    BY <1>7 DEF RecordBlocker
  <2> HIDE DEF u
  <2>3. Moves(tasks, u, Failed(tasks[u], again))
    BY <2>1, RecordMoves DEF Moves
  <2> QED BY <1>1, <2>1, <2>2, <2>3, UpdateMoves, FailedType
<1>8. ASSUME NEW accepted \in BOOLEAN, NEW again \in BOOLEAN, SubmitReview(a, accepted, again)
      PROVE  MovesStep(tasks, tasks')
  <2>1. /\ u \in Tasks /\ tasks[u] \in TaskRecords /\ tasks[u].status = "Review"
        /\ tasks[u].author # a
    BY <1>4, <1>8 DEF SubmitReview
  <2>2. CASE accepted
    <3> DEFINE k == [tasks[u] EXCEPT !.reviewer = a, !.review = [by |-> a, fresh |-> TRUE]]
    <3>1. /\ k \in TaskRecords /\ k.status = "Review" /\ k.review = [by |-> a, fresh |-> TRUE]
          /\ k.author = tasks[u].author /\ k.deps = tasks[u].deps
      BY <2>1 DEF TaskRecords, TaskStatuses, Reviews
    <3>2. tasks' = [tasks EXCEPT ![u] = k]
      BY <1>8, <2>2 DEF SubmitReview
    <3> HIDE DEF k, u
    <3>3. Moves(tasks, u, k)
      BY <2>1, <3>1 DEF Moves, Approves, Phase, Approval, Fits
    <3> QED BY <1>1, <2>1, <3>1, <3>2, <3>3, UpdateMoves
  <2>3. CASE ~accepted
    <3> DEFINE k == [tasks[u] EXCEPT !.review = NoReview]
    <3>1. k \in TaskRecords
      BY <2>1 DEF TaskRecords, Reviews
    <3>2. tasks' = Refresh([tasks EXCEPT ![u] = Failed(k, again)])
      BY <1>8, <2>3 DEF SubmitReview
    <3>3. Quiet(tasks[u], Failed(k, again))
      <4> HIDE DEF u
      <4> QED BY <2>1, RecordMoves DEF Active
    <3> HIDE DEF k, u
    <3>4. Moves(tasks, u, Failed(k, again)) /\ Failed(k, again) \in TaskRecords
      BY <3>1, <3>3, FailedType DEF Moves
    <3> QED BY <1>1, <2>1, <3>2, <3>4, UpdateMoves
  <2> QED BY <2>2, <2>3
<1> QED BY <1>0, <1>2, <1>3, <1>5, <1>6, <1>7, <1>8

\* A task that the expiry pass leaves ready could have been claimed before it.
LEMMA ReadyAfterExpiry ==
    ASSUME NEW ag, NEW ts \in [Tasks -> TaskRecords], NEW t \in Tasks,
           ExpireTasks(ag, ts)[t].status = "Ready"
    PROVE  DepsDone(ts, t)
<1> DEFINE lapsed(s) == /\ ts[s].status = "InProgress"
                        /\ \E a \in Agents : /\ ts[s].owner = a
                                             /\ ag[a].work.task = s
                                             /\ LapsedWork(ag[a])
           back(k) == [k EXCEPT !.status = "Proposed", !.owner = NoOne]
           ts2 == [s \in Tasks |-> IF lapsed(s) THEN back(ts[s]) ELSE ts[s]]
<1>1. ASSUME NEW k \in TaskRecords
      PROVE  /\ back(k) \in TaskRecords /\ back(k).deps = k.deps
             /\ back(k).status \notin Done
  BY DEF TaskRecords, TaskStatuses, Done
<1>2. ExpireTasks(ag, ts) = Refresh(ts2)
  BY DEF ExpireTasks
<1> HIDE DEF lapsed, back
<1>3. /\ ts2 \in [Tasks -> TaskRecords]
      /\ \A s \in Tasks : /\ ts2[s].deps = ts[s].deps
                          /\ ts2[s].status \in Done => ts[s].status \in Done
  BY <1>1
<1> HIDE DEF ts2
<1>4. CASE ts2[t].status \in Unstarted
  <2>1. Refresh(ts2)[t] = [ts2[t] EXCEPT !.status = IF DepsDone(ts2, t) THEN "Ready"
                                                   ELSE "BlockedDependency"]
    BY <1>4 DEF Refresh
  <2>2. \A k \in TaskRecords : \A s : [k EXCEPT !.status = s].status = s
    BY DEF TaskRecords
  <2>3. DepsDone(ts2, t)
    BY <1>2, <1>3, <2>1, <2>2
  <2>4. ts[t].deps \subseteq Tasks
    BY DEF TaskRecords
  <2> QED BY <1>3, <2>3, <2>4 DEF DepsDone
<1>5. CASE ts2[t].status \notin Unstarted
  <2>1. Refresh(ts2)[t] = ts2[t]
    BY <1>3, <1>5, RefreshFacts
  <2> QED BY <1>2, <1>5, <2>1 DEF Unstarted
<1> QED BY <1>4, <1>5

LEMMA TaskWorkMoves ==
    ASSUME TypeOK, NEW a \in Agents, NEW u \in Tasks,
           \/ ClaimTask(a, u) \/ AttachEvidence(a, u)
           \/ \E deps \in SUBSET Tasks : Propose(a, u, deps)
           \/ \E sufficient \in BOOLEAN : EvaluateTask(a, u, sufficient)
    PROVE  /\ MovesStep(tasks, tasks')
           /\ integrations' \in {integrations, integrations \cup
                    {[task |-> u, stage |-> "begin", current |-> TRUE]}}
<1>1. tasks \in [Tasks -> TaskRecords] /\ tasks[u] \in TaskRecords
  BY DEF TypeOK
<1>2. CASE ClaimTask(a, u)
  <2>1. /\ tasks' = Refresh([tasks EXCEPT ![u] = Claimed(tasks[u], a)])
        /\ tasks[u].status = "Ready" /\ DepsDone(tasks, u) /\ integrations' = integrations
    BY <1>2 DEF ClaimTask, CanClaim, inFlight
  <2>2. Phase(tasks[u]) = "open"
    BY <1>1, <2>1, PhaseFacts DEF Active, Done
  <2>3. Moves(tasks, u, Claimed(tasks[u], a))
    BY <1>1, <2>1, <2>2, RecordMoves DEF Moves, Starts
  <2> QED BY <1>1, <2>1, <2>3, UpdateMoves, ClaimedType
<1>3. CASE AttachEvidence(a, u)
  <2> DEFINE k == [tasks[u] EXCEPT !.evidence = @ \cup {"fresh"}]
  <2>1. /\ k \in TaskRecords /\ k.status = tasks[u].status /\ k.review = tasks[u].review
        /\ k.author = tasks[u].author /\ k.deps = tasks[u].deps
    BY <1>1 DEF TaskRecords
  <2>2. tasks' = [tasks EXCEPT ![u] = k] /\ integrations' = integrations
    BY <1>3 DEF AttachEvidence, inFlight
  <2> HIDE DEF k
  <2>3. Moves(tasks, u, k)
    BY <1>1, <2>1, QuietStatus DEF Moves
  <2> QED BY <1>1, <2>1, <2>2, <2>3, UpdateMoves
<1>4. ASSUME NEW deps \in SUBSET Tasks, Propose(a, u, deps)
      PROVE  MovesStep(tasks, tasks') /\ integrations' = integrations
  <2>1. tasks' = Refresh([tasks EXCEPT ![u] = Proposed(tasks[u], deps)])
        /\ integrations' = integrations
    BY <1>4 DEF Propose
  <2>2. ASSUME NEW k \in TaskRecords
        PROVE  /\ Proposed(k, deps) \in TaskRecords /\ k.deps \subseteq Proposed(k, deps).deps
               /\ Proposed(k, deps).author = k.author /\ Proposed(k, deps).review = k.review
               /\ \/ Proposed(k, deps).status = k.status
                  \/ k.status = "Absent" /\ Proposed(k, deps).status = "Proposed"
    <3>1. Proposed(k, deps) \in TaskRecords BY ProposedType
    <3> QED BY <3>1 DEF Proposed, TaskRecords
  <2>3. Moves(tasks, u, Proposed(tasks[u], deps))
    BY <1>1, <2>2, QuietStatus DEF Moves, Active, Done
  <2> QED BY <1>1, <2>1, <2>2, <2>3, UpdateMoves
<1>5. ASSUME NEW sufficient \in BOOLEAN, EvaluateTask(a, u, sufficient)
      PROVE  /\ MovesStep(tasks, tasks')
             /\ integrations' \in {integrations, integrations \cup
                    {[task |-> u, stage |-> "begin", current |-> TRUE]}}
  <2>1. CASE sufficient /\ Verifiable(tasks[u])
    <3> DEFINE k == [tasks[u] EXCEPT !.status = "Verified", !.verified = "fresh", !.owner = NoOne]
    <3>1. /\ k \in TaskRecords /\ k.status = "Verified" /\ k.review = tasks[u].review
          /\ k.author = tasks[u].author /\ k.deps = tasks[u].deps
      BY <1>1 DEF TaskRecords, TaskStatuses
    <3>2. /\ tasks' = [tasks EXCEPT ![u] = k] /\ tasks[u].status = "Review"
          /\ integrations' = integrations \cup
                    {[task |-> u, stage |-> "begin", current |-> TRUE]}
      BY <1>5, <2>1 DEF EvaluateTask
    <3>3. tasks[u].review.fresh /\ tasks[u].review.by \in Agents
      BY <1>1, <2>1 DEF Verifiable, TaskRecords, Reviews
    <3> HIDE DEF k
    <3>4. Moves(tasks, u, k)
      BY <3>1, <3>2, <3>3, NoneAssumption DEF Moves, Verifies, Phase, Approval, Fits
    <3> QED BY <1>1, <3>1, <3>2, <3>4, UpdateMoves
  <2>2. CASE ~(sufficient /\ Verifiable(tasks[u]))
    BY <1>5, <2>2, StillMoves DEF EvaluateTask
  <2> QED BY <2>1, <2>2
<1> QED BY <1>2, <1>3, <1>4, <1>5

LEMMA TickMoves ==
    ASSUME TypeOK, Tick
    PROVE  MovesStep(tasks, tasks') /\ integrations' = integrations
<1>0. integrations' = integrations
  BY DEF Tick, TickHeld, TickAborts, TickSchedules
<1>1. CASE TickHeld \/ TickAborts
  BY <1>0, <1>1, StillMoves DEF TickHeld, TickAborts, snapshot
<1>2. CASE TickSchedules
  <2>1. PICK ag, ts, job, planner : Dispatch(ag, ts, job, planner)
    BY <1>2, TickDispatches
  <2> DEFINE chosen(t) == CHOOSE b \in DOMAIN job : job[b] = t
             given(t) == IF \E a \in DOMAIN job : job[a] = t
                         THEN IF ts[t].status = "Ready" THEN Claimed(ts[t], chosen(t))
                              ELSE [ts[t] EXCEPT !.reviewer = chosen(t)]
                         ELSE ts[t]
             ts2 == [t \in Tasks |-> given(t)]
  <2>2. /\ tasks \in [Tasks -> TaskRecords] /\ ts \in [Tasks -> TaskRecords]
        /\ ts = ExpireTasks(agents, tasks) /\ DOMAIN job \subseteq Agents
        /\ tasks' = Refresh(ts2)
    BY <2>1, ExpireTasksType DEF TypeOK, Dispatch, Staffed
  <2>3. ASSUME NEW t \in Tasks
        PROVE  given(t) \in TaskRecords /\ Moves(tasks, t, given(t))
    <3>1. Quiet(tasks[t], ts[t]) /\ (Phase(ts[t]) = "open" => Phase(tasks[t]) \in {"open", "working"})
      BY <2>2, QuietExpiry
    <3>2. CASE \E a \in DOMAIN job : job[a] = t
      <4>1. chosen(t) \in Agents BY <2>2, <3>2
      <4>2. given(t) = IF ts[t].status = "Ready" THEN Claimed(ts[t], chosen(t))
                       ELSE [ts[t] EXCEPT !.reviewer = chosen(t)]
        BY <3>2
      <4> HIDE DEF chosen, given
      <4>3. CASE ts[t].status = "Ready"
        <5>1. Phase(tasks[t]) \in {"open", "working"} /\ DepsDone(tasks, t)
          BY <2>2, <3>1, <4>3, PhaseFacts, ReadyAfterExpiry DEF Active, Done
        <5>2. tasks[t].deps \subseteq ts[t].deps
          BY <3>1 DEF Quiet, Alike, Drops
        <5> DEFINE l == Claimed(ts[t], chosen(t))
        <5>3. /\ l \in TaskRecords /\ Phase(l) = "working" /\ l.author \in Agents
              /\ Approval(l) = NoOne /\ Fits(l) /\ l.deps = ts[t].deps
          BY <2>2, <4>1, RecordMoves, ClaimedType
        <5> HIDE DEF l
        <5>4. Moves(tasks, t, l)
          BY <5>1, <5>2, <5>3 DEF Moves, Starts
        <5> QED BY <4>2, <4>3, <5>3, <5>4 DEF l
      <4>4. CASE ts[t].status # "Ready"
        <5>1. ASSUME NEW k \in TaskRecords, NEW a \in Agents
              PROVE  LET l == [k EXCEPT !.reviewer = a] IN l \in TaskRecords /\ Quiet(k, l)
          <6> DEFINE l == [k EXCEPT !.reviewer = a]
          <6>1. /\ l \in TaskRecords /\ l.status = k.status /\ l.review = k.review
                /\ l.author = k.author /\ l.deps = k.deps
            BY DEF TaskRecords
          <6> HIDE DEF l
          <6>2. Quiet(k, l) BY <6>1, QuietStatus
          <6> QED BY <6>1, <6>2 DEF l
        <5> QED BY <2>2, <3>1, <4>1, <4>2, <4>4, <5>1, QuietTwice DEF Moves
      <4> QED BY <4>3, <4>4
    <3>3. CASE ~\E a \in DOMAIN job : job[a] = t
      BY <2>2, <3>1, <3>3 DEF Moves
    <3> QED BY <3>2, <3>3
  <2> HIDE DEF given
  <2>4. ts2 \in [Tasks -> TaskRecords] /\ \A t \in Tasks : Moves(tasks, t, ts2[t])
    BY <2>3
  <2> HIDE DEF ts2
  <2>5. MovesStep(tasks, tasks')
    BY <2>2, <2>4, AlikeRefresh, MovesThenAlike DEF MovesStep
  <2> QED BY <1>0, <2>5
<1> QED BY <1>1, <1>2 DEF Tick

LEMMA ControlMoves ==
    ASSUME TypeOK, Pause \/ Resume \/ Stop \/ UNCHANGED vars
    PROVE  MovesStep(tasks, tasks') /\ integrations' = integrations
<1>0. integrations' = integrations
  BY DEF Pause, Resume, Stop, vars, inFlight
<1>1. CASE Pause \/ Resume \/ UNCHANGED vars
  BY <1>0, <1>1, StillMoves DEF Pause, Resume, vars
<1>2. CASE Stop
  <2> DEFINE stopped(k) == [k EXCEPT !.status = "Stale", !.owner = NoOne, !.reviewer = NoOne]
  <2>1. ASSUME NEW k \in TaskRecords, k.status \in Active PROVE Quiet(k, stopped(k))
    <3>1. /\ stopped(k) \in TaskRecords /\ stopped(k).status = "Stale"
          /\ stopped(k).deps = k.deps /\ stopped(k).author = k.author
      BY DEF TaskRecords, TaskStatuses
    <3> HIDE DEF stopped
    <3> QED BY <2>1, <3>1, QuietStatus DEF Active, Done
  <2>2. ASSUME NEW t \in Tasks
        PROVE  \/ tasks'[t] = tasks[t]
               \/ tasks[t].status \in Active /\ tasks'[t] = stopped(tasks[t])
    BY <1>2 DEF Stop
  <2> HIDE DEF stopped
  <2>3. QuietStep(tasks, tasks')
    BY <2>1, <2>2, AlikeSelf DEF TypeOK, QuietStep, Quiet
  <2> QED BY <1>0, <2>3, QuietMoves
<1> QED BY <1>1, <1>2

-----------------------------------------------------------------------------
(* The steps as TaskPromise says them *)

\* What is not seen: a task in progress was not reviewed, and an integration that has not
\* begun to write begins at the current revision.
Fitting ==
    /\ \A t \in Tasks : Fits(tasks[t])
    /\ \A i \in integrations : i.stage = "begin" => i.current

shown == <<Phases, Needs, Authors, Approvals, Merges>>

\* The moves of the tasks, while no merge begins or ends.
LEMMA WorkKept ==
    ASSUME TypeOK, TypeOK', Fitting, MovesStep(tasks, tasks'), Merges' = Merges
    PROVE  Promise!Work /\ \A t \in Tasks : Fits(tasks'[t])
<1>1. /\ tasks \in [Tasks -> TaskRecords] /\ tasks' \in [Tasks -> TaskRecords]
      /\ \A t \in Tasks : Moves(tasks, t, tasks'[t]) /\ Fits(tasks[t])
  BY DEF TypeOK, MovesStep, Fitting
<1>2. ASSUME NEW t \in Tasks
      PROVE  /\ Phases[t] = Phase(tasks[t]) /\ Phases'[t] = Phase(tasks'[t])
             /\ Needs[t] = tasks[t].deps /\ Needs'[t] = tasks'[t].deps
             /\ Authors[t] = tasks[t].author /\ Authors'[t] = tasks'[t].author
             /\ Approvals[t] = Approval(tasks[t]) /\ Approvals'[t] = Approval(tasks'[t])
  BY DEF Phases, Needs, Authors, Approvals
<1>3. ASSUME NEW t \in Tasks
      PROVE  /\ \/ Promise!Keeps(t) \/ Promise!Start(t) \/ Promise!Submit(t)
                \/ Promise!Approve(t) \/ Promise!Verify(t) \/ Promise!GiveUp(t)
             /\ Needs[t] \subseteq Needs'[t] /\ Fits(tasks'[t])
  <2> DEFINE k == tasks[t]
             l == tasks'[t]
  <2>1. CASE Alike(k, l)
    BY <1>1, <1>2, <2>1 DEF Alike, Promise!Keeps, Promise!Goes
  <2>2. CASE Drops(k, l)
    BY <1>1, <1>2, <2>2 DEF Drops, Promise!GiveUp, Promise!Goes
  <2>3. CASE k.deps \subseteq l.deps /\ Fits(l)
    <3>1. CASE Starts(tasks, t, l)
      <4>1. ASSUME NEW d \in Needs[t] PROVE Phases[d] \in {"verified", "merged"}
        <5>1. d \in Tasks /\ tasks[d].status \in Done
          BY <1>1, <1>2, <3>1, <4>1 DEF Starts, DepsDone, TaskRecords
        <5> QED BY <1>1, <1>2, <5>1, PhaseFacts DEF Done
      <4> QED BY <1>2, <2>3, <3>1, <4>1 DEF Starts, Promise!Start
    <3>2. CASE Submits(k, l)
      BY <1>1, <1>2, <2>3, <3>2 DEF Submits, Promise!Submit, Promise!Goes
    <3>3. CASE Approves(k, l)
      BY <1>2, <2>3, <3>3 DEF Approves, Promise!Approve, Promise!Goes
    <3>4. CASE Verifies(k, l)
      BY <1>2, <2>3, <3>4 DEF Verifies, Promise!Verify, Promise!Goes
    <3>5. CASE Quiet(k, l)
      BY <2>1, <2>2, <3>5 DEF Quiet
    <3> QED BY <1>1, <3>1, <3>2, <3>3, <3>4, <3>5 DEF Moves
  <2> QED BY <1>1, <2>1, <2>2, <2>3 DEF Moves, Quiet
<1> QED BY <1>3 DEF Promise!Work

\* Nothing is seen of a change of the other integrations.
LEMMA MergesKept ==
    ASSUME \A i : i.stage = "apply" => (i \in integrations <=> i \in integrations')
    PROVE  Merges' = Merges
<1>1. {j \in integrations : j.stage = "apply"}' = {j \in integrations : j.stage = "apply"}
  OBVIOUS
<1> QED BY <1>1 DEF Merges

\* A directive: what is not merged has to be approved anew, and no merge under way is
\* of the current revision any more.
LEMMA DirectiveRedirects ==
    ASSUME TypeOK, Fitting, Directive
    PROVE  Promise!Redirect /\ Fitting'
<1> DEFINE ts == [t \in Tasks |-> Redirected(tasks[t])]
<1>1. /\ tasks \in [Tasks -> TaskRecords] /\ ts \in [Tasks -> TaskRecords]
      /\ tasks' = Refresh(ts)
  BY RedirectedType DEF TypeOK, Directive
<1>2. ASSUME NEW k \in TaskRecords, Fits(k)
      PROVE  LET l == Redirected(k) IN
             /\ l.deps = k.deps /\ l.author = k.author /\ Fits(l)
             /\ Phase(l) = IF Phase(k) = "verified" THEN "open" ELSE Phase(k)
             /\ Approval(l) = IF Phase(k) = "merged" THEN Approval(k) ELSE NoOne
  <2> DEFINE l == Redirected(k)
  <2>1. /\ l.deps = k.deps /\ l.author = k.author
        /\ l.review = [by |-> k.review.by, fresh |-> FALSE]
        /\ l.status = IF k.status = "Verified" THEN "Ready" ELSE k.status
    BY DEF Redirected, TaskRecords
  <2>2. l.review.by = k.review.by /\ ~l.review.fresh
    BY <2>1
  <2>3. Fits(l)
    <3>1. k.review = NoReview => k.review.by = NoOne
      BY DEF NoReview
    <3>2. l.status = "InProgress" => k.status = "InProgress"
      BY <2>1
    <3> HIDE DEF l
    <3> QED BY <1>2, <2>1, <3>1, <3>2 DEF Fits, NoReview
  <2> HIDE DEF l
  <2>4. Phase(l) = IF Phase(k) = "verified" THEN "open" ELSE Phase(k)
    BY <2>1 DEF Phase
  <2>5. Approval(l) = IF Phase(k) = "merged" THEN Approval(k) ELSE NoOne
    BY <2>1, <2>2 DEF Phase, Approval
  <2> QED BY <2>1, <2>3, <2>4, <2>5 DEF l
<1>3. ASSUME NEW t \in Tasks
      PROVE  /\ tasks'[t].deps = tasks[t].deps /\ tasks'[t].author = tasks[t].author
             /\ Fits(tasks'[t])
             /\ Phase(tasks'[t]) = IF Phase(tasks[t]) = "verified" THEN "open"
                                   ELSE Phase(tasks[t])
             /\ Approval(tasks'[t]) = IF Phase(tasks[t]) = "merged" THEN Approval(tasks[t])
                                      ELSE NoOne
  <2>1. ts[t] = Redirected(tasks[t]) /\ Fits(tasks[t]) /\ tasks[t] \in TaskRecords
    BY <1>1 DEF Fitting
  <2>2. Alike(ts[t], tasks'[t]) /\ tasks'[t].deps = ts[t].deps
    <3> HIDE DEF ts
    <3> QED BY <1>1, AlikeRefresh
  <2> HIDE DEF ts
  <2> QED BY <1>2, <2>1, <2>2 DEF Alike
<1>4. integrations' = {[i EXCEPT !.current = (i.stage # "apply")] : i \in integrations}
  BY DEF Directive
<1>5. ASSUME NEW i \in integrations
      PROVE  LET j == [i EXCEPT !.current = (i.stage # "apply")] IN
             j.task = i.task /\ j.stage = i.stage /\ j.current = (i.stage # "apply")
  BY DEF TypeOK, Integrations
<1>6. Merges' = {<<m[1], FALSE>> : m \in Merges}
  <2> DEFINE aged(i) == [i EXCEPT !.current = (i.stage # "apply")]
  <2>1. ASSUME NEW i \in integrations
        PROVE  aged(i).task = i.task /\ aged(i).stage = i.stage /\ aged(i).current = (i.stage # "apply")
    BY <1>5
  <2>2. integrations' = {aged(i) : i \in integrations}
    BY <1>4
  <2> HIDE DEF aged
  <2>3. ASSUME NEW m \in Merges' PROVE \E n \in Merges : m = <<n[1], FALSE>>
    <3>1. PICK i \in integrations : aged(i).stage = "apply" /\ m = <<aged(i).task, aged(i).current>>
      BY <2>2, <2>3 DEF Merges
    <3>2. <<i.task, i.current>> \in Merges /\ m = <<i.task, FALSE>>
      BY <2>1, <3>1 DEF Merges
    <3> QED BY <3>2
  <2>4. ASSUME NEW m \in Merges PROVE <<m[1], FALSE>> \in Merges'
    <3>1. PICK i \in integrations : i.stage = "apply" /\ m = <<i.task, i.current>>
      BY <2>4 DEF Merges
    <3>2. aged(i) \in integrations' /\ aged(i).stage = "apply" /\ <<m[1], FALSE>> = <<aged(i).task, aged(i).current>>
      BY <2>1, <2>2, <3>1
    <3> QED BY <3>2 DEF Merges
  <2> QED BY <2>3, <2>4
<1>7. Fitting'
  <2>1. ASSUME NEW j \in integrations', j.stage = "begin" PROVE j.current
    BY <1>4, <1>5, <2>1
  <2> QED BY <1>3, <2>1 DEF Fitting
<1>8. /\ Phases' = [t \in Tasks |-> IF Phases[t] = "verified" THEN "open" ELSE Phases[t]]
      /\ Approvals' = [t \in Tasks |-> IF Phases[t] = "merged" THEN Approvals[t] ELSE NoOne]
      /\ Needs' = Needs /\ Authors' = Authors
  BY <1>3 DEF Phases, Approvals, Needs, Authors
<1> QED BY <1>6, <1>7, <1>8 DEF Promise!Redirect

\* The steps of an integration that leave the tasks alone.
LEMMA IntegrationBegins ==
    ASSUME TypeOK, Fitting, NEW i \in integrations,
           BeginIntegration(i) \/ RefuseIntegration(i) \/ ResetOverlay(i)
    PROVE  /\ Promise!BeginMerge(i.task) \/ UNCHANGED shown
           /\ Fitting'
<1>1. UNCHANGED <<Phases, Needs, Authors, Approvals, tasks>>
  BY DEF BeginIntegration, RefuseIntegration, ResetOverlay, snapshot, Phases, Needs, Authors,
         Approvals
<1>2. i \in Integrations
  BY DEF TypeOK
<1>3. CASE BeginIntegration(i)
  <2> DEFINE j == [i EXCEPT !.stage = "apply"]
  <2>1. /\ i.stage = "begin" /\ i.current /\ tasks[i.task].status = "Verified"
        /\ integrations' = (integrations \ {i}) \cup {j}
    BY <1>3 DEF BeginIntegration, Advance, Bindable, Fitting
  <2>2. j.stage = "apply" /\ j.task = i.task /\ j.current = TRUE
    BY <1>2, <2>1 DEF Integrations
  <2> HIDE DEF j
  <2>3. {h \in integrations : h.stage = "apply"}' = {h \in integrations : h.stage = "apply"} \cup {j}
    BY <2>1, <2>2
  <2>4. Merges' = Merges \cup {<<i.task, TRUE>>}
    BY <2>2, <2>3 DEF Merges
  <2>5. Phases[i.task] = "verified"
    BY <1>2, <2>1 DEF Phases, Phase, Integrations
  <2>6. Fitting'
    BY <1>1, <2>1, <2>2 DEF Fitting
  <2> QED BY <1>1, <2>4, <2>5, <2>6 DEF Promise!BeginMerge, Promise!task
<1>4. CASE RefuseIntegration(i) \/ ResetOverlay(i)
  <2>1. integrations' = integrations \ {i} /\ i.stage # "apply"
    BY <1>4 DEF RefuseIntegration, ResetOverlay, Finish
  <2>2. Merges' = Merges
    BY <2>1, MergesKept
  <2> QED BY <1>1, <2>1, <2>2 DEF shown, Fitting
<1> QED BY <1>3, <1>4

\* The steps that end the writing of one.
LEMMA IntegrationEnds ==
    ASSUME TypeOK, IndependentlyVerified, Fitting, NEW i \in integrations,
           IntegrationApplied(i) \/ IntegrationUndone(i) \/ IntegrationAmbiguous(i)
    PROVE  (\E m \in Merges : Promise!EndMerge(m)) /\ Fitting'
<1> DEFINE u == i.task
           m == <<u, i.current>>
           as(s) == [tasks[u] EXCEPT !.status = s, !.verified = "no", !.owner = NoOne,
                                     !.reviewer = NoOne]
           merged == [tasks[u] EXCEPT !.status = "Integrated", !.owner = NoOne,
                                      !.reviewer = NoOne]
<1>1. /\ tasks \in [Tasks -> TaskRecords] /\ u \in Tasks /\ tasks[u] \in TaskRecords
      /\ integrations \subseteq Integrations /\ i \in Integrations /\ Fits(tasks[u])
      /\ i.stage = "apply"
  BY DEF TypeOK, Integrations, Fitting, IntegrationApplied, IntegrationUndone,
         IntegrationAmbiguous
\* The merge is over,
<1>2. /\ m \in Merges /\ Merges' = Merges \ {m}
      /\ \A j \in integrations' : j.stage = "begin" => j.current
  <2>1. \/ integrations' = integrations \ {i}
        \/ integrations' = (integrations \ {i}) \cup {[i EXCEPT !.stage = "reset"]}
    BY DEF IntegrationApplied, IntegrationUndone, IntegrationAmbiguous, Finish, Advance
  <2>2. [i EXCEPT !.stage = "reset"].stage = "reset"
    BY <1>1 DEF Integrations
  <2>3. {j \in integrations : j.stage = "apply"}' =
            {j \in integrations : j.stage = "apply"} \ {i}
    BY <2>1, <2>2
  <2>4. ASSUME NEW j \in integrations, j.stage = "apply", <<j.task, j.current>> = m PROVE j = i
    BY <1>1, <2>4 DEF Integrations
  <2>5. Merges' = Merges \ {m}
    BY <2>3, <2>4 DEF Merges
  <2>6. m \in Merges
    BY <1>1 DEF Merges
  <2> QED BY <2>1, <2>2, <2>5, <2>6 DEF Fitting
\* and one task is treated as the end of it says.
<1>3. \/ tasks' = tasks
      \/ /\ tasks[u].status = "Verified" /\ i.current
         /\ tasks' = Refresh([tasks EXCEPT ![u] = merged])
      \/ tasks' = Refresh([tasks EXCEPT ![u] = as("Ready")])
      \/ tasks' = [tasks EXCEPT ![u] = as("Stale")]
  BY DEF IntegrationApplied, IntegrationUndone, IntegrationAmbiguous, Bindable
<1>4. ASSUME NEW s \in {"Ready", "Stale"}
      PROVE  /\ as(s) \in TaskRecords /\ as(s).deps = tasks[u].deps
             /\ as(s).author = tasks[u].author /\ as(s).status = s
  BY <1>1 DEF TaskRecords, TaskStatuses
<1>5. /\ merged \in TaskRecords /\ merged.deps = tasks[u].deps
      /\ merged.author = tasks[u].author /\ merged.status = "Integrated"
      /\ merged.review = tasks[u].review
  BY <1>1 DEF TaskRecords, TaskStatuses
<1> DEFINE ends(k, l) ==
        /\ l.deps = k.deps /\ l.author = k.author /\ Fits(l)
        /\ \/ Phase(l) = Phase(k) /\ Approval(l) = Approval(k)
           \/ /\ i.current /\ Phase(k) = "verified" /\ Phase(l) = "merged"
              /\ Approval(l) = Approval(k)
           \/ Phase(l) = "open" /\ Approval(l) = NoOne
           keeps(k, l) == /\ l.deps = k.deps /\ l.author = k.author /\ Fits(l)
                          /\ Phase(l) = Phase(k) /\ Approval(l) = Approval(k)
<1>6. ASSUME NEW s \in {"Ready", "Stale"} PROVE ends(tasks[u], as(s))
  <2> HIDE DEF as
  <2> QED BY <1>4 DEF Phase, Approval, Fits
<1>7. ASSUME tasks[u].status = "Verified", i.current PROVE ends(tasks[u], merged)
  <2>1. tasks[u].review.fresh
    BY <1>1, <1>7 DEF IndependentlyVerified
  <2> HIDE DEF merged
  <2> QED BY <1>5, <1>7, <2>1 DEF Phase, Approval, Fits
<1>8. ASSUME NEW k \in TaskRecords, ends(tasks[u], k), NEW t \in Tasks,
             tasks' = [tasks EXCEPT ![u] = k] \/ tasks' = Refresh([tasks EXCEPT ![u] = k])
      PROVE  /\ t = u => ends(tasks[t], tasks'[t])
             /\ t # u => keeps(tasks[t], tasks'[t])
  <2> DEFINE ts == [tasks EXCEPT ![u] = k]
  <2>1. /\ ts \in [Tasks -> TaskRecords] /\ Fits(tasks[t])
        /\ t = u => ts[t] = k
        /\ t # u => ts[t] = tasks[t]
    BY <1>1, <1>8 DEF Fitting
  <2>2. tasks' = ts \/ tasks' = Refresh(ts)
    BY <1>8
  <2> HIDE DEF ts, u
  <2>3. Alike(ts[t], tasks'[t]) /\ tasks'[t].deps = ts[t].deps
    BY <2>1, <2>2, AlikeRefresh, AlikeSelf
  <2> QED BY <1>8, <2>1, <2>3 DEF Alike
<1>9. ASSUME NEW t \in Tasks
      PROVE  /\ t = u => ends(tasks[t], tasks'[t])
             /\ t # u => keeps(tasks[t], tasks'[t])
  <2>1. CASE tasks' = tasks
    BY <2>1 DEF Fitting
  <2> HIDE DEF as, merged, ends, keeps, u
  <2>2. CASE tasks' # tasks
    BY <1>3, <1>4, <1>5, <1>6, <1>7, <1>8, <2>2
  <2> QED BY <2>1, <2>2
<1>10. ASSUME NEW t \in Tasks
       PROVE  /\ Phases[t] = Phase(tasks[t]) /\ Phases'[t] = Phase(tasks'[t])
              /\ Authors[t] = tasks[t].author /\ Authors'[t] = tasks'[t].author
              /\ Approvals[t] = Approval(tasks[t]) /\ Approvals'[t] = Approval(tasks'[t])
  BY DEF Phases, Authors, Approvals
<1>11. ASSUME NEW t \in Tasks \ {u} PROVE Promise!Keeps(t)
  BY <1>9, <1>10, <1>11 DEF Promise!Keeps, Promise!Goes
<1>12. \/ Promise!Keeps(u)
       \/ i.current /\ Promise!Goes(u, {"verified"}, "merged", Approvals[u])
       \/ Promise!Goes(u, {Phases[u]}, "open", NoOne)
  BY <1>1, <1>9, <1>10 DEF Promise!Keeps, Promise!Goes
<1>13. Needs' = Needs
  BY <1>9 DEF Needs
<1>14. m[1] = u /\ m[2] = i.current
  OBVIOUS
<1>15. Promise!EndMerge(m)
  <2> HIDE DEF m, u
  <2> QED BY <1>2, <1>11, <1>12, <1>13, <1>14 DEF Promise!EndMerge
<1>16. Fitting'
  BY <1>2, <1>9 DEF Fitting
<1> QED BY <1>2, <1>15, <1>16

\* Every step of the mission.
LEMMA PromiseStep ==
    ASSUME IInv, Fitting, [Next]_vars
    PROVE  [Promise!Next]_shown /\ Fitting'
<1>1. TypeOK /\ TypeOK' /\ IndependentlyVerified
  BY TypeStep DEF IInv
<1>2. ASSUME MovesStep(tasks, tasks'),
             \/ integrations' = integrations
             \/ \E u \in Tasks : integrations' = integrations \cup
                    {[task |-> u, stage |-> "begin", current |-> TRUE]}
      PROVE  [Promise!Next]_shown /\ Fitting'
  <2>1. ASSUME NEW i, i.stage = "apply" PROVE i \in integrations <=> i \in integrations'
    BY <1>2, <2>1
  <2>2. Promise!Work /\ \A t \in Tasks : Fits(tasks'[t])
    BY <1>1, <1>2, <2>1, WorkKept, MergesKept
  <2>3. ASSUME NEW i \in integrations', i.stage = "begin" PROVE i.current
    BY <1>2, <2>3 DEF Fitting
  <2> QED BY <2>2, <2>3 DEF Promise!Next, Fitting
<1>3. CASE WorkerStep
  <2>1. PICK a \in Agents :
            \/ Join(a) \/ Heartbeat(a) \/ Release(a)
            \/ CompletePlan(a) \/ AckContext(a)
            \/ LandWrite(a) \/ SubmitResult(a) \/ RequestGate(a) \/ BeginWrite(a)
            \/ \E again \in BOOLEAN : RecordBlocker(a, again)
            \/ \E accepted, again \in BOOLEAN : SubmitReview(a, accepted, again)
            \/ \E u \in Tasks :
                \/ ClaimTask(a, u) \/ AttachEvidence(a, u)
                \/ \E deps \in SUBSET Tasks : Propose(a, u, deps)
                \/ \E sufficient \in BOOLEAN : EvaluateTask(a, u, sufficient)
    BY <1>3 DEF WorkerStep
  <2> QED BY <1>1, <1>2, <2>1, PresenceMoves, WorkMoves, TaskWorkMoves
<1>4. CASE IntegrationStep
  <2>1. PICK i \in integrations :
            \/ BeginIntegration(i) \/ RefuseIntegration(i) \/ IntegrationApplied(i)
            \/ IntegrationUndone(i) \/ ResetOverlay(i) \/ IntegrationAmbiguous(i)
    BY <1>4 DEF IntegrationStep
  <2>2. i.task \in Tasks
    BY <1>1 DEF TypeOK, Integrations
  <2> QED BY <1>1, <2>1, <2>2, IntegrationBegins, IntegrationEnds DEF Promise!Next
<1>5. CASE Tick
  BY <1>1, <1>2, <1>5, TickMoves
<1>6. CASE Restart
  <2>1. integrations' = {} /\ tasks' = tasks
    BY <1>6 DEF Restart, snapshot
  <2>2. Merges' = {} /\ UNCHANGED <<Phases, Needs, Authors, Approvals>> /\ Fitting'
    BY <2>1 DEF Merges, Phases, Needs, Authors, Approvals, Fitting
  <2> QED BY <2>2 DEF Promise!Next, Promise!Restart, Promise!task
<1>7. CASE HumanStep
  <2>1. \/ Pause \/ Stop \/ Resume \/ Directive
        \/ \E a \in Agents : Remove(a) \/ RemoveAgain(a) \/ Restore(a)
    BY <1>7 DEF HumanStep
  <2> QED BY <1>1, <1>2, <2>1, ControlMoves, PresenceMoves, DirectiveRedirects DEF Promise!Next
<1>8. CASE Environment /\ ~Restart
  <2>1. \E a \in Agents : LeaseLapse(a) \/ AssignmentLapse(a)
    BY <1>8 DEF Environment
  <2> QED BY <1>1, <1>2, <2>1, PresenceMoves
<1>9. CASE UNCHANGED vars
  BY <1>1, <1>2, <1>9, ControlMoves
<1> QED BY <1>3, <1>4, <1>5, <1>6, <1>7, <1>8, <1>9 DEF Next

\* The mission implements TaskPromise: no task is begun before what it depends on is
\* done, approved by its own worker, verified on an approval older than a directive, or
\* merged by an integration that a directive overtook, however leases, removals, ticks,
\* restarts and late integrations interleave.
THEOREM TasksKeepPromise == Spec => TaskPromiseKept
<1>1. Init => Promise!Init /\ Fitting
  <2> SUFFICES ASSUME Init PROVE Promise!Init /\ Fitting
    OBVIOUS
  <2>1. /\ integrations = {}
        /\ \A t \in Tasks : /\ tasks[t].status = "Absent" /\ tasks[t].deps = {}
                            /\ tasks[t].author = NoOne
    BY DEF Init
  <2>2. Phases = [t \in Tasks |-> "open"] /\ Approvals = [t \in Tasks |-> NoOne]
    BY <2>1 DEF Phases, Approvals, Phase, Approval
  <2>3. Needs = [t \in Tasks |-> {}] /\ Authors = [t \in Tasks |-> NoOne] /\ Merges = {}
    BY <2>1 DEF Needs, Authors, Merges
  <2>4. Fitting
    BY <2>1 DEF Fitting, Fits
  <2> QED BY <2>2, <2>3, <2>4 DEF Promise!Init
<1>2. IInv /\ Fitting /\ [Next]_vars =>
        [Promise!Next]_<<Promise!task, Needs, Merges>> /\ Fitting'
  BY PromiseStep DEF shown, Promise!task
<1> QED BY <1>1, <1>2, IInvHolds, PTL DEF Spec, TaskPromiseKept, Promise!Spec

-----------------------------------------------------------------------------
(* What must happen *)

\* The fairness of FairSpec without ENABLED: unless there is, time and again, no heartbeat
\* that could reclaim something, heartbeats go on.
HeartbeatDue == \E a, b \in Agents : agents[a].status = "Present" /\ LapsedWork(agents[b])
HeartbeatsGoOn == []<>~HeartbeatDue \/ []<><<\E a \in Agents : Heartbeat(a)>>_vars

\* No silent owner keeps its task: a heartbeat of any worker takes it back, and one is due,
\* since the owner itself, whose assignment has lapsed, may still send it.
THEOREM AbandonedTasksReturn == Spec /\ HeartbeatsGoOn => AbandonedTaskReturns
<1>1. ASSUME NEW t \in Tasks
      PROVE  Spec /\ HeartbeatsGoOn => (Abandoned(t) ~> ~Abandoned(t))
  <2>1. IInv /\ Abandoned(t) => HeartbeatDue
    BY DEF IInv, WorkersPresent, Abandoned, HeartbeatDue, LapsedWork, NoWork
  <2>2. IInv /\ Abandoned(t) /\ <<\E a \in Agents : Heartbeat(a)>>_vars => ~Abandoned(t)'
    <3> SUFFICES ASSUME IInv, Abandoned(t), NEW a \in Agents, Heartbeat(a)
                 PROVE  ~Abandoned(t)'
      OBVIOUS
    <3>1. tasks' = ExpireTasks(agents, tasks) /\ tasks \in [Tasks -> TaskRecords]
      BY DEF IInv, TypeOK, Abandoned, Heartbeat
    <3>2. tasks'[t].status \in {"Ready", "BlockedDependency"}
      BY <3>1, ExpireTasksStatus DEF Abandoned
    <3> QED BY <3>2 DEF Abandoned
  <2> QED BY <2>1, <2>2, IInvHolds, PTL DEF Spec, HeartbeatsGoOn
<1> QED BY <1>1 DEF AbandonedTaskReturns
=============================================================================
