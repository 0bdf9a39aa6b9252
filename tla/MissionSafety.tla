---------------------------- MODULE MissionSafety ----------------------------
(***************************************************************************)
(* The safety invariants of MissionWork, proved for every set of agents    *)
(* and tasks.  Each is inductive together with TypeOK; what makes each so  *)
(* is that assignments, claims and verdicts only appear in three places:   *)
(* a worker's claim, a scheduler tick and an evaluation.                   *)
(***************************************************************************)
EXTENDS MissionProofs

-----------------------------------------------------------------------------
(* Facts about the helpers *)

\* Only the status of an unstarted task depends on its dependencies.
LEMMA RefreshFacts ==
    ASSUME NEW ts \in [Tasks -> TaskRecords], NEW t \in Tasks
    PROVE  /\ ts[t].status \notin Unstarted => Refresh(ts)[t] = ts[t]
           /\ ts[t].status \in Unstarted =>
                \E s \in {"Ready", "BlockedDependency"} :
                    Refresh(ts)[t] = [ts[t] EXCEPT !.status = s]
BY DEF Refresh

LEMMA RefreshStatus ==
    ASSUME NEW ts \in [Tasks -> TaskRecords], NEW t \in Tasks
    PROVE  /\ Refresh(ts)[t].status \notin {"Ready", "BlockedDependency"} =>
                Refresh(ts)[t] = ts[t] /\ ts[t].status \notin Unstarted
           /\ Refresh(ts)[t].owner = ts[t].owner
<1>1. ASSUME NEW k \in TaskRecords, NEW s
      PROVE  /\ [k EXCEPT !.status = s].status = s
             /\ [k EXCEPT !.status = s].owner = k.owner
  BY DEF TaskRecords
<1>2. CASE ts[t].status \in Unstarted
  <2>1. PICK s \in {"Ready", "BlockedDependency"} :
            Refresh(ts)[t] = [ts[t] EXCEPT !.status = s]
    BY <1>2, RefreshFacts
  <2>2. ts[t] \in TaskRecords
    OBVIOUS
  <2> QED
    BY <1>1, <2>1, <2>2
<1>3. CASE ts[t].status \notin Unstarted
  BY <1>3, RefreshFacts
<1> QED
  BY <1>2, <1>3

\* A reclaimed task is unstarted; every other keeps its record or is refreshed.
LEMMA ExpireTasksStatus ==
    ASSUME NEW ag, NEW ts \in [Tasks -> TaskRecords], NEW t \in Tasks,
           ExpireTasks(ag, ts)[t].status \notin {"Ready", "BlockedDependency"}
    PROVE  /\ ExpireTasks(ag, ts)[t] = ts[t]
           /\ ts[t].status = "InProgress" =>
                \A a \in Agents : ts[t].owner = a /\ ag[a].work.task = t =>
                    ~LapsedWork(ag[a])
<1> DEFINE lapsed(s) == /\ ts[s].status = "InProgress"
                        /\ \E a \in Agents : /\ ts[s].owner = a
                                             /\ ag[a].work.task = s
                                             /\ LapsedWork(ag[a])
           back(s) == IF lapsed(s)
                      THEN [ts[s] EXCEPT !.status = "Proposed", !.owner = NoOne]
                      ELSE ts[s]
           ts2 == [s \in Tasks |-> back(s)]
<1>1. \A k \in TaskRecords :
        /\ [k EXCEPT !.status = "Proposed", !.owner = NoOne] \in TaskRecords
        /\ [k EXCEPT !.status = "Proposed", !.owner = NoOne].status = "Proposed"
  BY DEF TaskRecords, TaskStatuses
<1>2. ts2 \in [Tasks -> TaskRecords]
  BY <1>1
<1>3. ExpireTasks(ag, ts) = Refresh(ts2)
  BY DEF ExpireTasks
<1>4. ~lapsed(t)
  <2>1. SUFFICES ASSUME lapsed(t) PROVE FALSE
    OBVIOUS
  <2>2. ts2[t].status = "Proposed"
    BY <1>1, <2>1
  <2> HIDE DEF lapsed, ts2
  <2> QED
    BY <1>2, <1>3, <2>2, RefreshStatus DEF Unstarted
<1>5. ts2[t] = ts[t]
  BY <1>4
<1>6. ExpireTasks(ag, ts)[t] = ts[t]
  <2> HIDE DEF ts2
  <2> QED
    BY <1>2, <1>3, <1>5, RefreshStatus
<1> QED
  BY <1>4, <1>6

LEMMA WorkFacts ==
    ASSUME NEW g \in AgentRecords, NEW kind, NEW t
    PROVE  /\ Renewed(g).work = g.work
           /\ Completed(g).work = NoWork
           /\ Assigned(g, kind, t).work = [kind |-> kind, task |-> t, live |-> TRUE]
BY DEF Renewed, Completed, Assigned, AgentRecords

LEMMA ExpireAgentsWork ==
    ASSUME NEW ag \in [Agents -> AgentRecords], NEW a \in Agents
    PROVE  ExpireAgents(ag)[a].work = IF LapsedWork(ag[a]) THEN NoWork ELSE ag[a].work
<1>1. [ag[a] EXCEPT !.work = NoWork].work = NoWork
  BY DEF AgentRecords
<1> QED
  BY <1>1 DEF ExpireAgents

-----------------------------------------------------------------------------
(* Assignments *)

\* What a step does to the assignment of an agent: it keeps it, clears it, or
\* gives the agent a task that is nobody else's assignment.
KeepsOrClears(a) ==
    \/ agents'[a].work.task = NoTask
    \/ agents'[a].work = agents[a].work
    \/ agents'[a].work = [agents[a].work EXCEPT !.live = FALSE]
TakesAlone(a) ==
    \A b \in Agents \ {a} : agents'[b].work.task # agents'[a].work.task

\* Everything but a claim and a tick keeps or clears.
LEMMA WorkerKeeps ==
    ASSUME TypeOK, NEW b \in Agents, NEW a \in Agents,
           \/ Join(a) \/ Heartbeat(a) \/ CompletePlan(a) \/ AckContext(a)
           \/ LandWrite(a) \/ SubmitResult(a) \/ Release(a) \/ BeginWrite(a)
           \/ RequestGate(a)
           \/ \E again \in BOOLEAN : RecordBlocker(a, again)
           \/ \E accepted, again \in BOOLEAN : SubmitReview(a, accepted, again)
           \/ \E t \in Tasks : \/ AttachEvidence(a, t)
                               \/ \E deps \in SUBSET Tasks : Propose(a, t, deps)
                               \/ \E sufficient \in BOOLEAN : EvaluateTask(a, t, sufficient)
           \/ Remove(a) \/ RemoveAgain(a) \/ Restore(a)
           \/ LeaseLapse(a) \/ AssignmentLapse(a)
    PROVE  KeepsOrClears(b)
<1>1. agents \in [Agents -> AgentRecords] /\ agents[a] \in AgentRecords
      /\ agents[b] \in AgentRecords
  BY DEF TypeOK
<1>2. NoWork.task = NoTask
  BY DEF NoWork
<1>3. CASE agents' = agents
  BY <1>3 DEF KeepsOrClears
<1>4. CASE agents' = [agents EXCEPT ![a] = Completed(@)]
  BY <1>1, <1>2, <1>4, WorkFacts DEF KeepsOrClears
<1>5. CASE Join(a) \/ Heartbeat(a)
  <2> DEFINE ag == ExpireAgents(agents)
  <2>1. ag \in [Agents -> AgentRecords]
    BY <1>1, ExpireAgentsType
  <2>2. \/ agents' = [ag EXCEPT ![a] = Renewed(@)]
        \/ agents' = [agents EXCEPT ![a] = Renewed(@)]
    BY <1>5 DEF Join, Heartbeat
  <2>3. ag[b].work \in {NoWork, agents[b].work}
    BY <1>1, ExpireAgentsWork
  <2> HIDE DEF ag
  <2>4. agents'[b].work \in {ag[b].work, agents[b].work}
    <3>1. CASE agents' = [ag EXCEPT ![a] = Renewed(@)]
      BY <2>1, <3>1, WorkFacts
    <3>2. CASE agents' = [agents EXCEPT ![a] = Renewed(@)]
      BY <1>1, <3>2, WorkFacts
    <3> QED
      BY <2>2, <3>1, <3>2
  <2> QED
    BY <1>2, <2>3, <2>4 DEF KeepsOrClears
<1>6. CASE Release(a) \/ Remove(a) \/ Restore(a)
  <2>1. \A s : [agents[a] EXCEPT !.status = s, !.live = FALSE, !.work = NoWork].work = NoWork
    BY <1>1 DEF AgentRecords
  <2>2. \E g : g.work = NoWork /\ agents' = [agents EXCEPT ![a] = g]
    <3>1. CASE Release(a)
      BY <2>1, <3>1 DEF Release
    <3>2. CASE Remove(a)
      BY <3>2 DEF Remove
    <3>3. CASE Restore(a)
      BY <2>1, <3>3 DEF Restore
    <3> QED
      BY <1>6, <3>1, <3>2, <3>3
  <2>3. agents'[b].work \in {NoWork, agents[b].work}
    BY <1>1, <2>2
  <2> QED
    BY <1>2, <2>3 DEF KeepsOrClears
<1>7. CASE AckContext(a) \/ LeaseLapse(a)
  <2>1. /\ [agents[a] EXCEPT !.acked = TRUE].work = agents[a].work
        /\ [agents[a] EXCEPT !.live = FALSE].work = agents[a].work
    BY <1>1 DEF AgentRecords
  <2> QED
    BY <1>1, <1>7, <2>1 DEF AckContext, LeaseLapse, KeepsOrClears
<1>8. CASE AssignmentLapse(a)
  BY <1>1, <1>8 DEF AssignmentLapse, AgentRecords, KeepsOrClears
<1> QED
  BY <1>3, <1>4, <1>5, <1>6, <1>7, <1>8
  DEF CompletePlan, LandWrite, SubmitResult, RequestGate, BeginWrite, RecordBlocker, SubmitReview,
      AttachEvidence, Propose, EvaluateTask, RemoveAgain, snapshot

LEMMA OthersKeep ==
    ASSUME TypeOK, NEW b \in Agents,
           \/ IntegrationStep \/ TickHeld \/ TickAborts \/ Restart
           \/ Pause \/ Resume \/ Stop \/ Directive \/ UNCHANGED vars
    PROVE  KeepsOrClears(b)
<1>1. CASE agents' = agents
  BY <1>1 DEF KeepsOrClears
<1>2. CASE Stop
  <2>1. \A s : [agents[b] EXCEPT !.work = NoWork, !.status = s].work = NoWork
    BY DEF TypeOK, AgentRecords
  <2>2. agents'[b].work = NoWork
    BY <1>2, <2>1 DEF Stop
  <2> QED
    BY <2>2 DEF KeepsOrClears, NoWork
<1>3. CASE Directive
  <2>1. [agents[b] EXCEPT !.acked = FALSE].work = agents[b].work
    BY DEF TypeOK, AgentRecords
  <2> QED
    BY <1>3, <2>1 DEF Directive, KeepsOrClears
<1>4. CASE IntegrationStep
  BY <1>1, <1>4 DEF IntegrationStep, BeginIntegration, RefuseIntegration,
      IntegrationApplied, IntegrationUndone, ResetOverlay, IntegrationAmbiguous, snapshot
<1> QED
  BY <1>1, <1>2, <1>3, <1>4 DEF TickHeld, TickAborts, Restart, Pause, Resume, snapshot, vars

LEMMA ClaimTakes ==
    ASSUME TypeOK, NEW a \in Agents, NEW t \in Tasks, ClaimTask(a, t), NEW b \in Agents
    PROVE  KeepsOrClears(b) \/ TakesAlone(b)
<1>1. agents \in [Agents -> AgentRecords] /\ agents[a] \in AgentRecords
  BY DEF TypeOK
<1>2. /\ agents'[a].work.task = t
      /\ \A c \in Agents \ {a} : agents'[c] = agents[c]
  <2>1. Assigned(agents[a], "Implement", t).work.task = t
    BY <1>1 DEF Assigned, AgentRecords
  <2> QED
    BY <1>1, <2>1 DEF ClaimTask
<1>3. \A c \in Agents \ {a} : agents[c].work.task # t
  BY DEF ClaimTask, CanClaim, AssignedTo
<1> QED
  BY <1>2, <1>3 DEF KeepsOrClears, TakesAlone

\* What a tick's assignment is made of: the agents and tasks after the expiry
\* pass, and an injective choice of tasks nobody holds.
Dispatch(ag, ts, job, planner) ==
    LET free == {a \in Agents : Available(ag[a])} IN
    /\ ag = ExpireAgents(agents)
    /\ ts = ExpireTasks(agents, tasks)
    /\ job \in [free -> Tasks \cup {NoTask}]
    /\ \A a, b \in free : job[a] = job[b] => a = b \/ job[a] = NoTask
    /\ \A a \in free : job[a] # NoTask =>
            /\ AssignedTo(ag, job[a]) = {}
            /\ \/ ts[job[a]].status = "Ready"
               \/ ts[job[a]].status = "Review" /\ ts[job[a]].author # a
    /\ \A a, b \in free : a # b /\ job[a] # NoTask /\ job[b] # NoTask
            /\ ts[job[a]].status = "Ready" /\ ts[job[b]].status = "Ready"
                => <<job[a], job[b]>> \notin Overlap
    /\ \A a \in free : job[a] # NoTask /\ ts[job[a]].status = "Ready" =>
            ~OverlapsActive(ts, job[a])
    /\ planner \in free \cup {NoOne}
    /\ planner # NoOne => job[planner] = NoTask
    /\ tasks' = Staffed(ts, job)
    /\ agents' = Dispatched(ag, job, planner, ts)

LEMMA TickDispatches ==
    ASSUME TypeOK, TickSchedules
    PROVE  \E ag, ts, job, planner : Dispatch(ag, ts, job, planner)
<1> DEFINE ag == ExpireAgents(agents)
           ts == ExpireTasks(agents, tasks)
           free == {a \in Agents : Available(ag[a])}
           ready == {t \in Tasks : ts[t].status = "Ready"}
           wanted == AwaitsReview(ag, ts)
           idle(job) == {a \in free : job[a] = NoTask}
<1>1. PICK slots \in SlotChoices, job \in [free -> (ready \cup wanted) \cup {NoTask}] :
        /\ \A a, b \in free : job[a] = job[b] => a = b \/ job[a] = NoTask
        /\ ClaimsReady(ag, ts, slots, job)
        /\ \E budget : StaffsReviews(ag, ts, budget, job)
        /\ tasks' = Staffed(ts, job)
        /\ \E planner \in idle(job) \cup {NoOne} : agents' = Dispatched(ag, job, planner, ts)
  BY DEF TickSchedules
<1>2. DOMAIN job = free /\ job \in [free -> Tasks \cup {NoTask}]
  BY DEF AwaitsReview
<1>3. PICK planner \in idle(job) \cup {NoOne} : agents' = Dispatched(ag, job, planner, ts)
  BY <1>1
<1>4. ASSUME NEW a \in free, job[a] # NoTask
      PROVE  job[a] \in ready \/ job[a] \in wanted
  BY <1>4
<1>5. ASSUME NEW a \in free, job[a] # NoTask, job[a] \in ready
      PROVE  /\ AssignedTo(ag, job[a]) = {}
             /\ ~OverlapsActive(ts, job[a])
             /\ \A b \in free : job[b] \in ready /\ job[b] # job[a] =>
                    <<job[b], job[a]>> \notin Overlap
  BY <1>1, <1>2, <1>5 DEF ClaimsReady
<1>6. ASSUME NEW a \in free, job[a] \in wanted
      PROVE  /\ AssignedTo(ag, job[a]) = {}
             /\ ts[job[a]].author # a /\ ts[job[a]].status = "Review"
  BY <1>1, <1>2, <1>6 DEF StaffsReviews, AwaitsReview
<1>7. \A a \in free : job[a] # NoTask => job[a] \in Tasks
  BY <1>2
<1> HIDE DEF ag, ts
<1> QED
  BY <1>1, <1>2, <1>3, <1>4, <1>5, <1>6, <1>7 DEF Dispatch, ag, ts

LEMMA TickTakes ==
    ASSUME TypeOK, TickSchedules, NEW b \in Agents
    PROVE  KeepsOrClears(b) \/ TakesAlone(b)
<1>1. PICK ag, ts, job, planner : Dispatch(ag, ts, job, planner)
  BY TickDispatches
<1> DEFINE free == {a \in Agents : Available(ag[a])}
           takes(a) == a \in free /\ job[a] # NoTask
<1>2. /\ ag \in [Agents -> AgentRecords] /\ ag = ExpireAgents(agents)
      /\ job \in [free -> Tasks \cup {NoTask}] /\ DOMAIN job = free
      /\ agents' = Dispatched(ag, job, planner, ts)
  BY <1>1, ExpireAgentsType DEF Dispatch, TypeOK
<1>3. ASSUME NEW a \in Agents
      PROVE  /\ takes(a) => agents'[a].work.task = job[a]
             /\ ~takes(a) /\ a = planner => agents'[a].work.task = NoTask
             /\ ~takes(a) /\ a # planner => agents'[a].work = ag[a].work
  <2>1. ASSUME NEW kind, NEW t
        PROVE  Assigned(ag[a], kind, t).work.task = t
    BY <1>2 DEF Assigned, AgentRecords
  <2>2. agents'[a] = IF takes(a)
            THEN Assigned(ag[a], IF ts[job[a]].status = "Ready" THEN "Implement"
                                 ELSE "Review", job[a])
            ELSE IF a = planner THEN Assigned(ag[a], "Plan", NoTask) ELSE ag[a]
    BY <1>2 DEF Dispatched
  <2> HIDE DEF takes
  <2> QED
    BY <2>1, <2>2
<1>4. CASE takes(b)
  <2>1. /\ job[b] \in Tasks /\ AssignedTo(ag, job[b]) = {}
        /\ \A c \in free : job[c] = job[b] => c = b
    BY <1>1, <1>2, <1>4 DEF Dispatch
  <2>2. ASSUME NEW c \in Agents \ {b} PROVE agents'[c].work.task # job[b]
    <3>1. ag[c].work.task # job[b]
      BY <2>1 DEF AssignedTo
    <3> QED
      BY <1>3, <2>1, <3>1, NoneAssumption
  <2> QED
    BY <1>3, <1>4, <2>2 DEF TakesAlone
<1>5. CASE ~takes(b)
  <2>1. ag[b].work \in {NoWork, agents[b].work}
    BY <1>2, ExpireAgentsWork DEF TypeOK
  <2> QED
    BY <1>3, <1>5, <2>1 DEF KeepsOrClears, NoWork
<1> QED
  BY <1>4, <1>5

LEMMA AssignmentStep ==
    ASSUME TypeOK, [Next]_vars, NEW b \in Agents
    PROVE  KeepsOrClears(b) \/ TakesAlone(b)
<1>1. CASE WorkerStep
  <2>1. PICK a \in Agents :
            \/ \E t \in Tasks : ClaimTask(a, t)
            \/ Join(a) \/ Heartbeat(a) \/ CompletePlan(a) \/ AckContext(a)
            \/ LandWrite(a) \/ SubmitResult(a) \/ Release(a) \/ BeginWrite(a)
            \/ RequestGate(a)
            \/ \E again \in BOOLEAN : RecordBlocker(a, again)
            \/ \E accepted, again \in BOOLEAN : SubmitReview(a, accepted, again)
            \/ \E t \in Tasks :
                \/ AttachEvidence(a, t)
                \/ \E deps \in SUBSET Tasks : Propose(a, t, deps)
                \/ \E sufficient \in BOOLEAN : EvaluateTask(a, t, sufficient)
    BY <1>1 DEF WorkerStep
  <2>2. CASE \E t \in Tasks : ClaimTask(a, t)
    BY <2>2, ClaimTakes
  <2>3. CASE ~\E t \in Tasks : ClaimTask(a, t)
    BY <2>1, <2>3, WorkerKeeps
  <2> QED
    BY <2>2, <2>3
<1>2. CASE IntegrationStep \/ UNCHANGED vars
  BY <1>2, OthersKeep
<1>3. CASE Tick
  BY <1>3, OthersKeep, TickTakes DEF Tick
<1>4. CASE HumanStep
  BY <1>4, OthersKeep, WorkerKeeps DEF HumanStep
<1>5. CASE Environment
  BY <1>5, OthersKeep, WorkerKeeps DEF Environment
<1> QED
  BY <1>1, <1>2, <1>3, <1>4, <1>5 DEF Next

LEMMA SoleStep == TypeOK /\ SoleAssignee /\ [Next]_vars => SoleAssignee'
<1> SUFFICES ASSUME TypeOK, SoleAssignee, [Next]_vars,
                    NEW a \in Agents, NEW b \in Agents, a # b,
                    agents'[a].work.task = agents'[b].work.task
             PROVE  agents'[a].work.task = NoTask
  BY DEF SoleAssignee
<1>1. ASSUME NEW c \in Agents, KeepsOrClears(c)
      PROVE  agents'[c].work.task \in {NoTask, agents[c].work.task}
  <2>1. [agents[c].work EXCEPT !.live = FALSE].task = agents[c].work.task
    BY DEF TypeOK, AgentRecords, Work, NoWork
  <2> QED
    BY <1>1, <2>1 DEF KeepsOrClears
<1>2. ~TakesAlone(a) /\ ~TakesAlone(b)
  BY DEF TakesAlone
<1> QED
  BY <1>1, <1>2, AssignmentStep DEF SoleAssignee

\* No task is ever the assignment of two agents, for any number of agents and
\* tasks and any interleaving of claims, ticks, expiries and integrations.
THEOREM OneAssignee == Spec => []SoleAssignee
<1>1. Init => SoleAssignee
  BY DEF Init, SoleAssignee, NoWork
<1> QED
  BY <1>1, TypeCorrect, SoleStep, PTL DEF Spec

-----------------------------------------------------------------------------
(* The life of a task *)

Holder(a, t) == /\ tasks[t].owner = a
                /\ agents[a].work.kind = "Implement" /\ agents[a].work.task = t
Gated(a, t) == tasks[t].owner = a /\ a \in tasks[t].gates

\* A verdict, and one of the current authority revision.
Accepted(k) == k.evidence # {} /\ k.review.by # NoOne /\ k.review.by # k.author
Current(k) == k.review.fresh /\ k.evidence = {"fresh"}
SameHistory(k, l) ==
    /\ l.author = k.author /\ l.review = k.review
    /\ l.evidence = k.evidence /\ l.gates = k.gates

\* An agent with an assignment is Present: it may renew its lease, and restoring a
\* removed agent takes no assignment away.
WorkersPresent == \A a \in Agents : agents[a].work # NoWork => agents[a].status = "Present"

\* A task begins by being given to an agent, away from all other active tasks;
\* it stays in progress only while its holder stays, or once the holder asked for
\* a gate.
Begins(t) ==
    /\ \E a \in Agents : Holder(a, t)'
    /\ \A s \in Tasks \ {t} : tasks'[s].status \in Active => <<s, t>> \notin Overlap
Stays(t) ==
    /\ tasks[t].status = "InProgress"
    /\ \A a \in Agents : /\ Holder(a, t) => Holder(a, t)' \/ Gated(a, t)'
                         /\ Gated(a, t) => Gated(a, t)'

\* How a task gets where it is: what every step guarantees of every task.
Lives(t) ==
    LET k == tasks[t]
        l == tasks'[t]
    IN
    /\ l.status = "InProgress" => Begins(t) \/ Stays(t)
    /\ l.status = "Review" => k.status \in Active
    /\ l.status \in Done => \/ Accepted(l)
                            \/ k.status \in Done /\ (Accepted(k) => Accepted(l))
    /\ l.status = "Verified" => \/ Current(l)
                                \/ k.status = "Verified" /\ (Current(k) => Current(l))

\* The three ways in which most steps treat most tasks.
LEMMA Unstarts ==
    ASSUME NEW t, tasks'[t].status \notin Active \cup Done
    PROVE  Lives(t)
BY DEF Lives, Active, Done

LEMMA Continues ==
    ASSUME NEW t, tasks'[t].status = tasks[t].status,
           SameHistory(tasks[t], tasks'[t]), tasks[t].status # "InProgress"
    PROVE  Lives(t)
BY DEF Lives, SameHistory, Accepted, Current, Active, Done

LEMMA Untouched ==
    ASSUME NEW t, tasks'[t] = tasks[t],
           \A a \in Agents : Holder(a, t) =>
                /\ agents'[a].work.kind = agents[a].work.kind
                /\ agents'[a].work.task = agents[a].work.task
    PROVE  Lives(t)
<1>1. CASE tasks[t].status = "InProgress"
  BY <1>1 DEF Lives, Stays, Holder, Gated, Active, Done
<1>2. CASE tasks[t].status # "InProgress"
  BY <1>2, Continues DEF SameHistory
<1> QED
  BY <1>1, <1>2

\* A refreshed update touches the other tasks only while they are unstarted.
LEMMA RefreshedUpdate ==
    ASSUME tasks \in [Tasks -> TaskRecords], NEW u, NEW rec, u \in Tasks => rec \in TaskRecords,
           tasks' = Refresh([tasks EXCEPT ![u] = rec])
    PROVE  \A t \in Tasks : tasks'[t].status \in Active \cup Done =>
                tasks'[t] = IF t = u THEN rec ELSE tasks[t]
<1> SUFFICES ASSUME NEW t \in Tasks, tasks'[t].status \in Active \cup Done
             PROVE  tasks'[t] = IF t = u THEN rec ELSE tasks[t]
  OBVIOUS
<1> DEFINE ts2 == [tasks EXCEPT ![u] = rec]
<1>1. ts2 \in [Tasks -> TaskRecords] /\ ts2[t] = IF t = u THEN rec ELSE tasks[t]
  BY TaskUpdate
<1> HIDE DEF ts2
<1>2. Refresh(ts2)[t].status \in Active \cup Done => Refresh(ts2)[t] = ts2[t]
  BY <1>1, RefreshStatus DEF Active, Done
<1> QED
  BY <1>1, <1>2 DEF ts2

\* What the helpers on a task record leave alone.
LEMMA RecordFacts ==
    ASSUME NEW k \in TaskRecords
    PROVE  /\ \A deps : /\ Proposed(k, deps).status \in {k.status, "Proposed"}
                        /\ Proposed(k, deps).owner = k.owner
                        /\ SameHistory(k, Proposed(k, deps))
           /\ Unclaimed(k).status \in {k.status, "Proposed"} \ {"InProgress"}
           /\ SameHistory(k, Unclaimed(k))
           /\ \A a : Claimed(k, a).status = "InProgress" /\ Claimed(k, a).owner = a
           /\ \A again : Failed(k, again).status \in {"Stale", "Proposed"}
<1>1. \A deps : /\ Proposed(k, deps).status \in {k.status, "Proposed"}
                /\ Proposed(k, deps).owner = k.owner
                /\ SameHistory(k, Proposed(k, deps))
  BY DEF Proposed, SameHistory, TaskRecords
<1>2. /\ Unclaimed(k).status \in {k.status, "Proposed"} \ {"InProgress"}
      /\ SameHistory(k, Unclaimed(k))
  BY DEF Unclaimed, SameHistory, TaskRecords
<1>3. \A a : Claimed(k, a).status = "InProgress" /\ Claimed(k, a).owner = a
  BY DEF Claimed, TaskRecords
<1>4. \A again : Failed(k, again).status \in {"Stale", "Proposed"}
  BY DEF Failed, TaskRecords
<1> QED
  BY <1>1, <1>2, <1>3, <1>4

LEMMA PresenceLives ==
    ASSUME TypeOK, WorkersPresent, NEW a \in Agents, NEW t \in Tasks,
           \/ Join(a) \/ Heartbeat(a) \/ Release(a) \/ Remove(a)
           \/ RemoveAgain(a) \/ Restore(a) \/ LeaseLapse(a) \/ AssignmentLapse(a)
    PROVE  Lives(t)
<1>1. /\ agents \in [Agents -> AgentRecords] /\ agents[a] \in AgentRecords
      /\ tasks \in [Tasks -> TaskRecords] /\ tasks[t] \in TaskRecords
  BY DEF TypeOK
<1>2. CASE tasks' = tasks /\ \A b \in Agents :
            \/ agents'[b].work = agents[b].work
            \/ agents'[b].work = [agents[b].work EXCEPT !.live = FALSE]
            \/ agents[b].work = NoWork
  <2>1. ASSUME NEW b \in Agents
        PROVE  /\ [agents[b].work EXCEPT !.live = FALSE].kind = agents[b].work.kind
               /\ [agents[b].work EXCEPT !.live = FALSE].task = agents[b].work.task
    BY <1>1 DEF AgentRecords, Work, NoWork
  <2>2. ASSUME NEW b \in Agents, Holder(b, t)
        PROVE  /\ agents'[b].work.kind = agents[b].work.kind
               /\ agents'[b].work.task = agents[b].work.task
    <3>1. agents[b].work # NoWork
      BY <2>2 DEF Holder, NoWork
    <3> QED
      BY <1>2, <2>1, <3>1
  <2> QED
    BY <1>2, <2>2, Untouched
<1>3. CASE /\ tasks' = ExpireTasks(agents, tasks)
           /\ agents' = [ExpireAgents(agents) EXCEPT ![a] = Renewed(@)]
  <2>1. ASSUME NEW b \in Agents
        PROVE  agents'[b].work = IF LapsedWork(agents[b]) THEN NoWork ELSE agents[b].work
    <3> DEFINE ag == ExpireAgents(agents)
    <3>1. ag \in [Agents -> AgentRecords]
      BY <1>1, ExpireAgentsType
    <3>2. ag[b].work = IF LapsedWork(agents[b]) THEN NoWork ELSE agents[b].work
      BY <1>1, ExpireAgentsWork
    <3> HIDE DEF ag
    <3>3. agents' = [ag EXCEPT ![a] = Renewed(@)]
      BY <1>3 DEF ag
    <3>4. agents'[b].work = ag[b].work
      BY <3>1, <3>3, WorkFacts
    <3> QED
      BY <3>2, <3>4
  <2>2. CASE tasks'[t].status \in {"Ready", "BlockedDependency"}
    BY <2>2, Unstarts DEF Active, Done
  <2>3. CASE tasks'[t].status \notin {"Ready", "BlockedDependency"}
    <3>1. tasks'[t] = tasks[t]
      BY <1>1, <1>3, <2>3, ExpireTasksStatus
    <3>2. CASE tasks[t].status = "InProgress"
      <4>1. \A b \in Agents : Holder(b, t) => ~LapsedWork(agents[b])
        BY <1>1, <1>3, <2>3, <3>2, ExpireTasksStatus DEF Holder
      <4> QED
        BY <2>1, <3>1, <4>1, Untouched
    <3>3. CASE tasks[t].status # "InProgress"
      BY <3>1, <3>3, Continues DEF SameHistory
    <3> QED
      BY <3>2, <3>3
  <2> QED
    BY <2>2, <2>3
<1>4. CASE Release(a)
  <2> DEFINE u == agents[a].work.task
             k == Unclaimed(tasks[u])
  <2>1. \A b \in Agents \ {a} : agents'[b] = agents[b]
    BY <1>1, <1>4 DEF Release
  <2>2. u # NoTask => tasks[u].owner = a
    BY <1>4 DEF Release
  <2>3. u \in Tasks => k \in TaskRecords
    BY <1>1, UnclaimedType
  <2>4. tasks' = IF u = NoTask THEN tasks ELSE Refresh([tasks EXCEPT ![u] = k])
    BY <1>4 DEF Release
  <2>5. CASE tasks'[t].status \notin Active \cup Done
    BY <2>5, Unstarts
  <2>6. CASE tasks'[t].status \in Active \cup Done /\ t # u
    <3>1. tasks'[t] = tasks[t]
      <4> HIDE DEF u, k
      <4>1. CASE u = NoTask
        BY <2>4, <4>1
      <4>2. CASE u # NoTask
        <5>1. tasks' = Refresh([tasks EXCEPT ![u] = k])
          BY <2>4, <4>2
        <5> QED
          BY <1>1, <2>3, <2>6, <5>1, RefreshedUpdate
      <4> QED
        BY <4>1, <4>2
    <3>2. \A b \in Agents : Holder(b, t) => b # a
      BY <2>6 DEF Holder
    <3> QED
      BY <2>1, <3>1, <3>2, Untouched
  <2>7. CASE tasks'[t].status \in Active \cup Done /\ t = u
    <3>1. tasks'[t] = k
      <4>1. u # NoTask
        BY <2>7, NoneAssumption
      <4> HIDE DEF u, k
      <4>2. tasks' = Refresh([tasks EXCEPT ![u] = k])
        BY <2>4, <4>1
      <4> QED
        BY <1>1, <2>3, <2>7, <4>2, RefreshedUpdate
    <3>2. /\ k.status \in {tasks[t].status, "Proposed"} \ {"InProgress"}
          /\ SameHistory(tasks[t], k)
      BY <1>1, <2>7, RecordFacts
    <3> QED
      BY <2>7, <3>1, <3>2, Continues DEF Active, Done
  <2> QED
    BY <2>5, <2>6, <2>7
<1>5. CASE Remove(a)
  <2> DEFINE revoked(k) ==
            [k EXCEPT
                !.owner = IF @ = a THEN NoOne ELSE @,
                !.reviewer = IF @ = a THEN NoOne ELSE @,
                !.status = IF \/ k.owner = a /\ @ \in Active
                              \/ k.reviewer = a /\ @ = "Review"
                           THEN "Stale" ELSE @]
             ts == [s \in Tasks |-> revoked(tasks[s])]
  <2>1. ASSUME NEW k \in TaskRecords
        PROVE  /\ revoked(k).status \in {k.status, "Stale"}
               /\ SameHistory(k, revoked(k))
               /\ revoked(k).owner = a => revoked(k).status # "InProgress"
               /\ k.owner = a => revoked(k).status # "InProgress"
               /\ k.owner # a => revoked(k).owner = k.owner
    BY DEF SameHistory, TaskRecords, Active
  <2>2. tasks' = Refresh(ts) /\ ts[t] = revoked(tasks[t])
    BY <1>5 DEF Remove
  <2>3. ts \in [Tasks -> TaskRecords]
    <3>1. ASSUME NEW k \in TaskRecords, NEW o \in Agents \cup {NoOne},
                 NEW r \in Agents \cup {NoOne}, NEW st \in TaskStatuses
          PROVE  [k EXCEPT !.owner = o, !.reviewer = r, !.status = st] \in TaskRecords
      BY DEF TaskRecords
    <3>2. ASSUME NEW k \in TaskRecords PROVE revoked(k) \in TaskRecords
      <4>1. /\ k.status \in TaskStatuses /\ "Stale" \in TaskStatuses
            /\ k.owner \in Agents \cup {NoOne} /\ k.reviewer \in Agents \cup {NoOne}
        BY DEF TaskRecords, TaskStatuses
      <4> QED
        BY <3>1, <4>1
    <3> QED
      BY <1>1, <3>2
  <2> HIDE DEF revoked, ts
  <2>4. CASE tasks'[t].status \notin Active \cup Done
    BY <2>4, Unstarts
  <2>5. CASE tasks'[t].status \in Active \cup Done
    <3>1. tasks'[t] = revoked(tasks[t])
      BY <2>2, <2>3, <2>5, RefreshStatus DEF Active, Done
    <3>2. CASE tasks'[t].status # "InProgress"
      BY <1>1, <2>1, <2>5, <3>1, <3>2, Continues DEF Active, Done
    <3>3. CASE tasks'[t].status = "InProgress"
      <4>1. tasks[t].status = "InProgress" /\ tasks[t].owner # a
            /\ tasks'[t].owner = tasks[t].owner /\ tasks'[t].gates = tasks[t].gates
        BY <1>1, <2>1, <3>1, <3>3 DEF SameHistory
      <4>2. \A b \in Agents \ {a} : agents'[b] = agents[b]
        BY <1>1, <1>5 DEF Remove
      <4> QED
        BY <3>3, <4>1, <4>2 DEF Lives, Stays, Holder, Gated, Active, Done
    <3> QED
      BY <3>2, <3>3
  <2> QED
    BY <2>4, <2>5
<1>6. CASE Restore(a)
  <2>1. tasks' = tasks /\ \A b \in Agents \ {a} : agents'[b] = agents[b]
    BY <1>1, <1>6 DEF Restore
  <2>2. agents[a].work = NoWork
    BY <1>6 DEF Restore, WorkersPresent
  <2> QED
    BY <1>2, <2>1, <2>2
<1>7. CASE LeaseLapse(a)
  <2>1. [agents[a] EXCEPT !.live = FALSE].work = agents[a].work
    BY <1>1 DEF AgentRecords
  <2> QED
    BY <1>1, <1>2, <1>7, <2>1 DEF LeaseLapse
<1>8. CASE AssignmentLapse(a)
  BY <1>1, <1>2, <1>8 DEF AssignmentLapse, AgentRecords
<1>9. CASE RemoveAgain(a)
  BY <1>2, <1>9 DEF RemoveAgain, snapshot
<1>10. CASE Join(a)
  BY <1>3, <1>10 DEF Join
<1>11. CASE Heartbeat(a)
  <2>1. CASE \E b \in Agents : LapsedWork(agents[b])
    BY <1>3, <1>11, <2>1 DEF Heartbeat
  <2>2. CASE ~\E b \in Agents : LapsedWork(agents[b])
    BY <1>1, <1>2, <1>11, <2>2, WorkFacts DEF Heartbeat
  <2> QED
    BY <2>1, <2>2
<1> QED
  BY <1>4, <1>5, <1>6, <1>7, <1>8, <1>9, <1>10, <1>11

\* An agent that finishes its work on a task disturbs no other task.
LEMMA OthersLive ==
    ASSUME TypeOK, NEW a \in Agents, NEW t \in Tasks, NEW k,
           agents' = [agents EXCEPT ![a] = Completed(@)],
           agents[a].work.task \in Tasks => k \in TaskRecords,
           tasks' = Refresh([tasks EXCEPT ![agents[a].work.task] = k]),
           t # agents[a].work.task
    PROVE  Lives(t)
<1> DEFINE u == agents[a].work.task
<1>1. CASE tasks'[t].status \notin Active \cup Done
  BY <1>1, Unstarts
<1>2. CASE tasks'[t].status \in Active \cup Done
  <2>1. tasks'[t] = tasks[t]
    <3>1. tasks \in [Tasks -> TaskRecords]
      BY DEF TypeOK
    <3> DEFINE ts2 == [tasks EXCEPT ![u] = k]
    <3>2. ts2 \in [Tasks -> TaskRecords] /\ ts2[t] = tasks[t]
      BY <3>1
    <3>3. tasks' = Refresh(ts2)
      OBVIOUS
    <3> HIDE DEF ts2
    <3> QED
      BY <1>2, <3>2, <3>3, RefreshStatus DEF Active, Done
  <2>2. \A b \in Agents : Holder(b, t) => b # a
    BY DEF Holder
  <2>3. \A b \in Agents \ {a} : agents'[b] = agents[b]
    BY DEF TypeOK
  <2> QED
    BY <2>1, <2>2, <2>3, Untouched
<1> QED
  BY <1>1, <1>2

LEMMA WorkLives ==
    ASSUME TypeOK, NEW a \in Agents, NEW t \in Tasks,
           \/ CompletePlan(a) \/ AckContext(a) \/ LandWrite(a) \/ BeginWrite(a)
           \/ SubmitResult(a) \/ RequestGate(a)
           \/ \E again \in BOOLEAN : RecordBlocker(a, again)
           \/ \E accepted, again \in BOOLEAN : SubmitReview(a, accepted, again)
    PROVE  Lives(t)
<1> DEFINE u == agents[a].work.task
<1>1. /\ agents \in [Agents -> AgentRecords] /\ agents[a] \in AgentRecords
      /\ tasks \in [Tasks -> TaskRecords] /\ tasks[t] \in TaskRecords
  BY DEF TypeOK
<1>2. CASE CompletePlan(a)
  <2>1. tasks' = tasks /\ \A b \in Agents \ {a} : agents'[b] = agents[b]
    BY <1>1, <1>2 DEF CompletePlan
  <2>2. ~Holder(a, t)
    BY <1>2 DEF CompletePlan, Holder
  <2> QED
    BY <2>1, <2>2, Untouched
<1>3. CASE AckContext(a)
  <2>1. [agents[a] EXCEPT !.acked = TRUE].work = agents[a].work
    BY <1>1 DEF AgentRecords
  <2>2. \A b \in Agents : agents'[b].work = agents[b].work
    BY <1>1, <1>3, <2>1 DEF AckContext
  <2>3. /\ tasks'[t].status = tasks[t].status /\ tasks'[t].owner = tasks[t].owner
        /\ SameHistory(tasks[t], tasks'[t])
    BY <1>1, <1>3 DEF AckContext, SameHistory, TaskRecords
  <2>4. CASE tasks[t].status = "InProgress"
    BY <2>2, <2>3, <2>4 DEF Lives, Stays, Holder, Gated, SameHistory, Active, Done
  <2>5. CASE tasks[t].status # "InProgress"
    BY <2>3, <2>5, Continues
  <2> QED
    BY <2>4, <2>5
<1>4. CASE LandWrite(a) \/ BeginWrite(a)
  BY <1>4, Untouched DEF LandWrite, BeginWrite, snapshot
<1>5. CASE SubmitResult(a)
  <2> DEFINE k == [tasks[u] EXCEPT !.status = "Review"]
  <2>1. u \in Tasks => k \in TaskRecords /\ k.status = "Review"
    BY <1>1 DEF TaskRecords, TaskStatuses
  <2>2. /\ agents' = [agents EXCEPT ![a] = Completed(@)]
        /\ tasks' = Refresh([tasks EXCEPT ![u] = k])
        /\ tasks[u].status = "InProgress"
    BY <1>5 DEF SubmitResult
  <2>3. CASE t # u
    <3> HIDE DEF k
    <3> QED
      BY <2>1, <2>2, <2>3, OthersLive
  <2>4. CASE t = u
    <3>1. tasks'[t].status \notin Active \cup Done \/ tasks'[t] = k
      <4> HIDE DEF k, u
      <4> QED
        BY <1>1, <2>1, <2>2, <2>4, RefreshedUpdate
    <3> QED
      BY <2>1, <2>2, <2>4, <3>1, Unstarts DEF Lives, Active, Done
  <2> QED
    BY <2>3, <2>4
<1>6. ASSUME NEW again \in BOOLEAN, NEW k0, u \in Tasks => k0 \in TaskRecords,
             agents' = [agents EXCEPT ![a] = Completed(@)],
             tasks' = Refresh([tasks EXCEPT ![u] = Failed(k0, again)])
      PROVE  Lives(t)
  <2> DEFINE k == Failed(k0, again)
  <2>1. u \in Tasks => k \in TaskRecords /\ k.status \notin Active \cup Done
    BY <1>6, FailedType, RecordFacts DEF Active, Done
  <2>2. CASE t # u
    <3> HIDE DEF k
    <3>1. tasks' = Refresh([tasks EXCEPT ![u] = k])
      BY <1>6 DEF k
    <3> QED
      BY <1>6, <2>1, <2>2, <3>1, OthersLive
  <2>3. CASE t = u
    <3>1. tasks'[t].status \notin Active \cup Done
      <4> HIDE DEF k, u
      <4>1. tasks' = Refresh([tasks EXCEPT ![u] = k])
        BY <1>6 DEF k
      <4> QED
        BY <1>1, <2>1, <2>3, <4>1, RefreshedUpdate
    <3> QED
      BY <3>1, Unstarts
  <2> QED
    BY <2>2, <2>3
<1>7. ASSUME NEW again \in BOOLEAN, RecordBlocker(a, again) PROVE Lives(t)
  BY <1>1, <1>6, <1>7 DEF RecordBlocker
<1>8. ASSUME NEW accepted \in BOOLEAN, NEW again \in BOOLEAN,
             SubmitReview(a, accepted, again)
      PROVE  Lives(t)
  <2> DEFINE yes == [tasks[u] EXCEPT !.reviewer = a, !.review = [by |-> a, fresh |-> TRUE]]
             no == [tasks[u] EXCEPT !.review = NoReview]
  <2>1. tasks[u].status = "Review" /\ agents[a].work.kind = "Review"
    BY <1>8 DEF SubmitReview, Working
  <2>2. u \in Tasks => no \in TaskRecords
    BY <1>1 DEF TaskRecords, Reviews
  <2>3. /\ agents' = [agents EXCEPT ![a] = Completed(@)]
        /\ \/ tasks' = [tasks EXCEPT ![u] = yes]
           \/ tasks' = Refresh([tasks EXCEPT ![u] = Failed(no, again)])
    BY <1>8 DEF SubmitReview
  <2>4. CASE tasks' = Refresh([tasks EXCEPT ![u] = Failed(no, again)])
    <3> HIDE DEF no
    <3> QED
      BY <1>6, <2>2, <2>3, <2>4
  <2>5. CASE tasks' = [tasks EXCEPT ![u] = yes] /\ t = u
    <3>1. tasks'[t].status = "Review"
      BY <1>1, <2>1, <2>5 DEF TaskRecords
    <3> QED
      BY <2>1, <2>5, <3>1 DEF Lives, Active, Done
  <2>6. CASE tasks' = [tasks EXCEPT ![u] = yes] /\ t # u
    <3>1. tasks'[t] = tasks[t]
      BY <1>1, <2>6
    <3>2. \A b \in Agents : Holder(b, t) => b # a
      BY <2>6 DEF Holder
    <3>3. \A b \in Agents \ {a} : agents'[b] = agents[b]
      BY <1>1, <2>3
    <3> QED
      BY <3>1, <3>2, <3>3, Untouched
  <2> QED
    BY <2>3, <2>4, <2>5, <2>6
<1>9. CASE RequestGate(a)
  <2>1. /\ agents' = [agents EXCEPT ![a] = Completed(@)]
        /\ tasks' = [tasks EXCEPT ![u].gates = @ \cup {a}]
        /\ tasks[u].status = "InProgress" /\ tasks[u].owner = a
    BY <1>9 DEF RequestGate
  <2>2. \A b \in Agents \ {a} : agents'[b] = agents[b]
    BY <1>1, <2>1
  <2>3. CASE t # u
    <3>1. tasks'[t] = tasks[t] /\ \A b \in Agents : Holder(b, t) => b # a
      BY <1>1, <2>1, <2>3 DEF Holder
    <3> QED
      BY <2>2, <3>1, Untouched
  <2>4. CASE t = u
    <3>1. /\ tasks'[t].status = tasks[t].status /\ tasks'[t].owner = tasks[t].owner
          /\ tasks'[t].gates = tasks[t].gates \cup {a}
      BY <1>1, <2>1, <2>4 DEF TaskRecords
    <3>2. \A b \in Agents : Holder(b, t) => Gated(b, t)'
      BY <2>1, <2>4, <3>1 DEF Holder, Gated
    <3> QED
      BY <2>1, <2>4, <3>1, <3>2 DEF Lives, Stays, Gated, Active, Done
  <2> QED
    BY <2>3, <2>4
<1> QED
  BY <1>2, <1>3, <1>4, <1>5, <1>7, <1>8, <1>9

LEMMA TaskWorkLives ==
    ASSUME TypeOK, NEW a \in Agents, NEW u \in Tasks, NEW t \in Tasks,
           \/ ClaimTask(a, u) \/ AttachEvidence(a, u)
           \/ \E deps \in SUBSET Tasks : Propose(a, u, deps)
           \/ \E sufficient \in BOOLEAN : EvaluateTask(a, u, sufficient)
    PROVE  Lives(t)
<1>1. /\ agents \in [Agents -> AgentRecords] /\ agents[a] \in AgentRecords
      /\ tasks \in [Tasks -> TaskRecords] /\ tasks[t] \in TaskRecords
      /\ tasks[u] \in TaskRecords
  BY DEF TypeOK
<1>2. CASE ClaimTask(a, u)
  <2> DEFINE k == Claimed(tasks[u], a)
             given == Assigned(agents[a], "Implement", u)
  <2>1. k \in TaskRecords /\ k.status = "InProgress" /\ k.owner = a
    BY <1>1, ClaimedType, RecordFacts
  <2>2. given.work.kind = "Implement" /\ given.work.task = u
    BY <1>1 DEF Assigned, AgentRecords
  <2>3. /\ agents' = [agents EXCEPT ![a] = given]
        /\ tasks' = Refresh([tasks EXCEPT ![u] = k])
        /\ agents[a].work.kind = "None"
        /\ ~OverlapsActive(tasks, u)
    BY <1>2 DEF ClaimTask, CanClaim, Available
  <2> HIDE DEF k, given
  <2>4. ASSUME NEW s \in Tasks, tasks'[s].status \in Active \cup Done
        PROVE  tasks'[s] = IF s = u THEN k ELSE tasks[s]
    BY <1>1, <2>1, <2>3, <2>4, RefreshedUpdate
  <2>5. CASE tasks'[t].status \notin Active \cup Done
    BY <2>5, Unstarts
  <2>6. CASE tasks'[t].status \in Active \cup Done /\ t # u
    <3>1. \A b \in Agents : Holder(b, t) => b # a
      BY <2>3 DEF Holder
    <3>2. \A b \in Agents \ {a} : agents'[b] = agents[b]
      BY <1>1, <2>3
    <3> QED
      BY <2>4, <2>6, <3>1, <3>2, Untouched
  <2>7. CASE tasks'[t].status \in Active \cup Done /\ t = u
    <3>1. tasks'[t] = k /\ agents'[a] = given
      BY <1>1, <2>3, <2>4, <2>7
    <3>2. Holder(a, t)'
      BY <2>1, <2>2, <2>7, <3>1 DEF Holder
    <3>3. \A s \in Tasks \ {t} : tasks'[s].status \in Active => <<s, t>> \notin Overlap
      BY <2>3, <2>4, <2>7 DEF OverlapsActive
    <3> QED
      BY <2>1, <3>1, <3>2, <3>3 DEF Lives, Begins, Active, Done
  <2> QED
    BY <2>5, <2>6, <2>7
<1>3. CASE AttachEvidence(a, u)
  <2>1. /\ agents' = agents
        /\ tasks' = [tasks EXCEPT ![u].evidence = @ \cup {"fresh"}]
    BY <1>3 DEF AttachEvidence
  <2>2. CASE t # u
    BY <1>1, <2>1, <2>2, Untouched
  <2>3. CASE t = u
    <3>1. /\ tasks'[t].status = tasks[t].status /\ tasks'[t].owner = tasks[t].owner
          /\ tasks'[t].author = tasks[t].author /\ tasks'[t].review = tasks[t].review
          /\ tasks'[t].evidence = tasks[t].evidence \cup {"fresh"}
          /\ tasks'[t].gates = tasks[t].gates
      BY <1>1, <2>1, <2>3 DEF TaskRecords
    <3> QED
      BY <2>1, <3>1 DEF Lives, Stays, Holder, Gated, Accepted, Current, Active, Done
  <2> QED
    BY <2>2, <2>3
<1>4. ASSUME NEW deps \in SUBSET Tasks, Propose(a, u, deps) PROVE Lives(t)
  <2> DEFINE k == Proposed(tasks[u], deps)
  <2>1. /\ k \in TaskRecords /\ k.status \in {tasks[u].status, "Proposed"}
        /\ k.owner = tasks[u].owner /\ SameHistory(tasks[u], k)
    BY <1>1, ProposedType, RecordFacts
  <2>2. tasks' = Refresh([tasks EXCEPT ![u] = k])
    BY <1>4 DEF Propose
  <2>3. \/ agents' = agents
        \/ agents[a].work.kind = "Plan" /\ \A b \in Agents \ {a} : agents'[b] = agents[b]
    BY <1>1, <1>4 DEF Propose
  <2> HIDE DEF k
  <2>4. \A b \in Agents : Holder(b, t) => agents'[b] = agents[b]
    BY <2>3 DEF Holder
  <2>5. CASE tasks'[t].status \notin Active \cup Done
    BY <2>5, Unstarts
  <2>6. CASE tasks'[t].status \in Active \cup Done
    <3>1. tasks'[t] = IF t = u THEN k ELSE tasks[t]
      BY <1>1, <2>1, <2>2, <2>6, RefreshedUpdate
    <3>2. CASE t # u
      BY <2>4, <3>1, <3>2, Untouched
    <3>3. CASE t = u
      <4>1. /\ tasks'[t].status = tasks[t].status /\ tasks'[t].owner = tasks[t].owner
            /\ SameHistory(tasks[t], tasks'[t])
        BY <2>1, <2>6, <3>1, <3>3 DEF Active, Done
      <4>2. CASE tasks[t].status = "InProgress"
        BY <2>4, <4>1, <4>2 DEF Lives, Stays, Holder, Gated, SameHistory, Active, Done
      <4>3. CASE tasks[t].status # "InProgress"
        BY <4>1, <4>3, Continues
      <4> QED
        BY <4>2, <4>3
    <3> QED
      BY <3>2, <3>3
  <2> QED
    BY <2>5, <2>6
<1>5. ASSUME NEW sufficient \in BOOLEAN, EvaluateTask(a, u, sufficient) PROVE Lives(t)
  <2> DEFINE k == [tasks[u] EXCEPT !.status = "Verified", !.verified = "fresh",
                                   !.owner = NoOne]
  <2>1. agents' = agents
    BY <1>5 DEF EvaluateTask
  <2>2. CASE tasks' = tasks
    BY <2>1, <2>2, Untouched
  <2>3. CASE Verifiable(tasks[u]) /\ tasks' = [tasks EXCEPT ![u] = k] /\ t # u
    BY <1>1, <2>1, <2>3, Untouched
  <2>4. CASE Verifiable(tasks[u]) /\ tasks' = [tasks EXCEPT ![u] = k] /\ t = u
    <3>1. k.status = "Verified" /\ SameHistory(tasks[u], k)
      BY <1>1 DEF SameHistory, TaskRecords
    <3>2. tasks'[t] = k
      BY <1>1, <2>4
    <3>3. tasks[u].review.by # NoOne
      BY <1>1, <2>4, NoneAssumption DEF Verifiable, TaskRecords, Reviews
    <3> QED
      BY <2>4, <3>1, <3>2, <3>3 DEF Lives, Verifiable, SameHistory, Accepted, Current
  <2> QED
    BY <1>5, <2>2, <2>3, <2>4 DEF EvaluateTask
<1> QED
  BY <1>2, <1>3, <1>4, <1>5

LEMMA IntegrationLives ==
    ASSUME TypeOK, NEW i \in integrations, NEW t \in Tasks,
           \/ BeginIntegration(i) \/ RefuseIntegration(i) \/ IntegrationApplied(i)
           \/ IntegrationUndone(i) \/ ResetOverlay(i) \/ IntegrationAmbiguous(i)
    PROVE  Lives(t)
<1> DEFINE u == i.task
           as(s) == [tasks[u] EXCEPT !.status = s, !.verified = "no", !.owner = NoOne,
                                     !.reviewer = NoOne]
           merged == [tasks[u] EXCEPT !.status = "Integrated", !.owner = NoOne,
                                      !.reviewer = NoOne]
<1>1. /\ tasks \in [Tasks -> TaskRecords] /\ tasks[t] \in TaskRecords
      /\ u \in Tasks /\ tasks[u] \in TaskRecords
  BY DEF TypeOK, Integrations
<1>2. agents' = agents
  BY DEF BeginIntegration, RefuseIntegration, IntegrationApplied, IntegrationUndone,
         ResetOverlay, IntegrationAmbiguous, snapshot
<1>3. CASE tasks' = tasks
  BY <1>2, <1>3, Untouched
<1>4. ASSUME NEW k \in TaskRecords, tasks' = Refresh([tasks EXCEPT ![u] = k]),
             k.status \in {"Integrated", "Ready"},
             k.status = "Integrated" =>
                tasks[u].status = "Verified" /\ SameHistory(tasks[u], k)
      PROVE  Lives(t)
  <2>1. CASE tasks'[t].status \notin Active \cup Done
    BY <2>1, Unstarts
  <2>2. CASE tasks'[t].status \in Active \cup Done
    <3> DEFINE ts2 == [tasks EXCEPT ![u] = k]
    <3>0. ts2 \in [Tasks -> TaskRecords] /\ ts2[t] = IF t = u THEN k ELSE tasks[t]
      BY <1>1, <1>4
    <3>1. tasks'[t] = IF t = u THEN k ELSE tasks[t]
      <4>1. tasks' = Refresh(ts2)
        BY <1>4
      <4> HIDE DEF ts2
      <4> QED
        BY <2>2, <3>0, <4>1, RefreshStatus DEF Active, Done
    <3>2. CASE t # u
      BY <1>2, <3>1, <3>2, Untouched
    <3>3. CASE t = u
      BY <1>4, <2>2, <3>1, <3>3 DEF Lives, Accepted, SameHistory, Active, Done
    <3> QED
      BY <3>2, <3>3
  <2> QED
    BY <2>1, <2>2
<1>5. CASE IntegrationApplied(i)
  <2>1. /\ merged \in TaskRecords /\ merged.status = "Integrated"
        /\ SameHistory(tasks[u], merged)
    BY <1>1 DEF SameHistory, TaskRecords, TaskStatuses
  <2>2. \/ tasks' = tasks
        \/ /\ tasks' = Refresh([tasks EXCEPT ![u] = merged])
           /\ tasks[u].status = "Verified"
    BY <1>5 DEF IntegrationApplied, Bindable
  <2> HIDE DEF merged
  <2> QED
    BY <1>3, <1>4, <2>1, <2>2
<1>6. CASE IntegrationUndone(i)
  <2>1. as("Ready") \in TaskRecords /\ as("Ready").status = "Ready"
    BY <1>1 DEF TaskRecords, TaskStatuses
  <2>2. tasks' = Refresh([tasks EXCEPT ![u] = as("Ready")])
    BY <1>6 DEF IntegrationUndone
  <2> HIDE DEF as
  <2> QED
    BY <1>4, <2>1, <2>2
<1>7. CASE IntegrationAmbiguous(i)
  <2>1. as("Stale").status = "Stale"
    BY <1>1 DEF TaskRecords
  <2>2. tasks' = tasks \/ tasks' = [tasks EXCEPT ![u] = as("Stale")]
    BY <1>7 DEF IntegrationAmbiguous
  <2> HIDE DEF as
  <2>3. CASE tasks' = [tasks EXCEPT ![u] = as("Stale")] /\ t = u
    BY <1>1, <2>1, <2>3, Unstarts DEF Active, Done
  <2>4. CASE tasks' = [tasks EXCEPT ![u] = as("Stale")] /\ t # u
    BY <1>1, <1>2, <2>4, Untouched
  <2> QED
    BY <1>3, <2>2, <2>3, <2>4
<1> QED
  BY <1>3, <1>5, <1>6, <1>7 DEF BeginIntegration, RefuseIntegration, ResetOverlay, snapshot

LEMMA MissionLives ==
    ASSUME TypeOK, NEW t \in Tasks,
           Restart \/ Pause \/ Resume \/ Stop \/ Directive \/ UNCHANGED vars
    PROVE  Lives(t)
<1>1. /\ agents \in [Agents -> AgentRecords]
      /\ tasks \in [Tasks -> TaskRecords] /\ tasks[t] \in TaskRecords
  BY DEF TypeOK
<1>2. CASE Restart \/ Pause \/ Resume \/ UNCHANGED vars
  BY <1>2, Untouched DEF Restart, Pause, Resume, snapshot, vars
<1>3. CASE Stop
  <2>1. CASE tasks[t].status \in Active
    <3>1. tasks'[t].status = "Stale"
      BY <1>1, <1>3, <2>1 DEF Stop, TaskRecords
    <3> QED
      BY <3>1, Unstarts DEF Active, Done
  <2>2. CASE tasks[t].status \notin Active
    <3>1. tasks'[t] = tasks[t]
      BY <1>3, <2>2 DEF Stop
    <3> QED
      BY <2>2, <3>1, Continues DEF SameHistory, Active
  <2> QED
    BY <2>1, <2>2
<1>4. CASE Directive
  <2> DEFINE k == Redirected(tasks[t])
             ts == [s \in Tasks |-> Redirected(tasks[s])]
  <2>1. \A b \in Agents : agents'[b].work = agents[b].work
    <3>1. \A b \in Agents : [agents[b] EXCEPT !.acked = FALSE].work = agents[b].work
      BY <1>1 DEF AgentRecords
    <3> QED
      BY <1>4, <3>1 DEF Directive
  <2>2. /\ k.status \in {tasks[t].status, "Ready"}
        /\ k.status # "Verified"
        /\ k.owner = tasks[t].owner /\ k.author = tasks[t].author
        /\ k.gates = tasks[t].gates
        /\ k.review.by = tasks[t].review.by
        /\ tasks[t].evidence # {} => k.evidence # {}
    BY <1>1 DEF Redirected, TaskRecords, Aged
  <2>3. ts \in [Tasks -> TaskRecords] /\ ts[t] = k
    BY <1>1, RedirectedType
  <2>4. tasks' = Refresh(ts)
    BY <1>4 DEF Directive
  <2> HIDE DEF k, ts
  <2>5. CASE tasks'[t].status \notin Active \cup Done
    BY <2>5, Unstarts
  <2>6. CASE tasks'[t].status \in Active \cup Done
    <3>1. tasks'[t] = k
      BY <2>3, <2>4, <2>6, RefreshStatus DEF Active, Done
    <3>2. tasks[t].status = k.status
      BY <2>2, <2>6, <3>1 DEF Active, Done
    <3> QED
      BY <2>1, <2>2, <3>1, <3>2 DEF Lives, Stays, Holder, Gated, Accepted, Active, Done
  <2> QED
    BY <2>5, <2>6
<1> QED
  BY <1>2, <1>3, <1>4

\* An injective choice of tasks for the free agents.
Choice(job, free) ==
    /\ free \in SUBSET Agents /\ job \in [free -> Tasks \cup {NoTask}]
    /\ \A a, b \in free : job[a] = job[b] => a = b \/ job[a] = NoTask

LEMMA StaffedFacts ==
    ASSUME NEW ts \in [Tasks -> TaskRecords], NEW t \in Tasks,
           NEW free, NEW job, Choice(job, free)
    PROVE  /\ \A a \in free : job[a] = t /\ ts[t].status = "Ready" =>
                Staffed(ts, job)[t] = Claimed(ts[t], a)
           /\ \A a \in free : job[a] = t /\ ts[t].status = "Review" =>
                Staffed(ts, job)[t] = [ts[t] EXCEPT !.reviewer = a]
           /\ (\A a \in free : job[a] # t) /\ Staffed(ts, job)[t].status \in Active \cup Done
                => Staffed(ts, job)[t] = ts[t]
<1> DEFINE given(s) ==
        IF \E a \in DOMAIN job : job[a] = s
        THEN LET a == CHOOSE b \in DOMAIN job : job[b] = s IN
             IF ts[s].status = "Ready" THEN Claimed(ts[s], a)
             ELSE [ts[s] EXCEPT !.reviewer = a]
        ELSE ts[s]
           ts2 == [s \in Tasks |-> given(s)]
<1>1. Staffed(ts, job) = Refresh(ts2) /\ ts2[t] = given(t)
  BY DEF Staffed
<1>0. /\ free \in SUBSET Agents /\ job \in [free -> Tasks \cup {NoTask}]
      /\ \A a, b \in free : job[a] = job[b] => a = b \/ job[a] = NoTask
  BY DEF Choice
<1>2. ts2 \in [Tasks -> TaskRecords]
  <2>1. \A k \in TaskRecords, a \in Agents : [k EXCEPT !.reviewer = a] \in TaskRecords
    BY DEF TaskRecords
  <2>2. ASSUME NEW s \in Tasks PROVE given(s) \in TaskRecords
    <3>1. CASE \E a \in DOMAIN job : job[a] = s
      <4> DEFINE b == CHOOSE b \in DOMAIN job : job[b] = s
      <4>1. b \in Agents
        BY <1>0, <3>1
      <4>2. given(s) = IF ts[s].status = "Ready" THEN Claimed(ts[s], b)
                       ELSE [ts[s] EXCEPT !.reviewer = b]
        BY <3>1
      <4> HIDE DEF b, given
      <4> QED
        BY <2>1, <4>1, <4>2, ClaimedType
    <3>2. CASE ~\E a \in DOMAIN job : job[a] = s
      BY <3>2
    <3> QED
      BY <3>1, <3>2
  <2> QED
    BY <2>2
<1>3. ASSUME NEW a \in free, job[a] = t
      PROVE  given(t) = IF ts[t].status = "Ready" THEN Claimed(ts[t], a)
                        ELSE [ts[t] EXCEPT !.reviewer = a]
  <2>1. t # NoTask
    BY NoneAssumption
  <2>2. (CHOOSE b \in DOMAIN job : job[b] = t) = a
    BY <1>0, <1>3, <2>1
  <2> QED
    BY <1>0, <1>3, <2>2
<1>4. (\A a \in free : job[a] # t) => given(t) = ts[t]
  BY <1>0
<1> HIDE DEF given, ts2
<1>5. ASSUME ts2[t].status \notin Unstarted PROVE Staffed(ts, job)[t] = ts2[t]
  BY <1>1, <1>2, <1>5, RefreshFacts
<1>6. ASSUME NEW a \in free, job[a] = t, ts[t].status = "Ready"
      PROVE  Staffed(ts, job)[t] = Claimed(ts[t], a)
  <2>1. Claimed(ts[t], a).status = "InProgress"
    BY RecordFacts
  <2> QED
    BY <1>1, <1>3, <1>5, <1>6, <2>1 DEF Unstarted
<1>7. ASSUME NEW a \in free, job[a] = t, ts[t].status = "Review"
      PROVE  Staffed(ts, job)[t] = [ts[t] EXCEPT !.reviewer = a]
  <2>1. [ts[t] EXCEPT !.reviewer = a].status = "Review"
    BY <1>7 DEF TaskRecords
  <2> QED
    BY <1>1, <1>3, <1>5, <1>7, <2>1 DEF Unstarted
<1>8. ASSUME \A a \in free : job[a] # t, Staffed(ts, job)[t].status \in Active \cup Done
      PROVE  Staffed(ts, job)[t] = ts[t]
  BY <1>1, <1>2, <1>4, <1>8, RefreshStatus DEF Active, Done
<1> QED
  BY <1>6, <1>7, <1>8

LEMMA TickLives ==
    ASSUME TypeOK, TickSchedules, NEW t \in Tasks
    PROVE  Lives(t)
<1>1. PICK ag, ts, job, planner : Dispatch(ag, ts, job, planner)
  BY TickDispatches
<1> DEFINE free == {a \in Agents : Available(ag[a])}
<1>2. /\ ag \in [Agents -> AgentRecords] /\ ag = ExpireAgents(agents)
      /\ ts \in [Tasks -> TaskRecords] /\ ts = ExpireTasks(agents, tasks)
      /\ job \in [free -> Tasks \cup {NoTask}] /\ free \in SUBSET Agents
      /\ \A a, b \in free : job[a] = job[b] => a = b \/ job[a] = NoTask
      /\ planner \in free \cup {NoOne}
      /\ tasks' = Staffed(ts, job) /\ agents' = Dispatched(ag, job, planner, ts)
  BY <1>1, ExpireAgentsType, ExpireTasksType DEF Dispatch, TypeOK
<1>3. ASSUME NEW s \in Tasks
      PROVE  /\ \A a \in free : job[a] = s /\ ts[s].status = "Ready" =>
                    tasks'[s] = Claimed(ts[s], a)
             /\ \A a \in free : job[a] = s /\ ts[s].status = "Review" =>
                    tasks'[s] = [ts[s] EXCEPT !.reviewer = a]
             /\ (\A a \in free : job[a] # s) /\ tasks'[s].status \in Active \cup Done
                    => tasks'[s] = ts[s]
  <2> DEFINE given == Staffed(ts, job)
  <2>1. ts \in [Tasks -> TaskRecords] /\ Choice(job, free)
    BY <1>2 DEF Choice
  <2> HIDE DEF free
  <2>2. /\ \A a \in free : job[a] = s /\ ts[s].status = "Ready" =>
                given[s] = Claimed(ts[s], a)
        /\ \A a \in free : job[a] = s /\ ts[s].status = "Review" =>
                given[s] = [ts[s] EXCEPT !.reviewer = a]
        /\ (\A a \in free : job[a] # s) /\ given[s].status \in Active \cup Done
                => given[s] = ts[s]
    BY <2>1, StaffedFacts
  <2>3. tasks'[s] = given[s]
    BY <1>2
  <2> HIDE DEF given
  <2>4. \A a \in free : job[a] = s /\ ts[s].status = "Ready" => tasks'[s] = Claimed(ts[s], a)
    BY <2>2, <2>3
  <2>5. \A a \in free : job[a] = s /\ ts[s].status = "Review" =>
            tasks'[s] = [ts[s] EXCEPT !.reviewer = a]
    BY <2>2, <2>3
  <2>6. (\A a \in free : job[a] # s) /\ tasks'[s].status \in Active \cup Done
            => tasks'[s] = ts[s]
    BY <2>2, <2>3
  <2> QED
    BY <2>4, <2>5, <2>6
<1>4. ASSUME NEW a \in free
      PROVE  job[a] # NoTask =>
                /\ job[a] \in Tasks
                /\ \/ ts[job[a]].status = "Ready" /\ ~OverlapsActive(ts, job[a])
                   \/ ts[job[a]].status = "Review"
                /\ \A b \in free : b # a /\ job[b] # NoTask
                        /\ ts[job[a]].status = "Ready" /\ ts[job[b]].status = "Ready"
                        => <<job[b], job[a]>> \notin Overlap
  BY <1>1, <1>2 DEF Dispatch
<1>5. CASE \E a \in free : job[a] = t /\ ts[t].status = "Ready"
  <2>1. PICK a \in free : job[a] = t /\ ts[t].status = "Ready"
    BY <1>5
  <2>2. tasks'[t].status = "InProgress" /\ tasks'[t].owner = a
    <3>1. tasks'[t] = Claimed(ts[t], a) /\ ts[t] \in TaskRecords
      BY <1>2, <1>3, <2>1
    <3> QED
      BY <3>1, RecordFacts
  <2>3. agents'[a].work.kind = "Implement" /\ agents'[a].work.task = t
    <3>1. agents'[a] = Assigned(ag[a], "Implement", t)
      BY <1>2, <2>1, NoneAssumption DEF Dispatched
    <3> QED
      BY <1>2, <3>1 DEF Assigned, AgentRecords
  <2>4. ASSUME NEW s \in Tasks \ {t}, tasks'[s].status \in Active PROVE <<s, t>> \notin Overlap
    <3>0. ~OverlapsActive(ts, t)
      BY <1>4, <2>1, NoneAssumption
    <3>1. CASE \E b \in free : job[b] = s /\ ts[s].status = "Ready"
      BY <1>4, <2>1, <2>4, <3>1, NoneAssumption
    <3>2. CASE \E b \in free : job[b] = s /\ ts[s].status = "Review"
      BY <2>4, <3>0, <3>2 DEF OverlapsActive, Active
    <3>3. CASE \A b \in free : job[b] # s
      <4>1. tasks'[s] = ts[s]
        BY <1>3, <2>4, <3>3
      <4> QED
        BY <2>4, <3>0, <4>1 DEF OverlapsActive
    <3>4. \A b \in free : job[b] = s => ts[s].status \in {"Ready", "Review"}
      BY <1>4, NoneAssumption
    <3> QED
      BY <3>1, <3>2, <3>3, <3>4
  <2> QED
    BY <2>2, <2>3, <2>4 DEF Lives, Begins, Holder, Active, Done
<1>6. ASSUME ts[t].status \notin {"Ready", "BlockedDependency"}
      PROVE  /\ ts[t] = tasks[t]
             /\ tasks[t].status = "InProgress" =>
                    \A b \in Agents : Holder(b, t) => ~LapsedWork(agents[b])
  BY <1>2, <1>6, ExpireTasksStatus DEF TypeOK, Holder
<1>7. CASE \E a \in free : job[a] = t /\ ts[t].status = "Review"
  <2>1. PICK a \in free : job[a] = t /\ ts[t].status = "Review"
    BY <1>7
  <2>2. tasks'[t] = [tasks[t] EXCEPT !.reviewer = a] /\ tasks[t].status = "Review"
    BY <1>3, <1>6, <2>1
  <2>3. tasks'[t].status = "Review"
    BY <2>2 DEF TypeOK, TaskRecords
  <2> QED
    BY <2>2, <2>3 DEF Lives, Active, Done
<1>8. CASE \A a \in free : job[a] # t
  <2>1. CASE tasks'[t].status \notin Active \cup Done
    BY <2>1, Unstarts
  <2>2. CASE tasks'[t].status \in Active \cup Done
    <3>1. tasks'[t] = ts[t]
      BY <1>3, <1>8, <2>2
    <3>2. ts[t].status \notin {"Ready", "BlockedDependency"}
      BY <2>2, <3>1 DEF Active, Done
    <3>3. CASE tasks[t].status # "InProgress"
      BY <1>6, <3>1, <3>2, <3>3, Continues DEF SameHistory
    <3>4. CASE tasks[t].status = "InProgress"
      <4>1. ASSUME NEW b \in Agents, Holder(b, t) PROVE agents'[b].work = agents[b].work
        <5>1. ag[b].work = agents[b].work
          BY <1>2, <1>6, <3>2, <3>4, <4>1, ExpireAgentsWork DEF TypeOK
        <5>2. b \notin free
          BY <4>1, <5>1 DEF Holder, Available
        <5>3. agents'[b] = ag[b]
          BY <1>2, <5>2, NoneAssumption DEF Dispatched
        <5> QED
          BY <5>1, <5>3
      <4> QED
        BY <1>6, <3>1, <3>2, <4>1, Untouched
    <3> QED
      BY <3>3, <3>4
  <2> QED
    BY <2>1, <2>2
<1> QED
  BY <1>4, <1>5, <1>7, <1>8, NoneAssumption

LEMMA LivesStep ==
    ASSUME TypeOK, WorkersPresent, [Next]_vars, NEW t \in Tasks
    PROVE  Lives(t)
<1>1. CASE WorkerStep
  <2>1. PICK a \in Agents :
            \/ Join(a) \/ Heartbeat(a) \/ Release(a)
            \/ CompletePlan(a) \/ AckContext(a)
            \/ LandWrite(a) \/ SubmitResult(a) \/ RequestGate(a) \/ BeginWrite(a)
            \/ \E again \in BOOLEAN : RecordBlocker(a, again)
            \/ \E accepted, again \in BOOLEAN : SubmitReview(a, accepted, again)
            \/ \E u \in Tasks :
                \/ ClaimTask(a, u) \/ AttachEvidence(a, u)
                \/ \E deps \in SUBSET Tasks : Propose(a, u, deps)
                \/ \E sufficient \in BOOLEAN : EvaluateTask(a, u, sufficient)
    BY <1>1 DEF WorkerStep
  <2> QED
    BY <2>1, PresenceLives, WorkLives, TaskWorkLives
<1>2. CASE IntegrationStep
  BY <1>2, IntegrationLives DEF IntegrationStep
<1>3. CASE Tick
  BY <1>3, TickLives, Untouched DEF Tick, TickHeld, TickAborts, snapshot
<1>4. CASE HumanStep
  BY <1>4, MissionLives, PresenceLives DEF HumanStep
<1>5. CASE Environment
  BY <1>5, MissionLives, PresenceLives DEF Environment
<1>6. CASE UNCHANGED vars
  BY <1>6, MissionLives
<1> QED
  BY <1>1, <1>2, <1>3, <1>4, <1>5, <1>6 DEF Next

-----------------------------------------------------------------------------
(* The agents at work *)

LEMMA PresenceWorks ==
    ASSUME TypeOK, WorkersPresent, NEW a \in Agents, NEW b \in Agents,
           \/ Join(a) \/ Heartbeat(a) \/ Release(a) \/ Remove(a)
           \/ RemoveAgain(a) \/ Restore(a) \/ LeaseLapse(a) \/ AssignmentLapse(a),
           agents'[b].status # "Present"
    PROVE  agents'[b].work = NoWork
<1>1. agents \in [Agents -> AgentRecords] /\ agents[a] \in AgentRecords
      /\ agents[b] \in AgentRecords
  BY DEF TypeOK
<1>2. ASSUME agents'[b] = agents[b] PROVE agents'[b].work = NoWork
  BY <1>2 DEF WorkersPresent
<1>3. CASE Join(a) \/ Heartbeat(a)
  <2> DEFINE ag == ExpireAgents(agents)
  <2>1. ag \in [Agents -> AgentRecords] /\ ag[b].status = agents[b].status
        /\ (agents[b].work = NoWork => ag[b].work = NoWork)
    <3>1. [agents[b] EXCEPT !.work = NoWork].status = agents[b].status
      BY <1>1 DEF AgentRecords
    <3> QED
      BY <1>1, <3>1, ExpireAgentsType, ExpireAgentsWork DEF ExpireAgents
  <2>2. \/ agents' = [ag EXCEPT ![a] = Renewed(@)]
        \/ agents' = [agents EXCEPT ![a] = Renewed(@)]
    BY <1>3 DEF Join, Heartbeat
  <2> HIDE DEF ag
  <2>3. Renewed(ag[a]).status = "Present" /\ Renewed(agents[a]).status = "Present"
    BY <1>1, <2>1 DEF Renewed, AgentRecords
  <2>4. b # a
    BY <1>1, <2>1, <2>2, <2>3
  <2>5. agents'[b] \in {ag[b], agents[b]}
    BY <1>1, <2>1, <2>2, <2>4
  <2> QED
    BY <2>1, <2>5 DEF WorkersPresent
<1>4. CASE Release(a) \/ Remove(a) \/ Restore(a)
  <2>1. \A s : [agents[a] EXCEPT !.status = s, !.live = FALSE, !.work = NoWork].work = NoWork
    BY <1>1 DEF AgentRecords
  <2>2. \E g : g.work = NoWork /\ agents' = [agents EXCEPT ![a] = g]
    <3>1. CASE Release(a)
      BY <2>1, <3>1 DEF Release
    <3>2. CASE Remove(a)
      BY <3>2 DEF Remove
    <3>3. CASE Restore(a)
      BY <2>1, <3>3 DEF Restore
    <3> QED
      BY <1>4, <3>1, <3>2, <3>3
  <2>3. agents'[b] = agents[b] \/ agents'[b].work = NoWork
    BY <1>1, <2>2
  <2> QED
    BY <1>2, <2>3
<1>5. CASE LeaseLapse(a)
  <2>1. /\ [agents[a] EXCEPT !.live = FALSE].work = agents[a].work
        /\ [agents[a] EXCEPT !.live = FALSE].status = agents[a].status
    BY <1>1 DEF AgentRecords
  <2>2. agents'[b].work = agents[b].work /\ agents'[b].status = agents[b].status
    BY <1>1, <1>5, <2>1 DEF LeaseLapse
  <2> QED
    BY <2>2 DEF WorkersPresent
<1>6. CASE AssignmentLapse(a)
  <2>1. agents[a].status = "Present"
    BY <1>6 DEF AssignmentLapse, WorkersPresent, NoWork
  <2>2. agents'[a].status = agents[a].status /\ \A c \in Agents \ {a} : agents'[c] = agents[c]
    BY <1>1, <1>6 DEF AssignmentLapse, AgentRecords
  <2> QED
    BY <1>2, <2>1, <2>2
<1>7. CASE RemoveAgain(a)
  BY <1>2, <1>7 DEF RemoveAgain, snapshot
<1> QED
  BY <1>3, <1>4, <1>5, <1>6, <1>7

LEMMA WorkWorks ==
    ASSUME TypeOK, WorkersPresent, NEW a \in Agents, NEW b \in Agents,
           \/ CompletePlan(a) \/ AckContext(a) \/ LandWrite(a) \/ BeginWrite(a)
           \/ SubmitResult(a) \/ RequestGate(a)
           \/ \E again \in BOOLEAN : RecordBlocker(a, again)
           \/ \E accepted, again \in BOOLEAN : SubmitReview(a, accepted, again)
           \/ \E t \in Tasks : \/ ClaimTask(a, t) \/ AttachEvidence(a, t)
                               \/ \E deps \in SUBSET Tasks : Propose(a, t, deps)
                               \/ \E sufficient \in BOOLEAN : EvaluateTask(a, t, sufficient),
           agents'[b].status # "Present"
    PROVE  agents'[b].work = NoWork
<1>1. agents \in [Agents -> AgentRecords] /\ agents[a] \in AgentRecords
  BY DEF TypeOK
<1>2. CASE agents' = agents
  BY <1>2 DEF WorkersPresent
<1>3. CASE agents' = [agents EXCEPT ![a] = Completed(@)]
  BY <1>1, <1>3, WorkFacts DEF WorkersPresent
<1>4. CASE AckContext(a)
  <2>1. /\ [agents[a] EXCEPT !.acked = TRUE].work = agents[a].work
        /\ [agents[a] EXCEPT !.acked = TRUE].status = agents[a].status
    BY <1>1 DEF AgentRecords
  <2>2. agents'[b].work = agents[b].work /\ agents'[b].status = agents[b].status
    BY <1>1, <1>4, <2>1 DEF AckContext
  <2> QED
    BY <2>2 DEF WorkersPresent
<1>5. ASSUME NEW t \in Tasks, ClaimTask(a, t) PROVE agents'[b].work = NoWork
  <2>1. Assigned(agents[a], "Implement", t).status = agents[a].status
    BY <1>1 DEF Assigned, AgentRecords
  <2>2. agents[a].status = "Present"
    BY <1>5 DEF ClaimTask, CanClaim, Available
  <2>3. b # a
    BY <1>1, <1>5, <2>1, <2>2 DEF ClaimTask
  <2>4. agents'[b] = agents[b]
    BY <1>1, <1>5, <2>3 DEF ClaimTask
  <2> QED
    BY <2>4 DEF WorkersPresent
<1> QED
  BY <1>2, <1>3, <1>4, <1>5
  DEF CompletePlan, LandWrite, SubmitResult, RequestGate, BeginWrite, RecordBlocker, SubmitReview,
      AttachEvidence, Propose, EvaluateTask, snapshot

LEMMA OthersWork ==
    ASSUME TypeOK, WorkersPresent, NEW b \in Agents, agents'[b].status # "Present",
           \/ IntegrationStep \/ Tick \/ Restart
           \/ Pause \/ Resume \/ Stop \/ Directive \/ UNCHANGED vars
    PROVE  agents'[b].work = NoWork
<1>1. agents \in [Agents -> AgentRecords] /\ agents[b] \in AgentRecords
  BY DEF TypeOK
<1>2. CASE agents' = agents
  BY <1>2 DEF WorkersPresent
<1>3. CASE Stop
  <2>1. \A s : [agents[b] EXCEPT !.work = NoWork, !.status = s].work = NoWork
    BY <1>1 DEF AgentRecords
  <2> QED
    BY <1>3, <2>1 DEF Stop
<1>4. CASE Directive
  <2>1. /\ [agents[b] EXCEPT !.acked = FALSE].work = agents[b].work
        /\ [agents[b] EXCEPT !.acked = FALSE].status = agents[b].status
    BY <1>1 DEF AgentRecords
  <2> QED
    BY <1>4, <2>1 DEF Directive, WorkersPresent
<1>5. CASE TickSchedules
  <2>1. PICK ag, ts, job, planner : Dispatch(ag, ts, job, planner)
    BY <1>5, TickDispatches
  <2> DEFINE free == {a \in Agents : Available(ag[a])}
  <2>2. /\ ag \in [Agents -> AgentRecords] /\ ag = ExpireAgents(agents)
        /\ agents' = Dispatched(ag, job, planner, ts)
        /\ DOMAIN job = free /\ planner \in free \cup {NoOne}
    BY <1>1, <2>1, ExpireAgentsType DEF Dispatch
  <2>3. \A kind, t : Assigned(ag[b], kind, t).status = ag[b].status
    BY <2>2 DEF Assigned, AgentRecords
  <2>4. b \in free => ag[b].status = "Present"
    BY DEF Available
  <2>5. agents'[b].status # "Present" => agents'[b] = ag[b]
    BY <2>2, <2>3, <2>4, NoneAssumption DEF Dispatched
  <2>6. [agents[b] EXCEPT !.work = NoWork].status = agents[b].status
    BY <1>1 DEF AgentRecords
  <2>7. ag[b].status = agents[b].status
    BY <2>2, <2>6 DEF ExpireAgents
  <2> QED
    BY <1>1, <2>2, <2>5, <2>7, ExpireAgentsWork DEF WorkersPresent
<1>6. CASE IntegrationStep
  BY <1>2, <1>6 DEF IntegrationStep, BeginIntegration, RefuseIntegration,
      IntegrationApplied, IntegrationUndone, ResetOverlay, IntegrationAmbiguous, snapshot
<1> QED
  BY <1>2, <1>3, <1>4, <1>5, <1>6
  DEF Tick, TickHeld, TickAborts, Restart, Pause, Resume, snapshot, vars

LEMMA WorkersStep == TypeOK /\ WorkersPresent /\ [Next]_vars => WorkersPresent'
<1> SUFFICES ASSUME TypeOK, WorkersPresent, [Next]_vars, NEW b \in Agents,
                    agents'[b].status # "Present"
             PROVE  agents'[b].work = NoWork
  BY DEF WorkersPresent
<1>1. CASE WorkerStep
  <2>1. PICK a \in Agents :
            \/ Join(a) \/ Heartbeat(a) \/ Release(a)
            \/ CompletePlan(a) \/ AckContext(a)
            \/ LandWrite(a) \/ SubmitResult(a) \/ RequestGate(a) \/ BeginWrite(a)
            \/ \E again \in BOOLEAN : RecordBlocker(a, again)
            \/ \E accepted, again \in BOOLEAN : SubmitReview(a, accepted, again)
            \/ \E u \in Tasks :
                \/ ClaimTask(a, u) \/ AttachEvidence(a, u)
                \/ \E deps \in SUBSET Tasks : Propose(a, u, deps)
                \/ \E sufficient \in BOOLEAN : EvaluateTask(a, u, sufficient)
    BY <1>1 DEF WorkerStep
  <2> QED
    BY <2>1, PresenceWorks, WorkWorks
<1>2. CASE IntegrationStep \/ Tick \/ UNCHANGED vars
  BY <1>2, OthersWork
<1>3. CASE HumanStep
  BY <1>3, OthersWork, PresenceWorks DEF HumanStep
<1>4. CASE Environment
  BY <1>4, OthersWork, PresenceWorks DEF Environment
<1> QED
  BY <1>1, <1>2, <1>3, <1>4 DEF Next

-----------------------------------------------------------------------------
(* The theorems *)

\* What TypeOK needs to make the properties of tasks inductive.
IInv == TypeOK /\ WorkersPresent /\ InProgressIsHeld /\ ActivePathsDisjoint /\ IndependentlyVerified

LEMMA InitIInv == Init => IInv
<1> SUFFICES ASSUME Init PROVE IInv
  OBVIOUS
<1>1. TypeOK
  BY InitType
<1>2. \A t \in Tasks : tasks[t].status = "Absent"
  BY DEF Init
<1>3. WorkersPresent
  BY DEF Init, WorkersPresent
<1> QED
  BY <1>1, <1>2, <1>3
  DEF IInv, InProgressIsHeld, ActivePathsDisjoint, IndependentlyVerified, Active, Done

LEMMA HeldStep ==
    ASSUME InProgressIsHeld, \A t \in Tasks : Lives(t)
    PROVE  InProgressIsHeld'
<1> SUFFICES ASSUME NEW t \in Tasks, tasks'[t].status = "InProgress"
             PROVE  \E a \in Agents : Holder(a, t)' \/ Gated(a, t)'
  BY DEF InProgressIsHeld, Holder, Gated
<1>1. CASE Begins(t)
  BY <1>1 DEF Begins
<1>2. CASE Stays(t)
  <2>1. PICK a \in Agents : Holder(a, t) \/ Gated(a, t)
    BY <1>2 DEF Stays, InProgressIsHeld, Holder, Gated
  <2> QED
    BY <1>2, <2>1 DEF Stays
<1> QED
  BY <1>1, <1>2 DEF Lives

LEMMA DisjointStep ==
    ASSUME ActivePathsDisjoint, \A t \in Tasks : Lives(t)
    PROVE  ActivePathsDisjoint'
<1> SUFFICES ASSUME NEW s \in Tasks, NEW t \in Tasks, s # t,
                    tasks'[s].status \in Active, tasks'[t].status \in Active
             PROVE  <<s, t>> \notin Overlap
  BY DEF ActivePathsDisjoint
<1>1. ASSUME NEW u \in Tasks, tasks'[u].status \in Active
      PROVE  tasks[u].status \in Active \/ Begins(u)
  BY <1>1 DEF Lives, Stays, Active
<1>2. CASE Begins(t)
  BY <1>2 DEF Begins
<1>3. CASE Begins(s)
  <2>1. <<t, s>> \notin Overlap
    BY <1>3 DEF Begins
  <2> QED
    BY <2>1, OverlapAssumption
<1>4. CASE tasks[s].status \in Active /\ tasks[t].status \in Active
  BY <1>4 DEF ActivePathsDisjoint
<1> QED
  BY <1>1, <1>2, <1>3, <1>4

LEMMA VerifiedStep ==
    ASSUME IndependentlyVerified, \A t \in Tasks : Lives(t)
    PROVE  IndependentlyVerified'
<1>1. ASSUME NEW t \in Tasks, tasks'[t].status \in Done PROVE Accepted(tasks'[t])
  BY <1>1 DEF Lives, IndependentlyVerified, Accepted
<1>2. ASSUME NEW t \in Tasks, tasks'[t].status = "Verified" PROVE Current(tasks'[t])
  BY <1>2 DEF Lives, IndependentlyVerified, Current
<1> QED
  BY <1>1, <1>2 DEF IndependentlyVerified, Accepted, Current

LEMMA IInvStep == IInv /\ [Next]_vars => IInv'
<1> SUFFICES ASSUME IInv, [Next]_vars PROVE IInv'
  OBVIOUS
<1>1. TypeOK' /\ WorkersPresent'
  BY TypeStep, WorkersStep DEF IInv
<1>2. \A t \in Tasks : Lives(t)
  BY LivesStep DEF IInv
<1> QED
  BY <1>1, <1>2, HeldStep, DisjointStep, VerifiedStep DEF IInv

LEMMA IInvHolds == Spec => []IInv
BY InitIInv, IInvStep, PTL DEF Spec

\* Every task in progress is held by its owner: expiry, release, removal, stop
\* and every end of an assignment take the task back in the same step, but for
\* the request of a human gate.
THEOREM InProgressHeld == Spec => []InProgressIsHeld
<1>1. IInv => InProgressIsHeld
  BY DEF IInv
<1> QED
  BY <1>1, IInvHolds, PTL

\* Tasks with overlapping paths are never active together, for any symmetric
\* overlap relation, although reviews, verdicts and the ends of integrations
\* change statuses without looking at the paths.
THEOREM ActiveDisjoint == Spec => []ActivePathsDisjoint
<1>1. IInv => ActivePathsDisjoint
  BY DEF IInv
<1> QED
  BY <1>1, IInvHolds, PTL

\* mutation_state_for_principal never authorises two agents on one task or on
\* overlapping paths: a consequence of the sole assignee and the disjoint paths.
THEOREM Writers == Spec => []WritersDisjoint
<1>1. TypeOK /\ SoleAssignee /\ ActivePathsDisjoint => WritersDisjoint
  <2> SUFFICES ASSUME TypeOK, SoleAssignee, ActivePathsDisjoint,
                      NEW a \in Agents, NEW b \in Agents, a # b, MayMutate(a), MayMutate(b)
               PROVE  /\ agents[a].work.task # agents[b].work.task
                      /\ <<agents[a].work.task, agents[b].work.task>> \notin Overlap
    BY DEF WritersDisjoint
  <2>1. agents[a].work.task \in Tasks /\ agents[b].work.task \in Tasks
    BY AssignedTask DEF MayMutate
  <2>2. agents[a].work.task # agents[b].work.task
    BY <2>1, NoneAssumption DEF SoleAssignee
  <2> QED
    BY <2>1, <2>2 DEF ActivePathsDisjoint, MayMutate, Active
<1> QED
  BY <1>1, TypeCorrect, OneAssignee, ActiveDisjoint, PTL

\* Nothing is verified or integrated without an accepted verdict of another
\* agent, and a verified task's verdict and evidence are of the current
\* authority revision, whatever directives, failures and late integrations do.
THEOREM Verified == Spec => []IndependentlyVerified
<1>1. IInv => IndependentlyVerified
  BY DEF IInv
<1> QED
  BY <1>1, IInvHolds, PTL

=============================================================================
