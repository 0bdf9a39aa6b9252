--------------------------- MODULE MissionCouncil ---------------------------
(***************************************************************************)
(* What the workers of an Agent Mission settle together                    *)
(* (src-tauri/src/mission): decisions, which pass through independent      *)
(* assessments, a debate, experiments and an adjudication (deliberation.rs *)
(* and the worker_..._decision handlers of mod.rs), and the questions of   *)
(* the human, which several workers answer and one of them synthesises     *)
(* (human.rs), with the part of a scheduler tick that staffs both and the  *)
(* reconciliation that takes their work back from workers that vanished.   *)
(*                                                                         *)
(* As in MissionWork, a handler is one action and an Err a disabled one.    *)
(* Almost every handler of a mission, those of other components too, ends  *)
(* by calling drive_once under a lock of its own: here a Tick may run at   *)
(* any time.  The other work of a worker (tasks, reviews, plans) is        *)
(* hidden: a tick finds some of the free agents, and some of the reasoning *)
(* slots, taken by it.                                                     *)
(***************************************************************************)
EXTENDS Integers, FiniteSets

CONSTANTS
    Agents,           \* the principals that may ever join
    Decisions,        \* the decisions that may ever be proposed
    Questions,        \* the questions the human may ever ask
    Nobody, Nothing,  \* the None of the agent and subject options
    Options,          \* what a decision chooses from
    Significances,    \* how significant a proposed decision may be
    RoundLimit,       \* debate rounds without new evidence (2 in the code)
    MaxContributors,  \* MAX_QUESTION_CONTRIBUTORS (3 in the code)
    ReasoningSlots,   \* capacity of the reasoning class
    MaxSubjects       \* bound on the decisions and questions raised

ASSUME AgentsAssumption == IsFiniteSet(Agents) /\ Nobody \notin Agents
ASSUME NothingAssumption ==
    /\ Nothing \notin Decisions \cup Questions \cup Options
    /\ Decisions \cap Questions = {}
ASSUME LimitAssumption ==
    /\ Significances \subseteq {"Routine", "Significant", "Critical"}
    /\ RoundLimit \in Nat \ {0}
    /\ MaxContributors \in Nat \ {0}
    /\ ReasoningSlots \in Nat \ {0}
    /\ MaxSubjects \in Nat

VARIABLES
    missionStatus,  \* AgentMission.status; Replanning counts as Running here
    agents,         \* MissionSnapshot.agents
    decisions,      \* MissionSnapshot.decisions
    questions       \* MissionSnapshot.human_questions

vars == <<missionStatus, agents, decisions, questions>>

-----------------------------------------------------------------------------
(* Records of the snapshot *)

Subjects == Decisions \cup Questions

\* The status of an agent only says whether it joined, left or was removed;
\* its other values repeat live and subject.  subject is the decision of a
\* Deliberate assignment or the question of an AnswerHuman one.
AgentRecords ==
    [status : {"Absent", "Present", "Released", "Removed"}, live : BOOLEAN,
     subject : Subjects \cup {Nothing}, lease : BOOLEAN]
NewAgent == [status |-> "Absent", live |-> FALSE, subject |-> Nothing, lease |-> FALSE]

Stages == {"Absent", "CollectingIndependent", "OpenDebate", "ExperimentRequired",
           "ReadyToAdjudicate", "Finalized"}
Debated == {"OpenDebate", "ExperimentRequired"}

\* Of the experiments only the options they falsify are kept, and whether
\* there are any; of the challenges, the rounds they count.
DecisionRecords ==
    [stage : Stages, significance : Significances \cup {Nothing},
     proposer : Agents \cup {Nobody}, assessed : SUBSET Agents,
     rounds : 0..RoundLimit, experimented : BOOLEAN, falsified : SUBSET Options,
     adjudicator : Agents \cup {Nobody}, outcome : Options \cup {Nothing}]
NoDecision ==
    [stage |-> "Absent", significance |-> Nothing, proposer |-> Nobody,
     assessed |-> {}, rounds |-> 0, experimented |-> FALSE, falsified |-> {},
     adjudicator |-> Nobody, outcome |-> Nothing]

QuestionRecords ==
    [status : {"Absent", "Open", "Answered"}, assigned : Agents \cup {Nobody},
     contributors : SUBSET Agents, answered : SUBSET Agents,
     synthesizer : Agents \cup {Nobody}]
NoQuestion ==
    [status |-> "Absent", assigned |-> Nobody, contributors |-> {},
     answered |-> {}, synthesizer |-> Nobody]

Registered == {a \in Agents : agents[a].status \in {"Present", "Released"}}
Raised == {d \in Decisions : decisions[d].stage # "Absent"}
          \cup {q \in Questions : questions[q].status # "Absent"}

\* DecisionSignificance
Required(r) ==
    CASE r.significance = "Significant" -> 2
      [] r.significance = "Critical" -> 3
      [] OTHER -> 1
Formal(r) == r.significance \in {"Significant", "Critical"}

Unassigned(g) == [g EXCEPT !.subject = Nothing, !.lease = FALSE]
Assigned(g, s) == [g EXCEPT !.subject = s, !.lease = TRUE]

\* complete_assignment_snapshot: it also renews the presence lease.
Completed(g) == [Unassigned(g) EXCEPT !.status = "Present", !.live = TRUE]

AssignedTo(ag, s) == {a \in Agents : ag[a].subject = s}

\* live_available_agents
Available(g) == g.status = "Present" /\ g.live /\ g.subject = Nothing

Lapsed(g) == g.subject # Nothing /\ ~(g.live /\ g.lease)

\* expire_stale_leases_snapshot
Expired(ag) == [a \in Agents |-> IF Lapsed(ag[a]) THEN Unassigned(ag[a]) ELSE ag[a]]

\* The agents that are still at work on a question.
Serving(ag, q) == {a \in AssignedTo(ag, q) : ~Lapsed(ag[a])}

\* Fault: a contributor that vanished is dropped with its answer's place.
ReconciledDropping(ag, qs) ==
    [q \in Questions |->
        LET r == qs[q]
            serving == Serving(ag, q) IN
        IF r.status # "Open" THEN r
        ELSE [r EXCEPT
                !.assigned = IF @ \in r.answered \cup serving THEN @ ELSE Nobody,
                !.synthesizer = IF @ \in serving THEN @ ELSE Nobody,
                !.contributors = @ \cap serving]]

\* Fault: the question waits for the synthesizer it once chose.
ReconciledWaiting(ag, qs) ==
    [q \in Questions |->
        LET r == qs[q]
            serving == Serving(ag, q) IN
        IF r.status # "Open" THEN r
        ELSE [r EXCEPT
                !.assigned = IF @ \in r.answered \cup serving THEN @ ELSE Nobody,
                !.contributors = @ \cap (r.answered \cup serving)]]

\* reconcile_unavailable_workers_snapshot: what a worker that vanished was to
\* write is asked of others; what it wrote is kept.
Reconciled(ag, qs) ==
    [q \in Questions |->
        LET r == qs[q]
            serving == Serving(ag, q) IN
        IF r.status # "Open" THEN r
        ELSE [r EXCEPT
                !.assigned = IF @ \in r.answered \cup serving THEN @ ELSE Nobody,
                !.synthesizer = IF @ \in serving THEN @ ELSE Nobody,
                !.contributors = @ \cap (r.answered \cup serving)]]

-----------------------------------------------------------------------------
Init ==
    /\ missionStatus = "Running"
    /\ agents = [a \in Agents |-> NewAgent]
    /\ decisions = [d \in Decisions |-> NoDecision]
    /\ questions = [q \in Questions |-> NoQuestion]

-----------------------------------------------------------------------------
(* Presence of the workers *)

Renewed(g) == [g EXCEPT !.live = TRUE, !.status = "Present"]

\* worker_join: expired work is reclaimed first, from every agent.
Join(a) ==
    LET expired == Expired(agents) IN
    /\ agents[a].status # "Removed"
    /\ agents' = [expired EXCEPT ![a] = Renewed(@)]
    /\ questions' = Reconciled(expired, questions)
    /\ UNCHANGED <<missionStatus, decisions>>

\* worker_heartbeat: it reclaims, and drives, only if some work has lapsed,
\* be it of a kind that is hidden here.
HeartbeatReclaims(a) ==
    LET expired == Expired(agents) IN
    /\ agents[a].status = "Present"
    /\ agents' = [expired EXCEPT ![a] = Renewed(@)]
    /\ questions' = Reconciled(expired, questions)
    /\ UNCHANGED <<missionStatus, decisions>>
HeartbeatRenews(a) ==
    /\ agents[a].status = "Present"
    /\ \A b \in Agents : ~Lapsed(agents[b])
    /\ agents' = [agents EXCEPT ![a] = Renewed(@)]
    /\ UNCHANGED <<missionStatus, decisions, questions>>
Heartbeat(a) == HeartbeatReclaims(a) \/ HeartbeatRenews(a)

\* worker_release: the questions are reconciled, other expired work is not
\* reclaimed.
Release(a) ==
    LET ag == [agents EXCEPT ![a] = [Unassigned(@) EXCEPT !.status = "Released",
                                                          !.live = FALSE]] IN
    /\ a \in Registered
    /\ agents' = ag
    /\ questions' = Reconciled(ag, questions)
    /\ UNCHANGED <<missionStatus, decisions>>

\* Fault: what a removed agent wrote is struck out.
Struck(r, a) ==
    [r EXCEPT !.assigned = IF @ = a THEN Nobody ELSE @,
              !.synthesizer = IF @ = a THEN Nobody ELSE @,
              !.contributors = @ \ {a}, !.answered = @ \ {a}]

\* revoke_agent_snapshot, for one open question.
Without(r, a) ==
    [r EXCEPT !.assigned = IF @ = a THEN Nobody ELSE @,
              !.synthesizer = IF @ = a THEN Nobody ELSE @,
              !.contributors = IF a \in r.answered THEN @ ELSE @ \ {a}]

\* remove_mission_agent, by the human; removing an agent again changes nothing.
Remove(a) ==
    /\ agents[a].status # "Absent"
    /\ agents' = [agents EXCEPT ![a] = [NewAgent EXCEPT !.status = "Removed"]]
    /\ questions' = IF agents[a].status = "Removed" THEN questions
                    ELSE [q \in Questions |->
                            IF questions[q].status = "Open"
                            THEN Without(questions[q], a) ELSE questions[q]]
    /\ UNCHANGED <<missionStatus, decisions>>

\* restore_mission_agent
Restore(a) ==
    /\ agents[a].status = "Removed"
    /\ agents' = [agents EXCEPT ![a].status = "Present"]
    /\ UNCHANGED <<missionStatus, decisions, questions>>

\* The clock passes an agent's lease, or the lease of its assignment.
LeaseLapse(a) ==
    /\ agents[a].live
    /\ agents' = [agents EXCEPT ![a].live = FALSE]
    /\ UNCHANGED <<missionStatus, decisions, questions>>

AssignmentLapse(a) ==
    /\ agents[a].lease
    /\ agents' = [agents EXCEPT ![a].lease = FALSE]
    /\ UNCHANGED <<missionStatus, decisions, questions>>

\* A handler of another component completes the hidden assignment of an agent.
OtherWorkEnds(a) ==
    /\ agents[a].status = "Present" /\ agents[a].subject = Nothing
    /\ agents' = [agents EXCEPT ![a] = Completed(@)]
    /\ UNCHANGED <<missionStatus, decisions, questions>>

-----------------------------------------------------------------------------
(* Decisions *)

\* worker_propose_decision
ProposeDecision(a, d, significance) ==
    /\ a \in Registered
    /\ decisions[d].stage = "Absent" /\ Cardinality(Raised) < MaxSubjects
    /\ decisions' = [decisions EXCEPT ![d] =
            [@ EXCEPT !.stage = "CollectingIndependent", !.proposer = a,
                      !.significance = significance]]
    /\ UNCHANGED <<missionStatus, agents, questions>>

Assessed(r, a, enough) ==
    [r EXCEPT !.assessed = @ \cup {a}, !.stage = IF enough THEN "OpenDebate" ELSE @]

\* Fault: the last assessment is not waited for.
AssessEarly(a, d) ==
    LET r == decisions[d] IN
    /\ a \in Registered
    /\ r.stage = "CollectingIndependent"
    /\ Formal(r) => agents[a].subject = d /\ a # r.proposer
    /\ a \notin r.assessed
    /\ decisions' = [decisions EXCEPT ![d] =
            Assessed(@, a, Cardinality(r.assessed) + 2 >= Required(r))]
    /\ agents' = IF Formal(r) THEN [agents EXCEPT ![a] = Completed(@)] ELSE agents
    /\ UNCHANGED <<missionStatus, questions>>

\* worker_submit_independent_assessment: a formal assessment needs the
\* assignment, not its lease, and completes it; a routine one needs none, and
\* leaves the assignment of whoever holds one as it is.
Assess(a, d) ==
    LET r == decisions[d] IN
    /\ a \in Registered
    /\ r.stage = "CollectingIndependent"
    /\ Formal(r) => agents[a].subject = d /\ a # r.proposer
    /\ a \notin r.assessed
    /\ decisions' = [decisions EXCEPT ![d] =
            Assessed(@, a, Cardinality(r.assessed) + 1 >= Required(r))]
    /\ agents' = IF Formal(r) THEN [agents EXCEPT ![a] = Completed(@)] ELSE agents
    /\ UNCHANGED <<missionStatus, questions>>

\* Fault: the rounds never suspend the debate.
ChallengedForEver(r, asks) ==
    IF asks THEN [r EXCEPT !.stage = "ExperimentRequired"]
    ELSE IF r.stage # "OpenDebate" THEN r
    ELSE [r EXCEPT !.rounds = @ + 1]

\* submit_challenge_snapshot and record_debate_round_snapshot, for one record:
\* a challenge that asks for evidence suspends the debate, and so does the last
\* of the rounds without any.
Challenged(r, asks) ==
    IF asks THEN [r EXCEPT !.stage = "ExperimentRequired"]
    ELSE IF r.stage # "OpenDebate" THEN r
    ELSE [r EXCEPT !.rounds = @ + 1,
                   !.stage = IF r.rounds + 1 >= RoundLimit THEN "ExperimentRequired" ELSE @]

\* worker_submit_decision_challenge, by any registered agent.
Challenge(a, d, asks) ==
    /\ a \in Registered
    /\ decisions[d].stage \in Debated
    /\ decisions' = [decisions EXCEPT ![d] = Challenged(@, asks)]
    /\ UNCHANGED <<missionStatus, agents, questions>>

\* record_experiment_snapshot: evidence reopens the debate, whatever the stage
\* was.
Experimented(r, falsifies) ==
    [r EXCEPT !.experimented = TRUE, !.falsified = @ \cup falsifies,
              !.rounds = 0, !.stage = "OpenDebate"]

\* worker_record_decision_experiment, as long as the decision is not final.
RecordExperiment(a, d, falsifies) ==
    /\ a \in Registered
    /\ decisions[d].stage \notin {"Absent", "Finalized"}
    /\ decisions' = [decisions EXCEPT ![d] = Experimented(@, falsifies)]
    /\ UNCHANGED <<missionStatus, agents, questions>>

\* worker_request_decision_finalize without an outcome, by any registered agent.
RequestAdjudication(a, d) ==
    LET r == decisions[d] IN
    /\ a \in Registered
    /\ r.stage \in Debated
    /\ Cardinality(r.assessed) >= Required(r)
    /\ r.stage = "ExperimentRequired" => r.experimented
    /\ decisions' = [decisions EXCEPT ![d].stage = "ReadyToAdjudicate"]
    /\ UNCHANGED <<missionStatus, agents, questions>>

\* Fault: the evidence is not asked.
AdjudicateFalsified(a, d, outcome) ==
    LET r == decisions[d] IN
    /\ a \in Registered
    /\ agents[a].subject = d
    /\ Cardinality(r.assessed) >= Required(r)
    /\ r.stage = "ReadyToAdjudicate"
    /\ a # r.proposer
    /\ decisions' = [decisions EXCEPT ![d] =
            [@ EXCEPT !.stage = "Finalized", !.adjudicator = a, !.outcome = outcome]]
    /\ agents' = [agents EXCEPT ![a] = Completed(@)]
    /\ UNCHANGED <<missionStatus, questions>>

\* worker_request_decision_finalize with an outcome: the adjudicator needs the
\* assignment, not its lease.
Adjudicate(a, d, outcome) ==
    LET r == decisions[d] IN
    /\ a \in Registered
    /\ agents[a].subject = d
    /\ Cardinality(r.assessed) >= Required(r)
    /\ r.stage = "ReadyToAdjudicate"
    /\ a # r.proposer
    /\ outcome \notin r.falsified
    /\ decisions' = [decisions EXCEPT ![d] =
            [@ EXCEPT !.stage = "Finalized", !.adjudicator = a, !.outcome = outcome]]
    /\ agents' = [agents EXCEPT ![a] = Completed(@)]
    /\ UNCHANGED <<missionStatus, questions>>

-----------------------------------------------------------------------------
(* Questions *)

\* submit_question: asked in a paused mission too; the first contributor is
\* assigned without regard to the reasoning slots.
Ask(q) ==
    LET free == {a \in Agents : Available(agents[a])} IN
    /\ missionStatus # "StoppedByHuman"
    /\ questions[q].status = "Absent" /\ Cardinality(Raised) < MaxSubjects
    /\ \E first \in free \cup {Nobody} :
        /\ questions' = [questions EXCEPT ![q] =
                [@ EXCEPT !.status = "Open", !.assigned = first,
                          !.contributors = {first} \ {Nobody}]]
        /\ agents' = [a \in Agents |-> IF a = first THEN Assigned(agents[a], q)
                                       ELSE agents[a]]
    /\ UNCHANGED <<missionStatus, decisions>>

\* Fault: the first contribution is enough.
MaySynthesiseEarly(r, a) == a = r.synthesizer /\ r.answered # {}

\* record_human_answer_snapshot of the synthesizer
Synthesised(r) == [r EXCEPT !.status = "Answered"]
MaySynthesise(r, a) ==
    /\ a = r.synthesizer
    /\ Cardinality(r.answered) >= Cardinality(r.contributors)
    /\ r.answered # {}

MayContribute(r, a) ==
    /\ a # r.synthesizer
    /\ a \in r.contributors /\ a \notin r.answered

\* worker_submit_human_answer
Answer(a, q) ==
    LET r == questions[q] IN
    /\ a \in Registered
    /\ agents[a].subject = q /\ agents[a].lease
    /\ r.status = "Open"
    /\ \/ MaySynthesise(r, a) /\ questions' = [questions EXCEPT ![q] = Synthesised(@)]
       \/ /\ MayContribute(r, a)
          /\ questions' = [questions EXCEPT ![q].answered = @ \cup {a}]
    /\ agents' = [agents EXCEPT ![a] = Completed(@)]
    /\ UNCHANGED <<missionStatus, decisions>>

-----------------------------------------------------------------------------
(* The scheduler *)

\* Fault: the reviewers at work do not count.
NeedsAll(ag, d) ==
    LET r == decisions[d]
        assigned == Cardinality(AssignedTo(ag, d))
        lacking == Required(r) - Cardinality(r.assessed)
    IN CASE r.stage = "CollectingIndependent" /\ lacking > 0 -> lacking
         [] r.stage = "ReadyToAdjudicate" /\ assigned = 0 -> 1
         [] OTHER -> 0

\* schedule_decision_work: how many agents a decision lacks, and who may serve.
Needs(ag, d) ==
    LET r == decisions[d]
        assigned == Cardinality(AssignedTo(ag, d))
        lacking == Required(r) - Cardinality(r.assessed) - assigned
    IN CASE r.stage = "CollectingIndependent" /\ lacking > 0 -> lacking
         [] r.stage = "ReadyToAdjudicate" /\ assigned = 0 -> 1
         [] OTHER -> 0

\* Fault: a reviewer reviews again.
MayServeAgain(a, d) == a # decisions[d].proposer

MayServe(a, d) ==
    LET r == decisions[d] IN
    /\ a # r.proposer
    /\ r.stage = "CollectingIndependent" => a \notin r.assessed

Given(job, s) == {a \in DOMAIN job : job[a] = s}
GivenAny(job, S) == {a \in DOMAIN job : job[a] \in S}

\* job gives each idle agent a subject or nothing.  A decision left short found
\* no agent or no slot.
StaffsDecisions(ag, budget, job) ==
    LET given == GivenAny(job, Decisions) IN
    /\ Cardinality(given) <= budget
    /\ \A d \in Decisions :
        LET new == Given(job, d) IN
        /\ \A a \in new : MayServe(a, d)
        /\ Cardinality(new) <= Needs(ag, d)
        /\ \/ Cardinality(new) = Needs(ag, d)
           \/ Cardinality(given) = budget
           \/ \A a \in DOMAIN job \ given : ~MayServe(a, d)

AwaitsSynthesis(r) ==
    /\ r.contributors # {} /\ r.contributors \subseteq r.answered
    /\ r.synthesizer = Nobody

\* schedule_question_contributors: contributors as long as there is a place and
\* an agent, even while a synthesizer is at work; otherwise, once all have
\* answered, one of them as the synthesizer.
StaffsQuestion(r, new, rest, left) ==
    LET places == MaxContributors - Cardinality(r.contributors)
        full == places <= 0 \/ rest \subseteq r.contributors IN
    \/ new = {} /\ (r.status # "Open" \/ left = 0)
    \/ /\ new = {} /\ full
       /\ AwaitsSynthesis(r) => rest \cap r.contributors = {}
    \/ /\ r.status = "Open" /\ full
       /\ AwaitsSynthesis(r)
       /\ Cardinality(new) = 1 /\ new \subseteq r.contributors
    \/ /\ r.status = "Open"
       /\ new # {} /\ new \cap r.contributors = {}
       /\ Cardinality(new) <= places
       /\ Cardinality(new) = places \/ left = 0 \/ rest \subseteq r.contributors

StaffsQuestions(qs, budget, job) ==
    LET given == GivenAny(job, Questions)
        rest == (DOMAIN job \ GivenAny(job, Decisions)) \ given
        left == budget - Cardinality(GivenAny(job, Decisions)) - Cardinality(given)
    IN
    /\ left >= 0
    /\ \A q \in Questions : StaffsQuestion(qs[q], Given(job, q), rest, left)

\* A new contributor, or the synthesizer, of a question.
Staffed(qs, job) ==
    [q \in Questions |->
        LET new == Given(job, q) IN
        IF new = {} THEN qs[q]
        ELSE IF new \subseteq qs[q].contributors
        THEN [qs[q] EXCEPT !.synthesizer = CHOOSE a \in new : TRUE]
        ELSE [qs[q] EXCEPT !.contributors = @ \cup new]]

\* What a tick may find to give out, after the tasks and their reviews have had
\* their share of the agents and of the reasoning slots.
Jobs(ag, qs) ==
    LET free == {a \in Agents : Available(ag[a])}
        used == Cardinality({a \in Agents : ag[a].subject # Nothing})
    IN UNION {{job \in [idle -> Raised \cup {Nothing}] :
                \E budget \in {0} \cup 1..(ReasoningSlots - used) :
                    /\ StaffsDecisions(ag, budget, job)
                    /\ StaffsQuestions(qs, budget, job)} : idle \in SUBSET free}

\* schedule_once_snapshot
Tick ==
    LET ag == Expired(agents)
        qs == Reconciled(ag, questions)
    IN
    /\ missionStatus = "Running"
    /\ \E job \in Jobs(ag, qs) :
        /\ agents' = [a \in Agents |-> IF a \in DOMAIN job /\ job[a] # Nothing
                                       THEN Assigned(ag[a], job[a]) ELSE ag[a]]
        /\ questions' = Staffed(qs, job)
    /\ UNCHANGED <<missionStatus, decisions>>

-----------------------------------------------------------------------------
(* The human holds the mission *)

Pause ==
    /\ missionStatus # "StoppedByHuman"
    /\ missionStatus' = "PausedByHuman"
    /\ UNCHANGED <<agents, decisions, questions>>

Resume ==
    /\ missionStatus' = "Running"
    /\ UNCHANGED <<agents, decisions, questions>>

\* stop_snapshot: the assignments end, but no question is reconciled.  An agent
\* that had left is Offline from then on, and may send heartbeats again.
Stop ==
    /\ missionStatus' = "StoppedByHuman"
    /\ agents' = [a \in Agents |->
            [Unassigned(agents[a]) EXCEPT !.status = IF @ = "Released" THEN "Present" ELSE @]]
    /\ UNCHANGED <<decisions, questions>>

-----------------------------------------------------------------------------
AgentStep(a) ==
    \/ Join(a) \/ Heartbeat(a) \/ Release(a)
    \/ \E d \in Decisions :
        \/ \E significance \in Significances : ProposeDecision(a, d, significance)
        \/ Assess(a, d)
        \/ \E asks \in BOOLEAN : Challenge(a, d, asks)
        \/ \E falsifies \in SUBSET Options : RecordExperiment(a, d, falsifies)
        \/ RequestAdjudication(a, d)
        \/ \E outcome \in Options : Adjudicate(a, d, outcome)
    \/ \E q \in Questions : Answer(a, q)

HumanStep ==
    \/ \E a \in Agents : Remove(a) \/ Restore(a)
    \/ \E q \in Questions : Ask(q)
    \/ Pause \/ Resume \/ Stop

Environment ==
    \/ \E a \in Agents : LeaseLapse(a) \/ AssignmentLapse(a) \/ OtherWorkEnds(a)

Next ==
    \/ \E a \in Agents : AgentStep(a)
    \/ HumanStep
    \/ Environment
    \/ Tick

Spec == Init /\ [][Next]_vars

-----------------------------------------------------------------------------
(* Properties *)

\* Every record is one the program can hold; in particular the rounds of a
\* debate without new evidence never exceed their limit, whatever reopens it.
TypeOK ==
    /\ missionStatus \in {"Running", "PausedByHuman", "StoppedByHuman"}
    /\ agents \in [Agents -> AgentRecords]
    /\ decisions \in [Decisions -> DecisionRecords]
    /\ questions \in [Questions -> QuestionRecords]

\* What MissionSnapshot::validate asks of the decisions and of the questions: a
\* handler or a tick that broke it could not save its snapshot, and would fail
\* for ever.
DecisionValid(r) ==
    /\ r.stage # "Absent" => r.proposer \in Agents
    /\ Formal(r) => r.proposer \notin r.assessed
    /\ r.stage = "Finalized" => r.outcome # Nothing

QuestionValid(r) ==
    /\ Cardinality(r.contributors) <= MaxContributors
    /\ r.answered \subseteq r.contributors
    /\ {r.assigned, r.synthesizer} \subseteq r.contributors \cup {Nobody}
    /\ r.status = "Answered" =>
        /\ r.synthesizer # Nobody
        /\ Cardinality(r.answered) >= Cardinality(r.contributors)

CouncilValid ==
    /\ \A d \in Decisions : DecisionValid(decisions[d])
    /\ \A q \in Questions : QuestionValid(questions[q])

\* The human never gets an answer that one of the selected contributors was not
\* heard for, however contributors joined, lapsed, left or were removed in
\* between: the handler compares two counts, not the two sets.
SynthesisFromAll ==
    \A q \in Questions :
        LET r == questions[q] IN
        r.status = "Answered" =>
            /\ r.contributors = r.answered
            /\ r.synthesizer \in r.answered

\* A final decision had all the independent assessments its significance asks
\* for, was not made by its proposer, and no recorded experiment contradicts it.
OutcomeJustified ==
    \A d \in Decisions :
        LET r == decisions[d] IN
        r.stage = "Finalized" =>
            /\ Cardinality(r.assessed) >= Required(r)
            /\ r.adjudicator \in Agents \ {r.proposer}
            /\ r.outcome \in Options \ r.falsified

\* A debate is opened by the last assessment that is needed, or else by a
\* recorded experiment; nothing else ends the independent first pass early.
DebateAfterReview ==
    \A d \in Decisions :
        decisions[d].stage \notin {"Absent", "CollectingIndependent"} =>
            \/ Cardinality(decisions[d].assessed) >= Required(decisions[d])
            \/ decisions[d].experimented

\* No agent reviews for nothing: however reviewers lapse and come back, the
\* assessments given and the agents at work on one never exceed what is needed.
NoSpareReviewers ==
    \A d \in Decisions :
        decisions[d].stage = "CollectingIndependent" =>
            Cardinality(decisions[d].assessed) + Cardinality(AssignedTo(agents, d))
                <= Required(decisions[d])

\* No agent whose leases run is kept by an assignment it can never fulfil
\* because the subject is settled or its part in it done.
NobodyIdlesOnSettled ==
    \A a \in Agents :
        agents[a].live /\ agents[a].lease =>
            /\ \A d \in Decisions : agents[a].subject = d =>
                LET r == decisions[d] IN
                /\ r.stage # "Finalized"
                /\ a # r.proposer
                /\ r.stage = "CollectingIndependent" => a \notin r.assessed
            /\ \A q \in Questions : agents[a].subject = q =>
                LET r == questions[q] IN
                /\ r.status = "Open" /\ a \in r.contributors
                /\ a \in r.answered => a = r.synthesizer

DecisionsKept ==
    \A d \in Decisions :
        /\ decisions[d].assessed \subseteq decisions'[d].assessed
        /\ decisions[d].falsified \subseteq decisions'[d].falsified
        /\ decisions[d].stage = "Finalized" => decisions'[d] = decisions[d]

QuestionsKept ==
    \A q \in Questions :
        /\ questions[q].answered \subseteq questions'[q].answered
        /\ questions[q].status = "Answered" => questions'[q] = questions[q]

\* What the workers wrote is never lost, not even with the worker that wrote
\* it, and a settled decision or an answered question stays as it is.
ContributionsKept == [][DecisionsKept /\ QuestionsKept]_vars

\* An agent that could serve a subject, if it waits.
MayTake(a, s) ==
    IF s \in Questions
    THEN LET r == questions[s] IN
         \/ a \in r.answered
         \/ a \notin r.contributors /\ Cardinality(r.answered) < MaxContributors
    ELSE a # decisions[s].proposer

Waits(s) ==
    IF s \in Questions THEN questions[s].status = "Open"
    ELSE decisions[s].stage = "ReadyToAdjudicate"

\* Whatever its contributors and its synthesizer did and wherever they went, an
\* open question, and a decision that is ready, is taken up again: if none of the
\* agents at work on it still has its leases, a tick that finds a slot and an agent
\* that may serve can assign it, if no other subject comes first.
NothingStranded ==
    LET ag == Expired(agents) IN
    \A s \in Subjects :
        /\ missionStatus = "Running"
        /\ Waits(s)
        /\ Serving(agents, s) = {}
        /\ \E a \in Agents : Available(agents[a]) /\ MayTake(a, s)
        /\ Cardinality({a \in Agents : ag[a].subject # Nothing}) < ReasoningSlots
        => \E job \in Jobs(ag, Reconciled(ag, questions)) : \E a \in DOMAIN job :
                job[a] \notin {Nothing, agents[a].subject}
=============================================================================
