------------------------ MODULE MissionCouncilProofs ------------------------
(***************************************************************************)
(* Theorems about MissionCouncil for every finite set of agents, every set *)
(* of decisions and questions and every limit.                             *)
(*                                                                         *)
(* The invariant has a part about each record alone, and a part that ties  *)
(* the assignments of the agents to the records they are about.  The first *)
(* says what a decision has gathered at its stage and that who is named by *)
(* a question is one of its contributors.  The second counts: a decision   *)
(* never has more assessments and assignments together than it needs, but  *)
(* for one agent more once it is fully assessed; without that, the         *)
(* adjudication could leave another agent on a final decision.             *)
(***************************************************************************)
EXTENDS MissionCouncil, FiniteSetTheorems, TLAPS

-----------------------------------------------------------------------------
(* The invariant *)

DecisionOk(r) ==
    /\ r.stage = "Absent" => r = NoDecision
    /\ r.stage # "Absent" => r.proposer \in Agents
    /\ r.stage = "CollectingIndependent" => r.rounds = 0
    /\ r.stage = "OpenDebate" => r.rounds < RoundLimit
    /\ Formal(r) => r.proposer \notin r.assessed
    /\ r.stage \notin {"Absent", "CollectingIndependent"} =>
            Cardinality(r.assessed) >= Required(r) \/ r.experimented
    /\ r.stage = "Finalized" =>
            /\ Cardinality(r.assessed) >= Required(r)
            /\ r.adjudicator \in Agents \ {r.proposer}
            /\ r.outcome \in Options \ r.falsified

QuestionOk(r) ==
    /\ r.status = "Absent" => r = NoQuestion
    /\ QuestionValid(r)

\* A holds a subject whose leases both run.
Holds(ag, a, s) == ag[a].subject = s /\ ag[a].live /\ ag[a].lease

DecisionWork(ag, ds) ==
    \A a \in Agents, d \in Decisions :
        ag[a].subject = d =>
            /\ ds[d].stage \notin {"Absent", "Finalized"}
            /\ a # ds[d].proposer
            /\ ds[d].stage = "CollectingIndependent" => a \notin ds[d].assessed

DecisionSlots(ag, ds) ==
    \A d \in Decisions :
        LET given == Cardinality(ds[d].assessed)
            assigned == Cardinality(AssignedTo(ag, d)) IN
        \/ given + assigned <= Required(ds[d])
        \/ /\ given >= Required(ds[d]) /\ assigned <= 1
           /\ ds[d].stage # "CollectingIndependent"

QuestionWork(ag, qs) ==
    \A a \in Agents, q \in Questions :
        Holds(ag, a, q) =>
            /\ qs[q].status = "Open" /\ a \in qs[q].contributors
            /\ a \in qs[q].answered => a = qs[q].synthesizer

DecisionInv ==
    /\ \A d \in Decisions : DecisionOk(decisions[d])
    /\ DecisionWork(agents, decisions)
    /\ DecisionSlots(agents, decisions)

QuestionInv ==
    /\ \A q \in Questions : QuestionOk(questions[q])
    /\ QuestionWork(agents, questions)

IInv == TypeOK /\ DecisionInv /\ QuestionInv

\* What an agent is assigned afterwards it was assigned before.
FewerDecisions(new, old) ==
    \A a \in Agents, d \in Decisions : new[a].subject = d => old[a].subject = d
FewerQuestions(new, old) ==
    \A a \in Agents, q \in Questions : Holds(new, a, q) => Holds(old, a, q)

-----------------------------------------------------------------------------
(* The operators *)

\* Sets of agents are finite, and smaller ones have no more members.
LEMMA Counting ==
    ASSUME NEW S \in SUBSET Agents
    PROVE  /\ IsFiniteSet(S) /\ Cardinality(S) \in Nat
           /\ \A T \in SUBSET S : Cardinality(T) <= Cardinality(S)
           /\ \A T \in SUBSET S : Cardinality(T) >= Cardinality(S) => T = S
<1>1. IsFiniteSet(S)
    BY FS_Subset, AgentsAssumption
<1>2. Cardinality(S) \in Nat
    BY <1>1, FS_CardinalityType
<1>3. ASSUME NEW T \in SUBSET S
      PROVE  /\ Cardinality(T) <= Cardinality(S)
             /\ Cardinality(T) >= Cardinality(S) => T = S
    <2>1. /\ IsFiniteSet(T) /\ Cardinality(T) <= Cardinality(S)
          /\ Cardinality(S) = Cardinality(T) => S = T
        BY <1>1, FS_Subset
    <2>2. Cardinality(T) \in Nat
        BY <2>1, FS_CardinalityType
    <2> QED
        BY <1>2, <2>1, <2>2
<1> QED
    BY <1>1, <1>2, <1>3

\* One agent more, and one less.
LEMMA CountingOne ==
    ASSUME NEW S \in SUBSET Agents, NEW a \in Agents
    PROVE  /\ Cardinality(S \cup {a}) = IF a \in S THEN Cardinality(S) ELSE Cardinality(S) + 1
           /\ Cardinality(S \ {a}) = IF a \in S THEN Cardinality(S) - 1 ELSE Cardinality(S)
<1> IsFiniteSet(S)
    BY Counting
<1> QED
    BY FS_AddElement, FS_RemoveElement

\* Two disjoint sets of agents.
LEMMA CountingBoth ==
    ASSUME NEW S \in SUBSET Agents, NEW T \in SUBSET Agents
    PROVE  Cardinality(S \cup T) <= Cardinality(S) + Cardinality(T)
<1>1. IsFiniteSet(S) /\ IsFiniteSet(T)
    BY Counting
<1>2. Cardinality(S \cup T) = Cardinality(S) + Cardinality(T) - Cardinality(S \cap T)
    BY <1>1, FS_Union
<1>3. /\ Cardinality(S) \in Nat /\ Cardinality(T) \in Nat
      /\ S \cap T \in SUBSET Agents /\ Cardinality(S \cap T) \in Nat
    BY Counting
<1> QED
    BY <1>2, <1>3

LEMMA RequiredCount ==
    ASSUME NEW r
    PROVE  Required(r) \in 1..3 /\ (~Formal(r) => Required(r) = 1)
BY DEF Required, Formal

\* What the helpers on the record of an agent return.
LEMMA AgentHelpers ==
    ASSUME NEW g \in AgentRecords
    PROVE  /\ Unassigned(g) \in AgentRecords /\ Unassigned(g).subject = Nothing
           /\ Unassigned(g).live = g.live /\ Unassigned(g).status = g.status
           /\ Completed(g) \in AgentRecords /\ Completed(g).subject = Nothing
           /\ Renewed(g) \in AgentRecords
           /\ Renewed(g).subject = g.subject /\ Renewed(g).lease = g.lease
           /\ \A s \in Subjects : /\ Assigned(g, s) \in AgentRecords
                                  /\ Assigned(g, s).subject = s
BY DEF AgentRecords, Unassigned, Completed, Renewed, Assigned

\* After the expiry pass an agent that has a subject has both leases.
LEMMA Expiry ==
    ASSUME NEW ag \in [Agents -> AgentRecords]
    PROVE  /\ Expired(ag) \in [Agents -> AgentRecords]
           /\ FewerDecisions(Expired(ag), ag)
           /\ FewerQuestions(Expired(ag), ag)
           /\ \A a \in Agents : Expired(ag)[a].subject # Nothing =>
                Expired(ag)[a].live /\ Expired(ag)[a].lease
<1> DEFINE new == Expired(ag)
<1>1. \A a \in Agents : /\ new[a] = IF Lapsed(ag[a]) THEN Unassigned(ag[a]) ELSE ag[a]
                        /\ new[a] \in AgentRecords
    BY AgentHelpers DEF Expired
<1>2. new \in [Agents -> AgentRecords]
    BY <1>1 DEF Expired
<1>3. ASSUME NEW a \in Agents
      PROVE  new[a].subject = Nothing \/ (new[a] = ag[a] /\ ag[a].live /\ ag[a].lease)
    BY <1>1, AgentHelpers DEF Lapsed
<1>4. Nothing \notin Decisions \cup Questions
    BY NothingAssumption
<1> HIDE DEF new
<1>5. FewerDecisions(new, ag) /\ FewerQuestions(new, ag)
    BY <1>3, <1>4 DEF FewerDecisions, FewerQuestions, Holds
<1> QED
    BY <1>2, <1>3, <1>5 DEF new

\* Fewer assignments keep what the invariant says of them.
LEMMA Lessened ==
    ASSUME NEW old, NEW new, FewerDecisions(new, old),
           NEW ds, DecisionWork(old, ds), DecisionSlots(old, ds),
           \A d \in Decisions : Cardinality(ds[d].assessed) \in Nat
    PROVE  DecisionWork(new, ds) /\ DecisionSlots(new, ds)
<1>1. DecisionWork(new, ds)
    BY DEF DecisionWork, FewerDecisions
<1>2. ASSUME NEW d \in Decisions
      PROVE  /\ Cardinality(AssignedTo(new, d)) \in Nat
             /\ Cardinality(AssignedTo(old, d)) \in Nat
             /\ Cardinality(AssignedTo(new, d)) <= Cardinality(AssignedTo(old, d))
    <2>1. AssignedTo(old, d) \in SUBSET Agents /\ AssignedTo(new, d) \in SUBSET AssignedTo(old, d)
        BY DEF AssignedTo, FewerDecisions
    <2> QED
        BY <2>1, Counting
<1>3. DecisionSlots(new, ds)
    BY <1>2, RequiredCount DEF DecisionSlots
<1> QED
    BY <1>1, <1>3

LEMMA LessenedQuestions ==
    ASSUME NEW old, NEW new, FewerQuestions(new, old), NEW qs, QuestionWork(old, qs)
    PROVE  QuestionWork(new, qs)
BY DEF FewerQuestions, QuestionWork

\* Reconciliation keeps what was written and whoever is still at work.
LEMMA Reconciliation ==
    ASSUME NEW ag, NEW qs \in [Questions -> QuestionRecords],
           \A q \in Questions : QuestionOk(qs[q]), QuestionWork(ag, qs)
    PROVE  /\ Reconciled(ag, qs) \in [Questions -> QuestionRecords]
           /\ \A q \in Questions :
                /\ QuestionOk(Reconciled(ag, qs)[q])
                /\ qs[q].answered \subseteq Reconciled(ag, qs)[q].answered
                /\ qs[q].status = "Answered" => Reconciled(ag, qs)[q] = qs[q]
                /\ Reconciled(ag, qs)[q].status = qs[q].status
           /\ QuestionWork(ag, Reconciled(ag, qs))
<1> DEFINE new == Reconciled(ag, qs)
<1>1. ASSUME NEW q \in Questions, qs[q].status # "Open"
      PROVE  new[q] = qs[q]
    BY <1>1 DEF Reconciled
<1>2. ASSUME NEW q \in Questions, qs[q].status = "Open"
      PROVE  /\ new[q] \in QuestionRecords
             /\ new[q].status = "Open" /\ new[q].answered = qs[q].answered
             /\ new[q].contributors = qs[q].contributors
                                        \cap (qs[q].answered \cup Serving(ag, q))
             /\ new[q].assigned \in {qs[q].assigned, Nobody}
             /\ new[q].assigned \in qs[q].answered \cup Serving(ag, q) \cup {Nobody}
             /\ new[q].synthesizer \in {qs[q].synthesizer, Nobody}
             /\ new[q].synthesizer \in Serving(ag, q) \cup {Nobody}
             /\ qs[q].synthesizer \in Serving(ag, q) => new[q].synthesizer = qs[q].synthesizer
    BY <1>2 DEF Reconciled, QuestionRecords
<1>3. new \in [Questions -> QuestionRecords]
    <2>1. \A q \in Questions : new[q] \in QuestionRecords
        BY <1>1, <1>2
    <2> QED
        BY <2>1 DEF Reconciled
<1>4. ASSUME NEW q \in Questions
      PROVE  QuestionOk(new[q])
    <2>1. CASE qs[q].status # "Open"
        BY <2>1, <1>1
    <2>2. CASE qs[q].status = "Open"
        <3>1. QuestionValid(qs[q])
            BY DEF QuestionOk
        <3>2. /\ qs[q].contributors \in SUBSET Agents
              /\ new[q].contributors \in SUBSET qs[q].contributors
            BY <1>2, <2>2 DEF QuestionRecords
        <3>3. Cardinality(new[q].contributors) <= MaxContributors
            <4>1. /\ Cardinality(new[q].contributors) <= Cardinality(qs[q].contributors)
                  /\ Cardinality(qs[q].contributors) \in Nat
                BY <3>2, Counting
            <4>2. Cardinality(new[q].contributors) \in Nat
                BY <3>2, Counting
            <4>3. Cardinality(qs[q].contributors) <= MaxContributors
                BY <3>1 DEF QuestionValid
            <4> QED
                BY <4>1, <4>2, <4>3, LimitAssumption
        <3>4. /\ new[q].answered \subseteq new[q].contributors
              /\ {new[q].assigned, new[q].synthesizer}
                    \subseteq new[q].contributors \cup {Nobody}
            BY <2>2, <1>2, <3>1 DEF QuestionValid
        <3> QED
            BY <2>2, <1>2, <3>3, <3>4 DEF QuestionOk, QuestionValid
    <2> QED
        BY <2>1, <2>2
<1>5. QuestionWork(ag, new)
    <2> SUFFICES ASSUME NEW a \in Agents, NEW q \in Questions, Holds(ag, a, q)
                 PROVE  /\ new[q].status = "Open" /\ a \in new[q].contributors
                        /\ a \in new[q].answered => a = new[q].synthesizer
        BY DEF QuestionWork
    <2>1. /\ qs[q].status = "Open" /\ a \in qs[q].contributors
          /\ a \in qs[q].answered => a = qs[q].synthesizer
        BY DEF QuestionWork
    <2>2. a \in Serving(ag, q)
        BY DEF Serving, AssignedTo, Lapsed, Holds
    <2> QED
        BY <2>1, <2>2, <1>2
<1> QED
    BY <1>1, <1>2, <1>3, <1>4, <1>5

-----------------------------------------------------------------------------
(* Steps that leave the decisions, or the questions, as they are *)

Keeps == IInv' /\ DecisionsKept /\ QuestionsKept

LEMMA SameDecisions ==
    ASSUME IInv, UNCHANGED decisions, FewerDecisions(agents', agents)
    PROVE  DecisionInv' /\ DecisionsKept
<1>1. \A d \in Decisions : Cardinality(decisions[d].assessed) \in Nat
    <2> SUFFICES ASSUME NEW d \in Decisions
                 PROVE  decisions[d].assessed \in SUBSET Agents
        BY Counting
    <2> QED
        BY DEF IInv, TypeOK, DecisionRecords
<1>2. /\ \A d \in Decisions : DecisionOk(decisions[d])
      /\ DecisionWork(agents, decisions) /\ DecisionSlots(agents, decisions)
    BY DEF IInv, DecisionInv
<1>3. DecisionWork(agents', decisions) /\ DecisionSlots(agents', decisions)
    BY <1>1, <1>2, Lessened
<1> QED
    BY <1>2, <1>3 DEF DecisionInv, DecisionsKept

LEMMA SameQuestions ==
    ASSUME IInv, UNCHANGED questions, FewerQuestions(agents', agents)
    PROVE  QuestionInv' /\ QuestionsKept
<1>1. /\ \A q \in Questions : QuestionOk(questions[q])
      /\ QuestionWork(agents, questions)
    BY DEF IInv, QuestionInv
<1>2. QuestionWork(agents', questions)
    BY <1>1, LessenedQuestions
<1> QED
    BY <1>1, <1>2 DEF QuestionInv, QuestionsKept

LEMMA ReconciledQuestions ==
    ASSUME IInv, NEW ag, FewerQuestions(ag, agents), FewerQuestions(agents', ag),
           questions' = Reconciled(ag, questions)
    PROVE  /\ questions' \in [Questions -> QuestionRecords]
           /\ QuestionInv' /\ QuestionsKept
<1>1. /\ questions \in [Questions -> QuestionRecords]
      /\ \A q \in Questions : QuestionOk(questions[q])
      /\ QuestionWork(agents, questions)
    BY DEF IInv, TypeOK, QuestionInv
<1>2. QuestionWork(ag, questions)
    BY <1>1, LessenedQuestions
<1>3. /\ questions' \in [Questions -> QuestionRecords]
      /\ \A q \in Questions :
            /\ QuestionOk(questions'[q])
            /\ questions[q].answered \subseteq questions'[q].answered
            /\ questions[q].status = "Answered" => questions'[q] = questions[q]
      /\ QuestionWork(ag, questions')
    BY <1>1, <1>2, Reconciliation
<1>4. QuestionWork(agents', questions')
    BY <1>3, LessenedQuestions
<1> QED
    BY <1>3, <1>4 DEF QuestionInv, QuestionsKept

-----------------------------------------------------------------------------
(* Presence of the workers *)

\* Join, and a heartbeat that reclaims.
LEMMA ReclaimKeeps ==
    ASSUME IInv, NEW a \in Agents,
           agents' = [Expired(agents) EXCEPT ![a] = Renewed(@)],
           questions' = Reconciled(Expired(agents), questions),
           UNCHANGED <<missionStatus, decisions>>
    PROVE  Keeps
<1> DEFINE ag == Expired(agents)
<1>1. agents \in [Agents -> AgentRecords]
    BY DEF IInv, TypeOK
<1>2. /\ ag \in [Agents -> AgentRecords]
      /\ FewerDecisions(ag, agents) /\ FewerQuestions(ag, agents)
      /\ \A b \in Agents : ag[b].subject # Nothing => ag[b].live /\ ag[b].lease
    BY <1>1, Expiry
<1> HIDE DEF ag
<1>3. /\ Renewed(ag[a]) \in AgentRecords
      /\ Renewed(ag[a]).subject = ag[a].subject /\ Renewed(ag[a]).lease = ag[a].lease
    BY <1>2, AgentHelpers
<1>4. /\ agents' \in [Agents -> AgentRecords]
      /\ \A b \in Agents : agents'[b].subject = ag[b].subject
    BY <1>2, <1>3 DEF ag
<1>5. FewerDecisions(agents', agents) /\ FewerQuestions(agents', ag)
    BY <1>2, <1>4, NothingAssumption DEF FewerDecisions, FewerQuestions, Holds
<1>6. questions' = Reconciled(ag, questions)
    BY DEF ag
<1>7. DecisionInv' /\ DecisionsKept
    BY <1>5, SameDecisions
<1>8. /\ questions' \in [Questions -> QuestionRecords]
      /\ QuestionInv' /\ QuestionsKept
    BY <1>2, <1>5, <1>6, ReconciledQuestions
<1>9. TypeOK'
    BY <1>4, <1>8 DEF IInv, TypeOK
<1> QED
    BY <1>7, <1>8, <1>9 DEF IInv, Keeps

\* A step of the agents alone, by which nobody gets an assignment back.
LEMMA AgentsOnly ==
    ASSUME IInv, agents' \in [Agents -> AgentRecords],
           missionStatus' \in {"Running", "PausedByHuman", "StoppedByHuman"},
           UNCHANGED <<decisions, questions>>,
           \A b \in Agents : \/ agents'[b].subject = Nothing
                             \/ /\ agents'[b].subject = agents[b].subject
                                /\ agents'[b].live /\ agents'[b].lease
                                        => agents[b].live /\ agents[b].lease
    PROVE  Keeps
<1>1. FewerDecisions(agents', agents) /\ FewerQuestions(agents', agents)
    BY NothingAssumption DEF FewerDecisions, FewerQuestions, Holds
<1>2. DecisionInv' /\ DecisionsKept /\ QuestionInv' /\ QuestionsKept
    BY <1>1, SameDecisions, SameQuestions
<1> QED
    BY <1>2 DEF IInv, TypeOK, Keeps

LEMMA RenewKeeps ==
    ASSUME IInv, NEW a \in Agents, HeartbeatRenews(a)
    PROVE  Keeps
<1>1. agents \in [Agents -> AgentRecords] /\ agents[a] \in AgentRecords
    BY DEF IInv, TypeOK
<1>2. agents' \in [Agents -> AgentRecords]
    BY <1>1, AgentHelpers DEF HeartbeatRenews
<1>3. ASSUME NEW b \in Agents
      PROVE  \/ agents'[b].subject = Nothing
             \/ /\ agents'[b].subject = agents[b].subject
                /\ agents[b].live /\ agents[b].lease
    <2>1. agents'[b].subject = agents[b].subject
        BY <1>1, AgentHelpers DEF HeartbeatRenews
    <2>2. ~Lapsed(agents[b])
        BY DEF HeartbeatRenews
    <2> QED
        BY <2>1, <2>2 DEF Lapsed
<1> QED
    BY <1>2, <1>3, AgentsOnly DEF HeartbeatRenews, IInv, TypeOK

LEMMA ReleaseKeeps ==
    ASSUME IInv, NEW a \in Agents, Release(a)
    PROVE  Keeps
<1> DEFINE ag == [agents EXCEPT ![a] = [Unassigned(@) EXCEPT !.status = "Released",
                                                             !.live = FALSE]]
<1>1. agents \in [Agents -> AgentRecords] /\ agents[a] \in AgentRecords
    BY DEF IInv, TypeOK
<1>2. ASSUME NEW g \in AgentRecords
      PROVE  /\ [g EXCEPT !.status = "Released", !.live = FALSE] \in AgentRecords
             /\ [g EXCEPT !.status = "Released", !.live = FALSE].subject = g.subject
    BY DEF AgentRecords
<1>3. Unassigned(agents[a]) \in AgentRecords /\ Unassigned(agents[a]).subject = Nothing
    BY <1>1, AgentHelpers
<1>4. /\ ag \in [Agents -> AgentRecords]
      /\ \A b \in Agents : ag[b].subject = Nothing \/ ag[b] = agents[b]
    BY <1>1, <1>2, <1>3
<1>5. /\ agents' = ag /\ questions' = Reconciled(ag, questions)
      /\ UNCHANGED <<missionStatus, decisions>>
    BY DEF Release
<1> HIDE DEF ag
<1>6. /\ FewerDecisions(ag, agents) /\ FewerQuestions(ag, agents)
      /\ FewerQuestions(ag, ag)
    BY <1>4, NothingAssumption DEF FewerDecisions, FewerQuestions, Holds
<1>7. DecisionInv' /\ DecisionsKept
    BY <1>5, <1>6, SameDecisions
<1>8. /\ questions' \in [Questions -> QuestionRecords]
      /\ QuestionInv' /\ QuestionsKept
    BY <1>5, <1>6, ReconciledQuestions
<1>9. TypeOK'
    BY <1>4, <1>5, <1>8 DEF IInv, TypeOK
<1> QED
    BY <1>7, <1>8, <1>9 DEF IInv, Keeps

\* The clock, the end of other work, and the human's hold of the mission.
LEMMA ClockKeeps ==
    ASSUME IInv, NEW a \in Agents,
           LeaseLapse(a) \/ AssignmentLapse(a) \/ OtherWorkEnds(a) \/ Restore(a)
    PROVE  Keeps
<1>1. agents \in [Agents -> AgentRecords] /\ agents[a] \in AgentRecords
    BY DEF IInv, TypeOK
<1>2. PICK g \in {[agents[a] EXCEPT !.live = FALSE], [agents[a] EXCEPT !.lease = FALSE],
                  Completed(agents[a]), [agents[a] EXCEPT !.status = "Present"]} :
            agents' = [agents EXCEPT ![a] = g]
    BY <1>1 DEF LeaseLapse, AssignmentLapse, OtherWorkEnds, Restore
<1>3. /\ g \in AgentRecords
      /\ \/ g.subject = Nothing
         \/ /\ g.subject = agents[a].subject
            /\ g.live /\ g.lease => agents[a].live /\ agents[a].lease
    <2>1. CASE g = Completed(agents[a])
        BY <1>1, <2>1, AgentHelpers
    <2>2. CASE g # Completed(agents[a])
        BY <1>1, <1>2, <2>2 DEF AgentRecords
    <2> QED
        BY <2>1, <2>2
<1>4. UNCHANGED <<missionStatus, decisions, questions>>
    BY DEF LeaseLapse, AssignmentLapse, OtherWorkEnds, Restore
<1>5. /\ agents' \in [Agents -> AgentRecords]
      /\ \A b \in Agents : agents'[b] = IF b = a THEN g ELSE agents[b]
    BY <1>1, <1>2, <1>3
<1>6. missionStatus' \in {"Running", "PausedByHuman", "StoppedByHuman"}
    BY <1>4 DEF IInv, TypeOK
<1>7. ASSUME NEW b \in Agents
      PROVE  \/ agents'[b].subject = Nothing
             \/ /\ agents'[b].subject = agents[b].subject
                /\ agents'[b].live /\ agents'[b].lease
                        => agents[b].live /\ agents[b].lease
    BY <1>3, <1>5
<1> QED
    BY <1>4, <1>5, <1>6, <1>7, AgentsOnly

LEMMA HoldKeeps ==
    ASSUME IInv, Pause \/ Resume \/ Stop \/ UNCHANGED vars
    PROVE  Keeps
<1>1. agents \in [Agents -> AgentRecords]
    BY DEF IInv, TypeOK
<1>2. CASE Pause \/ Resume \/ UNCHANGED vars
    <2>1. /\ UNCHANGED <<agents, decisions, questions>>
          /\ missionStatus' \in {"Running", "PausedByHuman", "StoppedByHuman"}
        BY <1>2 DEF Pause, Resume, vars, IInv, TypeOK
    <2> QED
        BY <1>1, <2>1, AgentsOnly
<1>3. CASE Stop
    <2>1. ASSUME NEW b \in Agents
          PROVE  agents'[b] \in AgentRecords /\ agents'[b].subject = Nothing
        <3>1. /\ Unassigned(agents[b]) \in AgentRecords
              /\ Unassigned(agents[b]).subject = Nothing
            BY <1>1, AgentHelpers
        <3> QED
            BY <1>3, <3>1 DEF Stop, AgentRecords
    <2>2. agents' \in [Agents -> AgentRecords]
        BY <1>3, <2>1 DEF Stop
    <2> QED
        BY <1>3, <2>1, <2>2, AgentsOnly DEF Stop
<1> QED
    BY <1>2, <1>3

\* What the removal of an agent leaves of a question.
LEMMA RecordWithout ==
    ASSUME NEW r \in QuestionRecords, NEW a \in Agents
    PROVE  /\ Without(r, a) \in QuestionRecords
           /\ Without(r, a).status = r.status
           /\ Without(r, a).answered = r.answered
           /\ Without(r, a).contributors = IF a \in r.answered THEN r.contributors
                                           ELSE r.contributors \ {a}
           /\ Without(r, a).assigned = IF r.assigned = a THEN Nobody ELSE r.assigned
           /\ Without(r, a).synthesizer = IF r.synthesizer = a THEN Nobody ELSE r.synthesizer
<1> DEFINE x == IF r.assigned = a THEN Nobody ELSE r.assigned
           y == IF r.synthesizer = a THEN Nobody ELSE r.synthesizer
           z == IF a \in r.answered THEN r.contributors ELSE r.contributors \ {a}
<1>1. Without(r, a) = [r EXCEPT !.assigned = x, !.synthesizer = y, !.contributors = z]
    BY DEF Without
<1>2. x \in Agents \cup {Nobody} /\ y \in Agents \cup {Nobody} /\ z \in SUBSET Agents
    BY DEF QuestionRecords
<1> HIDE DEF x, y, z
<1>3. /\ Without(r, a) \in QuestionRecords
      /\ Without(r, a).status = r.status /\ Without(r, a).answered = r.answered
      /\ Without(r, a).assigned = x /\ Without(r, a).synthesizer = y
      /\ Without(r, a).contributors = z
    BY <1>1, <1>2 DEF QuestionRecords
<1> QED
    BY <1>3 DEF x, y, z

LEMMA RemoveKeeps ==
    ASSUME IInv, NEW a \in Agents, Remove(a)
    PROVE  Keeps
<1>1. /\ agents \in [Agents -> AgentRecords]
      /\ questions \in [Questions -> QuestionRecords]
      /\ \A q \in Questions : QuestionOk(questions[q])
      /\ QuestionWork(agents, questions)
    BY DEF IInv, TypeOK, QuestionInv
<1>2. /\ [NewAgent EXCEPT !.status = "Removed"] \in AgentRecords
      /\ [NewAgent EXCEPT !.status = "Removed"].subject = Nothing
    BY DEF NewAgent, AgentRecords
<1>3. /\ agents' \in [Agents -> AgentRecords]
      /\ agents'[a].subject = Nothing
      /\ \A b \in Agents : b # a => agents'[b] = agents[b]
      /\ UNCHANGED <<missionStatus, decisions>>
    BY <1>1, <1>2 DEF Remove
<1>4. FewerDecisions(agents', agents) /\ FewerQuestions(agents', agents)
    BY <1>3, NothingAssumption DEF FewerDecisions, FewerQuestions, Holds
<1>5. DecisionInv' /\ DecisionsKept
    BY <1>3, <1>4, SameDecisions
<1>6. /\ questions' \in [Questions -> QuestionRecords]
      /\ QuestionInv' /\ QuestionsKept
    <2>1. CASE agents[a].status = "Removed"
        BY <1>1, <1>4, <2>1, SameQuestions DEF Remove
    <2>2. CASE agents[a].status # "Removed"
        <3>1. /\ questions' = [q \in Questions |-> IF questions[q].status = "Open"
                                  THEN Without(questions[q], a) ELSE questions[q]]
            BY <2>2 DEF Remove
        <3>2. ASSUME NEW q \in Questions, questions[q].status # "Open"
              PROVE  questions'[q] = questions[q]
            BY <3>1, <3>2
        <3>3. ASSUME NEW q \in Questions, questions[q].status = "Open"
              PROVE  /\ questions'[q] \in QuestionRecords
                     /\ questions'[q].status = "Open"
                     /\ questions'[q].answered = questions[q].answered
                     /\ questions'[q].contributors = IF a \in questions[q].answered
                            THEN questions[q].contributors
                            ELSE questions[q].contributors \ {a}
                     /\ questions'[q].assigned = IF questions[q].assigned = a
                            THEN Nobody ELSE questions[q].assigned
                     /\ questions'[q].synthesizer = IF questions[q].synthesizer = a
                            THEN Nobody ELSE questions[q].synthesizer
            <4>1. questions'[q] = Without(questions[q], a) /\ questions[q] \in QuestionRecords
                BY <1>1, <3>1, <3>3
            <4> QED
                BY <4>1, <3>3, RecordWithout
        <3>4. questions' \in [Questions -> QuestionRecords]
            <4>1. \A q \in Questions : questions'[q] \in QuestionRecords
                BY <1>1, <3>2, <3>3
            <4> QED
                BY <3>1, <4>1
        <3>5. ASSUME NEW q \in Questions
              PROVE  QuestionOk(questions'[q])
            <4>1. CASE questions[q].status # "Open"
                BY <1>1, <3>2, <4>1
            <4>2. CASE questions[q].status = "Open"
                <5>1. QuestionValid(questions[q])
                    BY <1>1 DEF QuestionOk
                <5>2. /\ questions[q].contributors \in SUBSET Agents
                      /\ questions'[q].contributors \in SUBSET questions[q].contributors
                    BY <1>1, <3>3, <4>2 DEF QuestionRecords
                <5>3. /\ Cardinality(questions'[q].contributors)
                            <= Cardinality(questions[q].contributors)
                      /\ Cardinality(questions[q].contributors) \in Nat
                      /\ Cardinality(questions'[q].contributors) \in Nat
                    <6>1. questions'[q].contributors \in SUBSET Agents
                        BY <5>2
                    <6> QED
                        BY <5>2, <6>1, Counting
                <5>4. Cardinality(questions'[q].contributors) <= MaxContributors
                    BY <5>1, <5>3, LimitAssumption DEF QuestionValid
                <5>5. /\ questions'[q].answered \subseteq questions'[q].contributors
                      /\ {questions'[q].assigned, questions'[q].synthesizer}
                            \subseteq questions'[q].contributors \cup {Nobody}
                    BY <3>3, <4>2, <5>1 DEF QuestionValid
                <5> QED
                    BY <3>3, <4>2, <5>4, <5>5 DEF QuestionOk, QuestionValid
            <4> QED
                BY <4>1, <4>2
        <3>6. QuestionWork(agents', questions')
            <4> SUFFICES ASSUME NEW b \in Agents, NEW q \in Questions, Holds(agents', b, q)
                         PROVE  /\ questions'[q].status = "Open"
                                /\ b \in questions'[q].contributors
                                /\ b \in questions'[q].answered => b = questions'[q].synthesizer
                BY DEF QuestionWork
            <4>1. b # a
                BY <1>3, NothingAssumption DEF Holds
            <4>2. Holds(agents, b, q)
                BY <1>4 DEF FewerQuestions
            <4>3. /\ questions[q].status = "Open" /\ b \in questions[q].contributors
                  /\ b \in questions[q].answered => b = questions[q].synthesizer
                BY <1>1, <4>2 DEF QuestionWork
            <4> QED
                BY <3>3, <4>1, <4>3
        <3>7. QuestionsKept
            BY <3>2, <3>3 DEF QuestionsKept
        <3> QED
            BY <3>4, <3>5, <3>6, <3>7 DEF QuestionInv
    <2> QED
        BY <2>1, <2>2
<1>7. TypeOK'
    BY <1>3, <1>6 DEF IInv, TypeOK
<1> QED
    BY <1>5, <1>6, <1>7 DEF IInv, Keeps

-----------------------------------------------------------------------------
(* Decisions *)

\* A step that changes one decision, and takes at most its own assignment from
\* an agent.
LEMMA DecisionStep ==
    ASSUME IInv, NEW d \in Decisions, NEW r \in DecisionRecords,
           decisions' = [decisions EXCEPT ![d] = r],
           agents' \in [Agents -> AgentRecords], UNCHANGED <<missionStatus, questions>>,
           FewerDecisions(agents', agents), FewerQuestions(agents', agents),
           DecisionOk(r),
           \A b \in AssignedTo(agents', d) :
                /\ r.stage \notin {"Absent", "Finalized"} /\ b # r.proposer
                /\ r.stage = "CollectingIndependent" => b \notin r.assessed,
           \/ Cardinality(r.assessed) + Cardinality(AssignedTo(agents', d)) <= Required(r)
           \/ /\ Cardinality(r.assessed) >= Required(r)
              /\ Cardinality(AssignedTo(agents', d)) <= 1
              /\ r.stage # "CollectingIndependent",
           decisions[d].stage # "Finalized",
           decisions[d].assessed \subseteq r.assessed,
           decisions[d].falsified \subseteq r.falsified
    PROVE  Keeps
<1>1. /\ decisions' \in [Decisions -> DecisionRecords]
      /\ decisions \in [Decisions -> DecisionRecords]
      /\ \A e \in Decisions : decisions'[e] = IF e = d THEN r ELSE decisions[e]
    BY DEF IInv, TypeOK
<1>2. /\ \A e \in Decisions : DecisionOk(decisions[e])
      /\ DecisionWork(agents, decisions) /\ DecisionSlots(agents, decisions)
    BY DEF IInv, DecisionInv
<1>3. \A e \in Decisions : Cardinality(decisions[e].assessed) \in Nat
    <2> SUFFICES ASSUME NEW e \in Decisions
                 PROVE  decisions[e].assessed \in SUBSET Agents
        BY Counting
    <2> QED
        BY <1>1 DEF DecisionRecords
<1>4. DecisionWork(agents', decisions) /\ DecisionSlots(agents', decisions)
    BY <1>2, <1>3, Lessened
<1>5. DecisionWork(agents', decisions')
    <2> SUFFICES ASSUME NEW a \in Agents, NEW e \in Decisions, agents'[a].subject = e
                 PROVE  /\ decisions'[e].stage \notin {"Absent", "Finalized"}
                        /\ a # decisions'[e].proposer
                        /\ decisions'[e].stage = "CollectingIndependent"
                                => a \notin decisions'[e].assessed
        BY DEF DecisionWork
    <2>1. CASE e = d
        <3>1. a \in AssignedTo(agents', d)
            BY <2>1 DEF AssignedTo
        <3> QED
            BY <1>1, <2>1, <3>1
    <2>2. CASE e # d
        BY <1>1, <1>4, <2>2 DEF DecisionWork
    <2> QED
        BY <2>1, <2>2
<1>6. DecisionSlots(agents', decisions')
    <2> SUFFICES ASSUME NEW e \in Decisions
                 PROVE  LET given == Cardinality(decisions'[e].assessed)
                            assigned == Cardinality(AssignedTo(agents', e)) IN
                        \/ given + assigned <= Required(decisions'[e])
                        \/ /\ given >= Required(decisions'[e]) /\ assigned <= 1
                           /\ decisions'[e].stage # "CollectingIndependent"
        BY DEF DecisionSlots
    <2>1. CASE e = d
        BY <1>1, <2>1
    <2>2. CASE e # d
        <3>1. decisions'[e] = decisions[e]
            BY <1>1, <2>2
        <3> QED
            BY <1>4, <3>1 DEF DecisionSlots
    <2> QED
        BY <2>1, <2>2
<1>7. DecisionInv'
    <2>1. \A e \in Decisions : DecisionOk(decisions'[e])
        BY <1>1, <1>2
    <2> QED
        BY <1>5, <1>6, <2>1 DEF DecisionInv
<1>8. DecisionsKept
    BY <1>1 DEF DecisionsKept
<1>9. QuestionInv' /\ QuestionsKept
    BY SameQuestions
<1>10. TypeOK'
    BY <1>1 DEF IInv, TypeOK
<1> QED
    BY <1>7, <1>8, <1>9, <1>10 DEF IInv, Keeps

\* What the invariant says of one decision.
LEMMA OneDecision ==
    ASSUME IInv, NEW d \in Decisions
    PROVE  /\ decisions[d] \in DecisionRecords /\ DecisionOk(decisions[d])
           /\ decisions[d].assessed \in SUBSET Agents
           /\ Cardinality(decisions[d].assessed) \in Nat
           /\ AssignedTo(agents, d) \in SUBSET Agents
           /\ Cardinality(AssignedTo(agents, d)) \in Nat
           /\ \A b \in AssignedTo(agents, d) :
                /\ decisions[d].stage \notin {"Absent", "Finalized"}
                /\ b # decisions[d].proposer
                /\ decisions[d].stage = "CollectingIndependent"
                        => b \notin decisions[d].assessed
           /\ \/ Cardinality(decisions[d].assessed) + Cardinality(AssignedTo(agents, d))
                    <= Required(decisions[d])
              \/ /\ Cardinality(decisions[d].assessed) >= Required(decisions[d])
                 /\ Cardinality(AssignedTo(agents, d)) <= 1
                 /\ decisions[d].stage # "CollectingIndependent"
<1>1. decisions[d] \in DecisionRecords /\ DecisionOk(decisions[d])
    BY DEF IInv, TypeOK, DecisionInv
<1>2. decisions[d].assessed \in SUBSET Agents /\ AssignedTo(agents, d) \in SUBSET Agents
    BY <1>1 DEF DecisionRecords, AssignedTo
<1>3. /\ Cardinality(decisions[d].assessed) \in Nat
      /\ Cardinality(AssignedTo(agents, d)) \in Nat
    BY <1>2, Counting
<1>4. \A b \in AssignedTo(agents, d) :
            /\ decisions[d].stage \notin {"Absent", "Finalized"}
            /\ b # decisions[d].proposer
            /\ decisions[d].stage = "CollectingIndependent" => b \notin decisions[d].assessed
    BY DEF IInv, DecisionInv, DecisionWork, AssignedTo
<1>5. \/ Cardinality(decisions[d].assessed) + Cardinality(AssignedTo(agents, d))
            <= Required(decisions[d])
      \/ /\ Cardinality(decisions[d].assessed) >= Required(decisions[d])
         /\ Cardinality(AssignedTo(agents, d)) <= 1
         /\ decisions[d].stage # "CollectingIndependent"
    BY DEF IInv, DecisionInv, DecisionSlots
<1> QED
    BY <1>1, <1>2, <1>3, <1>4, <1>5

\* A step that leaves the agents, and the assessments, as they are.
LEMMA DecisionAlone ==
    ASSUME IInv, NEW d \in Decisions, NEW r \in DecisionRecords,
           decisions' = [decisions EXCEPT ![d] = r],
           UNCHANGED <<missionStatus, agents, questions>>, DecisionOk(r),
           decisions[d].stage \notin {"Absent", "Finalized"},
           r.stage \notin {"Absent", "CollectingIndependent", "Finalized"},
           r.proposer = decisions[d].proposer, r.significance = decisions[d].significance,
           r.assessed = decisions[d].assessed, decisions[d].falsified \subseteq r.falsified
    PROVE  Keeps
<1>1. Required(r) = Required(decisions[d])
    BY DEF Required
<1>2. FewerDecisions(agents', agents) /\ FewerQuestions(agents', agents)
    BY DEF FewerDecisions, FewerQuestions
<1>3. agents' \in [Agents -> AgentRecords]
    BY DEF IInv, TypeOK
<1> QED
    BY <1>1, <1>2, <1>3, OneDecision, DecisionStep

LEMMA ProposeKeeps ==
    ASSUME IInv, NEW a \in Agents, NEW d \in Decisions, NEW significance \in Significances,
           ProposeDecision(a, d, significance)
    PROVE  Keeps
<1> DEFINE r == [NoDecision EXCEPT !.stage = "CollectingIndependent", !.proposer = a,
                                   !.significance = significance]
<1>1. decisions[d] = NoDecision
    BY OneDecision DEF ProposeDecision, DecisionOk
<1>2. /\ r \in DecisionRecords /\ r.stage = "CollectingIndependent" /\ r.proposer = a
      /\ r.assessed = {} /\ r.falsified = {} /\ r.rounds = 0
    <2>1. 0 \in 0..RoundLimit
        BY LimitAssumption
    <2>2. /\ NoDecision \in DecisionRecords
          /\ NoDecision.assessed = {} /\ NoDecision.falsified = {} /\ NoDecision.rounds = 0
        BY <2>1 DEF NoDecision, DecisionRecords, Stages
    <2> QED
        BY <2>2 DEF DecisionRecords, Stages
<1>3. /\ decisions' = [decisions EXCEPT ![d] = r]
      /\ UNCHANGED <<missionStatus, agents, questions>>
    BY <1>1 DEF ProposeDecision
<1> HIDE DEF r
<1>4. DecisionOk(r)
    BY <1>2 DEF DecisionOk
<1>5. AssignedTo(agents', d) = {}
    <2>1. AssignedTo(agents, d) = {}
        BY OneDecision DEF ProposeDecision
    <2> QED
        BY <1>3, <2>1
<1>6. Cardinality({}) = 0 /\ Required(r) >= 1
    BY FS_EmptySet, RequiredCount
<1>7. FewerDecisions(agents', agents) /\ FewerQuestions(agents', agents)
    BY <1>3 DEF FewerDecisions, FewerQuestions
<1>8. agents' \in [Agents -> AgentRecords]
    BY <1>3 DEF IInv, TypeOK
<1>9. /\ decisions[d].stage # "Finalized"
      /\ decisions[d].assessed = {} /\ decisions[d].falsified = {}
    BY <1>1 DEF NoDecision
<1>10. Cardinality(r.assessed) + Cardinality(AssignedTo(agents', d)) <= Required(r)
    BY <1>2, <1>5, <1>6, RequiredCount
<1> QED
    BY <1>2, <1>3, <1>4, <1>5, <1>7, <1>8, <1>9, <1>10, DecisionStep

\* An agent that ends its assignment gets no other.
LEMMA CompletedFewer ==
    ASSUME IInv, NEW a \in Agents, agents' = [agents EXCEPT ![a] = Completed(@)]
    PROVE  /\ agents' \in [Agents -> AgentRecords]
           /\ agents'[a].subject = Nothing
           /\ \A b \in Agents : b # a => agents'[b] = agents[b]
           /\ FewerDecisions(agents', agents) /\ FewerQuestions(agents', agents)
           /\ \A s \in Subjects : AssignedTo(agents', s) = AssignedTo(agents, s) \ {a}
<1>1. agents \in [Agents -> AgentRecords]
    BY DEF IInv, TypeOK
<1>2. Completed(agents[a]) \in AgentRecords /\ Completed(agents[a]).subject = Nothing
    BY <1>1, AgentHelpers
<1>3. /\ agents' \in [Agents -> AgentRecords]
      /\ agents'[a].subject = Nothing
      /\ \A b \in Agents : b # a => agents'[b] = agents[b]
    BY <1>1, <1>2
<1>4. FewerDecisions(agents', agents) /\ FewerQuestions(agents', agents)
    BY <1>3, NothingAssumption DEF FewerDecisions, FewerQuestions, Holds
<1>5. \A s \in Subjects : AssignedTo(agents', s) = AssignedTo(agents, s) \ {a}
    BY <1>3, NothingAssumption DEF AssignedTo, Subjects
<1> QED
    BY <1>3, <1>4, <1>5

LEMMA AssessKeeps ==
    ASSUME IInv, NEW a \in Agents, NEW d \in Decisions, Assess(a, d)
    PROVE  Keeps
<1> DEFINE old == decisions[d]
           enough == Cardinality(old.assessed) + 1 >= Required(old)
           r == [old EXCEPT !.assessed = @ \cup {a},
                            !.stage = IF enough THEN "OpenDebate" ELSE @]
<1>1. /\ old \in DecisionRecords /\ old.stage = "CollectingIndependent"
      /\ a \notin old.assessed /\ old.assessed \in SUBSET Agents
      /\ Formal(old) => agents[a].subject = d /\ a # old.proposer
      /\ decisions' = [decisions EXCEPT ![d] = r]
      /\ agents' = IF Formal(old) THEN [agents EXCEPT ![a] = Completed(@)] ELSE agents
      /\ UNCHANGED <<missionStatus, questions>>
    BY OneDecision DEF Assess, Assessed
<1>2. /\ r \in DecisionRecords /\ r.assessed = old.assessed \cup {a}
      /\ r.stage = IF enough THEN "OpenDebate" ELSE "CollectingIndependent"
      /\ r.significance = old.significance /\ r.proposer = old.proposer
      /\ r.falsified = old.falsified /\ r.rounds = old.rounds
    BY <1>1 DEF DecisionRecords, Stages
<1>3. Required(r) = Required(old) /\ (Formal(r) <=> Formal(old))
    BY <1>2 DEF Required, Formal
<1>4. Cardinality(r.assessed) = Cardinality(old.assessed) + 1
    BY <1>1, <1>2, CountingOne
<1>5. /\ Cardinality(old.assessed) \in Nat /\ Cardinality(AssignedTo(agents, d)) \in Nat
      /\ Cardinality(old.assessed) + Cardinality(AssignedTo(agents, d)) <= Required(old)
      /\ DecisionOk(old)
      /\ \A b \in AssignedTo(agents, d) : b # old.proposer /\ b \notin old.assessed
    BY <1>1, OneDecision
<1> HIDE DEF old, r
<1>6. DecisionOk(r)
    <2>1. r.rounds = 0 /\ old.proposer \in Agents
        BY <1>1, <1>2, <1>5 DEF DecisionOk
    <2>2. 0 < RoundLimit
        BY LimitAssumption
    <2>3. Formal(r) => r.proposer \notin r.assessed
        BY <1>1, <1>2, <1>3, <1>5 DEF DecisionOk
    <2>4. r.stage # "CollectingIndependent" => Cardinality(r.assessed) >= Required(r)
        BY <1>2, <1>3, <1>4
    <2>5. r.stage \in {"CollectingIndependent", "OpenDebate"}
        BY <1>2
    <2> QED
        BY <1>2, <2>1, <2>2, <2>3, <2>4, <2>5 DEF DecisionOk, NoDecision
<1>7. /\ agents' \in [Agents -> AgentRecords]
      /\ FewerDecisions(agents', agents) /\ FewerQuestions(agents', agents)
    <2>1. CASE Formal(old)
        BY <1>1, <2>1, CompletedFewer
    <2>2. CASE ~Formal(old)
        BY <1>1, <2>2 DEF FewerDecisions, FewerQuestions, IInv, TypeOK
    <2> QED
        BY <2>1, <2>2
<1>8. CASE Formal(old)
    <2>1. AssignedTo(agents', d) = AssignedTo(agents, d) \ {a}
        BY <1>1, <1>8, CompletedFewer DEF Subjects
    <2>2. a \in AssignedTo(agents, d)
        BY <1>1, <1>8 DEF AssignedTo
    <2>3. Cardinality(AssignedTo(agents', d)) = Cardinality(AssignedTo(agents, d)) - 1
        <3>1. AssignedTo(agents, d) \in SUBSET Agents
            BY DEF AssignedTo
        <3> QED
            BY <2>1, <2>2, <3>1, CountingOne
    <2>4. Cardinality(r.assessed) + Cardinality(AssignedTo(agents', d)) <= Required(r)
        BY <1>3, <1>4, <1>5, <2>3, RequiredCount
    <2>5. \A b \in AssignedTo(agents', d) :
            /\ r.stage \notin {"Absent", "Finalized"} /\ b # r.proposer
            /\ r.stage = "CollectingIndependent" => b \notin r.assessed
        BY <1>2, <1>5, <2>1
    <2> QED
        BY <1>1, <1>2, <1>6, <1>7, <2>4, <2>5, DecisionStep DEF old
<1>9. CASE ~Formal(old)
    <2>1. Required(old) = 1
        BY <1>9, RequiredCount
    <2>2. r.stage = "OpenDebate" /\ Cardinality(r.assessed) >= Required(r)
        BY <1>2, <1>3, <1>4, <1>5, <2>1
    <2>3. AssignedTo(agents', d) = AssignedTo(agents, d)
        BY <1>1, <1>9
    <2>4. Cardinality(AssignedTo(agents', d)) <= 1
        BY <1>5, <2>1, <2>3
    <2>5. \A b \in AssignedTo(agents', d) : b # r.proposer
        BY <1>2, <1>5, <2>3
    <2> QED
        BY <1>1, <1>2, <1>6, <1>7, <2>2, <2>4, <2>5, DecisionStep DEF old
<1> QED
    BY <1>8, <1>9

LEMMA ChallengeKeeps ==
    ASSUME IInv, NEW a \in Agents, NEW d \in Decisions, NEW asks \in BOOLEAN,
           Challenge(a, d, asks)
    PROVE  Keeps
<1> DEFINE old == decisions[d]
           r == Challenged(old, asks)
<1>1. /\ old \in DecisionRecords /\ DecisionOk(old) /\ old.stage \in Debated
      /\ decisions' = [decisions EXCEPT ![d] = r]
      /\ UNCHANGED <<missionStatus, agents, questions>>
    BY OneDecision DEF Challenge
<1>2. /\ r \in DecisionRecords /\ r.stage \in Debated
      /\ r.stage = "OpenDebate" => r.rounds < RoundLimit
      /\ r.significance = old.significance /\ r.proposer = old.proposer
      /\ r.falsified = old.falsified /\ r.assessed = old.assessed
      /\ r.experimented = old.experimented
    <2>1. CASE asks
        BY <1>1, <2>1 DEF Challenged, DecisionRecords, Debated, Stages
    <2>2. CASE ~asks /\ old.stage # "OpenDebate"
        BY <1>1, <2>2 DEF Challenged, DecisionOk, Debated
    <2>3. CASE ~asks /\ old.stage = "OpenDebate"
        <3>1. old.rounds < RoundLimit /\ old.rounds \in 0..RoundLimit
            BY <1>1, <2>3 DEF DecisionOk, DecisionRecords
        <3>2. old.rounds + 1 \in 0..RoundLimit
            BY <3>1, LimitAssumption
        <3> DEFINE next == old.rounds + 1
                   stage == IF next >= RoundLimit THEN "ExperimentRequired" ELSE "OpenDebate"
        <3>3. r = [old EXCEPT !.rounds = next, !.stage = stage]
            BY <2>3 DEF Challenged
        <3>4. stage = "OpenDebate" => next < RoundLimit
            BY <3>1, LimitAssumption
        <3>5. stage \in Debated
            BY DEF Debated
        <3> HIDE DEF next, stage, r
        <3>6. /\ r \in DecisionRecords /\ r.stage = stage /\ r.rounds = next
              /\ r.significance = old.significance /\ r.proposer = old.proposer
              /\ r.falsified = old.falsified /\ r.assessed = old.assessed
              /\ r.experimented = old.experimented
            BY <1>1, <3>2, <3>3, <3>5 DEF DecisionRecords, Debated, Stages, next
        <3> QED
            BY <3>4, <3>5, <3>6
    <2> QED
        BY <2>1, <2>2, <2>3
<1> HIDE DEF r
<1>3. DecisionOk(r)
    BY <1>1, <1>2 DEF DecisionOk, Required, Formal, Debated
<1> QED
    BY <1>1, <1>2, <1>3, DecisionAlone DEF Debated

LEMMA RecordExperimentKeeps ==
    ASSUME IInv, NEW a \in Agents, NEW d \in Decisions, NEW falsifies \in SUBSET Options,
           RecordExperiment(a, d, falsifies)
    PROVE  Keeps
<1> DEFINE old == decisions[d]
           r == Experimented(old, falsifies)
<1>1. /\ old \in DecisionRecords /\ DecisionOk(old)
      /\ old.stage \notin {"Absent", "Finalized"}
      /\ decisions' = [decisions EXCEPT ![d] = r]
      /\ UNCHANGED <<missionStatus, agents, questions>>
    BY OneDecision DEF RecordExperiment
<1>2. /\ r \in DecisionRecords /\ r.stage = "OpenDebate" /\ r.rounds = 0
      /\ r.significance = old.significance /\ r.proposer = old.proposer
      /\ r.falsified = old.falsified \cup falsifies /\ r.assessed = old.assessed
      /\ r.experimented = TRUE
    <2>1. 0 \in 0..RoundLimit /\ old.falsified \cup falsifies \in SUBSET Options
        BY <1>1, LimitAssumption DEF DecisionRecords
    <2> QED
        BY <1>1, <2>1 DEF Experimented, DecisionRecords, Stages
<1> HIDE DEF r
<1>3. DecisionOk(r)
    BY <1>1, <1>2, LimitAssumption DEF DecisionOk, Formal
<1> QED
    BY <1>1, <1>2, <1>3, DecisionAlone

LEMMA RequestAdjudicationKeeps ==
    ASSUME IInv, NEW a \in Agents, NEW d \in Decisions, RequestAdjudication(a, d)
    PROVE  Keeps
<1> DEFINE old == decisions[d]
           r == [old EXCEPT !.stage = "ReadyToAdjudicate"]
<1>1. /\ old \in DecisionRecords /\ DecisionOk(old)
      /\ old.stage \in Debated
      /\ Cardinality(old.assessed) >= Required(old)
      /\ decisions' = [decisions EXCEPT ![d] = r]
      /\ UNCHANGED <<missionStatus, agents, questions>>
    BY OneDecision DEF RequestAdjudication
<1>2. /\ r \in DecisionRecords /\ r.stage = "ReadyToAdjudicate"
      /\ r.significance = old.significance /\ r.proposer = old.proposer
      /\ r.falsified = old.falsified /\ r.assessed = old.assessed
    BY <1>1 DEF DecisionRecords, Stages
<1> HIDE DEF r
<1>3. DecisionOk(r)
    BY <1>1, <1>2 DEF DecisionOk, Formal, Required, Debated
<1> QED
    BY <1>1, <1>2, <1>3, DecisionAlone DEF Debated

\* Nobody but the adjudicator is at work on the decision.
LEMMA AdjudicateKeeps ==
    ASSUME IInv, NEW a \in Agents, NEW d \in Decisions, NEW outcome \in Options,
           Adjudicate(a, d, outcome)
    PROVE  Keeps
<1> DEFINE old == decisions[d]
           r == [old EXCEPT !.stage = "Finalized", !.adjudicator = a, !.outcome = outcome]
<1>1. /\ old \in DecisionRecords /\ DecisionOk(old)
      /\ old.stage = "ReadyToAdjudicate" /\ a # old.proposer
      /\ Cardinality(old.assessed) >= Required(old)
      /\ outcome \notin old.falsified /\ agents[a].subject = d
      /\ decisions' = [decisions EXCEPT ![d] = r]
      /\ agents' = [agents EXCEPT ![a] = Completed(@)]
      /\ UNCHANGED <<missionStatus, questions>>
    BY OneDecision DEF Adjudicate
<1>2. /\ r \in DecisionRecords /\ r.stage = "Finalized" /\ r.adjudicator = a
      /\ r.outcome = outcome
      /\ r.significance = old.significance /\ r.proposer = old.proposer
      /\ r.falsified = old.falsified /\ r.assessed = old.assessed
    BY <1>1 DEF DecisionRecords, Stages
<1>3. /\ agents' \in [Agents -> AgentRecords]
      /\ FewerDecisions(agents', agents) /\ FewerQuestions(agents', agents)
      /\ AssignedTo(agents', d) = AssignedTo(agents, d) \ {a}
    BY <1>1, CompletedFewer DEF Subjects
<1>4. AssignedTo(agents', d) = {}
    <2>1. AssignedTo(agents, d) \in SUBSET Agents /\ a \in AssignedTo(agents, d)
        BY <1>1 DEF AssignedTo
    <2>2. {a} \in SUBSET AssignedTo(agents, d) /\ Cardinality({a}) = 1
        BY <2>1, FS_Singleton
    <2>3. Cardinality(AssignedTo(agents, d)) <= 1
        BY <1>1, <2>1, <2>2, OneDecision, Counting, RequiredCount
    <2>4. AssignedTo(agents, d) = {a}
        BY <2>1, <2>2, <2>3, Counting
    <2> QED
        BY <1>3, <2>4
<1> HIDE DEF r
<1>5. /\ Required(r) = Required(old) /\ (Formal(r) <=> Formal(old))
      /\ Cardinality(AssignedTo(agents', d)) = 0
    BY <1>2, <1>4, FS_EmptySet DEF Required, Formal
<1>6. DecisionOk(r)
    BY <1>1, <1>2, <1>5 DEF DecisionOk
<1>7. /\ Cardinality(r.assessed) >= Required(r)
      /\ Cardinality(AssignedTo(agents', d)) <= 1
      /\ \A b \in AssignedTo(agents', d) : FALSE
    <2>1. Cardinality(r.assessed) >= Required(r)
        BY <1>1, <1>2, <1>5
    <2>2. Cardinality(AssignedTo(agents', d)) <= 1
        BY <1>5
    <2> QED
        BY <1>4, <2>1, <2>2
<1>8. /\ decisions[d].stage # "Finalized" /\ r.stage # "CollectingIndependent"
      /\ decisions[d].assessed \subseteq r.assessed
      /\ decisions[d].falsified \subseteq r.falsified
    BY <1>1, <1>2
<1> QED
    BY <1>1, <1>2, <1>3, <1>6, <1>7, <1>8, DecisionStep

-----------------------------------------------------------------------------
(* Questions *)

\* What the invariant says of one question.
LEMMA OneQuestion ==
    ASSUME IInv, NEW q \in Questions
    PROVE  /\ questions[q] \in QuestionRecords /\ QuestionOk(questions[q])
           /\ \A b \in Agents : Holds(agents, b, q) =>
                /\ questions[q].status = "Open" /\ b \in questions[q].contributors
                /\ b \in questions[q].answered => b = questions[q].synthesizer
BY DEF IInv, TypeOK, QuestionInv, QuestionWork

\* A step that changes one question, and assignments to it.
LEMMA QuestionStep ==
    ASSUME IInv, NEW q \in Questions, NEW r \in QuestionRecords,
           questions' = [questions EXCEPT ![q] = r],
           agents' \in [Agents -> AgentRecords], UNCHANGED <<missionStatus, decisions>>,
           FewerDecisions(agents', agents), QuestionOk(r),
           \A b \in Agents, e \in Questions \ {q} : Holds(agents', b, e) => Holds(agents, b, e),
           \A b \in Agents : Holds(agents', b, q) =>
                /\ r.status = "Open" /\ b \in r.contributors
                /\ b \in r.answered => b = r.synthesizer,
           questions[q].status # "Answered",
           questions[q].answered \subseteq r.answered
    PROVE  Keeps
<1>1. /\ questions \in [Questions -> QuestionRecords]
      /\ questions' \in [Questions -> QuestionRecords]
      /\ \A e \in Questions : questions'[e] = IF e = q THEN r ELSE questions[e]
    BY DEF IInv, TypeOK
<1>2. \A e \in Questions : QuestionOk(questions'[e])
    BY <1>1, OneQuestion
<1>3. QuestionWork(agents', questions')
    <2> SUFFICES ASSUME NEW a \in Agents, NEW e \in Questions, Holds(agents', a, e)
                 PROVE  /\ questions'[e].status = "Open" /\ a \in questions'[e].contributors
                        /\ a \in questions'[e].answered => a = questions'[e].synthesizer
        BY DEF QuestionWork
    <2>1. CASE e = q
        BY <1>1, <2>1
    <2>2. CASE e # q
        BY <1>1, <2>2, OneQuestion
    <2> QED
        BY <2>1, <2>2
<1>4. QuestionsKept
    BY <1>1 DEF QuestionsKept
<1>5. DecisionInv' /\ DecisionsKept
    BY SameDecisions
<1>6. TypeOK'
    BY <1>1 DEF IInv, TypeOK
<1> QED
    BY <1>2, <1>3, <1>4, <1>5, <1>6 DEF IInv, QuestionInv, Keeps

LEMMA AskKeeps ==
    ASSUME IInv, NEW q \in Questions, Ask(q)
    PROVE  Keeps
<1>1. PICK first \in Agents \cup {Nobody} :
        /\ questions' = [questions EXCEPT ![q] =
                [@ EXCEPT !.status = "Open", !.assigned = first,
                          !.contributors = {first} \ {Nobody}]]
        /\ agents' = [a \in Agents |-> IF a = first THEN Assigned(agents[a], q)
                                       ELSE agents[a]]
    BY DEF Ask
<1> DEFINE r == [NoQuestion EXCEPT !.status = "Open", !.assigned = first,
                                   !.contributors = {first} \ {Nobody}]
<1>2. questions[q] = NoQuestion /\ UNCHANGED <<missionStatus, decisions>>
    BY OneQuestion DEF Ask, QuestionOk
<1>3. /\ r \in QuestionRecords /\ r.status = "Open" /\ r.assigned = first
      /\ r.contributors = {first} \ {Nobody}
      /\ r.answered = {} /\ r.synthesizer = Nobody
    <2>1. /\ NoQuestion \in QuestionRecords
          /\ NoQuestion.answered = {} /\ NoQuestion.synthesizer = Nobody
        BY DEF NoQuestion, QuestionRecords
    <2>2. {first} \ {Nobody} \in SUBSET Agents
        OBVIOUS
    <2> QED
        BY <2>1, <2>2 DEF QuestionRecords
<1>4. questions' = [questions EXCEPT ![q] = r]
    BY <1>1, <1>2
<1> HIDE DEF r
<1>5. QuestionOk(r)
    <2>1. {first} \ {Nobody} = {} \/ {first} \ {Nobody} = {first}
        OBVIOUS
    <2>2. Cardinality({}) = 0 /\ Cardinality({first}) = 1
        BY FS_EmptySet, FS_Singleton
    <2>3. Cardinality(r.contributors) <= MaxContributors
        BY <1>3, <2>1, <2>2, LimitAssumption
    <2> QED
        BY <1>3, <2>3 DEF QuestionOk, QuestionValid
<1>6. agents \in [Agents -> AgentRecords]
    BY DEF IInv, TypeOK
<1>7. ASSUME NEW b \in Agents
      PROVE  /\ agents'[b] \in AgentRecords
             /\ b # first => agents'[b] = agents[b]
             /\ b = first => agents'[b].subject = q
    <2>1. Assigned(agents[b], q) \in AgentRecords /\ Assigned(agents[b], q).subject = q
        <3>1. agents[b] \in AgentRecords /\ q \in Subjects
            BY <1>6 DEF Subjects
        <3> QED
            BY <3>1, AgentHelpers
    <2>2. agents'[b] = IF b = first THEN Assigned(agents[b], q) ELSE agents[b]
        BY <1>1
    <2>3. CASE b = first
        BY <2>1, <2>2, <2>3
    <2>4. CASE b # first
        BY <1>6, <2>2, <2>4
    <2> QED
        BY <2>3, <2>4
<1>8. agents' \in [Agents -> AgentRecords]
    BY <1>1, <1>7
<1>9. FewerDecisions(agents', agents)
    BY <1>7, NothingAssumption DEF FewerDecisions
<1>10. \A b \in Agents, e \in Questions \ {q} : Holds(agents', b, e) => Holds(agents, b, e)
    BY <1>7 DEF Holds
<1>11. ASSUME NEW b \in Agents, Holds(agents', b, q)
       PROVE  /\ r.status = "Open" /\ b \in r.contributors
              /\ b \in r.answered => b = r.synthesizer
    <2>1. CASE b = first
        BY <1>3, <2>1, AgentsAssumption
    <2>2. CASE b # first
        <3>1. Holds(agents, b, q)
            BY <1>7, <1>11, <2>2 DEF Holds
        <3> QED
            BY <3>1, OneQuestion DEF Ask
    <2> QED
        BY <2>1, <2>2
<1>12. questions[q].status # "Answered" /\ questions[q].answered \subseteq r.answered
    BY <1>2, <1>3 DEF NoQuestion
<1> QED
    BY <1>2, <1>3, <1>4, <1>5, <1>8, <1>9, <1>10, <1>11, <1>12, QuestionStep

\* Whoever still holds a question when it is synthesised is its synthesizer.
LEMMA AnswerKeeps ==
    ASSUME IInv, NEW a \in Agents, NEW q \in Questions, Answer(a, q)
    PROVE  Keeps
<1> DEFINE old == questions[q]
<1>1. /\ old \in QuestionRecords /\ QuestionOk(old) /\ old.status = "Open"
      /\ agents' = [agents EXCEPT ![a] = Completed(@)]
      /\ UNCHANGED <<missionStatus, decisions>>
      /\ \A b \in Agents : Holds(agents, b, q) =>
            b \in old.contributors /\ (b \in old.answered => b = old.synthesizer)
    BY OneQuestion DEF Answer
<1>2. /\ agents' \in [Agents -> AgentRecords] /\ agents'[a].subject = Nothing
      /\ \A b \in Agents : b # a => agents'[b] = agents[b]
      /\ FewerDecisions(agents', agents) /\ FewerQuestions(agents', agents)
    BY <1>1, CompletedFewer
<1>3. \A b \in Agents, e \in Questions : Holds(agents', b, e) => Holds(agents, b, e) /\ b # a
    BY <1>2, NothingAssumption DEF Holds, FewerQuestions
<1>4. /\ old.contributors \in SUBSET Agents /\ old.answered \in SUBSET Agents
      /\ old.synthesizer \in Agents \cup {Nobody}
      /\ QuestionValid(old)
    BY <1>1 DEF QuestionRecords, QuestionOk
<1>5. CASE MaySynthesise(old, a) /\ questions' = [questions EXCEPT ![q] = Synthesised(@)]
    <2> DEFINE r == Synthesised(old)
    <2>1. /\ r \in QuestionRecords /\ r.status = "Answered"
          /\ r.assigned = old.assigned /\ r.contributors = old.contributors
          /\ r.answered = old.answered /\ r.synthesizer = old.synthesizer
        BY <1>1 DEF Synthesised, QuestionRecords
    <2>2. questions' = [questions EXCEPT ![q] = r]
        BY <1>5
    <2> HIDE DEF r
    <2>3. old.answered = old.contributors
        <3>1. Cardinality(old.answered) >= Cardinality(old.contributors)
            BY <1>5 DEF MaySynthesise
        <3>2. old.answered \in SUBSET old.contributors
            BY <1>4 DEF QuestionValid
        <3> QED
            BY <1>4, <3>1, <3>2, Counting
    <2>4. QuestionOk(r)
        <3>1. old.synthesizer # Nobody
            BY <1>5, AgentsAssumption DEF MaySynthesise
        <3>2. /\ Cardinality(old.contributors) \in Nat
              /\ Cardinality(old.answered) >= Cardinality(old.contributors)
            BY <1>4, <2>3, Counting
        <3> QED
            BY <1>4, <2>1, <3>1, <3>2 DEF QuestionOk, QuestionValid
    <2>5. \A b \in Agents : ~Holds(agents', b, q)
        BY <1>1, <1>3, <1>5, <2>3 DEF MaySynthesise
    <2>6. old.status # "Answered" /\ old.answered \subseteq r.answered
        BY <1>1, <2>1
    <2> QED
        BY <1>1, <1>2, <1>3, <2>1, <2>2, <2>4, <2>5, <2>6, QuestionStep
<1>6. CASE MayContribute(old, a) /\ questions' = [questions EXCEPT ![q].answered = @ \cup {a}]
    <2> DEFINE r == [old EXCEPT !.answered = @ \cup {a}]
    <2>1. /\ r \in QuestionRecords /\ r.status = "Open"
          /\ r.assigned = old.assigned /\ r.contributors = old.contributors
          /\ r.answered = old.answered \cup {a} /\ r.synthesizer = old.synthesizer
        BY <1>1 DEF QuestionRecords
    <2>2. questions' = [questions EXCEPT ![q] = r]
        BY <1>6
    <2> HIDE DEF r
    <2>3. QuestionOk(r)
        BY <1>4, <1>6, <2>1 DEF MayContribute, QuestionOk, QuestionValid
    <2>4. ASSUME NEW b \in Agents, Holds(agents', b, q)
          PROVE  /\ r.status = "Open" /\ b \in r.contributors
                 /\ b \in r.answered => b = r.synthesizer
        BY <1>1, <1>3, <2>1, <2>4
    <2>5. old.status # "Answered" /\ old.answered \subseteq r.answered
        BY <1>1, <2>1
    <2> QED
        BY <1>1, <1>2, <1>3, <2>1, <2>2, <2>3, <2>4, <2>5, QuestionStep
<1> QED
    BY <1>5, <1>6 DEF Answer

-----------------------------------------------------------------------------
(* The scheduler *)

\* What a decision is short of, and the agents that are given to it.
LEMMA StaffedDecision ==
    ASSUME NEW ag, NEW d \in Decisions, NEW new \in SUBSET Agents,
           decisions[d] \in DecisionRecords,
           DecisionWork(ag, decisions), DecisionSlots(ag, decisions),
           \A a \in new : MayServe(a, d), Cardinality(new) <= Needs(ag, d)
    PROVE  LET given == Cardinality(decisions[d].assessed)
               all == AssignedTo(ag, d) \cup new IN
           /\ \A a \in all : /\ decisions[d].stage \notin {"Absent", "Finalized"}
                             /\ a # decisions[d].proposer
                             /\ decisions[d].stage = "CollectingIndependent"
                                    => a \notin decisions[d].assessed
           /\ \/ given + Cardinality(all) <= Required(decisions[d])
              \/ /\ given >= Required(decisions[d]) /\ Cardinality(all) <= 1
                 /\ decisions[d].stage # "CollectingIndependent"
<1> DEFINE r == decisions[d]
           given == Cardinality(r.assessed)
           old == AssignedTo(ag, d)
<1>1. /\ old \in SUBSET Agents /\ r.assessed \in SUBSET Agents
      /\ old \cup new \in SUBSET Agents
    BY DEF AssignedTo, DecisionRecords
<1>2. /\ given \in Nat /\ Cardinality(old) \in Nat /\ Cardinality(new) \in Nat
      /\ Cardinality(old \cup new) \in Nat /\ Required(r) \in 1..3
    BY <1>1, Counting, RequiredCount
<1>3. Cardinality(old \cup new) <= Cardinality(old) + Cardinality(new)
    BY <1>1, CountingBoth
<1>4. \/ given + Cardinality(old) <= Required(r)
      \/ given >= Required(r) /\ Cardinality(old) <= 1 /\ r.stage # "CollectingIndependent"
    BY DEF DecisionSlots
<1>5. \A a \in old : /\ r.stage \notin {"Absent", "Finalized"} /\ a # r.proposer
                     /\ r.stage = "CollectingIndependent" => a \notin r.assessed
    BY DEF AssignedTo, DecisionWork
<1>6. \A a \in new : /\ a # r.proposer
                     /\ r.stage = "CollectingIndependent" => a \notin r.assessed
    BY DEF MayServe
<1>7. CASE new = {}
    <2>1. old \cup new = old
        BY <1>7
    <2> QED
        BY <1>4, <1>5, <2>1
<1>8. CASE new # {}
    <2>1. Cardinality(new) >= 1
        BY <1>2, <1>8, FS_EmptySet, Counting
    <2>2. \/ /\ r.stage = "CollectingIndependent"
             /\ Cardinality(new) <= Required(r) - given - Cardinality(old)
          \/ /\ r.stage = "ReadyToAdjudicate" /\ Cardinality(old) = 0
             /\ Cardinality(new) <= 1
        BY <1>2, <2>1 DEF Needs
    <2>3. \/ given + Cardinality(old \cup new) <= Required(r)
          \/ /\ given >= Required(r) /\ Cardinality(old \cup new) <= 1
             /\ r.stage # "CollectingIndependent"
        BY <1>2, <1>3, <2>2
    <2> QED
        BY <1>5, <1>6, <2>2, <2>3
<1> QED
    BY <1>7, <1>8

\* What a tick that gives a question the agents of new makes of its record.
StaffedFrom(old, new, r) ==
    /\ r \in QuestionRecords /\ QuestionOk(r)
    /\ r.answered = old.answered /\ r.status = old.status
    /\ new = {} => r = old
    /\ new # {} => old.status = "Open" /\ new \subseteq r.contributors
    /\ old.contributors \subseteq r.contributors
    /\ \A a \in new : a \in r.answered => a = r.synthesizer
    /\ \A a \in old.contributors :
            (a \in old.answered => a = old.synthesizer)
                => (a \in r.answered => a = r.synthesizer)

\* One question of a tick: its contributors, or its synthesizer.
LEMMA StaffedQuestion ==
    ASSUME NEW qs \in [Questions -> QuestionRecords], NEW job, NEW q \in Questions,
           Given(job, q) \in SUBSET Agents, QuestionOk(qs[q]), NEW rest, NEW left,
           StaffsQuestion(qs[q], Given(job, q), rest, left)
    PROVE  StaffedFrom(qs[q], Given(job, q), Staffed(qs, job)[q])
<1> USE DEF StaffedFrom
<1> DEFINE old == qs[q]
           new == Given(job, q)
           r == Staffed(qs, job)[q]
<1>1. /\ r = IF new = {} THEN old
             ELSE IF new \subseteq old.contributors
             THEN [old EXCEPT !.synthesizer = CHOOSE a \in new : TRUE]
             ELSE [old EXCEPT !.contributors = @ \cup new]
    BY DEF Staffed
<1>2. /\ old \in QuestionRecords /\ old.contributors \in SUBSET Agents
      /\ QuestionValid(old) /\ (old.status = "Absent" => old = NoQuestion)
      /\ StaffsQuestion(old, new, rest, left)
    BY DEF QuestionRecords, QuestionOk
<1> HIDE DEF old, r, new
<1>3. CASE new = {}
    BY <1>1, <1>2, <1>3 DEF QuestionOk, old, r, new
<1>4. CASE new # {} /\ new \subseteq old.contributors
    <2>1. /\ old.status = "Open" /\ AwaitsSynthesis(old) /\ Cardinality(new) = 1
        BY <1>2, <1>4 DEF StaffsQuestion
    <2>2. PICK b \in Agents : new = {b}
        <3>1. IsFiniteSet(new)
            BY <1>2, <1>4, Counting
        <3>2. \E x : new = {x}
            BY <2>1, <3>1, FS_Singleton
        <3> QED
            BY <1>2, <1>4, <3>2
    <2>3. (CHOOSE a \in new : TRUE) = b
        BY <2>2
    <2>4. r = [old EXCEPT !.synthesizer = b]
        BY <1>1, <1>4, <2>3
    <2>5. /\ r \in QuestionRecords /\ r.status = "Open" /\ r.assigned = old.assigned
          /\ r.contributors = old.contributors /\ r.answered = old.answered
          /\ r.synthesizer = b
        BY <1>2, <2>1, <2>4 DEF QuestionRecords
    <2>6. QuestionOk(r)
        BY <1>2, <1>4, <2>2, <2>5 DEF QuestionOk, QuestionValid
    <2>7. \A a \in old.contributors : a \in old.answered
        BY <2>1 DEF AwaitsSynthesis
    <2>8. old.synthesizer = Nobody
        BY <2>1 DEF AwaitsSynthesis
    <2>9. \A a \in old.contributors : ~(a \in old.answered => a = old.synthesizer)
        BY <1>2, <2>7, <2>8, AgentsAssumption
    <2>10. StaffedFrom(old, new, r)
        BY <1>4, <2>1, <2>2, <2>5, <2>6, <2>9
    <2> QED
        BY <2>10 DEF old, r, new
<1>5. CASE new # {} /\ ~(new \subseteq old.contributors)
    <2>1. /\ old.status = "Open" /\ new \cap old.contributors = {}
          /\ Cardinality(new) <= MaxContributors - Cardinality(old.contributors)
        BY <1>2, <1>5 DEF StaffsQuestion
    <2>2. /\ new \in SUBSET Agents
          /\ old.contributors \cup new \in SUBSET Agents
        BY <1>2 DEF new
    <2>3. r = [old EXCEPT !.contributors = old.contributors \cup new]
        BY <1>1, <1>5
    <2>4. /\ r \in QuestionRecords /\ r.status = "Open" /\ r.assigned = old.assigned
          /\ r.contributors = old.contributors \cup new /\ r.answered = old.answered
          /\ r.synthesizer = old.synthesizer
        BY <1>2, <2>1, <2>2, <2>3 DEF QuestionRecords
    <2>5. Cardinality(r.contributors) <= MaxContributors
        <3>1. /\ Cardinality(new) \in Nat /\ Cardinality(old.contributors) \in Nat
              /\ Cardinality(old.contributors \cup new) \in Nat
            BY <1>2, <2>2, Counting
        <3>2. Cardinality(old.contributors \cup new)
                <= Cardinality(old.contributors) + Cardinality(new)
            BY <1>2, <2>2, CountingBoth
        <3> QED
            BY <2>1, <2>4, <3>1, <3>2, LimitAssumption
    <2>6. QuestionOk(r)
        BY <1>2, <2>4, <2>5 DEF QuestionOk, QuestionValid
    <2>7. \A a \in new : a \notin r.answered
        BY <1>2, <2>1, <2>4 DEF QuestionValid
    <2> QED
        BY <1>5, <2>1, <2>4, <2>6, <2>7 DEF old, r, new
<1> QED
    BY <1>3, <1>4, <1>5 DEF old, r, new

LEMMA TickKeeps ==
    ASSUME IInv, Tick
    PROVE  Keeps
<1> DEFINE ag == Expired(agents)
           qs == Reconciled(ag, questions)
           free == {a \in Agents : Available(ag[a])}
           used == Cardinality({a \in Agents : ag[a].subject # Nothing})
<1>1. PICK job \in Jobs(ag, qs) :
            /\ agents' = [a \in Agents |-> IF a \in DOMAIN job /\ job[a] # Nothing
                                           THEN Assigned(ag[a], job[a]) ELSE ag[a]]
            /\ questions' = Staffed(qs, job)
    BY DEF Tick
<1>2. PICK idle \in SUBSET free, budget \in {0} \cup 1..(ReasoningSlots - used) :
            /\ job \in [idle -> Raised \cup {Nothing}]
            /\ StaffsDecisions(ag, budget, job)
            /\ StaffsQuestions(qs, budget, job)
            /\ agents' = [a \in Agents |-> IF a \in idle /\ job[a] # Nothing
                                           THEN Assigned(ag[a], job[a]) ELSE ag[a]]
            /\ questions' = Staffed(qs, job)
    BY <1>1 DEF Jobs
<1>3. UNCHANGED <<missionStatus, decisions>>
    BY DEF Tick
<1>4. /\ agents \in [Agents -> AgentRecords]
      /\ decisions \in [Decisions -> DecisionRecords]
      /\ questions \in [Questions -> QuestionRecords]
      /\ \A q \in Questions : QuestionOk(questions[q])
      /\ QuestionWork(agents, questions)
    BY DEF IInv, TypeOK, QuestionInv
<1>5. /\ ag \in [Agents -> AgentRecords]
      /\ FewerDecisions(ag, agents) /\ FewerQuestions(ag, agents)
    BY <1>4, Expiry
<1>6. QuestionWork(ag, questions)
    BY <1>4, <1>5, LessenedQuestions
<1>7. /\ qs \in [Questions -> QuestionRecords]
      /\ \A q \in Questions :
            /\ QuestionOk(qs[q])
            /\ questions[q].answered \subseteq qs[q].answered
            /\ questions[q].status = "Answered" => qs[q] = questions[q]
            /\ qs[q].status = questions[q].status
      /\ QuestionWork(ag, qs)
    BY <1>4, <1>6, Reconciliation
<1>8. DecisionWork(ag, decisions) /\ DecisionSlots(ag, decisions)
    <2>1. \A d \in Decisions : Cardinality(decisions[d].assessed) \in Nat
        BY OneDecision
    <2> QED
        BY <1>5, <2>1, Lessened DEF IInv, DecisionInv
<1>9. idle \subseteq Agents /\ \A a \in idle : ag[a].subject = Nothing
    BY DEF Available
<1> HIDE DEF ag, qs, free, used
<1>10. /\ Nothing \notin Decisions \cup Questions /\ Raised \subseteq Subjects
       /\ Decisions \cap Questions = {}
    BY NothingAssumption DEF Raised, Subjects
<1>11. ASSUME NEW a \in Agents
       PROVE  /\ agents'[a] \in AgentRecords
              /\ a \in idle /\ job[a] # Nothing => agents'[a].subject = job[a]
              /\ ~(a \in idle /\ job[a] # Nothing) => agents'[a] = ag[a]
    <2>1. CASE a \in idle /\ job[a] # Nothing
        <3>1. job[a] \in Subjects /\ ag[a] \in AgentRecords
            BY <1>2, <1>5, <1>10, <2>1
        <3>2. agents'[a] = Assigned(ag[a], job[a])
            BY <1>2, <2>1
        <3>3. Assigned(ag[a], job[a]) \in AgentRecords /\ Assigned(ag[a], job[a]).subject = job[a]
            BY <3>1, AgentHelpers
        <3> QED
            BY <2>1, <3>2, <3>3
    <2>2. CASE ~(a \in idle /\ job[a] # Nothing)
        BY <1>2, <1>5, <2>2
    <2> QED
        BY <2>1, <2>2
<1>12. agents' \in [Agents -> AgentRecords]
    BY <1>2, <1>11
<1>13. \A s \in Subjects : Given(job, s) = {a \in idle : job[a] = s}
    BY <1>2 DEF Given
<1>14. \A s \in Subjects : AssignedTo(agents', s) = AssignedTo(ag, s) \cup Given(job, s)
    <2> SUFFICES ASSUME NEW s \in Subjects, NEW a \in Agents
                 PROVE  agents'[a].subject = s <=> ag[a].subject = s \/ a \in Given(job, s)
        BY <1>9, <1>13 DEF AssignedTo
    <2>1. s # Nothing
        BY <1>10 DEF Subjects
    <2> QED
        BY <1>9, <1>11, <1>13, <2>1
<1>15. ASSUME NEW d \in Decisions
       PROVE  LET given == Cardinality(decisions[d].assessed)
                  all == AssignedTo(agents', d) IN
              /\ \A a \in all : /\ decisions[d].stage \notin {"Absent", "Finalized"}
                                /\ a # decisions[d].proposer
                                /\ decisions[d].stage = "CollectingIndependent"
                                       => a \notin decisions[d].assessed
              /\ \/ given + Cardinality(all) <= Required(decisions[d])
                 \/ /\ given >= Required(decisions[d]) /\ Cardinality(all) <= 1
                    /\ decisions[d].stage # "CollectingIndependent"
    <2>1. Given(job, d) \in SUBSET Agents
        BY <1>9, <1>13 DEF Subjects
    <2>2. (\A a \in Given(job, d) : MayServe(a, d)) /\ Cardinality(Given(job, d)) <= Needs(ag, d)
        BY <1>2 DEF StaffsDecisions
    <2>3. AssignedTo(agents', d) = AssignedTo(ag, d) \cup Given(job, d)
        BY <1>14 DEF Subjects
    <2> QED
        BY <1>4, <1>8, <2>1, <2>2, <2>3, StaffedDecision
<1>16. DecisionInv' /\ DecisionsKept
    <2>1. DecisionWork(agents', decisions)
        BY <1>15 DEF DecisionWork, AssignedTo
    <2>2. DecisionSlots(agents', decisions)
        BY <1>15 DEF DecisionSlots
    <2>3. \A d \in Decisions : DecisionOk(decisions[d])
        BY OneDecision
    <2> QED
        BY <1>3, <2>1, <2>2, <2>3 DEF DecisionInv, DecisionsKept
<1>17. ASSUME NEW q \in Questions
       PROVE  StaffedFrom(qs[q], Given(job, q), questions'[q])
    <2>1. Given(job, q) \in SUBSET Agents
        BY <1>9, <1>13 DEF Subjects
    <2>2. PICK rest, left : StaffsQuestion(qs[q], Given(job, q), rest, left)
        BY <1>2 DEF StaffsQuestions
    <2>3. qs \in [Questions -> QuestionRecords] /\ QuestionOk(qs[q])
        BY <1>7
    <2>4. questions'[q] = Staffed(qs, job)[q]
        BY <1>2
    <2> QED
        BY <2>1, <2>2, <2>3, <2>4, StaffedQuestion
<1>18. questions' \in [Questions -> QuestionRecords]
    BY <1>2, <1>17 DEF Staffed, StaffedFrom
<1>19. QuestionWork(agents', questions')
    <2> SUFFICES ASSUME NEW a \in Agents, NEW q \in Questions, Holds(agents', a, q)
                 PROVE  /\ questions'[q].status = "Open" /\ a \in questions'[q].contributors
                        /\ a \in questions'[q].answered => a = questions'[q].synthesizer
        BY DEF QuestionWork
    <2>1. q \in Subjects /\ q # Nothing
        BY <1>10 DEF Subjects
    <2>2. CASE a \in Given(job, q)
        BY <1>17, <2>2 DEF StaffedFrom
    <2>3. CASE a \notin Given(job, q)
        <3>1. Holds(ag, a, q)
            BY <1>9, <1>11, <1>13, <2>1, <2>3 DEF Holds
        <3>2. /\ qs[q].status = "Open" /\ a \in qs[q].contributors
              /\ a \in qs[q].answered => a = qs[q].synthesizer
            BY <1>7, <3>1 DEF QuestionWork
        <3> QED
            BY <1>17, <3>2 DEF StaffedFrom
    <2> QED
        BY <2>2, <2>3
<1>20. QuestionInv' /\ QuestionsKept
    <2>1. \A q \in Questions : questions[q].answered \subseteq questions'[q].answered
        BY <1>7, <1>17 DEF StaffedFrom
    <2>2. ASSUME NEW q \in Questions, questions[q].status = "Answered"
          PROVE  questions'[q] = questions[q]
        BY <1>7, <1>17, <2>2 DEF StaffedFrom
    <2> QED
        BY <1>17, <1>19, <2>1, <2>2 DEF StaffedFrom, QuestionInv, QuestionsKept
<1>21. TypeOK'
    BY <1>3, <1>12, <1>18 DEF IInv, TypeOK
<1> QED
    BY <1>16, <1>20, <1>21 DEF IInv, Keeps

-----------------------------------------------------------------------------
(* What a tick can give out *)

\* A tick that finds one agent and one slot may give the agent any subject that
\* the staffing of decisions and of questions lets it have.
LEMMA OneJob ==
    ASSUME IInv, NEW a \in Agents, Available(agents[a]), NEW u \in Raised,
           Cardinality({b \in Agents : Expired(agents)[b].subject # Nothing}) < ReasoningSlots,
           NEW qs,
           StaffsDecisions(Expired(agents), 1, [b \in {a} |-> u]),
           StaffsQuestions(qs, 1, [b \in {a} |-> u])
    PROVE  \E job \in Jobs(Expired(agents), qs) : \E b \in DOMAIN job :
                job[b] \notin {Nothing, agents[b].subject}
<1> DEFINE ag == Expired(agents)
           job == [b \in {a} |-> u]
           used == Cardinality({b \in Agents : ag[b].subject # Nothing})
<1>1. ag[a] = agents[a] /\ agents[a].subject = Nothing
    BY DEF Available, Expired, Lapsed
<1>2. 1 \in 1..(ReasoningSlots - used)
    <2>1. {b \in Agents : ag[b].subject # Nothing} \in SUBSET Agents
        OBVIOUS
    <2>2. used \in Nat
        BY <2>1, Counting
    <2> HIDE DEF used
    <2> QED
        BY <2>2, LimitAssumption DEF used
<1>3. {a} \in SUBSET {b \in Agents : Available(ag[b])}
    BY <1>1
<1>4. job \in [{a} -> Raised \cup {Nothing}]
    OBVIOUS
<1>5. job \in Jobs(ag, qs)
    <2> DEFINE given(idle) ==
            {j \in [idle -> Raised \cup {Nothing}] :
                \E budget \in {0} \cup 1..(ReasoningSlots - used) :
                    StaffsDecisions(ag, budget, j) /\ StaffsQuestions(qs, budget, j)}
    <2>1. job \in given({a})
        <3>1. 1 \in {0} \cup 1..(ReasoningSlots - used)
            BY <1>2
        <3> HIDE DEF used, ag, job
        <3> QED
            BY <1>4, <3>1 DEF ag, job
    <2>2. Jobs(ag, qs) = UNION {given(idle) : idle \in SUBSET {b \in Agents : Available(ag[b])}}
        BY DEF Jobs
    <2> HIDE DEF given, job
    <2> QED
        BY <1>3, <2>1, <2>2
<1>6. u # Nothing
    BY NothingAssumption DEF Raised
<1> QED
    BY <1>1, <1>5, <1>6

\* To whom such a tick gives something.
LEMMA OneGiven ==
    ASSUME NEW a, NEW u
    PROVE  LET job == [b \in {a} |-> u] IN
           /\ DOMAIN job = {a}
           /\ \A v : Given(job, v) = IF v = u THEN {a} ELSE {}
           /\ \A S : GivenAny(job, S) = IF u \in S THEN {a} ELSE {}
           /\ Cardinality({a}) = 1 /\ Cardinality({}) = 0
BY FS_Singleton, FS_EmptySet DEF Given, GivenAny

\* How many agents a decision lacks is a number.
LEMMA NeedsCount ==
    ASSUME IInv, NEW d \in Decisions
    PROVE  Needs(Expired(agents), d) \in Nat
<1> DEFINE assigned == Cardinality(AssignedTo(Expired(agents), d))
           given == Cardinality(decisions[d].assessed)
           required == Required(decisions[d])
<1>1. assigned \in Nat
    <2>1. AssignedTo(Expired(agents), d) \in SUBSET Agents
        BY DEF AssignedTo
    <2> QED
        BY <2>1, Counting
<1>2. given \in Nat /\ required \in 1..3
    BY OneDecision, RequiredCount
<1> HIDE DEF assigned, given, required
<1> QED
    BY <1>1, <1>2 DEF Needs, assigned, given, required

\* An available agent can be given a decision that needs it and that it may serve.
LEMMA DecisionJob ==
    ASSUME IInv, NEW a \in Agents, NEW d \in Decisions,
           Needs(Expired(agents), d) > 0, MayServe(a, d), NEW qs
    PROVE  /\ d \in Raised
           /\ StaffsDecisions(Expired(agents), 1, [b \in {a} |-> d])
           /\ StaffsQuestions(qs, 1, [b \in {a} |-> d])
<1> DEFINE ag == Expired(agents)
           job == [b \in {a} |-> d]
<1>1. d \in Raised
    BY DEF Needs, Raised
<1>2. d \notin Questions
    BY NothingAssumption
<1>3. /\ DOMAIN job = {a} /\ GivenAny(job, Decisions) = {a} /\ GivenAny(job, Questions) = {}
      /\ \A v : Given(job, v) = IF v = d THEN {a} ELSE {}
      /\ Cardinality({a}) = 1 /\ Cardinality({}) = 0
    BY <1>2, OneGiven
<1> HIDE DEF job
<1>4. \A e \in Decisions : Needs(ag, e) \in Nat
    BY NeedsCount
<1> HIDE DEF ag
<1>5. StaffsDecisions(ag, 1, job)
    <2>1. ASSUME NEW e \in Decisions
          PROVE  /\ \A b \in Given(job, e) : MayServe(b, e)
                 /\ Cardinality(Given(job, e)) <= Needs(ag, e)
        <3>1. CASE e = d
            <4>1. Needs(ag, d) > 0
                BY DEF ag
            <4> QED
                BY <1>3, <1>4, <3>1, <4>1
        <3>2. CASE e # d
            BY <1>3, <1>4, <3>2
        <3> QED
            BY <3>1, <3>2
    <2> QED
        BY <1>3, <2>1 DEF StaffsDecisions
<1>6. StaffsQuestions(qs, 1, job)
    <2>1. ASSUME NEW q \in Questions PROVE Given(job, q) = {}
        BY <1>2, <1>3
    <2> QED
        BY <1>3, <2>1 DEF StaffsQuestions, StaffsQuestion
<1> QED
    BY <1>1, <1>5, <1>6 DEF ag, job

\* If no decision takes the agent, an open question whose workers are all gone can
\* be given to it, as a contributor or as the synthesizer.
LEMMA QuestionJob ==
    ASSUME IInv, NEW a \in Agents, NEW q \in Questions,
           \A d \in Decisions : ~(Needs(Expired(agents), d) > 0 /\ MayServe(a, d)),
           questions[q].status = "Open", Serving(agents, q) = {}, MayTake(a, q)
    PROVE  LET ag == Expired(agents)
               job == [b \in {a} |-> q] IN
           /\ q \in Raised
           /\ StaffsDecisions(ag, 1, job)
           /\ StaffsQuestions(Reconciled(ag, questions), 1, job)
<1> DEFINE ag == Expired(agents)
           qs == Reconciled(ag, questions)
           job == [b \in {a} |-> q]
           r == questions[q]
<1>1. q \in Raised /\ q \notin Decisions
    BY NothingAssumption DEF Raised
<1>2. /\ DOMAIN job = {a} /\ GivenAny(job, Decisions) = {} /\ GivenAny(job, Questions) = {a}
      /\ \A v : Given(job, v) = IF v = q THEN {a} ELSE {}
      /\ Cardinality({a}) = 1 /\ Cardinality({}) = 0
    BY <1>1, OneGiven
<1>3. StaffsDecisions(ag, 1, job)
    <2>1. ASSUME NEW d \in Decisions
          PROVE  /\ Needs(ag, d) \in Nat
                 /\ Needs(ag, d) = 0 \/ ~MayServe(a, d)
                 /\ Given(job, d) = {}
        BY <1>1, <1>2, NeedsCount
    <2> HIDE DEF ag, job
    <2> QED
        BY <1>2, <2>1 DEF StaffsDecisions
<1>4. /\ r \in QuestionRecords /\ r.answered \subseteq r.contributors
      /\ r.synthesizer \in r.contributors \cup {Nobody}
    BY DEF IInv, TypeOK, QuestionInv, QuestionOk, QuestionValid
<1>5. /\ qs[q].status = "Open" /\ qs[q].synthesizer = Nobody
      /\ qs[q].answered = r.answered /\ qs[q].contributors = r.answered
    <2>1. Serving(ag, q) = {}
        <3>1. q # Nothing
            BY NothingAssumption
        <3>2. ASSUME NEW b \in Agents, ag[b].subject = q PROVE b \in Serving(agents, q)
            BY <3>1, <3>2 DEF Expired, Unassigned, Serving, AssignedTo, IInv, TypeOK, AgentRecords
        <3> QED
            BY <3>2 DEF Serving, AssignedTo
    <2>2. qs[q] = [r EXCEPT !.assigned = IF @ \in r.answered \cup {} THEN @ ELSE Nobody,
                            !.synthesizer = IF @ \in {} THEN @ ELSE Nobody,
                            !.contributors = @ \cap (r.answered \cup {})]
        BY <2>1 DEF Reconciled
    <2> QED
        BY <1>4, <2>2 DEF QuestionRecords
<1>6. r.answered \in SUBSET Agents /\ Cardinality(r.answered) \in Nat
    BY <1>4, Counting DEF QuestionRecords
<1>7. a \in r.answered \/ (a \notin r.contributors /\ Cardinality(r.answered) < MaxContributors)
    BY DEF MayTake
<1> HIDE DEF ag, qs, job, r
<1>8. StaffsQuestion(qs[q], {a}, {}, 0)
    <2>1. CASE a \in r.answered
        BY <1>2, <1>5, <2>1 DEF StaffsQuestion, AwaitsSynthesis
    <2>2. CASE a \notin r.contributors /\ Cardinality(r.answered) < MaxContributors
        <3>1. 1 <= MaxContributors - Cardinality(r.answered)
            BY <1>6, <2>2, LimitAssumption
        <3>2. {a} \cap qs[q].contributors = {}
            BY <1>4, <1>5, <2>2
        <3> QED
            BY <1>2, <1>5, <3>1, <3>2 DEF StaffsQuestion
    <2> QED
        BY <1>7, <2>1, <2>2
<1>9. StaffsQuestions(qs, 1, job)
    <2>1. ASSUME NEW p \in Questions, p # q
          PROVE  Given(job, p) = {} /\ StaffsQuestion(qs[p], {}, {}, 0)
        BY <1>2, <2>1 DEF StaffsQuestion
    <2>2. Given(job, q) = {a}
        BY <1>2
    <2> QED
        BY <1>2, <1>8, <2>1, <2>2 DEF StaffsQuestions
<1> QED
    BY <1>1, <1>3, <1>9 DEF ag, qs, job

-----------------------------------------------------------------------------
(* The theorems *)

LEMMA InitInvariant == Init => IInv
<1> SUFFICES ASSUME Init PROVE IInv
    OBVIOUS
<1>1. Nothing \notin Decisions \cup Questions
    BY NothingAssumption
<1>2. TypeOK
    <2>1. NewAgent \in AgentRecords /\ NoQuestion \in QuestionRecords
        BY DEF NewAgent, AgentRecords, NoQuestion, QuestionRecords
    <2>2. NoDecision \in DecisionRecords
        BY LimitAssumption DEF NoDecision, DecisionRecords, Stages
    <2> QED
        BY <2>1, <2>2 DEF Init, TypeOK
<1>3. ASSUME NEW d \in Decisions
      PROVE  /\ decisions[d] = NoDecision /\ AssignedTo(agents, d) = {}
             /\ DecisionOk(NoDecision)
    BY <1>1 DEF Init, NewAgent, AssignedTo, NoDecision, DecisionOk, Formal
<1>4. DecisionInv
    <2>1. DecisionWork(agents, decisions)
        BY <1>3 DEF DecisionWork, AssignedTo
    <2>2. Cardinality({}) = 0
        BY FS_EmptySet
    <2>3. DecisionSlots(agents, decisions)
        <3>1. ASSUME NEW d \in Decisions
              PROVE  Cardinality(decisions[d].assessed) = 0
            BY <1>3, <2>2 DEF NoDecision
        <3> QED
            BY <1>3, <2>2, <3>1, RequiredCount DEF DecisionSlots
    <2> QED
        BY <1>3, <2>1, <2>3 DEF DecisionInv
<1>5. QuestionInv
    <2>1. QuestionOk(NoQuestion)
        BY FS_EmptySet, LimitAssumption DEF QuestionOk, QuestionValid, NoQuestion
    <2>2. QuestionWork(agents, questions)
        BY <1>1 DEF QuestionWork, Holds, Init, NewAgent
    <2> QED
        BY <2>1, <2>2 DEF QuestionInv, Init
<1> QED
    BY <1>2, <1>4, <1>5 DEF IInv

LEMMA StepKeeps == IInv /\ [Next]_vars => Keeps
<1> SUFFICES ASSUME IInv, [Next]_vars PROVE Keeps
    OBVIOUS
<1>1. ASSUME NEW a \in Agents, Join(a) \/ Heartbeat(a) \/ Release(a)
      PROVE  Keeps
    <2>1. CASE Join(a) \/ HeartbeatReclaims(a)
        BY <2>1, ReclaimKeeps DEF Join, HeartbeatReclaims
    <2> QED
        BY <1>1, <2>1, RenewKeeps, ReleaseKeeps DEF Heartbeat
<1>2. ASSUME NEW a \in Agents, NEW d \in Decisions,
             \/ \E significance \in Significances : ProposeDecision(a, d, significance)
             \/ Assess(a, d)
             \/ \E asks \in BOOLEAN : Challenge(a, d, asks)
             \/ \E falsifies \in SUBSET Options : RecordExperiment(a, d, falsifies)
             \/ RequestAdjudication(a, d)
             \/ \E outcome \in Options : Adjudicate(a, d, outcome)
      PROVE  Keeps
    BY <1>2, ProposeKeeps, AssessKeeps, ChallengeKeeps, RecordExperimentKeeps,
       RequestAdjudicationKeeps, AdjudicateKeeps
<1>3. ASSUME NEW a \in Agents, AgentStep(a)
      PROVE  Keeps
    BY <1>1, <1>2, <1>3, AnswerKeeps DEF AgentStep
<1>4. CASE HumanStep
    BY <1>4, RemoveKeeps, ClockKeeps, AskKeeps, HoldKeeps DEF HumanStep
<1>5. CASE Environment
    BY <1>5, ClockKeeps DEF Environment
<1>6. CASE Tick
    BY <1>6, TickKeeps
<1>7. CASE UNCHANGED vars
    BY <1>7, HoldKeeps
<1> QED
    BY <1>3, <1>4, <1>5, <1>6, <1>7 DEF Next

LEMMA Invariance == Spec => []IInv
<1>1. IInv /\ [Next]_vars => IInv'
    BY StepKeeps DEF Keeps
<1> QED
    BY <1>1, InitInvariant, PTL DEF Spec

\* Whatever the agents, the clock and the human do, the records stay what the
\* program can hold; a debate never counts more rounds than its limit.
THEOREM CouncilTypes == Spec => []TypeOK
<1>1. IInv => TypeOK
    BY DEF IInv
<1> QED
    BY <1>1, Invariance, PTL

\* No handler and no tick builds decisions or questions that
\* MissionSnapshot::validate refuses.
THEOREM CouncilStaysValid == Spec => []CouncilValid
<1>1. IInv => CouncilValid
    <2> SUFFICES ASSUME IInv PROVE CouncilValid
        OBVIOUS
    <2>1. ASSUME NEW d \in Decisions
          PROVE  DecisionValid(decisions[d])
        BY OneDecision, NothingAssumption DEF DecisionValid, DecisionOk
    <2>2. \A q \in Questions : QuestionValid(questions[q])
        BY OneQuestion DEF QuestionOk
    <2> QED
        BY <2>1, <2>2 DEF CouncilValid
<1> QED
    BY <1>1, Invariance, PTL

\* An answered question has the answers of all its contributors, the
\* synthesizer's among them, though only their number was compared.
THEOREM SynthesisIsFromAll == Spec => []SynthesisFromAll
<1>1. IInv => SynthesisFromAll
    <2> SUFFICES ASSUME IInv, NEW q \in Questions, questions[q].status = "Answered"
                 PROVE  /\ questions[q].contributors = questions[q].answered
                        /\ questions[q].synthesizer \in questions[q].answered
        BY DEF SynthesisFromAll
    <2>1. /\ questions[q].contributors \in SUBSET Agents /\ QuestionValid(questions[q])
        BY OneQuestion DEF QuestionRecords, QuestionOk
    <2>2. questions[q].answered = questions[q].contributors
        BY <2>1, Counting DEF QuestionValid
    <2> QED
        BY <2>1, <2>2 DEF QuestionValid
<1> QED
    BY <1>1, Invariance, PTL

\* A final decision had its assessments, an adjudicator that did not propose it
\* and an outcome that no experiment contradicts.
THEOREM OutcomeIsJustified == Spec => []OutcomeJustified
<1>1. IInv => OutcomeJustified
    BY DEF IInv, DecisionInv, DecisionOk, OutcomeJustified
<1> QED
    BY <1>1, Invariance, PTL

\* Only the last assessment or an experiment ends the independent first pass.
THEOREM DebateFollowsReview == Spec => []DebateAfterReview
<1>1. IInv => DebateAfterReview
    BY DEF IInv, DecisionInv, DecisionOk, DebateAfterReview
<1> QED
    BY <1>1, Invariance, PTL

\* Assessments and reviewers at work never exceed what a decision asks for.
THEOREM NoReviewerTooMany == Spec => []NoSpareReviewers
<1>1. IInv => NoSpareReviewers
    BY DEF IInv, DecisionInv, DecisionSlots, NoSpareReviewers
<1> QED
    BY <1>1, Invariance, PTL

\* An agent with running leases never holds what is settled or what it has done.
THEOREM NobodyIdles == Spec => []NobodyIdlesOnSettled
<1>1. IInv => NobodyIdlesOnSettled
    BY DEF IInv, DecisionInv, DecisionWork, QuestionInv, QuestionWork, Holds,
           NobodyIdlesOnSettled
<1> QED
    BY <1>1, Invariance, PTL

\* Whatever waits for an agent, and for which there is one and a slot, can be given
\* out by a tick, unless another subject takes the agent first.
THEOREM NothingIsStranded == Spec => []NothingStranded
<1>1. ASSUME IInv PROVE NothingStranded
    <2> DEFINE ag == Expired(agents)
               qs == Reconciled(ag, questions)
    <2> SUFFICES ASSUME NEW s \in Subjects, Waits(s), Serving(agents, s) = {},
                        NEW a \in Agents, Available(agents[a]), MayTake(a, s),
                        Cardinality({b \in Agents : ag[b].subject # Nothing}) < ReasoningSlots
                 PROVE  \E job \in Jobs(ag, qs) : \E b \in DOMAIN job :
                            job[b] \notin {Nothing, agents[b].subject}
        BY DEF NothingStranded
    <2>1. CASE \E d \in Decisions : Needs(ag, d) > 0 /\ MayServe(a, d)
        BY <1>1, <2>1, DecisionJob, OneJob
    <2>2. CASE \A d \in Decisions : ~(Needs(ag, d) > 0 /\ MayServe(a, d))
        <3>1. s \in Questions
            <4> SUFFICES ASSUME s \notin Questions PROVE FALSE
                OBVIOUS
            <4>1. s \in Decisions /\ s # Nothing
                BY NothingAssumption DEF Subjects
            <4>2. decisions[s].stage = "ReadyToAdjudicate" /\ a # decisions[s].proposer
                BY DEF Waits, MayTake
            <4>3. AssignedTo(ag, s) = {}
                BY <1>1, <4>1 DEF Expired, Unassigned, Serving, AssignedTo, IInv, TypeOK,
                                  AgentRecords
            <4>4. Needs(ag, s) = 1
                BY <4>2, <4>3, FS_EmptySet DEF Needs
            <4>5. MayServe(a, s)
                BY <4>2 DEF MayServe
            <4> QED
                BY <2>2, <4>1, <4>4, <4>5
        <3>2. questions[s].status = "Open"
            BY <3>1 DEF Waits
        <3> QED
            BY <1>1, <2>2, <3>1, <3>2, QuestionJob, OneJob
    <2> QED
        BY <2>1, <2>2
<1> QED
    BY <1>1, Invariance, PTL

\* No step takes back what an agent wrote, or changes what is settled.
THEOREM ContributionsAreKept == Spec => ContributionsKept
<1>1. IInv /\ [Next]_vars => [DecisionsKept /\ QuestionsKept]_vars
    BY StepKeeps DEF Keeps
<1> QED
    BY <1>1, Invariance, PTL DEF Spec, ContributionsKept
=============================================================================
