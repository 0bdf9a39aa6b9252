----------------------------- MODULE TaskPromise -----------------------------
(***************************************************************************)
(* What a mission promises of each of its tasks: the work of a task begins *)
(* when what it depends on is done; it is approved, by somebody else than  *)
(* its worker, after it was submitted; it is verified only while that      *)
(* approval stands, which a directive of the human ends; and it is merged  *)
(* only by a merge that no directive came after.                           *)
(*                                                                         *)
(* MissionWork implements it with leases, evidence and reviews that grow   *)
(* stale, overlays, and integrations that end long after they began.       *)
(***************************************************************************)
CONSTANTS Tasks, Agents, NoOne

VARIABLES
    phase,      \* "open" (nobody works on it), "working", "review" (submitted),
                \* "verified" or "merged"
    needs,      \* the tasks that a task depends on
    worker,     \* who began to work on it last
    approval,   \* who approved what is submitted, verified or merged
    merges      \* the merges under way, and whether no directive came since

task == <<phase, worker, approval>>

Init ==
    /\ phase = [t \in Tasks |-> "open"]
    /\ needs = [t \in Tasks |-> {}]
    /\ worker = [t \in Tasks |-> NoOne]
    /\ approval = [t \in Tasks |-> NoOne]
    /\ merges = {}

\* Nothing happens to a task, or it moves on within its phase or to the next.
Goes(t, from, to, by) ==
    /\ phase[t] \in from /\ phase'[t] = to
    /\ worker'[t] = worker[t] /\ approval'[t] = by

Keeps(t) == Goes(t, {phase[t]}, phase[t], approval[t])
Submit(t) == Goes(t, {"working"}, "review", NoOne)
Approve(t) == \E a \in Agents \ {worker[t]} : Goes(t, {"review"}, "review", a)
Verify(t) == approval[t] # NoOne /\ Goes(t, {"review"}, "verified", approval[t])

\* Somebody begins, perhaps in the place of a worker that vanished.
Start(t) ==
    /\ phase[t] \in {"open", "working"} /\ phase'[t] = "working"
    /\ \A d \in needs[t] : phase[d] \in {"verified", "merged"}
    /\ worker'[t] \in Agents /\ approval'[t] = NoOne

\* What was not verified may be given up at any time: a lease expires, a review
\* rejects, the human stops the mission.
GiveUp(t) == Goes(t, {"working", "review"}, "open", NoOne)

\* A handler or a tick, for all tasks at once; a task may gain dependencies.
Work ==
    /\ \A t \in Tasks : \/ Keeps(t) \/ Start(t) \/ Submit(t)
                        \/ Approve(t) \/ Verify(t) \/ GiveUp(t)
    /\ \A t \in Tasks : needs[t] \subseteq needs'[t]
    /\ UNCHANGED merges

\* The human gives a directive: what is not merged has to be approved anew.
Redirect ==
    /\ phase' = [t \in Tasks |-> IF phase[t] = "verified" THEN "open" ELSE phase[t]]
    /\ approval' = [t \in Tasks |-> IF phase[t] = "merged" THEN approval[t] ELSE NoOne]
    /\ merges' = {<<m[1], FALSE>> : m \in merges}
    /\ UNCHANGED <<needs, worker>>

BeginMerge(t) ==
    /\ phase[t] = "verified"
    /\ merges' = merges \cup {<<t, TRUE>>}
    /\ UNCHANGED <<task, needs>>

\* A merge succeeds, fails and puts the task back, or leaves it as it is.
EndMerge(m) ==
    LET t == m[1] IN
    /\ \/ Keeps(t)
       \/ m[2] /\ Goes(t, {"verified"}, "merged", approval[t])
       \/ Goes(t, {phase[t]}, "open", NoOne)
    /\ \A s \in Tasks \ {t} : Keeps(s)
    /\ merges' = merges \ {m}
    /\ UNCHANGED needs

\* A restart forgets the merges that were under way.
Restart == merges' = {} /\ UNCHANGED <<task, needs>>

Next ==
    \/ Work \/ Redirect \/ Restart
    \/ \E t \in Tasks : BeginMerge(t)
    \/ \E m \in merges : EndMerge(m)

Spec == Init /\ [][Next]_<<task, needs, merges>>
=============================================================================
