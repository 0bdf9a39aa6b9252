------------------------- MODULE ContinuationProofs -------------------------
(***************************************************************************)
(* Theorems about Continuation for any number of jobs, every set of tabs,  *)
(* sessions and workspaces, and every bound on attempts and revisions.     *)
(*                                                                         *)
(* BridgeInv types the state and says of the records in memory, and of     *)
(* those on disk, that a conversation has one unfinished job and is bound  *)
(* where that job is delivered.  It holds whichever saves fail.            *)
(*                                                                         *)
(* DeliveryInv follows a message from the authorisation of its click to    *)
(* its acknowledgement: what the tabs, the workers and the requests on     *)
(* their way say of it agrees with the records in memory and on disk.  It  *)
(* needs the saves of begin_send and of a close to succeed, as the code's  *)
(* promise does, and gives the refinement of ContinuationPromise.          *)
(*                                                                         *)
(* Deadlines says that a deadline that passed has passed on disk too.      *)
(* With BridgeInv it gives that every job is settled, whichever saves fail *)
(* and however often the bridge is restarted.                              *)
(***************************************************************************)
EXTENDS Continuation, FiniteSetTheorems, TLAPS

-----------------------------------------------------------------------------
(* The types, and the records of the bridge *)

Requests ==
    {q \in [op : {"begin1", "begin2", "ack"}, target : Targets, job : Jobs,
            revision : 0..MaxRevision, token : 1..MaxAttempts,
            status : {"none", "failed", "uncertain", "delivered", "not_sent"}] :
        q.op = "ack" <=> q.status # "none"}
Letters == [kind : {"prepare", "commit"}, job : Jobs, revision : 0..MaxRevision,
            token : 1..MaxAttempts]
Polls == [stage : Stages \ {"idle"}, job : Jobs, revision : 0..MaxRevision,
          token : 1..MaxAttempts]

ExtensionTyped ==
    /\ live \subseteq Targets
    /\ net \subseteq Requests
    /\ worker \in [Targets -> Polls \union {Idle}]
    /\ mail \in [Targets -> SUBSET Letters]
    /\ clicks \in [Jobs -> Nat]

\* An unfinished job knows its conversation, and a pending one may still be claimed.
JobsOk(js) ==
    /\ js \in [Jobs -> JobRecords]
    /\ \A j \in Jobs : js[j].state = "Pending" => js[j].attempts < MaxAttempts
    /\ \A j \in Jobs : js[j].state \in Active => js[j].target \in Targets /\ js[j].session \in Sessions

\* A conversation has one unfinished job.
Single(js) == \A i, j \in Jobs :
    js[i].state \in Active /\ js[j].state \in Active /\ js[i].target = js[j].target => i = j

\* Unfinished work is delivered where its session is bound.
BoundIn(js, b) == \A j \in Jobs : js[j].state \in Active => b[js[j].session] = js[j].target

Bindings == [Sessions -> Targets \union {None}]
StoreOk(js, b) == JobsOk(js) /\ Single(js) /\ b \in Bindings /\ BoundIn(js, b)

\* The stores in memory and on disk, which a failed save lets differ.
StoresOk ==
    /\ StoreOk(jobs, bound)
    /\ disk = [jobs |-> disk.jobs, bound |-> disk.bound]
    /\ StoreOk(disk.jobs, disk.bound)

BridgeInv == StoresOk /\ ExtensionTyped

-----------------------------------------------------------------------------
(* What the extension holds of a message agrees with the records *)

Ended == {"Delivered", "Failed", "Cancelled", "Uncertain"}
Early == {"preparing", "begin1", "begin2"}

\* The clicks that are authorised and not made yet.
Commits(t) == {m \in mail[t] : m.kind = "commit"}

\* The worker of the tab is busy with attempt k of the job.
Holds(t, j, k) == worker[t].stage # "idle" /\ worker[t].job = j /\ worker[t].token = k
NoCommit(j, k) == \A t \in Targets : \A m \in Commits(t) : ~(m.job = j /\ m.token = k)

\* A record that has made attempt k will not make it again.
Reached(x, k) == x.state \in Ended \/ (x.state \in Active /\ x.attempts >= k)

\* If attempt k is the one that may click, it has not clicked.
Unclicked(j, x, k) == x.state = "Sending" /\ x.attempts = k => clicks[j] = 0

\* How far the record d on disk may be from the record r in memory: what must not be
\* offered again after a restart is known to the disk too.
StoreFollows(r, d) ==
    /\ r.state = "Absent" => d.state = "Absent"
    /\ r.state = "Sending" => d.state = "Sending" /\ d.attempts = r.attempts
    /\ r.state = "Uncertain" => d.state \in {"Sending", "Uncertain"}
    /\ r.state = "Delivered" => d.state \in {"Sending", "Delivered"}
    /\ r.state = "Cancelled" /\ ~r.expired => d.state \notin {"Pending", "Claimed"}

\* A click on its way belongs to the attempt that the record x has authorised, a click
\* that was made is not forgotten, and a worker is not ahead of the record.
InStep(j, x) ==
    /\ \A t \in Targets : \A m \in Commits(t) : m.job = j =>
          /\ x.state \in {"Sending", "Uncertain"}
          /\ x.state = "Sending" => x.attempts = m.token
    /\ clicks[j] > 0 => x.state \in {"Sending", "Uncertain", "Delivered"}
    /\ \A t \in Targets : worker[t].stage # "idle" /\ worker[t].job = j => Reached(x, worker[t].token)
    /\ \A t \in Targets : worker[t].stage \in Early /\ worker[t].job = j =>
          Unclicked(j, x, worker[t].token)

\* A job has one click on its way, and then it has not been clicked.
CommitsOk ==
    /\ \A t \in Targets : \A m \in Commits(t) : clicks[m.job] = 0
    /\ \A t1, t2 \in Targets : \A m1 \in Commits(t1), m2 \in Commits(t2) :
          m1.job = m2.job => t1 = t2 /\ m1 = m2

\* An attempt has one worker, and none of its clicks is on its way before the worker
\* heard that it may send.
WorkersOk ==
    /\ \A t1, t2 \in Targets, j \in Jobs, k \in 1..MaxAttempts :
          Holds(t1, j, k) /\ Holds(t2, j, k) => t1 = t2
    /\ \A t \in Targets : worker[t].stage \in Early => NoCommit(worker[t].job, worker[t].token)

\* An acknowledgement says what happened: delivered after a click, not sent when the
\* attempt has not clicked and will not.
AckFine(q) ==
    /\ q.status = "delivered" => clicks[q.job] > 0
    /\ q.status = "not_sent" =>
          /\ NoCommit(q.job, q.token)
          /\ \A t \in Targets : ~Holds(t, q.job, q.token)
          /\ Reached(jobs[q.job], q.token)
          /\ Unclicked(q.job, jobs[q.job], q.token)
AcksOk == \A q \in net : q.op = "ack" => AckFine(q)
RecordsOk == \A j \in Jobs :
    StoreFollows(jobs[j], disk.jobs[j]) /\ InStep(j, jobs[j]) /\ InStep(j, disk.jobs[j])

\* JobsOk, for one record.
RecordOk(r) ==
    /\ r \in JobRecords
    /\ r.state = "Pending" => r.attempts < MaxAttempts
    /\ r.state \in Active => r.target \in Targets /\ r.session \in Sessions

\* The new record does not begin work, nor move it to another conversation.
Kept(r, r2) ==
    r2.state \in Active => r.state \in Active /\ r2.target = r.target /\ r2.session = r.session

-----------------------------------------------------------------------------
(* Operators on records and stores *)

LEMMA JobsOkDef ==
    ASSUME NEW js
    PROVE  JobsOk(js) <=> /\ js = [j \in Jobs |-> js[j]]
                          /\ \A j \in Jobs : RecordOk(js[j])
BY DEF JobsOk, RecordOk

\* A job that is over keeps its type, and whether it had expired.
LEMMA OverOk ==
    ASSUME NEW r \in JobRecords, NEW s \in Ended
    PROVE  RecordOk(Over(r, s)) /\ Over(r, s).state = s /\ Over(r, s).expired = r.expired
<1>1. 0 \in 0..MaxRevision /\ 0 \in 0..MaxAttempts
  BY ContinuationAssumption
<1>2. NoJob \in JobRecords
  BY <1>1 DEF NoJob, JobRecords, States
<1>3. s \in States /\ r.expired \in BOOLEAN /\ s \notin Active
  BY DEF Ended, States, JobRecords, Active
<1>4. Over(r, s) \in JobRecords
  BY <1>2, <1>3 DEF Over, JobRecords
<1>5. Over(r, s).state = s
  BY <1>2 DEF Over, JobRecords
<1>6. Over(r, s).expired = r.expired
  BY <1>2 DEF Over, JobRecords
<1> QED BY <1>3, <1>4, <1>5, <1>6 DEF RecordOk, Active

\* A retry offers the job again with the attempts it had, or gives it up.
LEMMA RetriedOk ==
    ASSUME NEW r, RecordOk(r), r.state \in InFlight
    PROVE  /\ RecordOk(Retried(r)) /\ Kept(r, Retried(r))
           /\ \/ Retried(r).state = "Pending" /\ Retried(r).attempts = r.attempts
              \/ Retried(r).state = "Failed"
<1>1. CASE r.attempts < MaxAttempts /\ ~r.expired
  BY <1>1 DEF Retried, RecordOk, Kept, JobRecords, States, Active, InFlight
<1>2. CASE ~(r.attempts < MaxAttempts /\ ~r.expired)
  <2>1. Retried(r) = Over(r, "Failed")
    BY <1>2 DEF Retried
  <2>2. r \in JobRecords /\ "Failed" \in Ended
    BY DEF RecordOk, Ended
  <2> QED BY <2>1, <2>2, OverOk DEF Kept, Active
<1> QED BY <1>1, <1>2

\* What the cleanup does to one record.
LEMMA CleanedJobOk ==
    ASSUME NEW r, RecordOk(r)
    PROVE  /\ RecordOk(CleanedJob(r)) /\ Kept(r, CleanedJob(r))
           /\ CleanedJob(r).state = "Pending" => ~CleanedJob(r).expired
           /\ \/ CleanedJob(r) = r
              \/ r.state = "Pending" /\ r.expired /\ CleanedJob(r).state = "Cancelled"
                 /\ CleanedJob(r).expired
              \/ r.state = "Claimed" /\ CleanedJob(r).state = "Failed"
              \/ r.state = "Claimed" /\ CleanedJob(r).state = "Pending"
                 /\ CleanedJob(r).attempts = r.attempts
              \/ r.state = "Sending" /\ CleanedJob(r).state = "Uncertain"
<1>1. r \in JobRecords BY DEF RecordOk
<1>2. CASE r.state = "Pending" /\ r.expired
  <2>1. CleanedJob(r) = Over(r, "Cancelled") BY <1>2 DEF CleanedJob
  <2> QED BY <1>1, <1>2, <2>1, OverOk DEF Ended, Kept, Active
<1>3. CASE r.state = "Claimed" /\ r.lapsed
  <2>1. CleanedJob(r) = Retried(r) BY <1>3 DEF CleanedJob
  <2>2. r.state \in InFlight BY <1>3 DEF InFlight
  <2>3. Retried(r).state = "Pending" => ~Retried(r).expired
    <3>1. CASE r.attempts < MaxAttempts /\ ~r.expired
      BY <1>1, <3>1 DEF Retried, JobRecords
    <3>2. CASE ~(r.attempts < MaxAttempts /\ ~r.expired)
      BY <1>1, <3>2, OverOk DEF Retried, Ended
    <3> QED BY <3>1, <3>2
  <2> QED BY <1>3, <2>1, <2>2, <2>3, RetriedOk
<1>4. CASE r.state = "Sending" /\ r.lapsed
  <2>1. CleanedJob(r) = Over(r, "Uncertain") BY <1>4 DEF CleanedJob, InFlight
  <2> QED BY <1>1, <1>4, <2>1, OverOk DEF Ended, Kept, Active
<1>5. CASE /\ ~(r.state = "Pending" /\ r.expired)
           /\ ~(r.state = "Claimed" /\ r.lapsed) /\ ~(r.state = "Sending" /\ r.lapsed)
  <2>1. CleanedJob(r) = r BY <1>5 DEF CleanedJob, InFlight
  <2> QED BY <1>5, <2>1 DEF Kept
<1> QED BY <1>2, <1>3, <1>4, <1>5

\* A store whose jobs only go on or end is as sound as it was.
LEMMA StoreShrinks ==
    ASSUME NEW js, NEW b, NEW js2, StoreOk(js, b),
           js2 = [j \in Jobs |-> js2[j]],
           \A j \in Jobs : RecordOk(js2[j]) /\ Kept(js[j], js2[j])
    PROVE  StoreOk(js2, b)
<1>1. JobsOk(js2) BY JobsOkDef
<1>2. Single(js2) BY DEF StoreOk, Single, Kept
<1>3. BoundIn(js2, b) BY DEF StoreOk, BoundIn, Kept
<1> QED BY <1>1, <1>2, <1>3 DEF StoreOk

\* cleanup_locked keeps a store sound.
LEMMA CleanedOk ==
    ASSUME NEW js, NEW b, StoreOk(js, b)
    PROVE  StoreOk(Cleaned(js), b) /\ JobsOk(Cleaned(js))
<1>1. \A j \in Jobs : RecordOk(js[j]) BY JobsOkDef DEF StoreOk
<1>2. \A j \in Jobs : Cleaned(js)[j] = CleanedJob(js[j]) BY DEF Cleaned
<1>3. \A j \in Jobs : RecordOk(Cleaned(js)[j]) /\ Kept(js[j], Cleaned(js)[j])
  BY <1>1, <1>2, CleanedJobOk
<1>4. Cleaned(js) = [j \in Jobs |-> Cleaned(js)[j]] BY DEF Cleaned
<1> HIDE DEF Cleaned
<1>5. StoreOk(Cleaned(js), b) BY <1>3, <1>4, StoreShrinks
<1> QED BY <1>5 DEF StoreOk

LEMMA SweptOk ==
    ASSUME StoresOk
    PROVE  /\ Swept = [jobs |-> Swept.jobs, bound |-> Swept.bound]
           /\ StoreOk(Swept.jobs, Swept.bound)
<1>1. StoreOk(Cleaned(jobs), bound) BY CleanedOk DEF StoresOk
<1>2. CASE Swept = disk BY <1>2 DEF StoresOk
<1>3. CASE Swept = [jobs |-> Cleaned(jobs), bound |-> bound] BY <1>1, <1>3
<1> QED BY <1>2, <1>3 DEF Swept

\* A handler that ends without a save, or with one that may fail, leaves both stores sound.
LEMMA UnsavedKeeps ==
    ASSUME StoresOk, NEW js, NEW b, StoreOk(js, b), Unsaved(js, b)
    PROVE  StoresOk'
BY SweptOk DEF Unsaved, StoresOk, StoreOk, JobsOk, Single, BoundIn

LEMMA SaveKeeps ==
    ASSUME StoresOk, NEW handler, NEW js, NEW b, StoreOk(js, b), Save(handler, js, b)
    PROVE  StoresOk'
<1>1. CASE disk' = [jobs |-> js, bound |-> b]
  BY <1>1 DEF Save, StoresOk
<1>2. CASE disk' = Swept
  BY <1>2, SweptOk DEF Save, StoresOk
<1> QED BY <1>1, <1>2 DEF Save

\* One record is replaced: it may be unfinished where its session is bound, if no other is.
LEMMA OneChanged ==
    ASSUME NEW js, NEW b, StoreOk(js, b), NEW j \in Jobs, NEW r, RecordOk(r),
           r.state \in Active =>
               /\ b[r.session] = r.target
               /\ \A i \in Jobs \ {j} : js[i].state \in Active => js[i].target # r.target
    PROVE  StoreOk([js EXCEPT ![j] = r], b)
<1> DEFINE js2 == [js EXCEPT ![j] = r]
<1>1. js = [i \in Jobs |-> js[i]] /\ \A i \in Jobs : RecordOk(js[i])
  BY JobsOkDef DEF StoreOk
<1>2. js2 = [i \in Jobs |-> js2[i]] /\ js2[j] = r /\ \A i \in Jobs \ {j} : js2[i] = js[i]
  BY <1>1
<1> HIDE DEF js2
<1>3. JobsOk(js2) BY <1>1, <1>2, JobsOkDef
<1>4. Single(js2) BY <1>2 DEF StoreOk, Single
<1>5. BoundIn(js2, b) BY <1>2 DEF StoreOk, BoundIn
<1>6. StoreOk(js2, b) BY <1>3, <1>4, <1>5 DEF StoreOk
<1> QED BY <1>6 DEF js2

\* One record goes on or ends.
LEMMA OneUpdated ==
    ASSUME NEW js, NEW b, StoreOk(js, b), NEW j \in Jobs, NEW r, RecordOk(r),
           Kept(js[j], r)
    PROVE  StoreOk([js EXCEPT ![j] = r], b)
<1>1. SUFFICES ASSUME r.state \in Active
               PROVE  /\ b[r.session] = r.target
                      /\ \A i \in Jobs \ {j} : js[i].state \in Active => js[i].target # r.target
  BY OneChanged
<1> QED BY <1>1 DEF Kept, StoreOk, Single, BoundIn

\* Max picks the one unfinished job of a conversation.
LEMMA TheOne ==
    ASSUME NEW js, NEW b, StoreOk(js, b), NEW t, NEW S \in SUBSET On(js, t, Active), S # {}
    PROVE  Max(S) \in Jobs /\ S = {Max(S)}
<1>1. PICK j \in S : TRUE OBVIOUS
<1>2. S = {j} /\ j \in Jobs BY <1>1 DEF On, StoreOk, Single
<1>3. Max(S) = j
  <2>1. j >= j BY <1>2 DEF Jobs
  <2> QED BY <1>2, <2>1 DEF Max
<1> QED BY <1>2, <1>3

\* explicit_session_rebind_allowed: no unfinished work loses its binding.
LEMMA RebindOk ==
    ASSUME StoreOk(jobs, bound), NEW js, StoreOk(js, bound), NEW s \in Sessions,
           NEW t \in Targets, RebindAllowed(js, s, t) \/ bound[s] = t
    PROVE  StoreOk(js, [bound EXCEPT ![s] = t]) /\ [bound EXCEPT ![s] = t][s] = t
<1> DEFINE B == [bound EXCEPT ![s] = t]
<1>1. bound \in Bindings BY DEF StoreOk
<1>2. B \in Bindings /\ B[s] = t /\ \A u \in Sessions \ {s} : B[u] = bound[u]
  BY <1>1 DEF Bindings
<1>3. BoundIn(js, B)
  <2>1. CASE bound[s] = t
    <3>1. B = bound BY <1>1, <2>1 DEF Bindings
    <3> QED BY <3>1 DEF StoreOk
  <2>2. CASE bound[s] # t
    <3>1. ~\E j \in Jobs : js[j].session = s /\ js[j].state \in Active
      BY <2>2 DEF RebindAllowed
    <3>2. \A j \in Jobs : js[j].state \in Active => js[j].session \in Sessions \ {s}
      BY <3>1 DEF StoreOk, JobsOk
    <3> QED BY <1>2, <3>2 DEF StoreOk, BoundIn
  <2> QED BY <2>1, <2>2
<1> QED BY <1>2, <1>3 DEF StoreOk

LEMMA RetargetOk ==
    ASSUME NEW js, NEW b, StoreOk(js, b), NEW j \in Jobs, NEW r, RecordOk(r),
           js[j].state \in Active, r.target = js[j].target, b[r.session] = r.target
    PROVE  StoreOk([js EXCEPT ![j] = r], b)
BY OneChanged DEF StoreOk, Single

LEMMA PendingOne ==
    ASSUME NEW js, NEW b, StoreOk(js, b), NEW t, NEW P \in SUBSET On(js, t, {"Pending"}), P # {}
    PROVE  /\ Max(P) \in Jobs /\ P = {Max(P)}
           /\ js[Max(P)].state = "Pending" /\ js[Max(P)].target = t /\ RecordOk(js[Max(P)])
<1>1. P \in SUBSET On(js, t, Active) BY DEF On, Active
<1>2. Max(P) \in Jobs /\ P = {Max(P)} BY <1>1, TheOne
<1>3. Max(P) \in On(js, t, {"Pending"}) BY <1>2
<1>4. RecordOk(js[Max(P)]) BY <1>2, JobsOkDef DEF StoreOk
<1> QED BY <1>2, <1>3, <1>4 DEF On

\* A newer checkpoint takes over the pending job of its conversation, by a call or by the
\* guard of running work.
LEMMA ReplacedOk ==
    ASSUME NEW js, NEW b, StoreOk(js, b), NEW s \in Sessions, NEW t \in Targets, b[s] = t,
           NEW P \in SUBSET On(js, t, {"Pending"}), P # {}, MayRevise(js, P)
    PROVE  StoreOk(Replaced(js, P, s), b) /\ StoreOk(Guarded(js, P, s), b)
<1> DEFINE m == Max(P)
           x == js[m]
           r1 == [x EXCEPT !.revision = @ + 1, !.session = s, !.expired = FALSE, !.exact = TRUE]
           r2 == IF x.exact THEN [x EXCEPT !.session = s]
                 ELSE [x EXCEPT !.revision = @ + 1, !.session = s, !.expired = FALSE]
<1>1. /\ m \in Jobs /\ P = {m} /\ x.state = "Pending" /\ x.target = t /\ RecordOk(x)
  BY PendingOne
<1>2. x.revision + 1 \in 0..MaxRevision
  BY <1>1, ContinuationAssumption DEF MayRevise, RecordOk, JobRecords
<1>3. RecordOk(r1) /\ r1.state = x.state /\ r1.target = x.target /\ r1.session = s
  BY <1>1, <1>2 DEF RecordOk, JobRecords
<1>4. RecordOk(r2) /\ r2.state = x.state /\ r2.target = x.target /\ r2.session = s
  <2>1. CASE x.exact BY <1>1, <2>1 DEF RecordOk, JobRecords
  <2>2. CASE ~x.exact BY <1>1, <1>2, <2>2 DEF RecordOk, JobRecords
  <2> QED BY <2>1, <2>2
<1>5. js = [i \in Jobs |-> js[i]] BY JobsOkDef DEF StoreOk
<1>6. Replaced(js, P, s) = [js EXCEPT ![m] = r1] /\ Guarded(js, P, s) = [js EXCEPT ![m] = r2]
  <2>1. Replaced(js, P, s) = [i \in Jobs |-> IF i = m THEN r1 ELSE js[i]]
    BY <1>1 DEF Replaced
  <2>2. Guarded(js, P, s) = [i \in Jobs |-> IF i = m THEN r2 ELSE js[i]]
    BY <1>1 DEF Guarded
  <2> QED BY <1>1, <1>5, <2>1, <2>2
<1> HIDE DEF r1, r2, m
<1>7. x.state \in Active BY <1>1 DEF Active
<1>8. StoreOk([js EXCEPT ![m] = r1], b)
  BY <1>1, <1>3, <1>7, RetargetOk
<1>9. StoreOk([js EXCEPT ![m] = r2], b)
  BY <1>1, <1>4, <1>7, RetargetOk
<1> QED BY <1>6, <1>8, <1>9

\* A new job is added to a conversation without unfinished work.
LEMMA PushedOk ==
    ASSUME NEW js, NEW b, StoreOk(js, b), NEW s \in Sessions, NEW t \in Targets, b[s] = t,
           NEW w \in Workspaces, NEW exact \in BOOLEAN,
           On(js, t, Active) = {}, NEW js2 \in Pushed(js, t, s, w, exact)
    PROVE  StoreOk(js2, b)
<1> DEFINE r == [NoJob EXCEPT !.state = "Pending", !.target = t, !.session = s,
                              !.workspace = w, !.exact = exact, !.revision = 1]
<1>1. PICK j \in Jobs : js2 = [js EXCEPT ![j] = r]
  BY DEF Pushed, Fresh
<1>2. 1 \in 0..MaxRevision /\ 0 \in 0..MaxRevision /\ 0 \in 0..MaxAttempts /\ 0 < MaxAttempts
  BY ContinuationAssumption
<1>3. RecordOk(r) /\ r.target = t /\ r.session = s
  BY <1>2 DEF RecordOk, JobRecords, NoJob, States
<1>4. \A i \in Jobs : js[i].state \in Active => js[i].target # r.target
  BY <1>3 DEF On
<1> HIDE DEF r
<1>5. b[r.session] = r.target BY <1>3
<1>6. StoreOk([js EXCEPT ![j] = r], b) BY <1>3, <1>4, <1>5, OneChanged
<1> QED BY <1>1, <1>6

\* Where no job of another workspace is unfinished, and none of this one is pending or in
\* flight, none is.
LEMMA NoneActive ==
    ASSUME NEW js, NEW t, NEW w, ~OtherWorkspace(js, t, w),
           Of(js, t, w, {"Pending"}) = {}, Of(js, t, w, InFlight) = {}
    PROVE  On(js, t, Active) = {}
BY DEF OtherWorkspace, Of, On, Active, InFlight

-----------------------------------------------------------------------------
(* Every step keeps BridgeInv *)

LEMMA QueueOk ==
    ASSUME StoresOk, NEW s \in Sessions, NEW w \in Workspaces, NEW t \in Targets,
           NEW explicit \in BOOLEAN, Queue(s, w, t, explicit)
    PROVE  StoresOk'
<1> DEFINE C == Cleaned(jobs)
           P == Of(C, t, w, {"Pending"})
           B == [bound EXCEPT ![s] = t]
<1>1. StoreOk(jobs, bound) /\ StoreOk(C, bound) BY CleanedOk DEF StoresOk
<1>2. /\ IF explicit THEN t \in live /\ RebindAllowed(C, s, t) ELSE bound[s] = t
      /\ ~OtherWorkspace(C, t, w)
      /\ MayRevise(C, P)
      /\ IF P # {} THEN Save("queue", Replaced(C, P, s), B)
         ELSE IF Of(C, t, w, InFlight) # {}
         THEN \/ Save("queue", C, B)
              \/ Unsaved(C, B)
         ELSE \E js \in Pushed(C, t, s, w, TRUE) : Save("queue", js, B)
  BY DEF Queue
<1>3. P \in SUBSET On(C, t, {"Pending"}) BY DEF Of, On
<1> HIDE DEF C, P
<1>4. StoreOk(C, B) /\ B[s] = t
  BY <1>1, <1>2, RebindOk
<1> HIDE DEF B
<1>5. CASE P # {}
  BY <1>2, <1>3, <1>4, <1>5, ReplacedOk, SaveKeeps
<1>6. CASE P = {} /\ Of(C, t, w, InFlight) # {}
  BY <1>2, <1>4, <1>6, SaveKeeps, UnsavedKeeps
<1>7. CASE P = {} /\ Of(C, t, w, InFlight) = {}
  <2>1. On(C, t, Active) = {} BY <1>2, <1>7, NoneActive DEF P
  <2>2. PICK js \in Pushed(C, t, s, w, TRUE) : Save("queue", js, B) BY <1>2, <1>7
  <2>3. StoreOk(js, B) BY <1>4, <2>1, <2>2, PushedOk
  <2> QED BY <2>2, <2>3, SaveKeeps
<1> QED BY <1>5, <1>6, <1>7

LEMMA EnsureOk ==
    ASSUME StoresOk, NEW s \in Sessions, NEW w \in Workspaces, Ensure(s, w)
    PROVE  StoresOk'
<1> DEFINE C == Cleaned(jobs)
           t == bound[s]
           P == Of(C, t, w, {"Pending"})
<1>1. StoreOk(jobs, bound) /\ StoreOk(C, bound) BY CleanedOk DEF StoresOk
<1>2. /\ t # None
      /\ ~OtherWorkspace(C, t, w)
      /\ MayRevise(C, P)
      /\ IF P # {} THEN Save("queue", Guarded(C, P, s), bound)
         ELSE IF Of(C, t, w, InFlight) # {} THEN Unsaved(C, bound)
         ELSE \E js \in Pushed(C, t, s, w, FALSE) : Save("queue", js, bound)
  BY DEF Ensure
<1>3. P \in SUBSET On(C, t, {"Pending"}) BY DEF Of, On
<1>4. t \in Targets /\ bound[s] = t BY <1>1, <1>2 DEF StoreOk, Bindings
<1> HIDE DEF C, P, t
<1>5. CASE P # {}
  BY <1>1, <1>2, <1>3, <1>4, <1>5, ReplacedOk, SaveKeeps
<1>6. CASE P = {} /\ Of(C, t, w, InFlight) # {}
  BY <1>1, <1>2, <1>6, UnsavedKeeps
<1>7. CASE P = {} /\ Of(C, t, w, InFlight) = {}
  <2>1. On(C, t, Active) = {} BY <1>2, <1>7, NoneActive DEF P
  <2>2. PICK js \in Pushed(C, t, s, w, FALSE) : Save("queue", js, bound) BY <1>2, <1>7
  <2>3. StoreOk(js, bound) BY <1>1, <1>4, <2>1, <2>2, PushedOk
  <2> QED BY <2>2, <2>3, SaveKeeps
<1> QED BY <1>5, <1>6, <1>7

LEMMA CloseOk ==
    ASSUME StoresOk, NEW s \in Sessions, NEW w \in Workspaces, Close(s, w)
    PROVE  StoresOk'
<1> DEFINE C == Cleaned(jobs)
<1>1. StoreOk(C, bound) BY CleanedOk DEF StoresOk
<1>2. PICK closing :
         Save("close", [j \in Jobs |-> IF j \in closing THEN ClosedJob(C[j]) ELSE C[j]], bound)
  BY DEF Close
<1> DEFINE js == [j \in Jobs |-> IF j \in closing THEN ClosedJob(C[j]) ELSE C[j]]
<1> HIDE DEF C
<1>3. \A j \in Jobs : RecordOk(C[j]) BY <1>1, JobsOkDef DEF StoreOk
<1>4. \A j \in Jobs : RecordOk(ClosedJob(C[j])) /\ Kept(C[j], ClosedJob(C[j]))
  BY <1>3, OverOk DEF ClosedJob, Kept, RecordOk, Ended, Active
<1>5. \A j \in Jobs : RecordOk(js[j]) /\ Kept(C[j], js[j])
  BY <1>3, <1>4 DEF Kept
<1>6. js = [j \in Jobs |-> js[j]] OBVIOUS
<1>7. Save("close", js, bound) BY <1>2
<1> HIDE DEF js
<1>8. StoreOk(js, bound) BY <1>1, <1>5, <1>6, StoreShrinks
<1> QED BY <1>7, <1>8, SaveKeeps

\* What is sent is typed.
LEMMA SentOk ==
    ASSUME NEW S, NEW m
    PROVE  Sent(S, m) \subseteq S \union {m}
BY DEF Sent

LEMMA PostOk ==
    ASSUME ExtensionTyped, NEW t \in Targets, NEW m \in Letters, Post(t, m)
    PROVE  mail' \in [Targets -> SUBSET Letters]
BY SentOk DEF ExtensionTyped, Post

LEMMA SendOk ==
    ASSUME ExtensionTyped, NEW q \in Requests, Send(q)
    PROVE  net' \subseteq Requests
BY SentOk DEF ExtensionTyped, Send

LEMMA LettersOk ==
    ASSUME NEW w \in Polls, NEW t \in Targets
    PROVE  /\ \A kind \in {"prepare", "commit"} : Letter(kind, w) \in Letters
           /\ \A op \in {"begin1", "begin2", "ack"},
                 status \in {"none", "failed", "uncertain", "delivered", "not_sent"} :
                    (op = "ack" <=> status # "none") => Request(op, t, w, status) \in Requests
BY DEF Polls, Letter, Letters, Request, Requests

LEMMA PollOk ==
    ASSUME ExtensionTyped, NEW t \in Targets, worker[t].stage # "idle"
    PROVE  /\ worker[t] \in Polls
           /\ \A stage \in Stages \ {"idle"} :
                 [worker EXCEPT ![t].stage = stage] \in [Targets -> Polls \union {Idle}]
<1>1. worker[t] \in Polls BY DEF ExtensionTyped, Idle
<1>2. ASSUME NEW stage \in Stages \ {"idle"}
      PROVE  [worker EXCEPT ![t].stage = stage] \in [Targets -> Polls \union {Idle}]
  <2>1. [worker[t] EXCEPT !.stage = stage] \in Polls BY <1>1 DEF Polls
  <2> QED BY <2>1 DEF ExtensionTyped
<1> QED BY <1>1, <1>2

LEMMA IdleOk ==
    ASSUME ExtensionTyped, NEW t
    PROVE  [worker EXCEPT ![t] = Idle] \in [Targets -> Polls \union {Idle}]
BY DEF ExtensionTyped

\* A claim keeps the job where it is, in memory and on disk.
LEMMA ClaimOk ==
    ASSUME BridgeInv, NEW t \in Targets, Claim(t)
    PROVE  BridgeInv'
<1> DEFINE C == Cleaned(jobs)
           j == Max(On(C, t, {"Pending"}))
           r == [C[j] EXCEPT !.state = "Claimed", !.attempts = @ + 1, !.lapsed = FALSE]
           w == [stage |-> "preparing", job |-> j, revision |-> r.revision, token |-> r.attempts]
<1>1. StoreOk(C, bound) BY CleanedOk DEF StoresOk, BridgeInv
<1>2. /\ On(C, t, {"Pending"}) # {}
      /\ Save("claim", [C EXCEPT ![j] = r], bound)
      /\ \/ /\ worker' = [worker EXCEPT ![t] = w]
            /\ Post(t, Letter("prepare", w))
         \/ UNCHANGED <<worker, mail>>
      /\ UNCHANGED <<live, net, prepared, clicks>>
  BY DEF Claim
<1> HIDE DEF C
<1>3. j \in Jobs /\ C[j].state = "Pending" /\ C[j].target = t /\ RecordOk(C[j])
  BY <1>1, <1>2, PendingOne
<1>4. C[j].attempts + 1 \in 1..MaxAttempts
  BY <1>3, ContinuationAssumption DEF RecordOk, JobRecords
<1>5. RecordOk(r) /\ r.target = C[j].target /\ r.session = C[j].session
      /\ r.attempts = C[j].attempts + 1
  <2> DEFINE x == C[j]
  <2>1. x \in JobRecords /\ x.target \in Targets /\ x.session \in Sessions
        /\ x.attempts + 1 \in 0..MaxAttempts
    BY <1>3, <1>4 DEF RecordOk, Active
  <2> HIDE DEF x
  <2>2. [x EXCEPT !.state = "Claimed", !.attempts = @ + 1, !.lapsed = FALSE] \in JobRecords
    BY <2>1 DEF JobRecords, States
  <2> QED BY <2>1, <2>2 DEF RecordOk, JobRecords, x
<1>6. w \in Polls
  BY <1>3, <1>4, <1>5 DEF Polls, Stages, RecordOk, JobRecords
<1> HIDE DEF j, r
<1>7. StoreOk([C EXCEPT ![j] = r], bound)
  BY <1>1, <1>3, <1>5, OneUpdated DEF Kept, Active
<1>8. StoresOk' BY <1>2, <1>7, SaveKeeps DEF BridgeInv
<1> HIDE DEF w
<1>9. ExtensionTyped'
  <2>1. CASE UNCHANGED <<worker, mail>>
    BY <1>2, <2>1 DEF BridgeInv, ExtensionTyped
  <2>2. CASE worker' = [worker EXCEPT ![t] = w] /\ Post(t, Letter("prepare", w))
    <3>1. Letter("prepare", w) \in Letters BY <1>6, LettersOk
    <3>2. mail' \in [Targets -> SUBSET Letters] BY <2>2, <3>1, PostOk DEF BridgeInv
    <3>3. worker' \in [Targets -> Polls \union {Idle}] BY <1>6, <2>2 DEF BridgeInv, ExtensionTyped
    <3> QED BY <1>2, <3>2, <3>3 DEF BridgeInv, ExtensionTyped
  <2> QED BY <1>2, <2>1, <2>2
<1> QED BY <1>8, <1>9 DEF BridgeInv

\* begin_send only moves a claimed job to Sending.
LEMMA ServeBeginOk ==
    ASSUME BridgeInv, NEW q \in net, ServeBegin(q)
    PROVE  BridgeInv'
<1> DEFINE C == Cleaned(jobs)
<1>1. StoreOk(C, bound) BY CleanedOk DEF StoresOk, BridgeInv
<1>2. q \in Requests /\ q.job \in Jobs /\ q.target \in Targets
  BY DEF BridgeInv, ExtensionTyped, Requests
<1>3. /\ Begun(C, q) \/ Begins(C, q) \/ Unsaved(C, bound)
      /\ Authorised(q) \/ UNCHANGED <<worker, mail>>
      /\ net' = net \ {q}
      /\ UNCHANGED <<live, prepared, clicks>>
  BY DEF ServeBegin
<1> HIDE DEF C
<1>4. StoresOk'
  <2>1. CASE Begun(C, q) BY <1>1, <2>1, UnsavedKeeps DEF Begun, BridgeInv
  <2>2. CASE Begins(C, q)
    <3> DEFINE r == [C[q.job] EXCEPT !.state = "Sending"]
    <3>1. RecordOk(C[q.job]) /\ C[q.job].state = "Claimed"
      BY <1>1, <1>2, <2>2, JobsOkDef DEF StoreOk, Begins
    <3>2. RecordOk(r) /\ Kept(C[q.job], r)
      BY <3>1 DEF RecordOk, JobRecords, States, Active, Kept
    <3>3. StoreOk([C EXCEPT ![q.job] = r], bound)
      <4> HIDE DEF r
      <4> QED BY <1>1, <1>2, <3>2, OneUpdated
    <3>4. [C EXCEPT ![q.job].state = "Sending"] = [C EXCEPT ![q.job] = r]
      OBVIOUS
    <3> QED BY <2>2, <3>3, <3>4, SaveKeeps DEF Begins, BridgeInv
  <2>3. CASE Unsaved(C, bound) BY <1>1, <2>3, UnsavedKeeps DEF BridgeInv
  <2> QED BY <1>3, <2>1, <2>2, <2>3
<1>5. ExtensionTyped'
  <2>1. CASE UNCHANGED <<worker, mail>>
    BY <1>3, <2>1 DEF BridgeInv, ExtensionTyped
  <2>2. CASE Authorised(q)
    <3>1. worker[q.target].stage # "idle"
      BY <2>2, <1>3 DEF Authorised, ServeBegin
    <3>2. worker[q.target] \in Polls /\ worker' \in [Targets -> Polls \union {Idle}]
      BY <1>2, <2>2, <3>1, PollOk DEF Authorised, Stages, BridgeInv
    <3>3. mail' \in [Targets -> SUBSET Letters]
      BY <1>2, <2>2, <3>2, LettersOk, PostOk DEF Authorised, BridgeInv
    <3> QED BY <1>3, <3>2, <3>3 DEF BridgeInv, ExtensionTyped
  <2> QED BY <1>3, <2>1, <2>2
<1> QED BY <1>4, <1>5 DEF BridgeInv

\* acknowledge offers the job again or ends it.
LEMMA AcknowledgedOk ==
    ASSUME NEW r, RecordOk(r), r.state \in InFlight, NEW status,
           r.state = "Sending" \/ status = "failed",
           status \in {"failed", "uncertain", "delivered", "not_sent"},
           NEW a \in Acknowledged(r, status)
    PROVE  RecordOk(a) /\ Kept(r, a)
<1>1. r \in JobRecords BY DEF RecordOk
<1>2. a \in {Over(r, "Delivered"), Over(r, "Uncertain"), Over(r, "Failed"), Retried(r)}
  BY DEF Acknowledged, InFlight
<1> QED BY <1>1, <1>2, OverOk, RetriedOk DEF Ended, Kept, Active

LEMMA ServeAckOk ==
    ASSUME BridgeInv, NEW q \in net, ServeAck(q)
    PROVE  BridgeInv'
<1> DEFINE C == Cleaned(jobs)
           r == C[q.job]
<1>1. StoreOk(C, bound) BY CleanedOk DEF StoresOk, BridgeInv
<1>2. q \in Requests /\ q.job \in Jobs
  BY DEF BridgeInv, ExtensionTyped, Requests
<1>3. /\ \/ /\ r.state \in InFlight
            /\ r.state = "Sending" \/ q.status = "failed"
            /\ \E a \in Acknowledged(r, q.status) : Save("ack", [C EXCEPT ![q.job] = a], bound)
         \/ Unsaved(C, bound)
      /\ net' = net \ {q}
      /\ UNCHANGED <<live, extension>>
      /\ q.op = "ack"
  BY DEF ServeAck
<1> HIDE DEF C
<1>4. StoresOk'
  <2>1. CASE Unsaved(C, bound) BY <1>1, <2>1, UnsavedKeeps DEF BridgeInv
  <2>2. CASE /\ r.state \in InFlight
             /\ r.state = "Sending" \/ q.status = "failed"
             /\ \E a \in Acknowledged(r, q.status) : Save("ack", [C EXCEPT ![q.job] = a], bound)
    <3>1. RecordOk(r) BY <1>1, <1>2, JobsOkDef DEF StoreOk
    <3>2. q.status \in {"failed", "uncertain", "delivered", "not_sent"}
      BY <1>2, <1>3 DEF Requests
    <3>3. PICK a \in Acknowledged(r, q.status) : Save("ack", [C EXCEPT ![q.job] = a], bound)
      BY <2>2
    <3>4. RecordOk(a) /\ Kept(r, a)
      BY <2>2, <3>1, <3>2, AcknowledgedOk
    <3>5. StoreOk([C EXCEPT ![q.job] = a], bound)
      BY <1>1, <1>2, <3>4, OneUpdated
    <3> QED BY <3>3, <3>5, SaveKeeps DEF BridgeInv
  <2> QED BY <1>3, <2>1, <2>2
<1>5. ExtensionTyped'
  BY <1>3 DEF BridgeInv, ExtensionTyped, extension
<1> QED BY <1>4, <1>5 DEF BridgeInv

\* A step of the extension leaves the stores alone.
LEMMA ExtensionSteps ==
    ASSUME BridgeInv, UNCHANGED <<bridge, live>>, ExtensionTyped'
    PROVE  BridgeInv'
BY DEF BridgeInv, StoresOk, bridge, StoreOk, JobsOk, Single, BoundIn

LEMMA SweepFailsOk ==
    ASSUME BridgeInv, SweepFails
    PROVE  BridgeInv'
<1>1. StoreOk(Cleaned(jobs), bound) BY CleanedOk DEF StoresOk, BridgeInv
<1>2. StoresOk' BY <1>1 DEF SweepFails, BridgeInv, StoresOk
<1> QED BY <1>2 DEF SweepFails, BridgeInv, ExtensionTyped, extension

LEMMA RegisterOk ==
    ASSUME BridgeInv, NEW t \in Targets, Register(t)
    PROVE  BridgeInv'
<1>1. StoreOk(Cleaned(jobs), bound) BY CleanedOk DEF StoresOk, BridgeInv
<1>2. StoresOk' BY <1>1, UnsavedKeeps DEF Register, BridgeInv
<1> QED BY <1>2 DEF Register, BridgeInv, ExtensionTyped, extension

\* A deadline that passes changes no record otherwise.
LEMMA FlagOk ==
    ASSUME NEW r, RecordOk(r), NEW v \in BOOLEAN
    PROVE  /\ RecordOk([r EXCEPT !.lapsed = v]) /\ Kept(r, [r EXCEPT !.lapsed = v])
           /\ RecordOk([r EXCEPT !.expired = v]) /\ Kept(r, [r EXCEPT !.expired = v])
<1>1. r \in JobRecords BY DEF RecordOk
<1>2. [r EXCEPT !.lapsed = v] \in JobRecords /\ [r EXCEPT !.expired = v] \in JobRecords
  BY <1>1 DEF JobRecords
<1> QED BY <1>1, <1>2 DEF RecordOk, JobRecords, Kept

LEMMA ClaimLapsesOk ==
    ASSUME BridgeInv, NEW j \in Jobs, ClaimLapses(j)
    PROVE  BridgeInv'
<1>1. ASSUME NEW js, NEW b, StoreOk(js, b)
      PROVE  StoreOk(Overdue(js, j), b)
  <2> DEFINE v == js[j].state \in InFlight
  <2>1. v \in BOOLEAN /\ RecordOk(js[j]) BY <1>1, JobsOkDef DEF StoreOk
  <2>2. Overdue(js, j) = [js EXCEPT ![j] = [js[j] EXCEPT !.lapsed = v]]
    BY DEF Overdue
  <2> HIDE DEF v
  <2>3. /\ RecordOk([js[j] EXCEPT !.lapsed = v])
        /\ Kept(js[j], [js[j] EXCEPT !.lapsed = v])
    BY <2>1, FlagOk
  <2>4. StoreOk([js EXCEPT ![j] = [js[j] EXCEPT !.lapsed = v]], b)
    BY <1>1, <2>3, OneUpdated
  <2> QED BY <2>2, <2>4
<1>2. StoreOk(Overdue(jobs, j), bound) /\ StoreOk(Overdue(disk.jobs, j), disk.bound)
  BY <1>1 DEF BridgeInv, StoresOk
<1>3. disk' = [jobs |-> Overdue(disk.jobs, j), bound |-> disk.bound]
  BY DEF ClaimLapses, BridgeInv, StoresOk
<1>4. StoresOk' BY <1>2, <1>3 DEF ClaimLapses, StoresOk
<1> QED BY <1>4 DEF ClaimLapses, BridgeInv, ExtensionTyped, extension

LEMMA ExpiresOk ==
    ASSUME BridgeInv, NEW j \in Jobs, Expires(j)
    PROVE  BridgeInv'
<1> DEFINE v == disk.jobs[j].expired \/ disk.jobs[j].state # "Absent"
           r == [disk.jobs[j] EXCEPT !.expired = v]
<1>1. ASSUME NEW js, NEW b, StoreOk(js, b), NEW u \in BOOLEAN
      PROVE  StoreOk([js EXCEPT ![j] = [js[j] EXCEPT !.expired = u]], b)
  <2>1. RecordOk(js[j]) BY <1>1, JobsOkDef DEF StoreOk
  <2>2. /\ RecordOk([js[j] EXCEPT !.expired = u])
        /\ Kept(js[j], [js[j] EXCEPT !.expired = u])
    BY <2>1, FlagOk
  <2> QED BY <1>1, <2>2, OneUpdated
<1>2. jobs' = [jobs EXCEPT ![j] = [jobs[j] EXCEPT !.expired = TRUE]]
  BY DEF Expires
<1>3. disk' = [jobs |-> [disk.jobs EXCEPT ![j] = r], bound |-> disk.bound]
  BY DEF Expires, BridgeInv, StoresOk
<1>4. v \in BOOLEAN
  BY JobsOkDef DEF BridgeInv, StoresOk, StoreOk, RecordOk, JobRecords
<1> HIDE DEF v
<1>5. StoreOk(jobs', bound) BY <1>1, <1>2 DEF BridgeInv, StoresOk
<1>6. StoreOk([disk.jobs EXCEPT ![j] = r], disk.bound)
  BY <1>1, <1>4 DEF BridgeInv, StoresOk
<1> HIDE DEF r
<1>7. StoreOk(jobs', bound') /\ StoreOk(disk'.jobs, disk'.bound)
  BY <1>3, <1>5, <1>6 DEF Expires
<1>8. disk' = [jobs |-> disk'.jobs, bound |-> disk'.bound] BY <1>3
<1>9. StoresOk' BY <1>7, <1>8 DEF StoresOk
<1> QED BY <1>9 DEF Expires, BridgeInv, ExtensionTyped, extension

\* A restart loads the stored records, cleaned.
LEMMA RestartOk ==
    ASSUME BridgeInv, Restart
    PROVE  BridgeInv'
<1>1. StoreOk(Cleaned(disk.jobs), disk.bound) BY CleanedOk DEF StoresOk, BridgeInv
<1>2. StoresOk' BY <1>1 DEF Restart, StoresOk
<1> QED BY <1>2 DEF Restart, BridgeInv, ExtensionTyped, extension

\* The steps of the service worker and of the content script.
LEMMA PollFailsOk ==
    ASSUME BridgeInv, NEW t \in Targets,
           RetryPrepare(t) \/ PrepareFails(t) \/ BeginFails(t) \/ CommitFails(t)
             \/ WorkerDies(t) \/ Reload(t)
    PROVE  BridgeInv'
<1> USE DEF BridgeInv
<1>1. CASE RetryPrepare(t)
  <2>1. worker[t].stage # "idle" BY <1>1 DEF RetryPrepare
  <2>2. Letter("prepare", worker[t]) \in Letters BY <2>1, PollOk, LettersOk
  <2>3. mail' \in [Targets -> SUBSET Letters] BY <1>1, <2>2, PostOk DEF RetryPrepare
  <2>4. ExtensionTyped' BY <1>1, <2>3 DEF RetryPrepare, ExtensionTyped
  <2> QED BY <1>1, <2>4, ExtensionSteps DEF RetryPrepare
<1>2. CASE PrepareFails(t)
  <2>1. worker[t] \in Polls BY <1>2, PollOk DEF PrepareFails
  <2>2. Request("ack", t, worker[t], "failed") \in Requests BY <2>1, LettersOk
  <2>3. net' \subseteq Requests BY <1>2, <2>2, SendOk DEF PrepareFails
  <2>4. ExtensionTyped' BY <1>2, <2>3, IdleOk DEF PrepareFails, ExtensionTyped
  <2> QED BY <1>2, <2>4, ExtensionSteps DEF PrepareFails
<1>3. CASE BeginFails(t)
  <2>1. worker[t].stage # "idle" /\ "begin2" \in Stages \ {"idle"}
    BY <1>3 DEF BeginFails, Stages
  <2>2. Request("begin2", t, worker[t], "none") \in Requests BY <2>1, PollOk, LettersOk
  <2>3. worker' \in [Targets -> Polls \union {Idle}]
    BY <1>3, <2>1, PollOk, IdleOk DEF BeginFails
  <2>4. net' \subseteq Requests
    BY <1>3, <2>2, SendOk DEF BeginFails, ExtensionTyped
  <2>5. ExtensionTyped' BY <1>3, <2>3, <2>4 DEF BeginFails, ExtensionTyped
  <2> QED BY <1>3, <2>5, ExtensionSteps DEF BeginFails
<1>4. CASE CommitFails(t)
  <2>1. worker[t] \in Polls BY <1>4, PollOk DEF CommitFails
  <2>2. Request("ack", t, worker[t], "uncertain") \in Requests BY <2>1, LettersOk
  <2>3. net' \subseteq Requests BY <1>4, <2>2, SendOk DEF CommitFails
  <2>4. ExtensionTyped' BY <1>4, <2>3, IdleOk DEF CommitFails, ExtensionTyped
  <2> QED BY <1>4, <2>4, ExtensionSteps DEF CommitFails
<1>5. CASE WorkerDies(t)
  <2>1. ExtensionTyped' BY <1>5, IdleOk DEF WorkerDies, ExtensionTyped
  <2> QED BY <1>5, <2>1, ExtensionSteps DEF WorkerDies
<1>6. CASE Reload(t)
  <2>1. ExtensionTyped' BY <1>6 DEF Reload, ExtensionTyped
  <2> QED BY <1>6, <2>1, ExtensionSteps DEF Reload
<1> QED BY <1>1, <1>2, <1>3, <1>4, <1>5, <1>6

LEMMA PrepareOk ==
    ASSUME BridgeInv, NEW t \in Targets, NEW m, Prepare(t, m)
    PROVE  BridgeInv'
<1> USE DEF BridgeInv
<1>1. mail' \in [Targets -> SUBSET Letters] BY DEF Prepare, ExtensionTyped
<1>2. CASE UNCHANGED <<worker, net>>
  <2>1. ExtensionTyped' BY <1>1, <1>2 DEF Prepare, ExtensionTyped
  <2> QED BY <2>1, ExtensionSteps DEF Prepare
<1>3. CASE /\ worker[t].stage = "preparing"
           /\ worker' = [worker EXCEPT ![t].stage = "begin1"]
           /\ Send(Request("begin1", t, worker[t], "none"))
  <2>1. worker[t].stage # "idle" /\ "begin1" \in Stages \ {"idle"} BY <1>3 DEF Stages
  <2>2. worker[t] \in Polls /\ worker' \in [Targets -> Polls \union {Idle}]
    BY <1>3, <2>1, PollOk
  <2>3. net' \subseteq Requests BY <1>3, <2>2, LettersOk, SendOk
  <2>4. ExtensionTyped' BY <1>1, <2>2, <2>3 DEF Prepare, ExtensionTyped
  <2> QED BY <2>4, ExtensionSteps DEF Prepare
<1> QED BY <1>2, <1>3 DEF Prepare, Awaits

LEMMA AnswerOk ==
    ASSUME ExtensionTyped, NEW t \in Targets, NEW m,
           NEW status \in {"delivered", "uncertain", "not_sent"}, Answer(t, m, status)
    PROVE  worker' \in [Targets -> Polls \union {Idle}] /\ net' \subseteq Requests
<1>1. CASE UNCHANGED <<worker, net>> BY <1>1 DEF ExtensionTyped
<1>2. CASE /\ worker[t].stage = "committing"
           /\ worker' = [worker EXCEPT ![t] = Idle]
           /\ Send(Request("ack", t, worker[t], status))
  <2>1. worker[t] \in Polls BY <1>2, PollOk
  <2>2. Request("ack", t, worker[t], status) \in Requests BY <2>1, LettersOk
  <2> QED BY <1>2, <2>2, IdleOk, SendOk
<1> QED BY <1>1, <1>2 DEF Answer, Awaits

LEMMA CommitOk ==
    ASSUME BridgeInv, NEW t \in Targets, NEW m \in mail[t], CommitRefused(t, m) \/ CommitClicks(t, m)
    PROVE  BridgeInv'
<1> USE DEF BridgeInv
<1>1. mail' \in [Targets -> SUBSET Letters] /\ m.job \in Jobs
  BY DEF CommitRefused, CommitClicks, ExtensionTyped, Letters
<1>2. CASE CommitRefused(t, m)
  <2>1. ExtensionTyped' BY <1>1, <1>2, AnswerOk DEF CommitRefused, ExtensionTyped
  <2> QED BY <1>2, <2>1, ExtensionSteps DEF CommitRefused
<1>3. CASE CommitClicks(t, m)
  <2>1. clicks' \in [Jobs -> Nat] BY <1>1, <1>3 DEF CommitClicks, ExtensionTyped
  <2>2. ExtensionTyped' BY <1>1, <1>3, <2>1, AnswerOk DEF CommitClicks, ExtensionTyped
  <2> QED BY <1>3, <2>2, ExtensionSteps DEF CommitClicks
<1> QED BY <1>2, <1>3

\* A request of the AI client.
LEMMA ClientOk ==
    ASSUME BridgeInv, Client
    PROVE  BridgeInv' /\ UNCHANGED <<net, extension>>
<1>1. StoresOk' BY QueueOk, EnsureOk, CloseOk DEF Client, BridgeInv
<1>2. UNCHANGED <<live, net, extension>>
  <2>1. ASSUME NEW s \in Sessions, NEW w \in Workspaces, NEW t \in Targets,
               NEW explicit \in BOOLEAN, Queue(s, w, t, explicit)
        PROVE  UNCHANGED <<live, net, extension>>
    BY <2>1 DEF Queue
  <2>2. ASSUME NEW s \in Sessions, NEW w \in Workspaces, Ensure(s, w) \/ Close(s, w)
        PROVE  UNCHANGED <<live, net, extension>>
    BY <2>2 DEF Ensure, Close
  <2> QED BY <2>1, <2>2 DEF Client
<1> QED BY <1>1, <1>2 DEF BridgeInv, ExtensionTyped, extension

LEMMA VanishOk ==
    ASSUME BridgeInv, UNCHANGED vars \/ \E t \in Targets : Vanish(t)
    PROVE  BridgeInv'
BY DEF vars, Vanish, BridgeInv, StoresOk, StoreOk, JobsOk, Single, BoundIn, ExtensionTyped, bridge,
       extension

LEMMA InitBridge == Init => BridgeInv
<1> SUFFICES ASSUME Init PROVE BridgeInv OBVIOUS
<1>1. 0 \in 0..MaxRevision /\ 0 \in 0..MaxAttempts BY ContinuationAssumption
<1>2. RecordOk(NoJob) /\ NoJob.state \notin Active
  BY <1>1 DEF RecordOk, NoJob, JobRecords, States, Active
<1>3. jobs = [j \in Jobs |-> jobs[j]] /\ \A j \in Jobs : jobs[j] = NoJob BY DEF Init
<1>4. StoreOk(jobs, bound)
  <2>1. JobsOk(jobs) BY <1>2, <1>3, JobsOkDef
  <2>2. Single(jobs) /\ BoundIn(jobs, bound) BY <1>2, <1>3 DEF Single, BoundIn
  <2>3. bound \in Bindings BY DEF Init, Bindings
  <2> QED BY <2>1, <2>2, <2>3 DEF StoreOk
<1>5. StoresOk BY <1>4 DEF Init, StoresOk
<1>6. ExtensionTyped BY DEF Init, ExtensionTyped
<1> QED BY <1>5, <1>6 DEF BridgeInv

\* The stores of the bridge are sound in memory and on disk, whichever saves fail: one
\* unfinished job per conversation, its session bound to that conversation, and no
\* pending job without an attempt left (claim_for_target, begin_send, acknowledge,
\* cleanup_locked and the requests of the AI client, with the restart between any two).
THEOREM BridgeHolds == Spec => []BridgeInv
<1>1. Init => BridgeInv BY InitBridge
<1>2. BridgeInv /\ [Next]_vars => BridgeInv'
  <2> SUFFICES ASSUME BridgeInv, [Next]_vars PROVE BridgeInv' OBVIOUS
  <2>1. CASE Client
    BY <2>1, ClientOk
  <2>2. CASE Server
    BY <2>2, ServeBeginOk, ServeAckOk DEF Server
  <2>3. CASE Clock
    BY <2>3, ClaimLapsesOk, ExpiresOk DEF Clock
  <2>4. CASE SweepFails \/ Restart
    BY <2>4, SweepFailsOk, RestartOk
  <2>5. ASSUME NEW t \in Targets, Register(t) \/ Vanish(t) PROVE BridgeInv'
    <3>1. CASE Vanish(t)
      BY <3>1 DEF Vanish, BridgeInv, StoresOk, StoreOk, JobsOk, Single, BoundIn, ExtensionTyped,
                  bridge, extension
    <3> QED BY <2>5, <3>1, RegisterOk
  <2>6. ASSUME NEW t \in Polled, Poll(t) PROVE BridgeInv'
    <3>1. t \in Targets BY ContinuationAssumption
    <3> QED BY <2>6, <3>1, ClaimOk, PollFailsOk, PrepareOk, CommitOk DEF Poll
  <2>7. CASE UNCHANGED vars
    BY <2>7 DEF vars, BridgeInv, StoresOk, StoreOk, JobsOk, Single, BoundIn, ExtensionTyped
  <2> QED BY <2>1, <2>2, <2>3, <2>4, <2>5, <2>6, <2>7 DEF Next
<1> QED BY <1>1, <1>2, PTL DEF Spec

\* Every record of the bridge and of the extension has its type; no job is claimed more
\* than MaxAttempts times (claim_for_target and the retries of cleanup_locked and
\* acknowledge).
THEOREM TypesHold == Spec => []TypeOK
<1>1. BridgeInv => TypeOK
  BY DEF BridgeInv, StoresOk, StoreOk, JobsOk, Bindings, ExtensionTyped, TypeOK, Requests, Letters,
         Polls, Idle, Stages
<1> QED BY <1>1, BridgeHolds, PTL

\* A conversation never has two unfinished checkpoints (queue and
\* ensure_automatic_fallback_for_identities, across restarts and failed saves).
THEOREM OneActiveHolds == Spec => []OneActive
<1>1. BridgeInv => OneActive
  <2> SUFFICES ASSUME BridgeInv, NEW t \in Targets
               PROVE  Cardinality(On(jobs, t, Active)) <= 1
    BY DEF OneActive
  <2>1. CASE On(jobs, t, Active) = {} BY <2>1, FS_EmptySet
  <2>2. CASE On(jobs, t, Active) # {}
    <3>1. On(jobs, t, Active) = {Max(On(jobs, t, Active))}
      BY <2>2, TheOne DEF BridgeInv, StoresOk
    <3>2. PICK x : On(jobs, t, Active) = {x} BY <3>1
    <3>3. Cardinality({x}) = 1 BY FS_Singleton
    <3> QED BY <3>2, <3>3
  <2> QED BY <2>1, <2>2
<1> QED BY <1>1, BridgeHolds, PTL

\* Unfinished work is always delivered where its session is bound
\* (explicit_session_rebind_allowed).
THEOREM BindingAlwaysHolds == Spec => []BindingHolds
<1>1. BridgeInv => BindingHolds BY DEF BridgeInv, StoresOk, StoreOk, BoundIn, BindingHolds
<1> QED BY <1>1, BridgeHolds, PTL

-----------------------------------------------------------------------------
(* From the authorisation to the acknowledgement: how a record may step *)

DeliveryInv == BridgeInv /\ RecordsOk /\ CommitsOk /\ WorkersOk /\ AcksOk

\* Progress is kept: a renewed or taken over checkpoint, an expired one.
Same(c, r) ==
    /\ r.state = c.state /\ r.attempts = c.attempts
    /\ r.expired = c.expired \/ r.state \in Active

\* What a handler may do without an acknowledgement of the extension.
Moved(c, r) ==
    \/ Same(c, r)
    \/ c.state = "Absent" /\ r.state = "Pending"
    \/ c.state \in {"Pending", "Claimed"} /\ Reached(r, c.attempts) /\ r.state # "Delivered"
    \/ c.state = "Sending" /\ r.state = "Uncertain"

\* What an acknowledgement may do: it says what the click came to.
Answered(j, c, r) ==
    /\ c.state = "Sending"
    /\ \/ r.state = "Delivered" /\ clicks[j] > 0
       \/ /\ r.state \in {"Pending", "Failed"} /\ Reached(r, c.attempts)
          /\ clicks[j] = 0
          /\ \A t \in Targets : \A m \in Commits(t) : m.job # j
Stepped(j, c, r) == Moved(c, r) \/ Answered(j, c, r)

\* A step that the disk need not know for the promise to be kept across a restart.
MayBeLost(c, r) ==
    \/ Same(c, r) \/ r.state \in {"Pending", "Claimed", "Failed"}
    \/ r.state = "Cancelled" /\ r.expired
    \/ c.state = "Sending" /\ r.state \in {"Uncertain", "Delivered"}

\* The acknowledgement is right about the record x.
ReportsNoClick(q, x) == q.op = "ack" /\ q.status = "not_sent" =>
    Reached(x, q.token) /\ Unclicked(q.job, x, q.token)

\* cleanup_locked makes such steps, and needs no save of them.
LEMMA CleanedMoves ==
    ASSUME NEW r, RecordOk(r)
    PROVE  Moved(r, CleanedJob(r)) /\ MayBeLost(r, CleanedJob(r))
<1>1. r.attempts \in Nat BY ContinuationAssumption DEF RecordOk, JobRecords
<1> QED BY <1>1, CleanedJobOk DEF Moved, MayBeLost, Same, Reached, Ended, Active

\* A record that steps stays in step with the tabs and the workers.
LEMMA RecordSteps ==
    ASSUME DeliveryInv, NEW j \in Jobs, NEW c, RecordOk(c), NEW r, RecordOk(r),
           InStep(j, c), Stepped(j, c, r)
    PROVE  /\ InStep(j, r)
           /\ \A k \in Nat : Reached(c, k) => Reached(r, k)
           /\ \A k \in Nat : Unclicked(j, c, k) => Unclicked(j, r, k)
<1>1. /\ c.attempts \in Nat /\ r.attempts \in Nat /\ clicks[j] \in Nat
      /\ c.state \in States /\ r.state \in States
  BY ContinuationAssumption DEF RecordOk, JobRecords, DeliveryInv, BridgeInv, ExtensionTyped
<1>2. ASSUME NEW k \in Nat, Reached(c, k) PROVE Reached(r, k)
  BY <1>1, <1>2 DEF Stepped, Moved, Answered, Same, Reached, Active, Ended
<1>3. ASSUME NEW k \in Nat, Unclicked(j, c, k) PROVE Unclicked(j, r, k)
  BY <1>1, <1>3 DEF Stepped, Moved, Answered, Same, Unclicked, InStep
<1>4. ASSUME NEW t \in Targets, NEW m \in Commits(t), m.job = j
      PROVE  /\ r.state \in {"Sending", "Uncertain"}
             /\ r.state = "Sending" => r.attempts = m.token
  <2>1. c.state \in {"Sending", "Uncertain"} /\ (c.state = "Sending" => c.attempts = m.token)
    BY <1>4 DEF InStep
  <2>2. clicks[j] = 0 BY <1>4 DEF DeliveryInv, CommitsOk
  <2>3. Moved(c, r) BY <1>4, <2>2 DEF Stepped, Answered
  <2> QED BY <2>1, <2>3 DEF Moved, Same
<1>5. clicks[j] > 0 => r.state \in {"Sending", "Uncertain", "Delivered"}
  BY <1>1 DEF InStep, Stepped, Moved, Same, Answered
<1>6. ASSUME NEW t \in Targets, worker[t].stage # "idle", worker[t].job = j
      PROVE  /\ worker[t].token \in Nat /\ Reached(r, worker[t].token)
             /\ worker[t].stage \in Early => Unclicked(j, r, worker[t].token)
  <2>1. worker[t].token \in Nat
    BY <1>6, PollOk DEF DeliveryInv, BridgeInv, Polls
  <2> QED BY <1>2, <1>3, <1>6, <2>1 DEF InStep
<1>7. \A t \in Targets : worker[t].stage \in Early => worker[t].stage # "idle"
  BY DEF Early
<1>8. InStep(j, r) BY <1>4, <1>5, <1>6, <1>7 DEF InStep
<1> QED BY <1>2, <1>3, <1>8

\* A step that may be lost leaves the disk close enough.
LEMMA StoreStillFollows ==
    ASSUME NEW c, NEW r, NEW d, StoreFollows(c, d), MayBeLost(c, r), r.state \in States
    PROVE  StoreFollows(r, d)
BY DEF StoreFollows, MayBeLost, Same, Active

\* A store that was saved is the one in memory.
LEMMA StoreFollowsItself ==
    ASSUME NEW r
    PROVE  StoreFollows(r, r)
BY DEF StoreFollows

\* What the handlers know after the cleanup they begin with.
LEMMA CleanedFacts ==
    ASSUME DeliveryInv, NEW j \in Jobs
    PROVE  /\ RecordOk(jobs[j]) /\ RecordOk(Cleaned(jobs)[j]) /\ RecordOk(disk.jobs[j])
           /\ Moved(jobs[j], Cleaned(jobs)[j]) /\ MayBeLost(jobs[j], Cleaned(jobs)[j])
           /\ InStep(j, Cleaned(jobs)[j])
           /\ \A k \in Nat : Reached(jobs[j], k) => Reached(Cleaned(jobs)[j], k)
           /\ \A k \in Nat : Unclicked(j, jobs[j], k) => Unclicked(j, Cleaned(jobs)[j], k)
<1>1. RecordOk(jobs[j]) /\ RecordOk(disk.jobs[j])
  BY JobsOkDef DEF DeliveryInv, BridgeInv, StoresOk, StoreOk
<1>2. Cleaned(jobs)[j] = CleanedJob(jobs[j]) BY DEF Cleaned
<1>3. RecordOk(CleanedJob(jobs[j])) BY <1>1, CleanedJobOk
<1>4. Moved(jobs[j], CleanedJob(jobs[j])) /\ MayBeLost(jobs[j], CleanedJob(jobs[j]))
  BY <1>1, CleanedMoves
<1>5. InStep(j, jobs[j]) BY DEF DeliveryInv, RecordsOk
<1>6. Stepped(j, jobs[j], CleanedJob(jobs[j])) BY <1>4 DEF Stepped
<1> QED BY <1>1, <1>2, <1>3, <1>4, <1>5, <1>6, RecordSteps

\* What a handler leaves of DeliveryInv's part about the records.
Bridged ==
    /\ \A j \in Jobs : /\ StoreFollows(jobs'[j], disk'.jobs[j])
                       /\ InStep(j, jobs'[j]) /\ InStep(j, disk'.jobs[j])
    /\ \A q \in net : ReportsNoClick(q, jobs[q.job]) => ReportsNoClick(q, jobs'[q.job])

\* A handler whose records step, and that saved them or may lose them, keeps that part.
LEMMA StepsBridge ==
    ASSUME DeliveryInv, StoresOk',
           \A j \in Jobs : Stepped(j, Cleaned(jobs)[j], jobs'[j]),
           \/ disk'.jobs = jobs'
           \/ disk' \in {disk, Swept} /\ \A j \in Jobs : MayBeLost(Cleaned(jobs)[j], jobs'[j])
    PROVE  Bridged
<1> DEFINE C == Cleaned(jobs)
<1>1. ASSUME NEW j \in Jobs
      PROVE  /\ RecordOk(jobs'[j]) /\ InStep(j, jobs'[j])
             /\ \A k \in Nat : Reached(jobs[j], k) => Reached(jobs'[j], k)
             /\ \A k \in Nat : Unclicked(j, jobs[j], k) => Unclicked(j, jobs'[j], k)
  <2>1. RecordOk(jobs'[j]) BY JobsOkDef DEF StoresOk, StoreOk
  <2>2. RecordOk(C[j]) /\ InStep(j, C[j]) BY CleanedFacts
  <2>3. Stepped(j, C[j], jobs'[j]) OBVIOUS
  <2> HIDE DEF C
  <2>4. /\ InStep(j, jobs'[j])
        /\ \A k \in Nat : Reached(C[j], k) => Reached(jobs'[j], k)
        /\ \A k \in Nat : Unclicked(j, C[j], k) => Unclicked(j, jobs'[j], k)
    BY <2>1, <2>2, <2>3, RecordSteps
  <2> QED BY <2>1, <2>4, CleanedFacts DEF C
<1>2. ASSUME NEW j \in Jobs
      PROVE  StoreFollows(jobs'[j], disk'.jobs[j]) /\ InStep(j, disk'.jobs[j])
  <2>1. CASE disk'.jobs = jobs' BY <1>1, <2>1, StoreFollowsItself
  <2>2. CASE disk' \in {disk, Swept} /\ \A i \in Jobs : MayBeLost(C[i], jobs'[i])
    <3>1. StoreFollows(C[j], disk'.jobs[j]) /\ InStep(j, disk'.jobs[j])
      <4>1. CASE disk' = disk
        <5>1. StoreFollows(jobs[j], disk.jobs[j]) /\ InStep(j, disk.jobs[j]) BY DEF DeliveryInv, RecordsOk
        <5>2. MayBeLost(jobs[j], C[j]) /\ C[j].state \in States
          BY CleanedFacts DEF RecordOk, JobRecords
        <5> HIDE DEF C
        <5>3. StoreFollows(C[j], disk.jobs[j]) BY <5>1, <5>2, StoreStillFollows
        <5> QED BY <4>1, <5>1, <5>3
      <4>2. CASE disk' = [jobs |-> C, bound |-> bound]
        <5>1. disk'.jobs[j] = C[j] BY <4>2
        <5> QED BY <5>1, CleanedFacts, StoreFollowsItself
      <4> QED BY <2>2, <4>1, <4>2 DEF Swept
    <3>2. jobs'[j].state \in States BY <1>1 DEF RecordOk, JobRecords
    <3> HIDE DEF C
    <3> QED BY <2>2, <3>1, <3>2, StoreStillFollows
  <2> QED BY <2>1, <2>2
<1>3. ASSUME NEW q \in net, ReportsNoClick(q, jobs[q.job]) PROVE ReportsNoClick(q, jobs'[q.job])
  <2>1. q.job \in Jobs /\ q.token \in Nat BY DEF DeliveryInv, BridgeInv, ExtensionTyped, Requests
  <2> QED BY <1>1, <1>3, <2>1 DEF ReportsNoClick
<1> QED BY <1>1, <1>2, <1>3 DEF Bridged

\* Where the extension does nothing, that is all there is to keep.
LEMMA StillExtension ==
    ASSUME DeliveryInv, BridgeInv', Bridged, UNCHANGED extension, net' \subseteq net
    PROVE  DeliveryInv'
<1>1. RecordsOk'
  BY DEF Bridged, RecordsOk, InStep, Commits, Reached, Unclicked, extension, StoreFollows
<1>2. CommitsOk' BY DEF DeliveryInv, CommitsOk, Commits, extension
<1>3. WorkersOk' BY DEF DeliveryInv, WorkersOk, Holds, NoCommit, Commits, extension
<1>4. AcksOk'
  <2> SUFFICES ASSUME NEW q \in net, q.op = "ack"
               PROVE  AckFine(q)'
    BY DEF AcksOk
  <2>1. q.status = "delivered" => clicks[q.job] > 0 BY DEF DeliveryInv, AcksOk, AckFine
  <2>2. ASSUME q.status = "not_sent"
        PROVE  /\ NoCommit(q.job, q.token)
               /\ \A t \in Targets : ~Holds(t, q.job, q.token)
               /\ Reached(jobs'[q.job], q.token)
               /\ Unclicked(q.job, jobs'[q.job], q.token)
    <3>1. ReportsNoClick(q, jobs[q.job]) BY DEF ReportsNoClick, DeliveryInv, AcksOk, AckFine
    <3>2. ReportsNoClick(q, jobs'[q.job]) BY <3>1 DEF Bridged
    <3> QED BY <2>2, <3>2 DEF ReportsNoClick, DeliveryInv, AcksOk, AckFine
  <2> QED BY <2>1, <2>2 DEF AckFine, NoCommit, Holds, Reached, Unclicked, Commits, extension
<1> QED BY <1>1, <1>2, <1>3, <1>4 DEF DeliveryInv

-----------------------------------------------------------------------------
(* What a step of a record tells of its message *)

Told(j, r, r2) == Phase(r2) # Phase(r) =>
    /\ <<Phase(r), Phase(r2)>> \in Promise!Moves
    /\ Phase(r) = "authorised" => (clicks[j] > 0 <=> Phase(r2) = "delivered")

\* The phase of a message, by the state of its record.
LEMMA PhaseOf ==
    ASSUME NEW r, r.state \in States
    PROVE  /\ r.state = "Absent" => Phase(r) = "unknown"
           /\ r.state \in {"Pending", "Claimed"} => Phase(r) = "waiting"
           /\ r.state \in {"Sending", "Uncertain"} => Phase(r) = "authorised"
           /\ r.state = "Failed" => Phase(r) = "failed"
           /\ r.state = "Delivered" => Phase(r) = "delivered"
           /\ r.state = "Cancelled" /\ r.expired => Phase(r) = "failed"
           /\ r.state = "Cancelled" /\ ~r.expired => Phase(r) = "closed"
BY DEF Phase, States

\* A record that is cleaned and then steps tells no more than ContinuationPromise allows.
LEMMA TellsSteps ==
    ASSUME NEW j \in Jobs, NEW r, RecordOk(r), NEW r2, RecordOk(r2), clicks[j] \in Nat,
           Stepped(j, CleanedJob(r), r2)
    PROVE  Told(j, r, r2)
<1> DEFINE c == CleanedJob(r)
<1>1. /\ r.state \in States /\ r2.state \in States /\ c.state \in States
      /\ r.expired \in BOOLEAN /\ r2.expired \in BOOLEAN /\ c.expired \in BOOLEAN
  BY CleanedJobOk DEF RecordOk, JobRecords
<1>2. \/ c = r
      \/ r.state = "Pending" /\ c.state = "Cancelled" /\ c.expired
      \/ r.state = "Claimed" /\ c.state \in {"Failed", "Pending"}
      \/ r.state = "Sending" /\ c.state = "Uncertain"
  BY CleanedJobOk
<1>3. Stepped(j, c, r2) OBVIOUS
<1> HIDE DEF c
<1>4. Phase(r2) = Phase(c) \/
      \/ c.state = "Absent" /\ Phase(r2) = "waiting"
      \/ c.state \in {"Pending", "Claimed"} /\ Phase(r2) \in {"failed", "closed", "authorised"}
      \/ c.state = "Sending" /\ Phase(r2) = "delivered" /\ clicks[j] > 0
      \/ c.state = "Sending" /\ Phase(r2) \in {"waiting", "failed"} /\ ~(clicks[j] > 0)
  <2>1. CASE Same(c, r2)
    BY <1>1, <2>1, PhaseOf DEF Same, Active, States
  <2>2. CASE c.state = "Absent" /\ r2.state = "Pending"
    BY <1>1, <2>2, PhaseOf
  <2>3. CASE c.state \in {"Pending", "Claimed"} /\ Reached(r2, c.attempts) /\ r2.state # "Delivered"
    BY <1>1, <2>3, PhaseOf DEF Reached, Ended, Active
  <2>4. CASE c.state = "Sending" /\ r2.state = "Uncertain"
    BY <1>1, <2>4, PhaseOf
  <2>5. CASE Answered(j, c, r2)
    BY <1>1, <2>5, PhaseOf DEF Answered
  <2> QED BY <1>3, <2>1, <2>2, <2>3, <2>4, <2>5 DEF Stepped, Moved
<1>5. \/ Phase(r2) = Phase(r)
      \/ Phase(r) = "unknown" /\ Phase(r2) = "waiting"
      \/ Phase(r) = "waiting" /\ Phase(r2) \in {"failed", "closed", "authorised"}
      \/ Phase(r) = "authorised" /\ Phase(r2) = "delivered" /\ clicks[j] > 0
      \/ Phase(r) = "authorised" /\ Phase(r2) \in {"waiting", "failed"} /\ ~(clicks[j] > 0)
  BY <1>1, <1>2, <1>4, PhaseOf
<1> QED BY <1>5 DEF Told, Promise!Moves

\* The state of ContinuationPromise.
phases == [j \in Jobs |-> Phase(jobs[j])]
sents == [j \in Jobs |-> clicks[j] > 0]

\* Steps that tell what is allowed advance the promise.
LEMMA TellingAdvances ==
    ASSUME clicks' = clicks, \A j \in Jobs : Told(j, jobs[j], jobs'[j])
    PROVE  Promise!Advance
<1>1. sents' = sents BY DEF sents
<1>2. ASSUME NEW j \in Jobs, Phase(jobs'[j]) # Phase(jobs[j])
      PROVE  /\ <<Phase(jobs[j]), Phase(jobs'[j])>> \in Promise!Moves
             /\ Phase(jobs[j]) = "authorised" =>
                  (clicks[j] > 0 <=> Phase(jobs'[j]) = "delivered")
  BY <1>2 DEF Told
<1> QED BY <1>1, <1>2 DEF Promise!Advance, sents

LEMMA BridgeTells ==
    ASSUME BridgeInv, StoresOk', clicks' = clicks,
           \A j \in Jobs : Stepped(j, Cleaned(jobs)[j], jobs'[j])
    PROVE  Promise!Advance
<1>1. ASSUME NEW j \in Jobs PROVE Told(j, jobs[j], jobs'[j])
  <2>1. RecordOk(jobs[j]) /\ RecordOk(jobs'[j]) BY JobsOkDef DEF BridgeInv, StoresOk, StoreOk
  <2>2. clicks[j] \in Nat BY DEF BridgeInv, ExtensionTyped
  <2>3. Stepped(j, CleanedJob(jobs[j]), jobs'[j]) BY DEF Cleaned
  <2> QED BY <2>1, <2>2, <2>3, TellsSteps
<1> QED BY <1>1, TellingAdvances

\* A handler of the bridge, with its save: what cannot be lost is on disk.
LEMMA HandlerSteps ==
    ASSUME DeliveryInv, StoresOk', clicks' = clicks, NEW handler, NEW js, NEW b,
           \A j \in Jobs : Stepped(j, Cleaned(jobs)[j], js[j]),
           \/ Unsaved(js, b) /\ \A j \in Jobs : MayBeLost(Cleaned(jobs)[j], js[j])
           \/ /\ Save(handler, js, b)
              /\ handler \in Faults => \A j \in Jobs : MayBeLost(Cleaned(jobs)[j], js[j])
    PROVE  Bridged /\ Promise!Advance
<1>1. jobs' = js BY DEF Unsaved, Save
<1>2. \/ disk'.jobs = jobs'
      \/ disk' \in {disk, Swept} /\ \A j \in Jobs : MayBeLost(Cleaned(jobs)[j], jobs'[j])
  BY DEF Unsaved, Save
<1>3. \A j \in Jobs : Stepped(j, Cleaned(jobs)[j], jobs'[j]) BY <1>1
<1>4. BridgeInv BY DEF DeliveryInv
<1>5. Bridged BY <1>2, <1>3, StepsBridge
<1> QED BY <1>3, <1>4, <1>5, BridgeTells

-----------------------------------------------------------------------------
(* The handlers *)

LEMMA NothingMoves ==
    ASSUME NEW r
    PROVE  Moved(r, r) /\ MayBeLost(r, r) /\ \A j \in Jobs : Stepped(j, r, r)
BY DEF Moved, MayBeLost, Same, Stepped

\* A checkpoint that is taken over makes no progress of its own.
LEMMA QueuedMoves ==
    ASSUME NEW js, NEW b, StoreOk(js, b), NEW s \in Sessions, NEW t \in Targets,
           NEW P \in SUBSET On(js, t, {"Pending"}), P # {}, NEW j \in Jobs,
           NEW js2 \in {Replaced(js, P, s), Guarded(js, P, s)}
    PROVE  Moved(js[j], js2[j]) /\ MayBeLost(js[j], js2[j])
<1>1. /\ Max(P) \in Jobs /\ P = {Max(P)} /\ js[Max(P)].state = "Pending" /\ RecordOk(js[Max(P)])
  BY PendingOne
<1>2. CASE j \notin P
  <2>1. js2[j] = js[j] BY <1>2 DEF Replaced, Guarded
  <2> QED BY <2>1, NothingMoves
<1>3. CASE j \in P
  <2> DEFINE x == js[j]
  <2>1. j = Max(P) /\ x.state = "Pending" /\ x \in JobRecords BY <1>1, <1>3 DEF RecordOk
  <2>2. js2[j] \in {[x EXCEPT !.revision = @ + 1, !.session = s, !.expired = FALSE, !.exact = TRUE],
                    [x EXCEPT !.session = s],
                    [x EXCEPT !.revision = @ + 1, !.session = s, !.expired = FALSE]}
    BY <1>3, <2>1 DEF Replaced, Guarded
  <2> HIDE DEF x
  <2>3. js2[j].state = "Pending" /\ js2[j].attempts = x.attempts
    BY <2>1, <2>2 DEF JobRecords
  <2>4. Same(x, js2[j]) BY <2>1, <2>3 DEF Same, Active
  <2> QED BY <2>4 DEF Moved, MayBeLost, x
<1> QED BY <1>2, <1>3

\* A new job uses a record that was absent.
LEMMA PushedMoves ==
    ASSUME NEW js, NEW s, NEW t, NEW w, NEW exact, NEW js2 \in Pushed(js, t, s, w, exact),
           js = [j \in Jobs |-> js[j]], NEW j \in Jobs
    PROVE  Moved(js[j], js2[j]) /\ MayBeLost(js[j], js2[j])
<1> DEFINE r == [NoJob EXCEPT !.state = "Pending", !.target = t, !.session = s,
                              !.workspace = w, !.exact = exact, !.revision = 1]
<1>1. PICK i \in Fresh(js) : js2 = [js EXCEPT ![i] = r] BY DEF Pushed
<1>2. i \in Jobs /\ js[i].state = "Absent" BY <1>1 DEF Fresh, Jobs
<1>3. r.state = "Pending" BY DEF NoJob
<1> HIDE DEF r
<1>4. CASE j = i
  <2>1. js2[j] = r BY <1>1, <1>2, <1>4
  <2> QED BY <1>2, <1>3, <1>4, <2>1 DEF Moved, MayBeLost
<1>5. CASE j # i
  <2>1. js2[j] = js[j] BY <1>1, <1>5
  <2> QED BY <2>1, NothingMoves
<1> QED BY <1>4, <1>5

\* The saves that authorise a click and that withdraw a message succeed.  The handlers
\* begin_send and close change their record before they save it and do not undo that when
\* the save fails: then a restart offers a message again that was sent or withdrawn.
SafeSaves == Faults \intersect {"begin", "close"} = {}

\* The requests of the AI client.
LEMMA QueueSteps ==
    ASSUME DeliveryInv, NEW s \in Sessions, NEW w \in Workspaces, NEW t \in Targets,
           NEW explicit \in BOOLEAN, Queue(s, w, t, explicit)
    PROVE  Bridged /\ Promise!Advance
<1> DEFINE C == Cleaned(jobs)
           P == Of(C, t, w, {"Pending"})
           B == [bound EXCEPT ![s] = t]
<1>1. StoresOk /\ StoreOk(C, bound) BY CleanedOk DEF StoresOk, DeliveryInv, BridgeInv
<1>2. StoresOk' BY <1>1, QueueOk
<1>3. clicks' = clicks BY DEF Queue, extension
<1>4. \/ P # {} /\ Save("queue", Replaced(C, P, s), B)
      \/ Save("queue", C, B) \/ Unsaved(C, B)
      \/ \E js \in Pushed(C, t, s, w, TRUE) : Save("queue", js, B)
  BY DEF Queue
<1>5. P \in SUBSET On(C, t, {"Pending"}) BY DEF Of, On
<1>6. C = [j \in Jobs |-> C[j]] BY DEF Cleaned
<1> HIDE DEF C, P, B
<1>7. CASE P # {} /\ Save("queue", Replaced(C, P, s), B)
  <2>1. \A j \in Jobs : /\ Stepped(j, C[j], Replaced(C, P, s)[j])
                        /\ MayBeLost(C[j], Replaced(C, P, s)[j])
    BY <1>1, <1>5, <1>7, QueuedMoves DEF Stepped
  <2> QED BY <1>2, <1>3, <1>7, <2>1, HandlerSteps DEF C
<1>8. CASE Save("queue", C, B) \/ Unsaved(C, B)
  <2>1. \A j \in Jobs : Stepped(j, C[j], C[j]) /\ MayBeLost(C[j], C[j]) BY NothingMoves
  <2> QED BY <1>2, <1>3, <1>8, <2>1, HandlerSteps DEF C
<1>9. ASSUME NEW js \in Pushed(C, t, s, w, TRUE), Save("queue", js, B)
      PROVE  Bridged /\ Promise!Advance
  <2>1. \A j \in Jobs : Stepped(j, C[j], js[j]) /\ MayBeLost(C[j], js[j])
    BY <1>6, <1>9, PushedMoves DEF Stepped
  <2> QED BY <1>2, <1>3, <1>9, <2>1, HandlerSteps DEF C
<1> QED BY <1>4, <1>7, <1>8, <1>9

LEMMA EnsureSteps ==
    ASSUME DeliveryInv, NEW s \in Sessions, NEW w \in Workspaces, Ensure(s, w)
    PROVE  Bridged /\ Promise!Advance
<1> DEFINE C == Cleaned(jobs)
           t == bound[s]
           P == Of(C, t, w, {"Pending"})
<1>1. StoresOk /\ StoreOk(C, bound) BY CleanedOk DEF StoresOk, DeliveryInv, BridgeInv
<1>2. StoresOk' BY <1>1, EnsureOk
<1>3. clicks' = clicks BY DEF Ensure, extension
<1>4. /\ t # None
      /\ \/ P # {} /\ Save("queue", Guarded(C, P, s), bound)
         \/ Unsaved(C, bound)
         \/ \E js \in Pushed(C, t, s, w, FALSE) : Save("queue", js, bound)
  BY DEF Ensure
<1>5. P \in SUBSET On(C, t, {"Pending"}) BY DEF Of, On
<1>6. C = [j \in Jobs |-> C[j]] BY DEF Cleaned
<1>7. t \in Targets BY <1>1, <1>4 DEF StoreOk, Bindings
<1> HIDE DEF C, P, t
<1>8. CASE P # {} /\ Save("queue", Guarded(C, P, s), bound)
  <2>1. \A j \in Jobs : /\ Stepped(j, C[j], Guarded(C, P, s)[j])
                        /\ MayBeLost(C[j], Guarded(C, P, s)[j])
    BY <1>1, <1>5, <1>8, <1>7, QueuedMoves DEF Stepped
  <2> QED BY <1>2, <1>3, <1>8, <2>1, HandlerSteps DEF C
<1>9. CASE Unsaved(C, bound)
  <2>1. \A j \in Jobs : Stepped(j, C[j], C[j]) /\ MayBeLost(C[j], C[j]) BY NothingMoves
  <2> QED BY <1>2, <1>3, <1>9, <2>1, HandlerSteps DEF C
<1>10. ASSUME NEW js \in Pushed(C, t, s, w, FALSE), Save("queue", js, bound)
      PROVE  Bridged /\ Promise!Advance
  <2>1. \A j \in Jobs : Stepped(j, C[j], js[j]) /\ MayBeLost(C[j], js[j])
    BY <1>6, <1>10, PushedMoves DEF Stepped
  <2> QED BY <1>2, <1>3, <1>10, <2>1, HandlerSteps DEF C
<1> QED BY <1>4, <1>8, <1>9, <1>10

LEMMA CloseSteps ==
    ASSUME DeliveryInv, SafeSaves, NEW s \in Sessions, NEW w \in Workspaces, Close(s, w)
    PROVE  Bridged /\ Promise!Advance
<1> DEFINE C == Cleaned(jobs)
           mine == {j \in Jobs : C[j].session = s /\ C[j].workspace = w /\ C[j].state \in Active}
<1>1. StoresOk /\ StoreOk(C, bound) BY CleanedOk DEF StoresOk, DeliveryInv, BridgeInv
<1>2. StoresOk' BY <1>1, CloseOk
<1>3. clicks' = clicks BY DEF Close, extension
<1>4. PICK closing \in {{j} : j \in mine} \union {mine} :
         Save("close", [j \in Jobs |-> IF j \in closing THEN ClosedJob(C[j]) ELSE C[j]], bound)
  BY DEF Close
<1>5. \A j \in closing : j \in Jobs /\ C[j].state \in Active
  OBVIOUS
<1>6. \A j \in Jobs : RecordOk(C[j]) BY <1>1, JobsOkDef DEF StoreOk
<1> DEFINE js == [j \in Jobs |-> IF j \in closing THEN ClosedJob(C[j]) ELSE C[j]]
<1> HIDE DEF C, mine
<1>7. ASSUME NEW j \in Jobs PROVE Stepped(j, C[j], js[j])
  <2>1. CASE j \notin closing
    BY <2>1, NothingMoves
  <2>2. CASE j \in closing
    <3>1. js[j] = ClosedJob(C[j]) BY <2>2
    <3>2. C[j] \in JobRecords BY <1>6 DEF RecordOk
    <3>3. ClosedJob(C[j]).state = IF C[j].state = "Sending" THEN "Uncertain" ELSE "Cancelled"
      BY <3>2, OverOk DEF ClosedJob, Ended
    <3> QED BY <1>5, <2>2, <3>1, <3>3 DEF Stepped, Moved, Reached, Active, Ended
  <2> QED BY <2>1, <2>2
<1>8. Save("close", js, bound) BY <1>4
<1> HIDE DEF js
<1> QED BY <1>2, <1>3, <1>7, <1>8, HandlerSteps DEF C, SafeSaves

\* A cleanup that is saved or not.
LEMMA SweepSteps ==
    ASSUME DeliveryInv, SweepFails \/ \E t \in Targets : Register(t)
    PROVE  Bridged /\ Promise!Advance
<1>1. \A j \in Jobs : Stepped(j, Cleaned(jobs)[j], Cleaned(jobs)[j])
                      /\ MayBeLost(Cleaned(jobs)[j], Cleaned(jobs)[j])
  BY NothingMoves
<1>2. CASE SweepFails
  <2>1. jobs' = Cleaned(jobs) /\ disk' = disk /\ clicks' = clicks
    BY <1>2 DEF SweepFails, extension
  <2>2. StoresOk' BY <1>2, SweepFailsOk DEF DeliveryInv, BridgeInv
  <2>3. Bridged BY <1>1, <2>1, <2>2, StepsBridge
  <2> QED BY <1>1, <2>1, <2>2, <2>3, BridgeTells DEF DeliveryInv
<1>3. ASSUME NEW t \in Targets, Register(t) PROVE Bridged /\ Promise!Advance
  <2>1. Unsaved(Cleaned(jobs), bound) /\ clicks' = clicks BY <1>3 DEF Register, extension
  <2>2. StoresOk' BY <1>3, RegisterOk DEF DeliveryInv, BridgeInv
  <2> QED BY <1>1, <2>1, <2>2, HandlerSteps
<1> QED BY <1>2, <1>3

\* A claim makes a new attempt, which no worker, letter or request knows of yet.
LEMMA ClaimSteps ==
    ASSUME DeliveryInv, NEW t \in Targets, Claim(t)
    PROVE  DeliveryInv' /\ Promise!Advance
<1> DEFINE C == Cleaned(jobs)
           j == Max(On(C, t, {"Pending"}))
           r == [C[j] EXCEPT !.state = "Claimed", !.attempts = @ + 1, !.lapsed = FALSE]
           w == [stage |-> "preparing", job |-> j, revision |-> r.revision, token |-> r.attempts]
           js == [C EXCEPT ![j] = r]
<1>1. StoresOk /\ StoreOk(C, bound) BY CleanedOk DEF StoresOk, DeliveryInv, BridgeInv
<1>2. /\ On(C, t, {"Pending"}) # {}
      /\ Save("claim", js, bound)
      /\ \/ /\ worker[t] = Idle
            /\ disk'.jobs = jobs'
            /\ worker' = [worker EXCEPT ![t] = w]
            /\ Post(t, Letter("prepare", w))
         \/ UNCHANGED <<worker, mail>>
      /\ UNCHANGED <<live, net, prepared, clicks>>
  BY DEF Claim
<1>3. BridgeInv' BY ClaimOk DEF DeliveryInv
<1>4. C = [i \in Jobs |-> C[i]] BY DEF Cleaned
<1>5. ASSUME NEW i \in Jobs PROVE InStep(i, C[i]) BY CleanedFacts
<1>6. ASSUME NEW q \in net, q.op = "ack", q.status = "not_sent"
      PROVE  q.job \in Jobs /\ q.token \in Nat /\ Reached(C[q.job], q.token)
  <2>1. q.job \in Jobs /\ q.token \in Nat /\ Reached(jobs[q.job], q.token)
    BY <1>6 DEF DeliveryInv, BridgeInv, ExtensionTyped, Requests, AcksOk, AckFine
  <2> QED BY <2>1, CleanedFacts
<1> HIDE DEF C
<1>7. j \in Jobs /\ C[j].state = "Pending" /\ RecordOk(C[j])
  BY <1>1, <1>2, PendingOne
<1>8. C[j].attempts \in Nat /\ C[j] \in JobRecords
  BY <1>7, ContinuationAssumption DEF RecordOk, JobRecords
<1>9. r.state = "Claimed" /\ r.attempts = C[j].attempts + 1
  BY <1>8 DEF JobRecords
<1>10. js[j] = r /\ \A i \in Jobs \ {j} : js[i] = C[i]
  BY <1>4, <1>7
<1> HIDE DEF j, r, js
<1>11. ASSUME NEW i \in Jobs PROVE Stepped(i, C[i], js[i]) /\ MayBeLost(C[i], js[i])
  <2>1. CASE i = j
    <3>1. Reached(r, C[j].attempts) BY <1>8, <1>9 DEF Reached, Active
    <3> QED BY <1>7, <1>9, <1>10, <2>1, <3>1 DEF Stepped, Moved, MayBeLost
  <2>2. CASE i # j BY <1>10, <2>2, NothingMoves
  <2> QED BY <2>1, <2>2
<1>12. Bridged /\ Promise!Advance
  BY <1>2, <1>11, <1>3, HandlerSteps DEF C, BridgeInv
<1>13. CASE UNCHANGED <<worker, mail>>
  <2>1. UNCHANGED extension /\ net' \subseteq net BY <1>2, <1>13 DEF extension
  <2> QED BY <1>12, <1>3, <2>1, StillExtension
<1>14. CASE /\ worker[t] = Idle
            /\ disk'.jobs = jobs'
            /\ worker' = [worker EXCEPT ![t] = w]
            /\ Post(t, Letter("prepare", w))
  <2>1. \A u \in Targets : Commits(u)' = Commits(u)
    <3>1. Letter("prepare", w).kind = "prepare" BY DEF Letter
    <3>2. mail \in [Targets -> SUBSET Letters] BY DEF DeliveryInv, BridgeInv, ExtensionTyped
    <3>3. \A u \in Targets : mail[u] \subseteq mail'[u]
                            /\ mail'[u] \subseteq mail[u] \union {Letter("prepare", w)}
      BY <1>14, <3>2, SentOk DEF Post, Sent
    <3> QED BY <3>1, <3>3 DEF Commits
  <2>2. /\ worker'[t] = w /\ \A u \in Targets \ {t} : worker'[u] = worker[u]
    BY <1>14 DEF DeliveryInv, BridgeInv, ExtensionTyped
  <2>3. w.stage = "preparing" /\ w.job = j /\ w.token = C[j].attempts + 1
    BY <1>9
  <2>4. jobs'[j] = r /\ disk'.jobs[j] = r
    BY <1>2, <1>10, <1>14 DEF Save
  <2> HIDE DEF w
  <2>5. \A i \in Jobs : \A x : InStep(i, x) /\ (i = j => x = r) => InStep(i, x)'
    BY <1>2, <1>8, <1>9, <2>1, <2>2, <2>3 DEF InStep, Reached, Unclicked, Active, Early
  <2>6. RecordsOk'
    BY <1>12, <2>4, <2>5 DEF Bridged, RecordsOk, InStep, StoreFollows, Reached, Unclicked
  <2>7. CommitsOk' BY <1>2, <2>1 DEF DeliveryInv, CommitsOk
  <2>8. \A u \in Targets : worker[u].stage # "idle" /\ worker[u].job = j =>
           worker[u].token \in Nat /\ worker[u].token # C[j].attempts + 1
    <3> SUFFICES ASSUME NEW u \in Targets, worker[u].stage # "idle", worker[u].job = j
                 PROVE  worker[u].token \in Nat /\ worker[u].token # C[j].attempts + 1
      OBVIOUS
    <3>1. Reached(C[j], worker[u].token) BY <1>7, <1>5 DEF InStep
    <3>2. worker[u].token \in Nat BY PollOk DEF DeliveryInv, BridgeInv, Polls
    <3> QED BY <1>7, <1>8, <3>1, <3>2 DEF Reached, Ended
  <2>9. \A u \in Targets : \A m \in Commits(u) : m.job # j
    BY <1>7, <1>5 DEF InStep
  <2>10. WorkersOk'
    <3>1. ASSUME NEW t1 \in Targets, NEW t2 \in Targets, NEW i \in Jobs,
                 NEW k \in 1..MaxAttempts, Holds(t1, i, k)', Holds(t2, i, k)'
          PROVE  t1 = t2
      BY <2>2, <2>3, <2>8, <3>1 DEF DeliveryInv, WorkersOk, Holds
    <3>2. ASSUME NEW u \in Targets, worker'[u].stage \in Early
          PROVE  NoCommit(worker[u].job, worker[u].token)'
      BY <2>1, <2>2, <2>3, <2>9, <3>2 DEF DeliveryInv, WorkersOk, NoCommit
    <3> QED BY <3>1, <3>2 DEF WorkersOk
  <2>11. AcksOk'
    <3> SUFFICES ASSUME NEW q \in net, q.op = "ack"
                 PROVE  AckFine(q)'
      BY <1>2 DEF AcksOk
    <3>1. q.status = "delivered" => clicks'[q.job] > 0 BY <1>2 DEF DeliveryInv, AcksOk, AckFine
    <3>2. ASSUME q.status = "not_sent"
          PROVE  (/\ NoCommit(q.job, q.token)
                  /\ \A u \in Targets : ~Holds(u, q.job, q.token)
                  /\ Reached(jobs[q.job], q.token)
                  /\ Unclicked(q.job, jobs[q.job], q.token))'
      <4>1. /\ NoCommit(q.job, q.token)
            /\ \A u \in Targets : ~Holds(u, q.job, q.token)
            /\ ReportsNoClick(q, jobs[q.job])
        BY <3>2 DEF DeliveryInv, AcksOk, AckFine, ReportsNoClick
      <4>2. Reached(jobs'[q.job], q.token) /\ Unclicked(q.job, jobs'[q.job], q.token)
        BY <1>12, <3>2, <4>1 DEF Bridged, ReportsNoClick
      <4>3. q.job = j => q.token # C[j].attempts + 1
        BY <1>7, <1>8, <1>6, <3>2 DEF Reached, Ended
      <4>4. NoCommit(q.job, q.token)' BY <2>1, <4>1 DEF NoCommit
      <4>5. \A u \in Targets : ~Holds(u, q.job, q.token)'
        BY <2>2, <2>3, <4>1, <4>3 DEF Holds
      <4> QED BY <1>2, <4>2, <4>4, <4>5 DEF Reached, Unclicked
    <3> QED BY <3>1, <3>2 DEF AckFine
  <2> QED BY <1>12, <1>3, <2>6, <2>7, <2>10, <2>11 DEF DeliveryInv
<1> QED BY <1>2, <1>12, <1>13, <1>14

\* begin_send authorises a click once for an attempt, or says so again to the worker that
\* has not heard.
LEMMA BeginSteps ==
    ASSUME DeliveryInv, SafeSaves, NEW q \in net, ServeBegin(q)
    PROVE  DeliveryInv' /\ Promise!Advance
<1> DEFINE C == Cleaned(jobs)
           t == q.target
           j == q.job
           k == q.token
<1>1. StoresOk /\ StoreOk(C, bound) BY CleanedOk DEF StoresOk, DeliveryInv, BridgeInv
<1>2. /\ \/ Begun(C, q) \/ Begins(C, q)
         \/ Unsaved(C, bound) /\ UNCHANGED <<worker, mail>>
      /\ Authorised(q) \/ UNCHANGED <<worker, mail>>
      /\ q.op \in {"begin1", "begin2"}
      /\ net' = net \ {q}
      /\ UNCHANGED <<live, prepared, clicks>>
  BY DEF ServeBegin
<1>3. t \in Targets /\ j \in Jobs /\ k \in 1..MaxAttempts /\ k \in Nat
  BY DEF DeliveryInv, BridgeInv, ExtensionTyped, Requests
<1>4. BridgeInv' BY ServeBeginOk DEF DeliveryInv
<1>5. C = [i \in Jobs |-> C[i]] BY DEF Cleaned
<1>6. ASSUME NEW i \in Jobs PROVE InStep(i, C[i]) /\ RecordOk(C[i]) BY CleanedFacts
<1> HIDE DEF C
<1>7. Bridged /\ Promise!Advance
  <2>1. CASE Unsaved(C, bound)
    <3>1. \A i \in Jobs : Stepped(i, C[i], C[i]) /\ MayBeLost(C[i], C[i]) BY NothingMoves
    <3> QED BY <1>2, <1>4, <2>1, <3>1, HandlerSteps DEF C, BridgeInv
  <2>2. CASE Begins(C, q)
    <3> DEFINE js == [C EXCEPT ![q.job].state = "Sending"]
    <3>1. C[j].state = "Claimed" /\ C[j] \in JobRecords BY <1>3, <1>6, <2>2 DEF Begins, RecordOk
    <3>2. /\ js[j].state = "Sending" /\ js[j].attempts = C[j].attempts
          /\ \A i \in Jobs \ {j} : js[i] = C[i]
      BY <1>3, <1>5, <3>1 DEF JobRecords
    <3>3. C[j].attempts \in Nat BY <3>1, ContinuationAssumption DEF JobRecords
    <3>4. Save("begin", js, bound) BY <2>2 DEF Begins
    <3> HIDE DEF js
    <3>5. Reached(js[j], C[j].attempts) BY <3>2, <3>3 DEF Reached, Active
    <3>6. ASSUME NEW i \in Jobs PROVE Stepped(i, C[i], js[i])
      <4>1. CASE i = j BY <3>1, <3>2, <3>5, <4>1 DEF Stepped, Moved
      <4>2. CASE i # j BY <3>2, <4>2, NothingMoves
      <4> QED BY <4>1, <4>2
    <3> QED BY <1>2, <1>4, <3>4, <3>6, HandlerSteps DEF C, BridgeInv, SafeSaves
  <2> QED BY <1>2, <2>1, <2>2 DEF Begun
<1>8. CASE UNCHANGED <<worker, mail>>
  <2>1. UNCHANGED extension /\ net' \subseteq net BY <1>2, <1>8 DEF extension
  <2> QED BY <1>7, <1>4, <2>1, StillExtension
<1>9. CASE Authorised(q) /\ (Begun(C, q) \/ Begins(C, q))
  <2> DEFINE L == Letter("commit", worker[t])
  <2>1. /\ worker[t].stage \in Early /\ worker[t].job = j /\ worker[t].token = k
        /\ worker[t].stage # "idle"
        /\ worker' = [worker EXCEPT ![t].stage = "committing"]
        /\ Post(t, L)
    BY <1>2, <1>9 DEF Authorised, Early
  <2>2. C[j].state \in {"Claimed", "Sending"} /\ C[j].attempts = k
    BY <1>9 DEF Begun, Begins, SameClaim
  <2>3. jobs'[j].state = "Sending" /\ jobs'[j].attempts = k
    <3>1. CASE Begun(C, q) BY <2>2, <3>1 DEF Begun, Unsaved
    <3>2. CASE Begins(C, q)
      <4>1. jobs' = [C EXCEPT ![j].state = "Sending"] BY <3>2 DEF Begins, Save
      <4>2. C[j] \in JobRecords BY <1>3, <1>6 DEF RecordOk
      <4> QED BY <1>3, <1>5, <2>2, <4>1, <4>2 DEF JobRecords
    <3> QED BY <1>9, <3>1, <3>2
  <2>4. disk'.jobs[j].state = "Sending" /\ disk'.jobs[j].attempts = k
    BY <1>3, <1>7, <2>3 DEF Bridged, StoreFollows
  <2>5. NoCommit(j, k) BY <1>3, <2>1 DEF DeliveryInv, WorkersOk
  <2>6. \A u \in Targets : \A m \in Commits(u) : m.job # j
    BY <1>3, <1>6, <2>2, <2>5 DEF InStep, NoCommit
  <2>7. clicks[j] = 0
    <3>1. clicks[j] \in Nat BY <1>3 DEF DeliveryInv, BridgeInv, ExtensionTyped
    <3> QED BY <1>3, <1>6, <2>1, <2>2, <3>1 DEF InStep, Unclicked
  <2>8. L.kind = "commit" /\ L.job = j /\ L.token = k BY <2>1 DEF Letter
  <2>9. \A u \in Targets : \A m \in Commits(u)' : m \in Commits(u) \/ (u = t /\ m = L)
    <3>1. mail \in [Targets -> SUBSET Letters] BY DEF DeliveryInv, BridgeInv, ExtensionTyped
    <3> HIDE DEF L
    <3>2. \A u \in Targets : mail'[u] \subseteq mail[u] \union {L}
      BY <2>1, <3>1, SentOk DEF Post
    <3>3. \A u \in Targets \ {t} : mail'[u] = mail[u]
      BY <2>1, <3>1 DEF Post
    <3> QED BY <3>2, <3>3 DEF Commits
  <2> HIDE DEF L
  <2>10. /\ worker'[t].stage = "committing" /\ worker'[t].job = j /\ worker'[t].token = k
         /\ \A u \in Targets \ {t} : worker'[u] = worker[u]
    <3>1. worker[t] \in Polls BY <1>3, <2>1, PollOk DEF DeliveryInv, BridgeInv
    <3> QED BY <1>3, <2>1, <3>1 DEF DeliveryInv, BridgeInv, ExtensionTyped, Polls
  <2>11. ASSUME NEW i \in Jobs, NEW x, InStep(i, x),
                i = j => x.state = "Sending" /\ x.attempts = k
         PROVE  InStep(i, x)'
    <3>1. ASSUME NEW u \in Targets, NEW m \in Commits(u)', m.job = i
          PROVE  /\ x.state \in {"Sending", "Uncertain"}
                 /\ x.state = "Sending" => x.attempts = m.token
      BY <2>8, <2>9, <2>11, <3>1 DEF InStep
    <3>2. clicks'[i] > 0 => x.state \in {"Sending", "Uncertain", "Delivered"}
      BY <1>2, <2>11 DEF InStep
    <3>3. ASSUME NEW u \in Targets, worker'[u].stage # "idle", worker'[u].job = i
          PROVE  Reached(x, worker'[u].token)
      BY <2>1, <2>10, <2>11, <3>3 DEF InStep
    <3>4. ASSUME NEW u \in Targets, worker'[u].stage \in Early, worker'[u].job = i
          PROVE  Unclicked(i, x, worker[u].token)'
      BY <1>2, <2>10, <2>11, <3>4 DEF InStep, Early, Unclicked
    <3> QED BY <3>1, <3>2, <3>3, <3>4 DEF InStep, Reached
  <2>12. RecordsOk'
    BY <1>7, <2>3, <2>4, <2>11 DEF Bridged, RecordsOk, InStep, StoreFollows, Reached, Unclicked
  <2>13. CommitsOk'
    <3>1. ASSUME NEW u \in Targets, NEW m \in Commits(u)' PROVE clicks'[m.job] = 0
      BY <1>2, <2>7, <2>8, <2>9, <3>1 DEF DeliveryInv, CommitsOk
    <3>2. ASSUME NEW u1 \in Targets, NEW u2 \in Targets, NEW m1 \in Commits(u1)',
                 NEW m2 \in Commits(u2)', m1.job = m2.job
          PROVE  u1 = u2 /\ m1 = m2
      BY <2>6, <2>8, <2>9, <3>2 DEF DeliveryInv, CommitsOk
    <3> QED BY <3>1, <3>2 DEF CommitsOk
  <2>14. \A u \in Targets : \A i, n : Holds(u, i, n)' <=> Holds(u, i, n)
    BY <2>1, <2>10 DEF Holds
  <2>15. WorkersOk'
    <3>1. ASSUME NEW u \in Targets, worker'[u].stage \in Early
          PROVE  NoCommit(worker[u].job, worker[u].token)'
      <4>1. u # t /\ worker'[u] = worker[u] /\ worker[u].stage # "idle"
        BY <2>10, <3>1 DEF Early
      <4>2. ~(worker[u].job = j /\ worker[u].token = k)
        BY <1>3, <2>1, <4>1 DEF DeliveryInv, WorkersOk, Holds
      <4>3. NoCommit(worker[u].job, worker[u].token)
        BY <3>1, <4>1 DEF DeliveryInv, WorkersOk
      <4> QED BY <2>8, <2>9, <4>1, <4>2, <4>3 DEF NoCommit
    <3>2. \A t1, t2 \in Targets, i \in Jobs, n \in 1..MaxAttempts :
             Holds(t1, i, n)' /\ Holds(t2, i, n)' => t1 = t2
      BY <2>14 DEF DeliveryInv, WorkersOk
    <3> QED BY <3>1, <3>2 DEF WorkersOk
  <2>16. AcksOk'
    <3> SUFFICES ASSUME NEW p \in net, p.op = "ack"
                 PROVE  AckFine(p)'
      BY <1>2 DEF AcksOk
    <3>1. p.status = "delivered" => clicks'[p.job] > 0 BY <1>2 DEF DeliveryInv, AcksOk, AckFine
    <3>2. ASSUME p.status = "not_sent"
          PROVE  (/\ NoCommit(p.job, p.token)
                  /\ \A u \in Targets : ~Holds(u, p.job, p.token)
                  /\ Reached(jobs[p.job], p.token)
                  /\ Unclicked(p.job, jobs[p.job], p.token))'
      <4>1. /\ NoCommit(p.job, p.token)
            /\ \A u \in Targets : ~Holds(u, p.job, p.token)
            /\ ReportsNoClick(p, jobs[p.job])
        BY <3>2 DEF DeliveryInv, AcksOk, AckFine, ReportsNoClick
      <4>2. Reached(jobs'[p.job], p.token) /\ Unclicked(p.job, jobs'[p.job], p.token)
        BY <1>7, <3>2, <4>1 DEF Bridged, ReportsNoClick
      <4>3. ~(p.job = j /\ p.token = k) BY <1>3, <2>1, <4>1 DEF Holds
      <4>4. NoCommit(p.job, p.token)' BY <2>8, <2>9, <4>1, <4>3 DEF NoCommit
      <4>5. \A u \in Targets : ~Holds(u, p.job, p.token)' BY <2>14, <4>1
      <4> QED BY <1>2, <4>2, <4>4, <4>5 DEF Reached, Unclicked
    <3> QED BY <3>1, <3>2 DEF AckFine
  <2> QED BY <1>4, <1>7, <2>12, <2>13, <2>15, <2>16 DEF DeliveryInv
<1> QED BY <1>2, <1>8, <1>9

\* An acknowledgement is right about the job when it is served, however late.
LEMMA AckSteps ==
    ASSUME DeliveryInv, NEW q \in net, ServeAck(q)
    PROVE  DeliveryInv' /\ Promise!Advance
<1> DEFINE C == Cleaned(jobs)
           j == q.job
           r == C[j]
           Results == Acknowledged(r, q.status)
           Js(a) == [C EXCEPT ![j] = a]
<1>1. /\ \/ /\ r.state \in InFlight /\ SameClaim(r, q)
            /\ r.state = "Sending" \/ q.status = "failed"
            /\ \E a \in Results : Save("ack", Js(a), bound)
         \/ Unsaved(C, bound)
      /\ net' = net \ {q}
      /\ UNCHANGED <<live, extension>>
      /\ q.op = "ack"
  BY DEF ServeAck
<1>2. j \in Jobs /\ q.token \in Nat /\ q.status \in {"failed", "uncertain", "delivered", "not_sent"}
  BY <1>1 DEF DeliveryInv, BridgeInv, ExtensionTyped, Requests
<1>3. BridgeInv' BY ServeAckOk DEF DeliveryInv
<1>4. C = [i \in Jobs |-> C[i]] BY DEF Cleaned
<1>5. RecordOk(r) /\ InStep(j, r)
  BY <1>2, CleanedFacts
<1>6. q.status = "delivered" => clicks[j] > 0 BY <1>1 DEF DeliveryInv, AcksOk, AckFine
<1>7. q.status = "not_sent" => NoCommit(j, q.token) /\ Unclicked(j, r, q.token)
  <2>1. q.status = "not_sent" => NoCommit(j, q.token) /\ Unclicked(j, jobs[j], q.token)
    BY <1>1 DEF DeliveryInv, AcksOk, AckFine
  <2> QED BY <1>2, <2>1, CleanedFacts
<1> HIDE DEF C
<1>8. CASE Unsaved(C, bound)
  <2>1. \A i \in Jobs : Stepped(i, C[i], C[i]) /\ MayBeLost(C[i], C[i]) BY NothingMoves
  <2> QED BY <1>1, <1>3, <1>8, <2>1, HandlerSteps, StillExtension DEF C, BridgeInv, extension
<1>9. ASSUME r.state \in InFlight, SameClaim(r, q),
             r.state = "Sending" \/ q.status = "failed",
             NEW a \in Results, Save("ack", Js(a), bound)
      PROVE  DeliveryInv' /\ Promise!Advance
  <2> DEFINE js == Js(a)
  <2>1. r \in JobRecords /\ r.attempts \in Nat
    BY <1>5, ContinuationAssumption DEF RecordOk, JobRecords
  <2>2. \/ r.state = "Sending" /\ q.status = "delivered" /\ a.state = "Delivered"
        \/ r.state = "Sending" /\ q.status # "delivered" /\ a.state = "Uncertain"
        \/ r.state = "Sending" /\ q.status = "not_sent" /\ a = Retried(r)
        \/ r.state = "Claimed" /\ a = Retried(r)
        \/ r.state = "Claimed" /\ a = Over(r, "Failed")
    BY <1>2, <1>9, <2>1, OverOk DEF Acknowledged, InFlight, Ended
  <2>3. Retried(r).state \in {"Pending", "Failed"} /\ Reached(Retried(r), r.attempts)
    BY <1>5, <1>9, <2>1, RetriedOk DEF Reached, Active, Ended
  <2>4. js[j] = a /\ \A i \in Jobs \ {j} : js[i] = C[i] BY <1>2, <1>4
  <2>5. Stepped(j, r, a) /\ MayBeLost(r, a)
    <3>1. CASE r.state = "Sending" /\ q.status = "delivered" /\ a.state = "Delivered"
      BY <1>6, <3>1 DEF Stepped, Answered, MayBeLost
    <3>2. CASE r.state = "Sending" /\ a.state = "Uncertain"
      BY <3>2 DEF Stepped, Moved, MayBeLost
    <3>3. CASE r.state = "Sending" /\ q.status = "not_sent" /\ a = Retried(r)
      <4>1. clicks[j] = 0 BY <1>7, <1>9, <3>3 DEF Unclicked, SameClaim
      <4>2. \A t \in Targets : \A m \in Commits(t) : m.job # j
        BY <1>5, <1>7, <1>9, <3>3 DEF InStep, NoCommit, SameClaim
      <4> QED BY <2>3, <3>3, <4>1, <4>2 DEF Stepped, Answered, MayBeLost
    <3>4. CASE r.state = "Claimed" /\ a = Retried(r)
      BY <2>3, <3>4 DEF Stepped, Moved, MayBeLost
    <3>5. CASE r.state = "Claimed" /\ a = Over(r, "Failed")
      <4>1. a.state = "Failed" /\ Reached(a, r.attempts)
        BY <2>1, <3>5, OverOk DEF Reached, Active, Ended
      <4> QED BY <3>5, <4>1 DEF Stepped, Moved, MayBeLost
    <3> QED BY <2>2, <3>1, <3>2, <3>3, <3>4, <3>5
  <2>6. Save("ack", js, bound) BY <1>9
  <2> HIDE DEF js
  <2>7. \A i \in Jobs : Stepped(i, C[i], js[i]) /\ MayBeLost(C[i], js[i])
    BY <2>4, <2>5, NothingMoves
  <2>8. Bridged /\ Promise!Advance
    BY <1>1, <1>3, <2>6, <2>7, HandlerSteps DEF C, BridgeInv, extension
  <2> QED BY <1>1, <1>3, <2>8, StillExtension
<1> QED BY <1>1, <1>8, <1>9

\* A deadline passes.
LEMMA FlagSteps ==
    ASSUME DeliveryInv, BridgeInv', UNCHANGED <<net, extension>>,
           \A j \in Jobs : /\ Same(jobs[j], jobs'[j])
                           /\ disk'.jobs[j].state = disk.jobs[j].state
                           /\ disk'.jobs[j].attempts = disk.jobs[j].attempts
    PROVE  DeliveryInv' /\ Promise!Advance
<1>1. ASSUME NEW j \in Jobs, NEW c, NEW r, InStep(j, c), r.state = c.state, r.attempts = c.attempts
      PROVE  InStep(j, r)
  BY <1>1 DEF InStep, Reached, Unclicked
<1>2. ASSUME NEW j \in Jobs
      PROVE  StoreFollows(jobs'[j], disk'.jobs[j]) /\ InStep(j, jobs'[j]) /\ InStep(j, disk'.jobs[j])
  <2>1. StoreFollows(jobs[j], disk.jobs[j]) /\ InStep(j, jobs[j]) /\ InStep(j, disk.jobs[j])
    BY DEF DeliveryInv, RecordsOk
  <2>2. StoreFollows(jobs'[j], disk'.jobs[j]) BY <2>1 DEF StoreFollows, Same, Active
  <2> QED BY <1>1, <2>1, <2>2 DEF Same
<1>3. ASSUME NEW q \in net, ReportsNoClick(q, jobs[q.job]) PROVE ReportsNoClick(q, jobs'[q.job])
  <2>1. q.job \in Jobs BY DEF DeliveryInv, BridgeInv, ExtensionTyped, Requests
  <2> QED BY <1>3, <2>1 DEF ReportsNoClick, Same, Reached, Unclicked
<1>4. Bridged BY <1>2, <1>3 DEF Bridged
<1>5. DeliveryInv' BY <1>4, StillExtension
<1>6. ASSUME NEW j \in Jobs PROVE Told(j, jobs[j], jobs'[j])
  <2>1. jobs[j].state \in States BY JobsOkDef DEF DeliveryInv, BridgeInv, StoresOk, StoreOk, RecordOk, JobRecords
  <2>2. Phase(jobs'[j]) = Phase(jobs[j]) BY <2>1, PhaseOf DEF Same, Active, States
  <2> QED BY <2>2 DEF Told
<1> QED BY <1>5, <1>6, TellingAdvances DEF extension

LEMMA ClockSteps ==
    ASSUME DeliveryInv, NEW j \in Jobs, ClaimLapses(j) \/ Expires(j)
    PROVE  DeliveryInv' /\ Promise!Advance
<1>1. BridgeInv' BY ClaimLapsesOk, ExpiresOk DEF DeliveryInv
<1>2. /\ jobs \in [Jobs -> JobRecords] /\ disk.jobs \in [Jobs -> JobRecords]
      /\ disk = [jobs |-> disk.jobs, bound |-> disk.bound]
  BY DEF DeliveryInv, BridgeInv, StoresOk, StoreOk, JobsOk
<1>3. CASE ClaimLapses(j)
  <2>1. jobs' = Overdue(jobs, j) /\ disk'.jobs = Overdue(disk.jobs, j)
    BY <1>2, <1>3 DEF ClaimLapses
  <2>2. ASSUME NEW js \in [Jobs -> JobRecords], NEW i \in Jobs
        PROVE  /\ Overdue(js, j)[i].state = js[i].state
               /\ Overdue(js, j)[i].attempts = js[i].attempts
               /\ Overdue(js, j)[i].expired = js[i].expired
    BY DEF Overdue, JobRecords
  <2>3. \A i \in Jobs : /\ Same(jobs[i], jobs'[i])
                        /\ disk'.jobs[i].state = disk.jobs[i].state
                        /\ disk'.jobs[i].attempts = disk.jobs[i].attempts
    BY <1>2, <2>1, <2>2 DEF Same
  <2> QED BY <1>1, <1>3, <2>3, FlagSteps DEF ClaimLapses
<1>4. CASE Expires(j)
  <2>1. \A i \in Jobs : Same(jobs[i], jobs'[i])
    <3>1. jobs' = [jobs EXCEPT ![j] = [jobs[j] EXCEPT !.expired = TRUE]]
          /\ jobs[j].state \in Active
      BY <1>4 DEF Expires
    <3>2. jobs'[j].state = jobs[j].state /\ jobs'[j].attempts = jobs[j].attempts
          /\ \A i \in Jobs \ {j} : jobs'[i] = jobs[i]
      BY <1>2, <3>1 DEF JobRecords
    <3> QED BY <3>1, <3>2 DEF Same
  <2>2. \A i \in Jobs : /\ disk'.jobs[i].state = disk.jobs[i].state
                        /\ disk'.jobs[i].attempts = disk.jobs[i].attempts
    <3> DEFINE v == disk.jobs[j].expired \/ disk.jobs[j].state # "Absent"
    <3>1. disk'.jobs = [disk.jobs EXCEPT ![j] = [disk.jobs[j] EXCEPT !.expired = v]]
      BY <1>2, <1>4 DEF Expires
    <3> HIDE DEF v
    <3> QED BY <1>2, <3>1 DEF JobRecords
  <2> QED BY <1>1, <1>4, <2>1, <2>2, FlagSteps DEF Expires
<1> QED BY <1>3, <1>4

\* A restart loads records that are as far as the promise needs.
LEMMA RestartSteps ==
    ASSUME DeliveryInv, Restart
    PROVE  DeliveryInv' /\ Promise!Recover
<1> DEFINE D == disk.jobs
<1>1. BridgeInv' BY RestartOk DEF DeliveryInv
<1>2. /\ jobs' = Cleaned(D) /\ disk'.jobs = jobs' /\ net' = {} /\ UNCHANGED extension
  BY DEF Restart
<1>3. ASSUME NEW j \in Jobs
      PROVE  /\ RecordOk(D[j]) /\ RecordOk(jobs[j]) /\ RecordOk(CleanedJob(D[j]))
             /\ jobs'[j] = CleanedJob(D[j]) /\ InStep(j, CleanedJob(D[j]))
             /\ StoreFollows(jobs[j], D[j])
  <2>1. RecordOk(D[j]) /\ RecordOk(jobs[j]) BY JobsOkDef DEF DeliveryInv, BridgeInv, StoresOk, StoreOk
  <2>2. jobs'[j] = CleanedJob(D[j]) BY <1>2 DEF Cleaned
  <2>3. RecordOk(CleanedJob(D[j])) BY <2>1, CleanedJobOk
  <2>4. Stepped(j, D[j], CleanedJob(D[j])) BY <2>1, CleanedMoves DEF Stepped
  <2>5. InStep(j, D[j]) /\ StoreFollows(jobs[j], D[j]) BY DEF DeliveryInv, RecordsOk
  <2>6. InStep(j, CleanedJob(D[j])) BY <2>1, <2>3, <2>4, <2>5, RecordSteps
  <2> QED BY <2>1, <2>2, <2>3, <2>5, <2>6
<1>4. RecordsOk'
  BY <1>2, <1>3, StoreFollowsItself DEF RecordsOk, InStep, Commits, Reached, Unclicked, extension, StoreFollows
<1>5. CommitsOk' BY <1>2 DEF DeliveryInv, CommitsOk, Commits, extension
<1>6. WorkersOk' BY <1>2 DEF DeliveryInv, WorkersOk, Holds, NoCommit, Commits, extension
<1>7. AcksOk' BY <1>2 DEF AcksOk
<1>8. ASSUME NEW j \in Jobs, Phase(jobs'[j]) = "waiting"
      PROVE  Phase(jobs[j]) \in {"waiting", "failed"}
  <2>1. /\ D[j].state \in States /\ jobs[j].state \in States /\ CleanedJob(D[j]).state \in States
        /\ jobs[j].expired \in BOOLEAN
    BY <1>3 DEF RecordOk, JobRecords
  <2>2. CleanedJob(D[j]).state \in {"Pending", "Claimed"}
    BY <1>3, <1>8, <2>1, PhaseOf DEF States
  <2>3. D[j].state \in {"Pending", "Claimed"}
    BY <1>3, <2>2, CleanedJobOk
  <2>4. jobs[j].state \notin {"Absent", "Sending", "Uncertain", "Delivered"}
        /\ ~(jobs[j].state = "Cancelled" /\ ~jobs[j].expired)
    BY <1>3, <2>3 DEF StoreFollows
  <2> QED BY <2>1, <2>4, PhaseOf DEF States
<1>9. Promise!Recover
  <2>1. clicks' = clicks BY <1>2 DEF extension
  <2> QED BY <1>8, <2>1 DEF Promise!Recover
<1> QED BY <1>1, <1>4, <1>5, <1>6, <1>7, <1>9 DEF DeliveryInv

\* The extension gives up, or asks: fewer clicks on their way, fewer workers busy, and no
\* acknowledgement that says more than is known.
LEMMA ExtensionWeakens ==
    ASSUME DeliveryInv, BridgeInv', UNCHANGED <<bridge, live, clicks>>,
           \A t \in Targets :
              \/ worker'[t] \in {worker[t], Idle}
              \/ /\ worker[t].stage \in Early /\ worker'[t].stage \in Early
                 /\ worker'[t].job = worker[t].job /\ worker'[t].token = worker[t].token,
           \A t \in Targets : Commits(t)' \subseteq Commits(t),
           \A q \in net' : \/ q \in net \/ q.op # "ack"
                           \/ q.status \in {"failed", "uncertain"}
                           \/ AckFine(q)'
    PROVE  DeliveryInv'
<1>1. \A t \in Targets : worker'[t].stage # "idle" =>
         /\ worker[t].stage # "idle"
         /\ worker'[t].job = worker[t].job /\ worker'[t].token = worker[t].token
         /\ worker'[t].stage \in Early => worker[t].stage \in Early
  BY DEF Idle, Early
<1>2. \A t \in Targets : \A j, k : Holds(t, j, k)' => Holds(t, j, k)
  BY <1>1 DEF Holds
<1>3. "idle" \notin Early BY DEF Early
<1>4. \A j, k : NoCommit(j, k) => NoCommit(j, k)'
  BY DEF NoCommit
<1>5. ASSUME NEW j \in Jobs, NEW x, InStep(j, x) PROVE InStep(j, x)'
  <2>1. \A t \in Targets : \A m \in Commits(t)' : m.job = j =>
          /\ x.state \in {"Sending", "Uncertain"}
          /\ x.state = "Sending" => x.attempts = m.token
    BY <1>5 DEF InStep
  <2>2. clicks'[j] > 0 => x.state \in {"Sending", "Uncertain", "Delivered"}
    BY <1>5 DEF InStep
  <2>3. \A t \in Targets : worker'[t].stage # "idle" /\ worker'[t].job = j =>
           Reached(x, worker'[t].token)
    BY <1>1, <1>5 DEF InStep
  <2>4. \A t \in Targets : worker'[t].stage \in Early /\ worker'[t].job = j =>
           Unclicked(j, x, worker'[t].token)
    BY <1>1, <1>5, <1>3 DEF InStep
  <2> QED BY <2>1, <2>2, <2>3, <2>4 DEF InStep, Reached, Unclicked
<1>6. RecordsOk'
  BY <1>5 DEF DeliveryInv, RecordsOk, bridge, InStep, StoreFollows, Reached, Unclicked
<1>7. CommitsOk' BY DEF DeliveryInv, CommitsOk
<1>8. WorkersOk'
  <2>1. \A t \in Targets : worker'[t].stage \in Early =>
           NoCommit(worker'[t].job, worker'[t].token)
    BY <1>1, <1>3 DEF DeliveryInv, WorkersOk
  <2>2. \A t \in Targets : worker'[t].stage \in Early =>
           NoCommit(worker[t].job, worker[t].token)'
    BY <2>1 DEF NoCommit
  <2> QED BY <1>2, <2>2 DEF DeliveryInv, WorkersOk
<1>9. AcksOk'
  <2> SUFFICES ASSUME NEW q \in net', q.op = "ack" PROVE AckFine(q)'
    BY DEF AcksOk
  <2>1. CASE q \in net
    <3>1. AckFine(q) BY <2>1 DEF DeliveryInv, AcksOk
    <3> QED BY <1>2, <1>4, <3>1 DEF AckFine, bridge, Reached, Unclicked
  <2>2. CASE q.status \in {"failed", "uncertain"} BY <2>2 DEF AckFine
  <2> QED BY <2>1, <2>2
<1> QED BY <1>6, <1>7, <1>8, <1>9 DEF DeliveryInv

LEMMA PollSteps ==
    ASSUME DeliveryInv, NEW t \in Targets,
           RetryPrepare(t) \/ PrepareFails(t) \/ BeginFails(t) \/ CommitFails(t)
             \/ WorkerDies(t) \/ Reload(t)
    PROVE  DeliveryInv'
<1>1. BridgeInv' BY PollFailsOk DEF DeliveryInv
<1>2. worker \in [Targets -> Polls \union {Idle}] /\ mail \in [Targets -> SUBSET Letters]
  BY DEF DeliveryInv, BridgeInv, ExtensionTyped
<1>3. \A S, m : Sent(S, m) \subseteq S \union {m} BY SentOk
<1>4. CASE RetryPrepare(t)
  <2>1. \A u \in Targets : Commits(u)' \subseteq Commits(u)
    <3>1. Letter("prepare", worker[t]).kind = "prepare" BY DEF Letter
    <3>2. \A u \in Targets : mail'[u] \subseteq mail[u] \union {Letter("prepare", worker[t])}
      BY <1>2, <1>4, <1>3 DEF RetryPrepare, Post
    <3> QED BY <3>1, <3>2 DEF Commits
  <2> QED BY <1>1, <1>4, <2>1, ExtensionWeakens DEF RetryPrepare
<1>5. CASE PrepareFails(t)
  <2>1. \A q \in net' : q \in net \/ q.status \in {"failed", "uncertain"}
    BY <1>5, <1>3 DEF PrepareFails, Send, Request
  <2>2. \A u \in Targets : worker'[u] \in {worker[u], Idle} BY <1>2, <1>5 DEF PrepareFails
  <2> QED BY <1>1, <1>5, <2>1, <2>2, ExtensionWeakens DEF PrepareFails, Commits
<1>6. CASE BeginFails(t)
  <2>1. \A q \in net' : q \in net \/ q.op # "ack"
    BY <1>6, <1>3 DEF BeginFails, Send, Request
  <2>2. \A u \in Targets :
              \/ worker'[u] \in {worker[u], Idle}
              \/ /\ worker[u].stage \in Early /\ worker'[u].stage \in Early
                 /\ worker'[u].job = worker[u].job /\ worker'[u].token = worker[u].token
    <3>1. CASE worker[t].stage = "begin1" /\ worker' = [worker EXCEPT ![t].stage = "begin2"]
      <4>1. worker[t] \in Polls BY <3>1, PollOk DEF DeliveryInv, BridgeInv
      <4>2. /\ worker'[t].stage = "begin2" /\ worker'[t].job = worker[t].job
            /\ worker'[t].token = worker[t].token
            /\ \A u \in Targets \ {t} : worker'[u] = worker[u]
        BY <1>2, <3>1, <4>1 DEF Polls
      <4> QED BY <3>1, <4>2 DEF Early
    <3>2. CASE worker' = [worker EXCEPT ![t] = Idle] BY <1>2, <3>2
    <3> QED BY <1>6, <3>1, <3>2 DEF BeginFails
  <2> QED BY <1>1, <1>6, <2>1, <2>2, ExtensionWeakens DEF BeginFails, Commits
<1>7. CASE CommitFails(t)
  <2>1. \A q \in net' : q \in net \/ q.status \in {"failed", "uncertain"}
    BY <1>7, <1>3 DEF CommitFails, Send, Request
  <2>2. \A u \in Targets : worker'[u] \in {worker[u], Idle} BY <1>2, <1>7 DEF CommitFails
  <2> QED BY <1>1, <1>7, <2>1, <2>2, ExtensionWeakens DEF CommitFails, Commits
<1>8. CASE WorkerDies(t)
  <2>1. \A u \in Targets : worker'[u] \in {worker[u], Idle} BY <1>2, <1>8 DEF WorkerDies
  <2> QED BY <1>1, <1>8, <2>1, ExtensionWeakens DEF WorkerDies, Commits
<1>9. CASE Reload(t)
  <2>1. \A u \in Targets : mail'[u] \subseteq mail[u] BY <1>2, <1>9 DEF Reload
  <2> QED BY <1>1, <1>9, <2>1, ExtensionWeakens DEF Reload, Commits
<1> QED BY <1>4, <1>5, <1>6, <1>7, <1>8, <1>9

LEMMA PrepareSteps ==
    ASSUME DeliveryInv, NEW t \in Targets, NEW m, Prepare(t, m)
    PROVE  DeliveryInv'
<1>1. BridgeInv' BY PrepareOk DEF DeliveryInv
<1>2. worker \in [Targets -> Polls \union {Idle}] /\ mail \in [Targets -> SUBSET Letters]
  BY DEF DeliveryInv, BridgeInv, ExtensionTyped
<1>3. \A u \in Targets : Commits(u)' \subseteq Commits(u)
  BY <1>2 DEF Prepare, Commits
<1>4. CASE UNCHANGED <<worker, net>>
  BY <1>1, <1>3, <1>4, ExtensionWeakens DEF Prepare
<1>5. CASE /\ worker[t].stage = "preparing"
           /\ worker' = [worker EXCEPT ![t].stage = "begin1"]
           /\ Send(Request("begin1", t, worker[t], "none"))
  <2>1. \A q \in net' : q \in net \/ q.op # "ack"
    BY <1>5, SentOk DEF Send, Request
  <2>2. worker[t] \in Polls BY <1>5, PollOk DEF DeliveryInv, BridgeInv
  <2>3. /\ worker'[t].stage = "begin1" /\ worker'[t].job = worker[t].job
        /\ worker'[t].token = worker[t].token
        /\ \A u \in Targets \ {t} : worker'[u] = worker[u]
    BY <1>2, <1>5, <2>2 DEF Polls
  <2>4. worker[t].stage \in Early /\ worker'[t].stage \in Early BY <1>5, <2>3 DEF Early
  <2> QED BY <1>1, <1>3, <2>1, <2>3, <2>4, ExtensionWeakens DEF Prepare
<1> QED BY <1>4, <1>5 DEF Prepare, Awaits

\* A refused commit says not sent, and was the only click on its way.
LEMMA RefusedSteps ==
    ASSUME DeliveryInv, NEW t \in Targets, NEW m \in mail[t], CommitRefused(t, m)
    PROVE  DeliveryInv'
<1>1. BridgeInv' BY CommitOk DEF DeliveryInv
<1>2. worker \in [Targets -> Polls \union {Idle}] /\ mail \in [Targets -> SUBSET Letters]
  BY DEF DeliveryInv, BridgeInv, ExtensionTyped
<1>3. /\ \A u \in Targets : Commits(u)' \subseteq Commits(u)
      /\ m \in Commits(t) /\ m \notin Commits(t)'
  BY <1>2 DEF CommitRefused, Commits
<1>4. CASE UNCHANGED <<worker, net>>
  BY <1>1, <1>3, <1>4, ExtensionWeakens DEF CommitRefused
<1>5. CASE /\ Awaits(t, m, "committing")
           /\ worker' = [worker EXCEPT ![t] = Idle]
           /\ Send(Request("ack", t, worker[t], "not_sent"))
  <2> DEFINE a == Request("ack", t, worker[t], "not_sent")
  <2>1. /\ worker[t].stage # "idle" /\ worker[t].job = m.job /\ worker[t].token = m.token
    BY <1>5 DEF Awaits
  <2>2. worker[t] \in Polls /\ m.job \in Jobs /\ m.token \in 1..MaxAttempts
    BY <2>1, PollOk DEF DeliveryInv, BridgeInv, Polls
  <2>3. a.job = m.job /\ a.token = m.token /\ a.status = "not_sent" BY <2>1 DEF Request
  <2>4. \A q \in net' : q \in net \/ q = a BY <1>5, SentOk DEF Send
  <2>5. \A u \in Targets : worker'[u] \in {worker[u], Idle} /\ worker'[t] = Idle
    BY <1>2, <1>5
  <2> HIDE DEF a
  <2>6. ASSUME NEW q \in net', q = a PROVE AckFine(q)'
    <3>1. NoCommit(m.job, m.token)'
      BY <1>3 DEF DeliveryInv, CommitsOk, NoCommit
    <3>2. \A u \in Targets : ~Holds(u, m.job, m.token)'
      <4> SUFFICES ASSUME NEW u \in Targets, Holds(u, m.job, m.token)' PROVE FALSE OBVIOUS
      <4>1. Holds(u, m.job, m.token) /\ u # t BY <2>5 DEF Holds, Idle
      <4>2. Holds(t, m.job, m.token) BY <2>1 DEF Holds
      <4> QED BY <2>2, <4>1, <4>2 DEF DeliveryInv, WorkersOk
    <3>3. Reached(jobs[m.job], m.token)
      BY <2>1, <2>2 DEF DeliveryInv, RecordsOk, InStep
    <3>4. clicks[m.job] = 0 BY <1>3 DEF DeliveryInv, CommitsOk
    <3>5. jobs' = jobs /\ clicks' = clicks BY DEF CommitRefused, bridge
    <3>6. q.job = m.job /\ q.token = m.token /\ q.status = "not_sent" BY <2>3, <2>6
    <3>7. Reached(jobs[m.job], m.token)' /\ Unclicked(m.job, jobs[m.job], m.token)'
      BY <3>3, <3>4, <3>5 DEF Reached, Unclicked
    <3> QED BY <3>1, <3>2, <3>6, <3>7 DEF AckFine
  <2> QED BY <1>1, <1>3, <2>4, <2>5, <2>6, ExtensionWeakens DEF CommitRefused
<1> QED BY <1>4, <1>5 DEF CommitRefused, Answer

\* The click.  Nobody else may click for this job afterwards.
LEMMA ClickSteps ==
    ASSUME DeliveryInv, NEW t \in Targets, NEW m \in mail[t], CommitClicks(t, m)
    PROVE  DeliveryInv' /\ Promise!Click
<1> DEFINE j == m.job
<1>1. BridgeInv' BY CommitOk DEF DeliveryInv
<1>2. /\ worker \in [Targets -> Polls \union {Idle}] /\ mail \in [Targets -> SUBSET Letters]
      /\ clicks \in [Jobs -> Nat] /\ net \subseteq Requests
  BY DEF DeliveryInv, BridgeInv, ExtensionTyped
<1>3. j \in Jobs /\ m.token \in 1..MaxAttempts BY <1>2 DEF Letters
<1>4. /\ \A u \in Targets : Commits(u)' \subseteq Commits(u)
      /\ m \in Commits(t) /\ m \notin Commits(t)'
  BY <1>2 DEF CommitClicks, Commits
<1>5. /\ jobs' = jobs /\ disk' = disk /\ clicks'[j] = clicks[j] + 1
      /\ \A i \in Jobs \ {j} : clicks'[i] = clicks[i]
  BY <1>2, <1>3 DEF CommitClicks, bridge
<1>6. clicks[j] = 0 BY <1>4 DEF DeliveryInv, CommitsOk
<1>7. \A u \in Targets : \A l \in Commits(u)' : l.job # j
  BY <1>4 DEF DeliveryInv, CommitsOk
<1>8. \A u \in Targets : worker'[u] \in {worker[u], Idle}
  BY <1>2 DEF CommitClicks, Answer
<1>9. \A u \in Targets : worker'[u].stage # "idle" => worker'[u] = worker[u]
  BY <1>8 DEF Idle
<1>10. "idle" \notin Early BY DEF Early
<1>11. \A q \in net' : \/ q \in net \/ q.status = "uncertain"
                       \/ q.status = "delivered" /\ q.job = j
  <2>1. ASSUME NEW status \in {"delivered", "uncertain"}, Answer(t, m, status)
        PROVE  \A q \in net' : \/ q \in net \/ q.status = "uncertain"
                               \/ q.status = "delivered" /\ q.job = j
    BY <2>1, SentOk DEF Answer, Awaits, Send, Request
  <2> QED BY <2>1 DEF CommitClicks
<1>12. ASSUME NEW i \in Jobs, NEW x, InStep(i, x) PROVE InStep(i, x)'
  <2>1. \A u \in Targets : \A l \in Commits(u)' : l.job = i =>
          /\ x.state \in {"Sending", "Uncertain"}
          /\ x.state = "Sending" => x.attempts = l.token
    BY <1>4, <1>12 DEF InStep
  <2>2. clicks'[i] > 0 => x.state \in {"Sending", "Uncertain", "Delivered"}
    BY <1>4, <1>5, <1>12 DEF InStep
  <2>3. \A u \in Targets : worker'[u].stage # "idle" /\ worker'[u].job = i =>
           Reached(x, worker'[u].token)
    BY <1>9, <1>12 DEF InStep
  <2>4. ASSUME NEW u \in Targets, worker'[u].stage \in Early, worker'[u].job = i
        PROVE  Unclicked(i, x, worker[u].token)'
    <3>1. worker'[u] = worker[u] BY <1>9, <1>10, <2>4
    <3>2. Unclicked(i, x, worker[u].token) BY <1>12, <2>4, <3>1 DEF InStep
    <3>3. CASE i # j BY <1>5, <3>1, <3>2, <3>3 DEF Unclicked
    <3>4. CASE i = j
      <4>1. NoCommit(j, worker[u].token) BY <2>4, <3>1, <3>4 DEF DeliveryInv, WorkersOk
      <4>2. x.state = "Sending" => x.attempts = m.token BY <1>4, <1>12, <3>4 DEF InStep
      <4>3. m.token # worker[u].token BY <1>4, <4>1 DEF NoCommit
      <4> QED BY <3>1, <4>2, <4>3 DEF Unclicked
    <3> QED BY <3>3, <3>4
  <2> QED BY <2>1, <2>2, <2>3, <2>4 DEF InStep, Reached
<1>13. RecordsOk'
  BY <1>5, <1>12 DEF DeliveryInv, RecordsOk, InStep, StoreFollows, Reached, Unclicked
<1>14. CommitsOk'
  <2>1. ASSUME NEW u \in Targets, NEW l \in Commits(u)' PROVE clicks'[l.job] = 0
    <3>1. l \in Commits(u) /\ l.job \in Jobs \ {j}
      BY <1>2, <1>4, <1>7, <2>1 DEF Commits, Letters
    <3> QED BY <1>5, <3>1 DEF DeliveryInv, CommitsOk
  <2> QED BY <1>4, <2>1 DEF DeliveryInv, CommitsOk
<1>15. WorkersOk'
  <2>1. ASSUME NEW u \in Targets, worker'[u].stage \in Early
        PROVE  NoCommit(worker[u].job, worker[u].token)'
    <3>1. worker'[u] = worker[u] BY <1>9, <1>10, <2>1
    <3>2. NoCommit(worker[u].job, worker[u].token) BY <2>1, <3>1 DEF DeliveryInv, WorkersOk
    <3> QED BY <1>4, <3>1, <3>2 DEF NoCommit
  <2>2. \A u \in Targets : \A i, k : Holds(u, i, k)' => Holds(u, i, k)
    BY <1>9 DEF Holds
  <2> QED BY <2>1, <2>2 DEF DeliveryInv, WorkersOk
<1>16. AcksOk'
  <2> SUFFICES ASSUME NEW q \in net', q.op = "ack" PROVE AckFine(q)'
    BY DEF AcksOk
  <2>1. CASE q \in net
    <3>1. AckFine(q) /\ q.job \in Jobs BY <1>2, <2>1 DEF DeliveryInv, AcksOk, Requests
    <3>2. q.status = "delivered" => clicks'[q.job] > 0
      BY <1>2, <1>5, <3>1 DEF AckFine
    <3>3. ASSUME q.status = "not_sent"
          PROVE  /\ NoCommit(q.job, q.token)'
                 /\ \A u \in Targets : ~Holds(u, q.job, q.token)'
                 /\ Reached(jobs[q.job], q.token)
                 /\ Unclicked(q.job, jobs[q.job], q.token)'
      <4>1. /\ NoCommit(q.job, q.token)
            /\ \A u \in Targets : ~Holds(u, q.job, q.token)
            /\ Reached(jobs[q.job], q.token)
            /\ Unclicked(q.job, jobs[q.job], q.token)
        BY <3>1, <3>3 DEF AckFine
      <4>2. Unclicked(q.job, jobs[q.job], q.token)'
        <5>1. CASE q.job # j BY <1>5, <3>1, <4>1, <5>1 DEF Unclicked
        <5>2. CASE q.job = j
          <6>1. m.token # q.token BY <1>4, <4>1, <5>2 DEF NoCommit
          <6>2. jobs[j].state = "Sending" => jobs[j].attempts = m.token
            BY <1>3, <1>4 DEF DeliveryInv, RecordsOk, InStep
          <6> QED BY <1>5, <5>2, <6>1, <6>2 DEF Unclicked
        <5> QED BY <5>1, <5>2
      <4>3. NoCommit(q.job, q.token)' BY <1>4, <4>1 DEF NoCommit
      <4>4. \A u \in Targets : ~Holds(u, q.job, q.token)' BY <1>9, <4>1 DEF Holds
      <4> QED BY <4>1, <4>2, <4>3, <4>4
    <3> QED BY <1>5, <3>2, <3>3 DEF AckFine, Reached
  <2>2. CASE q.status = "uncertain" BY <2>2 DEF AckFine
  <2>3. CASE q.status = "delivered" /\ q.job = j
    <3>1. clicks'[j] > 0 BY <1>5, <1>6
    <3> QED BY <2>3, <3>1 DEF AckFine
  <2> QED BY <1>11, <2>1, <2>2, <2>3
<1>17. Promise!Click
  <2>1. Phase(jobs[j]) = "authorised"
    BY <1>3, <1>4 DEF DeliveryInv, RecordsOk, InStep, Phase
  <2>2. sents' = [sents EXCEPT ![j] = TRUE]
    <3>1. clicks'[j] > 0 BY <1>5, <1>6
    <3>2. sents'[j] = TRUE
      <4>1. sents'[j] = (clicks'[j] > 0) BY <1>3, Zenon DEF sents
      <4> QED BY <3>1, <4>1
    <3>3. \A i \in Jobs \ {j} : sents'[i] = sents[i] BY <1>5 DEF sents
    <3>4. sents = [i \in Jobs |-> sents[i]] /\ sents' = [i \in Jobs |-> sents'[i]]
      BY DEF sents
    <3> QED BY <1>3, <3>2, <3>3, <3>4
  <2>3. ~(clicks[j] > 0) BY <1>6
  <2>4. phases' = phases BY <1>5 DEF phases
  <2> QED BY <1>3, <2>1, <2>2, <2>3, <2>4 DEF Promise!Click, phases, sents
<1> QED BY <1>1, <1>13, <1>14, <1>15, <1>16, <1>17 DEF DeliveryInv

-----------------------------------------------------------------------------
(* The refinement *)

LEMMA InitDelivery == Init => DeliveryInv
<1> SUFFICES ASSUME Init PROVE DeliveryInv OBVIOUS
<1>1. BridgeInv BY InitBridge
<1>2. \A j \in Jobs : jobs[j] = NoJob /\ disk.jobs[j] = NoJob /\ clicks[j] = 0 BY DEF Init
<1>3. \A t \in Targets : worker[t].stage = "idle" /\ mail[t] = {} BY DEF Init, Idle
<1>4. NoJob.state = "Absent" BY DEF NoJob
<1>5. RecordsOk BY <1>2, <1>3, <1>4 DEF RecordsOk, StoreFollows, InStep, Commits, Early
<1>6. CommitsOk /\ WorkersOk BY <1>3 DEF CommitsOk, WorkersOk, Commits, Holds, Early
<1>7. AcksOk BY DEF Init, AcksOk
<1> QED BY <1>1, <1>5, <1>6, <1>7 DEF DeliveryInv

\* Every step keeps DeliveryInv and is a step of the promise, or none.
LEMMA DeliverySteps ==
    ASSUME SafeSaves, DeliveryInv, [Next]_vars
    PROVE  DeliveryInv' /\ [Promise!Next]_<<phases, sents>>
<1> USE DEF Promise!Next
<1>1. CASE Client
  <2>1. Bridged /\ Promise!Advance
    BY <1>1, QueueSteps, EnsureSteps, CloseSteps DEF Client
  <2>2. UNCHANGED <<net, extension>> /\ BridgeInv' BY <1>1, ClientOk DEF DeliveryInv
  <2> QED BY <2>1, <2>2, StillExtension
<1>2. CASE Server
  BY <1>2, BeginSteps, AckSteps DEF Server
<1>3. CASE Clock
  BY <1>3, ClockSteps DEF Clock
<1>4. CASE SweepFails \/ \E t \in Targets : Register(t)
  <2>1. Bridged /\ Promise!Advance BY <1>4, SweepSteps
  <2>2. UNCHANGED <<net, extension>> BY <1>4 DEF SweepFails, Register
  <2>3. BridgeInv' BY <1>4, SweepFailsOk, RegisterOk DEF DeliveryInv
  <2> QED BY <2>1, <2>2, <2>3, StillExtension
<1>5. CASE Restart
  BY <1>5, RestartSteps
<1>6. ASSUME NEW t \in Polled, Poll(t) PROVE DeliveryInv' /\ [Promise!Next]_<<phases, sents>>
  <2>1. t \in Targets BY ContinuationAssumption
  <2>2. CASE Claim(t) BY <2>1, <2>2, ClaimSteps
  <2>3. CASE \E m \in mail[t] : CommitClicks(t, m) BY <2>1, <2>3, ClickSteps
  <2>4. CASE \/ RetryPrepare(t) \/ PrepareFails(t) \/ BeginFails(t) \/ CommitFails(t)
             \/ WorkerDies(t) \/ Reload(t)
             \/ \E m \in mail[t] : Prepare(t, m) \/ CommitRefused(t, m)
    <3>1. DeliveryInv' BY <2>1, <2>4, PollSteps, PrepareSteps, RefusedSteps
    <3>2. jobs' = jobs /\ clicks' = clicks
      BY <2>4 DEF RetryPrepare, PrepareFails, BeginFails, CommitFails, WorkerDies, Reload,
                  Prepare, CommitRefused, bridge
    <3> QED BY <3>1, <3>2 DEF phases, sents
  <2> QED BY <1>6, <2>2, <2>3, <2>4 DEF Poll
<1>7. CASE UNCHANGED vars \/ \E t \in Targets : Vanish(t)
  <2>1. UNCHANGED <<bridge, net, extension>> BY <1>7 DEF vars, Vanish, bridge, extension
  <2>2. BridgeInv' BY <1>7, VanishOk DEF DeliveryInv
  <2>3. DeliveryInv'
    BY <2>1, <2>2 DEF DeliveryInv, RecordsOk, StoreFollows, InStep, Commits, Reached, Unclicked, CommitsOk,
          WorkersOk, Holds, NoCommit, AcksOk, AckFine, bridge, extension
  <2> QED BY <2>1, <2>3 DEF phases, sents, bridge, extension
<1> QED BY <1>1, <1>2, <1>3, <1>4, <1>5, <1>6, <1>7 DEF Next

\* While the saves of begin_send and of a close succeed, the delivery implements
\* ContinuationPromise: Send is clicked once and only for a claim that begin_send accepted,
\* "delivered" is only said of a message that was sent, and no restart offers again what was
\* sent, delivered or withdrawn, though claims lapse, answers are lost, workers and tabs die,
\* and the saves of claims, acknowledgements and requests fail.
THEOREM PromiseHolds ==
    ASSUME SafeSaves
    PROVE  Spec => PromiseKept
<1>1. Init => Promise!Init
  <2> SUFFICES ASSUME Init PROVE Promise!Init OBVIOUS
  <2>1. \A j \in Jobs : Phase(jobs[j]) = "unknown" BY DEF Init, Phase, NoJob
  <2>2. \A j \in Jobs : (clicks[j] > 0) = FALSE
    <3> SUFFICES ASSUME NEW j \in Jobs PROVE ~(clicks[j] > 0) OBVIOUS
    <3> QED BY DEF Init
  <2>3. [j \in Jobs |-> Phase(jobs[j])] = [j \in Jobs |-> "unknown"] BY <2>1
  <2>4. [j \in Jobs |-> clicks[j] > 0] = [j \in Jobs |-> FALSE] BY <2>2, Zenon
  <2> QED BY <2>3, <2>4, Zenon DEF Promise!Init
<1>2. Init => DeliveryInv BY InitDelivery
<1>3. DeliveryInv /\ [Next]_vars => DeliveryInv' /\ [Promise!Next]_<<phases, sents>>
  BY DeliverySteps
<1>4. [Promise!Next]_<<phases, sents>> =>
        [Promise!Next]_<<[j \in Jobs |-> Phase(jobs[j])], [j \in Jobs |-> clicks[j] > 0]>>
  BY DEF phases, sents
<1> QED BY <1>1, <1>2, <1>3, <1>4, PTL DEF Spec, PromiseKept, Promise!Spec

\* Only the content script clicks.
LEMMA Clicking ==
    ASSUME BridgeInv, [Next]_vars
    PROVE  \/ clicks' = clicks
           \/ \E t \in Polled : \E m \in mail[t] : CommitClicks(t, m)
<1>1. CASE Client
  BY <1>1, ClientOk DEF extension
<1>2. CASE Server
  BY <1>2 DEF Server, ServeBegin, ServeAck, extension
<1>3. CASE Clock \/ SweepFails \/ Restart \/ UNCHANGED vars
  BY <1>3 DEF Clock, ClaimLapses, Expires, SweepFails, Restart, vars, extension
<1>4. CASE \E t \in Targets : Register(t) \/ Vanish(t)
  BY <1>4 DEF Register, Vanish, extension
<1>5. CASE \E t \in Polled : Poll(t)
  BY <1>5 DEF Poll, Claim, RetryPrepare, PrepareFails, BeginFails, CommitFails, WorkerDies,
              Reload, Prepare, CommitRefused
<1> QED BY <1>1, <1>2, <1>3, <1>4, <1>5 DEF Next

\* While the saves of begin_send and of a close succeed, no message is sent twice, however
\* often it is claimed and whatever is lost or answered late.  The run resend shows that a
\* failed save of begin_send is enough to break it.
THEOREM SentAtMostOnce ==
    ASSUME SafeSaves
    PROVE  Spec => []AtMostOnce
<1>1. Init => DeliveryInv /\ AtMostOnce
  BY InitDelivery DEF Init, AtMostOnce
<1>2. DeliveryInv /\ AtMostOnce /\ [Next]_vars => (DeliveryInv /\ AtMostOnce)'
  <2> SUFFICES ASSUME DeliveryInv, AtMostOnce, [Next]_vars PROVE AtMostOnce'
    BY DeliverySteps
  <2>1. ASSUME NEW t \in Polled, NEW m \in mail[t], CommitClicks(t, m) PROVE AtMostOnce'
    <3>1. m \in Commits(t) /\ t \in Targets
      BY <2>1, ContinuationAssumption DEF CommitClicks, Commits
    <3>2. clicks[m.job] = 0 BY <3>1 DEF DeliveryInv, CommitsOk
    <3>3. clicks \in [Jobs -> Nat] /\ m.job \in Jobs
      BY <3>1 DEF DeliveryInv, BridgeInv, ExtensionTyped, Letters
    <3> QED BY <2>1, <3>2, <3>3 DEF CommitClicks, AtMostOnce
  <2> QED BY <2>1, Clicking DEF AtMostOnce, DeliveryInv
<1> QED BY <1>1, <1>2, PTL DEF Spec
-----------------------------------------------------------------------------
(* What must happen: deadlines are never put off *)

\* A job that has expired, and a claim that has lapsed.
Late(r) == r.state \in Active /\ r.expired
Overstayed(r) == r.state \in InFlight /\ r.lapsed

\* A restart does not take a deadline back that has passed.
Deadlines == \A j \in Jobs :
    /\ Late(jobs[j]) => disk.jobs[j].state \notin Active \/ disk.jobs[j].expired
    /\ Overstayed(jobs[j]) => disk.jobs[j].state \notin InFlight \/ disk.jobs[j].lapsed

\* A late job: waiting for a claim, held by a claim, or held by one that has lapsed.
Waiting(j) == jobs[j].state = "Pending" /\ jobs[j].expired
Held(j) == jobs[j].state \in InFlight /\ jobs[j].expired /\ ~jobs[j].lapsed
Lost(j) == jobs[j].state \in InFlight /\ jobs[j].expired /\ jobs[j].lapsed
Settled(j) == jobs[j].state \notin Active

\* A late job is never claimed again; a restart may find that it still is.
Aging == \A j \in Jobs :
    /\ Waiting(j) => Waiting(j)' \/ Held(j)' \/ Settled(j)'
    /\ Held(j) => Held(j)' \/ Lost(j)' \/ Settled(j)'
    /\ Lost(j) => Lost(j)' \/ Settled(j)'

\* What the cleanup leaves, and what a handler makes of it.
Clean(x) == ~Overstayed(x) /\ (x.state = "Pending" => ~x.expired)
InTime(x, y) ==
    /\ ~Overstayed(y)
    /\ Late(y) => Late(x) /\ y.state \in InFlight
    /\ Late(x) => y.state \notin Active \/ Late(y)
    /\ x.state \in Ended => y.state \notin Active

\* cleanup_locked ends what is late and not held, and leaves a late job that is held.
LEMMA CleanedInTime ==
    ASSUME NEW r, RecordOk(r)
    PROVE  /\ Clean(CleanedJob(r))
           /\ Late(CleanedJob(r)) => CleanedJob(r) = r
           /\ Late(r) => IF r.state = "Pending" \/ r.lapsed THEN CleanedJob(r).state \in Ended
                         ELSE CleanedJob(r) = r
<1> DEFINE c == CleanedJob(r)
<1>1. r \in JobRecords /\ r.expired \in BOOLEAN /\ r.lapsed \in BOOLEAN
  BY DEF RecordOk, JobRecords
<1>2. \A s \in Ended : s \notin Active /\ s \notin InFlight /\ s # "Pending"
  BY DEF Ended, Active, InFlight
<1>3. CASE r.state = "Pending" /\ r.expired
  <2>1. c = Over(r, "Cancelled") BY <1>3 DEF CleanedJob
  <2>2. c.state \in Ended BY <1>1, <2>1, OverOk DEF Ended
  <2> QED BY <1>2, <1>3, <2>2 DEF Clean, Late, Overstayed
<1>4. CASE r.state = "Claimed" /\ r.lapsed
  <2>1. c = Retried(r) BY <1>4 DEF CleanedJob
  <2>2. CASE r.attempts < MaxAttempts /\ ~r.expired
    <3>1. c = [r EXCEPT !.state = "Pending", !.lapsed = FALSE] BY <2>1, <2>2 DEF Retried
    <3>2. c.state = "Pending" /\ ~c.expired BY <1>1, <2>2, <3>1 DEF JobRecords
    <3> QED BY <2>2, <3>2 DEF Clean, Late, Overstayed, InFlight
  <2>3. CASE ~(r.attempts < MaxAttempts /\ ~r.expired)
    <3>1. c = Over(r, "Failed") BY <2>1, <2>3 DEF Retried
    <3>2. c.state \in Ended BY <1>1, <3>1, OverOk DEF Ended
    <3> QED BY <1>2, <1>4, <3>2 DEF Clean, Late, Overstayed
  <2> QED BY <2>2, <2>3
<1>5. CASE r.state = "Sending" /\ r.lapsed
  <2>1. c = Over(r, "Uncertain") BY <1>5 DEF CleanedJob
  <2>2. c.state \in Ended BY <1>1, <2>1, OverOk DEF Ended
  <2> QED BY <1>2, <1>5, <2>2 DEF Clean, Late, Overstayed
<1>6. CASE /\ ~(r.state = "Pending" /\ r.expired)
           /\ ~(r.state = "Claimed" /\ r.lapsed) /\ ~(r.state = "Sending" /\ r.lapsed)
  <2>1. c = r BY <1>6 DEF CleanedJob
  <2> QED BY <1>6, <2>1 DEF Clean, Late, Overstayed, Active, InFlight
<1> QED BY <1>3, <1>4, <1>5, <1>6

\* What the cleanup left is in time if nothing else is done to it.
LEMMA StaysInTime ==
    ASSUME NEW x, Clean(x)
    PROVE  InTime(x, x)
BY DEF InTime, Clean, Late, Overstayed, Active, InFlight, Ended

\* A handler that makes such steps ends what is late and not held, whether it is saved or not.
LEMMA HandlersAge ==
    ASSUME BridgeInv, Deadlines,
           \A j \in Jobs : InTime(Cleaned(jobs)[j], jobs'[j]),
           disk'.jobs \in {jobs', disk.jobs, Cleaned(jobs)}
    PROVE  /\ Deadlines' /\ Aging
           /\ \A j \in Jobs : Waiting(j) \/ Lost(j) => Settled(j)'
<1> SUFFICES ASSUME NEW j \in Jobs
             PROVE  /\ Late(jobs'[j]) => disk'.jobs[j].state \notin Active \/ disk'.jobs[j].expired
                    /\ Overstayed(jobs'[j]) => disk'.jobs[j].state \notin InFlight
                                               \/ disk'.jobs[j].lapsed
                    /\ Waiting(j) \/ Lost(j) => Settled(j)'
                    /\ Held(j) => Held(j)' \/ Settled(j)'
  BY DEF Deadlines, Aging
<1> DEFINE r == jobs[j]
           c == Cleaned(jobs)[j]
           y == jobs'[j]
<1>1. RecordOk(r) BY JobsOkDef DEF BridgeInv, StoresOk, StoreOk
<1>2. c = CleanedJob(r) BY DEF Cleaned
<1>3. /\ Late(c) => c = r
      /\ Late(r) => IF r.state = "Pending" \/ r.lapsed THEN c.state \in Ended ELSE c = r
  BY <1>1, <1>2, CleanedInTime
<1>4. InTime(c, y) OBVIOUS
<1>5. Late(r) => disk.jobs[j].state \notin Active \/ disk.jobs[j].expired
  BY DEF Deadlines
<1>6. disk'.jobs[j] \in {y, disk.jobs[j], c} OBVIOUS
<1>7. /\ Waiting(j) => Late(r) /\ r.state = "Pending"
      /\ Lost(j) => Late(r) /\ r.lapsed
      /\ Held(j) <=> Late(r) /\ r.state \in InFlight /\ ~r.lapsed
      /\ Held(j)' <=> Late(y) /\ y.state \in InFlight /\ ~y.lapsed
      /\ Settled(j)' <=> y.state \notin Active
  BY DEF Waiting, Held, Lost, Settled, Late, Active, InFlight
<1> HIDE DEF r, c, y
<1>8. Late(y) => disk'.jobs[j].state \notin Active \/ disk'.jobs[j].expired
  BY <1>3, <1>4, <1>5, <1>6 DEF InTime, Late
<1>9. ~Overstayed(y) BY <1>4 DEF InTime
<1>10. Waiting(j) \/ Lost(j) => Settled(j)'
  BY <1>3, <1>4, <1>7 DEF InTime
<1>11. Held(j) => Held(j)' \/ Settled(j)'
  <2> SUFFICES ASSUME Held(j), ~Settled(j)' PROVE Held(j)' OBVIOUS
  <2>1. c = r BY <1>3, <1>7 DEF InFlight
  <2>2. Late(y) /\ y.state \in InFlight BY <1>4, <1>7, <2>1 DEF InTime
  <2> QED BY <1>7, <1>9, <2>2 DEF Overstayed
<1> QED BY <1>8, <1>9, <1>10, <1>11 DEF y

\* So does one that saves them, or ends without a save.
LEMMA SavesAge ==
    ASSUME BridgeInv, Deadlines, NEW handler, NEW js, NEW b,
           \A j \in Jobs : InTime(Cleaned(jobs)[j], js[j]),
           Save(handler, js, b) \/ Unsaved(js, b)
    PROVE  /\ Deadlines' /\ Aging
           /\ \A j \in Jobs : Waiting(j) \/ Lost(j) => Settled(j)'
<1>1. jobs' = js /\ disk' \in {[jobs |-> js, bound |-> b], Swept} BY DEF Save, Unsaved
<1>2. Swept \in {disk, [jobs |-> Cleaned(jobs), bound |-> bound]} BY DEF Swept
<1>3. disk'.jobs \in {jobs', disk.jobs, Cleaned(jobs)}
  <2>1. CASE disk' = [jobs |-> js, bound |-> b] BY <1>1, <2>1
  <2>2. CASE disk' = disk BY <2>2
  <2>3. CASE disk' = [jobs |-> Cleaned(jobs), bound |-> bound] BY <2>3
  <2> QED BY <1>1, <1>2, <2>1, <2>2, <2>3
<1> QED BY <1>1, <1>3, HandlersAge

\* What every handler begins with.
LEMMA AllClean ==
    ASSUME BridgeInv
    PROVE  /\ StoreOk(Cleaned(jobs), bound)
           /\ Cleaned(jobs) = [j \in Jobs |-> Cleaned(jobs)[j]]
           /\ \A j \in Jobs : RecordOk(Cleaned(jobs)[j]) /\ Clean(Cleaned(jobs)[j])
                              /\ InTime(Cleaned(jobs)[j], Cleaned(jobs)[j])
<1>1. StoreOk(Cleaned(jobs), bound) BY CleanedOk DEF BridgeInv, StoresOk
<1>2. Cleaned(jobs) = [j \in Jobs |-> Cleaned(jobs)[j]] BY DEF Cleaned
<1>3. ASSUME NEW j \in Jobs PROVE RecordOk(Cleaned(jobs)[j]) /\ Clean(Cleaned(jobs)[j])
  <2>1. RecordOk(jobs[j]) BY JobsOkDef DEF BridgeInv, StoresOk, StoreOk
  <2>2. Cleaned(jobs)[j] = CleanedJob(jobs[j]) BY DEF Cleaned
  <2> QED BY <2>1, <2>2, CleanedJobOk, CleanedInTime
<1> QED BY <1>1, <1>2, <1>3, StaysInTime

\* A checkpoint that is replaced or closed is in time, and so are the others.
LEMMA TakenInTime ==
    ASSUME NEW js, NEW b, StoreOk(js, b), NEW s \in Sessions, NEW t \in Targets,
           NEW P \in SUBSET On(js, t, {"Pending"}), P # {}, NEW j \in Jobs, Clean(js[j]),
           NEW js2 \in {Replaced(js, P, s), Guarded(js, P, s)}
    PROVE  InTime(js[j], js2[j])
<1>1. /\ Max(P) \in Jobs /\ P = {Max(P)} /\ js[Max(P)].state = "Pending" /\ RecordOk(js[Max(P)])
  BY PendingOne
<1>2. CASE j \notin P
  <2>1. js2[j] = js[j] BY <1>2 DEF Replaced, Guarded
  <2> QED BY <2>1, StaysInTime
<1>3. CASE j \in P
  <2> DEFINE x == js[j]
  <2>1. j = Max(P) /\ x.state = "Pending" /\ x \in JobRecords /\ ~x.expired
    BY <1>1, <1>3 DEF RecordOk, Clean
  <2>2. js2[j] \in {[x EXCEPT !.revision = @ + 1, !.session = s, !.expired = FALSE, !.exact = TRUE],
                    [x EXCEPT !.session = s],
                    [x EXCEPT !.revision = @ + 1, !.session = s, !.expired = FALSE]}
    BY <1>3, <2>1 DEF Replaced, Guarded
  <2> HIDE DEF x
  <2>3. js2[j].state = "Pending" /\ ~js2[j].expired
    BY <2>1, <2>2 DEF JobRecords
  <2>4. InTime(x, js2[j])
    BY <2>1, <2>3 DEF InTime, Late, Overstayed, InFlight, Ended
  <2> QED BY <2>4 DEF x
<1> QED BY <1>2, <1>3

\* A new checkpoint starts in time, and leaves the others alone.
LEMMA PushedInTime ==
    ASSUME NEW js, NEW s, NEW t, NEW w, NEW exact, NEW js2 \in Pushed(js, t, s, w, exact),
           js = [j \in Jobs |-> js[j]], NEW j \in Jobs, Clean(js[j])
    PROVE  InTime(js[j], js2[j])
<1> DEFINE r == [NoJob EXCEPT !.state = "Pending", !.target = t, !.session = s,
                              !.workspace = w, !.exact = exact, !.revision = 1]
<1>1. PICK i \in Fresh(js) : js2 = [js EXCEPT ![i] = r] BY DEF Pushed
<1>2. i \in Jobs /\ js[i].state = "Absent" BY <1>1 DEF Fresh, Jobs
<1>3. r.state = "Pending" /\ ~r.expired BY DEF NoJob
<1> HIDE DEF r
<1>4. CASE j = i
  <2>1. js2[j] = r BY <1>1, <1>2, <1>4
  <2> QED BY <1>2, <1>3, <1>4, <2>1 DEF InTime, Late, Overstayed, InFlight, Active, Ended
<1>5. CASE j # i
  <2>1. js2[j] = js[j] BY <1>1, <1>5
  <2> QED BY <2>1, StaysInTime
<1> QED BY <1>4, <1>5

\* A record that ends is in time.
LEMMA EndsInTime ==
    ASSUME NEW x, NEW y, y.state \in Ended
    PROVE  InTime(x, y)
BY DEF InTime, Late, Overstayed, Active, InFlight, Ended

\* The calls of the client begin with the cleanup, and change what it left in time.
LEMMA ClientAges ==
    ASSUME BridgeInv, Deadlines, Client
    PROVE  Deadlines' /\ Aging
<1> DEFINE C == Cleaned(jobs)
<1>1. /\ StoreOk(C, bound) /\ C = [j \in Jobs |-> C[j]]
      /\ \A j \in Jobs : RecordOk(C[j]) /\ Clean(C[j]) /\ InTime(C[j], C[j])
  BY AllClean
<1>2. ASSUME NEW s \in Sessions, NEW w \in Workspaces, NEW t \in Targets,
             NEW explicit \in BOOLEAN, Queue(s, w, t, explicit)
      PROVE  Deadlines' /\ Aging
  <2> DEFINE P == Of(C, t, w, {"Pending"})
             B == [bound EXCEPT ![s] = t]
  <2>1. \/ P # {} /\ Save("queue", Replaced(C, P, s), B)
        \/ Save("queue", C, B) \/ Unsaved(C, B)
        \/ \E js \in Pushed(C, t, s, w, TRUE) : Save("queue", js, B)
    BY <1>2 DEF Queue
  <2>2. P \in SUBSET On(C, t, {"Pending"}) BY DEF Of, On
  <2> HIDE DEF C, P, B
  <2>3. P # {} => \A j \in Jobs : InTime(C[j], Replaced(C, P, s)[j])
    BY <1>1, <2>2, TakenInTime
  <2>4. \A js \in Pushed(C, t, s, w, TRUE) : \A j \in Jobs : InTime(C[j], js[j])
    BY <1>1, PushedInTime
  <2> QED BY <1>1, <2>1, <2>3, <2>4, SavesAge DEF C
<1>3. ASSUME NEW s \in Sessions, NEW w \in Workspaces, Ensure(s, w)
      PROVE  Deadlines' /\ Aging
  <2> DEFINE t == bound[s]
             P == Of(C, t, w, {"Pending"})
  <2>1. /\ t # None
        /\ \/ P # {} /\ Save("queue", Guarded(C, P, s), bound)
           \/ Unsaved(C, bound)
           \/ \E js \in Pushed(C, t, s, w, FALSE) : Save("queue", js, bound)
    BY <1>3 DEF Ensure
  <2>2. P \in SUBSET On(C, t, {"Pending"}) BY DEF Of, On
  <2>3. t \in Targets BY <1>1, <2>1 DEF StoreOk, Bindings
  <2> HIDE DEF C, P, t
  <2>4. P # {} => \A j \in Jobs : InTime(C[j], Guarded(C, P, s)[j])
    BY <1>1, <2>2, <2>3, TakenInTime
  <2>5. \A js \in Pushed(C, t, s, w, FALSE) : \A j \in Jobs : InTime(C[j], js[j])
    BY <1>1, PushedInTime
  <2> QED BY <1>1, <2>1, <2>4, <2>5, SavesAge DEF C
<1>4. ASSUME NEW s \in Sessions, NEW w \in Workspaces, Close(s, w)
      PROVE  Deadlines' /\ Aging
  <2>1. PICK closing :
           /\ closing \subseteq {j \in Jobs : C[j].state \in Active}
           /\ Save("close", [j \in Jobs |-> IF j \in closing THEN ClosedJob(C[j]) ELSE C[j]],
                   bound)
    BY <1>4 DEF Close
  <2> DEFINE js == [j \in Jobs |-> IF j \in closing THEN ClosedJob(C[j]) ELSE C[j]]
  <2> HIDE DEF C
  <2>2. ASSUME NEW j \in Jobs PROVE InTime(C[j], js[j])
    <3>1. CASE j \notin closing BY <1>1, <3>1
    <3>2. CASE j \in closing
      <4>1. js[j] = ClosedJob(C[j]) BY <3>2
      <4>2. C[j] \in JobRecords BY <1>1 DEF RecordOk
      <4>3. ClosedJob(C[j]).state \in Ended BY <4>2, OverOk DEF ClosedJob, Ended
      <4> QED BY <4>1, <4>3, EndsInTime
    <3> QED BY <3>1, <3>2
  <2>3. Save("close", js, bound) BY <2>1
  <2> HIDE DEF js
  <2> QED BY <2>2, <2>3, SavesAge DEF C
<1> QED BY <1>2, <1>3, <1>4 DEF Client

\* A claim takes a pending job, which is not late; begin_send and acknowledge go on with
\* one that is held, or end it.
LEMMA ServiceAges ==
    ASSUME BridgeInv, Deadlines,
           \/ \E t \in Targets : Claim(t)
           \/ \E q \in net : ServeBegin(q) \/ ServeAck(q)
    PROVE  Deadlines' /\ Aging
<1> DEFINE C == Cleaned(jobs)
<1>1. /\ StoreOk(C, bound) /\ C = [j \in Jobs |-> C[j]]
      /\ \A j \in Jobs : RecordOk(C[j]) /\ Clean(C[j]) /\ InTime(C[j], C[j])
  BY AllClean
<1>2. ASSUME NEW j \in Jobs, NEW y, InTime(C[j], y), NEW handler,
             Save(handler, [C EXCEPT ![j] = y], bound)
      PROVE  Deadlines' /\ Aging
  <2> DEFINE js == [C EXCEPT ![j] = y]
  <2> HIDE DEF C
  <2>1. js[j] = y /\ \A i \in Jobs \ {j} : js[i] = C[i] BY <1>1
  <2>2. \A i \in Jobs : InTime(C[i], js[i]) BY <1>1, <1>2, <2>1
  <2>3. Save(handler, js, bound) BY <1>2
  <2> HIDE DEF js
  <2> QED BY <2>2, <2>3, SavesAge DEF C
<1>3. CASE Unsaved(C, bound)
  BY <1>1, <1>3, SavesAge
<1>4. ASSUME NEW t \in Targets, Claim(t) PROVE Deadlines' /\ Aging
  <2> DEFINE j == Max(On(C, t, {"Pending"}))
             y == [C[j] EXCEPT !.state = "Claimed", !.attempts = @ + 1, !.lapsed = FALSE]
  <2>1. On(C, t, {"Pending"}) # {} /\ Save("claim", [C EXCEPT ![j] = y], bound)
    BY <1>4 DEF Claim
  <2> HIDE DEF C
  <2>2. j \in Jobs /\ C[j].state = "Pending" /\ RecordOk(C[j])
    BY <1>1, <2>1, PendingOne
  <2>3. ~C[j].expired /\ C[j] \in JobRecords BY <1>1, <2>2 DEF Clean, RecordOk
  <2>4. y.state = "Claimed" /\ ~y.lapsed /\ ~y.expired
    BY <2>3 DEF JobRecords
  <2>5. InTime(C[j], y)
    BY <2>2, <2>3, <2>4 DEF InTime, Late, Overstayed, Ended
  <2> HIDE DEF j, y
  <2> QED BY <1>2, <2>1, <2>2, <2>5
<1>5. ASSUME NEW q \in net, ServeBegin(q) PROVE Deadlines' /\ Aging
  <2> DEFINE j == q.job
             y == [C[j] EXCEPT !.state = "Sending"]
  <2>1. \/ Unsaved(C, bound)
        \/ C[j].state = "Claimed" /\ Save("begin", [C EXCEPT ![j].state = "Sending"], bound)
    BY <1>5 DEF ServeBegin, Begun, Begins
  <2>2. j \in Jobs BY DEF BridgeInv, ExtensionTyped, Requests
  <2> HIDE DEF C
  <2>3. CASE C[j].state = "Claimed" /\ Save("begin", [C EXCEPT ![j].state = "Sending"], bound)
    <3>1. C[j] \in JobRecords BY <1>1, <2>2 DEF RecordOk
    <3>2. y.state = "Sending" /\ y.lapsed = C[j].lapsed /\ y.expired = C[j].expired
      BY <3>1 DEF JobRecords
    <3>3. ~C[j].lapsed BY <1>1, <2>2, <2>3 DEF Clean, Overstayed, InFlight
    <3>4. InTime(C[j], y)
      BY <2>3, <3>2, <3>3 DEF InTime, Late, Overstayed, Active, InFlight, Ended
    <3>5. Save("begin", [C EXCEPT ![j] = y], bound) BY <2>3
    <3> HIDE DEF j, y
    <3> QED BY <1>2, <2>2, <3>4, <3>5
  <2> QED BY <1>3, <2>1, <2>3 DEF C
<1>6. ASSUME NEW q \in net, ServeAck(q) PROVE Deadlines' /\ Aging
  <2> DEFINE j == q.job
             x == C[j]
  <2>1. \/ /\ x.state \in InFlight
           /\ x.state = "Sending" \/ q.status = "failed"
           /\ \E y \in Acknowledged(x, q.status) : Save("ack", [C EXCEPT ![j] = y], bound)
        \/ Unsaved(C, bound)
    BY <1>6 DEF ServeAck
  <2>2. j \in Jobs /\ q.status \in {"failed", "uncertain", "delivered", "not_sent"}
    BY <1>6 DEF BridgeInv, ExtensionTyped, Requests, ServeAck
  <2>3. RecordOk(x) /\ x \in JobRecords BY <1>1, <2>2 DEF RecordOk
  <2> HIDE DEF C
  <2>4. ASSUME x.state \in InFlight, x.state = "Sending" \/ q.status = "failed",
               NEW y \in Acknowledged(x, q.status), Save("ack", [C EXCEPT ![j] = y], bound)
        PROVE  Deadlines' /\ Aging
    <3>1. y.state \in Ended \/ y = Retried(x)
      BY <2>2, <2>3, <2>4, OverOk DEF Acknowledged, InFlight, Ended
    <3>2. CASE y.state \in Ended
      <4>1. InTime(x, y) BY <3>2, EndsInTime
      <4> QED BY <1>2, <2>2, <2>4, <4>1
    <3>3. CASE y = Retried(x)
      <4>1. CASE x.attempts < MaxAttempts /\ ~x.expired
        <5>1. y = [x EXCEPT !.state = "Pending", !.lapsed = FALSE] BY <3>3, <4>1 DEF Retried
        <5>2. y.state = "Pending" /\ ~y.expired BY <2>3, <4>1, <5>1 DEF JobRecords
        <5>3. InTime(x, y)
          BY <2>4, <4>1, <5>2 DEF InTime, Late, Overstayed, InFlight, Ended
        <5> QED BY <1>2, <2>2, <2>4, <5>3
      <4>2. CASE ~(x.attempts < MaxAttempts /\ ~x.expired)
        <5>1. y = Over(x, "Failed") BY <3>3, <4>2 DEF Retried
        <5>2. y.state \in Ended BY <2>3, <5>1, OverOk DEF Ended
        <5>3. InTime(x, y) BY <5>2, EndsInTime
        <5> QED BY <1>2, <2>2, <2>4, <5>3
      <4> QED BY <4>1, <4>2
    <3> QED BY <3>1, <3>2, <3>3
  <2> QED BY <1>3, <2>1, <2>4 DEF C
<1> QED BY <1>4, <1>5, <1>6

\* A cleanup that nothing follows ends what is late and not held.
LEMMA SweepAges ==
    ASSUME BridgeInv, Deadlines, SweepFails \/ \E t \in Targets : Register(t)
    PROVE  /\ Deadlines' /\ Aging
           /\ \A j \in Jobs : Waiting(j) \/ Lost(j) => Settled(j)'
<1>1. \A j \in Jobs : InTime(Cleaned(jobs)[j], Cleaned(jobs)[j]) BY AllClean
<1>2. CASE SweepFails
  <2>1. jobs' = Cleaned(jobs) /\ disk' = disk BY <1>2 DEF SweepFails
  <2> QED BY <1>1, <2>1, HandlersAge
<1>3. CASE \E t \in Targets : Register(t)
  <2>1. Unsaved(Cleaned(jobs), bound) BY <1>3 DEF Register
  <2> QED BY <1>1, <2>1, SavesAge
<1> QED BY <1>2, <1>3

\* A deadline that passes does so on disk too.
LEMMA LapseAges ==
    ASSUME BridgeInv, Deadlines, NEW j \in Jobs, ClaimLapses(j)
    PROVE  Deadlines' /\ Aging /\ ~Held(j)'
<1>1. /\ jobs \in [Jobs -> JobRecords] /\ disk.jobs \in [Jobs -> JobRecords]
      /\ disk = [jobs |-> disk.jobs, bound |-> disk.bound]
  BY DEF BridgeInv, StoresOk, StoreOk, JobsOk
<1>2. jobs' = Overdue(jobs, j) /\ disk'.jobs = Overdue(disk.jobs, j)
  BY <1>1 DEF ClaimLapses
<1>3. ASSUME NEW js \in [Jobs -> JobRecords], NEW i \in Jobs
      PROVE  /\ Overdue(js, j)[i].state = js[i].state
             /\ Overdue(js, j)[i].expired = js[i].expired
             /\ i # j => Overdue(js, j)[i] = js[i]
             /\ Overdue(js, j)[j].lapsed = (js[j].state \in InFlight)
  BY DEF Overdue, JobRecords
<1>4. /\ \A i \in Jobs : /\ jobs'[i].state = jobs[i].state /\ jobs'[i].expired = jobs[i].expired
                         /\ i # j => jobs'[i] = jobs[i]
                         /\ disk'.jobs[i].state = disk.jobs[i].state
                         /\ disk'.jobs[i].expired = disk.jobs[i].expired
                         /\ i # j => disk'.jobs[i] = disk.jobs[i]
      /\ jobs'[j].lapsed = (jobs[j].state \in InFlight)
      /\ disk'.jobs[j].lapsed = (disk.jobs[j].state \in InFlight)
  BY <1>1, <1>2, <1>3
<1>5. jobs[j].state \in InFlight BY DEF ClaimLapses
<1>6. Deadlines' BY <1>4 DEF Deadlines, Late, Overstayed
<1>7. Aging BY <1>4, <1>5 DEF Aging, Waiting, Held, Lost, Settled
<1>8. ~Held(j)' BY <1>4, <1>5 DEF Held
<1> QED BY <1>6, <1>7, <1>8

\* An expiry that passes does so on disk too, and the job is late from then on.
LEMMA ExpiryAges ==
    ASSUME BridgeInv, Deadlines, NEW j \in Jobs, Expires(j)
    PROVE  Deadlines' /\ Aging /\ jobs'[j].expired
<1>1. /\ jobs \in [Jobs -> JobRecords] /\ disk.jobs \in [Jobs -> JobRecords]
      /\ disk = [jobs |-> disk.jobs, bound |-> disk.bound]
  BY DEF BridgeInv, StoresOk, StoreOk, JobsOk
<1>2. ASSUME NEW js \in [Jobs -> JobRecords], NEW e \in BOOLEAN, NEW i \in Jobs
      PROVE  LET js2 == [js EXCEPT ![j] = [js[j] EXCEPT !.expired = e]] IN
             /\ js2[i].state = js[i].state /\ js2[i].lapsed = js[i].lapsed
             /\ i # j => js2[i] = js[i]
             /\ js2[j].expired = e
  BY DEF JobRecords
<1>3. jobs' = [jobs EXCEPT ![j] = [jobs[j] EXCEPT !.expired = TRUE]]
  BY DEF Expires
<1> DEFINE e == disk.jobs[j].expired \/ disk.jobs[j].state # "Absent"
<1>4. disk'.jobs = [disk.jobs EXCEPT ![j] = [disk.jobs[j] EXCEPT !.expired = e]]
  BY <1>1 DEF Expires
<1>5. e \in BOOLEAN OBVIOUS
<1>6. disk.jobs[j].state \in Active => e BY DEF Active
<1> HIDE DEF e
<1>7. \A i \in Jobs : /\ jobs'[i].state = jobs[i].state /\ jobs'[i].lapsed = jobs[i].lapsed
                      /\ i # j => jobs'[i] = jobs[i]
                      /\ disk'.jobs[i].state = disk.jobs[i].state
                      /\ disk'.jobs[i].lapsed = disk.jobs[i].lapsed
                      /\ i # j => disk'.jobs[i] = disk.jobs[i]
  BY <1>1, <1>2, <1>3, <1>4, <1>5
<1>8. jobs'[j].expired /\ disk'.jobs[j].expired = e
  BY <1>1, <1>2, <1>3, <1>4, <1>5
<1>9. Deadlines' BY <1>6, <1>7, <1>8 DEF Deadlines, Late, Overstayed
<1>10. Aging BY <1>7, <1>8 DEF Aging, Waiting, Held, Lost, Settled
<1> QED BY <1>8, <1>9, <1>10

\* A restart cleans what it loads.
LEMMA RestartAges ==
    ASSUME BridgeInv, Deadlines, Restart
    PROVE  Deadlines' /\ Aging
<1> DEFINE D == disk.jobs
<1>1. jobs' = Cleaned(D) /\ disk'.jobs = jobs' BY DEF Restart
<1>2. Deadlines' BY <1>1 DEF Deadlines, Late, Overstayed
<1>3. ASSUME NEW j \in Jobs, jobs[j].state \in Active, jobs[j].expired
      PROVE  /\ Settled(j)' \/ Held(j)'
             /\ jobs[j].lapsed /\ jobs[j].state \in InFlight => Settled(j)'
  <2> DEFINE d == D[j]
             y == jobs'[j]
  <2>1. RecordOk(d) BY JobsOkDef DEF BridgeInv, StoresOk, StoreOk
  <2>2. y = CleanedJob(d) BY <1>1 DEF Cleaned
  <2>3. d.state \notin Active \/ d.expired BY <1>3 DEF Deadlines, Late
  <2>4. jobs[j].lapsed /\ jobs[j].state \in InFlight => d.state \notin InFlight \/ d.lapsed
    BY DEF Deadlines, Overstayed
  <2>5. d.state \notin Active => y = d
    BY <2>2 DEF CleanedJob, Active, InFlight
  <2>6. Late(d) => IF d.state = "Pending" \/ d.lapsed THEN y.state \in Ended ELSE y = d
    BY <2>1, <2>2, CleanedInTime
  <2>7. /\ Settled(j)' <=> y.state \notin Active
        /\ Held(j)' <=> y.state \in InFlight /\ y.expired /\ ~y.lapsed
    BY DEF Settled, Held
  <2> HIDE DEF d, y
  <2> QED BY <2>3, <2>4, <2>5, <2>6, <2>7 DEF Late, Active, InFlight, Ended
<1>4. Aging BY <1>3 DEF Aging, Waiting, Held, Lost, Active, InFlight
<1> QED BY <1>2, <1>4

\* Every step keeps the deadlines.
LEMMA StepsAge ==
    ASSUME BridgeInv, Deadlines, [Next]_vars
    PROVE  Deadlines' /\ Aging
<1>1. CASE Client \/ Server
  BY <1>1, ClientAges, ServiceAges DEF Server
<1>2. CASE Clock
  BY <1>2, LapseAges, ExpiryAges DEF Clock
<1>3. CASE SweepFails \/ \E t \in Targets : Register(t)
  BY <1>3, SweepAges
<1>4. CASE Restart
  BY <1>4, RestartAges
<1>5. ASSUME jobs' = jobs, disk' = disk PROVE Deadlines' /\ Aging
  BY <1>5 DEF Deadlines, Aging, Waiting, Held, Lost, Settled
<1>6. CASE UNCHANGED vars \/ \E t \in Targets : Vanish(t)
  BY <1>5, <1>6 DEF vars, Vanish, bridge
<1>7. ASSUME NEW t \in Polled, Poll(t) PROVE Deadlines' /\ Aging
  <2>1. CASE Claim(t)
    BY <2>1, ServiceAges, ContinuationAssumption
  <2>2. CASE ~Claim(t)
    <3>1. jobs' = jobs /\ disk' = disk
      BY <1>7, <2>2 DEF Poll, RetryPrepare, PrepareFails, BeginFails, CommitFails, WorkerDies,
                        Reload, Prepare, CommitRefused, CommitClicks, bridge
    <3> QED BY <1>5, <3>1
  <2> QED BY <2>1, <2>2
<1> QED BY <1>1, <1>2, <1>3, <1>4, <1>6, <1>7 DEF Next

\* The fairness of FairSpec, each guard written out in place of ENABLED: deadlines pass, and
\* some tab registers if a cleanup is due.
ClockGoesOn == \A j \in Jobs :
    /\ \/ []<>~(jobs[j].state \in InFlight /\ ~jobs[j].lapsed)
       \/ []<><<ClaimLapses(j)>>_vars
    /\ \/ []<>~(jobs[j].state \in Active /\ ~jobs[j].expired)
       \/ []<><<Expires(j)>>_vars
CleanupsGoOn == []<>(Cleaned(jobs) = jobs) \/ []<><<\E t \in Targets : Register(t)>>_vars

\* No job stays unfinished: its expiry passes, no handler, failed save or restart puts that
\* off, and from then on the cleanup ends it as soon as no claim holds it.
THEOREM CheckpointsSettle == Spec /\ ClockGoesOn /\ CleanupsGoOn => Settles
<1>1. Spec => [](BridgeInv /\ Deadlines)
  <2>1. Init => Deadlines
    BY DEF Init, NoJob, Deadlines, Late, Overstayed, Active, InFlight
  <2>2. BridgeInv /\ Deadlines /\ [Next]_vars => Deadlines' BY StepsAge
  <2> QED BY <2>1, <2>2, BridgeHolds, PTL DEF Spec
<1>2. ASSUME NEW j \in Jobs
      PROVE  Spec /\ ClockGoesOn /\ CleanupsGoOn =>
                (jobs[j].state \in Active ~> jobs[j].state \notin Active)
  <2> DEFINE Lapsing == jobs[j].state \in InFlight /\ ~jobs[j].lapsed
             Expiring == jobs[j].state \in Active /\ ~jobs[j].expired
             Swept1 == Cleaned(jobs) = jobs
             Registers == \E t \in Targets : Register(t)
  <2>1. ClockGoesOn => /\ []<>~Lapsing \/ []<><<ClaimLapses(j)>>_vars
                       /\ []<>~Expiring \/ []<><<Expires(j)>>_vars
    BY DEF ClockGoesOn
  <2>2. CleanupsGoOn => []<>Swept1 \/ []<><<Registers>>_vars
    BY DEF CleanupsGoOn
  <2>3. BridgeInv /\ jobs[j].state \in Active => Expiring \/ Waiting(j) \/ Held(j) \/ Lost(j)
    BY DEF Waiting, Held, Lost, Active, InFlight
  <2>4. BridgeInv /\ Deadlines /\ [Next]_vars =>
            /\ Waiting(j) => Waiting(j)' \/ Held(j)' \/ Settled(j)'
            /\ Held(j) => Held(j)' \/ Lost(j)' \/ Settled(j)'
            /\ Lost(j) => Lost(j)' \/ Settled(j)'
    BY StepsAge DEF Aging
  <2>5. BridgeInv /\ Deadlines /\ <<Expires(j)>>_vars => ~Expiring'
    BY ExpiryAges
  <2>6. BridgeInv /\ Deadlines /\ <<ClaimLapses(j)>>_vars => ~Held(j)'
    BY LapseAges
  <2>7. BridgeInv /\ Deadlines /\ <<Registers>>_vars =>
            (Waiting(j) \/ Lost(j) => Settled(j)')
    BY SweepAges
  <2>8. BridgeInv => (Waiting(j) \/ Lost(j) => ~Swept1)
    <3> SUFFICES ASSUME BridgeInv, Waiting(j) \/ Lost(j) PROVE Cleaned(jobs)[j] # jobs[j]
      OBVIOUS
    <3>1. RecordOk(jobs[j]) BY JobsOkDef DEF BridgeInv, StoresOk, StoreOk
    <3>2. Cleaned(jobs)[j] = CleanedJob(jobs[j]) BY DEF Cleaned
    <3>3. CleanedJob(jobs[j]).state \in Ended
      BY <3>1, CleanedInTime DEF Waiting, Lost, Late, Active, InFlight
    <3> QED BY <3>2, <3>3 DEF Waiting, Lost, Ended, InFlight
  <2>9. Held(j) => Lapsing BY DEF Held
  <2>10. /\ Settled(j) <=> jobs[j].state \notin Active
         /\ Settled(j) <=> ~(jobs[j].state \in Active)
    BY DEF Settled
  <2> HIDE DEF Lapsing, Expiring, Swept1, Registers
  <2> QED BY <1>1, <2>1, <2>2, <2>3, <2>4, <2>5, <2>6, <2>7, <2>8, <2>9, <2>10, PTL DEF Spec
<1> QED BY <1>2 DEF Settles
=============================================================================
