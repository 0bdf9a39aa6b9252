---------------------------- MODULE Continuation ----------------------------
(***************************************************************************)
(* The ChatGPT continuation (src-tauri/src/chatgpt_bridge.rs and           *)
(* extensions/chatgpt-continuation).  An AI client leaves a message for    *)
(* its conversation; the browser extension claims it, prepares it in the   *)
(* saved tab, asks the bridge to begin the send, clicks Send and           *)
(* acknowledges.  Either side may die at any step, replies are lost, a     *)
(* request that timed out is served late, and a save of the store fails.   *)
(*                                                                         *)
(* A claim token is random in the code; here the number of the attempt is  *)
(* the token.  A message is the pair of its job and revision.              *)
(***************************************************************************)
EXTENDS Naturals, FiniteSets, FiniteSetsExt

CONSTANTS
    MaxJobs,      \* jobs are numbered in the order of the vector of the store
    Targets,      \* saved conversation tabs
    Polled,       \* the targets whose tab takes messages; the others only exist
    Sessions,     \* conversations an MCP client speaks for
    Workspaces,
    None,
    MaxAttempts,  \* MAX_DELIVERY_ATTEMPTS
    MaxRevision,  \* bounds the updates of a pending job
    MaxTransit,   \* bounds the requests, and the messages of a tab, on their way
    Faults        \* handlers whose save may fail: "queue", "close", "claim", "begin", "ack"

ASSUME ContinuationAssumption ==
    /\ MaxJobs \in Nat \ {0} /\ MaxAttempts \in Nat \ {0} /\ MaxRevision \in Nat \ {0}
    /\ MaxTransit \in Nat \ {0}
    /\ Polled \subseteq Targets
    /\ None \notin Targets \union Sessions \union Workspaces
    /\ Faults \subseteq {"queue", "close", "claim", "begin", "ack"}

VARIABLES
    jobs,      \* the records of the bridge, by number
    bound,     \* session_targets
    live,      \* targets that registered recently; not persisted
    disk,      \* the stored jobs and bindings
    net,       \* begin-send and ack requests on their way to the bridge
    worker,    \* per target, the poll that the extension's service worker runs
    mail,      \* per target, messages on their way to the content script
    prepared,  \* per tab, the message in the composer (preparedDelivery)
    clicks     \* per job, how often Send was clicked

vars == <<jobs, bound, live, disk, net, worker, mail, prepared, clicks>>
bridge == <<jobs, bound, disk>>
extension == <<worker, mail, prepared, clicks>>

Jobs == 1..MaxJobs
States == {"Absent", "Pending", "Claimed", "Sending",
           "Delivered", "Failed", "Cancelled", "Uncertain"}
Active == {"Pending", "Claimed", "Sending"}
InFlight == {"Claimed", "Sending"}

JobRecords ==
    [state : States, target : Targets \union {None}, workspace : Workspaces \union {None},
     session : Sessions \union {None}, exact : BOOLEAN, revision : 0..MaxRevision,
     attempts : 0..MaxAttempts,   \* also the claim token of a job in flight
     lapsed : BOOLEAN,            \* claim_expires_at has passed
     expired : BOOLEAN]           \* expires_at has passed

NoJob == [state |-> "Absent", target |-> None, workspace |-> None, session |-> None,
          exact |-> FALSE, revision |-> 0, attempts |-> 0,
          lapsed |-> FALSE, expired |-> FALSE]

Stages == {"idle", "preparing", "begin1", "begin2", "committing"}
Idle == [stage |-> "idle", job |-> 0, revision |-> 0, token |-> 0]

----------------------------------------------------------------------------
\* The store.

\* A job that is over: nothing else of its record is read again.
Over(r, state) == [NoJob EXCEPT !.state = state, !.expired = r.expired]

\* Fault: an attempt beyond the last.
RetriedOnceMore(r) ==
    IF r.attempts <= MaxAttempts /\ ~r.expired
    THEN [r EXCEPT !.state = "Pending", !.lapsed = FALSE] ELSE Over(r, "Failed")

\* A claim that came to nothing, or a message known not to be sent, is offered
\* again as long as the job has attempts left and has not expired.
Retried(r) ==
    IF r.attempts < MaxAttempts /\ ~r.expired
    THEN [r EXCEPT !.state = "Pending", !.lapsed = FALSE] ELSE Over(r, "Failed")

\* Fault: a send whose acknowledgement is missing is offered again.
CleanedJobResending(r) ==
    CASE r.state = "Pending" /\ r.expired -> Over(r, "Cancelled")
      [] r.state \in InFlight /\ r.lapsed -> Retried(r)
      [] OTHER -> r

\* Fault: a send whose acknowledgement is missing is left as it is.
CleanedJobWaiting(r) ==
    CASE r.state = "Pending" /\ r.expired -> Over(r, "Cancelled")
      [] r.state = "Claimed" /\ r.lapsed -> Retried(r)
      [] OTHER -> r

\* cleanup_locked, for one record.
CleanedJob(r) ==
    CASE r.state = "Pending" /\ r.expired -> Over(r, "Cancelled")
      [] r.state = "Claimed" /\ r.lapsed -> Retried(r)
      [] r.state = "Sending" /\ r.lapsed -> Over(r, "Uncertain")
      [] OTHER -> r

Cleaned(js) == [j \in Jobs |-> CleanedJob(js[j])]

\* The disk after the cleanup every handler begins with.
Swept == IF Cleaned(jobs) = jobs THEN disk ELSE [jobs |-> Cleaned(jobs), bound |-> bound]

\* A handler ends without a save of its own.
Unsaved(js, b) == jobs' = js /\ bound' = b /\ disk' = Swept

\* A handler saves; when that fails its change stays in memory.
Save(handler, js, b) ==
    /\ jobs' = js /\ bound' = b
    /\ \/ disk' = [jobs |-> js, bound |-> b]
       \/ handler \in Faults /\ disk' = Swept

\* The cleanup itself cannot be saved: the handler does nothing else.
SweepFails ==
    /\ Faults # {} /\ Cleaned(jobs) # jobs
    /\ jobs' = Cleaned(jobs)
    /\ UNCHANGED <<bound, disk, live, net, extension>>

On(js, t, states) == {j \in Jobs : js[j].target = t /\ js[j].state \in states}
Of(js, t, w, states) == {j \in On(js, t, states) : js[j].workspace = w}
Fresh(js) == {j \in Jobs : \A i \in Jobs : js[i].state = "Absent" <=> i >= j}

----------------------------------------------------------------------------
\* Requests of the AI client.

\* Fault: unfinished work does not keep a conversation to its target.
RebindAllowedAway(js, s, t) == bound[s] \in {None, t} \union (Targets \ live)

\* A conversation with unfinished work stays with its target; another may leave one
\* that is not connected.
RebindAllowed(js, s, t) ==
    IF \E j \in Jobs : js[j].session = s /\ js[j].state \in Active
    THEN bound[s] = t
    ELSE bound[s] \in {None, t} \union (Targets \ live)

\* A newer checkpoint replaces the pending ones of its conversation: the last one
\* takes it over, the others are cancelled.
Replaced(js, pending, s) ==
    [j \in Jobs |->
        IF j \notin pending THEN js[j]
        ELSE IF j # Max(pending) THEN Over(js[j], "Cancelled")
        ELSE [js[j] EXCEPT !.revision = @ + 1, !.session = s, !.expired = FALSE,
                           !.exact = TRUE]]

\* The guard of a running task leaves an exact checkpoint as it is.
Guarded(js, pending, s) ==
    [j \in Jobs |->
        IF j \notin pending THEN js[j]
        ELSE IF j # Max(pending) THEN Over(js[j], "Cancelled")
        ELSE IF js[j].exact THEN [js[j] EXCEPT !.session = s]
        ELSE [js[j] EXCEPT !.revision = @ + 1, !.session = s, !.expired = FALSE]]

Pushed(js, t, s, w, exact) ==
    {[js EXCEPT ![j] = [NoJob EXCEPT !.state = "Pending", !.target = t, !.session = s,
                                     !.workspace = w, !.exact = exact, !.revision = 1]]
        : j \in Fresh(js)}

\* Fault: a conversation takes checkpoints of two workspaces.
OtherWorkspaceIgnored(js, t, w) == FALSE

OtherWorkspace(js, t, w) == \E j \in On(js, t, Active) : js[j].workspace # w

MayRevise(js, pending) == pending # {} => js[Max(pending)].revision < MaxRevision

\* explicit: the call names its target, which binds the conversation to it.
Queue(s, w, t, explicit) ==
    LET C == Cleaned(jobs)
        pending == Of(C, t, w, {"Pending"})
        B == [bound EXCEPT ![s] = t]
    IN  /\ IF explicit THEN t \in live /\ RebindAllowed(C, s, t) ELSE bound[s] = t
        /\ ~OtherWorkspace(C, t, w)
        /\ MayRevise(C, pending)
        /\ IF pending # {} THEN Save("queue", Replaced(C, pending, s), B)
           ELSE IF Of(C, t, w, InFlight) # {}
           THEN \/ Save("queue", C, B)  \* the message being delivered already
                \/ Unsaved(C, B)        \* another one: refused, but bound
           ELSE \E js \in Pushed(C, t, s, w, TRUE) : Save("queue", js, B)
        /\ UNCHANGED <<live, net, extension>>

\* ensure_automatic_fallback_for_identities: work begins or goes on.
Ensure(s, w) ==
    LET C == Cleaned(jobs)
        t == bound[s]
        pending == Of(C, t, w, {"Pending"})
    IN  /\ t # None
        /\ ~OtherWorkspace(C, t, w)
        /\ MayRevise(C, pending)
        /\ IF pending # {} THEN Save("queue", Guarded(C, pending, s), bound)
           ELSE IF Of(C, t, w, InFlight) # {} THEN Unsaved(C, bound)
           ELSE \E js \in Pushed(C, t, s, w, FALSE) : Save("queue", js, bound)
        /\ UNCHANGED <<live, net, extension>>

ClosedJob(r) == Over(r, IF r.state = "Sending" THEN "Uncertain" ELSE "Cancelled")

\* cancel_job_for_identities closes one job, complete_work_for_identities all.
Close(s, w) ==
    LET C == Cleaned(jobs)
        mine == {j \in Jobs : C[j].session = s /\ C[j].workspace = w /\ C[j].state \in Active}
    IN  /\ mine # {}
        /\ \E closing \in {{j} : j \in mine} \union {mine} :
              Save("close", [j \in Jobs |-> IF j \in closing THEN ClosedJob(C[j]) ELSE C[j]],
                   bound)
        /\ UNCHANGED <<live, net, extension>>

----------------------------------------------------------------------------
\* Requests of the extension.

\* register_target, and whoever else runs the cleanup.
Register(t) ==
    /\ live' = live \union {t}
    /\ Unsaved(Cleaned(jobs), bound)
    /\ UNCHANGED <<net, extension>>

\* What exceeds the bound is lost, as anything sent may be.
Sent(s, m) == IF Cardinality(s \union {m}) <= MaxTransit THEN s \union {m} ELSE s
Post(t, m) == mail' = [mail EXCEPT ![t] = Sent(@, m)]
Send(q) == net' = Sent(net, q)
Letter(kind, w) == [kind |-> kind, job |-> w.job, revision |-> w.revision, token |-> w.token]
Request(op, t, w, status) ==
    [op |-> op, target |-> t, job |-> w.job, revision |-> w.revision, token |-> w.token,
     status |-> status]

\* claim_for_target.  The answer reaches a worker that then prepares the tab, or
\* nobody: it is lost, or its worker has died.
Claim(t) ==
    LET C == Cleaned(jobs)
        j == Max(On(C, t, {"Pending"}))
        r == [C[j] EXCEPT !.state = "Claimed", !.attempts = @ + 1, !.lapsed = FALSE]
        w == [stage |-> "preparing", job |-> j, revision |-> r.revision, token |-> r.attempts]
    IN  /\ t \in live /\ On(C, t, {"Pending"}) # {}
        /\ Save("claim", [C EXCEPT ![j] = r], bound)
        /\ \/ /\ worker[t] = Idle
              /\ disk'.jobs = jobs'
              /\ worker' = [worker EXCEPT ![t] = w]
              /\ Post(t, Letter("prepare", w))
           \/ UNCHANGED <<worker, mail>>
        /\ UNCHANGED <<live, net, prepared, clicks>>

SameClaim(r, q) == r.attempts = q.token /\ r.revision = q.revision

\* begin_send answers again for the same claim.
Begun(C, q) ==
    /\ C[q.job].state = "Sending" /\ SameClaim(C[q.job], q)
    /\ Unsaved(C, bound)

\* begin_send authorises the click.
Begins(C, q) ==
    /\ C[q.job].state = "Claimed" /\ SameClaim(C[q.job], q)
    /\ Save("begin", [C EXCEPT ![q.job].state = "Sending"], bound)

\* The worker hears that it may send, and tells the content script.
Authorised(q) ==
    LET w == worker[q.target]
    IN  /\ w.stage = q.op /\ w.job = q.job /\ w.token = q.token
        /\ worker' = [worker EXCEPT ![q.target].stage = "committing"]
        /\ Post(q.target, Letter("commit", w))

\* An Err reaches the worker as a timeout does, in BeginFails.
ServeBegin(q) ==
    LET C == Cleaned(jobs)
    IN  /\ q.op \in {"begin1", "begin2"}
        /\ \/ /\ Begun(C, q)
              /\ Authorised(q) \/ UNCHANGED <<worker, mail>>
           \/ /\ Begins(C, q)
              /\ \/ disk'.jobs = jobs' /\ Authorised(q)
                 \/ UNCHANGED <<worker, mail>>
           \/ /\ ~(C[q.job].state \in InFlight /\ SameClaim(C[q.job], q))
              /\ Unsaved(C, bound)
              /\ UNCHANGED <<worker, mail>>
        /\ net' = net \ {q}
        /\ UNCHANGED <<live, prepared, clicks>>

\* acknowledge, by the state the job is in and the status reported: what the job
\* becomes.  A page that refuses a message may say that it is no use to retry.
Acknowledged(r, status) ==
    CASE r.state = "Sending" /\ status = "delivered" -> {Over(r, "Delivered")}
      [] r.state = "Sending" /\ status \in {"uncertain", "failed"} -> {Over(r, "Uncertain")}
      [] r.state = "Sending" /\ status = "not_sent" -> {Retried(r)}
      [] r.state = "Claimed" /\ status = "failed" -> {Retried(r), Over(r, "Failed")}

ServeAck(q) ==
    LET C == Cleaned(jobs)
        r == C[q.job]
        known == r.state \in InFlight /\ SameClaim(r, q)
        valid == r.state = "Sending" \/ q.status = "failed"
    IN  /\ q.op = "ack"
        /\ IF known /\ valid
           THEN \E a \in Acknowledged(r, q.status) : Save("ack", [C EXCEPT ![q.job] = a], bound)
           ELSE Unsaved(C, bound)
        /\ net' = net \ {q}
        /\ UNCHANGED <<live, extension>>

----------------------------------------------------------------------------
\* The service worker (pollBridge), from the claim to the acknowledgement.

Cleared(t, job, revision) ==  \* clearPrepared
    IF prepared[t] = [job |-> job, revision |-> revision]
    THEN [prepared EXCEPT ![t] = None] ELSE prepared

\* An error of the channel: the message to the content script is sent again.
RetryPrepare(t) ==
    /\ worker[t].stage = "preparing"
    /\ Post(t, Letter("prepare", worker[t]))
    /\ UNCHANGED <<bridge, live, net, worker, prepared, clicks>>

\* The page refused, or never answered.  The abort may be lost too.
PrepareFails(t) ==
    LET w == worker[t]
    IN  /\ w.stage = "preparing"
        /\ prepared' \in {prepared, Cleared(t, w.job, w.revision)}
        /\ Send(Request("ack", t, w, "failed"))
        /\ worker' = [worker EXCEPT ![t] = Idle]
        /\ UNCHANGED <<bridge, live, mail, clicks>>

\* begin-send was refused or timed out: it is tried once more, then given up.
BeginFails(t) ==
    LET w == worker[t]
    IN  /\ \/ /\ w.stage = "begin1"
              /\ worker' = [worker EXCEPT ![t].stage = "begin2"]
              /\ Send(Request("begin2", t, w, "none"))
              /\ UNCHANGED prepared
           \/ /\ w.stage = "begin2"
              /\ prepared' \in {prepared, Cleared(t, w.job, w.revision)}
              /\ worker' = [worker EXCEPT ![t] = Idle]
              /\ UNCHANGED net
        /\ UNCHANGED <<bridge, live, mail, clicks>>

\* No answer to the commit: the delivery is uncertain.
CommitFails(t) ==
    /\ worker[t].stage = "committing"
    /\ Send(Request("ack", t, worker[t], "uncertain"))
    /\ worker' = [worker EXCEPT ![t] = Idle]
    /\ UNCHANGED <<bridge, live, mail, prepared, clicks>>

\* The browser stops the service worker; what it sent goes on.
WorkerDies(t) ==
    /\ worker[t] # Idle
    /\ worker' = [worker EXCEPT ![t] = Idle]
    /\ UNCHANGED <<bridge, live, net, mail, prepared, clicks>>

----------------------------------------------------------------------------
\* The content script.

Awaits(t, m, stage) ==
    worker[t].stage = stage /\ worker[t].job = m.job /\ worker[t].token = m.token

\* prepareDelivery puts the message into the composer, or finds the page not ready
\* after it has cleared what was prepared before.
Prepare(t, m) ==
    /\ m.kind = "prepare"
    /\ mail' = [mail EXCEPT ![t] = @ \ {m}]
    /\ \/ /\ prepared' = [prepared EXCEPT ![t] = None]
          /\ UNCHANGED <<worker, net>>
       \/ /\ prepared' = [prepared EXCEPT ![t] = [job |-> m.job, revision |-> m.revision]]
          /\ \/ /\ Awaits(t, m, "preparing")
                /\ worker' = [worker EXCEPT ![t].stage = "begin1"]
                /\ Send(Request("begin1", t, worker[t], "none"))
             \/ UNCHANGED <<worker, net>>
    /\ UNCHANGED <<bridge, live, clicks>>

\* The answer to a commit ends the poll with an acknowledgement, if it is heard.
Answer(t, m, status) ==
    \/ /\ Awaits(t, m, "committing")
       /\ worker' = [worker EXCEPT ![t] = Idle]
       /\ Send(Request("ack", t, worker[t], status))
    \/ UNCHANGED <<worker, net>>

IsPrepared(t, m) == prepared[t] = [job |-> m.job, revision |-> m.revision]

\* commitDelivery without a click: something else is prepared, or the page changed.
CommitRefused(t, m) ==
    /\ m.kind = "commit"
    /\ mail' = [mail EXCEPT ![t] = @ \ {m}]
    /\ prepared' = Cleared(t, m.job, m.revision)
    /\ Answer(t, m, "not_sent")
    /\ UNCHANGED <<bridge, live, clicks>>

\* commitDelivery clicks Send, and sees the new turn or not.
CommitClicks(t, m) ==
    /\ m.kind = "commit" /\ IsPrepared(t, m)
    /\ mail' = [mail EXCEPT ![t] = @ \ {m}]
    /\ clicks' = [clicks EXCEPT ![m.job] = @ + 1]
    /\ prepared' = [prepared EXCEPT ![t] = None]
    /\ \E status \in {"delivered", "uncertain"} : Answer(t, m, status)
    /\ UNCHANGED <<bridge, live>>

\* The tab is closed or loaded again.
Reload(t) ==
    /\ prepared[t] # None \/ mail[t] # {}
    /\ prepared' = [prepared EXCEPT ![t] = None]
    /\ mail' = [mail EXCEPT ![t] = {}]
    /\ UNCHANGED <<bridge, live, net, worker, clicks>>

----------------------------------------------------------------------------
\* The clock, and the process.

Overdue(js, j) == [js EXCEPT ![j].lapsed = js[j].state \in InFlight]

ClaimLapses(j) ==
    /\ jobs[j].state \in InFlight /\ ~jobs[j].lapsed
    /\ jobs' = Overdue(jobs, j)
    /\ disk' = [disk EXCEPT !.jobs = Overdue(@, j)]
    /\ UNCHANGED <<bound, live, net, extension>>

Expires(j) ==
    /\ jobs[j].state \in Active /\ ~jobs[j].expired
    /\ jobs' = [jobs EXCEPT ![j].expired = TRUE]
    /\ disk' = [disk EXCEPT !.jobs[j].expired = @ \/ disk.jobs[j].state # "Absent"]
    /\ UNCHANGED <<bound, live, net, extension>>

Vanish(t) ==
    /\ t \in live
    /\ live' = live \ {t}
    /\ UNCHANGED <<bridge, net, extension>>

\* RepoTunnel is started again and loads its store (initialize).
Restart ==
    /\ jobs' = Cleaned(disk.jobs) /\ bound' = disk.bound
    /\ disk' = [jobs |-> jobs', bound |-> bound']
    /\ live' = {} /\ net' = {}
    /\ UNCHANGED extension

----------------------------------------------------------------------------
Init ==
    /\ jobs = [j \in Jobs |-> NoJob]
    /\ bound = [s \in Sessions |-> None]
    /\ live = {}
    /\ disk = [jobs |-> jobs, bound |-> bound]
    /\ net = {}
    /\ worker = [t \in Targets |-> Idle]
    /\ mail = [t \in Targets |-> {}]
    /\ prepared = [t \in Targets |-> None]
    /\ clicks = [j \in Jobs |-> 0]

Client == \E s \in Sessions, w \in Workspaces :
    \/ \E t \in Targets, explicit \in BOOLEAN : Queue(s, w, t, explicit)
    \/ Ensure(s, w)
    \/ Close(s, w)

Server == \E q \in net : ServeBegin(q) \/ ServeAck(q)

Poll(t) ==
    \/ Claim(t) \/ RetryPrepare(t) \/ PrepareFails(t)
    \/ BeginFails(t) \/ CommitFails(t) \/ WorkerDies(t) \/ Reload(t)
    \/ \E m \in mail[t] : Prepare(t, m) \/ CommitRefused(t, m) \/ CommitClicks(t, m)

Clock == \E j \in Jobs : ClaimLapses(j) \/ Expires(j)

Next ==
    \/ Client \/ Server \/ Clock \/ SweepFails \/ Restart
    \/ \E t \in Targets : Register(t) \/ Vanish(t)
    \/ \E t \in Polled : Poll(t)

Spec == Init /\ [][Next]_vars

\* The clock goes on, and some tab keeps polling.
FairSpec ==
    /\ Spec
    /\ \A j \in Jobs : WF_vars(ClaimLapses(j)) /\ WF_vars(Expires(j))
    /\ WF_vars(\E t \in Targets : Register(t))

----------------------------------------------------------------------------
\* Every record of the bridge and of the extension has its type; no job is claimed more
\* than MaxAttempts times.
TypeOK ==
    /\ jobs \in [Jobs -> JobRecords]
    /\ bound \in [Sessions -> Targets \union {None}]
    /\ live \subseteq Targets
    /\ disk \in [jobs : [Jobs -> JobRecords], bound : [Sessions -> Targets \union {None}]]
    /\ \A q \in net : q.op \in {"begin1", "begin2", "ack"} /\ q.job \in Jobs
    /\ \A t \in Targets : worker[t].stage \in Stages
    /\ \A t \in Targets : \A m \in mail[t] : m.kind \in {"prepare", "commit"}
    /\ \A j \in Jobs : clicks[j] \in Nat

\* What the bridge has told of a message.
Phase(r) ==
    CASE r.state = "Absent" -> "unknown"
      [] r.state \in {"Pending", "Claimed"} -> "waiting"
      [] r.state \in {"Sending", "Uncertain"} -> "authorised"
      [] r.state = "Failed" \/ (r.state = "Cancelled" /\ r.expired) -> "failed"
      [] r.state = "Delivered" -> "delivered"
      [] OTHER -> "closed"

Promise == INSTANCE ContinuationPromise
    WITH phase <- [j \in Jobs |-> Phase(jobs[j])], sent <- [j \in Jobs |-> clicks[j] > 0]

\* No message is sent twice: whatever dies or is answered late, a click whose outcome
\* is unknown is not repeated (cleanup_locked, begin_send, acknowledge).
AtMostOnce == \A j \in Jobs : clicks[j] <= 1

\* The delivery implements ContinuationPromise: Send is clicked once and only for a
\* claim that begin_send accepted, "delivered" is only said of a message that was
\* sent, and no restart offers again what was sent, delivered or withdrawn.
PromiseKept == Promise!Spec

\* A conversation has one unfinished checkpoint, though sessions and workspaces queue
\* for it, a claim comes back to it and its tab comes and goes.
OneActive == \A t \in Targets : Cardinality(On(jobs, t, Active)) <= 1

\* Unfinished work is delivered where its conversation is bound: no later binding
\* leaves it to another chat (explicit_session_rebind_allowed).
BindingHolds == \A j \in Jobs :
    jobs[j].state \in Active => bound[jobs[j].session] = jobs[j].target

\* No job stays unfinished, which would keep its conversation from other workspaces,
\* whoever dies with it in hand (cleanup_locked and the limit of attempts).
Settles == \A j \in Jobs : jobs[j].state \in Active ~> jobs[j].state \notin Active
=============================================================================
