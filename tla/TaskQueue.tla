----------------------------- MODULE TaskQueue -----------------------------
(***************************************************************************)
(* The queue service: the committed rows of the tables tasks and workers,  *)
(* and the requests of the HTTP API that read and write them.              *)
(*                                                                         *)
(* Every request runs in one database transaction (READ COMMITTED, no row  *)
(* version, no SELECT ... FOR UPDATE outside the claim query).  The ORM    *)
(* requests - complete, fail, heartbeat, register - first load rows and    *)
(* check them, and later, at commit, write only the columns they changed,  *)
(* by primary key.  So each of them is two steps here, a read and a        *)
(* commit, and anything may commit in between.  claim_next takes its time  *)
(* in one step and runs its two UPDATEs in a later one: the rows it        *)
(* touches stay locked until it commits and it locks only rows that still  *)
(* satisfy its WHERE, so its two statements are one atomic step.           *)
(*                                                                         *)
(* The clients are arbitrary: any caller may present any claim token that  *)
(* was ever issued, for any task, at any time.                             *)
(***************************************************************************)
EXTENDS Integers, FiniteSets

CONSTANTS
    Tasks,            \* ids submit_task may generate (uuid4: each used once)
    Workers,          \* worker ids
    Sessions,         \* session ids: one per worker process that starts
    Users,            \* owners of self-service worker keys
    Tokens,           \* claim tokens claim_next may generate (BOUND on claims)
    Conns,            \* database connections: requests that run at once (BOUND)
    Types,            \* task types
    TaskType,         \* the task_type of each task
    Serves,           \* the task types each worker asks for
    KeyOwner,         \* the owner of the key a process uses, None: environment key
    Stages,           \* progress stages a worker reports
    LeaseTerms,       \* lease_minutes of a submission
    Overrides,        \* lease_minutes of a claim, None when it gives none
    Retentions,       \* retention_hours of a submission
    ActiveLease,      \* ACTIVE_LEASE_MINUTES
    WorkerRetention,  \* age at which pg_cron deletes a silent worker
    MaxTime,          \* BOUND on the clock
    None              \* SQL NULL

Statuses == {"unborn", "queued", "claimed", "done", "failed", "deleted"}
Terminal == {"done", "failed"}
Outcomes == Terminal
Time == 0 .. MaxTime
Callers == Users \cup {None}

ASSUME TimingAssumption ==
    /\ MaxTime \in Nat
    /\ ActiveLease \in Nat \ {0}
    /\ WorkerRetention \in Nat
    /\ LeaseTerms \subseteq Nat
    /\ Retentions \subseteq Nat
    /\ Overrides \subseteq Nat \cup {None}

ASSUME NamingAssumption ==
    /\ TaskType \in [Tasks -> Types]
    /\ Serves \in [Workers -> SUBSET Types]
    /\ KeyOwner \in [Sessions -> Users \cup {None}]

ASSUME NoneAssumption ==
    /\ None \notin Nat
    /\ None \notin Tasks \cup Workers \cup Sessions \cup Users \cup Tokens

VARIABLES
    now,     \* the database clock
    task,    \* the row of each task id ("unborn": not yet inserted)
    worker,  \* the row of each worker id (session None: no row)
    txn,     \* what each connection's request has read and will write
    grant    \* the claims issued so far: which task and worker a token was for

vars == <<now, task, worker, txn, grant>>

-----------------------------------------------------------------------------
(* Rows.  A result or an error is identified by the claim token that its   *)
(* request presented: what matters about it is whose work it is.           *)

TaskRow ==
    [status    : Statuses,
     term      : Nat,
     created   : Nat,
     expires   : Nat,
     claimedBy : Workers \cup {None},
     token     : Tokens \cup {None},
     lease     : Nat \cup {None},
     stage     : Stages \cup {"claimed", "complete", "failed", None},
     result    : Tokens \cup {None},
     error     : Tokens \cup {None}]

WorkerRow ==
    [session : Sessions \cup {None},
     owner   : Users \cup {None},
     state   : {"idle", "busy"},
     current : Tasks \cup {None},
     last    : Nat]

NoTaskRow(status) ==
    [status |-> status, term |-> 0, created |-> 0, expires |-> 0,
     claimedBy |-> None, token |-> None, lease |-> None, stage |-> None,
     result |-> None, error |-> None]

NoWorkerRow ==
    [session |-> None, owner |-> None, state |-> "idle", current |-> None, last |-> 0]

Present(t) == task[t].status \notin {"unborn", "deleted"}
Registered(w) == worker[w].session # None

Grant == [task : Tasks \cup {None}, worker : Workers \cup {None}]
NoGrant == [task |-> None, worker |-> None]
Issued(k) == grant[k].task # None

(* What a request holds between its read and its commit.                   *)
ClaimTxn == [op : {"claim"}, worker : Workers, at : Nat, lease : Nat \cup {None}]
FinishTxn == [op : {"finish"}, task : Tasks, token : Tokens, outcome : Outcomes]
HeartbeatTxn ==
    [op : {"heartbeat"}, worker : Workers, old : WorkerRow, new : WorkerRow,
     task : Tasks \cup {None},
     oldStage : Stages \cup {"claimed", "complete", "failed", None},
     newStage : Stages \cup {None},
     lease : Nat]
RegisterTxn ==
    [op : {"register"}, worker : Workers, old : WorkerRow, new : WorkerRow]
IdleTxn == [op : {"idle"}]
NoTxn == [op |-> "idle"]

Free(c) == txn[c].op = "idle"
Begin(c, request) == txn' = [txn EXCEPT ![c] = request]
End(c) == txn' = [txn EXCEPT ![c] = NoTxn]

-----------------------------------------------------------------------------
(* The ORM's UPDATE writes the columns whose value differs from the loaded *)
(* one and leaves the others as the row now has them.                      *)

Dirty(current, old, new) == IF new = old THEN current ELSE new

\* last_heartbeat_at is a fresh microsecond reading: always a changed column.
MergeWorker(row, old, new) ==
    [session |-> Dirty(row.session, old.session, new.session),
     owner   |-> Dirty(row.owner, old.owner, new.owner),
     state   |-> Dirty(row.state, old.state, new.state),
     current |-> Dirty(row.current, old.current, new.current),
     last    |-> new.last]

-----------------------------------------------------------------------------
(* submit_task: the INSERT and its commit.                                 *)

SubmitTask(t, term, retention) ==
    /\ task[t].status = "unborn"
    /\ term > 0
    /\ retention > 0
    /\ task' = [task EXCEPT ![t] =
                  [NoTaskRow("queued") EXCEPT !.term = term,
                                              !.created = now,
                                              !.expires = now + retention]]
    /\ UNCHANGED <<now, worker, txn, grant>>

-----------------------------------------------------------------------------
(* claim_next: GET /tasks/next.                                            *)

\* The route's ownership check for a self-service key, then `now = _now()`.
ClaimNext(c, w, caller, lease) ==
    /\ Free(c)
    /\ caller # None => Registered(w) /\ worker[w].owner = caller
    /\ lease # None => lease > 0
    /\ Begin(c, [op |-> "claim", worker |-> w, at |-> now, lease |-> lease])
    /\ UNCHANGED <<now, task, worker, grant>>

\* Mutant: the lease comparison is <= instead of <.
OverdueAtTheBoundary(w, at) ==
    {t \in Tasks : /\ task[t].status = "claimed"
                   /\ TaskType[t] \in Serves[w]
                   /\ task[t].lease # None
                   /\ task[t].lease <= at}

\* _RECLAIM_SQL: the claims whose lease ended before the request's `now`.
Overdue(w, at) ==
    {t \in Tasks : /\ task[t].status = "claimed"
                   /\ TaskType[t] \in Serves[w]
                   /\ task[t].lease # None
                   /\ task[t].lease < at}

\* Mutant: the reclaim leaves the former holder's token on the row.
ReclaimedWithToken(row) ==
    [row EXCEPT !.status = "queued", !.claimedBy = None, !.lease = None, !.stage = None]

Reclaimed(row) ==
    [row EXCEPT !.status = "queued", !.claimedBy = None, !.token = None,
                !.lease = None, !.stage = None]

\* Mutant: the claim runs before the reclaim.
CandidatesBeforeReclaim(w, at) ==
    {t \in Tasks : task[t].status = "queued" /\ TaskType[t] \in Serves[w]}

\* _CLAIM_SQL's candidates, once the reclaim has run in the same transaction.
Candidates(w, at) ==
    {t \in Tasks : task[t].status = "queued" /\ TaskType[t] \in Serves[w]}
      \cup Overdue(w, at)

Claimed(row, w, k, at, lease) ==
    [row EXCEPT !.status = "claimed", !.claimedBy = w, !.token = k,
                !.stage = "claimed",
                !.lease = at + (IF lease = None THEN row.term ELSE lease)]

ClaimTask(c, t, k) ==
    /\ txn[c].op = "claim"
    /\ LET w  == txn[c].worker
           at == txn[c].at
       IN /\ t \in Candidates(w, at)
          /\ \A u \in Candidates(w, at) : task[t].created <= task[u].created
          /\ ~Issued(k)
          /\ task' = [u \in Tasks |->
                        IF u = t
                        THEN Claimed(Reclaimed(task[u]), w, k, at, txn[c].lease)
                        ELSE IF u \in Overdue(w, at) THEN Reclaimed(task[u])
                        ELSE task[u]]
          /\ grant' = [grant EXCEPT ![k] = [task |-> t, worker |-> w]]
    /\ End(c)
    /\ UNCHANGED <<now, worker>>

\* Nothing queued, nothing overdue: 204.
ClaimNothing(c) ==
    /\ txn[c].op = "claim"
    /\ Candidates(txn[c].worker, txn[c].at) = {}
    /\ End(c)
    /\ UNCHANGED <<now, task, worker, grant>>

-----------------------------------------------------------------------------
(* complete_task and fail_task: the checks on the row loaded by get_task,  *)
(* then an UPDATE by id.  A failed check is a 409 that changes nothing.    *)

BeginFinish(c, t, k, outcome) ==
    /\ Free(c)
    /\ Issued(k)
    /\ Begin(c, [op |-> "finish", task |-> t, token |-> k, outcome |-> outcome])
    /\ UNCHANGED <<now, task, worker, grant>>

\* Mutant: the token is not compared.
CheckStatusOnly(c, t, k, outcome) ==
    task[t].status = "claimed" /\ BeginFinish(c, t, k, outcome)

\* Mutant: the status is not compared.
CheckTokenOnly(c, t, k, outcome) ==
    task[t].token = k /\ BeginFinish(c, t, k, outcome)

CheckClaim(c, t, k, outcome) ==
    /\ task[t].status = "claimed"
    /\ task[t].token = k
    /\ BeginFinish(c, t, k, outcome)

CompleteTask(c, t, k) == CheckClaim(c, t, k, "done")
FailTask(c, t, k) == CheckClaim(c, t, k, "failed")

\* Mutant: the UPDATE writes back the token it loaded.
FinishedWithLoadedToken(row, k, outcome) ==
    IF outcome = "done"
    THEN [row EXCEPT !.status = "done", !.result = k, !.stage = "complete", !.token = k]
    ELSE [row EXCEPT !.status = "failed", !.error = k, !.stage = "failed", !.token = k]

\* Mutant: a status the table does not know.
FinishedAsError(row, k, outcome) ==
    IF outcome = "done"
    THEN [row EXCEPT !.status = "done", !.result = k, !.stage = "complete"]
    ELSE [row EXCEPT !.status = "error", !.error = k, !.stage = "failed"]

Finished(row, k, outcome) ==
    IF outcome = "done"
    THEN [row EXCEPT !.status = "done", !.result = k, !.stage = "complete"]
    ELSE [row EXCEPT !.status = "failed", !.error = k, !.stage = "failed"]

FinishCommit(c) ==
    /\ txn[c].op = "finish"
    /\ LET t == txn[c].task
       IN /\ Present(t)
          /\ task' = [task EXCEPT ![t] = Finished(@, txn[c].token, txn[c].outcome)]
    /\ End(c)
    /\ UNCHANGED <<now, worker, grant>>

-----------------------------------------------------------------------------
(* worker_service.register_worker.                                         *)

BeginRegister(c, w, s, owner) ==
    /\ Free(c)
    /\ Begin(c, [op |-> "register", worker |-> w, old |-> worker[w],
                 new |-> [session |-> s, owner |-> owner, state |-> "idle",
                          current |-> None, last |-> now]])
    /\ UNCHANGED <<now, task, worker, grant>>

\* Mutant: a user's key is not compared with the row's owner.
MayRegisterAnyOwner(w, s) == TRUE

MayRegister(w, s) ==
    Registered(w) /\ KeyOwner[s] # None => worker[w].owner = KeyOwner[s]

Register(c, w, s) ==
    /\ MayRegister(w, s)
    /\ BeginRegister(c, w, s, KeyOwner[s])

\* An INSERT when the read found no row, else an UPDATE by id.
RegisterCommit(c) ==
    /\ txn[c].op = "register"
    /\ LET w   == txn[c].worker
           old == txn[c].old
           new == txn[c].new
       IN /\ Registered(w) <=> old.session # None
          /\ worker' = [worker EXCEPT ![w] =
                          IF old.session = None THEN new
                          ELSE MergeWorker(worker[w], old, new)]
    /\ End(c)
    /\ UNCHANGED <<now, task, grant>>

-----------------------------------------------------------------------------
(* worker_service.heartbeat: idle with no task, or busy with one.          *)

Heartbeat(c, w, s, state, t, k, stage) ==
    /\ Free(c)
    /\ Registered(w)
    /\ worker[w].session = s
    /\ state = "busy" => t # None
    /\ state = "idle" => t = None
    /\ t # None =>
         /\ task[t].status = "claimed"
         /\ task[t].claimedBy = w
         /\ task[t].token = k
    /\ Begin(c, [op       |-> "heartbeat",
                 worker   |-> w,
                 old      |-> worker[w],
                 new      |-> [worker[w] EXCEPT !.state = state, !.current = t,
                                                !.last = now],
                 task     |-> t,
                 oldStage |-> IF t = None THEN None ELSE task[t].stage,
                 newStage |-> IF t = None THEN None ELSE stage,
                 lease    |-> now + ActiveLease])
    /\ UNCHANGED <<now, task, worker, grant>>

\* Mutant: the whole loaded row is written, its status included.
HeartbeatCommitWholeRow(c) ==
    /\ txn[c].op = "heartbeat"
    /\ LET w == txn[c].worker
           t == txn[c].task
       IN /\ Registered(w)
          /\ t # None => Present(t)
          /\ worker' = [worker EXCEPT ![w] = MergeWorker(@, txn[c].old, txn[c].new)]
          /\ task' = IF t = None THEN task
                     ELSE [task EXCEPT ![t].status = "claimed",
                                       ![t].stage = txn[c].newStage,
                                       ![t].lease = txn[c].lease]
    /\ End(c)
    /\ UNCHANGED <<now, grant>>

\* Mutant: the worker row is written back as a whole, its session included.
HeartbeatCommitWholeWorker(c) ==
    /\ txn[c].op = "heartbeat"
    /\ LET w == txn[c].worker
           t == txn[c].task
       IN /\ Registered(w)
          /\ t # None => Present(t)
          /\ worker' = [worker EXCEPT ![w] = txn[c].new]
          /\ task' = IF t = None THEN task
                     ELSE [task EXCEPT
                             ![t].stage = Dirty(@, txn[c].oldStage, txn[c].newStage),
                             ![t].lease = txn[c].lease]
    /\ End(c)
    /\ UNCHANGED <<now, grant>>

\* Both rows in one transaction: it commits only if both still exist.
HeartbeatCommit(c) ==
    /\ txn[c].op = "heartbeat"
    /\ LET w == txn[c].worker
           t == txn[c].task
       IN /\ Registered(w)
          /\ t # None => Present(t)
          /\ worker' = [worker EXCEPT ![w] = MergeWorker(@, txn[c].old, txn[c].new)]
          /\ task' = IF t = None THEN task
                     ELSE [task EXCEPT
                             ![t].stage = Dirty(@, txn[c].oldStage, txn[c].newStage),
                             ![t].lease = txn[c].lease]
    /\ End(c)
    /\ UNCHANGED <<now, grant>>

-----------------------------------------------------------------------------
(* A request that ends in a rollback: its row is gone (the UPDATE matches  *)
(* no row), its INSERT meets a row, the connection or the server dies.     *)
Rollback(c) ==
    /\ ~Free(c)
    /\ End(c)
    /\ UNCHANGED <<now, task, worker, grant>>

(* The pg_cron jobs, and the clock.                                        *)

\* Mutant: workers.current_task_id is left dangling.
CleanupTasksOnly ==
    LET Expired == {t \in Tasks : Present(t) /\ task[t].expires < now}
    IN /\ Expired # {}
       /\ task' = [t \in Tasks |-> IF t \in Expired THEN NoTaskRow("deleted")
                                   ELSE task[t]]
       /\ UNCHANGED <<now, worker, txn, grant>>

\* delete from tasks where expires_at < now(); workers.current_task_id is
\* ON DELETE SET NULL.
CleanupTasks ==
    LET Expired == {t \in Tasks : Present(t) /\ task[t].expires < now}
    IN /\ Expired # {}
       /\ task' = [t \in Tasks |-> IF t \in Expired THEN NoTaskRow("deleted")
                                   ELSE task[t]]
       /\ worker' = [w \in Workers |->
                       IF worker[w].current \in Expired
                       THEN [worker[w] EXCEPT !.current = None]
                       ELSE worker[w]]
       /\ UNCHANGED <<now, txn, grant>>

\* delete from workers where last_heartbeat_at < now() - interval '30 days'
CleanupWorkers ==
    LET Silent == {w \in Workers : Registered(w) /\ worker[w].last < now - WorkerRetention}
    IN /\ Silent # {}
       /\ worker' = [w \in Workers |-> IF w \in Silent THEN NoWorkerRow ELSE worker[w]]
       /\ UNCHANGED <<now, task, txn, grant>>

Tick ==
    /\ now < MaxTime
    /\ now' = now + 1
    /\ UNCHANGED <<task, worker, txn, grant>>

-----------------------------------------------------------------------------
Init ==
    /\ now = 0
    /\ task = [t \in Tasks |-> NoTaskRow("unborn")]
    /\ worker = [w \in Workers |-> NoWorkerRow]
    /\ txn = [c \in Conns |-> NoTxn]
    /\ grant = [k \in Tokens |-> NoGrant]

Producer ==
    \E t \in Tasks, term \in LeaseTerms, retention \in Retentions :
        SubmitTask(t, term, retention)

Claiming(c) ==
    \/ \E w \in Workers, caller \in Callers, lease \in Overrides :
           ClaimNext(c, w, caller, lease)
    \/ \E t \in Tasks, k \in Tokens : ClaimTask(c, t, k)
    \/ ClaimNothing(c)

Finishing(c) ==
    \/ \E t \in Tasks, k \in Tokens : CompleteTask(c, t, k)
    \/ \E t \in Tasks, k \in Tokens : FailTask(c, t, k)
    \/ FinishCommit(c)

Reporting(c) ==
    \/ \E w \in Workers, s \in Sessions : Register(c, w, s)
    \/ RegisterCommit(c)
    \/ \E w \in Workers, s \in Sessions, state \in {"idle", "busy"},
          t \in Tasks \cup {None}, k \in Tokens, stage \in Stages :
           Heartbeat(c, w, s, state, t, k, stage)
    \/ HeartbeatCommit(c)

Next ==
    \/ Producer
    \/ \E c \in Conns : Claiming(c) \/ Finishing(c) \/ Reporting(c) \/ Rollback(c)
    \/ CleanupTasks
    \/ CleanupWorkers
    \/ Tick

Spec == Init /\ [][Next]_vars
-----------------------------------------------------------------------------
(* Properties of the rows, whatever requests overlap.                      *)

\* Every row and every request in progress has the shape of its table.
TypeOK ==
    /\ now \in Nat
    /\ task \in [Tasks -> TaskRow]
    /\ worker \in [Workers -> WorkerRow]
    /\ txn \in [Conns -> ClaimTxn \cup FinishTxn \cup HeartbeatTxn
                           \cup RegisterTxn \cup IdleTxn]
    /\ grant \in [Tokens -> Grant]

\* A claimed row names a claim that claim_next really made, of this task, by
\* this worker, under a lease; a queued row names none.
ClaimsMatchGrants ==
    \A t \in Tasks :
        /\ task[t].status = "claimed" =>
             /\ task[t].token # None
             /\ grant[task[t].token] = [task |-> t, worker |-> task[t].claimedBy]
             /\ task[t].lease # None
        /\ task[t].status = "queued" =>
             task[t].token = None /\ task[t].claimedBy = None

\* A result or an error was delivered under a claim of that very task, and
\* only finished rows have one: nobody's work ends up on another task's row.
OutcomeFromOwnGrant ==
    \A t \in Tasks :
        /\ task[t].result # None => grant[task[t].result].task = t
        /\ task[t].error # None => grant[task[t].error].task = t
        /\ task[t].status = "done" => task[t].result # None
        /\ task[t].status = "failed" => task[t].error # None
        /\ task[t].status \notin Terminal => task[t].result = None /\ task[t].error = None

\* workers.current_task_id references a row of tasks, through every sweep.
CurrentTaskExists ==
    \A w \in Workers : worker[w].current # None => Present(worker[w].current)

\* A finished task is never handed out again: no late request, reclaim or
\* heartbeat brings a done or failed row back to queued or claimed.
FinishedNeverReopens ==
    [][\A t \in Tasks : task[t].status \in Terminal =>
           task'[t].status \in Terminal \cup {"deleted"}]_vars

\* The token of a row changes only to one never issued before (or to NULL):
\* a holder that lost its claim does not get it back.
TokenNeverReturns ==
    [][\A t \in Tasks : task'[t].token \notin {task[t].token, None} =>
           ~Issued(task'[t].token)]_vars

\* A claim is taken from its holder only after its lease has run out.
OnlyOverdueClaimsAreLost ==
    [][\A t \in Tasks :
           /\ task[t].status = "claimed"
           /\ task'[t].status \in {"queued", "claimed"}
           /\ task'[t].token # task[t].token
           => task[t].lease < now]_vars

\* claim_next hands out the oldest task it could: nothing older of the
\* worker's types is left waiting, the tasks reclaimed by the same call included.
OldestFirst ==
    [][\A t, u \in Tasks :
           /\ task'[t].status = "claimed"
           /\ task'[t].token # task[t].token
           /\ task'[u].status = "queued"
           /\ TaskType[u] \in Serves[task'[t].claimedBy]
           => task'[t].created <= task'[u].created]_vars

\* While a worker row lives, a user's key never becomes its owner: an id
\* belongs to whoever inserted it until the operator's key takes it over.
OwnershipOnlyPassesToOperator ==
    [][\A w \in Workers :
           /\ Registered(w) /\ worker'[w].session # None
           /\ worker'[w].owner # worker[w].owner
           => worker'[w].owner = None]_vars

-----------------------------------------------------------------------------
(* What is left of the documents' promises when requests overlap: they     *)
(* hold from the moment that no request which passed its checks in time is *)
(* still to commit.                                                        *)

InUse(k) ==
    \/ \E t \in Tasks : task[t].status = "claimed" /\ task[t].token = k
    \/ \E c \in Conns : txn[c].op = "finish" /\ txn[c].token = k

Over(k) == Issued(k) /\ ~InUse(k)

\* README, "Claim tokens": the token of a claim that was lost or finished "no
\* longer works": once the requests that had passed the check with it are
\* over, no request passes with it again and no outcome is delivered under it.
OverClaimStaysOver ==
    [][\A k \in Tokens : Over(k) =>
           /\ Over(k)'
           /\ \A t \in Tasks : /\ task'[t].result = k => task[t].result = k
                               /\ task'[t].error = k => task[t].error = k]_vars

\* A request that will write the row of t has passed its checks.
WritePending(t) ==
    \E c \in Conns : txn[c].op \in {"finish", "heartbeat"} /\ txn[c].task = t

\* models.py, "queued -> claimed -> done | failed": the row of a finished task,
\* its outcome, stage and lease included, never changes again once the finishes
\* and heartbeats that overlapped the first finish are over; the sweep takes it.
SettledRowIsFinal ==
    [][\A t \in Tasks :
           task[t].status \in Terminal /\ ~WritePending(t) =>
               /\ ~WritePending(t)'
               /\ task'[t] = task[t] \/ task'[t].status = "deleted"]_vars

\* heartbeat, "session was replaced by a newer process": such a process is not
\* let in again by a heartbeat of its own that commits late: a session comes
\* into a row only with a registration that was under way with it.
ReplacedSessionStaysOut ==
    [][\A w \in Workers :
           worker'[w].session \notin {worker[w].session, None} =>
               \E c \in Conns : /\ txn[c].op = "register" /\ Free(c)'
                                /\ txn[c].worker = w
                                /\ txn[c].new.session = worker'[w].session]_vars

-----------------------------------------------------------------------------
\* README, "Claim tokens": if a task "gets reclaimed by someone else, the
\* original worker's stale token no longer works": an outcome is delivered
\* only under the token that the row has.
StaleTokenCannotFinish ==
    [][\A t \in Tasks :
           /\ task'[t].result \notin {task[t].result, None} => task[t].token = task'[t].result
           /\ task'[t].error \notin {task[t].error, None} => task[t].token = task'[t].error]_vars
=============================================================================
