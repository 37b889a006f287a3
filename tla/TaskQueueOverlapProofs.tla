----------------------- MODULE TaskQueueOverlapProofs -----------------------
(* What TaskQueue still promises about claims, finished rows and sessions  *)
(* when any number of requests overlap: a request that passed its check in *)
(* time may commit late, and none after it passes the check again.         *)
EXTENDS TaskQueueProofs

\* A heartbeat keeps the session it compared; when it begins, its task is claimed.
HeartbeatChecked(request) ==
    /\ request.new.session = request.old.session
    /\ request.task # None => task[request.task].status = "claimed"

\* What a step leaves of a connection's heartbeat.
LEMMA HeartbeatRequests ==
    ASSUME TypeOK, [Next]_vars, NEW d \in Conns, txn'[d].op = "heartbeat"
    PROVE  txn'[d] = txn[d] \/ HeartbeatChecked(txn'[d])
<1> DEFINE Moves == txn'[d] = txn[d] \/ HeartbeatChecked(txn'[d])
<1>0. ASSUME NEW c \in Conns, End(c) PROVE Moves
  BY <1>0 DEF End, NoTxn, TypeOK
<1>00. ASSUME NEW c \in Conns, NEW request, Begin(c, request),
              request.op # "heartbeat" \/ HeartbeatChecked(request)
       PROVE  Moves
  <2>1. txn'[d] = txn[d] \/ txn'[d] = request
    BY <1>00 DEF Begin, TypeOK
  <2> QED
    BY <1>00, <2>1
<1> HIDE DEF Moves
<1>1. CASE Producer \/ CleanupTasks \/ CleanupWorkers \/ Tick \/ UNCHANGED vars
  BY <1>1 DEF Producer, SubmitTask, CleanupTasks, CleanupWorkers, Tick, vars, Moves
<1>2. ASSUME NEW c \in Conns, Claiming(c) PROVE Moves
  <2>1. ASSUME NEW w \in Workers, NEW caller \in Callers, NEW lease \in Overrides,
               ClaimNext(c, w, caller, lease)
        PROVE  Moves
    <3> DEFINE request == [op |-> "claim", worker |-> w, at |-> now, lease |-> lease]
    <3>1. request.op # "heartbeat"
      OBVIOUS
    <3>2. Begin(c, request)
      BY <2>1 DEF ClaimNext
    <3> HIDE DEF request
    <3> QED
      BY <3>1, <3>2, <1>00
  <2>2. ASSUME NEW t \in Tasks, NEW k \in Tokens, ClaimTask(c, t, k) PROVE Moves
    BY <2>2, <1>0 DEF ClaimTask
  <2>3. CASE ClaimNothing(c)
    BY <2>3, <1>0 DEF ClaimNothing
  <2> QED
    BY <1>2, <2>1, <2>2, <2>3 DEF Claiming
<1>3. ASSUME NEW c \in Conns, Finishing(c) PROVE Moves
  <2>1. ASSUME NEW t \in Tasks, NEW k \in Tokens, NEW outcome \in Outcomes,
               CheckClaim(c, t, k, outcome)
        PROVE  Moves
    <3> DEFINE request == [op |-> "finish", task |-> t, token |-> k, outcome |-> outcome]
    <3>1. request.op # "heartbeat"
      OBVIOUS
    <3>2. Begin(c, request)
      BY <2>1 DEF CheckClaim, BeginFinish
    <3> HIDE DEF request
    <3> QED
      BY <3>1, <3>2, <1>00
  <2>2. CASE FinishCommit(c)
    BY <2>2, <1>0 DEF FinishCommit
  <2> QED
    BY <1>3, <2>1, <2>2 DEF Finishing, CompleteTask, FailTask, Outcomes, Terminal
<1>4. ASSUME NEW c \in Conns, Reporting(c) PROVE Moves
  <2>1. ASSUME NEW w \in Workers, NEW s \in Sessions, Register(c, w, s)
        PROVE  Moves
    <3> DEFINE new == [session |-> s, owner |-> KeyOwner[s], state |-> "idle",
                       current |-> None, last |-> now]
               request == [op |-> "register", worker |-> w, old |-> worker[w], new |-> new]
    <3>1. Begin(c, request)
      BY <2>1 DEF Register, BeginRegister
    <3> HIDE DEF new
    <3>2. request.op # "heartbeat"
      OBVIOUS
    <3> HIDE DEF request
    <3> QED
      BY <3>1, <3>2, <1>00
  <2>2. ASSUME NEW w \in Workers, NEW s \in Sessions, NEW state \in {"idle", "busy"},
               NEW t \in Tasks \cup {None}, NEW k \in Tokens, NEW stage \in Stages,
               Heartbeat(c, w, s, state, t, k, stage)
        PROVE  Moves
    <3> DEFINE new == [worker[w] EXCEPT !.state = state, !.current = t, !.last = now]
               request ==
                 [op |-> "heartbeat", worker |-> w, old |-> worker[w], new |-> new,
                  task |-> t,
                  oldStage |-> IF t = None THEN None ELSE task[t].stage,
                  newStage |-> IF t = None THEN None ELSE stage,
                  lease |-> now + ActiveLease]
    <3>1. Begin(c, request)
      BY <2>2 DEF Heartbeat
    <3>2. new.session = worker[w].session
      BY DEF TypeOK, WorkerRow
    <3>3. t # None => task[t].status = "claimed"
      BY <2>2 DEF Heartbeat
    <3> HIDE DEF new
    <3>4. request.old = worker[w] /\ request.new = new /\ request.task = t
      OBVIOUS
    <3> HIDE DEF request
    <3>5. HeartbeatChecked(request)
      BY <3>2, <3>3, <3>4 DEF HeartbeatChecked
    <3> QED
      BY <3>1, <3>5, <1>00
  <2>3. CASE RegisterCommit(c) \/ HeartbeatCommit(c)
    BY <2>3, <1>0 DEF RegisterCommit, HeartbeatCommit
  <2> QED
    BY <1>4, <2>1, <2>2, <2>3 DEF Reporting
<1>5. ASSUME NEW c \in Conns, Rollback(c) PROVE Moves
  BY <1>5, <1>0 DEF Rollback
<1> QED
  BY <1>1, <1>2, <1>3, <1>4, <1>5 DEF Next, Moves

-----------------------------------------------------------------------------
(* A claim that is over.                                                   *)

\* A row is claimed under the token it had, or under one not issued before.
LEMMA ClaimedBefore ==
    ASSUME TypeOK, [Next]_vars, NEW t \in Tasks, task'[t].status = "claimed"
    PROVE  \/ task[t].status = "claimed" /\ task[t].token = task'[t].token
           \/ ~Issued(task'[t].token)
<1>1. ASSUME NEW u \in Tasks, NEW term \in LeaseTerms, NEW retention \in Retentions,
             SubmitTask(u, term, retention)
      PROVE  task'[t] = task[t]
  BY <1>1 DEF SubmitTask, TypeOK, NoTaskRow
<1>2. ASSUME NEW c \in Conns, NEW u \in Tasks, NEW k \in Tokens, ClaimTask(c, u, k)
      PROVE  task'[t] = task[t] \/ ~Issued(task'[t].token)
  <2>1. ClaimEffect(c, u, k)
    BY <1>2, ClaimWrites
  <2> QED
    BY <2>1 DEF ClaimEffect
<1>3. ASSUME NEW c \in Conns, FinishCommit(c) PROVE task'[t] = task[t]
  <2>1. FinishEffect(c)
    BY <1>3, FinishWrites
  <2> QED
    BY <2>1 DEF FinishEffect
<1>4. ASSUME NEW c \in Conns, RegisterCommit(c) PROVE task'[t] = task[t]
  BY <1>4 DEF RegisterCommit
<1>5. ASSUME NEW c \in Conns, HeartbeatCommit(c)
      PROVE  task'[t].status = task[t].status /\ task'[t].token = task[t].token
  BY <1>5, HeartbeatWrites
<1>6. CASE CleanupTasks
  BY <1>6 DEF CleanupTasks, NoTaskRow
<1>7. CASE CleanupWorkers \/ UNCHANGED <<task, worker, grant>>
  BY <1>7 DEF CleanupWorkers
<1> QED
  BY <1>1, <1>2, <1>3, <1>4, <1>5, <1>6, <1>7, StepCases DEF RowStep

\* An outcome comes with the commit of a request that presented its token.
LEMMA OutcomeCases ==
    ASSUME TypeOK, [Next]_vars, NEW t \in Tasks
    PROVE  \/ task'[t].result = task[t].result /\ task'[t].error = task[t].error
           \/ task'[t].result = None /\ task'[t].error = None
           \/ \E c \in Conns :
                 /\ txn[c].op = "finish"
                 /\ task'[t].result \in {task[t].result, txn[c].token}
                 /\ task'[t].error \in {task[t].error, txn[c].token}
<1>1. ASSUME NEW u \in Tasks, NEW term \in LeaseTerms, NEW retention \in Retentions,
             SubmitTask(u, term, retention)
      PROVE  task'[t] = task[t] \/ (task'[t].result = None /\ task'[t].error = None)
  <2>1. task'[u].result = None /\ task'[u].error = None
    BY <1>1 DEF SubmitTask, TypeOK, NoTaskRow
  <2>2. t # u => task'[t] = task[t]
    BY <1>1 DEF SubmitTask, TypeOK
  <2> QED
    BY <2>1, <2>2
<1>2. ASSUME NEW c \in Conns, NEW u \in Tasks, NEW k \in Tokens, ClaimTask(c, u, k)
      PROVE  task'[t].result = task[t].result /\ task'[t].error = task[t].error
  <2>1. ClaimEffect(c, u, k)
    BY <1>2, ClaimWrites
  <2> QED
    BY <2>1 DEF ClaimEffect
<1>3. ASSUME NEW c \in Conns, FinishCommit(c)
      PROVE  /\ txn[c].op = "finish"
             /\ task'[t].result \in {task[t].result, txn[c].token}
             /\ task'[t].error \in {task[t].error, txn[c].token}
  <2>1. FinishEffect(c)
    BY <1>3, FinishWrites
  <2> QED
    BY <1>3, <2>1 DEF FinishEffect, FinishCommit
<1>4. ASSUME NEW c \in Conns, RegisterCommit(c) PROVE task'[t] = task[t]
  BY <1>4 DEF RegisterCommit
<1>5. ASSUME NEW c \in Conns, HeartbeatCommit(c)
      PROVE  task'[t].result = task[t].result /\ task'[t].error = task[t].error
  BY <1>5, HeartbeatWrites
<1>6. CASE CleanupTasks
  BY <1>6 DEF CleanupTasks, NoTaskRow
<1>7. CASE CleanupWorkers \/ UNCHANGED <<task, worker, grant>>
  BY <1>7 DEF CleanupWorkers
<1> QED
  BY <1>1, <1>2, <1>3, <1>4, <1>5, <1>6, <1>7, StepCases DEF RowStep

\* A step gives nobody a claim that was over, and delivers nothing under it.
LEMMA OverStep ==
    ASSUME TypeOK, [Next]_vars, NEW k \in Tokens, Over(k)
    PROVE  /\ Over(k)'
           /\ \A t \in Tasks : /\ task'[t].result = k => task[t].result = k
                               /\ task'[t].error = k => task[t].error = k
<1> USE NoneIsNothing
<1>1. grant'[k].task # None
  BY GrantsPersist DEF Over, Issued
<1>2. ASSUME NEW t \in Tasks, task'[t].status = "claimed", task'[t].token = k
      PROVE  FALSE
  BY <1>2, ClaimedBefore DEF Over, InUse
<1>3. ASSUME NEW c \in Conns, txn'[c].op = "finish", txn'[c].token = k
      PROVE  FALSE
  <2>1. txn'[c] # txn[c]
    BY <1>3 DEF Over, InUse
  <2>2. /\ txn'[c].task \in Tasks
        /\ task[txn'[c].task].status = "claimed"
        /\ task[txn'[c].task].token = k
    BY <1>3, <2>1, RequestSteps DEF NewlyGrounded
  <2> QED
    BY <2>2 DEF Over, InUse
<1>4. Over(k)'
  BY <1>1, <1>2, <1>3 DEF Over, InUse, Issued
<1>5. \A c \in Conns : txn[c].op = "finish" => txn[c].token # k
  BY DEF Over, InUse
<1>6. ASSUME NEW t \in Tasks
      PROVE  /\ task'[t].result = k => task[t].result = k
             /\ task'[t].error = k => task[t].error = k
  BY <1>5, OutcomeCases
<1> QED
  BY <1>4, <1>6

\* README, "Claim tokens": however many requests overlap, a claim that was
\* lost or finished stays over from the moment that the requests which had
\* passed the check with its token are over: nobody holds a task with it
\* again, no request passes the check with it, no outcome comes under it.
THEOREM OverClaimsAreOver == Spec => OverClaimStaysOver
<1>1. TypeOK /\ [Next]_vars =>
        [\A k \in Tokens : Over(k) =>
           /\ Over(k)'
           /\ \A t \in Tasks : /\ task'[t].result = k => task[t].result = k
                               /\ task'[t].error = k => task[t].error = k]_vars
  BY OverStep
<1> QED
  BY <1>1, TypeCorrect, PTL DEF Spec, OverClaimStaysOver

-----------------------------------------------------------------------------
(* A row that is settled.                                                  *)

\* Only the sweep writes a finished row that no request is going to write.
LEMMA SettledStays ==
    ASSUME TypeOK, [Next]_vars, NEW t \in Tasks,
           task[t].status \in Terminal, ~WritePending(t)
    PROVE  task'[t] = task[t] \/ task'[t].status = "deleted"
<1>1. ASSUME NEW u \in Tasks, NEW term \in LeaseTerms, NEW retention \in Retentions,
             SubmitTask(u, term, retention)
      PROVE  task'[t] = task[t]
  BY <1>1 DEF SubmitTask, TypeOK, Terminal
<1>2. ASSUME NEW c \in Conns, NEW u \in Tasks, NEW k \in Tokens, ClaimTask(c, u, k)
      PROVE  task'[t] = task[t]
  <2>1. ClaimEffect(c, u, k)
    BY <1>2, ClaimWrites
  <2> QED
    BY <2>1 DEF ClaimEffect, Terminal
<1>3. ASSUME NEW c \in Conns, FinishCommit(c) PROVE task'[t] = task[t]
  <2>1. FinishEffect(c)
    BY <1>3, FinishWrites
  <2>2. txn[c].task # t
    BY <1>3 DEF FinishCommit, WritePending
  <2> QED
    BY <2>1, <2>2 DEF FinishEffect
<1>4. ASSUME NEW c \in Conns, RegisterCommit(c) PROVE task'[t] = task[t]
  BY <1>4 DEF RegisterCommit
<1>5. ASSUME NEW c \in Conns, HeartbeatCommit(c) PROVE task'[t] = task[t]
  <2>1. txn[c].task # t
    BY <1>5 DEF HeartbeatCommit, WritePending
  <2> QED
    BY <1>5, <2>1 DEF HeartbeatCommit, TypeOK
<1>6. CASE CleanupTasks
  BY <1>6 DEF CleanupTasks, NoTaskRow
<1>7. CASE CleanupWorkers \/ UNCHANGED <<task, worker, grant>>
  BY <1>7 DEF CleanupWorkers
<1> QED
  BY <1>1, <1>2, <1>3, <1>4, <1>5, <1>6, <1>7, StepCases DEF RowStep

\* No request on a finished row passes its checks.
LEMMA NoNewWriter ==
    ASSUME TypeOK, [Next]_vars, NEW t \in Tasks,
           task[t].status \in Terminal, ~WritePending(t)
    PROVE  ~WritePending(t)'
<1> SUFFICES ASSUME NEW d \in Conns, txn'[d].op \in {"finish", "heartbeat"},
                    txn'[d].task = t
             PROVE  FALSE
  BY DEF WritePending
<1>1. txn'[d] # txn[d]
  BY DEF WritePending
<1>2. CASE txn'[d].op = "finish"
  <2>1. task[t].status = "claimed"
    BY <1>1, <1>2, RequestSteps DEF NewlyGrounded
  <2> QED
    BY <2>1 DEF Terminal
<1>3. CASE txn'[d].op = "heartbeat"
  <2>1. task[t].status = "claimed"
    BY <1>1, <1>3, HeartbeatRequests, NoneIsNothing DEF HeartbeatChecked
  <2> QED
    BY <2>1 DEF Terminal
<1> QED
  BY <1>2, <1>3

\* models.py, "queued -> claimed -> done | failed": once the finishes and
\* heartbeats that overlapped the end of a task are over, its row, outcome,
\* stage and lease included, is what every reader will find until the sweep.
THEOREM SettledRowsAreFinal == Spec => SettledRowIsFinal
<1>1. TypeOK /\ [Next]_vars =>
        [\A t \in Tasks :
           task[t].status \in Terminal /\ ~WritePending(t) =>
               /\ ~WritePending(t)'
               /\ task'[t] = task[t] \/ task'[t].status = "deleted"]_vars
  BY SettledStays, NoNewWriter
<1> QED
  BY <1>1, TypeCorrect, PTL DEF Spec, SettledRowIsFinal

-----------------------------------------------------------------------------
(* A session that was replaced.                                            *)

\* A heartbeat under way will write the session it compared, or none.
SessionsKept ==
    \A c \in Conns : txn[c].op = "heartbeat" => txn[c].new.session = txn[c].old.session

LEMMA SessionsInvariant == Spec => [](TypeOK /\ SessionsKept)
<1>1. Init => SessionsKept
  BY DEF Init, SessionsKept, NoTxn
<1>2. TypeOK /\ SessionsKept /\ [Next]_vars => SessionsKept'
  BY HeartbeatRequests DEF SessionsKept, HeartbeatChecked
<1> QED
  BY <1>1, <1>2, TypeCorrect, PTL DEF Spec

\* worker_service.py, "session was replaced by a newer process": however late
\* its heartbeats commit, only a registration brings a session into a row.
THEOREM ReplacedSessionsStayOut == Spec => ReplacedSessionStaysOut
<1>1. TypeOK /\ SessionsKept /\ [Next]_vars =>
        [\A w \in Workers :
           worker'[w].session \notin {worker[w].session, None} =>
               \E c \in Conns : /\ txn[c].op = "register" /\ Free(c)'
                                /\ txn[c].worker = w
                                /\ txn[c].new.session = worker'[w].session]_vars
  <2> SUFFICES ASSUME TypeOK, SessionsKept, [Next]_vars, NEW w \in Workers,
                      worker'[w].session \notin {worker[w].session, None}
               PROVE  \E c \in Conns : /\ txn[c].op = "register" /\ Free(c)'
                                       /\ txn[c].worker = w
                                       /\ txn[c].new.session = worker'[w].session
    OBVIOUS
  <2>1. ASSUME NEW c \in Conns, RegisterCommit(c)
        PROVE  /\ txn[c].op = "register" /\ Free(c)'
               /\ txn[c].worker = w
               /\ txn[c].new.session = worker'[w].session
    <3> DEFINE v == txn[c].worker
               old == txn[c].old
               new == txn[c].new
    <3>1. txn[c].op = "register" /\ v \in Workers
      BY <2>1, TxnShapes DEF RegisterCommit
    <3>2. /\ worker'[v] = IF old.session = None THEN new ELSE MergeWorker(worker[v], old, new)
          /\ \A u \in Workers \ {v} : worker'[u] = worker[u]
      BY <2>1, <3>1 DEF RegisterCommit, TypeOK
    <3>3. txn'[c].op = "idle"
      BY <2>1 DEF RegisterCommit, End, NoTxn, TypeOK
    <3> HIDE DEF v, old, new
    <3>4. w = v
      BY <3>2
    <3>5. new.session = worker'[w].session
      BY <3>2, <3>4 DEF MergeWorker, Dirty
    <3> QED
      BY <3>1, <3>3, <3>4, <3>5 DEF Free, v, new
  <2>2. ASSUME NEW c \in Conns, HeartbeatCommit(c) PROVE FALSE
    <3> DEFINE v == txn[c].worker
               old == txn[c].old
               new == txn[c].new
    <3>1. v \in Workers
      BY <2>2, TxnShapes DEF HeartbeatCommit
    <3>2. /\ worker'[v] = MergeWorker(worker[v], old, new)
          /\ \A u \in Workers \ {v} : worker'[u] = worker[u]
      BY <2>2, <3>1 DEF HeartbeatCommit, TypeOK
    <3>3. new.session = old.session
      BY <2>2 DEF HeartbeatCommit, SessionsKept
    <3> HIDE DEF v, old, new
    <3> QED
      BY <3>2, <3>3 DEF MergeWorker, Dirty
  <2>3. CASE CleanupTasks
    BY <2>3 DEF CleanupTasks, TypeOK, WorkerRow
  <2>4. CASE CleanupWorkers
    BY <2>4 DEF CleanupWorkers, NoWorkerRow
  <2>5. ASSUME NEW t \in Tasks, NEW term \in LeaseTerms, NEW retention \in Retentions,
               SubmitTask(t, term, retention)
        PROVE  FALSE
    BY <2>5 DEF SubmitTask
  <2>6. ASSUME NEW c \in Conns, NEW t \in Tasks, NEW k \in Tokens, ClaimTask(c, t, k)
        PROVE  FALSE
    BY <2>6 DEF ClaimTask
  <2>7. ASSUME NEW c \in Conns, FinishCommit(c) PROVE FALSE
    BY <2>7 DEF FinishCommit
  <2> QED
    BY <2>1, <2>2, <2>3, <2>4, <2>5, <2>6, <2>7, StepCases DEF RowStep
<1> QED
  BY <1>1, SessionsInvariant, PTL DEF Spec, ReplacedSessionStaysOut
=============================================================================
