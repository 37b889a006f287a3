-------------------------- MODULE TaskQueueProofs --------------------------
(* Theorems about TaskQueue, for every value of its constants: any number  *)
(* of tasks, workers, sessions, claims and overlapping requests, and no    *)
(* bound on the clock that matters; and the proof that it implements       *)
(* TaskLifecycle.                                                          *)
EXTENDS TaskQueueRefinement, TLAPS

\* None is no task, worker, session, user or token, and not a number.
LEMMA NoneIsNothing ==
    /\ None \notin Tasks
    /\ None \notin Workers
    /\ None \notin Sessions
    /\ None \notin Users
    /\ None \notin Tokens
    /\ None \notin Nat
  BY NoneAssumption

\* The row of a task before its INSERT and after its DELETE is well formed.
LEMMA NoTaskRowType == ASSUME NEW s \in Statuses PROVE NoTaskRow(s) \in TaskRow
  BY DEF NoTaskRow, TaskRow

\* A merge of well formed worker rows is a well formed worker row.
LEMMA MergeWorkerType ==
    ASSUME NEW row \in WorkerRow, NEW old \in WorkerRow, NEW new \in WorkerRow
    PROVE  MergeWorker(row, old, new) \in WorkerRow
  BY DEF MergeWorker, Dirty, WorkerRow

\* What the claim query writes on a row is well formed.
LEMMA ClaimedType ==
    ASSUME NEW row \in TaskRow, NEW w \in Workers, NEW k \in Tokens, NEW at \in Nat,
           NEW lease \in Nat \cup {None}
    PROVE  /\ Reclaimed(row) \in TaskRow
           /\ Claimed(row, w, k, at, lease) \in TaskRow
<1>1. Reclaimed(row) \in TaskRow
  BY DEF Reclaimed, TaskRow, Statuses
<1>2. at + (IF lease = None THEN row.term ELSE lease) \in Nat
  BY DEF TaskRow
<1>3. Claimed(row, w, k, at, lease) \in TaskRow
  BY <1>2 DEF Claimed, TaskRow, Statuses
<1> QED
  BY <1>1, <1>3

\* What complete_task and fail_task write on a row is well formed.
LEMMA FinishedType ==
    ASSUME NEW row \in TaskRow, NEW k \in Tokens, NEW outcome \in Outcomes
    PROVE  Finished(row, k, outcome) \in TaskRow
  BY DEF Finished, TaskRow, Statuses, Outcomes, Terminal

\* What the reclaim and the claim write, column by column.
LEMMA ClaimedFields ==
    ASSUME NEW row \in TaskRow, NEW w \in Workers, NEW k \in Tokens, NEW at \in Nat,
           NEW lease \in Nat \cup {None}
    PROVE  /\ Reclaimed(row).status = "queued"
           /\ Reclaimed(row).token = None
           /\ Reclaimed(row).claimedBy = None
           /\ Reclaimed(row).result = row.result
           /\ Reclaimed(row).error = row.error
           /\ Claimed(row, w, k, at, lease).status = "claimed"
           /\ Claimed(row, w, k, at, lease).token = k
           /\ Claimed(row, w, k, at, lease).claimedBy = w
           /\ Claimed(row, w, k, at, lease).lease \in Nat
           /\ Claimed(row, w, k, at, lease).result = row.result
           /\ Claimed(row, w, k, at, lease).error = row.error
<1>1. at + (IF lease = None THEN row.term ELSE lease) \in Nat
  BY DEF TaskRow
<1> QED
  BY <1>1 DEF Reclaimed, Claimed, TaskRow

\* ... and a finish makes the row terminal with the same claim, and one more outcome.
LEMMA FinishedFields ==
    ASSUME NEW row \in TaskRow, NEW k \in Tokens, NEW outcome \in Outcomes
    PROVE  /\ Finished(row, k, outcome).status = outcome
           /\ Finished(row, k, outcome).token = row.token
           /\ Finished(row, k, outcome).result = IF outcome = "done" THEN k ELSE row.result
           /\ Finished(row, k, outcome).error = IF outcome = "failed" THEN k ELSE row.error
<1>1. CASE outcome = "done"
  BY <1>1 DEF Finished, TaskRow
<1>2. CASE outcome = "failed"
  BY <1>2 DEF Finished, TaskRow
<1> QED
  BY <1>1, <1>2 DEF Outcomes, Terminal

Txn == ClaimTxn \cup FinishTxn \cup HeartbeatTxn \cup RegisterTxn \cup IdleTxn

LEMMA NoTxnType == NoTxn \in Txn
  BY DEF NoTxn, Txn, IdleTxn

\* A connection that ends its request, or begins a well formed one, keeps
\* the requests well formed.
LEMMA TxnSteps ==
    ASSUME txn \in [Conns -> Txn], NEW c \in Conns
    PROVE  /\ End(c) => txn' \in [Conns -> Txn]
           /\ \A request \in Txn : Begin(c, request) => txn' \in [Conns -> Txn]
  BY NoTxnType DEF End, Begin

-----------------------------------------------------------------------------
\* The rows and the requests in progress always have the shape of their
\* tables: no step of any request, sweep or crash writes anything else.
THEOREM TypeCorrect == Spec => []TypeOK
<1>1. Init => TypeOK
  BY NoneIsNothing, TimingAssumption DEF Init, TypeOK, NoTaskRow, NoWorkerRow, TaskRow,
     WorkerRow, Statuses, NoTxn, IdleTxn, Grant, NoGrant
<1>2. TypeOK /\ [Next]_vars => TypeOK'
  <2> SUFFICES ASSUME TypeOK, [Next]_vars PROVE TypeOK'
    OBVIOUS
  <2> USE DEF TypeOK
  <2>0. txn \in [Conns -> Txn]
    BY DEF Txn
  <2>1. ASSUME NEW t \in Tasks, NEW term \in LeaseTerms, NEW retention \in Retentions,
               SubmitTask(t, term, retention)
        PROVE  TypeOK'
    <3>1. term \in Nat /\ now + retention \in Nat
      BY TimingAssumption
    <3>2. [NoTaskRow("queued") EXCEPT !.term = term, !.created = now,
                                      !.expires = now + retention] \in TaskRow
      BY <3>1 DEF NoTaskRow, TaskRow, Statuses
    <3> QED
      BY <2>1, <3>2 DEF SubmitTask
  <2>2. ASSUME NEW c \in Conns, NEW w \in Workers, NEW caller \in Callers,
               NEW lease \in Overrides, ClaimNext(c, w, caller, lease)
        PROVE  TypeOK'
    <3>1. [op |-> "claim", worker |-> w, at |-> now, lease |-> lease] \in Txn
      BY TimingAssumption DEF Txn, ClaimTxn
    <3> QED
      BY <2>2, <2>0, <3>1, TxnSteps DEF ClaimNext, Txn
  <2>3. ASSUME NEW c \in Conns, NEW t \in Tasks, NEW k \in Tokens, ClaimTask(c, t, k)
        PROVE  TypeOK'
    <3>1. txn[c] \in ClaimTxn
      BY <2>3 DEF ClaimTask, ClaimTxn, FinishTxn, HeartbeatTxn, RegisterTxn, IdleTxn
    <3>2. txn[c].worker \in Workers /\ txn[c].at \in Nat /\ txn[c].lease \in Nat \cup {None}
      BY <3>1 DEF ClaimTxn
    <3>3. task' \in [Tasks -> TaskRow]
      BY <2>3, <3>2, ClaimedType DEF ClaimTask
    <3>4. grant' \in [Tokens -> Grant]
      BY <2>3, <3>2 DEF ClaimTask, Grant
    <3> QED
      BY <2>3, <2>0, <3>3, <3>4, TxnSteps DEF ClaimTask, Txn
  <2>4. ASSUME NEW c \in Conns, ClaimNothing(c) PROVE TypeOK'
    BY <2>4, <2>0, TxnSteps DEF ClaimNothing, Txn
  <2>5. ASSUME NEW c \in Conns, NEW t \in Tasks, NEW k \in Tokens,
               NEW outcome \in Outcomes, CheckClaim(c, t, k, outcome)
        PROVE  TypeOK'
    <3>1. [op |-> "finish", task |-> t, token |-> k, outcome |-> outcome] \in Txn
      BY DEF Txn, FinishTxn
    <3> QED
      BY <2>5, <2>0, <3>1, TxnSteps DEF CheckClaim, BeginFinish, Txn
  <2>6. ASSUME NEW c \in Conns, FinishCommit(c) PROVE TypeOK'
    <3>1. txn[c] \in FinishTxn
      BY <2>6 DEF FinishCommit, ClaimTxn, FinishTxn, HeartbeatTxn, RegisterTxn, IdleTxn
    <3>2. txn[c].task \in Tasks /\ txn[c].token \in Tokens /\ txn[c].outcome \in Outcomes
      BY <3>1 DEF FinishTxn
    <3>3. task' \in [Tasks -> TaskRow]
      BY <2>6, <3>2, FinishedType DEF FinishCommit
    <3> QED
      BY <2>6, <2>0, <3>3, TxnSteps DEF FinishCommit, Txn
  <2>7. ASSUME NEW c \in Conns, NEW w \in Workers, NEW s \in Sessions, Register(c, w, s)
        PROVE  TypeOK'
    <3> DEFINE new == [session |-> s, owner |-> KeyOwner[s], state |-> "idle",
                       current |-> None, last |-> now]
    <3>1. new \in WorkerRow
      BY NamingAssumption DEF WorkerRow
    <3>2. [op |-> "register", worker |-> w, old |-> worker[w], new |-> new] \in Txn
      BY <3>1 DEF Txn, RegisterTxn
    <3> QED
      BY <2>7, <2>0, <3>2, TxnSteps DEF Register, BeginRegister, Txn
  <2>8. ASSUME NEW c \in Conns, RegisterCommit(c) PROVE TypeOK'
    <3>1. txn[c] \in RegisterTxn
      BY <2>8 DEF RegisterCommit, ClaimTxn, FinishTxn, HeartbeatTxn, RegisterTxn, IdleTxn
    <3>2. txn[c].worker \in Workers /\ txn[c].old \in WorkerRow /\ txn[c].new \in WorkerRow
      BY <3>1 DEF RegisterTxn
    <3>3. worker' \in [Workers -> WorkerRow]
      BY <2>8, <3>2, MergeWorkerType DEF RegisterCommit
    <3> QED
      BY <2>8, <2>0, <3>3, TxnSteps DEF RegisterCommit, Txn
  <2>9. ASSUME NEW c \in Conns, NEW w \in Workers, NEW s \in Sessions,
               NEW state \in {"idle", "busy"}, NEW t \in Tasks \cup {None},
               NEW k \in Tokens, NEW stage \in Stages,
               Heartbeat(c, w, s, state, t, k, stage)
        PROVE  TypeOK'
    <3> DEFINE new == [worker[w] EXCEPT !.state = state, !.current = t, !.last = now]
               oldStage == IF t = None THEN None ELSE task[t].stage
               newStage == IF t = None THEN None ELSE stage
    <3>1. new \in WorkerRow
      BY DEF WorkerRow
    <3>2. /\ oldStage \in Stages \cup {"claimed", "complete", "failed", None}
          /\ newStage \in Stages \cup {None}
      BY DEF TaskRow
    <3>3. now + ActiveLease \in Nat
      BY TimingAssumption
    <3>4. [op |-> "heartbeat", worker |-> w, old |-> worker[w], new |-> new, task |-> t,
           oldStage |-> oldStage, newStage |-> newStage, lease |-> now + ActiveLease]
             \in HeartbeatTxn
      BY <3>1, <3>2, <3>3 DEF HeartbeatTxn
    <3> QED
      BY <2>9, <2>0, <3>4, TxnSteps DEF Heartbeat, Txn
  <2>10. ASSUME NEW c \in Conns, HeartbeatCommit(c) PROVE TypeOK'
    <3>1. txn[c] \in HeartbeatTxn
      BY <2>10 DEF HeartbeatCommit, ClaimTxn, FinishTxn, HeartbeatTxn, RegisterTxn, IdleTxn
    <3>2. /\ txn[c].worker \in Workers
          /\ txn[c].old \in WorkerRow /\ txn[c].new \in WorkerRow
          /\ txn[c].task \in Tasks \cup {None}
          /\ txn[c].newStage \in Stages \cup {None}
          /\ txn[c].lease \in Nat
      BY <3>1 DEF HeartbeatTxn
    <3>3. worker' \in [Workers -> WorkerRow]
      BY <2>10, <3>2, MergeWorkerType DEF HeartbeatCommit
    <3>4. task' \in [Tasks -> TaskRow]
      <4>1. CASE txn[c].task = None
        BY <2>10, <4>1 DEF HeartbeatCommit
      <4>2. CASE txn[c].task \in Tasks
        <5> DEFINE t == txn[c].task
                   stage == Dirty(task[t].stage, txn[c].oldStage, txn[c].newStage)
                   new == [task[t] EXCEPT !.stage = stage, !.lease = txn[c].lease]
        <5>1. task' = [task EXCEPT ![t] = new]
          BY <2>10, <4>2, NoneIsNothing DEF HeartbeatCommit
        <5>2. task[t] \in TaskRow /\ txn[c].newStage \in Stages \cup {None}
          BY <3>2, <4>2
        <5>3. stage = task[t].stage \/ stage = txn[c].newStage
          BY DEF Dirty
        <5> HIDE DEF stage
        <5>4. new \in TaskRow
          BY <3>2, <5>2, <5>3 DEF TaskRow
        <5> QED
          BY <5>1, <5>4
      <4> QED
        BY <3>2, <4>1, <4>2
    <3> QED
      BY <2>10, <2>0, <3>3, <3>4, TxnSteps DEF HeartbeatCommit, Txn
  <2>11. ASSUME NEW c \in Conns, Rollback(c) PROVE TypeOK'
    BY <2>11, <2>0, TxnSteps DEF Rollback, Txn
  <2>12. CASE CleanupTasks
    <3>1. NoTaskRow("deleted") \in TaskRow
      BY NoTaskRowType DEF Statuses
    <3>2. worker' \in [Workers -> WorkerRow]
      BY <2>12 DEF CleanupTasks, WorkerRow
    <3> QED
      BY <2>12, <3>1, <3>2 DEF CleanupTasks
  <2>13. CASE CleanupWorkers
    <3>1. NoWorkerRow \in WorkerRow
      BY DEF NoWorkerRow, WorkerRow
    <3> QED
      BY <2>13, <3>1 DEF CleanupWorkers
  <2>14. CASE Tick
    BY <2>14 DEF Tick
  <2>15. CASE UNCHANGED vars
    BY <2>15 DEF vars
  <2> QED
    BY <2>1, <2>2, <2>3, <2>4, <2>5, <2>6, <2>7, <2>8, <2>9, <2>10, <2>11, <2>12,
       <2>13, <2>14, <2>15
       DEF Next, Producer, Claiming, Finishing, Reporting, CompleteTask, FailTask,
           Outcomes, Terminal
<1> QED
  BY <1>1, <1>2, PTL DEF Spec
-----------------------------------------------------------------------------
(* The safety invariants.  A request in progress has checked the row it    *)
(* will write; what survives of that check until its commit, whatever      *)
(* happens in between, is all the invariants can rest on.                  *)

\* A finish was checked against a claim of its task; a heartbeat reports the
\* task it checked, a registration none.
RequestsAreGrounded ==
    \A c \in Conns :
        /\ txn[c].op = "finish" => grant[txn[c].token].task = txn[c].task
        /\ txn[c].op = "heartbeat" => txn[c].new.current = txn[c].task
        /\ txn[c].op = "register" => txn[c].new.current = None

QueueInv ==
    /\ TypeOK
    /\ ClaimsMatchGrants
    /\ OutcomeFromOwnGrant
    /\ CurrentTaskExists
    /\ RequestsAreGrounded

\* The steps that write a row.
RowStep ==
    \/ \E t \in Tasks, term \in LeaseTerms, retention \in Retentions :
           SubmitTask(t, term, retention)
    \/ \E c \in Conns, t \in Tasks, k \in Tokens : ClaimTask(c, t, k)
    \/ \E c \in Conns : FinishCommit(c)
    \/ \E c \in Conns : RegisterCommit(c)
    \/ \E c \in Conns : HeartbeatCommit(c)
    \/ CleanupTasks
    \/ CleanupWorkers

\* Every other step leaves the rows and the claims alone.
LEMMA StepCases ==
    ASSUME [Next]_vars
    PROVE  RowStep \/ UNCHANGED <<task, worker, grant>>
<1>1. CASE Producer
  BY <1>1 DEF Producer, RowStep
<1>2. ASSUME NEW c \in Conns, Claiming(c)
      PROVE  RowStep \/ UNCHANGED <<task, worker, grant>>
  BY <1>2 DEF Claiming, ClaimNext, ClaimNothing, RowStep
<1>3. ASSUME NEW c \in Conns, Finishing(c)
      PROVE  RowStep \/ UNCHANGED <<task, worker, grant>>
  BY <1>3 DEF Finishing, CompleteTask, FailTask, CheckClaim, BeginFinish, RowStep
<1>4. ASSUME NEW c \in Conns, Reporting(c)
      PROVE  RowStep \/ UNCHANGED <<task, worker, grant>>
  <2>1. ASSUME NEW w \in Workers, NEW s \in Sessions, Register(c, w, s)
        PROVE  UNCHANGED <<task, worker, grant>>
    BY <2>1 DEF Register, BeginRegister
  <2>2. ASSUME NEW w \in Workers, NEW s \in Sessions, NEW state \in {"idle", "busy"},
               NEW t \in Tasks \cup {None}, NEW k \in Tokens, NEW stage \in Stages,
               Heartbeat(c, w, s, state, t, k, stage)
        PROVE  UNCHANGED <<task, worker, grant>>
    BY <2>2 DEF Heartbeat
  <2> QED
    BY <1>4, <2>1, <2>2 DEF Reporting, RowStep
<1>5. ASSUME NEW c \in Conns, Rollback(c) PROVE UNCHANGED <<task, worker, grant>>
  BY <1>5 DEF Rollback
<1>6. CASE CleanupTasks \/ CleanupWorkers
  BY <1>6 DEF RowStep
<1>7. CASE Tick \/ UNCHANGED vars
  BY <1>7 DEF Tick, vars
<1> QED
  BY <1>1, <1>2, <1>3, <1>4, <1>5, <1>6, <1>7 DEF Next

\* What a connection holds when it is about to commit.
LEMMA TxnShapes ==
    ASSUME TypeOK, NEW c \in Conns
    PROVE  /\ txn[c].op = "claim" => /\ txn[c].worker \in Workers
                                     /\ txn[c].at \in Nat
                                     /\ txn[c].lease \in Nat \cup {None}
           /\ txn[c].op = "finish" => /\ txn[c].task \in Tasks
                                      /\ txn[c].token \in Tokens
                                      /\ txn[c].outcome \in Outcomes
           /\ txn[c].op = "heartbeat" => /\ txn[c].worker \in Workers
                                         /\ txn[c].task \in Tasks \cup {None}
                                         /\ txn[c].old \in WorkerRow
                                         /\ txn[c].new \in WorkerRow
                                         /\ txn[c].lease \in Nat
           /\ txn[c].op = "register" => /\ txn[c].worker \in Workers
                                        /\ txn[c].old \in WorkerRow
                                        /\ txn[c].new \in WorkerRow
<1>1. txn[c] \in ClaimTxn \cup FinishTxn \cup HeartbeatTxn \cup RegisterTxn \cup IdleTxn
  BY DEF TypeOK
<1>2. txn[c].op = "claim" => txn[c] \in ClaimTxn
  BY <1>1 DEF ClaimTxn, FinishTxn, HeartbeatTxn, RegisterTxn, IdleTxn
<1>3. txn[c].op = "finish" => txn[c] \in FinishTxn
  BY <1>1 DEF ClaimTxn, FinishTxn, HeartbeatTxn, RegisterTxn, IdleTxn
<1>4. txn[c].op = "heartbeat" => txn[c] \in HeartbeatTxn
  BY <1>1 DEF ClaimTxn, FinishTxn, HeartbeatTxn, RegisterTxn, IdleTxn
<1>5. txn[c].op = "register" => txn[c] \in RegisterTxn
  BY <1>1 DEF ClaimTxn, FinishTxn, HeartbeatTxn, RegisterTxn, IdleTxn
<1> QED
  BY <1>2, <1>3, <1>4, <1>5 DEF ClaimTxn, FinishTxn, HeartbeatTxn, RegisterTxn

\* An issued token keeps its claim for ever, and claims are only added.
LEMMA GrantsPersist ==
    ASSUME TypeOK, [Next]_vars
    PROVE  \A k \in Tokens : Issued(k) => grant'[k] = grant[k]
<1>1. CASE RowStep
  BY <1>1 DEF RowStep, SubmitTask, ClaimTask, FinishCommit, RegisterCommit,
     HeartbeatCommit, CleanupTasks, CleanupWorkers, Issued, TypeOK
<1>2. CASE UNCHANGED <<task, worker, grant>>
  BY <1>2
<1> QED
  BY <1>1, <1>2, StepCases

\* A claim writes the row it takes and the rows it reclaims on its way.
ClaimEffect(c, t, k) ==
    /\ ~Issued(k)
    /\ txn[c].worker \in Workers
    /\ grant'[k] = [task |-> t, worker |-> txn[c].worker]
    /\ task[t].status \in {"queued", "claimed"}
    /\ task'[t].status = "claimed"
    /\ task'[t].token = k
    /\ task'[t].claimedBy = txn[c].worker
    /\ task'[t].lease \in Nat
    /\ task'[t].result = task[t].result
    /\ task'[t].error = task[t].error
    /\ \A u \in Tasks : u # t =>
         \/ task'[u] = task[u]
         \/ /\ task[u].status = "claimed"
            /\ task'[u].status = "queued"
            /\ task'[u].token = None
            /\ task'[u].claimedBy = None
            /\ task'[u].result = task[u].result
            /\ task'[u].error = task[u].error

LEMMA ClaimWrites ==
    ASSUME TypeOK, NEW c \in Conns, NEW t \in Tasks, NEW k \in Tokens, ClaimTask(c, t, k)
    PROVE  ClaimEffect(c, t, k)
<1>1. /\ txn[c].worker \in Workers
      /\ txn[c].at \in Nat
      /\ txn[c].lease \in Nat \cup {None}
  BY TxnShapes DEF ClaimTask
<1>2. /\ task'[t] = Claimed(Reclaimed(task[t]), txn[c].worker, k, txn[c].at, txn[c].lease)
      /\ grant'[k] = [task |-> t, worker |-> txn[c].worker]
      /\ ~Issued(k)
      /\ task[t].status \in {"queued", "claimed"}
  BY DEF ClaimTask, Candidates, Overdue, TypeOK
<1>3. task[t] \in TaskRow /\ Reclaimed(task[t]) \in TaskRow
  BY <1>1, ClaimedType DEF TypeOK
<1>4. ASSUME NEW u \in Tasks, u # t
      PROVE  \/ task'[u] = task[u]
             \/ task[u].status = "claimed" /\ task'[u] = Reclaimed(task[u])
  BY <1>4 DEF ClaimTask, Overdue
<1>5. ASSUME NEW u \in Tasks
      PROVE  /\ Reclaimed(task[u]).status = "queued"
             /\ Reclaimed(task[u]).token = None
             /\ Reclaimed(task[u]).claimedBy = None
             /\ Reclaimed(task[u]).result = task[u].result
             /\ Reclaimed(task[u]).error = task[u].error
  BY <1>1, ClaimedFields DEF TypeOK
<1>6. /\ task'[t].status = "claimed"
      /\ task'[t].token = k
      /\ task'[t].claimedBy = txn[c].worker
      /\ task'[t].lease \in Nat
      /\ task'[t].result = task[t].result
      /\ task'[t].error = task[t].error
  <2> DEFINE row == Reclaimed(task[t])
             new == Claimed(row, txn[c].worker, k, txn[c].at, txn[c].lease)
  <2>1. /\ new.status = "claimed" /\ new.token = k /\ new.claimedBy = txn[c].worker
        /\ new.lease \in Nat /\ new.result = row.result /\ new.error = row.error
    BY <1>1, <1>3, ClaimedFields
  <2>2. row.result = task[t].result /\ row.error = task[t].error
    BY <1>5
  <2> HIDE DEF row
  <2>3. task'[t] = new
    BY <1>2 DEF row
  <2> HIDE DEF new
  <2> QED
    BY <2>1, <2>2, <2>3
<1>7. ASSUME NEW u \in Tasks, u # t
      PROVE  \/ task'[u] = task[u]
             \/ /\ task[u].status = "claimed"
                /\ task'[u].status = "queued"
                /\ task'[u].token = None
                /\ task'[u].claimedBy = None
                /\ task'[u].result = task[u].result
                /\ task'[u].error = task[u].error
  BY <1>4, <1>5, <1>7
<1> QED
  BY <1>1, <1>2, <1>6, <1>7 DEF ClaimEffect

\* A finish writes one row, whatever its status has become.
FinishEffect(c) ==
    LET t == txn[c].task
        k == txn[c].token
    IN /\ t \in Tasks /\ k \in Tokens
       /\ Present(t)
       /\ task'[t].token = task[t].token
       /\ \/ /\ task'[t].status = "done"
             /\ task'[t].result = k
             /\ task'[t].error = task[t].error
          \/ /\ task'[t].status = "failed"
             /\ task'[t].result = task[t].result
             /\ task'[t].error = k
       /\ \A u \in Tasks : u # t => task'[u] = task[u]

LEMMA FinishWrites ==
    ASSUME TypeOK, NEW c \in Conns, FinishCommit(c)
    PROVE  FinishEffect(c)
<1>1. txn[c].task \in Tasks /\ txn[c].token \in Tokens /\ txn[c].outcome \in Outcomes
  BY TxnShapes DEF FinishCommit
<1>2. /\ task'[txn[c].task] = Finished(task[txn[c].task], txn[c].token, txn[c].outcome)
      /\ Present(txn[c].task)
      /\ \A u \in Tasks : u # txn[c].task => task'[u] = task[u]
  BY <1>1 DEF FinishCommit, TypeOK
<1>3. task[txn[c].task] \in TaskRow
  BY <1>1 DEF TypeOK
<1> QED
  BY <1>1, <1>2, <1>3, FinishedFields DEF FinishEffect, Outcomes, Terminal

\* A heartbeat moves a lease and a stage, and nothing else of a task.
LEMMA HeartbeatWrites ==
    ASSUME TypeOK, NEW c \in Conns, HeartbeatCommit(c)
    PROVE  \A u \in Tasks :
               /\ task'[u].status = task[u].status
               /\ task'[u].token = task[u].token
               /\ task'[u].claimedBy = task[u].claimedBy
               /\ task'[u].result = task[u].result
               /\ task'[u].error = task[u].error
               /\ task'[u].lease = task[u].lease \/ task'[u].lease \in Nat
<1>1. txn[c].task \in Tasks \cup {None} /\ txn[c].lease \in Nat
  BY TxnShapes DEF HeartbeatCommit
<1>2. CASE txn[c].task = None
  BY <1>2 DEF HeartbeatCommit
<1>3. CASE txn[c].task \in Tasks
  <2> DEFINE t == txn[c].task
             stage == Dirty(task[t].stage, txn[c].oldStage, txn[c].newStage)
  <2>1. task' = [task EXCEPT ![t] = [@ EXCEPT !.stage = stage, !.lease = txn[c].lease]]
    BY <1>3, NoneIsNothing DEF HeartbeatCommit
  <2> HIDE DEF stage
  <2>2. /\ task'[t] = [task[t] EXCEPT !.stage = stage, !.lease = txn[c].lease]
        /\ \A u \in Tasks \ {t} : task'[u] = task[u]
    BY <1>3, <2>1 DEF TypeOK
  <2>3. task[t] \in TaskRow
    BY <1>3 DEF TypeOK
  <2>4. /\ task'[t].status = task[t].status /\ task'[t].token = task[t].token
        /\ task'[t].claimedBy = task[t].claimedBy /\ task'[t].result = task[t].result
        /\ task'[t].error = task[t].error /\ task'[t].lease = txn[c].lease
    BY <2>2, <2>3 DEF TaskRow
  <2> QED
    BY <1>1, <2>2, <2>4
<1> QED
  BY <1>1, <1>2, <1>3

LEMMA ClaimsStep ==
    ASSUME TypeOK, ClaimsMatchGrants, [Next]_vars
    PROVE  ClaimsMatchGrants'
<1> USE NoneIsNothing
<1>1. ASSUME NEW t \in Tasks, NEW term \in LeaseTerms, NEW retention \in Retentions,
             SubmitTask(t, term, retention)
      PROVE  ClaimsMatchGrants'
  BY <1>1 DEF SubmitTask, ClaimsMatchGrants, TypeOK, NoTaskRow
<1>2. ASSUME NEW c \in Conns, NEW t \in Tasks, NEW k \in Tokens, ClaimTask(c, t, k)
      PROVE  ClaimsMatchGrants'
  <2>1. ClaimEffect(c, t, k)
    BY <1>2, ClaimWrites
  <2>2. ASSUME NEW u \in Tasks, task[u].status = "claimed"
        PROVE  grant'[task[u].token] = grant[task[u].token]
    <3>1. /\ grant[task[u].token] = [task |-> u, worker |-> task[u].claimedBy]
          /\ task[u].token # None
      BY <2>2 DEF ClaimsMatchGrants
    <3>2. grant[task[u].token].task = u
      BY <3>1
    <3>3. task[u].token \in Tokens
      BY <3>1 DEF TypeOK, TaskRow
    <3> QED
      BY <3>2, <3>3, GrantsPersist DEF Issued
  <2>3. ASSUME NEW u \in Tasks, task'[u] = task[u]
        PROVE  /\ task'[u].status = "claimed" =>
                    /\ task'[u].token # None
                    /\ grant'[task'[u].token] = [task |-> u, worker |-> task'[u].claimedBy]
                    /\ task'[u].lease # None
               /\ task'[u].status = "queued" =>
                    task'[u].token = None /\ task'[u].claimedBy = None
    BY <2>2, <2>3 DEF ClaimsMatchGrants
  <2> QED
    BY <2>1, <2>3 DEF ClaimEffect, ClaimsMatchGrants
<1>3. ASSUME NEW c \in Conns, FinishCommit(c) PROVE ClaimsMatchGrants'
  <2>1. FinishEffect(c)
    BY <1>3, FinishWrites
  <2>2. task'[txn[c].task].status \in {"done", "failed"} /\ grant' = grant
    BY <1>3, <2>1 DEF FinishCommit, FinishEffect
  <2>3. \A u \in Tasks \ {txn[c].task} : task'[u] = task[u]
    BY <2>1 DEF FinishEffect
  <2> QED
    BY <2>2, <2>3 DEF ClaimsMatchGrants
<1>4. ASSUME NEW c \in Conns, RegisterCommit(c) PROVE ClaimsMatchGrants'
  BY <1>4 DEF RegisterCommit, ClaimsMatchGrants
<1>5. ASSUME NEW c \in Conns, HeartbeatCommit(c) PROVE ClaimsMatchGrants'
  BY <1>5, HeartbeatWrites DEF HeartbeatCommit, ClaimsMatchGrants
<1>6. CASE CleanupTasks
  BY <1>6 DEF CleanupTasks, ClaimsMatchGrants, NoTaskRow
<1>7. CASE CleanupWorkers
  BY <1>7 DEF CleanupWorkers, ClaimsMatchGrants
<1>8. CASE UNCHANGED <<task, worker, grant>>
  BY <1>8 DEF ClaimsMatchGrants
<1> QED
  BY <1>1, <1>2, <1>3, <1>4, <1>5, <1>6, <1>7, <1>8, StepCases DEF RowStep
LEMMA OutcomeStep ==
    ASSUME TypeOK, OutcomeFromOwnGrant, RequestsAreGrounded, [Next]_vars
    PROVE  OutcomeFromOwnGrant'
<1> USE NoneIsNothing
<1>0. ASSUME NEW u \in Tasks
      PROVE  /\ task[u].result # None => grant'[task[u].result].task = u
             /\ task[u].error # None => grant'[task[u].error].task = u
  <2>1. /\ task[u].result \in Tokens \cup {None}
        /\ task[u].error \in Tokens \cup {None}
    BY DEF TypeOK, TaskRow
  <2>2. /\ task[u].result # None => grant[task[u].result].task = u
        /\ task[u].error # None => grant[task[u].error].task = u
    BY DEF OutcomeFromOwnGrant
  <2> QED
    BY <2>1, <2>2, GrantsPersist DEF Issued
<1>1. ASSUME NEW t \in Tasks, NEW term \in LeaseTerms, NEW retention \in Retentions,
             SubmitTask(t, term, retention)
      PROVE  OutcomeFromOwnGrant'
  BY <1>1 DEF SubmitTask, OutcomeFromOwnGrant, TypeOK, NoTaskRow, Terminal
<1>2. ASSUME NEW c \in Conns, NEW t \in Tasks, NEW k \in Tokens, ClaimTask(c, t, k)
      PROVE  OutcomeFromOwnGrant'
  <2>1. ClaimEffect(c, t, k)
    BY <1>2, ClaimWrites
  <2>2. ASSUME NEW u \in Tasks
        PROVE  /\ task'[u].result = task[u].result
               /\ task'[u].error = task[u].error
               /\ \/ task'[u] = task[u]
                  \/ /\ task[u].status \in {"queued", "claimed"}
                     /\ task'[u].status \in {"queued", "claimed"}
    BY <2>1 DEF ClaimEffect
  <2> QED
    BY <1>0, <2>2 DEF OutcomeFromOwnGrant, Terminal
<1>3. ASSUME NEW c \in Conns, FinishCommit(c) PROVE OutcomeFromOwnGrant'
  <2>1. FinishEffect(c)
    BY <1>3, FinishWrites
  <2>2. grant'[txn[c].token].task = txn[c].task
    BY <1>3 DEF FinishCommit, RequestsAreGrounded
  <2>3. txn[c].token # None
    BY <2>1 DEF FinishEffect
  <2>4. ASSUME NEW u \in Tasks, u # txn[c].task PROVE task'[u] = task[u]
    BY <2>1, <2>4 DEF FinishEffect
  <2>5. ASSUME NEW u \in Tasks
        PROVE  /\ task'[u].result # None => grant'[task'[u].result].task = u
               /\ task'[u].error # None => grant'[task'[u].error].task = u
               /\ task'[u].status = "done" => task'[u].result # None
               /\ task'[u].status = "failed" => task'[u].error # None
               /\ task'[u].status \notin Terminal =>
                    task'[u].result = None /\ task'[u].error = None
    <3>1. CASE u = txn[c].task
      <4>1. PICK k \in Tokens : k = txn[c].token
        BY <2>1 DEF FinishEffect
      <4>2. k # None /\ grant'[k].task = u
        BY <2>2, <2>3, <3>1, <4>1
      <4>3. \/ /\ task'[u].status = "done"
               /\ task'[u].result = k /\ task'[u].error = task[u].error
            \/ /\ task'[u].status = "failed"
               /\ task'[u].result = task[u].result /\ task'[u].error = k
        BY <2>1, <3>1, <4>1 DEF FinishEffect
      <4> QED
        BY <1>0, <4>2, <4>3 DEF Terminal
    <3>2. CASE u # txn[c].task
      BY <1>0, <2>4, <3>2 DEF OutcomeFromOwnGrant
    <3> QED
      BY <3>1, <3>2
  <2> QED
    BY <2>5 DEF OutcomeFromOwnGrant
<1>4. ASSUME NEW c \in Conns, RegisterCommit(c) PROVE OutcomeFromOwnGrant'
  BY <1>4 DEF RegisterCommit, OutcomeFromOwnGrant
<1>5. ASSUME NEW c \in Conns, HeartbeatCommit(c) PROVE OutcomeFromOwnGrant'
  <2>1. \A u \in Tasks : /\ task'[u].status = task[u].status
                         /\ task'[u].result = task[u].result
                         /\ task'[u].error = task[u].error
    BY <1>5, HeartbeatWrites
  <2> QED
    BY <1>0, <2>1 DEF OutcomeFromOwnGrant
<1>6. CASE CleanupTasks
  BY <1>6 DEF CleanupTasks, OutcomeFromOwnGrant, NoTaskRow, Terminal
<1>7. CASE CleanupWorkers
  BY <1>7 DEF CleanupWorkers, OutcomeFromOwnGrant
<1>8. CASE UNCHANGED <<task, worker, grant>>
  BY <1>8 DEF OutcomeFromOwnGrant
<1> QED
  BY <1>1, <1>2, <1>3, <1>4, <1>5, <1>6, <1>7, <1>8, StepCases DEF RowStep

LEMMA CurrentTaskStep ==
    ASSUME TypeOK, CurrentTaskExists, RequestsAreGrounded, [Next]_vars
    PROVE  CurrentTaskExists'
<1> USE NoneIsNothing
<1>1. ASSUME NEW t \in Tasks, NEW term \in LeaseTerms, NEW retention \in Retentions,
             SubmitTask(t, term, retention)
      PROVE  CurrentTaskExists'
  BY <1>1 DEF SubmitTask, CurrentTaskExists, Present, TypeOK, NoTaskRow
<1>2. ASSUME NEW c \in Conns, NEW t \in Tasks, NEW k \in Tokens, ClaimTask(c, t, k)
      PROVE  CurrentTaskExists'
  <2>1. ClaimEffect(c, t, k)
    BY <1>2, ClaimWrites
  <2>2. \A u \in Tasks : Present(u) => Present(u)'
    BY <2>1 DEF ClaimEffect, Present
  <2>3. \A w \in Workers : worker[w].current \in Tasks \cup {None}
    BY DEF TypeOK, WorkerRow
  <2> QED
    BY <1>2, <2>2, <2>3 DEF ClaimTask, CurrentTaskExists
<1>3. ASSUME NEW c \in Conns, FinishCommit(c) PROVE CurrentTaskExists'
  <2>1. FinishEffect(c)
    BY <1>3, FinishWrites
  <2>2. \A u \in Tasks : Present(u) => Present(u)'
    BY <2>1 DEF FinishEffect, Present
  <2>3. \A w \in Workers : worker[w].current \in Tasks \cup {None}
    BY DEF TypeOK, WorkerRow
  <2> QED
    BY <1>3, <2>2, <2>3 DEF FinishCommit, CurrentTaskExists
<1>4. ASSUME NEW c \in Conns, RegisterCommit(c) PROVE CurrentTaskExists'
  <2>1. /\ txn[c].worker \in Workers
        /\ txn[c].new.current = None
    BY <1>4, TxnShapes DEF RegisterCommit, RequestsAreGrounded
  <2>2. ASSUME NEW w \in Workers
        PROVE  worker'[w].current \in {worker[w].current, None}
    BY <1>4, <2>1 DEF RegisterCommit, MergeWorker, Dirty, TypeOK
  <2> QED
    BY <1>4, <2>2 DEF RegisterCommit, CurrentTaskExists, Present
<1>5. ASSUME NEW c \in Conns, HeartbeatCommit(c) PROVE CurrentTaskExists'
  <2>1. /\ txn[c].worker \in Workers
        /\ txn[c].new.current = txn[c].task
        /\ txn[c].task # None => Present(txn[c].task)
    BY <1>5, TxnShapes DEF HeartbeatCommit, RequestsAreGrounded
  <2>2. ASSUME NEW w \in Workers
        PROVE  worker'[w].current \in {worker[w].current, txn[c].task}
    BY <1>5, <2>1 DEF HeartbeatCommit, MergeWorker, Dirty, TypeOK
  <2>3. \A u \in Tasks : Present(u) => Present(u)'
    BY <1>5, HeartbeatWrites DEF Present
  <2>4. txn[c].task \in Tasks \cup {None}
    BY <1>5, TxnShapes DEF HeartbeatCommit
  <2>5. \A w \in Workers : worker[w].current \in Tasks \cup {None}
    BY DEF TypeOK, WorkerRow
  <2> QED
    BY <2>1, <2>2, <2>3, <2>4, <2>5 DEF CurrentTaskExists
<1>6. CASE CleanupTasks
  <2> DEFINE Expired == {t \in Tasks : Present(t) /\ task[t].expires < now}
  <2>1. ASSUME NEW w \in Workers, worker'[w].current # None
        PROVE  /\ worker'[w].current = worker[w].current
               /\ worker[w].current \notin Expired
    BY <1>6, <2>1 DEF CleanupTasks, TypeOK, WorkerRow
  <2>2. \A u \in Tasks : Present(u) /\ u \notin Expired => Present(u)'
    BY <1>6 DEF CleanupTasks, Present
  <2>3. \A w \in Workers : worker[w].current \in Tasks \cup {None}
    BY DEF TypeOK, WorkerRow
  <2> QED
    BY <2>1, <2>2, <2>3 DEF CurrentTaskExists
<1>7. CASE CleanupWorkers
  BY <1>7 DEF CleanupWorkers, CurrentTaskExists, NoWorkerRow, Present
<1>8. CASE UNCHANGED <<task, worker, grant>>
  BY <1>8 DEF CurrentTaskExists, Present
<1> QED
  BY <1>1, <1>2, <1>3, <1>4, <1>5, <1>6, <1>7, <1>8, StepCases DEF RowStep
\* A step leaves a connection's request as it is, ends it, or begins one
\* that is grounded.
NewlyGrounded(d) ==
    /\ txn'[d].op = "finish" => /\ txn'[d].task \in Tasks
                                /\ task[txn'[d].task].status = "claimed"
                                /\ task[txn'[d].task].token = txn'[d].token
                                /\ UNCHANGED grant
    /\ txn'[d].op = "heartbeat" => txn'[d].new.current = txn'[d].task
    /\ txn'[d].op = "register" => txn'[d].new.current = None

LEMMA RequestSteps ==
    ASSUME TypeOK, [Next]_vars, NEW d \in Conns
    PROVE  txn'[d] = txn[d] \/ NewlyGrounded(d)
<1>0. ASSUME NEW c \in Conns, End(c) PROVE txn'[d] = txn[d] \/ txn'[d].op = "idle"
  BY <1>0 DEF End, NoTxn, TypeOK
<1>00. ASSUME NEW c \in Conns, NEW request, Begin(c, request)
       PROVE  txn'[d] = txn[d] \/ txn'[d] = request
  BY <1>00 DEF Begin, TypeOK
<1>1. CASE Producer
  BY <1>1 DEF Producer, SubmitTask
<1>2. ASSUME NEW c \in Conns, Claiming(c) PROVE txn'[d] = txn[d] \/ NewlyGrounded(d)
  <2>1. ASSUME NEW w \in Workers, NEW caller \in Callers, NEW lease \in Overrides,
               ClaimNext(c, w, caller, lease)
        PROVE  txn'[d] = txn[d] \/ txn'[d].op = "claim"
    BY <2>1, <1>00 DEF ClaimNext
  <2>2. ASSUME NEW t \in Tasks, NEW k \in Tokens, ClaimTask(c, t, k)
        PROVE  txn'[d] = txn[d] \/ txn'[d].op = "idle"
    BY <2>2, <1>0 DEF ClaimTask
  <2>3. CASE ClaimNothing(c)
    BY <2>3, <1>0 DEF ClaimNothing, NewlyGrounded
  <2> QED
    BY <1>2, <2>1, <2>2, <2>3 DEF Claiming, NewlyGrounded
<1>3. ASSUME NEW c \in Conns, Finishing(c) PROVE txn'[d] = txn[d] \/ NewlyGrounded(d)
  <2>1. ASSUME NEW t \in Tasks, NEW k \in Tokens, NEW outcome \in Outcomes,
               CheckClaim(c, t, k, outcome)
        PROVE  txn'[d] = txn[d] \/ NewlyGrounded(d)
    <3> DEFINE request == [op |-> "finish", task |-> t, token |-> k, outcome |-> outcome]
    <3>1. txn'[d] = txn[d] \/ txn'[d] = request
      BY <2>1, <1>00 DEF CheckClaim, BeginFinish
    <3>2. task[t].status = "claimed" /\ task[t].token = k /\ UNCHANGED grant
      BY <2>1 DEF CheckClaim, BeginFinish
    <3>3. request.op = "finish" /\ request.task = t /\ request.token = k
      OBVIOUS
    <3> QED
      BY <3>1, <3>2, <3>3 DEF NewlyGrounded
  <2>2. CASE FinishCommit(c)
    BY <2>2, <1>0 DEF FinishCommit, NewlyGrounded
  <2> QED
    BY <1>3, <2>1, <2>2 DEF Finishing, CompleteTask, FailTask, Outcomes, Terminal
<1>4. ASSUME NEW c \in Conns, Reporting(c) PROVE txn'[d] = txn[d] \/ NewlyGrounded(d)
  <2>1. ASSUME NEW w \in Workers, NEW s \in Sessions, Register(c, w, s)
        PROVE  txn'[d] = txn[d] \/ NewlyGrounded(d)
    <3> DEFINE new == [session |-> s, owner |-> KeyOwner[s], state |-> "idle",
                       current |-> None, last |-> now]
               request == [op |-> "register", worker |-> w, old |-> worker[w], new |-> new]
    <3>1. txn'[d] = txn[d] \/ txn'[d] = request
      BY <2>1, <1>00 DEF Register, BeginRegister
    <3>2. request.op = "register" /\ request.new.current = None
      OBVIOUS
    <3> QED
      BY <3>1, <3>2 DEF NewlyGrounded
  <2>2. ASSUME NEW w \in Workers, NEW s \in Sessions, NEW state \in {"idle", "busy"},
               NEW t \in Tasks \cup {None}, NEW k \in Tokens, NEW stage \in Stages,
               Heartbeat(c, w, s, state, t, k, stage)
        PROVE  txn'[d] = txn[d] \/ NewlyGrounded(d)
    <3> DEFINE new == [worker[w] EXCEPT !.state = state, !.current = t, !.last = now]
               request ==
                 [op |-> "heartbeat", worker |-> w, old |-> worker[w], new |-> new,
                  task |-> t,
                  oldStage |-> IF t = None THEN None ELSE task[t].stage,
                  newStage |-> IF t = None THEN None ELSE stage,
                  lease |-> now + ActiveLease]
    <3>1. txn'[d] = txn[d] \/ txn'[d] = request
      BY <2>2, <1>00 DEF Heartbeat
    <3>2. new.current = t
      BY DEF TypeOK, WorkerRow
    <3> HIDE DEF new
    <3>3. request.op = "heartbeat" /\ request.new = new /\ request.task = t
      OBVIOUS
    <3> QED
      BY <3>1, <3>2, <3>3 DEF NewlyGrounded
  <2>3. CASE RegisterCommit(c) \/ HeartbeatCommit(c)
    BY <2>3, <1>0 DEF RegisterCommit, HeartbeatCommit, NewlyGrounded
  <2> QED
    BY <1>4, <2>1, <2>2, <2>3 DEF Reporting
<1>5. ASSUME NEW c \in Conns, Rollback(c) PROVE txn'[d] = txn[d] \/ NewlyGrounded(d)
  BY <1>5, <1>0 DEF Rollback, NewlyGrounded
<1>6. CASE CleanupTasks \/ CleanupWorkers \/ Tick \/ UNCHANGED vars
  BY <1>6 DEF CleanupTasks, CleanupWorkers, Tick, vars
<1> QED
  BY <1>1, <1>2, <1>3, <1>4, <1>5, <1>6 DEF Next

LEMMA RequestsStep ==
    ASSUME TypeOK, ClaimsMatchGrants, RequestsAreGrounded, [Next]_vars
    PROVE  RequestsAreGrounded'
<1> USE NoneIsNothing
<1>1. ASSUME NEW d \in Conns
      PROVE  /\ txn'[d].op = "finish" => grant'[txn'[d].token].task = txn'[d].task
             /\ txn'[d].op = "heartbeat" => txn'[d].new.current = txn'[d].task
             /\ txn'[d].op = "register" => txn'[d].new.current = None
  <2>1. CASE txn'[d] = txn[d]
    <3>1. txn[d].op = "finish" => grant'[txn[d].token] = grant[txn[d].token]
      BY TxnShapes, GrantsPersist DEF RequestsAreGrounded, Issued
    <3> QED
      BY <2>1, <3>1 DEF RequestsAreGrounded
  <2>2. CASE NewlyGrounded(d)
    <3>1. ASSUME txn'[d].op = "finish"
          PROVE  grant'[txn'[d].token].task = txn'[d].task
      <4> DEFINE t == txn'[d].task
      <4>1. /\ t \in Tasks
            /\ task[t].status = "claimed" /\ task[t].token = txn'[d].token
            /\ UNCHANGED grant
        BY <2>2, <3>1 DEF NewlyGrounded
      <4> HIDE DEF t
      <4>2. grant[task[t].token] = [task |-> t, worker |-> task[t].claimedBy]
        BY <4>1 DEF ClaimsMatchGrants
      <4>3. grant[task[t].token].task = t
        BY <4>2
      <4> QED
        BY <4>1, <4>3 DEF t
    <3> QED
      BY <2>2, <3>1 DEF NewlyGrounded
  <2> QED
    BY <2>1, <2>2, RequestSteps
<1> QED
  BY <1>1 DEF RequestsAreGrounded

-----------------------------------------------------------------------------
\* The inductive invariant.  None of its parts but the type is inductive
\* alone: an outcome is right because the request that wrote it was grounded,
\* and the request because the row it read matched the claims made.
THEOREM QueueInvariant == Spec => []QueueInv
<1>1. Init => QueueInv
  <2> SUFFICES ASSUME Init PROVE QueueInv
    OBVIOUS
  <2>1. TypeOK
    BY NoneIsNothing, TimingAssumption DEF Init, TypeOK, NoTaskRow, NoWorkerRow, TaskRow,
       WorkerRow, Statuses, NoTxn, IdleTxn, Grant, NoGrant
  <2> QED
    BY <2>1 DEF Init, QueueInv, ClaimsMatchGrants, OutcomeFromOwnGrant, CurrentTaskExists,
       RequestsAreGrounded, NoTaskRow, NoWorkerRow, NoTxn, Terminal
<1>2. TypeOK /\ QueueInv /\ [Next]_vars /\ TypeOK' => QueueInv'
  BY ClaimsStep, OutcomeStep, CurrentTaskStep, RequestsStep DEF QueueInv
<1> QED
  BY <1>1, <1>2, TypeCorrect, PTL DEF Spec

\* A claimed row always names a claim made of that task by that worker, with
\* a lease; a queued row none: claim_next, reclaim and late writes together.
THEOREM ClaimsAreGenuine == Spec => []ClaimsMatchGrants
<1>1. QueueInv => ClaimsMatchGrants
  BY DEF QueueInv
<1> QED
  BY <1>1, QueueInvariant, PTL

\* Every result and every error on a row was delivered under a claim of that
\* very task, although complete_task and fail_task write after their check.
THEOREM OutcomesHaveAClaim == Spec => []OutcomeFromOwnGrant
<1>1. QueueInv => OutcomeFromOwnGrant
  BY DEF QueueInv
<1> QED
  BY <1>1, QueueInvariant, PTL

\* A worker row never points at a task that was swept.
THEOREM CurrentTasksExist == Spec => []CurrentTaskExists
<1>1. QueueInv => CurrentTaskExists
  BY DEF QueueInv
<1> QED
  BY <1>1, QueueInvariant, PTL

\* A finished task never goes back to queued or claimed.
THEOREM FinishedStaysFinished == Spec => FinishedNeverReopens
<1>1. QueueInv /\ [Next]_vars =>
        [\A t \in Tasks : task[t].status \in Terminal =>
             task'[t].status \in Terminal \cup {"deleted"}]_vars
  <2> SUFFICES ASSUME QueueInv, [Next]_vars, NEW t \in Tasks, task[t].status \in Terminal
               PROVE  task'[t].status \in Terminal \cup {"deleted"}
    OBVIOUS
  <2>0. TypeOK
    BY DEF QueueInv
  <2>1. ASSUME NEW u \in Tasks, NEW term \in LeaseTerms, NEW retention \in Retentions,
               SubmitTask(u, term, retention)
        PROVE  task'[t].status \in Terminal \cup {"deleted"}
    BY <2>1, <2>0 DEF SubmitTask, TypeOK, Terminal
  <2>2. ASSUME NEW c \in Conns, NEW u \in Tasks, NEW k \in Tokens, ClaimTask(c, u, k)
        PROVE  task'[t].status \in Terminal \cup {"deleted"}
    <3>1. ClaimEffect(c, u, k)
      BY <2>0, <2>2, ClaimWrites
    <3> QED
      BY <3>1 DEF ClaimEffect, Terminal
  <2>3. ASSUME NEW c \in Conns, FinishCommit(c)
        PROVE  task'[t].status \in Terminal \cup {"deleted"}
    <3>1. FinishEffect(c)
      BY <2>0, <2>3, FinishWrites
    <3> QED
      BY <3>1 DEF FinishEffect, Terminal
  <2>4. ASSUME NEW c \in Conns, RegisterCommit(c)
        PROVE  task'[t].status \in Terminal \cup {"deleted"}
    BY <2>4 DEF RegisterCommit
  <2>5. ASSUME NEW c \in Conns, HeartbeatCommit(c)
        PROVE  task'[t].status \in Terminal \cup {"deleted"}
    BY <2>0, <2>5, HeartbeatWrites
  <2>6. CASE CleanupTasks
    BY <2>6 DEF CleanupTasks, NoTaskRow
  <2>7. CASE CleanupWorkers \/ UNCHANGED <<task, worker, grant>>
    BY <2>7 DEF CleanupWorkers
  <2> QED
    BY <2>1, <2>2, <2>3, <2>4, <2>5, <2>6, <2>7, StepCases DEF RowStep
<1> QED
  BY <1>1, QueueInvariant, PTL DEF Spec, FinishedNeverReopens

\* The token of a row changes only to NULL or to one never issued before.
THEOREM TokensAreFresh == Spec => TokenNeverReturns
<1>1. QueueInv /\ [Next]_vars =>
        [\A t \in Tasks : task'[t].token \notin {task[t].token, None} =>
             ~Issued(task'[t].token)]_vars
  <2> SUFFICES ASSUME QueueInv, [Next]_vars, NEW t \in Tasks,
                      task'[t].token \notin {task[t].token, None}
               PROVE  ~Issued(task'[t].token)
    OBVIOUS
  <2>0. TypeOK
    BY DEF QueueInv
  <2>1. ASSUME NEW u \in Tasks, NEW term \in LeaseTerms, NEW retention \in Retentions,
               SubmitTask(u, term, retention)
        PROVE  FALSE
    BY <2>1, <2>0 DEF SubmitTask, TypeOK, NoTaskRow
  <2>2. ASSUME NEW c \in Conns, NEW u \in Tasks, NEW k \in Tokens, ClaimTask(c, u, k)
        PROVE  ~Issued(task'[t].token)
    <3>1. ClaimEffect(c, u, k)
      BY <2>0, <2>2, ClaimWrites
    <3> QED
      BY <3>1 DEF ClaimEffect
  <2>3. ASSUME NEW c \in Conns, FinishCommit(c) PROVE FALSE
    <3>1. FinishEffect(c)
      BY <2>0, <2>3, FinishWrites
    <3> QED
      BY <3>1 DEF FinishEffect
  <2>4. ASSUME NEW c \in Conns, RegisterCommit(c) PROVE FALSE
    BY <2>4 DEF RegisterCommit
  <2>5. ASSUME NEW c \in Conns, HeartbeatCommit(c) PROVE FALSE
    BY <2>0, <2>5, HeartbeatWrites
  <2>6. CASE CleanupTasks
    BY <2>6 DEF CleanupTasks, NoTaskRow
  <2>7. CASE CleanupWorkers \/ UNCHANGED <<task, worker, grant>>
    BY <2>7 DEF CleanupWorkers
  <2> QED
    BY <2>1, <2>2, <2>3, <2>4, <2>5, <2>6, <2>7, StepCases DEF RowStep
<1> QED
  BY <1>1, QueueInvariant, PTL DEF Spec, TokenNeverReturns

-----------------------------------------------------------------------------
(* Leases and order.  What claim_next reclaims and hands out it decides by *)
(* the time it took, which by the time it commits lies in the past.        *)

ClaimsLookBack == \A c \in Conns : txn[c].op = "claim" => txn[c].at <= now

\* What becomes of a connection's claim, and of the time, in one step.
LEMMA ClaimTimes ==
    ASSUME TypeOK, [Next]_vars, NEW d \in Conns
    PROVE  /\ now' >= now /\ now \in Nat /\ now' \in Nat
           /\ \/ txn'[d] = txn[d] \/ txn'[d].op # "claim"
              \/ txn'[d].at = now
<1> DEFINE Moves == txn'[d] = txn[d] \/ txn'[d].op # "claim" \/ txn'[d].at = now
<1>0. ASSUME NEW c \in Conns, End(c) PROVE Moves
  BY <1>0 DEF End, NoTxn, TypeOK
<1>00. ASSUME NEW c \in Conns, NEW request, Begin(c, request),
              request.op # "claim" \/ request.at = now
       PROVE  Moves
  BY <1>00 DEF Begin, TypeOK
<1> HIDE DEF Moves
<1>1. CASE Tick
  BY <1>1 DEF Tick, TypeOK, Moves
<1>2. CASE Producer \/ CleanupTasks \/ CleanupWorkers \/ UNCHANGED vars
  <2>1. txn' = txn /\ now' = now
    BY <1>2 DEF Producer, SubmitTask, CleanupTasks, CleanupWorkers, vars
  <2> QED
    BY <2>1 DEF TypeOK, Moves
<1>3. ASSUME NEW c \in Conns, Claiming(c) PROVE Moves /\ now' = now
  <2>1. ASSUME NEW w \in Workers, NEW caller \in Callers, NEW lease \in Overrides,
               ClaimNext(c, w, caller, lease)
        PROVE  Moves /\ now' = now
    <3> DEFINE request == [op |-> "claim", worker |-> w, at |-> now, lease |-> lease]
    <3>1. request.at = now
      OBVIOUS
    <3>2. Begin(c, request) /\ now' = now
      BY <2>1 DEF ClaimNext
    <3> QED
      BY <3>1, <3>2, <1>00
  <2>2. ASSUME NEW t \in Tasks, NEW k \in Tokens, ClaimTask(c, t, k)
        PROVE  Moves /\ now' = now
    BY <2>2, <1>0 DEF ClaimTask
  <2>3. CASE ClaimNothing(c)
    BY <2>3, <1>0 DEF ClaimNothing
  <2> QED
    BY <1>3, <2>1, <2>2, <2>3 DEF Claiming
<1>4. ASSUME NEW c \in Conns, Finishing(c) PROVE Moves /\ now' = now
  <2>1. ASSUME NEW t \in Tasks, NEW k \in Tokens, NEW outcome \in Outcomes,
               CheckClaim(c, t, k, outcome)
        PROVE  Moves /\ now' = now
    <3> DEFINE request == [op |-> "finish", task |-> t, token |-> k, outcome |-> outcome]
    <3>1. request.op # "claim"
      OBVIOUS
    <3>2. Begin(c, request) /\ now' = now
      BY <2>1 DEF CheckClaim, BeginFinish
    <3> QED
      BY <3>1, <3>2, <1>00
  <2>2. CASE FinishCommit(c)
    BY <2>2, <1>0 DEF FinishCommit
  <2> QED
    BY <1>4, <2>1, <2>2 DEF Finishing, CompleteTask, FailTask, Outcomes, Terminal
<1>5. ASSUME NEW c \in Conns, Reporting(c) PROVE Moves /\ now' = now
  <2>1. ASSUME NEW w \in Workers, NEW s \in Sessions, Register(c, w, s)
        PROVE  Moves /\ now' = now
    <3> DEFINE request == [op |-> "register", worker |-> w, old |-> worker[w],
                           new |-> [session |-> s, owner |-> KeyOwner[s], state |-> "idle",
                                    current |-> None, last |-> now]]
    <3>1. request.op # "claim"
      OBVIOUS
    <3>2. Begin(c, request) /\ now' = now
      BY <2>1 DEF Register, BeginRegister
    <3> QED
      BY <3>1, <3>2, <1>00
  <2>2. ASSUME NEW w \in Workers, NEW s \in Sessions, NEW state \in {"idle", "busy"},
               NEW t \in Tasks \cup {None}, NEW k \in Tokens, NEW stage \in Stages,
               Heartbeat(c, w, s, state, t, k, stage)
        PROVE  Moves /\ now' = now
    <3> DEFINE request ==
                 [op |-> "heartbeat", worker |-> w, old |-> worker[w],
                  new |-> [worker[w] EXCEPT !.state = state, !.current = t, !.last = now],
                  task |-> t,
                  oldStage |-> IF t = None THEN None ELSE task[t].stage,
                  newStage |-> IF t = None THEN None ELSE stage,
                  lease |-> now + ActiveLease]
    <3>1. request.op # "claim"
      OBVIOUS
    <3>2. Begin(c, request) /\ now' = now
      BY <2>2 DEF Heartbeat
    <3> QED
      BY <3>1, <3>2, <1>00
  <2>3. CASE RegisterCommit(c) \/ HeartbeatCommit(c)
    BY <2>3, <1>0 DEF RegisterCommit, HeartbeatCommit
  <2> QED
    BY <1>5, <2>1, <2>2, <2>3 DEF Reporting
<1>6. ASSUME NEW c \in Conns, Rollback(c) PROVE Moves /\ now' = now
  BY <1>6, <1>0 DEF Rollback
<1>7. now \in Nat
  BY DEF TypeOK
<1>8. ASSUME Moves, now' = now
      PROVE  /\ now' >= now /\ now \in Nat /\ now' \in Nat
             /\ txn'[d] = txn[d] \/ txn'[d].op # "claim" \/ txn'[d].at = now
  BY <1>7, <1>8 DEF Moves
<1>9. CASE \E c \in Conns : Claiming(c) \/ Finishing(c) \/ Reporting(c) \/ Rollback(c)
  BY <1>3, <1>4, <1>5, <1>6, <1>8, <1>9
<1> QED
  BY <1>1, <1>2, <1>7, <1>9 DEF Next, Moves, Tick, Producer, SubmitTask, CleanupTasks,
     CleanupWorkers, vars

LEMMA LookBackStep ==
    ASSUME TypeOK, ClaimsLookBack, [Next]_vars
    PROVE  ClaimsLookBack'
<1> SUFFICES ASSUME NEW d \in Conns, txn'[d].op = "claim" PROVE txn'[d].at <= now'
  BY DEF ClaimsLookBack
<1>1. CASE txn'[d] = txn[d]
  <2>1. txn[d].at \in Nat /\ txn[d].at <= now
    BY <1>1, TxnShapes DEF ClaimsLookBack
  <2> QED
    BY <1>1, <2>1, ClaimTimes
<1>2. CASE txn'[d].at = now
  BY <1>2, ClaimTimes
<1> QED
  BY <1>1, <1>2, ClaimTimes

\* What a claim under way has read lies in the past, and rows keep their type.
THEOREM ClaimsInThePast == Spec => [](TypeOK /\ ClaimsLookBack)
<1>1. Init => ClaimsLookBack
  BY DEF Init, ClaimsLookBack, NoTxn
<1>2. TypeOK /\ ClaimsLookBack /\ [Next]_vars => ClaimsLookBack'
  BY LookBackStep
<1> QED
  BY <1>1, <1>2, TypeCorrect, PTL DEF Spec

\* Which steps give a row another token and leave it in the queue.
LEMMA TokenSteps ==
    ASSUME TypeOK, [Next]_vars, NEW t \in Tasks, task'[t].token # task[t].token,
           task'[t].status \in {"queued", "claimed"},
           task[t].status = "claimed" \/ task'[t].status = "claimed"
    PROVE  \E c \in Conns, u \in Tasks, k \in Tokens : ClaimTask(c, u, k)
<1>1. ASSUME NEW u \in Tasks, NEW term \in LeaseTerms, NEW retention \in Retentions,
             SubmitTask(u, term, retention)
      PROVE  FALSE
  <2>1. CASE t = u
    BY <1>1, <2>1 DEF SubmitTask, TypeOK, NoTaskRow
  <2>2. CASE t # u
    BY <1>1, <2>2 DEF SubmitTask, TypeOK
  <2> QED
    BY <2>1, <2>2
<1>2. ASSUME NEW c \in Conns, FinishCommit(c) PROVE task'[t].token = task[t].token
  <2>1. FinishEffect(c)
    BY <1>2, FinishWrites
  <2> QED
    BY <2>1 DEF FinishEffect
<1>3. ASSUME NEW c \in Conns, RegisterCommit(c) PROVE task'[t].token = task[t].token
  BY <1>3 DEF RegisterCommit
<1>4. ASSUME NEW c \in Conns, HeartbeatCommit(c) PROVE task'[t].token = task[t].token
  BY <1>4, HeartbeatWrites
<1>5. CASE CleanupTasks
  BY <1>5 DEF CleanupTasks, NoTaskRow
<1>6. CASE CleanupWorkers \/ UNCHANGED <<task, worker, grant>>
  BY <1>6 DEF CleanupWorkers
<1> QED
  BY <1>1, <1>2, <1>3, <1>4, <1>5, <1>6, StepCases DEF RowStep

\* A claim is taken from its holder only once its lease has run out, however
\* long claim_next waits between taking its time and running _RECLAIM_SQL.
THEOREM LeasesAreHonoured == Spec => OnlyOverdueClaimsAreLost
<1>1. TypeOK /\ ClaimsLookBack /\ [Next]_vars =>
        [\A t \in Tasks :
           /\ task[t].status = "claimed"
           /\ task'[t].status \in {"queued", "claimed"}
           /\ task'[t].token # task[t].token
           => task[t].lease < now]_vars
  <2> SUFFICES ASSUME TypeOK, ClaimsLookBack, [Next]_vars, NEW t \in Tasks,
                      task[t].status = "claimed",
                      task'[t].status \in {"queued", "claimed"},
                      task'[t].token # task[t].token
               PROVE  task[t].lease < now
    OBVIOUS
  <2>1. PICK c \in Conns, u \in Tasks, k \in Tokens : ClaimTask(c, u, k)
    BY TokenSteps
  <2>2. txn[c].at \in Nat /\ txn[c].at <= now /\ now \in Nat
    BY <2>1, TxnShapes DEF ClaimTask, ClaimsLookBack, TypeOK
  <2>3. t \in Overdue(txn[c].worker, txn[c].at)
    BY <2>1 DEF ClaimTask, Candidates, TypeOK
  <2>4. task[t].lease \in Nat /\ task[t].lease < txn[c].at
    BY <2>3 DEF Overdue, TypeOK, TaskRow
  <2> QED
    BY <2>2, <2>4
<1> QED
  BY <1>1, ClaimsInThePast, PTL DEF Spec, OnlyOverdueClaimsAreLost

\* The reclaim and the claim keep the time of the submission.
LEMMA CreatedStays ==
    ASSUME NEW row \in TaskRow, NEW w, NEW k, NEW at, NEW lease
    PROVE  /\ Reclaimed(row).created = row.created
           /\ Claimed(Reclaimed(row), w, k, at, lease).created = row.created
<1> DEFINE term == at + (IF lease = None THEN Reclaimed(row).term ELSE lease)
<1>1. Reclaimed(row).created = row.created
  BY DEF Reclaimed, TaskRow
<1>2. Claimed(Reclaimed(row), w, k, at, lease) =
        [Reclaimed(row) EXCEPT !.status = "claimed", !.claimedBy = w, !.token = k,
                               !.stage = "claimed", !.lease = term]
  BY DEF Claimed
<1>3. Reclaimed(row) \in TaskRow
  BY DEF Reclaimed, TaskRow, Statuses
<1> HIDE DEF term
<1> QED
  BY <1>1, <1>2, <1>3 DEF TaskRow

\* claim_next hands out the oldest task of the worker's types, the ones it
\* reclaims in the same transaction included.
THEOREM OldestIsClaimed == Spec => OldestFirst
<1>1. TypeOK /\ ClaimsLookBack /\ [Next]_vars =>
        [\A t, u \in Tasks :
           /\ task'[t].status = "claimed"
           /\ task'[t].token # task[t].token
           /\ task'[u].status = "queued"
           /\ TaskType[u] \in Serves[task'[t].claimedBy]
           => task'[t].created <= task'[u].created]_vars
  <2> SUFFICES ASSUME TypeOK, [Next]_vars, NEW t \in Tasks, NEW u \in Tasks,
                      task'[t].status = "claimed", task'[t].token # task[t].token,
                      task'[u].status = "queued",
                      TaskType[u] \in Serves[task'[t].claimedBy]
               PROVE  task'[t].created <= task'[u].created
    OBVIOUS
  <2>1. PICK c \in Conns, v \in Tasks, k \in Tokens : ClaimTask(c, v, k)
    BY TokenSteps
  <2> DEFINE w == txn[c].worker
             at == txn[c].at
  <2>2. /\ w \in Workers /\ at \in Nat /\ txn[c].lease \in Nat \cup {None}
    BY <2>1, TxnShapes DEF ClaimTask
  <2>3. /\ task'[v] = Claimed(Reclaimed(task[v]), w, k, at, txn[c].lease)
        /\ \A r \in Candidates(w, at) : task[v].created <= task[r].created
        /\ \A r \in Tasks \ {v} :
             task'[r] = task[r] \/ (r \in Overdue(w, at) /\ task'[r] = Reclaimed(task[r]))
    <3>1. task'[v] = Claimed(Reclaimed(task[v]), w, k, at, txn[c].lease)
      BY <2>1 DEF ClaimTask
    <3>2. \A r \in Candidates(w, at) : task[v].created <= task[r].created
      BY <2>1 DEF ClaimTask
    <3>3. ASSUME NEW r \in Tasks, r # v
          PROVE  task'[r] = task[r] \/ (r \in Overdue(w, at) /\ task'[r] = Reclaimed(task[r]))
      <4>1. task'[r] = IF r \in Overdue(w, at) THEN Reclaimed(task[r]) ELSE task[r]
        BY <2>1, <3>3 DEF ClaimTask
      <4> QED
        BY <4>1
    <3> QED
      BY <3>1, <3>2, <3>3
  <2>4. ClaimEffect(c, v, k)
    BY <2>1, ClaimWrites
  <2>5. t = v
    BY <2>4 DEF ClaimEffect
  <2>6. u # v /\ task'[t].claimedBy = w
    BY <2>4, <2>5 DEF ClaimEffect
  <2>7. u \in Candidates(w, at)
    BY <2>3, <2>6 DEF Candidates
  <2>8. task'[u].created = task[u].created
    BY <2>3, <2>6, CreatedStays DEF TypeOK
  <2>9. task'[t].created = task[t].created
    BY <2>3, <2>5, CreatedStays DEF TypeOK
  <2> QED
    BY <2>3, <2>5, <2>7, <2>8, <2>9
<1> QED
  BY <1>1, ClaimsInThePast, PTL DEF Spec, OldestFirst

-----------------------------------------------------------------------------
(* Who owns a worker id.                                                   *)

\* A registration that found a row keeps its owner or is the operator's; a
\* heartbeat keeps it.
OwnerChecked(request) ==
    /\ request.op = "register" /\ request.old.session # None =>
         request.new.owner \in {None, request.old.owner}
    /\ request.op = "heartbeat" => request.new.owner = request.old.owner

OwnersChecked == \A c \in Conns : OwnerChecked(txn[c])

LEMMA OwnerRequests ==
    ASSUME TypeOK, [Next]_vars, NEW d \in Conns
    PROVE  txn'[d] = txn[d] \/ OwnerChecked(txn'[d])
<1> DEFINE Moves == txn'[d] = txn[d] \/ OwnerChecked(txn'[d])
<1>0. ASSUME NEW c \in Conns, End(c) PROVE Moves
  <2>1. txn'[d] = txn[d] \/ txn'[d] = NoTxn
    BY <1>0 DEF End, TypeOK
  <2>2. NoTxn.op = "idle"
    BY DEF NoTxn
  <2> QED
    BY <2>1, <2>2 DEF OwnerChecked
<1>00. ASSUME NEW c \in Conns, NEW request, Begin(c, request), OwnerChecked(request)
       PROVE  Moves
  <2>1. txn'[d] = txn[d] \/ txn'[d] = request
    BY <1>00 DEF Begin, TypeOK
  <2> QED
    BY <1>00, <2>1
<1> HIDE DEF Moves
<1>1. CASE Producer \/ CleanupTasks \/ CleanupWorkers \/ Tick \/ UNCHANGED vars
  BY <1>1 DEF Producer, SubmitTask, CleanupTasks, CleanupWorkers, Tick, vars, Moves
<1>2. ASSUME NEW c \in Conns, Claiming(c) PROVE Moves
  <2>1. ASSUME NEW w \in Workers, NEW caller \in Callers, NEW lease \in Overrides,
               ClaimNext(c, w, caller, lease)
        PROVE  Moves
    <3> DEFINE request == [op |-> "claim", worker |-> w, at |-> now, lease |-> lease]
    <3>1. request.op = "claim"
      OBVIOUS
    <3>2. Begin(c, request)
      BY <2>1 DEF ClaimNext
    <3> HIDE DEF request
    <3> QED
      BY <3>1, <3>2, <1>00 DEF OwnerChecked
  <2>2. ASSUME NEW t \in Tasks, NEW k \in Tokens, ClaimTask(c, t, k) PROVE Moves
    BY <2>2, <1>0 DEF ClaimTask
  <2>3. CASE ClaimNothing(c)
    BY <2>3, <1>0 DEF ClaimNothing
  <2> QED
    BY <1>2, <2>1, <2>2, <2>3 DEF Claiming
<1>3. ASSUME NEW c \in Conns, Finishing(c) PROVE Moves
  <2>1. ASSUME NEW t \in Tasks, NEW k \in Tokens, NEW outcome \in Outcomes,
               CheckClaim(c, t, k, outcome)
        PROVE  Moves
    <3> DEFINE request == [op |-> "finish", task |-> t, token |-> k, outcome |-> outcome]
    <3>1. request.op = "finish"
      OBVIOUS
    <3>2. Begin(c, request)
      BY <2>1 DEF CheckClaim, BeginFinish
    <3> HIDE DEF request
    <3> QED
      BY <3>1, <3>2, <1>00 DEF OwnerChecked
  <2>2. CASE FinishCommit(c)
    BY <2>2, <1>0 DEF FinishCommit
  <2> QED
    BY <1>3, <2>1, <2>2 DEF Finishing, CompleteTask, FailTask, Outcomes, Terminal
<1>4. ASSUME NEW c \in Conns, Reporting(c) PROVE Moves
  <2>1. ASSUME NEW w \in Workers, NEW s \in Sessions, Register(c, w, s)
        PROVE  Moves
    <3> DEFINE new == [session |-> s, owner |-> KeyOwner[s], state |-> "idle",
                       current |-> None, last |-> now]
               request == [op |-> "register", worker |-> w, old |-> worker[w], new |-> new]
    <3>1. Begin(c, request)
      BY <2>1 DEF Register, BeginRegister
    <3>2. new.owner = KeyOwner[s]
      OBVIOUS
    <3>3. worker[w].session # None => KeyOwner[s] \in {None, worker[w].owner}
      BY <2>1 DEF Register, MayRegister, Registered
    <3> HIDE DEF new
    <3>4. request.op = "register" /\ request.old = worker[w] /\ request.new = new
      OBVIOUS
    <3> HIDE DEF request
    <3>5. OwnerChecked(request)
      BY <3>2, <3>3, <3>4 DEF OwnerChecked
    <3> QED
      BY <3>1, <3>5, <1>00
  <2>2. ASSUME NEW w \in Workers, NEW s \in Sessions, NEW state \in {"idle", "busy"},
               NEW t \in Tasks \cup {None}, NEW k \in Tokens, NEW stage \in Stages,
               Heartbeat(c, w, s, state, t, k, stage)
        PROVE  Moves
    <3> DEFINE new == [worker[w] EXCEPT !.state = state, !.current = t, !.last = now]
               request ==
                 [op |-> "heartbeat", worker |-> w, old |-> worker[w], new |-> new,
                  task |-> t,
                  oldStage |-> IF t = None THEN None ELSE task[t].stage,
                  newStage |-> IF t = None THEN None ELSE stage,
                  lease |-> now + ActiveLease]
    <3>1. Begin(c, request)
      BY <2>2 DEF Heartbeat
    <3>2. new.owner = worker[w].owner
      BY DEF TypeOK, WorkerRow
    <3> HIDE DEF new
    <3>3. request.op = "heartbeat" /\ request.old = worker[w] /\ request.new = new
      OBVIOUS
    <3> HIDE DEF request
    <3>4. OwnerChecked(request)
      BY <3>2, <3>3 DEF OwnerChecked
    <3> QED
      BY <3>1, <3>4, <1>00
  <2>3. CASE RegisterCommit(c) \/ HeartbeatCommit(c)
    BY <2>3, <1>0 DEF RegisterCommit, HeartbeatCommit
  <2> QED
    BY <1>4, <2>1, <2>2, <2>3 DEF Reporting
<1>5. ASSUME NEW c \in Conns, Rollback(c) PROVE Moves
  BY <1>5, <1>0 DEF Rollback
<1> QED
  BY <1>1, <1>2, <1>3, <1>4, <1>5 DEF Next, Moves

\* What the registrations and heartbeats under way will write as the owner.
LEMMA OwnersInvariant == Spec => [](TypeOK /\ OwnersChecked)
<1>1. Init => OwnersChecked
  BY DEF Init, OwnersChecked, OwnerChecked, NoTxn
<1>2. TypeOK /\ OwnersChecked /\ [Next]_vars => OwnersChecked'
  <2> SUFFICES ASSUME TypeOK, OwnersChecked, [Next]_vars, NEW d \in Conns
               PROVE  OwnerChecked(txn'[d])
    BY DEF OwnersChecked
  <2>1. OwnerChecked(txn[d])
    BY DEF OwnersChecked
  <2> QED
    BY <2>1, OwnerRequests
<1> QED
  BY <1>1, <1>2, TypeCorrect, PTL DEF Spec

\* register_worker: while a worker row lives its owner changes only to the
\* operator, although the row it compared may have changed by the commit.
THEOREM OnlyTheOperatorTakesOver == Spec => OwnershipOnlyPassesToOperator
<1>1. TypeOK /\ OwnersChecked /\ [Next]_vars =>
        [\A w \in Workers :
           /\ Registered(w) /\ worker'[w].session # None
           /\ worker'[w].owner # worker[w].owner
           => worker'[w].owner = None]_vars
  <2> SUFFICES ASSUME TypeOK, OwnersChecked, [Next]_vars, NEW w \in Workers,
                      worker[w].session # None, worker'[w].session # None,
                      worker'[w].owner # worker[w].owner
               PROVE  worker'[w].owner = None
    BY DEF Registered
  <2>1. ASSUME NEW c \in Conns, RegisterCommit(c) PROVE worker'[w].owner = None
    <3> DEFINE v == txn[c].worker
               old == txn[c].old
               new == txn[c].new
    <3>1. v \in Workers /\ old \in WorkerRow /\ new \in WorkerRow
      BY <2>1, TxnShapes DEF RegisterCommit
    <3>2. /\ worker'[v] = IF old.session = None THEN new ELSE MergeWorker(worker[v], old, new)
          /\ \A u \in Workers \ {v} : worker'[u] = worker[u]
          /\ worker[v].session # None <=> old.session # None
      BY <2>1, <3>1 DEF RegisterCommit, TypeOK, Registered
    <3>3. old.session # None => new.owner \in {None, old.owner}
      BY <2>1 DEF RegisterCommit, OwnersChecked, OwnerChecked
    <3> HIDE DEF v, old, new
    <3>4. w = v
      BY <3>2
    <3> QED
      BY <3>2, <3>3, <3>4 DEF MergeWorker, Dirty
  <2>2. ASSUME NEW c \in Conns, HeartbeatCommit(c) PROVE FALSE
    <3> DEFINE v == txn[c].worker
               old == txn[c].old
               new == txn[c].new
    <3>1. v \in Workers /\ old \in WorkerRow /\ new \in WorkerRow
      BY <2>2, TxnShapes DEF HeartbeatCommit
    <3>2. /\ worker'[v] = MergeWorker(worker[v], old, new)
          /\ \A u \in Workers \ {v} : worker'[u] = worker[u]
      BY <2>2, <3>1 DEF HeartbeatCommit, TypeOK
    <3>3. new.owner = old.owner
      BY <2>2 DEF HeartbeatCommit, OwnersChecked, OwnerChecked
    <3> HIDE DEF v, old, new
    <3> QED
      BY <3>2, <3>3 DEF MergeWorker, Dirty
  <2>3. CASE CleanupTasks
    BY <2>3 DEF CleanupTasks, TypeOK, WorkerRow
  <2>4. CASE CleanupWorkers
    BY <2>4 DEF CleanupWorkers, NoWorkerRow
  <2>5. ASSUME NEW t \in Tasks, NEW term \in LeaseTerms, NEW retention \in Retentions,
               SubmitTask(t, term, retention)
        PROVE  FALSE
    BY <2>5 DEF SubmitTask
  <2>6. ASSUME NEW c \in Conns, NEW t \in Tasks, NEW k \in Tokens, ClaimTask(c, t, k)
        PROVE  FALSE
    BY <2>6 DEF ClaimTask
  <2>7. ASSUME NEW c \in Conns, FinishCommit(c) PROVE FALSE
    BY <2>7 DEF FinishCommit
  <2> QED
    BY <2>1, <2>2, <2>3, <2>4, <2>5, <2>6, <2>7, StepCases DEF RowStep
<1> QED
  BY <1>1, OwnersInvariant, PTL DEF Spec, OwnershipOnlyPassesToOperator

-----------------------------------------------------------------------------
(* TaskQueue implements TaskLifecycle: any number of requests may overlap. *)

\* The row of a task that was not submitted yet names no claim.
UnbornUnclaimed == \A t \in Tasks : task[t].status = "unborn" => task[t].token = None

RefinementInv == QueueInv /\ UnbornUnclaimed

LEMMA UnbornStep ==
    ASSUME TypeOK, UnbornUnclaimed, [Next]_vars
    PROVE  UnbornUnclaimed'
<1>1. ASSUME NEW t \in Tasks, NEW term \in LeaseTerms, NEW retention \in Retentions,
             SubmitTask(t, term, retention)
      PROVE  UnbornUnclaimed'
  BY <1>1 DEF SubmitTask, UnbornUnclaimed, TypeOK, NoTaskRow
<1>2. ASSUME NEW c \in Conns, NEW t \in Tasks, NEW k \in Tokens, ClaimTask(c, t, k)
      PROVE  UnbornUnclaimed'
  <2>1. ClaimEffect(c, t, k)
    BY <1>2, ClaimWrites
  <2> QED
    BY <2>1 DEF ClaimEffect, UnbornUnclaimed
<1>3. ASSUME NEW c \in Conns, FinishCommit(c) PROVE UnbornUnclaimed'
  <2>1. FinishEffect(c)
    BY <1>3, FinishWrites
  <2> QED
    BY <2>1 DEF FinishEffect, UnbornUnclaimed
<1>4. ASSUME NEW c \in Conns, RegisterCommit(c) PROVE UnbornUnclaimed'
  BY <1>4 DEF RegisterCommit, UnbornUnclaimed
<1>5. ASSUME NEW c \in Conns, HeartbeatCommit(c) PROVE UnbornUnclaimed'
  BY <1>5, HeartbeatWrites DEF UnbornUnclaimed
<1>6. CASE CleanupTasks
  BY <1>6 DEF CleanupTasks, UnbornUnclaimed, NoTaskRow
<1>7. CASE CleanupWorkers
  BY <1>7 DEF CleanupWorkers, UnbornUnclaimed
<1>8. CASE UNCHANGED <<task, worker, grant>>
  BY <1>8 DEF UnbornUnclaimed
<1> QED
  BY <1>1, <1>2, <1>3, <1>4, <1>5, <1>6, <1>7, <1>8, StepCases DEF RowStep

LEMMA RefinementInvariant == Spec => []RefinementInv
<1>1. Init => UnbornUnclaimed
  BY DEF Init, UnbornUnclaimed, NoTaskRow
<1>2. QueueInv /\ UnbornUnclaimed /\ [Next]_vars => UnbornUnclaimed'
  BY UnbornStep DEF QueueInv
<1> QED
  BY <1>1, <1>2, QueueInvariant, PTL DEF Spec, RefinementInv

-----------------------------------------------------------------------------
(* One kind of step after the other.                                       *)

\* A step that leaves these columns and the claims alone is a stutter.
LEMMA Stutters ==
    ASSUME \A t \in Tasks : /\ task'[t].status = task[t].status
                            /\ task'[t].token = task[t].token
                            /\ task'[t].result = task[t].result
                            /\ task'[t].error = task[t].error,
           \A k \in Tokens : grant'[k].task = grant[k].task
    PROVE  UNCHANGED Lifecycle!lifecycleVars
BY DEF Lifecycle!lifecycleVars

LEMMA SubmitRefines ==
    ASSUME RefinementInv, NEW t \in Tasks, NEW term, NEW retention,
           SubmitTask(t, term, retention)
    PROVE  Lifecycle!Submit(t)
<1>1. /\ task[t].status = "unborn" /\ task[t].token = None
      /\ task[t].result = None /\ task[t].error = None
  BY DEF SubmitTask, RefinementInv, UnbornUnclaimed, QueueInv, OutcomeFromOwnGrant, Terminal
<1>2. /\ task'[t].status = "queued" /\ task'[t].token = None
      /\ task'[t].result = None /\ task'[t].error = None
  BY DEF SubmitTask, RefinementInv, QueueInv, TypeOK, NoTaskRow
<1>3. \A u \in Tasks \ {t} : task'[u] = task[u]
  BY DEF SubmitTask, RefinementInv, QueueInv, TypeOK
<1>4. grant' = grant
  BY DEF SubmitTask
<1> QED
  BY <1>1, <1>2, <1>3, <1>4 DEF Lifecycle!Submit

LEMMA ClaimRefines ==
    ASSUME RefinementInv, NEW c \in Conns, NEW t \in Tasks, NEW k \in Tokens,
           ClaimTask(c, t, k)
    PROVE  \E lost \in SUBSET Tasks : Lifecycle!Assign(t, k, lost)
<1>1. ClaimEffect(c, t, k)
  BY ClaimWrites DEF RefinementInv, QueueInv
<1>0. PICK lost \in SUBSET Tasks :
             lost = {u \in Tasks : /\ task[u].status = "claimed"
                                   /\ u = t \/ task'[u].status = "queued"}
  OBVIOUS
<1>2. \A u \in lost : task[u].status = "claimed"
  BY <1>0
<1>3. task[t].status = "queued" \/ t \in lost
  BY <1>0, <1>1 DEF ClaimEffect
<1>4. grant[k].task = None
  BY <1>1 DEF ClaimEffect, Issued
<1>5. /\ task'[t].status = "claimed" /\ task'[t].token = k
      /\ task'[t].result = task[t].result /\ task'[t].error = task[t].error
  BY <1>1 DEF ClaimEffect
<1>6. ASSUME NEW u \in Tasks, u # t
      PROVE  /\ task'[u].status = IF u \in lost THEN "queued" ELSE task[u].status
             /\ task'[u].token = IF u \in lost THEN None ELSE task[u].token
             /\ task'[u].result = task[u].result /\ task'[u].error = task[u].error
  BY <1>0, <1>1, <1>6 DEF ClaimEffect
<1>7. \A j \in Tokens : grant'[j].task = IF j = k THEN t ELSE grant[j].task
  BY DEF ClaimTask, RefinementInv, QueueInv, TypeOK
<1>8. \A u \in Tasks :
         /\ task'[u].status = IF u = t THEN "claimed"
                              ELSE IF u \in lost THEN "queued" ELSE task[u].status
         /\ task'[u].token = IF u = t THEN k ELSE IF u \in lost THEN None ELSE task[u].token
         /\ task'[u].result = task[u].result /\ task'[u].error = task[u].error
  BY <1>5, <1>6
<1>9. Lifecycle!Assign(t, k, lost)
  <2>1. \A u \in lost : [v \in Tasks |-> task[v].status][u] = "claimed"
    BY <1>0, <1>2
  <2>2. [v \in Tasks |-> task[v].status][t] = "queued" \/ t \in lost
    BY <1>3
  <2>3. [j \in Tokens |-> grant[j].task][k] = None
    BY <1>4
  <2>4. [v \in Tasks |-> task'[v].status] =
          [u \in Tasks |-> IF u = t THEN "claimed"
                           ELSE IF u \in lost THEN "queued"
                           ELSE [v \in Tasks |-> task[v].status][u]]
    BY <1>8
  <2>5. [v \in Tasks |-> task'[v].token] =
          [u \in Tasks |-> IF u = t THEN k ELSE IF u \in lost THEN None
                           ELSE [v \in Tasks |-> task[v].token][u]]
    BY <1>8
  <2>6. [j \in Tokens |-> grant'[j].task] =
          [[j \in Tokens |-> grant[j].task] EXCEPT ![k] = t]
    BY <1>7
  <2>7. [v \in Tasks |-> [result |-> task'[v].result, error |-> task'[v].error]] =
          [v \in Tasks |-> [result |-> task[v].result, error |-> task[v].error]]
    BY <1>8
  <2> QED
    BY <2>1, <2>2, <2>3, <2>4, <2>5, <2>6, <2>7 DEF Lifecycle!Assign
<1> QED
  BY <1>9

LEMMA FinishRefines ==
    ASSUME RefinementInv, NEW c \in Conns, FinishCommit(c)
    PROVE  \E t \in Tasks, k \in Tokens : Lifecycle!Deliver(t, k)
<1>1. FinishEffect(c)
  BY FinishWrites DEF RefinementInv, QueueInv
<1>0. PICK t \in Tasks, k \in Tokens : t = txn[c].task /\ k = txn[c].token
  BY <1>1 DEF FinishEffect
<1>2. task[t].status \notin {"unborn", "deleted"}
  BY <1>0, <1>1 DEF FinishEffect, Present
<1>3. grant[k].task = t /\ grant' = grant
  BY <1>0 DEF FinishCommit, RefinementInv, QueueInv, RequestsAreGrounded
<1>4. /\ task'[t].token = task[t].token
      /\ \A u \in Tasks \ {t} : task'[u] = task[u]
  BY <1>0, <1>1 DEF FinishEffect
<1>5. \/ /\ task'[t].status = "done"
         /\ task'[t].result = k
         /\ task'[t].error = task[t].error
      \/ /\ task'[t].status = "failed"
         /\ task'[t].result = task[t].result
         /\ task'[t].error = k
  BY <1>0, <1>1 DEF FinishEffect
<1> DEFINE status == [u \in Tasks |-> task[u].status]
           outcome == [u \in Tasks |-> [result |-> task[u].result, error |-> task[u].error]]
<1>6. /\ [j \in Tokens |-> grant[j].task][k] = t
      /\ [j \in Tokens |-> grant'[j].task] = [j \in Tokens |-> grant[j].task]
      /\ status[t] \notin {"unborn", "deleted"}
      /\ [u \in Tasks |-> task'[u].token] = [u \in Tasks |-> task[u].token]
  BY <1>2, <1>3, <1>4
<1>7. \/ /\ [u \in Tasks |-> task'[u].status] = [status EXCEPT ![t] = "done"]
         /\ [u \in Tasks |-> [result |-> task'[u].result, error |-> task'[u].error]]
              = [outcome EXCEPT ![t].result = k]
      \/ /\ [u \in Tasks |-> task'[u].status] = [status EXCEPT ![t] = "failed"]
         /\ [u \in Tasks |-> [result |-> task'[u].result, error |-> task'[u].error]]
              = [outcome EXCEPT ![t].error = k]
  BY <1>4, <1>5
<1>8. Lifecycle!Deliver(t, k)
  BY <1>6, <1>7 DEF Lifecycle!Deliver
<1> QED
  BY <1>8

LEMMA CleanupRefines ==
    ASSUME RefinementInv, CleanupTasks
    PROVE  \E gone \in SUBSET Tasks : Lifecycle!Forget(gone)
<1>0. PICK gone \in SUBSET Tasks :
             gone = {t \in Tasks : Present(t) /\ task[t].expires < now}
  OBVIOUS
<1>1. \A t \in gone : task[t].status \notin {"unborn", "deleted"}
  BY <1>0 DEF Present
<1>2. \A t \in Tasks : task'[t] = IF t \in gone THEN NoTaskRow("deleted") ELSE task[t]
  BY <1>0 DEF CleanupTasks
<1>3. grant' = grant
  BY DEF CleanupTasks
<1>4. Lifecycle!Forget(gone)
  BY <1>1, <1>2, <1>3 DEF Lifecycle!Forget, Lifecycle!NoOutcome, NoTaskRow
<1> QED
  BY <1>4

-----------------------------------------------------------------------------
\* Whatever overlaps, every commit of the service is one step of the promised
\* life of the tasks, and every other step none: no task is held under two
\* claims, and none ends under a claim that was not made of it.
THEOREM QueueImplementsLifecycle == Spec => ImplementsLifecycle
<1>1. Init => Lifecycle!Init
  BY DEF Init, Lifecycle!Init, Lifecycle!NoOutcome, NoTaskRow, NoGrant
<1>2. RefinementInv /\ [Next]_vars => [Lifecycle!Next]_Lifecycle!lifecycleVars
  <2> SUFFICES ASSUME RefinementInv, [Next]_vars
               PROVE  Lifecycle!Next \/ UNCHANGED Lifecycle!lifecycleVars
    OBVIOUS
  <2>1. ASSUME NEW t \in Tasks, NEW term \in LeaseTerms, NEW retention \in Retentions,
               SubmitTask(t, term, retention)
        PROVE  Lifecycle!Next
    BY <2>1, SubmitRefines DEF Lifecycle!Next
  <2>2. ASSUME NEW c \in Conns, NEW t \in Tasks, NEW k \in Tokens, ClaimTask(c, t, k)
        PROVE  Lifecycle!Next
    BY <2>2, ClaimRefines DEF Lifecycle!Next
  <2>3. ASSUME NEW c \in Conns, FinishCommit(c) PROVE Lifecycle!Next
    BY <2>3, FinishRefines DEF Lifecycle!Next
  <2>4. CASE CleanupTasks
    BY <2>4, CleanupRefines DEF Lifecycle!Next
  <2>5. ASSUME NEW c \in Conns, HeartbeatCommit(c)
        PROVE  UNCHANGED Lifecycle!lifecycleVars
    <3>1. grant' = grant
      BY <2>5 DEF HeartbeatCommit
    <3> QED
      BY <2>5, <3>1, HeartbeatWrites, Stutters DEF RefinementInv, QueueInv
  <2>6. ASSUME NEW c \in Conns, RegisterCommit(c)
        PROVE  UNCHANGED Lifecycle!lifecycleVars
    BY <2>6, Stutters DEF RegisterCommit
  <2>7. CASE CleanupWorkers \/ UNCHANGED <<task, worker, grant>>
    BY <2>7, Stutters DEF CleanupWorkers
  <2> QED
    BY <2>1, <2>2, <2>3, <2>4, <2>5, <2>6, <2>7, StepCases DEF RowStep
<1> QED
  BY <1>1, <1>2, RefinementInvariant, PTL DEF Spec, ImplementsLifecycle, Lifecycle!Spec
=============================================================================
