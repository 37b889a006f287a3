----------------------------- MODULE WorkerLoop -----------------------------
(***************************************************************************)
(* Worker processes and the queue they poll: the main loop of              *)
(* local_worker.py, the WorkerHeartbeat thread that runs beside it, the    *)
(* HTTP calls of both, which may time out while the server still serves    *)
(* them, and the rows those calls change.                                  *)
(*                                                                         *)
(* Requests are served in one step here: what overlapping requests do to   *)
(* each other is TaskQueue's subject.  A lease is the number of ticks it   *)
(* has left.  A tick is one round of a heartbeat thread: its call (a       *)
(* timeout of 30 s) and its wait of 60 s.  ACTIVE_LEASE_MINUTES = 5 covers *)
(* three such rounds.                                                      *)
(***************************************************************************)
EXTENDS Integers, FiniteSets

CONSTANTS
    Tasks,         \* tasks that may be submitted
    Processes,     \* worker processes: each starts once, with its own session id
    Reliable,      \* the processes that do not crash
    Workers,       \* worker ids
    Assignments,   \* the WORKER_IDs the processes may have been given
    InitialLease,  \* lease_minutes of the tasks, in ticks
    ActiveLease,   \* ACTIVE_LEASE_MINUTES, in ticks
    MaxTokens,     \* BOUND on the claim tokens in use at once (they are recycled)
    MaxLosses,     \* BOUND on calls that end in a network error, by assignment
    None

ASSUME WorkerAssumption ==
    /\ Assignments \subseteq [Processes -> Workers]
    /\ Reliable \subseteq Processes
    /\ InitialLease \in Nat \ {0}
    /\ ActiveLease \in Nat \ {0}
    /\ MaxTokens \in Nat
    /\ MaxLosses \in [Assignments -> Nat]
    /\ None \notin Nat \cup Tasks \cup Processes

VARIABLES
    workerOf, \* processes: WORKER_ID of their environment, which never changes
    row,      \* tasks: status, claim token, claimed_by and the ticks its lease has left
    session,  \* workers: the process whose session a worker id has, None if no row
    main,     \* the main loop: where it is, and the claim it works on
    beat,     \* the heartbeat thread: where it is, _state, its snapshot, the wake event
    call,     \* the HTTP call of each thread
    late,     \* requests whose caller gave up and that the server will still serve
    losses    \* calls that ended in a network error so far

vars == <<workerOf, row, session, main, beat, call, late, losses>>

Tokens == 1 .. MaxTokens
Overdue == -1
Threads == {"main", "beat"}

Claim(t, k) == [task |-> t, token |-> k]
NoClaim == Claim(None, None)
Report(claim, stage) == [claim |-> claim, stage |-> stage]
IdleReport == Report(NoClaim, None)

Silent == [at |-> "none"]
Sent(request) == [at |-> "sent", request |-> request]
Back(reply) == [at |-> "back", reply |-> reply]

-----------------------------------------------------------------------------
(* The requests of a worker, as the queue serves them.  A reply is a kind  *)
(* and a claim.                                                            *)

ClaimRequest(p) == [op |-> "claim", process |-> p, claim |-> NoClaim]
FinishRequest(p, claim) == [op |-> "finish", process |-> p, claim |-> claim]
BeatRequest(p, claim) == [op |-> "heartbeat", process |-> p, claim |-> claim]

Reply(kind) == [kind |-> kind, claim |-> NoClaim]

Carried(c) ==
    CASE c.at = "sent" -> {c.request.claim.token}
      [] c.at = "back" -> {c.reply.claim.token}
      [] c.at = "none" -> {}

\* A uuid4 equals no token that a row, a process or a request still holds.
InUse ==
    {row[t].token : t \in Tasks}
      \cup {main[p].claim.token : p \in Processes}
      \cup {beat[p].state.claim.token : p \in Processes}
      \cup {beat[p].snap.claim.token : p \in Processes}
      \cup {r.claim.token : r \in late}
      \cup UNION {Carried(call[p][h]) : p \in Processes, h \in Threads}

FreshToken == CHOOSE k \in Tokens \ InUse : \A j \in Tokens \ InUse : k <= j

\* Mutant: overdue claims are not reclaimed.
WaitingInQueue(t) == row[t].status = "queued"

Waiting(t) ==
    \/ row[t].status = "queued"
    \/ row[t].status = "claimed" /\ row[t].lease = Overdue

Queued == [status |-> "queued", token |-> None, by |-> None, lease |-> Overdue]

\* claim_next: every overdue claim goes back to the queue, one waiting task out.
ServeClaim(r, reply) ==
    /\ r.op = "claim"
    /\ \/ /\ \E t \in Tasks :
               /\ Waiting(t)
               /\ Tokens \ InUse # {}
               /\ row' = [u \in Tasks |->
                            IF u = t
                            THEN [status |-> "claimed", token |-> FreshToken,
                                  by |-> workerOf[r.process], lease |-> InitialLease]
                            ELSE IF Waiting(u) THEN Queued ELSE row[u]]
               /\ reply = [kind |-> "task", claim |-> Claim(t, FreshToken)]
       \/ /\ \A t \in Tasks : ~Waiting(t)
          /\ reply = Reply("empty")
          /\ UNCHANGED row
    /\ UNCHANGED session

Owns(claim) ==
    /\ row[claim.task].status = "claimed"
    /\ row[claim.task].token = claim.token

\* complete_task, fail_task: 409 unless the token still holds the task.  Done or
\* failed is one status here: the loop goes on alike.
ServeFinish(r, reply) ==
    /\ r.op = "finish"
    /\ IF Owns(r.claim)
       THEN /\ row' = [row EXCEPT ![r.claim.task].status = "finished"]
            /\ reply = Reply("ok")
       ELSE reply = Reply("conflict") /\ UNCHANGED row
    /\ UNCHANGED session

\* Mutant: the session is checked, the lease is not renewed.
ServeHeartbeatOnly(r, reply) ==
    /\ r.op = "heartbeat"
    /\ reply = Reply("ok")
    /\ UNCHANGED <<row, session>>

\* Mutant: any session of the worker id may renew the lease.
ServeHeartbeatOfAnySession(r, reply) ==
    /\ r.op = "heartbeat"
    /\ IF r.claim # NoClaim => Owns(r.claim) /\ row[r.claim.task].by = workerOf[r.process]
       THEN /\ row' = IF r.claim = NoClaim THEN row
                      ELSE [row EXCEPT ![r.claim.task].lease = ActiveLease]
            /\ reply = Reply("ok")
       ELSE reply = Reply("conflict") /\ UNCHANGED row
    /\ UNCHANGED session

\* heartbeat: 409 unless the session is current and, if busy, the claim held.
ServeHeartbeat(r, reply) ==
    /\ r.op = "heartbeat"
    /\ IF /\ session[workerOf[r.process]] = r.process
          /\ r.claim # NoClaim => Owns(r.claim) /\ row[r.claim.task].by = workerOf[r.process]
       THEN /\ row' = IF r.claim = NoClaim THEN row
                      ELSE [row EXCEPT ![r.claim.task].lease = ActiveLease]
            /\ reply = Reply("ok")
       ELSE reply = Reply("conflict") /\ UNCHANGED row
    /\ UNCHANGED session

Replies ==
    {Reply(kind) : kind \in {"ok", "empty", "conflict"}}
      \cup {[kind |-> "task", claim |-> Claim(t, k)] : t \in Tasks, k \in Tokens}

Served(r, reply) ==
    ServeClaim(r, reply) \/ ServeFinish(r, reply) \/ ServeHeartbeat(r, reply)

Serve(p, h) ==
    /\ call[p][h].at = "sent"
    /\ \E reply \in Replies :
         /\ Served(call[p][h].request, reply)
         /\ call' = [call EXCEPT ![p][h] = Back(reply)]
    /\ UNCHANGED <<workerOf, main, beat, late, losses>>

\* A request whose caller is gone: served, and nobody hears the reply.
ServeLate(r) ==
    /\ \E reply \in Replies : Served(r, reply)
    /\ late' = late \ {r}
    /\ UNCHANGED <<workerOf, main, beat, call, losses>>

\* httpx.HTTPError: the request never arrived, is still on its way, or was
\* served and its response is lost.
NetworkError(p, h) ==
    /\ losses < MaxLosses[workerOf]
    /\ losses' = losses + 1
    /\ \/ call[p][h].at \in {"sent", "back"} /\ UNCHANGED late
       \/ call[p][h].at = "sent" /\ late' = late \cup {call[p][h].request}
    /\ call' = [call EXCEPT ![p][h] = Back(Reply("unreachable"))]
    /\ UNCHANGED <<workerOf, row, session, main, beat>>

-----------------------------------------------------------------------------
(* The main loop.                                                          *)

Up(p) == main[p].pc \notin {"off", "dead"}

Goto(p, pc, claim) == main' = [main EXCEPT ![p] = [pc |-> pc, claim |-> claim]]

\* WorkerHeartbeat.update: replace the state under the lock, set the event.
Update(p, report) ==
    beat' = [beat EXCEPT ![p].state = report, ![p].wake = TRUE]

\* register (one request), then the thread and the loop begin.
Start(p) ==
    /\ main[p].pc = "off"
    /\ session' = [session EXCEPT ![workerOf[p]] = p]
    /\ Goto(p, "poll", NoClaim)
    /\ beat' = [beat EXCEPT ![p].pc = "snap"]
    /\ UNCHANGED <<workerOf, row, call, late, losses>>

Poll(p) ==
    /\ main[p].pc = "poll"
    /\ Goto(p, "claiming", NoClaim)
    /\ call' = [call EXCEPT ![p]["main"] = Sent(ClaimRequest(p))]
    /\ UNCHANGED <<workerOf, row, session, beat, late, losses>>

\* A claimed task is reported busy before the work starts; an empty answer or
\* a network error means the next poll.
Answered(p) ==
    /\ main[p].pc = "claiming"
    /\ call[p]["main"].at = "back"
    /\ call' = [call EXCEPT ![p]["main"] = Silent]
    /\ LET reply == call[p]["main"].reply
       IN IF reply.kind = "task"
          THEN /\ Goto(p, "working", reply.claim)
               /\ Update(p, Report(reply.claim, "preparing"))
          ELSE Goto(p, "poll", NoClaim) /\ UNCHANGED beat
    /\ UNCHANGED <<workerOf, row, session, late, losses>>

\* The handler moves on to its next phase.
Progress(p) ==
    /\ main[p].pc = "working"
    /\ beat[p].state.stage = "preparing"
    /\ Update(p, Report(main[p].claim, "rendering"))
    /\ UNCHANGED <<workerOf, row, session, main, call, late, losses>>

\* The handler returned or raised: report_result or report_failure.
Finish(p) ==
    /\ main[p].pc = "working"
    /\ main' = [main EXCEPT ![p].pc = "reporting"]
    /\ call' = [call EXCEPT ![p]["main"] = Sent(FinishRequest(p, main[p].claim))]
    /\ UNCHANGED <<workerOf, row, session, beat, late, losses>>

\* Accepted, refused or lost: logged, never retried, and the loop goes on.
Reported(p) ==
    /\ main[p].pc = "reporting"
    /\ call[p]["main"].at = "back"
    /\ call' = [call EXCEPT ![p]["main"] = Silent]
    /\ Goto(p, "poll", NoClaim)
    /\ Update(p, IdleReport)
    /\ UNCHANGED <<workerOf, row, session, late, losses>>

\* The process dies: its calls stop, what they sent may still be served.
Crash(p) ==
    /\ Up(p)
    /\ p \notin Reliable
    /\ Goto(p, "dead", NoClaim)
    /\ beat' = [beat EXCEPT ![p] = [pc |-> "dead", state |-> IdleReport, snap |-> IdleReport,
                                    wake |-> FALSE, due |-> FALSE]]
    /\ late' \in {late} \cup {late \cup {call[p][h].request} :
                                h \in {g \in Threads : call[p][g].at = "sent"}}
    /\ call' = [call EXCEPT ![p] = [h \in Threads |-> Silent]]
    /\ UNCHANGED <<workerOf, row, session, losses>>

-----------------------------------------------------------------------------
(* The heartbeat thread: snapshot, send, wait, clear.                      *)

\* _send: the state under the lock, then the call.
Snapshot(p) ==
    /\ beat[p].pc = "snap"
    /\ beat' = [beat EXCEPT ![p].pc = "sending", ![p].snap = beat[p].state]
    /\ call' = [call EXCEPT ![p]["beat"] = Sent(BeatRequest(p, beat[p].state.claim))]
    /\ UNCHANGED <<workerOf, row, session, main, late, losses>>

\* Mutant: the event is cleared after the call, before the wait.
BeatenThenCleared(p) ==
    /\ beat[p].pc = "sending"
    /\ call[p]["beat"].at = "back"
    /\ call' = [call EXCEPT ![p]["beat"] = Silent]
    /\ beat' = [beat EXCEPT ![p].pc = "waiting", ![p].due = FALSE, ![p].wake = FALSE]
    /\ UNCHANGED <<workerOf, row, session, main, late, losses>>

\* Accepted, refused or failed: logged, and the thread waits.
Beaten(p) ==
    /\ beat[p].pc = "sending"
    /\ call[p]["beat"].at = "back"
    /\ call' = [call EXCEPT ![p]["beat"] = Silent]
    /\ beat' = [beat EXCEPT ![p].pc = "waiting", ![p].due = FALSE]
    /\ UNCHANGED <<workerOf, row, session, main, late, losses>>

\* self._wake.wait(HEARTBEAT_SECONDS)
WakeUp(p) ==
    /\ beat[p].pc = "waiting"
    /\ beat[p].wake \/ beat[p].due
    /\ beat' = [beat EXCEPT ![p].pc = "clearing"]
    /\ UNCHANGED <<workerOf, row, session, main, call, late, losses>>

\* self._wake.clear()
Clear(p) ==
    /\ beat[p].pc = "clearing"
    /\ beat' = [beat EXCEPT ![p].pc = "snap", ![p].wake = FALSE]
    /\ UNCHANGED <<workerOf, row, session, main, call, late, losses>>

-----------------------------------------------------------------------------
Submit(t) ==
    /\ row[t].status = "unborn"
    /\ row' = [row EXCEPT ![t] = Queued]
    /\ UNCHANGED <<workerOf, session, main, beat, call, late, losses>>

\* When a tick ends, every living heartbeat thread waits (a round of call and
\* wait is what a tick is) and no granted claim is still on its way back.
Resting(p) ==
    /\ beat[p].pc \in {"off", "dead"}
         \/ (beat[p].pc = "waiting" /\ ~beat[p].wake /\ ~beat[p].due)
    /\ call[p]["main"].at = "back" => call[p]["main"].reply.kind # "task"

Older(lease) == IF lease = Overdue THEN Overdue ELSE lease - 1

Tick ==
    /\ \A p \in Processes : Resting(p)
    /\ row' = [t \in Tasks |-> IF row[t].status = "claimed"
                               THEN [row[t] EXCEPT !.lease = Older(@)] ELSE row[t]]
    /\ beat' = [p \in Processes |->
                  IF beat[p].pc = "waiting" THEN [beat[p] EXCEPT !.due = TRUE] ELSE beat[p]]
    /\ UNCHANGED <<workerOf, session, main, call, late, losses>>

Init ==
    /\ workerOf \in Assignments
    /\ row = [t \in Tasks |-> [Queued EXCEPT !.status = "unborn"]]
    /\ session = [w \in Workers |-> None]
    /\ main = [p \in Processes |-> [pc |-> "off", claim |-> NoClaim]]
    /\ beat = [p \in Processes |-> [pc |-> "off", state |-> IdleReport, snap |-> IdleReport,
                                    wake |-> FALSE, due |-> FALSE]]
    /\ call = [p \in Processes |-> [h \in Threads |-> Silent]]
    /\ late = {}
    /\ losses = 0

MainStep(p) ==
    \/ Poll(p)
    \/ Answered(p)
    \/ Finish(p)
    \/ Reported(p)

BeatStep(p) == Snapshot(p) \/ Beaten(p) \/ WakeUp(p) \/ Clear(p)

Next ==
    \/ \E t \in Tasks : Submit(t)
    \/ \E p \in Processes :
         \/ Start(p)
         \/ MainStep(p)
         \/ Progress(p)
         \/ BeatStep(p)
         \/ Crash(p)
         \/ \E h \in Threads : Serve(p, h) \/ NetworkError(p, h)
    \/ \E r \in late : ServeLate(r)
    \/ Tick

\* The loop and the thread keep running, every handler ends (its subprocess
\* and its HTTP calls have timeouts), a served call is answered, and time passes.
Fairness ==
    /\ \A p \in Processes :
         /\ WF_vars(MainStep(p))
         /\ WF_vars(BeatStep(p))
         /\ \A h \in Threads : WF_vars(Serve(p, h))
    /\ \A p \in Reliable : WF_vars(Start(p))
    /\ WF_vars(Tick)

Spec == Init /\ [][Next]_vars
FairSpec == Spec /\ Fairness

-----------------------------------------------------------------------------
\* WorkerHeartbeat: when the thread sleeps without a wake-up pending, the last
\* report it sent is the current one: no update of the main loop is lost
\* between the snapshot, the wait and the clear.
NoUpdateLost ==
    \A p \in Processes :
        beat[p].pc = "waiting" /\ ~beat[p].wake => beat[p].snap = beat[p].state

\* A process that runs with its id's current session keeps the task it works
\* on, however long the work takes and although its heartbeats may fail a few
\* times: the lease, the one of the claim or the rolling one of a heartbeat,
\* outlives every gap between two of them.
LiveHolderKeepsTask ==
    losses < ActiveLease /\ losses <= InitialLease =>
        \A p \in Processes :
            main[p].pc = "working" /\ session[workerOf[p]] = p =>
                Owns(main[p].claim) /\ row[main[p].claim.task].lease # Overdue

\* A process whose session was replaced cannot keep its task by heartbeats:
\* the lease of its claim only runs down, until the claim is overdue.
ReplacedSessionRenewsNothing ==
    [][\A t \in Tasks, p \in Processes :
         /\ row[t].status = "claimed"
         /\ main[p].claim = Claim(t, row[t].token)
         /\ session[workerOf[p]] # p
         /\ row'[t].token = row[t].token
         => row'[t].lease <= row[t].lease]_vars

\* Every submitted task is eventually done or failed, although any process but
\* the reliable ones may die at any point and calls may be lost or late.
EveryTaskFinishes ==
    \A t \in Tasks : row[t].status = "queued" ~> row[t].status = "finished"
=============================================================================
