-------------------------- MODULE WorkerLoopProofs --------------------------
(***************************************************************************)
(* Proofs about WorkerLoop, for any number of processes, tasks, crashes    *)
(* and lost calls.                                                         *)
(***************************************************************************)
EXTENDS WorkerLoop, WellFoundedInduction, TLAPS

\* The record of a heartbeat thread has its fields and its program counter is
\* one of the five places of WorkerHeartbeat._loop.
BeatType ==
    /\ DOMAIN beat = Processes
    /\ \A p \in Processes :
         DOMAIN beat[p] = {"pc", "state", "snap", "wake", "due"}
    /\ beat = [p \in Processes |-> beat[p]]

\* From the snapshot to the wake-up, either the event is set or what was sent
\* is still the current report.
NothingLost ==
    \A p \in Processes :
        beat[p].pc \in {"sending", "waiting"} /\ ~beat[p].wake =>
            beat[p].snap = beat[p].state

BeatInv == BeatType /\ NothingLost

LEMMA BeatInit == Init => BeatInv
BY DEF Init, BeatInv, BeatType, NothingLost

LEMMA BeatNext == ASSUME BeatInv, [Next]_vars PROVE BeatInv'
<1>1. ASSUME UNCHANGED beat PROVE BeatInv'
  BY <1>1 DEF BeatInv, BeatType, NothingLost
<1>2. ASSUME NEW p \in Processes, NEW report, Update(p, report) PROVE BeatInv'
  BY <1>2 DEF Update, BeatInv, BeatType, NothingLost
<1>3. ASSUME NEW p \in Processes, Start(p) PROVE BeatInv'
  BY <1>3 DEF Start, BeatInv, BeatType, NothingLost
<1>4. ASSUME NEW p \in Processes, MainStep(p) PROVE BeatInv'
  BY <1>1, <1>2, <1>4 DEF MainStep, Poll, Answered, Finish, Reported
<1>5. ASSUME NEW p \in Processes, Progress(p) PROVE BeatInv'
  BY <1>2, <1>5 DEF Progress
<1>6. ASSUME NEW p \in Processes, Snapshot(p) PROVE BeatInv'
  BY <1>6 DEF Snapshot, BeatInv, BeatType, NothingLost
<1>7. ASSUME NEW p \in Processes, Beaten(p) PROVE BeatInv'
  BY <1>7 DEF Beaten, BeatInv, BeatType, NothingLost
<1>8. ASSUME NEW p \in Processes, WakeUp(p) PROVE BeatInv'
  BY <1>8 DEF WakeUp, BeatInv, BeatType, NothingLost
<1>9. ASSUME NEW p \in Processes, Clear(p) PROVE BeatInv'
  BY <1>9 DEF Clear, BeatInv, BeatType, NothingLost
<1>10. ASSUME NEW p \in Processes, Crash(p) PROVE BeatInv'
  BY <1>10 DEF Crash, BeatInv, BeatType, NothingLost
<1>11. ASSUME Tick PROVE BeatInv'
  BY <1>11 DEF Tick, BeatInv, BeatType, NothingLost
<1>12. ASSUME NEW p \in Processes, NEW h \in Threads, Serve(p, h) \/ NetworkError(p, h)
       PROVE BeatInv'
  BY <1>1, <1>12 DEF Serve, NetworkError
<1>13. ASSUME NEW r, ServeLate(r) PROVE BeatInv'
  BY <1>1, <1>13 DEF ServeLate
<1>14. ASSUME NEW t \in Tasks, Submit(t) PROVE BeatInv'
  BY <1>1, <1>14 DEF Submit
<1>15. UNCHANGED vars => BeatInv'
  BY <1>1 DEF vars
<1> QED
  BY <1>3, <1>4, <1>5, <1>6, <1>7, <1>8, <1>9, <1>10, <1>11, <1>12, <1>13, <1>14,
     <1>15 DEF Next, BeatStep

\* No report of the main loop is lost between the snapshot, the wait and the
\* clear of WorkerHeartbeat._loop: a thread that sleeps without a wake-up
\* pending has sent the current report.
THEOREM NoUpdateIsLost == Spec => []NoUpdateLost
<1>1. BeatInv => NoUpdateLost
  BY DEF BeatInv, NothingLost, NoUpdateLost
<1> QED
  BY BeatInit, BeatNext, <1>1, PTL DEF Spec
-----------------------------------------------------------------------------
\* A set of natural numbers that is not empty has a least element.
LEMMA LeastNatural ==
    ASSUME NEW S, S \subseteq Nat, S # {}
    PROVE  \E least \in S : \A n \in S : least <= n
<1>1. PICK least \in S : \A n \in S : ~ (<<n, least>> \in OpToRel(<, Nat))
  BY NatLessThanWellFounded, WFMin
<1>2. \A n \in S : ~ (n < least)
  BY <1>1 DEF OpToRel
<1> QED
  BY <1>2

-----------------------------------------------------------------------------
(* The state of a worker process and of the queue.                         *)

TaskClaims == [task : Tasks, token : Tokens]
Claims == TaskClaims \cup {NoClaim}
ReportSet == [claim : Claims, stage : {None, "preparing", "rendering"}]
RequestSet == [op : {"claim", "finish", "heartbeat"}, process : Processes, claim : Claims]
ReplySet == [kind : {"task", "ok", "empty", "conflict", "unreachable"}, claim : Claims]
SentSet == [at : {"sent"}, request : RequestSet]
BackSet == [at : {"back"}, reply : ReplySet]
CallSet == {Silent} \cup SentSet \cup BackSet
RowSet ==
    [status : {"unborn", "queued", "claimed", "finished"}, token : Tokens \cup {None},
     by : Workers \cup {None}, lease : Nat \cup {Overdue}]
MainSet == [pc : {"off", "poll", "claiming", "working", "reporting", "dead"}, claim : Claims]
BeatSet ==
    [pc : {"off", "snap", "sending", "waiting", "clearing", "dead"}, state : ReportSet,
     snap : ReportSet, wake : BOOLEAN, due : BOOLEAN]

TypeInv ==
    /\ workerOf \in [Processes -> Workers]
    /\ row \in [Tasks -> RowSet]
    /\ session \in [Workers -> Processes \cup {None}]
    /\ main \in [Processes -> MainSet]
    /\ beat \in [Processes -> BeatSet]
    /\ call \in [Processes -> [Threads -> CallSet]]
    /\ late \subseteq RequestSet
    /\ losses \in Nat

LEMMA ClaimTypes ==
    /\ NoClaim \in Claims /\ NoClaim \notin TaskClaims /\ NoClaim.token = None
    /\ \A t \in Tasks, k \in Tokens : Claim(t, k) \in TaskClaims /\ Claim(t, k) \in Claims
    /\ \A c \in TaskClaims : c.task \in Tasks /\ c.token \in Tokens /\ c = Claim(c.task, c.token)
    /\ None \notin Tokens /\ Tokens \subseteq Nat
<1>1. None \notin Tasks /\ None \notin Nat
  BY WorkerAssumption DEF WorkerAssumption
<1>2. Tokens \subseteq Nat
  BY WorkerAssumption DEF WorkerAssumption, Tokens
<1>3. NoClaim \in Claims /\ NoClaim.task = None /\ NoClaim.token = None
  BY DEF Claims, NoClaim, Claim
<1>4. \A c \in TaskClaims : c.task \in Tasks /\ c.token \in Tokens /\ c = Claim(c.task, c.token)
  BY DEF TaskClaims, Claim
<1>5. \A t \in Tasks, k \in Tokens : Claim(t, k) \in TaskClaims /\ Claim(t, k) \in Claims
  BY DEF TaskClaims, Claim, Claims
<1> QED
  BY <1>1, <1>2, <1>3, <1>4, <1>5

\* The three kinds of call.
LEMMA CallTypes ==
    /\ Silent \in CallSet /\ Silent.at = "none"
    /\ \A r \in RequestSet :
         Sent(r) \in CallSet /\ Sent(r).at = "sent" /\ Sent(r).request = r
    /\ \A y \in ReplySet :
         Back(y) \in CallSet /\ Back(y).at = "back" /\ Back(y).reply = y
    /\ \A c \in CallSet :
         /\ c.at \in {"none", "sent", "back"}
         /\ c.at = "none" => c = Silent
         /\ c.at = "sent" => c.request \in RequestSet /\ c = Sent(c.request)
         /\ c.at = "back" => c.reply \in ReplySet /\ c = Back(c.reply)
<1>1. \A r : Sent(r).at = "sent" /\ Sent(r).request = r
  BY DEF Sent
<1>2. \A y : Back(y).at = "back" /\ Back(y).reply = y
  BY DEF Back
<1>3. \A r \in RequestSet : Sent(r) \in CallSet
  BY DEF Sent, CallSet, SentSet
<1>4. \A y \in ReplySet : Back(y) \in CallSet
  BY DEF Back, CallSet, BackSet
<1>5. Silent \in CallSet /\ Silent.at = "none"
  BY DEF Silent, CallSet
<1>6. \A c \in SentSet : c.at = "sent" /\ c.request \in RequestSet /\ c = Sent(c.request)
  BY DEF SentSet, Sent
<1>7. \A c \in BackSet : c.at = "back" /\ c.reply \in ReplySet /\ c = Back(c.reply)
  BY DEF BackSet, Back
<1>8. \A c \in CallSet : c = Silent \/ c \in SentSet \/ c \in BackSet
  BY DEF CallSet
<1>9. \A c \in CallSet :
        /\ c.at \in {"none", "sent", "back"}
        /\ c.at = "none" => c = Silent
        /\ c.at = "sent" => c.request \in RequestSet /\ c = Sent(c.request)
        /\ c.at = "back" => c.reply \in ReplySet /\ c = Back(c.reply)
  <2>1. SUFFICES ASSUME NEW c \in CallSet
                 PROVE  /\ c.at \in {"none", "sent", "back"}
                        /\ c.at = "none" => c = Silent
                        /\ c.at = "sent" => c.request \in RequestSet /\ c = Sent(c.request)
                        /\ c.at = "back" => c.reply \in ReplySet /\ c = Back(c.reply)
    OBVIOUS
  <2>2. CASE c = Silent
    BY <2>2, <1>5
  <2>3. CASE c \in SentSet
    BY <2>3, <1>6
  <2>4. CASE c \in BackSet
    BY <2>4, <1>7
  <2> QED
    BY <1>8, <2>1, <2>2, <2>3, <2>4
<1> QED
  BY <1>1, <1>2, <1>3, <1>4, <1>5, <1>9

\* The requests and replies that the actions make.
LEMMA MessageTypes ==
    /\ \A p \in Processes : ClaimRequest(p) \in RequestSet /\ ClaimRequest(p).claim = NoClaim
    /\ \A p \in Processes, c \in Claims :
         /\ FinishRequest(p, c) \in RequestSet /\ FinishRequest(p, c).claim = c
         /\ BeatRequest(p, c) \in RequestSet /\ BeatRequest(p, c).claim = c
    /\ \A kind : Reply(kind).kind = kind /\ Reply(kind).claim = NoClaim
    /\ \A kind \in {"task", "ok", "empty", "conflict", "unreachable"} : Reply(kind) \in ReplySet
    /\ Replies \subseteq ReplySet
    /\ IdleReport \in ReportSet /\ IdleReport.claim = NoClaim
    /\ \A c \in Claims : Report(c, "preparing") \in ReportSet /\ Report(c, "rendering") \in ReportSet
    /\ \A c, stage : Report(c, stage).claim = c
<1>1. \A p \in Processes : ClaimRequest(p) \in RequestSet /\ ClaimRequest(p).claim = NoClaim
  BY ClaimTypes DEF ClaimRequest, RequestSet
<1>2. \A p \in Processes, c \in Claims :
        /\ FinishRequest(p, c) \in RequestSet /\ FinishRequest(p, c).claim = c
        /\ BeatRequest(p, c) \in RequestSet /\ BeatRequest(p, c).claim = c
  BY DEF FinishRequest, BeatRequest, RequestSet
<1>3. /\ \A kind : Reply(kind).kind = kind /\ Reply(kind).claim = NoClaim
      /\ \A kind \in {"task", "ok", "empty", "conflict", "unreachable"} : Reply(kind) \in ReplySet
  BY ClaimTypes DEF Reply, ReplySet
<1>4. \A t \in Tasks, k \in Tokens : [kind |-> "task", claim |-> Claim(t, k)] \in ReplySet
  BY ClaimTypes DEF ReplySet
<1>5. Replies \subseteq ReplySet
  BY <1>3, <1>4 DEF Replies
<1>6. /\ IdleReport \in ReportSet /\ IdleReport.claim = NoClaim
      /\ \A c \in Claims : Report(c, "preparing") \in ReportSet /\ Report(c, "rendering") \in ReportSet
      /\ \A c, stage : Report(c, stage).claim = c
  BY ClaimTypes DEF IdleReport, Report, ReportSet
<1> QED
  BY <1>1, <1>2, <1>3, <1>5, <1>6

\* A token that nothing carries is there whenever one is drawn.
LEMMA FreshIsFresh == ASSUME Tokens \ InUse # {} PROVE FreshToken \in Tokens \ InUse
<1>1. Tokens \ InUse \subseteq Nat
  BY ClaimTypes
<1>2. \E k \in Tokens \ InUse : \A j \in Tokens \ InUse : k <= j
  BY <1>1, LeastNatural
<1> QED
  BY <1>2 DEF FreshToken
-----------------------------------------------------------------------------
(* What serving a request does to the rows.                                *)

\* A claim brings the overdue claims back and gives one task out, with a token
\* that nothing carries.
LEMMA ClaimServed ==
    ASSUME TypeInv, NEW r \in RequestSet, NEW reply \in Replies, ServeClaim(r, reply)
    PROVE  /\ row' \in [Tasks -> RowSet]
           /\ \A t \in Tasks :
                \/ row'[t] = row[t]
                \/ Waiting(t) /\ row'[t] = Queued
                \/ Waiting(t) /\ row'[t].token \in Tokens \ InUse
           /\ \/ reply.claim = NoClaim /\ reply.kind # "task"
              \/ /\ reply.kind = "task"
                 /\ reply.claim \in TaskClaims
                 /\ reply.claim.token \notin InUse
                 /\ row'[reply.claim.task] =
                      [status |-> "claimed", token |-> reply.claim.token,
                       by |-> workerOf[r.process], lease |-> InitialLease]
<1>1. workerOf[r.process] \in Workers
  BY DEF TypeInv, RequestSet
<1>2. InitialLease \in Nat
  BY WorkerAssumption DEF WorkerAssumption
<1>3. Queued \in RowSet
  BY DEF Queued, RowSet
<1>4. CASE row' = row /\ reply = Reply("empty")
  BY <1>4, MessageTypes DEF TypeInv
<1>5. ASSUME NEW t \in Tasks, Waiting(t), Tokens \ InUse # {},
             row' = [u \in Tasks |->
                       IF u = t
                       THEN [status |-> "claimed", token |-> FreshToken,
                             by |-> workerOf[r.process], lease |-> InitialLease]
                       ELSE IF Waiting(u) THEN Queued ELSE row[u]],
             reply = [kind |-> "task", claim |-> Claim(t, FreshToken)]
      PROVE  /\ row' \in [Tasks -> RowSet]
             /\ \A u \in Tasks :
                  \/ row'[u] = row[u]
                  \/ Waiting(u) /\ row'[u] = Queued
                  \/ Waiting(u) /\ row'[u].token \in Tokens \ InUse
             /\ reply.kind = "task" /\ reply.claim \in TaskClaims
             /\ reply.claim.token \notin InUse
             /\ row'[reply.claim.task] =
                  [status |-> "claimed", token |-> reply.claim.token,
                   by |-> workerOf[r.process], lease |-> InitialLease]
  <2> DEFINE k == FreshToken
             new == [status |-> "claimed", token |-> k,
                     by |-> workerOf[r.process], lease |-> InitialLease]
  <2>1. k \in Tokens /\ k \notin InUse
    BY <1>5, FreshIsFresh
  <2>2. new \in RowSet /\ new.token = k
    BY <1>1, <1>2, <2>1 DEF RowSet
  <2>3. row' = [u \in Tasks |-> IF u = t THEN new ELSE IF Waiting(u) THEN Queued ELSE row[u]]
    BY <1>5
  <2>4. reply.kind = "task" /\ reply.claim = Claim(t, k)
    BY <1>5
  <2>5. Claim(t, k) \in TaskClaims /\ Claim(t, k).task = t /\ Claim(t, k).token = k
    BY <2>1 DEF TaskClaims, Claim
  <2> HIDE DEF k, new
  <2>6. row'[t] = new
    BY <2>3
  <2>7. \A u \in Tasks : u # t => row'[u] = row[u] \/ (Waiting(u) /\ row'[u] = Queued)
    BY <2>3
  <2>8. row' \in [Tasks -> RowSet]
    BY <2>2, <2>3, <1>3 DEF TypeInv
  <2>9. new = [status |-> "claimed", token |-> reply.claim.token,
               by |-> workerOf[r.process], lease |-> InitialLease]
    BY <2>4, <2>5 DEF new
  <2>10. row'[reply.claim.task] = new /\ reply.claim \in TaskClaims /\ reply.claim.token \notin InUse
    BY <2>1, <2>4, <2>5, <2>6
  <2>11. \A u \in Tasks :
           \/ row'[u] = row[u]
           \/ Waiting(u) /\ row'[u] = Queued
           \/ Waiting(u) /\ row'[u].token \in Tokens \ InUse
    BY <1>5, <2>1, <2>2, <2>6, <2>7
  <2> QED
    BY <2>4, <2>8, <2>9, <2>10, <2>11
<1>6. \/ row' = row /\ reply = Reply("empty")
      \/ \E t \in Tasks :
           /\ Waiting(t) /\ Tokens \ InUse # {}
           /\ row' = [u \in Tasks |->
                       IF u = t
                       THEN [status |-> "claimed", token |-> FreshToken,
                             by |-> workerOf[r.process], lease |-> InitialLease]
                       ELSE IF Waiting(u) THEN Queued ELSE row[u]]
           /\ reply = [kind |-> "task", claim |-> Claim(t, FreshToken)]
  BY DEF ServeClaim
<1> QED
  BY <1>4, <1>5, <1>6

\* Who owns a task by its claim carries the token of its row.
LEMMA OwnsTask ==
    ASSUME NEW c \in TaskClaims
    PROVE  Owns(c) <=> /\ row[c.task].status = "claimed"
                       /\ c = Claim(c.task, row[c.task].token)
BY ClaimTypes DEF Owns, Claim

\* A report changes the status of the row whose token it carries, and no more.
LEMMA FinishServed ==
    ASSUME TypeInv, NEW r \in RequestSet, NEW reply \in Replies, ServeFinish(r, reply)
    PROVE  /\ row' \in [Tasks -> RowSet]
           /\ \A t \in Tasks :
                \/ row'[t] = row[t]
                \/ /\ row[t].status = "claimed" /\ r.claim = Claim(t, row[t].token)
                   /\ row'[t].lease = row[t].lease
           /\ reply.claim = NoClaim /\ reply.kind # "task"
<1>1. reply.claim = NoClaim /\ reply.kind # "task"
  BY MessageTypes DEF ServeFinish
<1>2. CASE row' = row
  BY <1>1, <1>2 DEF TypeInv
<1>3. ASSUME Owns(r.claim), row' = [row EXCEPT ![r.claim.task].status = "finished"]
      PROVE  /\ row' \in [Tasks -> RowSet]
             /\ \A t \in Tasks :
                  \/ row'[t] = row[t]
                  \/ /\ row[t].status = "claimed" /\ r.claim = Claim(t, row[t].token)
                     /\ row'[t].lease = row[t].lease
  <2>1. r.claim = NoClaim \/ r.claim \in TaskClaims
    BY DEF RequestSet, Claims
  <2>2. CASE r.claim = NoClaim
    <3>1. r.claim.task \notin Tasks
      BY <2>2, WorkerAssumption DEF NoClaim, Claim, WorkerAssumption
    <3>2. row' = row
      BY <1>3, <3>1 DEF TypeInv
    <3> QED
      BY <3>2 DEF TypeInv
  <2>3. CASE r.claim \in TaskClaims
    <3> DEFINE t == r.claim.task
    <3>1. t \in Tasks /\ row[t] \in RowSet /\ row[t].status = "claimed"
          /\ r.claim = Claim(t, row[t].token)
      BY <1>3, <2>3, OwnsTask, ClaimTypes DEF TypeInv
    <3> DEFINE new == [row[t] EXCEPT !.status = "finished"]
    <3>2. new \in RowSet /\ new.lease = row[t].lease
      BY <3>1 DEF RowSet
    <3>3. row' = [row EXCEPT ![t] = new]
      BY <1>3, <3>1 DEF TypeInv
    <3> HIDE DEF t, new
    <3>4. row' \in [Tasks -> RowSet] /\ row'[t] = new /\ \A u \in Tasks : u # t => row'[u] = row[u]
      BY <3>1, <3>2, <3>3 DEF TypeInv
    <3> QED
      BY <3>1, <3>2, <3>4
  <2> QED
    BY <2>1, <2>2, <2>3
<1>4. row' = row \/ (Owns(r.claim) /\ row' = [row EXCEPT ![r.claim.task].status = "finished"])
  BY DEF ServeFinish
<1> QED
  BY <1>1, <1>2, <1>3, <1>4

\* What a heartbeat has to say to be accepted.
Accepted(r) ==
    /\ session[workerOf[r.process]] = r.process
    /\ r.claim # NoClaim => Owns(r.claim) /\ row[r.claim.task].by = workerOf[r.process]

\* A heartbeat renews the lease of the row whose token it carries, and no more.
LEMMA BeatServed ==
    ASSUME TypeInv, NEW r \in RequestSet, NEW reply \in Replies, ServeHeartbeat(r, reply)
    PROVE  /\ row' \in [Tasks -> RowSet]
           /\ \A t \in Tasks :
                \/ row'[t] = row[t]
                \/ /\ row[t].status = "claimed" /\ r.claim = Claim(t, row[t].token)
                   /\ session[workerOf[r.process]] = r.process
                   /\ row'[t] = [row[t] EXCEPT !.lease = ActiveLease]
           /\ reply.claim = NoClaim /\ reply.kind # "task"
           /\ r.claim # NoClaim /\ Accepted(r) => row'[r.claim.task].lease = ActiveLease
<1>1. reply.claim = NoClaim /\ reply.kind # "task"
  BY MessageTypes DEF ServeHeartbeat
<1>2. CASE row' = row /\ (r.claim = NoClaim \/ ~Accepted(r))
  BY <1>1, <1>2 DEF TypeInv
<1>3. ASSUME Accepted(r), r.claim # NoClaim,
             row' = [row EXCEPT ![r.claim.task].lease = ActiveLease]
      PROVE  /\ row' \in [Tasks -> RowSet]
             /\ \A t \in Tasks :
                  \/ row'[t] = row[t]
                  \/ /\ row[t].status = "claimed" /\ r.claim = Claim(t, row[t].token)
                     /\ session[workerOf[r.process]] = r.process
                     /\ row'[t] = [row[t] EXCEPT !.lease = ActiveLease]
             /\ row'[r.claim.task].lease = ActiveLease
  <2>1. r.claim \in TaskClaims
    BY <1>3 DEF RequestSet, Claims
  <2> DEFINE t == r.claim.task
  <2>2. t \in Tasks /\ row[t] \in RowSet /\ row[t].status = "claimed"
        /\ r.claim = Claim(t, row[t].token) /\ session[workerOf[r.process]] = r.process
    BY <1>3, <2>1, OwnsTask, ClaimTypes DEF TypeInv, Accepted
  <2> DEFINE new == [row[t] EXCEPT !.lease = ActiveLease]
  <2>3. ActiveLease \in Nat
    BY WorkerAssumption DEF WorkerAssumption
  <2>4. new \in RowSet /\ new.lease = ActiveLease
    BY <2>2, <2>3 DEF RowSet
  <2>5. row' = [row EXCEPT ![t] = new]
    BY <1>3, <2>2 DEF TypeInv
  <2>6. new = [row[t] EXCEPT !.lease = ActiveLease] /\ t = r.claim.task
    OBVIOUS
  <2> HIDE DEF t, new
  <2>7. row' \in [Tasks -> RowSet] /\ row'[t] = new /\ \A u \in Tasks : u # t => row'[u] = row[u]
    BY <2>2, <2>4, <2>5 DEF TypeInv
  <2> QED
    BY <2>2, <2>4, <2>6, <2>7
<1>4. \/ row' = row /\ (r.claim = NoClaim \/ ~Accepted(r))
      \/ Accepted(r) /\ r.claim # NoClaim /\ row' = [row EXCEPT ![r.claim.task].lease = ActiveLease]
  BY DEF ServeHeartbeat, Accepted
<1> QED
  BY <1>1, <1>2, <1>3, <1>4
\* What the queue does with a request, whoever still hears the reply.
LEMMA RequestServed ==
    ASSUME TypeInv, NEW r \in RequestSet, NEW reply \in Replies, Served(r, reply)
    PROVE  /\ row' \in [Tasks -> RowSet]
           /\ session' = session
           /\ reply \in ReplySet
           /\ \A t \in Tasks :
                \/ row'[t] = row[t]
                \/ Waiting(t) /\ row'[t] = Queued
                \/ Waiting(t) /\ row'[t].token \in Tokens \ InUse
                \/ /\ row[t].status = "claimed" /\ r.claim = Claim(t, row[t].token)
                   /\ r.op = "finish" /\ row'[t].lease = row[t].lease
                \/ /\ row[t].status = "claimed" /\ r.claim = Claim(t, row[t].token)
                   /\ r.op = "heartbeat" /\ session[workerOf[r.process]] = r.process
                   /\ row'[t] = [row[t] EXCEPT !.lease = ActiveLease]
           /\ \/ reply.claim = NoClaim /\ reply.kind # "task"
              \/ /\ r.op = "claim" /\ reply.kind = "task"
                 /\ reply.claim \in TaskClaims
                 /\ reply.claim.token \notin InUse
                 /\ row'[reply.claim.task] =
                      [status |-> "claimed", token |-> reply.claim.token,
                       by |-> workerOf[r.process], lease |-> InitialLease]
           /\ r.op = "heartbeat" /\ r.claim # NoClaim /\ Accepted(r) =>
                row'[r.claim.task].lease = ActiveLease
<1>1. reply \in ReplySet
  BY MessageTypes
<1>2. CASE ServeClaim(r, reply)
  <2>1. r.op = "claim" /\ session' = session
    BY <1>2 DEF ServeClaim
  <2> QED
    BY <1>1, <1>2, <2>1, ClaimServed
<1>3. CASE ServeFinish(r, reply)
  <2>1. r.op = "finish" /\ session' = session
    BY <1>3 DEF ServeFinish
  <2> QED
    BY <1>1, <1>3, <2>1, FinishServed
<1>4. CASE ServeHeartbeat(r, reply)
  <2>1. r.op = "heartbeat" /\ session' = session
    BY <1>4 DEF ServeHeartbeat
  <2> QED
    BY <1>1, <1>4, <2>1, BeatServed
<1> QED
  BY <1>2, <1>3, <1>4 DEF Served

-----------------------------------------------------------------------------
(* Types.                                                                  *)

\* The loop goes to a place with a claim.
LEMMA GotoType ==
    ASSUME TypeInv, NEW p \in Processes, NEW claim \in Claims,
           NEW pc \in {"off", "poll", "claiming", "working", "reporting", "dead"},
           Goto(p, pc, claim)
    PROVE  /\ main' \in [Processes -> MainSet]
           /\ main'[p].pc = pc /\ main'[p].claim = claim
           /\ \A q \in Processes : q # p => main'[q] = main[q]
<1> DEFINE new == [pc |-> pc, claim |-> claim]
<1>1. new \in MainSet /\ new.pc = pc /\ new.claim = claim
  BY DEF MainSet
<1>2. main' = [main EXCEPT ![p] = new]
  BY DEF Goto
<1> HIDE DEF new
<1> QED
  BY <1>1, <1>2 DEF TypeInv

\* A thread's call goes from one place to the next.
LEMMA CallType ==
    ASSUME TypeInv, NEW p \in Processes, NEW h \in Threads, NEW c \in CallSet,
           call' = [call EXCEPT ![p][h] = c]
    PROVE  /\ call' \in [Processes -> [Threads -> CallSet]]
           /\ call'[p][h] = c
           /\ \A g \in Threads : g # h => call'[p][g] = call[p][g]
           /\ \A q \in Processes : q # p => call'[q] = call[q]
BY DEF TypeInv

\* The heartbeat thread moves, or is told of a report.
LEMMA BeatChange ==
    ASSUME TypeInv, NEW p \in Processes, NEW new \in BeatSet, beat' = [beat EXCEPT ![p] = new]
    PROVE  /\ beat' \in [Processes -> BeatSet]
           /\ beat'[p] = new
           /\ \A q \in Processes : q # p => beat'[q] = beat[q]
BY DEF TypeInv

LEMMA UpdateType ==
    ASSUME TypeInv, NEW p \in Processes, NEW report \in ReportSet, Update(p, report)
    PROVE  /\ beat' \in [Processes -> BeatSet]
           /\ beat'[p].pc = beat[p].pc /\ beat'[p].snap = beat[p].snap
           /\ beat'[p].due = beat[p].due
           /\ beat'[p].state = report
           /\ beat'[p].wake
           /\ \A q \in Processes : q # p => beat'[q] = beat[q]
<1> DEFINE new == [beat[p] EXCEPT !.state = report, !.wake = TRUE]
<1>1. beat[p] \in BeatSet
  BY DEF TypeInv
<1>2. new \in BeatSet
  BY <1>1 DEF BeatSet
<1>3. new.pc = beat[p].pc /\ new.snap = beat[p].snap /\ new.state = report
  BY <1>1 DEF BeatSet
<1>4. new.due = beat[p].due
  BY <1>1, Zenon DEF BeatSet
<1>5. new.wake
  BY <1>1 DEF BeatSet
<1>6. beat' = [beat EXCEPT ![p] = new]
  BY DEF Update, TypeInv
<1> HIDE DEF new
<1>7. beat'[p] = new
  BY <1>2, <1>6, BeatChange
<1> QED
  BY <1>2, <1>3, <1>4, <1>5, <1>6, <1>7, BeatChange
-----------------------------------------------------------------------------
(* What each action changes.                                               *)

\* Processes other than p do not move.
OnlyOf(p) ==
    /\ workerOf' = workerOf
    /\ \A q \in Processes :
         q # p => main'[q] = main[q] /\ beat'[q] = beat[q] /\ call'[q] = call[q]

\* Neither thread of p moves in the other's part.
MainCallKept(p) == call'[p]["main"] = call[p]["main"]
BeatCallKept(p) == call'[p]["beat"] = call[p]["beat"]
QueueKept == UNCHANGED <<row, session, losses>>

LEMMA StartDoes ==
    ASSUME TypeInv, NEW p \in Processes, Start(p)
    PROVE  /\ TypeInv' /\ OnlyOf(p) /\ call' = call /\ late' = late /\ row' = row
           /\ losses' = losses
           /\ session'[workerOf[p]] = p
           /\ \A w \in Workers : w # workerOf[p] => session'[w] = session[w]
           /\ main[p].pc = "off" /\ main'[p].pc = "poll" /\ main'[p].claim = NoClaim
           /\ beat'[p].pc = "snap"
           /\ beat'[p].state = beat[p].state /\ beat'[p].snap = beat[p].snap
<1> DEFINE new == [beat[p] EXCEPT !.pc = "snap"]
<1>1. beat[p] \in BeatSet
  BY DEF TypeInv
<1>2. new \in BeatSet /\ new.pc = "snap" /\ new.state = beat[p].state /\ new.snap = beat[p].snap
  BY <1>1 DEF BeatSet
<1>3. beat' = [beat EXCEPT ![p] = new]
  BY DEF Start, TypeInv
<1> HIDE DEF new
<1>4. /\ beat' \in [Processes -> BeatSet] /\ beat'[p] = new
      /\ \A q \in Processes : q # p => beat'[q] = beat[q]
  BY <1>2, <1>3, BeatChange
<1>5. /\ main' \in [Processes -> MainSet] /\ main'[p].pc = "poll" /\ main'[p].claim = NoClaim
      /\ \A q \in Processes : q # p => main'[q] = main[q]
  BY GotoType, ClaimTypes DEF Start
<1>6. /\ session' \in [Workers -> Processes \cup {None}] /\ session'[workerOf[p]] = p
      /\ \A w \in Workers : w # workerOf[p] => session'[w] = session[w]
  BY DEF Start, TypeInv
<1>7. UNCHANGED <<workerOf, row, call, late, losses>> /\ main[p].pc = "off"
  BY DEF Start
<1>8. TypeInv'
  BY <1>4, <1>5, <1>6, <1>7 DEF TypeInv
<1>9. OnlyOf(p)
  BY <1>4, <1>5, <1>7 DEF OnlyOf
<1> QED
  BY <1>2, <1>4, <1>5, <1>6, <1>7, <1>8, <1>9

LEMMA PollDoes ==
    ASSUME TypeInv, NEW p \in Processes, Poll(p)
    PROVE  /\ TypeInv' /\ OnlyOf(p) /\ QueueKept /\ beat' = beat /\ late' = late
           /\ main[p].pc = "poll" /\ main'[p].pc = "claiming" /\ main'[p].claim = NoClaim
           /\ call'[p]["main"] = Sent(ClaimRequest(p)) /\ BeatCallKept(p)
<1>1. Sent(ClaimRequest(p)) \in CallSet
  BY CallTypes, MessageTypes
<1>2. call' = [call EXCEPT ![p]["main"] = Sent(ClaimRequest(p))]
  BY DEF Poll
<1>3. /\ call' \in [Processes -> [Threads -> CallSet]]
      /\ call'[p]["main"] = Sent(ClaimRequest(p)) /\ BeatCallKept(p)
      /\ \A q \in Processes : q # p => call'[q] = call[q]
  BY <1>1, <1>2, CallType DEF Threads, BeatCallKept
<1>4. /\ main' \in [Processes -> MainSet] /\ main'[p].pc = "claiming" /\ main'[p].claim = NoClaim
      /\ \A q \in Processes : q # p => main'[q] = main[q]
  BY GotoType, ClaimTypes DEF Poll
<1>5. UNCHANGED <<workerOf, row, session, beat, late, losses>> /\ main[p].pc = "poll"
  BY DEF Poll
<1>6. TypeInv'
  BY <1>3, <1>4, <1>5 DEF TypeInv
<1> QED
  BY <1>3, <1>4, <1>5, <1>6 DEF OnlyOf, QueueKept

LEMMA AnsweredDoes ==
    ASSUME TypeInv, NEW p \in Processes, Answered(p)
    PROVE  /\ TypeInv' /\ OnlyOf(p) /\ QueueKept /\ late' = late
           /\ main[p].pc = "claiming" /\ call[p]["main"].at = "back"
           /\ call'[p]["main"] = Silent /\ BeatCallKept(p)
           /\ \/ /\ call[p]["main"].reply.kind # "task"
                 /\ main'[p].pc = "poll" /\ main'[p].claim = NoClaim
                 /\ beat' = beat
              \/ /\ call[p]["main"].reply.kind = "task"
                 /\ main'[p].pc = "working" /\ main'[p].claim = call[p]["main"].reply.claim
                 /\ beat'[p].pc = beat[p].pc /\ beat'[p].snap = beat[p].snap
                 /\ beat'[p].state.claim = call[p]["main"].reply.claim
                 /\ beat'[p].wake
<1> DEFINE reply == call[p]["main"].reply
<1>1. call[p]["main"] \in CallSet
  BY DEF TypeInv, Threads
<1>2. main[p].pc = "claiming" /\ call[p]["main"].at = "back"
      /\ UNCHANGED <<workerOf, row, session, late, losses>>
  BY DEF Answered
<1>3. reply \in ReplySet /\ reply.claim \in Claims
  BY <1>1, <1>2, CallTypes DEF ReplySet
<1>4. /\ call' \in [Processes -> [Threads -> CallSet]]
      /\ call'[p]["main"] = Silent /\ BeatCallKept(p)
      /\ \A q \in Processes : q # p => call'[q] = call[q]
  BY CallTypes, CallType DEF Threads, BeatCallKept, Answered
<1>5. CASE reply.kind = "task"
  <2>1. Goto(p, "working", reply.claim) /\ Update(p, Report(reply.claim, "preparing"))
    BY <1>5 DEF Answered
  <2>2. Report(reply.claim, "preparing") \in ReportSet
        /\ Report(reply.claim, "preparing").claim = reply.claim
    BY <1>3, MessageTypes
  <2>3. /\ main' \in [Processes -> MainSet] /\ main'[p].pc = "working" /\ main'[p].claim = reply.claim
        /\ \A q \in Processes : q # p => main'[q] = main[q]
    BY <1>3, <2>1, GotoType
  <2>4. /\ beat' \in [Processes -> BeatSet] /\ beat'[p].pc = beat[p].pc /\ beat'[p].snap = beat[p].snap
        /\ beat'[p].state.claim = reply.claim /\ beat'[p].wake
        /\ \A q \in Processes : q # p => beat'[q] = beat[q]
    BY <2>1, <2>2, UpdateType
  <2>5. TypeInv'
    BY <1>2, <1>4, <2>3, <2>4 DEF TypeInv
  <2> QED
    BY <1>2, <1>4, <1>5, <2>3, <2>4, <2>5 DEF OnlyOf, QueueKept
<1>6. CASE reply.kind # "task"
  <2>1. Goto(p, "poll", NoClaim) /\ beat' = beat
    BY <1>6 DEF Answered
  <2>2. /\ main' \in [Processes -> MainSet] /\ main'[p].pc = "poll" /\ main'[p].claim = NoClaim
        /\ \A q \in Processes : q # p => main'[q] = main[q]
    BY <2>1, GotoType, ClaimTypes
  <2>3. TypeInv'
    BY <1>2, <1>4, <2>1, <2>2 DEF TypeInv
  <2> QED
    BY <1>2, <1>4, <1>6, <2>1, <2>2, <2>3 DEF OnlyOf, QueueKept
<1> QED
  BY <1>5, <1>6

LEMMA ProgressDoes ==
    ASSUME TypeInv, NEW p \in Processes, Progress(p)
    PROVE  /\ TypeInv' /\ OnlyOf(p) /\ QueueKept /\ main' = main /\ call' = call /\ late' = late
           /\ main[p].pc = "working"
           /\ beat'[p].pc = beat[p].pc /\ beat'[p].snap = beat[p].snap
           /\ beat'[p].state.claim = main[p].claim
           /\ beat'[p].wake
<1>1. Update(p, Report(main[p].claim, "rendering")) /\ main[p].pc = "working"
      /\ UNCHANGED <<workerOf, row, session, main, call, late, losses>>
  BY DEF Progress
<1>2. main[p].claim \in Claims
  BY DEF TypeInv, MainSet
<1>3. Report(main[p].claim, "rendering") \in ReportSet
      /\ Report(main[p].claim, "rendering").claim = main[p].claim
  BY <1>2, MessageTypes
<1>4. /\ beat' \in [Processes -> BeatSet] /\ beat'[p].pc = beat[p].pc /\ beat'[p].snap = beat[p].snap
      /\ beat'[p].state.claim = main[p].claim /\ beat'[p].wake
      /\ \A q \in Processes : q # p => beat'[q] = beat[q]
  BY <1>1, <1>3, UpdateType
<1>5. TypeInv'
  BY <1>1, <1>4 DEF TypeInv
<1> QED
  BY <1>1, <1>4, <1>5 DEF OnlyOf, QueueKept

LEMMA FinishDoes ==
    ASSUME TypeInv, NEW p \in Processes, Finish(p)
    PROVE  /\ TypeInv' /\ OnlyOf(p) /\ QueueKept /\ beat' = beat /\ late' = late
           /\ main[p].pc = "working" /\ main'[p].pc = "reporting" /\ main'[p].claim = main[p].claim
           /\ call'[p]["main"] = Sent(FinishRequest(p, main[p].claim)) /\ BeatCallKept(p)
<1>1. main[p] \in MainSet /\ main[p].claim \in Claims
  BY DEF TypeInv, MainSet
<1>2. Sent(FinishRequest(p, main[p].claim)) \in CallSet
  BY <1>1, CallTypes, MessageTypes
<1>3. call' = [call EXCEPT ![p]["main"] = Sent(FinishRequest(p, main[p].claim))]
  BY DEF Finish
<1>4. /\ call' \in [Processes -> [Threads -> CallSet]]
      /\ call'[p]["main"] = Sent(FinishRequest(p, main[p].claim)) /\ BeatCallKept(p)
      /\ \A q \in Processes : q # p => call'[q] = call[q]
  BY <1>2, <1>3, CallType DEF Threads, BeatCallKept
<1> DEFINE new == [main[p] EXCEPT !.pc = "reporting"]
<1>5. new \in MainSet /\ new.pc = "reporting" /\ new.claim = main[p].claim
  BY <1>1 DEF MainSet
<1>6. main' = [main EXCEPT ![p] = new]
  BY DEF Finish, TypeInv
<1> HIDE DEF new
<1>7. main' \in [Processes -> MainSet] /\ main'[p] = new
      /\ \A q \in Processes : q # p => main'[q] = main[q]
  BY <1>5, <1>6 DEF TypeInv
<1>8. UNCHANGED <<workerOf, row, session, beat, late, losses>> /\ main[p].pc = "working"
  BY DEF Finish
<1>9. TypeInv'
  BY <1>4, <1>7, <1>8 DEF TypeInv
<1> QED
  BY <1>4, <1>5, <1>7, <1>8, <1>9 DEF OnlyOf, QueueKept

LEMMA ReportedDoes ==
    ASSUME TypeInv, NEW p \in Processes, Reported(p)
    PROVE  /\ TypeInv' /\ OnlyOf(p) /\ QueueKept /\ late' = late
           /\ main[p].pc = "reporting" /\ main'[p].pc = "poll" /\ main'[p].claim = NoClaim
           /\ call'[p]["main"] = Silent /\ BeatCallKept(p)
           /\ beat'[p].pc = beat[p].pc /\ beat'[p].snap = beat[p].snap
           /\ beat'[p].state = IdleReport
<1>1. main[p].pc = "reporting" /\ UNCHANGED <<workerOf, row, session, late, losses>>
  BY DEF Reported
<1>2. /\ call' \in [Processes -> [Threads -> CallSet]]
      /\ call'[p]["main"] = Silent /\ BeatCallKept(p)
      /\ \A q \in Processes : q # p => call'[q] = call[q]
  BY CallTypes, CallType DEF Threads, BeatCallKept, Reported
<1>3. /\ main' \in [Processes -> MainSet] /\ main'[p].pc = "poll" /\ main'[p].claim = NoClaim
      /\ \A q \in Processes : q # p => main'[q] = main[q]
  BY GotoType, ClaimTypes DEF Reported
<1>4. /\ beat' \in [Processes -> BeatSet] /\ beat'[p].pc = beat[p].pc /\ beat'[p].snap = beat[p].snap
      /\ beat'[p].state = IdleReport
      /\ \A q \in Processes : q # p => beat'[q] = beat[q]
  BY UpdateType, MessageTypes DEF Reported
<1>5. TypeInv'
  BY <1>1, <1>2, <1>3, <1>4 DEF TypeInv
<1> QED
  BY <1>1, <1>2, <1>3, <1>4, <1>5 DEF OnlyOf, QueueKept
\* A step of the thread to a place of its loop.
LEMMA BeatGoes ==
    ASSUME TypeInv, NEW p \in Processes,
           NEW pc \in {"snap", "sending", "waiting", "clearing"}, NEW new \in BeatSet,
           new.pc = pc, new.state = beat[p].state, beat' = [beat EXCEPT ![p] = new]
    PROVE  /\ beat' \in [Processes -> BeatSet]
           /\ beat'[p].pc = pc /\ beat'[p].state = beat[p].state /\ beat'[p].snap = new.snap
           /\ \A q \in Processes : q # p => beat'[q] = beat[q]
BY BeatChange

LEMMA SnapshotDoes ==
    ASSUME TypeInv, NEW p \in Processes, Snapshot(p)
    PROVE  /\ TypeInv' /\ OnlyOf(p) /\ QueueKept /\ main' = main /\ late' = late
           /\ beat[p].pc = "snap" /\ beat'[p].pc = "sending"
           /\ beat'[p].state = beat[p].state /\ beat'[p].snap = beat[p].state
           /\ call'[p]["beat"] = Sent(BeatRequest(p, beat[p].state.claim)) /\ MainCallKept(p)
<1>1. beat[p] \in BeatSet /\ beat[p].state \in ReportSet /\ beat[p].state.claim \in Claims
  BY DEF TypeInv, BeatSet, ReportSet
<1> DEFINE new == [beat[p] EXCEPT !.pc = "sending", !.snap = beat[p].state]
<1>2. new \in BeatSet /\ new.pc = "sending" /\ new.state = beat[p].state /\ new.snap = beat[p].state
  BY <1>1 DEF BeatSet
<1>3. beat' = [beat EXCEPT ![p] = new]
  BY DEF Snapshot, TypeInv
<1> HIDE DEF new
<1>4. /\ beat' \in [Processes -> BeatSet]
      /\ beat'[p].pc = "sending" /\ beat'[p].state = beat[p].state /\ beat'[p].snap = beat[p].state
      /\ \A q \in Processes : q # p => beat'[q] = beat[q]
  BY <1>2, <1>3, BeatGoes
<1>5. Sent(BeatRequest(p, beat[p].state.claim)) \in CallSet
  BY <1>1, CallTypes, MessageTypes
<1>6. call' = [call EXCEPT ![p]["beat"] = Sent(BeatRequest(p, beat[p].state.claim))]
  BY DEF Snapshot
<1>7. /\ call' \in [Processes -> [Threads -> CallSet]]
      /\ call'[p]["beat"] = Sent(BeatRequest(p, beat[p].state.claim)) /\ MainCallKept(p)
      /\ \A q \in Processes : q # p => call'[q] = call[q]
  BY <1>5, <1>6, CallType DEF Threads, MainCallKept
<1>8. UNCHANGED <<workerOf, row, session, main, late, losses>> /\ beat[p].pc = "snap"
  BY DEF Snapshot
<1>9. TypeInv'
  BY <1>4, <1>7, <1>8 DEF TypeInv
<1> QED
  BY <1>4, <1>7, <1>8, <1>9 DEF OnlyOf, QueueKept

LEMMA BeatenDoes ==
    ASSUME TypeInv, NEW p \in Processes, Beaten(p)
    PROVE  /\ TypeInv' /\ OnlyOf(p) /\ QueueKept /\ main' = main /\ late' = late
           /\ beat[p].pc = "sending" /\ call[p]["beat"].at = "back" /\ beat'[p].pc = "waiting"
           /\ beat'[p].state = beat[p].state /\ beat'[p].snap = beat[p].snap
           /\ call'[p]["beat"] = Silent /\ MainCallKept(p)
<1>1. beat[p] \in BeatSet
  BY DEF TypeInv
<1> DEFINE new == [beat[p] EXCEPT !.pc = "waiting", !.due = FALSE]
<1>2. new \in BeatSet /\ new.pc = "waiting" /\ new.state = beat[p].state /\ new.snap = beat[p].snap
  BY <1>1 DEF BeatSet
<1>3. beat' = [beat EXCEPT ![p] = new]
  BY DEF Beaten, TypeInv
<1> HIDE DEF new
<1>4. /\ beat' \in [Processes -> BeatSet]
      /\ beat'[p].pc = "waiting" /\ beat'[p].state = beat[p].state /\ beat'[p].snap = beat[p].snap
      /\ \A q \in Processes : q # p => beat'[q] = beat[q]
  BY <1>2, <1>3, BeatGoes
<1>5. call' = [call EXCEPT ![p]["beat"] = Silent]
  BY DEF Beaten
<1>6. /\ call' \in [Processes -> [Threads -> CallSet]]
      /\ call'[p]["beat"] = Silent /\ MainCallKept(p)
      /\ \A q \in Processes : q # p => call'[q] = call[q]
  BY <1>5, CallTypes, CallType DEF Threads, MainCallKept
<1>7. /\ UNCHANGED <<workerOf, row, session, main, late, losses>>
      /\ beat[p].pc = "sending" /\ call[p]["beat"].at = "back"
  BY DEF Beaten
<1>8. TypeInv'
  BY <1>4, <1>6, <1>7 DEF TypeInv
<1> QED
  BY <1>4, <1>6, <1>7, <1>8 DEF OnlyOf, QueueKept

LEMMA WakeUpOrClearDoes ==
    ASSUME TypeInv, NEW p \in Processes, WakeUp(p) \/ Clear(p)
    PROVE  /\ TypeInv' /\ OnlyOf(p) /\ QueueKept /\ main' = main /\ call' = call /\ late' = late
           /\ beat[p].pc \in {"waiting", "clearing"} /\ beat'[p].pc \in {"clearing", "snap"}
           /\ beat'[p].state = beat[p].state /\ beat'[p].snap = beat[p].snap
<1>1. beat[p] \in BeatSet
  BY DEF TypeInv
<1>2. UNCHANGED <<workerOf, row, session, main, call, late, losses>>
  BY DEF WakeUp, Clear
<1>3. CASE WakeUp(p)
  <2> DEFINE new == [beat[p] EXCEPT !.pc = "clearing"]
  <2>1. new \in BeatSet /\ new.pc = "clearing" /\ new.state = beat[p].state /\ new.snap = beat[p].snap
    BY <1>1 DEF BeatSet
  <2>2. beat' = [beat EXCEPT ![p] = new] /\ beat[p].pc = "waiting"
    BY <1>3 DEF WakeUp, TypeInv
  <2> HIDE DEF new
  <2>3. /\ beat' \in [Processes -> BeatSet]
        /\ beat'[p].pc = "clearing" /\ beat'[p].state = beat[p].state /\ beat'[p].snap = beat[p].snap
        /\ \A q \in Processes : q # p => beat'[q] = beat[q]
    BY <2>1, <2>2, BeatGoes
  <2>4. TypeInv'
    BY <1>2, <2>3 DEF TypeInv
  <2> QED
    BY <1>2, <2>2, <2>3, <2>4 DEF OnlyOf, QueueKept
<1>4. CASE Clear(p)
  <2> DEFINE new == [beat[p] EXCEPT !.pc = "snap", !.wake = FALSE]
  <2>1. new \in BeatSet /\ new.pc = "snap" /\ new.state = beat[p].state /\ new.snap = beat[p].snap
    BY <1>1 DEF BeatSet
  <2>2. beat' = [beat EXCEPT ![p] = new] /\ beat[p].pc = "clearing"
    BY <1>4 DEF Clear, TypeInv
  <2> HIDE DEF new
  <2>3. /\ beat' \in [Processes -> BeatSet]
        /\ beat'[p].pc = "snap" /\ beat'[p].state = beat[p].state /\ beat'[p].snap = beat[p].snap
        /\ \A q \in Processes : q # p => beat'[q] = beat[q]
    BY <2>1, <2>2, BeatGoes
  <2>4. TypeInv'
    BY <1>2, <2>3 DEF TypeInv
  <2> QED
    BY <1>2, <2>2, <2>3, <2>4 DEF OnlyOf, QueueKept
<1> QED
  BY <1>3, <1>4

LEMMA CrashDoes ==
    ASSUME TypeInv, NEW p \in Processes, Crash(p)
    PROVE  /\ TypeInv' /\ OnlyOf(p) /\ QueueKept
           /\ main'[p].pc = "dead" /\ main'[p].claim = NoClaim
           /\ beat'[p].pc = "dead" /\ beat'[p].state = IdleReport /\ beat'[p].snap = IdleReport
           /\ call'[p]["main"] = Silent /\ call'[p]["beat"] = Silent
           /\ \/ late' = late
              \/ \E h \in Threads :
                   call[p][h].at = "sent" /\ late' = late \cup {call[p][h].request}
<1> DEFINE new == [pc |-> "dead", state |-> IdleReport, snap |-> IdleReport,
                   wake |-> FALSE, due |-> FALSE]
           quiet == [h \in Threads |-> Silent]
<1>1. new \in BeatSet /\ new.pc = "dead" /\ new.state = IdleReport /\ new.snap = IdleReport
  BY MessageTypes DEF BeatSet
<1>2. beat' = [beat EXCEPT ![p] = new] /\ call' = [call EXCEPT ![p] = quiet]
  BY DEF Crash
<1>3. quiet \in [Threads -> CallSet] /\ quiet["main"] = Silent /\ quiet["beat"] = Silent
  BY CallTypes DEF Threads
<1> HIDE DEF new, quiet
<1>4. /\ beat' \in [Processes -> BeatSet] /\ beat'[p] = new
      /\ \A q \in Processes : q # p => beat'[q] = beat[q]
  BY <1>1, <1>2, BeatChange
<1>5. /\ call' \in [Processes -> [Threads -> CallSet]] /\ call'[p] = quiet
      /\ \A q \in Processes : q # p => call'[q] = call[q]
  BY <1>2, <1>3 DEF TypeInv
<1>6. /\ main' \in [Processes -> MainSet] /\ main'[p].pc = "dead" /\ main'[p].claim = NoClaim
      /\ \A q \in Processes : q # p => main'[q] = main[q]
  BY GotoType, ClaimTypes DEF Crash
<1>7. \/ late' = late
      \/ \E h \in Threads : call[p][h].at = "sent" /\ late' = late \cup {call[p][h].request}
  BY DEF Crash
<1>8. \A h \in Threads : call[p][h].at = "sent" => call[p][h].request \in RequestSet
  BY CallTypes DEF TypeInv
<1>9. late' \subseteq RequestSet
  BY <1>7, <1>8 DEF TypeInv
<1>10. UNCHANGED <<workerOf, row, session, losses>>
  BY DEF Crash
<1>11. TypeInv'
  BY <1>4, <1>5, <1>6, <1>9, <1>10 DEF TypeInv
<1>12. OnlyOf(p) /\ QueueKept
  BY <1>4, <1>5, <1>6, <1>10 DEF OnlyOf, QueueKept
<1> QED
  BY <1>1, <1>3, <1>4, <1>5, <1>6, <1>7, <1>11, <1>12

LEMMA ServeDoes ==
    ASSUME TypeInv, NEW p \in Processes, NEW h \in Threads, Serve(p, h)
    PROVE  /\ TypeInv' /\ OnlyOf(p) /\ main' = main /\ beat' = beat /\ late' = late
           /\ losses' = losses
           /\ call[p][h].at = "sent" /\ call[p][h].request \in RequestSet
           /\ \A g \in Threads : g # h => call'[p][g] = call[p][g]
           /\ \E reply \in Replies :
                /\ Served(call[p][h].request, reply)
                /\ reply \in ReplySet
                /\ call'[p][h].at = "back" /\ call'[p][h].reply = reply
<1>1. call[p][h] \in CallSet /\ call[p][h].at = "sent"
  BY DEF TypeInv, Serve
<1>2. call[p][h].request \in RequestSet
  BY <1>1, CallTypes
<1>3. PICK reply \in Replies : /\ Served(call[p][h].request, reply)
                               /\ call' = [call EXCEPT ![p][h] = Back(reply)]
  BY DEF Serve
<1>4. row' \in [Tasks -> RowSet] /\ session' = session /\ reply \in ReplySet
  BY <1>2, <1>3, RequestServed
<1>5. Back(reply) \in CallSet /\ Back(reply).at = "back" /\ Back(reply).reply = reply
  BY <1>4, CallTypes
<1>6. /\ call' \in [Processes -> [Threads -> CallSet]]
      /\ call'[p][h] = Back(reply)
      /\ \A g \in Threads : g # h => call'[p][g] = call[p][g]
      /\ \A q \in Processes : q # p => call'[q] = call[q]
  BY <1>3, <1>5, CallType
<1>7. UNCHANGED <<workerOf, main, beat, late, losses>>
  BY DEF Serve
<1>8. TypeInv'
  BY <1>4, <1>6, <1>7 DEF TypeInv
<1>9. OnlyOf(p)
  BY <1>6, <1>7 DEF OnlyOf
<1> QED
  BY <1>1, <1>2, <1>3, <1>4, <1>5, <1>6, <1>7, <1>8, <1>9

LEMMA ServeLateDoes ==
    ASSUME TypeInv, NEW r \in late, ServeLate(r)
    PROVE  /\ TypeInv' /\ UNCHANGED <<workerOf, main, beat, call, losses>>
           /\ late' \subseteq late /\ r \in RequestSet
           /\ \E reply \in Replies : Served(r, reply)
<1>1. r \in RequestSet
  BY DEF TypeInv
<1>2. PICK reply \in Replies : Served(r, reply)
  BY DEF ServeLate
<1>3. row' \in [Tasks -> RowSet] /\ session' = session
  BY <1>1, <1>2, RequestServed
<1>4. UNCHANGED <<workerOf, main, beat, call, losses>> /\ late' \subseteq late
  BY DEF ServeLate
<1>5. TypeInv'
  BY <1>3, <1>4 DEF TypeInv
<1> QED
  BY <1>1, <1>2, <1>4, <1>5

LEMMA NetworkErrorDoes ==
    ASSUME TypeInv, NEW p \in Processes, NEW h \in Threads, NetworkError(p, h)
    PROVE  /\ TypeInv' /\ OnlyOf(p) /\ main' = main /\ beat' = beat /\ row' = row
           /\ session' = session /\ losses' = losses + 1
           /\ call[p][h].at # "none"
           /\ \/ late' = late
              \/ call[p][h].at = "sent" /\ late' = late \cup {call[p][h].request}
           /\ call'[p][h].at = "back" /\ call'[p][h].reply = Reply("unreachable")
           /\ \A g \in Threads : g # h => call'[p][g] = call[p][g]
<1> DEFINE reply == Reply("unreachable")
<1>1. call[p][h] \in CallSet
  BY DEF TypeInv
<1>2. reply \in ReplySet
  BY MessageTypes
<1>3. Back(reply) \in CallSet /\ Back(reply).at = "back" /\ Back(reply).reply = reply
  BY <1>2, CallTypes
<1>4. call' = [call EXCEPT ![p][h] = Back(reply)]
  BY DEF NetworkError
<1>5. /\ call' \in [Processes -> [Threads -> CallSet]]
      /\ call'[p][h] = Back(reply)
      /\ \A g \in Threads : g # h => call'[p][g] = call[p][g]
      /\ \A q \in Processes : q # p => call'[q] = call[q]
  BY <1>3, <1>4, CallType
<1>6. UNCHANGED <<workerOf, row, session, main, beat>> /\ losses' = losses + 1
  BY DEF NetworkError
<1>7. /\ call[p][h].at # "none"
      /\ late' = late \/ (call[p][h].at = "sent" /\ late' = late \cup {call[p][h].request})
  BY DEF NetworkError
<1>8. call[p][h].at = "sent" => call[p][h].request \in RequestSet
  BY <1>1, CallTypes
<1>9. late' \subseteq RequestSet
  BY <1>7, <1>8 DEF TypeInv
<1>10. losses' \in Nat
  BY <1>6 DEF TypeInv
<1>11. TypeInv'
  BY <1>5, <1>6, <1>9, <1>10 DEF TypeInv
<1>12. OnlyOf(p)
  BY <1>5, <1>6 DEF OnlyOf
<1> QED
  BY <1>3, <1>5, <1>6, <1>7, <1>11, <1>12

LEMMA SubmitDoes ==
    ASSUME TypeInv, NEW t \in Tasks, Submit(t)
    PROVE  /\ TypeInv' /\ UNCHANGED <<workerOf, session, main, beat, call, late, losses>>
           /\ row[t].status = "unborn"
           /\ \A u \in Tasks : u # t => row'[u] = row[u]
<1>1. row' = [row EXCEPT ![t] = Queued] /\ row[t].status = "unborn"
      /\ UNCHANGED <<workerOf, session, main, beat, call, late, losses>>
  BY DEF Submit
<1>2. Queued \in RowSet
  BY DEF Queued, RowSet
<1>3. row' \in [Tasks -> RowSet] /\ \A u \in Tasks : u # t => row'[u] = row[u]
  BY <1>1, <1>2 DEF TypeInv
<1>4. TypeInv'
  BY <1>1, <1>3 DEF TypeInv
<1> QED
  BY <1>1, <1>3, <1>4

LEMMA TickDoes ==
    ASSUME TypeInv, Tick
    PROVE  /\ TypeInv' /\ UNCHANGED <<workerOf, session, main, call, late, losses>>
           /\ \A p \in Processes : Resting(p)
           /\ \A p \in Processes :
                /\ beat'[p].pc = beat[p].pc /\ beat'[p].state = beat[p].state
                /\ beat'[p].snap = beat[p].snap
                /\ beat[p].pc = "waiting" => beat'[p].due
           /\ \A t \in Tasks :
                IF row[t].status = "claimed"
                THEN row'[t] = [row[t] EXCEPT !.lease = Older(row[t].lease)]
                ELSE row'[t] = row[t]
<1>1. /\ UNCHANGED <<workerOf, session, main, call, late, losses>>
      /\ \A p \in Processes : Resting(p)
      /\ row' = [t \in Tasks |-> IF row[t].status = "claimed"
                                 THEN [row[t] EXCEPT !.lease = Older(row[t].lease)] ELSE row[t]]
      /\ beat' = [p \in Processes |->
                    IF beat[p].pc = "waiting" THEN [beat[p] EXCEPT !.due = TRUE] ELSE beat[p]]
  BY DEF Tick
<1>2. \A t \in Tasks : row'[t] \in RowSet
  <2>1. SUFFICES ASSUME NEW t \in Tasks PROVE row'[t] \in RowSet
    OBVIOUS
  <2>2. row[t] \in RowSet /\ row[t].lease \in Nat \cup {Overdue}
    BY DEF TypeInv, RowSet
  <2>3. Older(row[t].lease) \in Nat \cup {Overdue}
    BY <2>2 DEF Older, Overdue
  <2>4. [row[t] EXCEPT !.lease = Older(row[t].lease)] \in RowSet
    BY <2>2, <2>3 DEF RowSet
  <2> QED
    BY <1>1, <2>2, <2>4
<1>3. row' \in [Tasks -> RowSet]
  BY <1>1, <1>2
<1>4. \A p \in Processes :
        /\ beat'[p] \in BeatSet
        /\ beat'[p].pc = beat[p].pc /\ beat'[p].state = beat[p].state
        /\ beat'[p].snap = beat[p].snap
        /\ beat[p].pc = "waiting" => beat'[p].due
  <2>1. SUFFICES ASSUME NEW p \in Processes
                 PROVE  /\ beat'[p] \in BeatSet
                        /\ beat'[p].pc = beat[p].pc /\ beat'[p].state = beat[p].state
                        /\ beat'[p].snap = beat[p].snap
                        /\ beat[p].pc = "waiting" => beat'[p].due
    OBVIOUS
  <2>2. beat[p] \in BeatSet
    BY DEF TypeInv
  <2> DEFINE new == [beat[p] EXCEPT !.due = TRUE]
  <2>3. new \in BeatSet /\ new.pc = beat[p].pc /\ new.state = beat[p].state
        /\ new.snap = beat[p].snap
    BY <2>2 DEF BeatSet
  <2>4. new.due
    BY <2>2 DEF BeatSet
  <2>5. beat'[p] = IF beat[p].pc = "waiting" THEN new ELSE beat[p]
    BY <1>1
  <2> HIDE DEF new
  <2> QED
    BY <2>2, <2>3, <2>4, <2>5
<1>5. beat' \in [Processes -> BeatSet]
  BY <1>1, <1>4
<1>6. TypeInv'
  BY <1>1, <1>3, <1>5 DEF TypeInv
<1>7. \A t \in Tasks :
        IF row[t].status = "claimed"
        THEN row'[t] = [row[t] EXCEPT !.lease = Older(row[t].lease)]
        ELSE row'[t] = row[t]
  BY <1>1
<1> QED
  BY <1>1, <1>4, <1>6, <1>7
\* A step is a step of one process, or of none.
LEMMA StepCases ==
    ASSUME [Next]_vars
    PROVE  \/ \E t \in Tasks : Submit(t)
           \/ \E p \in Processes :
                \/ Start(p) \/ Poll(p) \/ Answered(p) \/ Progress(p) \/ Finish(p) \/ Reported(p)
                \/ Snapshot(p) \/ Beaten(p) \/ WakeUp(p) \/ Clear(p) \/ Crash(p)
                \/ \E h \in Threads : Serve(p, h) \/ NetworkError(p, h)
           \/ \E r \in late : ServeLate(r)
           \/ Tick
           \/ UNCHANGED vars
BY DEF Next, MainStep, BeatStep

LEMMA TypeInit == Init => TypeInv
<1> SUFFICES ASSUME Init PROVE TypeInv
  OBVIOUS
<1>1. workerOf \in [Processes -> Workers]
  BY WorkerAssumption DEF Init, WorkerAssumption
<1>2. [Queued EXCEPT !.status = "unborn"] \in RowSet
  BY DEF Queued, RowSet
<1>3. row \in [Tasks -> RowSet] /\ session \in [Workers -> Processes \cup {None}]
  BY <1>2 DEF Init
<1>4. [pc |-> "off", claim |-> NoClaim] \in MainSet
  BY ClaimTypes DEF MainSet
<1>5. [pc |-> "off", state |-> IdleReport, snap |-> IdleReport, wake |-> FALSE, due |-> FALSE]
        \in BeatSet
  BY MessageTypes DEF BeatSet
<1>6. main \in [Processes -> MainSet] /\ beat \in [Processes -> BeatSet]
  BY <1>4, <1>5 DEF Init
<1>7. call \in [Processes -> [Threads -> CallSet]]
  BY CallTypes DEF Init
<1>8. late = {} /\ losses = 0
  BY DEF Init
<1> QED
  BY <1>1, <1>3, <1>6, <1>7, <1>8 DEF TypeInv

LEMMA TypeNext == ASSUME TypeInv, [Next]_vars PROVE TypeInv'
<1>1. UNCHANGED vars => TypeInv'
  BY DEF vars, TypeInv
<1>2. ASSUME NEW p \in Processes, NEW h \in Threads, Serve(p, h) \/ NetworkError(p, h)
      PROVE  TypeInv'
  BY <1>2, ServeDoes, NetworkErrorDoes
<1>3. ASSUME NEW p \in Processes,
             \/ Start(p) \/ Poll(p) \/ Answered(p) \/ Progress(p) \/ Finish(p) \/ Reported(p)
             \/ Snapshot(p) \/ Beaten(p) \/ WakeUp(p) \/ Clear(p) \/ Crash(p)
      PROVE  TypeInv'
  BY <1>3, StartDoes, PollDoes, AnsweredDoes, ProgressDoes, FinishDoes, ReportedDoes,
     SnapshotDoes, BeatenDoes, WakeUpOrClearDoes, CrashDoes
<1>4. (\E t \in Tasks : Submit(t)) \/ (\E r \in late : ServeLate(r)) \/ Tick => TypeInv'
  BY SubmitDoes, ServeLateDoes, TickDoes
<1> QED
  BY <1>1, <1>2, <1>3, <1>4, StepCases

-----------------------------------------------------------------------------
(* Where the threads are, and what they have asked for.                    *)

Busy(p) == main[p].pc \in {"working", "reporting"}
Granted(p) == call[p]["main"].at = "back" /\ call[p]["main"].reply.kind = "task"

\* A loop has a claim while it works and reports, the thread's state names the
\* claim that is worked on, and the thread runs while the loop does.
ThreadOk(p) ==
    /\ Busy(p) <=> main[p].claim # NoClaim
    /\ main[p].pc = "working" => beat[p].state.claim = main[p].claim
    /\ Up(p) <=> beat[p].pc \notin {"off", "dead"}

\* The loop waits for a claim or for the answer to its report, the thread for
\* the answer to its heartbeat.
MainCallOk(p) ==
    /\ call[p]["main"].at # "none" => main[p].pc \in {"claiming", "reporting"}
    /\ call[p]["main"].at = "sent" =>
         call[p]["main"].request =
           IF main[p].pc = "reporting" THEN FinishRequest(p, main[p].claim) ELSE ClaimRequest(p)
    /\ Granted(p) => main[p].pc = "claiming" /\ call[p]["main"].reply.claim \in TaskClaims
    /\ call[p]["main"].at = "back" /\ ~Granted(p) => call[p]["main"].reply.claim = NoClaim

BeatCallOk(p) ==
    /\ beat[p].pc = "sending" <=> call[p]["beat"].at # "none"
    /\ call[p]["beat"].at = "sent" =>
         call[p]["beat"].request = BeatRequest(p, beat[p].snap.claim)
    /\ call[p]["beat"].at = "back" => call[p]["beat"].reply.claim = NoClaim

Control(p) == ThreadOk(p) /\ MainCallOk(p) /\ BeatCallOk(p)
ControlInv == \A p \in Processes : Control(p)

\* Control depends on what the process has.
LEMMA ControlKept ==
    ASSUME NEW p \in Processes, Control(p), main'[p] = main[p], beat'[p] = beat[p],
           call'[p] = call[p]
    PROVE  Control(p)'
BY DEF Control, ThreadOk, MainCallOk, BeatCallOk, Busy, Granted, Up

LEMMA MainCallKeeps ==
    ASSUME NEW p \in Processes, MainCallOk(p), main'[p].pc = main[p].pc,
           main'[p].claim = main[p].claim, MainCallKept(p)
    PROVE  MainCallOk(p)'
BY DEF MainCallOk, Granted, MainCallKept

LEMMA BeatCallKeeps ==
    ASSUME NEW p \in Processes, BeatCallOk(p), beat'[p].pc = beat[p].pc,
           beat'[p].snap = beat[p].snap, BeatCallKept(p)
    PROVE  BeatCallOk(p)'
BY DEF BeatCallOk, BeatCallKept

\* A loop whose call is over or not made.
LEMMA MainSilent ==
    ASSUME NEW p \in Processes, call'[p]["main"] = Silent PROVE MainCallOk(p)'
BY CallTypes DEF MainCallOk, Granted

\* The control of the process that steps.
LEMMA OwnControl ==
    ASSUME TypeInv, NEW p \in Processes, Control(p),
           \/ Start(p) \/ Poll(p) \/ Answered(p) \/ Progress(p) \/ Finish(p) \/ Reported(p)
           \/ Snapshot(p) \/ Beaten(p) \/ WakeUp(p) \/ Clear(p) \/ Crash(p)
    PROVE  Control(p)'
<1> USE DEF Control
<1>1. CASE Start(p)
  <2>1. call[p]["main"].at = "none" /\ call[p]["beat"].at = "none"
    BY <1>1, StartDoes, CallTypes DEF ThreadOk, MainCallOk, BeatCallOk, TypeInv, Threads, Up
  <2>2. ThreadOk(p)'
    BY <1>1, StartDoes DEF ThreadOk, Up, Busy
  <2>3. MainCallOk(p)' /\ BeatCallOk(p)'
    BY <1>1, <2>1, StartDoes DEF MainCallOk, BeatCallOk, Granted
  <2> QED
    BY <2>2, <2>3
<1>2. CASE Poll(p)
  <2>1. ThreadOk(p)'
    BY <1>2, PollDoes DEF ThreadOk, Up, Busy
  <2>2. ClaimRequest(p) \in RequestSet
    BY MessageTypes
  <2>3. MainCallOk(p)'
    BY <1>2, <2>2, PollDoes, CallTypes DEF MainCallOk, Granted
  <2>4. BeatCallOk(p)'
    BY <1>2, PollDoes, BeatCallKeeps
  <2> QED
    BY <2>1, <2>3, <2>4
<1>3. CASE Answered(p)
  <2>1. MainCallOk(p)'
    BY <1>3, AnsweredDoes, MainSilent
  <2>2. BeatCallOk(p)'
    BY <1>3, AnsweredDoes, BeatCallKeeps
  <2>3. call[p]["main"].reply.kind = "task" => call[p]["main"].reply.claim # NoClaim
    BY <1>3, AnsweredDoes, ClaimTypes DEF MainCallOk, Granted
  <2>4. ThreadOk(p)'
    BY <1>3, <2>3, AnsweredDoes DEF ThreadOk, Up, Busy
  <2> QED
    BY <2>1, <2>2, <2>4
<1>4. CASE Progress(p)
  <2>1. MainCallOk(p)' /\ BeatCallOk(p)'
    BY <1>4, ProgressDoes, MainCallKeeps, BeatCallKeeps DEF MainCallKept, BeatCallKept
  <2>2. ThreadOk(p)'
    BY <1>4, ProgressDoes DEF ThreadOk, Up, Busy
  <2> QED
    BY <2>1, <2>2
<1>5. CASE Finish(p)
  <2>1. main[p].claim \in Claims
    BY DEF TypeInv, MainSet
  <2>2. FinishRequest(p, main[p].claim) \in RequestSet
    BY <2>1, MessageTypes
  <2>3. MainCallOk(p)'
    BY <1>5, <2>2, FinishDoes, CallTypes DEF MainCallOk, Granted
  <2>4. BeatCallOk(p)'
    BY <1>5, FinishDoes, BeatCallKeeps
  <2>5. ThreadOk(p)'
    BY <1>5, FinishDoes DEF ThreadOk, Up, Busy
  <2> QED
    BY <2>3, <2>4, <2>5
<1>6. CASE Reported(p)
  <2>1. MainCallOk(p)' /\ BeatCallOk(p)'
    BY <1>6, ReportedDoes, MainSilent, BeatCallKeeps
  <2>2. ThreadOk(p)'
    BY <1>6, ReportedDoes DEF ThreadOk, Up, Busy
  <2> QED
    BY <2>1, <2>2
<1>7. CASE Snapshot(p)
  <2>1. beat[p].state.claim \in Claims
    BY DEF TypeInv, BeatSet, ReportSet
  <2>2. BeatRequest(p, beat[p].state.claim) \in RequestSet
    BY <2>1, MessageTypes
  <2>3. BeatCallOk(p)'
    BY <1>7, <2>2, SnapshotDoes, CallTypes DEF BeatCallOk
  <2>4. MainCallOk(p)'
    BY <1>7, SnapshotDoes, MainCallKeeps
  <2>5. ThreadOk(p)'
    BY <1>7, SnapshotDoes DEF ThreadOk, Up, Busy
  <2> QED
    BY <2>3, <2>4, <2>5
<1>8. CASE Beaten(p)
  <2>1. BeatCallOk(p)'
    BY <1>8, BeatenDoes, CallTypes DEF BeatCallOk
  <2>2. MainCallOk(p)'
    BY <1>8, BeatenDoes, MainCallKeeps
  <2>3. ThreadOk(p)'
    BY <1>8, BeatenDoes DEF ThreadOk, Up, Busy
  <2> QED
    BY <2>1, <2>2, <2>3
<1>9. CASE WakeUp(p) \/ Clear(p)
  <2>1. BeatCallOk(p)'
    BY <1>9, WakeUpOrClearDoes DEF BeatCallOk
  <2>2. MainCallOk(p)'
    BY <1>9, WakeUpOrClearDoes, MainCallKeeps DEF MainCallKept
  <2>3. ThreadOk(p)'
    BY <1>9, WakeUpOrClearDoes DEF ThreadOk, Up, Busy
  <2> QED
    BY <2>1, <2>2, <2>3
<1>10. CASE Crash(p)
  <2>1. MainCallOk(p)'
    BY <1>10, CrashDoes, MainSilent
  <2>2. BeatCallOk(p)'
    BY <1>10, CrashDoes, CallTypes DEF BeatCallOk
  <2>3. ThreadOk(p)'
    BY <1>10, CrashDoes DEF ThreadOk, Up, Busy
  <2> QED
    BY <2>1, <2>2, <2>3
<1> QED
  BY <1>1, <1>2, <1>3, <1>4, <1>5, <1>6, <1>7, <1>8, <1>9, <1>10

\* The answer to a call is the loop's or the thread's.
LEMMA CallControl ==
    ASSUME TypeInv, NEW p \in Processes, Control(p), NEW h \in Threads,
           Serve(p, h) \/ NetworkError(p, h)
    PROVE  Control(p)'
<1>1. main' = main /\ beat' = beat /\ call[p][h].at # "none" /\ call'[p][h].at = "back"
  BY ServeDoes, NetworkErrorDoes
<1>2. /\ call'[p][h].reply.kind = "task" =>
           call[p][h].at = "sent" /\ call[p][h].request.op = "claim"
           /\ call'[p][h].reply.claim \in TaskClaims
      /\ call'[p][h].reply.kind # "task" => call'[p][h].reply.claim = NoClaim
  <2>1. CASE Serve(p, h)
    <3>1. PICK reply \in Replies :
            /\ Served(call[p][h].request, reply)
            /\ call'[p][h].at = "back" /\ call'[p][h].reply = reply
      BY <2>1, ServeDoes
    <3>2. call[p][h].request \in RequestSet /\ call[p][h].at = "sent"
      BY <2>1, ServeDoes
    <3>3. \/ reply.claim = NoClaim /\ reply.kind # "task"
          \/ call[p][h].request.op = "claim" /\ reply.kind = "task" /\ reply.claim \in TaskClaims
      BY <3>1, <3>2, RequestServed
    <3> QED
      BY <3>1, <3>2, <3>3
  <2>2. CASE NetworkError(p, h)
    BY <2>2, NetworkErrorDoes, MessageTypes
  <2> QED
    BY <2>1, <2>2
<1>3. \A g \in Threads : g # h => call'[p][g] = call[p][g]
  BY ServeDoes, NetworkErrorDoes
<1>4. ThreadOk(p)'
  BY <1>1 DEF Control, ThreadOk, Up, Busy
<1>5. CASE h = "main"
  <2>1. BeatCallOk(p)'
    BY <1>1, <1>3, <1>5, BeatCallKeeps DEF Control, Threads, BeatCallKept
  <2>2. call'[p]["main"].reply.kind = "task" => main[p].pc = "claiming"
    BY <1>2, <1>5 DEF Control, MainCallOk, FinishRequest
  <2>3. MainCallOk(p)'
    BY <1>1, <1>2, <1>5, <2>2 DEF Control, MainCallOk, Granted
  <2> QED
    BY <1>4, <2>1, <2>3 DEF Control
<1>6. CASE h = "beat"
  <2>1. MainCallOk(p)'
    BY <1>1, <1>3, <1>6, MainCallKeeps DEF Control, Threads, MainCallKept
  <2>2. call'[p]["beat"].reply.claim = NoClaim
    BY <1>2, <1>6 DEF Control, BeatCallOk, BeatRequest
  <2>3. BeatCallOk(p)'
    BY <1>1, <1>6, <2>2 DEF Control, BeatCallOk
  <2> QED
    BY <1>4, <2>1, <2>3 DEF Control
<1> QED
  BY <1>5, <1>6 DEF Threads

\* A step of p leaves the others' control as it was.
LEMMA OthersControl ==
    ASSUME NEW p \in Processes, OnlyOf(p), NEW q \in Processes, q # p, Control(q)
    PROVE  Control(q)'
<1>1. main'[q] = main[q] /\ beat'[q] = beat[q] /\ call'[q] = call[q]
  BY DEF OnlyOf
<1> QED
  BY <1>1, ControlKept

LEMMA ControlInit == Init => ControlInv
<1> SUFFICES ASSUME Init, NEW p \in Processes PROVE Control(p)
  BY DEF ControlInv
<1>1. main[p].pc = "off" /\ main[p].claim = NoClaim /\ beat[p].pc = "off"
  BY DEF Init
<1>2. call[p]["main"] = Silent /\ call[p]["beat"] = Silent
  BY DEF Init, Threads
<1> QED
  BY <1>1, <1>2, CallTypes DEF Control, ThreadOk, MainCallOk, BeatCallOk, Busy, Granted, Up

LEMMA ControlNext == ASSUME TypeInv, ControlInv, [Next]_vars PROVE ControlInv'
<1>1. ASSUME NEW p \in Processes,
             \/ Start(p) \/ Poll(p) \/ Answered(p) \/ Progress(p) \/ Finish(p) \/ Reported(p)
             \/ Snapshot(p) \/ Beaten(p) \/ WakeUp(p) \/ Clear(p) \/ Crash(p)
      PROVE  ControlInv'
  <2>1. OnlyOf(p)
    BY <1>1, StartDoes, PollDoes, AnsweredDoes, ProgressDoes, FinishDoes, ReportedDoes,
       SnapshotDoes, BeatenDoes, WakeUpOrClearDoes, CrashDoes
  <2>2. Control(p)'
    BY <1>1, OwnControl DEF ControlInv
  <2> QED
    BY <2>1, <2>2, OthersControl DEF ControlInv
<1>2. ASSUME NEW p \in Processes, NEW h \in Threads, Serve(p, h) \/ NetworkError(p, h)
      PROVE  ControlInv'
  <2>1. OnlyOf(p)
    BY <1>2, ServeDoes, NetworkErrorDoes
  <2>2. Control(p)'
    BY <1>2, CallControl DEF ControlInv
  <2> QED
    BY <2>1, <2>2, OthersControl DEF ControlInv
<1>3. ASSUME UNCHANGED <<main, beat, call>> PROVE ControlInv'
  BY <1>3, ControlKept DEF ControlInv
<1>4. (\E t \in Tasks : Submit(t)) \/ (\E r \in late : ServeLate(r)) => ControlInv'
  BY <1>3, SubmitDoes, ServeLateDoes
<1>5. ASSUME Tick PROVE ControlInv'
  <2>1. SUFFICES ASSUME NEW p \in Processes PROVE Control(p)'
    BY DEF ControlInv
  <2>2. /\ main' = main /\ call' = call /\ beat'[p].pc = beat[p].pc
        /\ beat'[p].state = beat[p].state /\ beat'[p].snap = beat[p].snap
    BY <1>5, TickDoes
  <2>3. Control(p)
    BY DEF ControlInv
  <2>4. MainCallOk(p)' /\ BeatCallOk(p)'
    BY <2>2, <2>3, MainCallKeeps, BeatCallKeeps DEF Control, MainCallKept, BeatCallKept
  <2>5. ThreadOk(p)'
    BY <2>2, <2>3 DEF Control, ThreadOk, Up, Busy
  <2> QED
    BY <2>4, <2>5 DEF Control
<1>6. UNCHANGED vars => ControlInv'
  BY <1>3 DEF vars
<1> QED
  BY <1>1, <1>2, <1>4, <1>5, <1>6, StepCases
-----------------------------------------------------------------------------
(* Who holds a token.                                                      *)

LateTokens(p) == {r.claim.token : r \in {q \in late : q.process = p}}
Kept(p) == {main[p].claim.token, beat[p].state.claim.token, beat[p].snap.claim.token}

\* The tokens of a process that are not on its main loop's call, and all.
Elsewhere(p) == Kept(p) \cup LateTokens(p)
Held(p) == Elsewhere(p) \cup Carried(call[p]["main"])

\* A token of one process is no other's, and a granted one is still nowhere else.
OneHolder == \A p, q \in Processes : p # q => Held(p) \cap Held(q) \subseteq {None}
GrantedOnce ==
    \A p \in Processes : Granted(p) => call[p]["main"].reply.claim.token \notin Elsewhere(p)
TokenInv == OneHolder /\ GrantedOnce

LEMMA CarriedTokens ==
    /\ Carried(Silent) = {}
    /\ \A c \in CallSet :
         /\ c.at = "none" => Carried(c) = {}
         /\ c.at = "sent" => Carried(c) = {c.request.claim.token}
         /\ c.at = "back" => Carried(c) = {c.reply.claim.token}
BY CallTypes DEF Carried

\* What is in use is in a row, or in one of the places a process has.
LEMMA InUseParts ==
    /\ \A t \in Tasks : row[t].token \in InUse
    /\ \A p \in Processes :
         /\ main[p].claim.token \in InUse
         /\ beat[p].state.claim.token \in InUse
         /\ beat[p].snap.claim.token \in InUse
         /\ \A h \in Threads : Carried(call[p][h]) \subseteq InUse
    /\ \A r \in late : r.claim.token \in InUse
<1> DEFINE rows == {row[t].token : t \in Tasks}
           mains == {main[p].claim.token : p \in Processes}
           states == {beat[p].state.claim.token : p \in Processes}
           snaps == {beat[p].snap.claim.token : p \in Processes}
           lates == {r.claim.token : r \in late}
           calls == UNION {Carried(call[p][h]) : p \in Processes, h \in Threads}
<1>1. InUse = rows \cup mains \cup states \cup snaps \cup lates \cup calls
  BY DEF InUse
<1>2. \A t \in Tasks : row[t].token \in rows
  OBVIOUS
<1>3. \A p \in Processes : main[p].claim.token \in mains
  OBVIOUS
<1>4. \A p \in Processes : beat[p].state.claim.token \in states
  OBVIOUS
<1>5. \A p \in Processes : beat[p].snap.claim.token \in snaps
  OBVIOUS
<1>6. \A r \in late : r.claim.token \in lates
  OBVIOUS
<1>7. \A p \in Processes, h \in Threads : Carried(call[p][h]) \subseteq calls
  OBVIOUS
<1> HIDE DEF rows, mains, states, snaps, lates, calls
<1> QED
  BY <1>1, <1>2, <1>3, <1>4, <1>5, <1>6, <1>7

\* What a process holds is in use.
LEMMA HeldInUse == ASSUME TypeInv, NEW p \in Processes PROVE Held(p) \subseteq InUse
<1>1. Kept(p) \subseteq InUse
  BY InUseParts DEF Kept
<1>2. LateTokens(p) \subseteq InUse
  BY InUseParts DEF LateTokens
<1>3. Carried(call[p]["main"]) \subseteq InUse
  BY InUseParts DEF Threads
<1> QED
  BY <1>1, <1>2, <1>3 DEF Held, Elsewhere

\* A call of the process that nobody answered yet carries a token it holds.
LEMMA SentToken ==
    ASSUME TypeInv, NEW p \in Processes, Control(p), NEW h \in Threads, call[p][h].at = "sent"
    PROVE  /\ call[p][h].request \in RequestSet
           /\ call[p][h].request.process = p
           /\ call[p][h].request.claim.token \in Held(p)
           /\ h = "beat" => call[p][h].request.claim.token \in Kept(p)
<1>1. call[p][h] \in CallSet
  BY DEF TypeInv
<1>2. call[p][h].request \in RequestSet
  BY <1>1, CallTypes
<1>3. CASE h = "main"
  <2>1. call[p][h].request.process = p
    BY <1>3 DEF Control, MainCallOk, FinishRequest, ClaimRequest
  <2>2. call[p][h].request.claim.token \in Held(p)
    BY <1>1, <1>3, CarriedTokens DEF Held
  <2> QED
    BY <1>2, <1>3, <2>1, <2>2
<1>4. CASE h = "beat"
  <2>1. call[p][h].request.process = p /\ call[p][h].request.claim = beat[p].snap.claim
    BY <1>4 DEF Control, BeatCallOk, BeatRequest
  <2> QED
    BY <1>2, <2>1 DEF Held, Elsewhere, Kept
<1> QED
  BY <1>3, <1>4 DEF Threads

\* The late requests of a process when none, or only one of its own, is added.
LateGrows(p, tokens) ==
    /\ LateTokens(p)' \subseteq LateTokens(p) \cup tokens
    /\ \A q \in Processes : q # p => LateTokens(q)' \subseteq LateTokens(q)

LEMMA LateSame ==
    ASSUME late' \subseteq late, NEW p \in Processes, NEW tokens PROVE LateGrows(p, tokens)
BY DEF LateGrows, LateTokens

LEMMA LateAdded ==
    ASSUME NEW p \in Processes, NEW r, r.process = p, late' = late \cup {r}
    PROVE  LateGrows(p, {r.claim.token})
BY DEF LateGrows, LateTokens

\* How the tokens of a process may move in a step.
Moves(p) ==
    /\ Elsewhere(p)' \subseteq Held(p) \cup {None}
    /\ Granted(p)' => Elsewhere(p)' \subseteq Elsewhere(p) \cup {None}
    /\ Granted(p)' /\ Granted(p) => call'[p]["main"] = call[p]["main"]
    /\ Granted(p)' /\ ~Granted(p) => call'[p]["main"].reply.claim.token \notin InUse
    /\ ~Granted(p)' => Carried(call[p]["main"])' \subseteq Held(p) \cup {None}

\* A process that does not step, and whose late requests at most become fewer.
LEMMA Unmoved ==
    ASSUME TypeInv, NEW p \in Processes, main'[p].claim = main[p].claim,
           beat'[p].state = beat[p].state, beat'[p].snap = beat[p].snap, MainCallKept(p),
           LateTokens(p)' \subseteq LateTokens(p)
    PROVE  Moves(p) /\ Held(p)' \subseteq Held(p)
<1>1. Elsewhere(p)' \subseteq Elsewhere(p)
  BY DEF Elsewhere, Kept
<1>2. Granted(p)' <=> Granted(p)
  BY DEF Granted, MainCallKept
<1>3. Carried(call[p]["main"])' = Carried(call[p]["main"])
  BY DEF Carried, MainCallKept
<1> QED
  BY <1>1, <1>2, <1>3 DEF Moves, Held, MainCallKept

\* A silent call grants and carries nothing.
LEMMA SilentMoves ==
    ASSUME NEW p \in Processes, call'[p]["main"] = Silent,
           Elsewhere(p)' \subseteq Held(p) \cup {None}
    PROVE  Moves(p)
<1>1. ~Granted(p)' /\ Carried(call[p]["main"])' = {}
  BY CallTypes, CarriedTokens DEF Granted, Carried
<1> QED
  BY <1>1 DEF Moves

\* A request grants nothing, and carries what the loop holds.
LEMMA SentMoves ==
    ASSUME NEW p \in Processes, NEW r \in RequestSet, call'[p]["main"] = Sent(r),
           Elsewhere(p)' \subseteq Held(p) \cup {None}, r.claim.token \in Held(p) \cup {None}
    PROVE  Moves(p)
<1>1. Sent(r) \in CallSet /\ Sent(r).at = "sent" /\ Sent(r).request = r
  BY CallTypes
<1>2. Carried(Sent(r)) = {r.claim.token}
  BY <1>1, CarriedTokens
<1>3. ~Granted(p)'
  BY <1>1 DEF Granted
<1>4. Carried(call[p]["main"])' = {r.claim.token}
  BY <1>2 DEF Carried
<1> QED
  BY <1>3, <1>4 DEF Moves

\* While the main loop's call stays, what it carries stays.
LEMMA KeptMoves ==
    ASSUME NEW p \in Processes, MainCallKept(p), Elsewhere(p)' \subseteq Elsewhere(p) \cup {None}
    PROVE  Moves(p)
<1>1. Granted(p)' <=> Granted(p)
  BY DEF Granted, MainCallKept
<1>2. Carried(call[p]["main"])' = Carried(call[p]["main"])
  BY DEF Carried, MainCallKept
<1> QED
  BY <1>1, <1>2 DEF Moves, Held, MainCallKept

LEMMA OwnMoves ==
    ASSUME TypeInv, NEW p \in Processes, Control(p),
           \/ Start(p) \/ Poll(p) \/ Answered(p) \/ Progress(p) \/ Finish(p) \/ Reported(p)
           \/ Snapshot(p) \/ Beaten(p) \/ WakeUp(p) \/ Clear(p)
    PROVE  Moves(p) /\ \A q \in Processes : q # p => LateTokens(q)' \subseteq LateTokens(q)
<1>1. late' = late
  BY StartDoes, PollDoes, AnsweredDoes, ProgressDoes, FinishDoes, ReportedDoes, SnapshotDoes,
     BeatenDoes, WakeUpOrClearDoes
<1>2. \A q \in Processes : LateTokens(q)' = LateTokens(q)
  BY <1>1 DEF LateTokens
<1>3. NoClaim.token = None /\ IdleReport.claim = NoClaim
  BY ClaimTypes, MessageTypes
<1>4. CASE Start(p) \/ Progress(p)
  <2>1. MainCallKept(p)
    BY <1>4, StartDoes, ProgressDoes DEF MainCallKept
  <2>2. Kept(p)' \subseteq Kept(p) \cup {None}
    BY <1>3, <1>4, StartDoes, ProgressDoes DEF Kept
  <2> QED
    BY <1>2, <2>1, <2>2, KeptMoves DEF Elsewhere
<1>5. CASE Snapshot(p) \/ Beaten(p)
  <2>1. MainCallKept(p)
    BY <1>5, SnapshotDoes, BeatenDoes
  <2>2. Kept(p)' \subseteq Kept(p)
    BY <1>5, SnapshotDoes, BeatenDoes DEF Kept
  <2> QED
    BY <1>2, <2>1, <2>2, KeptMoves DEF Elsewhere
<1>6. CASE WakeUp(p) \/ Clear(p)
  <2>1. MainCallKept(p)
    BY <1>6, WakeUpOrClearDoes DEF MainCallKept
  <2>2. Kept(p)' \subseteq Kept(p)
    BY <1>6, WakeUpOrClearDoes DEF Kept
  <2> QED
    BY <1>2, <2>1, <2>2, KeptMoves DEF Elsewhere
<1>7. CASE Poll(p)
  <2>1. Kept(p)' \subseteq Kept(p) \cup {None}
    BY <1>3, <1>7, PollDoes DEF Kept
  <2>2. ClaimRequest(p) \in RequestSet /\ ClaimRequest(p).claim.token = None
    BY <1>3, MessageTypes
  <2>3. call'[p]["main"] = Sent(ClaimRequest(p))
    BY <1>7, PollDoes
  <2>4. Elsewhere(p)' \subseteq Held(p) \cup {None}
    BY <1>2, <2>1 DEF Elsewhere, Held
  <2> QED
    BY <1>2, <2>2, <2>3, <2>4, SentMoves
<1>8. CASE Finish(p)
  <2>1. Kept(p)' \subseteq Kept(p)
    BY <1>8, FinishDoes DEF Kept
  <2>2. main[p].claim \in Claims
    BY DEF TypeInv, MainSet
  <2> DEFINE r == FinishRequest(p, main[p].claim)
  <2>3. r \in RequestSet /\ r.claim.token = main[p].claim.token
    BY <2>2, MessageTypes
  <2>4. call'[p]["main"] = Sent(r)
    BY <1>8, FinishDoes
  <2>5. main[p].claim.token \in Held(p)
    BY DEF Held, Elsewhere, Kept
  <2>6. Elsewhere(p)' \subseteq Held(p) \cup {None}
    BY <1>2, <2>1 DEF Elsewhere, Held
  <2> HIDE DEF r
  <2> QED
    BY <1>2, <2>3, <2>4, <2>5, <2>6, SentMoves
<1>9. CASE Answered(p)
  <2>1. call[p]["main"] \in CallSet /\ call[p]["main"].at = "back"
    BY <1>9, AnsweredDoes DEF TypeInv, Threads
  <2>2. call[p]["main"].reply.claim.token \in Held(p)
    BY <2>1, CarriedTokens DEF Held
  <2>3. Kept(p)' \subseteq Held(p) \cup {None}
    <3>1. Kept(p) \subseteq Held(p)
      BY DEF Held, Elsewhere
    <3>2. main'[p].claim \in {NoClaim, call[p]["main"].reply.claim}
      BY <1>9, AnsweredDoes
    <3>3. beat'[p].state.claim \in {beat[p].state.claim, call[p]["main"].reply.claim}
          /\ beat'[p].snap = beat[p].snap
      BY <1>9, AnsweredDoes
    <3>4. {beat[p].state.claim.token, beat[p].snap.claim.token} \subseteq Held(p)
      BY <3>1 DEF Kept
    <3>5. main'[p].claim.token \in Held(p) \cup {None}
      BY <1>3, <2>2, <3>2
    <3>6. {beat'[p].state.claim.token, beat'[p].snap.claim.token} \subseteq Held(p)
      BY <2>2, <3>3, <3>4
    <3> QED
      BY <3>5, <3>6 DEF Kept
  <2>4. call'[p]["main"] = Silent
    BY <1>9, AnsweredDoes
  <2>5. Elsewhere(p)' \subseteq Held(p) \cup {None}
    BY <1>2, <2>3 DEF Elsewhere, Held
  <2> QED
    BY <1>2, <2>4, <2>5, SilentMoves
<1>10. CASE Reported(p)
  <2>1. Kept(p)' \subseteq Kept(p) \cup {None}
    BY <1>3, <1>10, ReportedDoes DEF Kept
  <2>2. call'[p]["main"] = Silent
    BY <1>10, ReportedDoes
  <2>3. Elsewhere(p)' \subseteq Held(p) \cup {None}
    BY <1>2, <2>1 DEF Elsewhere, Held
  <2> QED
    BY <1>2, <2>2, <2>3, SilentMoves
<1> QED
  BY <1>4, <1>5, <1>6, <1>7, <1>8, <1>9, <1>10

LEMMA CrashMoves ==
    ASSUME TypeInv, NEW p \in Processes, Control(p), Crash(p)
    PROVE  Moves(p) /\ \A q \in Processes : q # p => LateTokens(q)' \subseteq LateTokens(q)
<1>1. NoClaim.token = None /\ IdleReport.claim = NoClaim
  BY ClaimTypes, MessageTypes
<1>2. LateGrows(p, Held(p))
  <2>1. CASE late' = late
    BY <2>1, LateSame
  <2>2. ASSUME NEW h \in Threads, call[p][h].at = "sent", late' = late \cup {call[p][h].request}
        PROVE  LateGrows(p, Held(p))
    BY <2>2, SentToken, LateAdded DEF LateGrows
  <2> QED
    BY <2>1, <2>2, CrashDoes
<1>3. Kept(p)' \subseteq {None}
  BY <1>1, CrashDoes DEF Kept
<1>4. Elsewhere(p)' \subseteq Held(p) \cup {None}
  BY <1>2, <1>3 DEF LateGrows, Elsewhere, Held
<1>5. call'[p]["main"] = Silent
  BY CrashDoes
<1> QED
  BY <1>2, <1>4, <1>5, SilentMoves DEF LateGrows

LEMMA NetworkErrorMoves ==
    ASSUME TypeInv, NEW p \in Processes, Control(p), NEW h \in Threads, NetworkError(p, h)
    PROVE  Moves(p) /\ \A q \in Processes : q # p => LateTokens(q)' \subseteq LateTokens(q)
<1>1. main' = main /\ beat' = beat
  BY NetworkErrorDoes
<1>2. Kept(p)' = Kept(p)
  BY <1>1 DEF Kept
<1>3. CASE h = "main"
  <2>1. LateGrows(p, Held(p))
    BY NetworkErrorDoes, LateSame, LateAdded, SentToken DEF LateGrows
  <2>2. Elsewhere(p)' \subseteq Held(p)
    BY <1>2, <2>1 DEF LateGrows, Elsewhere, Held
  <2>3. call'[p]["main"].at = "back" /\ call'[p]["main"].reply.kind = "unreachable"
        /\ call'[p]["main"].reply.claim = NoClaim
    BY <1>3, NetworkErrorDoes, MessageTypes
  <2>4. ~Granted(p)'
    BY <2>3 DEF Granted
  <2>5. call'[p]["main"] \in CallSet
    BY NetworkErrorDoes DEF TypeInv, Threads
  <2>6. Carried(call'[p]["main"]) = {None}
    BY <2>3, <2>5, CarriedTokens, ClaimTypes
  <2>7. Carried(call[p]["main"])' = {None}
    BY <2>6 DEF Carried
  <2> QED
    BY <2>1, <2>2, <2>4, <2>7 DEF Moves, LateGrows
<1>4. CASE h = "beat"
  <2>1. LateGrows(p, Kept(p))
    BY <1>4, NetworkErrorDoes, LateSame, LateAdded, SentToken DEF LateGrows
  <2>2. Elsewhere(p)' \subseteq Elsewhere(p)
    BY <1>2, <2>1 DEF LateGrows, Elsewhere
  <2>3. MainCallKept(p)
    BY <1>4, NetworkErrorDoes DEF MainCallKept, Threads
  <2> QED
    BY <2>1, <2>2, <2>3, KeptMoves DEF LateGrows
<1> QED
  BY <1>3, <1>4 DEF Threads

LEMMA ServeMoves ==
    ASSUME TypeInv, NEW p \in Processes, Control(p), NEW h \in Threads, Serve(p, h)
    PROVE  Moves(p) /\ \A q \in Processes : q # p => LateTokens(q)' \subseteq LateTokens(q)
<1>1. main' = main /\ beat' = beat /\ late' = late
  BY ServeDoes
<1>2. /\ Elsewhere(p)' = Elsewhere(p)
      /\ \A q \in Processes : LateTokens(q)' = LateTokens(q)
  BY <1>1 DEF Elsewhere, Kept, LateTokens
<1>3. CASE h = "beat"
  <2>1. MainCallKept(p)
    BY <1>3, ServeDoes DEF MainCallKept, Threads
  <2> QED
    BY <1>2, <2>1, KeptMoves
<1>4. CASE h = "main"
  <2>1. PICK reply \in Replies :
          /\ Served(call[p][h].request, reply)
          /\ call'[p][h].at = "back" /\ call'[p][h].reply = reply
    BY ServeDoes
  <2>2. call[p][h].request \in RequestSet /\ call[p][h].at = "sent"
    BY ServeDoes
  <2>3. ~Granted(p)
    BY <1>4, <2>2 DEF Granted
  <2>4. CASE reply.claim = NoClaim /\ reply.kind # "task"
    <3>1. ~Granted(p)'
      BY <1>4, <2>1, <2>4 DEF Granted
    <3>2. call'[p]["main"] \in CallSet
      BY ServeDoes DEF TypeInv, Threads
    <3>3. Carried(call'[p]["main"]) = {None}
      BY <1>4, <2>1, <2>4, <3>2, CarriedTokens, ClaimTypes
    <3>4. Carried(call[p]["main"])' = {None}
      BY <3>3 DEF Carried
    <3> QED
      BY <1>2, <3>1, <3>4 DEF Moves, Held
  <2>5. CASE reply.kind = "task" /\ reply.claim.token \notin InUse
    <3>1. Granted(p)' /\ call'[p]["main"].reply.claim.token \notin InUse
      BY <1>4, <2>1, <2>5 DEF Granted
    <3> QED
      BY <1>2, <2>3, <3>1 DEF Moves, Held
  <2> QED
    BY <2>1, <2>2, <2>4, <2>5, RequestServed
<1> QED
  BY <1>3, <1>4 DEF Threads

\* The token of a grant is one of a task's claim, and is not None.
LEMMA GrantToken ==
    ASSUME NEW p \in Processes, Control(p), Granted(p)
    PROVE  /\ call[p]["main"].reply.claim \in TaskClaims
           /\ call[p]["main"].reply.claim.token # None
BY ClaimTypes DEF Control, MainCallOk

\* Tokens that move in this way stay with one holder.
LEMMA MovesKeepTokens ==
    ASSUME TypeInv, TypeInv', ControlInv, ControlInv', TokenInv, NEW p \in Processes, Moves(p),
           \A q \in Processes : q # p => Moves(q) /\ Held(q)' \subseteq Held(q)
    PROVE  TokenInv'
<1>1. GrantedOnce'
  <2>1. SUFFICES ASSUME NEW q \in Processes, Granted(q)'
                 PROVE  call'[q]["main"].reply.claim.token \notin Elsewhere(q)'
    BY DEF GrantedOnce
  <2>2. Moves(q)
    OBVIOUS
  <2>3. Elsewhere(q)' \subseteq Elsewhere(q) \cup {None}
    BY <2>1, <2>2 DEF Moves
  <2>4. Control(q)'
    BY DEF ControlInv
  <2>5. call'[q]["main"].reply.claim.token # None
    BY <2>1, <2>4, ClaimTypes DEF Control, MainCallOk
  <2>6. CASE Granted(q)
    <3>1. call[q]["main"].reply.claim.token \notin Elsewhere(q)
      BY <2>6 DEF TokenInv, GrantedOnce
    <3>2. call'[q]["main"] = call[q]["main"]
      BY <2>1, <2>2, <2>6 DEF Moves
    <3> QED
      BY <2>3, <2>5, <3>1, <3>2
  <2>7. CASE ~Granted(q)
    <3>1. call'[q]["main"].reply.claim.token \notin InUse
      BY <2>1, <2>2, <2>7 DEF Moves
    <3>2. Elsewhere(q) \subseteq InUse
      BY HeldInUse DEF Held
    <3> QED
      BY <2>3, <2>5, <3>1, <3>2
  <2> QED
    BY <2>6, <2>7
<1>2. \A q \in Processes : q # p => Held(p)' \cap Held(q)' \subseteq {None}
  <2>1. SUFFICES ASSUME NEW q \in Processes, q # p, NEW k, k \in Held(p)', k \in Held(q)', k # None
                 PROVE  FALSE
    OBVIOUS
  <2>2. k \in Held(q)
    BY <2>1
  <2>3. k \notin Held(p)
    BY <2>1, <2>2 DEF TokenInv, OneHolder
  <2>4. k \in InUse
    BY <2>2, HeldInUse
  <2>5. k \notin Elsewhere(p)'
    BY <2>1, <2>3 DEF Moves
  <2>6. k \in Carried(call[p]["main"])'
    BY <2>1, <2>5 DEF Held
  <2>7. Granted(p)'
    BY <2>1, <2>3, <2>6 DEF Moves
  <2>8. call'[p]["main"] \in CallSet
    BY DEF TypeInv, Threads
  <2>9. call'[p]["main"].at = "back"
    BY <2>7 DEF Granted
  <2>10. Carried(call'[p]["main"]) = {call'[p]["main"].reply.claim.token}
    BY <2>8, <2>9, CarriedTokens
  <2>11. k = call'[p]["main"].reply.claim.token
    BY <2>6, <2>10 DEF Carried
  <2>12. CASE Granted(p)
    <3>1. call'[p]["main"] = call[p]["main"]
      BY <2>7, <2>12 DEF Moves
    <3>2. Carried(call[p]["main"]) = {k}
      BY <2>10, <2>11, <3>1
    <3> QED
      BY <2>3, <3>2 DEF Held
  <2>13. CASE ~Granted(p)
    BY <2>4, <2>7, <2>11, <2>13 DEF Moves
  <2> QED
    BY <2>12, <2>13
<1>3. OneHolder'
  <2>1. SUFFICES ASSUME NEW a \in Processes, NEW b \in Processes, a # b
                 PROVE  Held(a)' \cap Held(b)' \subseteq {None}
    BY DEF OneHolder
  <2>2. CASE a = p \/ b = p
    BY <1>2, <2>1, <2>2
  <2>3. CASE a # p /\ b # p
    BY <2>1, <2>3 DEF TokenInv, OneHolder
  <2> QED
    BY <2>2, <2>3
<1> QED
  BY <1>1, <1>3 DEF TokenInv
LEMMA TokenInit == Init => TokenInv
<1> SUFFICES ASSUME Init PROVE TokenInv
  OBVIOUS
<1>1. \A p \in Processes :
        /\ main[p].claim = NoClaim /\ beat[p].state = IdleReport /\ beat[p].snap = IdleReport
        /\ call[p]["main"] = Silent
  BY DEF Init, Threads
<1>2. \A p \in Processes : ~Granted(p) /\ Carried(call[p]["main"]) = {}
  BY <1>1, CallTypes, CarriedTokens DEF Granted
<1>3. \A p \in Processes : Kept(p) = {None} /\ LateTokens(p) = {}
  BY <1>1, ClaimTypes, MessageTypes DEF Kept, LateTokens, Init
<1>4. \A p \in Processes : Held(p) = {None}
  BY <1>2, <1>3 DEF Held, Elsewhere
<1> QED
  BY <1>2, <1>4 DEF TokenInv, OneHolder, GrantedOnce

LEMMA TokenNext ==
    ASSUME TypeInv, TypeInv', ControlInv, ControlInv', TokenInv, [Next]_vars
    PROVE  TokenInv'
<1>1. ASSUME NEW p \in Processes, OnlyOf(p), Moves(p),
             \A q \in Processes : q # p => LateTokens(q)' \subseteq LateTokens(q)
      PROVE  TokenInv'
  <2>1. ASSUME NEW q \in Processes, q # p PROVE Moves(q) /\ Held(q)' \subseteq Held(q)
    <3>1. main'[q] = main[q] /\ beat'[q] = beat[q] /\ MainCallKept(q)
      BY <1>1, <2>1 DEF OnlyOf, MainCallKept
    <3>2. LateTokens(q)' \subseteq LateTokens(q)
      BY <1>1, <2>1
    <3> QED
      BY <3>1, <3>2, Unmoved
  <2> QED
    BY <1>1, <2>1, MovesKeepTokens
<1>2. ASSUME main' = main, call' = call, late' \subseteq late,
             \A p \in Processes : beat'[p].state = beat[p].state /\ beat'[p].snap = beat[p].snap
      PROVE  TokenInv'
  <2>1. ASSUME NEW q \in Processes PROVE Moves(q) /\ Held(q)' \subseteq Held(q)
    <3>1. LateTokens(q)' \subseteq LateTokens(q)
      BY <1>2 DEF LateTokens
    <3> QED
      BY <1>2, <3>1, Unmoved DEF MainCallKept
  <2>2. CASE Processes = {}
    BY <2>2 DEF TokenInv, OneHolder, GrantedOnce
  <2>3. CASE Processes # {}
    BY <2>1, <2>3, MovesKeepTokens
  <2> QED
    BY <2>2, <2>3
<1>3. ASSUME NEW p \in Processes,
             \/ Start(p) \/ Poll(p) \/ Answered(p) \/ Progress(p) \/ Finish(p) \/ Reported(p)
             \/ Snapshot(p) \/ Beaten(p) \/ WakeUp(p) \/ Clear(p)
      PROVE  TokenInv'
  <2>1. OnlyOf(p)
    BY <1>3, StartDoes, PollDoes, AnsweredDoes, ProgressDoes, FinishDoes, ReportedDoes,
       SnapshotDoes, BeatenDoes, WakeUpOrClearDoes
  <2>2. Control(p)
    BY DEF ControlInv
  <2> QED
    BY <1>1, <1>3, <2>1, <2>2, OwnMoves
<1>4. ASSUME NEW p \in Processes, Crash(p) PROVE TokenInv'
  BY <1>1, <1>4, CrashDoes, CrashMoves DEF ControlInv
<1>5. ASSUME NEW p \in Processes, NEW h \in Threads, Serve(p, h) PROVE TokenInv'
  BY <1>1, <1>5, ServeDoes, ServeMoves DEF ControlInv
<1>6. ASSUME NEW p \in Processes, NEW h \in Threads, NetworkError(p, h) PROVE TokenInv'
  BY <1>1, <1>6, NetworkErrorDoes, NetworkErrorMoves DEF ControlInv
<1>7. ASSUME NEW t \in Tasks, Submit(t) PROVE TokenInv'
  BY <1>2, <1>7, SubmitDoes
<1>8. ASSUME NEW r \in late, ServeLate(r) PROVE TokenInv'
  BY <1>2, <1>8, ServeLateDoes
<1>9. CASE Tick
  BY <1>2, <1>9, TickDoes
<1>10. CASE UNCHANGED vars
  BY <1>2, <1>10 DEF vars
<1> QED
  BY <1>3, <1>4, <1>5, <1>6, <1>7, <1>8, <1>9, <1>10, StepCases

HolderInv == TypeInv /\ ControlInv /\ TokenInv

\* What a process works on, what its thread reports and what its requests say
\* carry a token that no other process has, whatever the calls went through.
THEOREM TokensHaveOneHolder == Spec => []HolderInv
<1>1. Init => HolderInv
  BY TypeInit, ControlInit, TokenInit DEF HolderInv
<1>2. HolderInv /\ [Next]_vars => HolderInv'
  BY TypeNext, ControlNext, TokenNext DEF HolderInv
<1> QED
  BY <1>1, <1>2, PTL DEF Spec

-----------------------------------------------------------------------------
(* A session that was replaced.                                            *)

\* A request that is served is one that its process still waits for, or a late one.
LEMMA RequestOfHolder ==
    ASSUME HolderInv, NEW r,
           r \in late
             \/ \E p \in Processes, h \in Threads : call[p][h].at = "sent" /\ call[p][h].request = r
    PROVE  r \in RequestSet /\ r.process \in Processes /\ r.claim.token \in Held(r.process)
<1>1. CASE r \in late
  <2>1. r \in RequestSet
    BY <1>1 DEF HolderInv, TypeInv
  <2>2. r.process \in Processes
    BY <2>1 DEF RequestSet
  <2>3. r.claim.token \in LateTokens(r.process)
    BY <1>1 DEF LateTokens
  <2> QED
    BY <2>1, <2>2, <2>3 DEF Held, Elsewhere
<1>2. ASSUME NEW p \in Processes, NEW h \in Threads, call[p][h].at = "sent", call[p][h].request = r
      PROVE  r \in RequestSet /\ r.process \in Processes /\ r.claim.token \in Held(r.process)
  BY <1>2, SentToken DEF HolderInv, ControlInv
<1> QED
  BY <1>1, <1>2

\* What serving does not renew: the claim of a process whose session is replaced.
LEMMA ServedRenewsNothing ==
    ASSUME HolderInv, NEW r \in RequestSet, NEW reply \in Replies, Served(r, reply),
           r.process \in Processes, r.claim.token \in Held(r.process),
           NEW t \in Tasks, NEW p \in Processes,
           row[t].status = "claimed", main[p].claim = Claim(t, row[t].token),
           session[workerOf[p]] # p, row'[t].token = row[t].token
    PROVE  row'[t].lease <= row[t].lease
<1>1. row[t] \in RowSet /\ row[t].lease \in Nat \cup {Overdue}
  BY DEF HolderInv, TypeInv, RowSet
<1>2. main[p].claim \in Claims /\ main[p].claim # NoClaim
  <2>1. main[p].claim \in Claims
    BY DEF HolderInv, TypeInv, MainSet
  <2>2. Claim(t, row[t].token).task = t /\ NoClaim.task = None /\ None \notin Tasks
    BY WorkerAssumption DEF Claim, NoClaim, WorkerAssumption
  <2> QED
    BY <2>1, <2>2
<1>3. row[t].token \in Tokens /\ row[t].token \in Held(p)
  <2>1. main[p].claim.token = row[t].token
    BY DEF Claim
  <2> QED
    BY <1>2, <2>1, ClaimTypes DEF Claims, Held, Elsewhere, Kept
<1>4. CASE row'[t] = row[t]
  BY <1>1, <1>4 DEF Overdue
<1>5. CASE Waiting(t) /\ row'[t] = Queued
  BY <1>1, <1>5 DEF Waiting, Queued, Overdue
<1>6. CASE row'[t].token \in Tokens \ InUse
  <2>1. row[t].token \in InUse
    BY InUseParts
  <2> QED
    BY <1>6, <2>1
<1>7. CASE row'[t].lease = row[t].lease
  BY <1>1, <1>7 DEF Overdue
<1>8. CASE r.claim = Claim(t, row[t].token) /\ session[workerOf[r.process]] = r.process
  <2>1. r.process # p
    BY <1>8
  <2>2. row[t].token \in Held(r.process)
    BY <1>8 DEF Claim
  <2>3. row[t].token = None
    BY <1>3, <2>1, <2>2 DEF HolderInv, TokenInv, OneHolder
  <2> QED
    BY <1>3, <2>3, ClaimTypes
<1> QED
  BY <1>4, <1>5, <1>6, <1>7, <1>8, RequestServed DEF HolderInv

LEMMA StepRenewsNothing ==
    ASSUME HolderInv, [Next]_vars, NEW t \in Tasks, NEW p \in Processes,
           row[t].status = "claimed", main[p].claim = Claim(t, row[t].token),
           session[workerOf[p]] # p, row'[t].token = row[t].token
    PROVE  row'[t].lease <= row[t].lease
<1> USE DEF HolderInv
<1>1. row[t] \in RowSet /\ row[t].lease \in Nat \cup {Overdue}
  BY DEF TypeInv, RowSet
<1>2. CASE row'[t] = row[t]
  BY <1>1, <1>2 DEF Overdue
<1>3. ASSUME NEW q \in Processes, NEW h \in Threads, Serve(q, h) PROVE row'[t].lease <= row[t].lease
  BY <1>3, ServeDoes, RequestOfHolder, ServedRenewsNothing
<1>4. ASSUME NEW r \in late, ServeLate(r) PROVE row'[t].lease <= row[t].lease
  BY <1>4, ServeLateDoes, RequestOfHolder, ServedRenewsNothing
<1>5. CASE Tick
  <2>1. row'[t] = [row[t] EXCEPT !.lease = Older(row[t].lease)]
    BY <1>5, TickDoes
  <2>2. row'[t].lease = Older(row[t].lease)
    BY <1>1, <2>1 DEF RowSet
  <2> QED
    BY <1>1, <2>2 DEF Older, Overdue
<1>6. ASSUME NEW u \in Tasks, Submit(u) PROVE row'[t] = row[t]
  BY <1>6, SubmitDoes
<1>7. ASSUME NEW q \in Processes,
             \/ Start(q) \/ Poll(q) \/ Answered(q) \/ Progress(q) \/ Finish(q) \/ Reported(q)
             \/ Snapshot(q) \/ Beaten(q) \/ WakeUp(q) \/ Clear(q) \/ Crash(q)
      PROVE  row'[t] = row[t]
  BY <1>7, StartDoes, PollDoes, AnsweredDoes, ProgressDoes, FinishDoes, ReportedDoes,
     SnapshotDoes, BeatenDoes, WakeUpOrClearDoes, CrashDoes DEF QueueKept
<1>8. ASSUME NEW q \in Processes, NEW h \in Threads, NetworkError(q, h) PROVE row'[t] = row[t]
  BY <1>8, NetworkErrorDoes
<1>9. UNCHANGED vars => row'[t] = row[t]
  BY DEF vars
<1> QED
  BY <1>2, <1>3, <1>4, <1>5, <1>6, <1>7, <1>8, <1>9, StepCases

\* A process whose session was replaced cannot keep its task by heartbeats, not
\* by a late one either: its token is in nobody else's requests, and its own
\* are refused.
THEOREM ReplacedSessionsRenewNothing == Spec => ReplacedSessionRenewsNothing
<1>1. HolderInv /\ [Next]_vars =>
        [\A t \in Tasks, p \in Processes :
           /\ row[t].status = "claimed"
           /\ main[p].claim = Claim(t, row[t].token)
           /\ session[workerOf[p]] # p
           /\ row'[t].token = row[t].token
           => row'[t].lease <= row[t].lease]_vars
  BY StepRenewsNothing
<1> QED
  BY <1>1, TokensHaveOneHolder, PTL DEF Spec, ReplacedSessionRenewsNothing
-----------------------------------------------------------------------------
(* A process that runs with the current session of its id.                 *)

\* A grant that the loop has not read: no time passes, and nobody else can
\* touch the row.
GrantOk(p) ==
    Granted(p) =>
        row[call[p]["main"].reply.claim.task] =
          [status |-> "claimed", token |-> call[p]["main"].reply.claim.token,
           by |-> workerOf[p], lease |-> InitialLease]

\* A report that is still on its way is not about the task that is worked on.
LateOk(p) ==
    main[p].pc = "working" =>
        \A r \in late : r.process = p /\ r.op = "finish" => r.claim # main[p].claim

\* The rounds without an answer that every lease survives, and one more.
Margin == IF ActiveLease <= InitialLease THEN ActiveLease ELSE InitialLease + 1

Live(p) == main[p].pc = "working" /\ session[workerOf[p]] = p

\* The thread had an answer, or an error that was counted, for the claim that
\* is worked on, and has not been told to begin its next round.
Renewed(p) ==
    \/ call[p]["beat"].at = "back" /\ beat[p].snap.claim = main[p].claim
    \/ beat[p].pc = "waiting" /\ ~beat[p].wake /\ ~beat[p].due

\* Every call that was lost cost the lease one tick at most.
Lasts(lease, p) ==
    /\ lease >= Margin - 1 - losses
    /\ Renewed(p) => lease >= Margin - losses

HeldFor(r, p) == r.status = "claimed" /\ r.token = main[p].claim.token /\ r.by = workerOf[p]

Keeps(p) ==
    /\ HeldFor(row[main[p].claim.task], p)
    /\ Lasts(row[main[p].claim.task].lease, p)

KeepOk(p) == losses < Margin /\ Live(p) => Keeps(p)

KeepInv == \A p \in Processes : GrantOk(p) /\ LateOk(p) /\ KeepOk(p)

LEMMA MarginBounds ==
    Margin \in Nat /\ 1 <= Margin /\ Margin <= ActiveLease /\ Margin - 1 <= InitialLease
BY WorkerAssumption DEF WorkerAssumption, Margin

\* The claim of a loop that works is one of a task.
LEMMA WorkingClaim ==
    ASSUME TypeInv, NEW p \in Processes, Control(p), main[p].pc = "working"
    PROVE  /\ main[p].claim \in TaskClaims
           /\ main[p].claim.task \in Tasks /\ main[p].claim.token \in Tokens
           /\ main[p].claim.token # None
           /\ row[main[p].claim.task] \in RowSet
           /\ call[p]["main"].at = "none"
<1>1. main[p].claim \in Claims
  BY DEF TypeInv, MainSet
<1>2. main[p].claim \in TaskClaims
  BY <1>1 DEF Control, ThreadOk, Busy, Claims
<1>3. /\ main[p].claim.task \in Tasks /\ main[p].claim.token \in Tokens
      /\ main[p].claim.token # None
  BY <1>2, ClaimTypes
<1>4. call[p]["main"].at \in {"none", "sent", "back"}
  BY CallTypes DEF TypeInv, Threads
<1>5. call[p]["main"].at = "none"
  BY <1>4 DEF Control, MainCallOk
<1> QED
  BY <1>2, <1>3, <1>5 DEF TypeInv

InFlight(r) ==
    \/ r \in late
    \/ \E p \in Processes, h \in Threads : call[p][h].at = "sent" /\ call[p][h].request = r

\* A row whose token a process holds changes by that process's requests alone,
\* while its lease lasts.
LEMMA ServedForHolder ==
    ASSUME HolderInv, NEW r \in RequestSet, InFlight(r), NEW reply \in Replies, Served(r, reply),
           NEW t \in Tasks, NEW p \in Processes, row[t].status = "claimed",
           row[t].lease # Overdue, row[t].token # None, row[t].token \in Held(p)
    PROVE  \/ row'[t] = row[t]
           \/ r.process = p /\ r.claim = Claim(t, row[t].token) /\ r.op = "finish"
           \/ /\ r.process = p /\ r.claim = Claim(t, row[t].token) /\ r.op = "heartbeat"
              /\ row'[t] = [row[t] EXCEPT !.lease = ActiveLease]
<1>1. r.process \in Processes /\ r.claim.token \in Held(r.process)
  BY RequestOfHolder DEF InFlight
<1>2. ~Waiting(t)
  BY DEF Waiting
<1>3. r.claim = Claim(t, row[t].token) => r.process = p
  <2>1. SUFFICES ASSUME r.claim = Claim(t, row[t].token), r.process # p PROVE FALSE
    OBVIOUS
  <2>2. row[t].token \in Held(r.process)
    BY <1>1, <2>1 DEF Claim
  <2> QED
    BY <1>1, <2>1, <2>2 DEF HolderInv, TokenInv, OneHolder
<1> QED
  BY <1>2, <1>3, RequestServed DEF HolderInv

\* A grant is not disturbed while it is on its way.
LEMMA ServedGrant ==
    ASSUME HolderInv, NEW r \in RequestSet, InFlight(r), NEW reply \in Replies, Served(r, reply),
           NEW p \in Processes, Granted(p), GrantOk(p)
    PROVE  row'[call[p]["main"].reply.claim.task] = row[call[p]["main"].reply.claim.task]
<1> DEFINE c == call[p]["main"].reply.claim
           t == c.task
<1>1. Control(p)
  BY DEF HolderInv, ControlInv
<1>2. c \in TaskClaims /\ c.token # None
  BY <1>1, GrantToken
<1>3. t \in Tasks /\ c = Claim(t, c.token)
  BY <1>2, ClaimTypes
<1>4. row[t].status = "claimed" /\ row[t].token = c.token /\ row[t].lease = InitialLease
  <2> DEFINE granted == [status |-> "claimed", token |-> c.token, by |-> workerOf[p],
                         lease |-> InitialLease]
  <2>1. row[t] = granted
    BY DEF GrantOk
  <2>2. granted.status = "claimed" /\ granted.token = c.token /\ granted.lease = InitialLease
    OBVIOUS
  <2> QED
    BY <2>1, <2>2
<1>5. row[t].lease # Overdue
  <2>1. InitialLease \in Nat
    BY WorkerAssumption DEF WorkerAssumption
  <2>2. InitialLease # -1
    BY <2>1
  <2> QED
    BY <1>4, <2>2 DEF Overdue
<1>6. call[p]["main"] \in CallSet /\ call[p]["main"].at = "back"
  BY DEF HolderInv, TypeInv, Threads, Granted
<1>7. c.token \in Held(p)
  BY <1>6, CarriedTokens DEF Held
<1>8. c.token \notin Elsewhere(p)
  BY DEF HolderInv, TokenInv, GrantedOnce
<1>9. r.process = p => r.claim # Claim(t, c.token)
  <2>1. SUFFICES ASSUME r.process = p, r.claim = Claim(t, c.token) PROVE FALSE
    OBVIOUS
  <2>2. r.claim.token = c.token
    BY <2>1 DEF Claim
  <2>3. CASE r \in late
    <3>1. r.claim.token \in LateTokens(p)
      BY <2>1, <2>3 DEF LateTokens
    <3> QED
      BY <1>8, <2>2, <3>1 DEF Elsewhere
  <2>4. ASSUME NEW q \in Processes, NEW h \in Threads, call[q][h].at = "sent",
               call[q][h].request = r
        PROVE  FALSE
    <3>1. q = p /\ (h = "beat" => r.claim.token \in Kept(p))
      <4>1. Control(q) /\ TypeInv
        BY DEF HolderInv, ControlInv
      <4>2. r.process = q /\ (h = "beat" => r.claim.token \in Kept(q))
        BY <2>4, <4>1, SentToken
      <4> QED
        BY <2>1, <4>2
    <3>2. h # "main"
      BY <1>6, <2>4, <3>1
    <3> QED
      BY <1>8, <2>2, <3>1, <3>2 DEF Threads, Elsewhere
  <2> QED
    BY <2>3, <2>4 DEF InFlight
<1> HIDE DEF c, t
<1>10. row'[t] = row[t]
  BY <1>3, <1>4, <1>5, <1>2, <1>7, <1>9, ServedForHolder
<1> QED
  BY <1>10 DEF t, c

\* Serving leaves the task that a live process works on to it, or renews it.
LEMMA ServedKeeps ==
    ASSUME HolderInv, NEW r \in RequestSet, InFlight(r), NEW reply \in Replies, Served(r, reply),
           NEW p \in Processes, main[p].pc = "working", LateOk(p),
           HeldFor(row[main[p].claim.task], p), row[main[p].claim.task].lease # Overdue
    PROVE  LET t == main[p].claim.task
           IN row'[t] = row[t] \/ row'[t] = [row[t] EXCEPT !.lease = ActiveLease]
<1> DEFINE t == main[p].claim.task
<1>1. Control(p) /\ TypeInv
  BY DEF HolderInv, ControlInv
<1>2. t \in Tasks /\ main[p].claim.token # None /\ main[p].claim \in TaskClaims
      /\ call[p]["main"].at = "none"
  BY <1>1, WorkingClaim
<1>3. row[t].status = "claimed" /\ row[t].token = main[p].claim.token /\ row[t].lease # Overdue
  BY DEF HeldFor
<1>4. main[p].claim = Claim(t, row[t].token)
  BY <1>2, <1>3, ClaimTypes
<1>5. row[t].token \in Held(p)
  BY <1>3 DEF Held, Elsewhere, Kept
<1>6. ~(r.process = p /\ r.claim = main[p].claim /\ r.op = "finish")
  <2>1. SUFFICES ASSUME r.process = p, r.claim = main[p].claim, r.op = "finish" PROVE FALSE
    OBVIOUS
  <2>2. CASE r \in late
    BY <2>1, <2>2 DEF LateOk
  <2>3. ASSUME NEW q \in Processes, NEW h \in Threads, call[q][h].at = "sent",
               call[q][h].request = r
        PROVE  FALSE
    <3>1. q = p
      BY <2>1, <2>3, SentToken DEF HolderInv, ControlInv
    <3>2. h = "beat"
      BY <1>2, <2>3, <3>1 DEF Threads
    <3>3. r = BeatRequest(p, beat[p].snap.claim)
      BY <1>1, <2>3, <3>1, <3>2 DEF Control, BeatCallOk
    <3> QED
      BY <2>1, <3>3 DEF BeatRequest
  <2> QED
    BY <2>2, <2>3 DEF InFlight
<1> HIDE DEF t
<1>7. row'[t] = row[t] \/ row'[t] = [row[t] EXCEPT !.lease = ActiveLease]
  BY <1>2, <1>3, <1>4, <1>5, <1>6, ServedForHolder
<1> QED
  BY <1>7 DEF t

\* The heartbeat of a live process is accepted, and renews its lease.
LEMMA LiveBeatRenews ==
    ASSUME HolderInv, NEW p \in Processes, Live(p), HeldFor(row[main[p].claim.task], p),
           beat[p].snap.claim = main[p].claim, call[p]["beat"].at = "sent",
           NEW reply \in Replies, Served(call[p]["beat"].request, reply)
    PROVE  row'[main[p].claim.task].lease = ActiveLease
<1> DEFINE r == BeatRequest(p, main[p].claim)
<1>1. Control(p) /\ TypeInv
  BY DEF HolderInv, ControlInv
<1>2. call[p]["beat"].request = r
  BY <1>1 DEF Control, BeatCallOk
<1>3. main[p].claim \in TaskClaims
  BY <1>1, WorkingClaim DEF Live
<1>4. main[p].claim \in Claims /\ main[p].claim # NoClaim
  BY <1>3, ClaimTypes DEF Claims
<1>5. r \in RequestSet /\ r.claim = main[p].claim
  BY <1>4, MessageTypes
<1>6. r.op = "heartbeat" /\ r.process = p
  BY DEF BeatRequest
<1>7. Owns(main[p].claim)
  BY DEF HeldFor, Owns
<1> HIDE DEF r
<1>8. Accepted(r)
  BY <1>5, <1>6, <1>7 DEF Accepted, Live, HeldFor
<1> QED
  BY <1>1, <1>2, <1>4, <1>5, <1>6, <1>8, RequestServed
-----------------------------------------------------------------------------
LEMMA GrantNext ==
    ASSUME HolderInv, HolderInv', [Next]_vars, NEW p \in Processes, GrantOk(p)
    PROVE  GrantOk(p)'
<1> SUFFICES ASSUME Granted(p)'
             PROVE  row'[call'[p]["main"].reply.claim.task] =
                      [status |-> "claimed", token |-> call'[p]["main"].reply.claim.token,
                       by |-> workerOf'[p], lease |-> InitialLease]
  BY DEF GrantOk
<1> USE DEF HolderInv
<1>1. TypeInv /\ Control(p) /\ Control(p)'
  BY DEF ControlInv
<1>2. ASSUME MainCallKept(p), workerOf' = workerOf,
             row'[call[p]["main"].reply.claim.task] = row[call[p]["main"].reply.claim.task]
      PROVE  row'[call'[p]["main"].reply.claim.task] =
               [status |-> "claimed", token |-> call'[p]["main"].reply.claim.token,
                by |-> workerOf'[p], lease |-> InitialLease]
  <2>1. Granted(p)
    BY <1>2 DEF Granted, MainCallKept
  <2> QED
    BY <1>2, <2>1 DEF GrantOk, MainCallKept
<1>3. Granted(p) => call[p]["main"].reply.claim.task \in Tasks
  BY <1>1, GrantToken, ClaimTypes
<1>4. ASSUME NEW q \in Processes, OnlyOf(q), row' = row, q # p \/ MainCallKept(p)
      PROVE  MainCallKept(p) /\ workerOf' = workerOf
  BY <1>4 DEF OnlyOf, MainCallKept
<1>5. ASSUME NEW q \in Processes,
             Start(q) \/ Progress(q) \/ Snapshot(q) \/ Beaten(q) \/ WakeUp(q) \/ Clear(q)
      PROVE  OnlyOf(q) /\ row' = row /\ MainCallKept(q)
  BY <1>1, <1>5, StartDoes, ProgressDoes, SnapshotDoes, BeatenDoes, WakeUpOrClearDoes
     DEF QueueKept, MainCallKept
<1>6. ASSUME NEW q \in Processes,
             Poll(q) \/ Answered(q) \/ Finish(q) \/ Reported(q) \/ Crash(q)
      PROVE  OnlyOf(q) /\ row' = row /\ q # p
  <2>1. OnlyOf(q) /\ row' = row
    BY <1>1, <1>6, PollDoes, AnsweredDoes, FinishDoes, ReportedDoes, CrashDoes DEF QueueKept
  <2>2. call'[q]["main"] = Silent \/ main'[q].pc \in {"reporting"} \/ Poll(q)
    BY <1>1, <1>6, AnsweredDoes, FinishDoes, ReportedDoes, CrashDoes
  <2>3. Poll(q) => call'[q]["main"].at = "sent"
    BY <1>1, PollDoes, CallTypes, MessageTypes
  <2>4. Granted(p)' => call'[p]["main"].at = "back" /\ main'[p].pc = "claiming"
    BY <1>1 DEF Granted, Control, MainCallOk
  <2>5. q # p
    BY <2>2, <2>3, <2>4, CallTypes
  <2> QED
    BY <2>1, <2>5
<1>7. ASSUME NEW q \in Processes, NEW h \in Threads, NetworkError(q, h)
      PROVE  OnlyOf(q) /\ row' = row /\ (q # p \/ MainCallKept(p))
  <2>1. OnlyOf(q) /\ row' = row /\ call'[q][h].reply.kind # "task"
    BY <1>1, <1>7, NetworkErrorDoes, MessageTypes
  <2>2. q = p => h # "main"
    BY <2>1 DEF Granted
  <2>3. q = p => MainCallKept(p)
    BY <1>1, <1>7, <2>2, NetworkErrorDoes DEF MainCallKept, Threads
  <2> QED
    BY <2>1, <2>3
<1>8. ASSUME NEW q \in Processes, NEW h \in Threads, Serve(q, h)
      PROVE  row'[call'[p]["main"].reply.claim.task] =
               [status |-> "claimed", token |-> call'[p]["main"].reply.claim.token,
                by |-> workerOf'[p], lease |-> InitialLease]
  <2>1. PICK reply \in Replies :
          /\ Served(call[q][h].request, reply)
          /\ call'[q][h].at = "back" /\ call'[q][h].reply = reply
    BY <1>1, <1>8, ServeDoes
  <2>2. /\ call[q][h].request \in RequestSet /\ call[q][h].at = "sent" /\ OnlyOf(q)
        /\ \A g \in Threads : g # h => call'[q][g] = call[q][g]
    BY <1>1, <1>8, ServeDoes
  <2>3. InFlight(call[q][h].request)
    BY <2>2 DEF InFlight
  <2>4. CASE q = p /\ h = "main"
    <3>1. call'[p]["main"].reply = reply /\ reply.kind = "task"
      BY <2>1, <2>4 DEF Granted
    <3>2. row'[reply.claim.task] =
            [status |-> "claimed", token |-> reply.claim.token,
             by |-> workerOf[call[q][h].request.process], lease |-> InitialLease]
      BY <1>1, <2>1, <2>2, <3>1, RequestServed
    <3>3. call[q][h].request.process = p /\ workerOf' = workerOf
      BY <1>1, <2>2, <2>4, SentToken DEF OnlyOf
    <3> QED
      BY <3>1, <3>2, <3>3
  <2>5. CASE ~(q = p /\ h = "main")
    <3>1. MainCallKept(p) /\ workerOf' = workerOf
      BY <2>2, <2>5 DEF OnlyOf, MainCallKept, Threads
    <3>2. Granted(p)
      BY <3>1 DEF Granted, MainCallKept
    <3>3. row'[call[p]["main"].reply.claim.task] = row[call[p]["main"].reply.claim.task]
      BY <2>1, <2>2, <2>3, <3>2, ServedGrant
    <3> QED
      BY <1>2, <3>1, <3>3
  <2> QED
    BY <2>4, <2>5
<1>9. ASSUME NEW r \in late, ServeLate(r)
      PROVE  MainCallKept(p) /\ workerOf' = workerOf
             /\ row'[call[p]["main"].reply.claim.task] = row[call[p]["main"].reply.claim.task]
  <2>1. PICK reply \in Replies : Served(r, reply)
    BY <1>1, <1>9, ServeLateDoes
  <2>2. r \in RequestSet /\ MainCallKept(p) /\ workerOf' = workerOf
    BY <1>1, <1>9, ServeLateDoes DEF MainCallKept
  <2>3. InFlight(r) /\ Granted(p)
    BY <2>2 DEF InFlight, Granted, MainCallKept
  <2> QED
    BY <2>1, <2>2, <2>3, ServedGrant
<1>10. ASSUME NEW u \in Tasks, Submit(u)
       PROVE  MainCallKept(p) /\ workerOf' = workerOf
              /\ row'[call[p]["main"].reply.claim.task] = row[call[p]["main"].reply.claim.task]
  <2>1. MainCallKept(p) /\ workerOf' = workerOf /\ row[u].status = "unborn"
        /\ \A t \in Tasks : t # u => row'[t] = row[t]
    BY <1>1, <1>10, SubmitDoes DEF MainCallKept
  <2>2. Granted(p)
    BY <2>1 DEF Granted, MainCallKept
  <2>3. row[call[p]["main"].reply.claim.task].status = "claimed"
    <3> DEFINE c == call[p]["main"].reply.claim
               granted == [status |-> "claimed", token |-> c.token, by |-> workerOf[p],
                           lease |-> InitialLease]
    <3>1. row[c.task] = granted
      BY <2>2 DEF GrantOk
    <3>2. granted.status = "claimed"
      OBVIOUS
    <3> QED
      BY <3>1, <3>2
  <2> QED
    BY <1>3, <2>1, <2>2, <2>3
<1>11. ~Tick
  <2>1. SUFFICES ASSUME Tick PROVE FALSE
    OBVIOUS
  <2>2. Resting(p) /\ call' = call
    BY <1>1, <2>1, TickDoes
  <2> QED
    BY <2>2 DEF Resting, Granted
<1>12. UNCHANGED vars =>
         MainCallKept(p) /\ workerOf' = workerOf
         /\ row'[call[p]["main"].reply.claim.task] = row[call[p]["main"].reply.claim.task]
  BY DEF vars, MainCallKept
<1> QED
  BY <1>2, <1>4, <1>5, <1>6, <1>7, <1>8, <1>9, <1>10, <1>11, <1>12, StepCases

-----------------------------------------------------------------------------
\* What becomes late in a step.
LEMMA LateStep ==
    ASSUME HolderInv, [Next]_vars, NEW r \in late'
    PROVE  \/ r \in late
           \/ \E q \in Processes, h \in Threads :
                /\ Crash(q) \/ (NetworkError(q, h) /\ main' = main)
                /\ call[q][h].at = "sent" /\ r = call[q][h].request
<1> USE DEF HolderInv
<1>1. ASSUME NEW q \in Processes, Crash(q)
      PROVE  r \in late \/ \E h \in Threads : call[q][h].at = "sent" /\ r = call[q][h].request
  BY <1>1, CrashDoes
<1>2. ASSUME NEW q \in Processes, NEW h \in Threads, NetworkError(q, h)
      PROVE  main' = main /\ (r \in late \/ (call[q][h].at = "sent" /\ r = call[q][h].request))
  BY <1>2, NetworkErrorDoes
<1>3. ASSUME NEW q \in Processes,
             \/ Start(q) \/ Poll(q) \/ Answered(q) \/ Progress(q) \/ Finish(q) \/ Reported(q)
             \/ Snapshot(q) \/ Beaten(q) \/ WakeUp(q) \/ Clear(q)
      PROVE  r \in late
  BY <1>3, StartDoes, PollDoes, AnsweredDoes, ProgressDoes, FinishDoes, ReportedDoes,
     SnapshotDoes, BeatenDoes, WakeUpOrClearDoes
<1>4. ASSUME NEW q \in Processes, NEW h \in Threads, Serve(q, h) PROVE r \in late
  BY <1>4, ServeDoes
<1>5. (\E t \in Tasks : Submit(t)) \/ (\E s \in late : ServeLate(s)) \/ Tick => r \in late
  BY SubmitDoes, ServeLateDoes, TickDoes
<1>6. UNCHANGED vars => r \in late
  BY DEF vars
<1> QED
  BY <1>1, <1>2, <1>3, <1>4, <1>5, <1>6, StepCases

\* A loop that works was working on the same claim, or has just read the grant.
LEMMA WorkingStep ==
    ASSUME HolderInv, [Next]_vars, NEW p \in Processes, main'[p].pc = "working"
    PROVE  \/ main[p].pc = "working" /\ main'[p].claim = main[p].claim
           \/ Answered(p)
<1> USE DEF HolderInv
<1>1. main' = main \/ \E q \in Processes :
        Start(q) \/ Poll(q) \/ Answered(q) \/ Finish(q) \/ Reported(q) \/ Crash(q)
  <2>1. ASSUME NEW q \in Processes, Progress(q) \/ Snapshot(q) \/ Beaten(q) \/ WakeUp(q) \/ Clear(q)
        PROVE  main' = main
    BY <2>1, ProgressDoes, SnapshotDoes, BeatenDoes, WakeUpOrClearDoes
  <2>2. ASSUME NEW q \in Processes, NEW h \in Threads, Serve(q, h) \/ NetworkError(q, h)
        PROVE  main' = main
    BY <2>2, ServeDoes, NetworkErrorDoes
  <2>3. (\E t \in Tasks : Submit(t)) \/ (\E s \in late : ServeLate(s)) \/ Tick => main' = main
    BY SubmitDoes, ServeLateDoes, TickDoes
  <2>4. UNCHANGED vars => main' = main
    BY DEF vars
  <2> QED
    BY <2>1, <2>2, <2>3, <2>4, StepCases
<1>2. ASSUME NEW q \in Processes, Start(q) \/ Poll(q) \/ Finish(q) \/ Reported(q) \/ Crash(q)
      PROVE  main'[q].pc # "working" /\ OnlyOf(q)
  BY <1>2, StartDoes, PollDoes, FinishDoes, ReportedDoes, CrashDoes
<1>3. ASSUME NEW q \in Processes, Answered(q) PROVE OnlyOf(q)
  BY <1>3, AnsweredDoes
<1> QED
  BY <1>1, <1>2, <1>3 DEF OnlyOf

LEMMA LateNext ==
    ASSUME HolderInv, HolderInv', [Next]_vars, NEW p \in Processes, LateOk(p)
    PROVE  LateOk(p)'
<1> SUFFICES ASSUME main'[p].pc = "working", NEW r \in late', r.process = p, r.op = "finish"
             PROVE  r.claim # main'[p].claim
  BY DEF LateOk
<1>1. TypeInv /\ Control(p)
  BY DEF HolderInv, ControlInv
<1>2. CASE r \in late
  <2>1. CASE main[p].pc = "working" /\ main'[p].claim = main[p].claim
    BY <1>2, <2>1 DEF LateOk
  <2>2. CASE Answered(p)
    <3>1. Granted(p) /\ main'[p].claim = call[p]["main"].reply.claim
      BY <1>1, <2>2, AnsweredDoes DEF Granted
    <3>2. call[p]["main"].reply.claim.token \notin Elsewhere(p)
      BY <3>1 DEF HolderInv, TokenInv, GrantedOnce
    <3>3. r.claim.token \in Elsewhere(p)
      BY <1>2 DEF LateTokens, Elsewhere
    <3> QED
      BY <3>1, <3>2, <3>3
  <2> QED
    BY <2>1, <2>2, WorkingStep
<1>3. ASSUME NEW q \in Processes, NEW h \in Threads,
             Crash(q) \/ (NetworkError(q, h) /\ main' = main),
             call[q][h].at = "sent", r = call[q][h].request
      PROVE  FALSE
  <2>1. q = p
    BY <1>3, SentToken DEF HolderInv, ControlInv
  <2>2. main' = main
    BY <1>1, <1>3, <2>1, CrashDoes
  <2>3. call[p]["main"].at = "none"
    BY <1>1, <2>2, WorkingClaim
  <2>4. h = "beat"
    BY <1>3, <2>1, <2>3 DEF Threads
  <2>5. r = BeatRequest(p, beat[p].snap.claim)
    BY <1>1, <1>3, <2>1, <2>4 DEF Control, BeatCallOk
  <2> QED
    BY <2>5 DEF BeatRequest
<1> QED
  BY <1>2, <1>3, LateStep
-----------------------------------------------------------------------------
\* The lease counts on, as long as a renewal was one before or cost a loss.
LEMMA KeepsOn ==
    ASSUME TypeInv, TypeInv', NEW p \in Processes, Control(p), main[p].pc = "working", Keeps(p),
           main'[p].claim = main[p].claim, workerOf' = workerOf,
           row'[main[p].claim.task] = row[main[p].claim.task],
           \/ losses' = losses /\ (Renewed(p)' => Renewed(p))
           \/ losses' = losses + 1
    PROVE  Keeps(p)'
<1> DEFINE r == row[main[p].claim.task]
<1>1. r.lease \in Int
  <2>1. r \in RowSet
    BY WorkingClaim
  <2>2. r.lease \in Nat \cup {Overdue}
    BY <2>1 DEF RowSet
  <2> QED
    BY <2>2 DEF Overdue
<1>2. losses \in Nat /\ Margin \in Nat
  BY MarginBounds DEF TypeInv
<1>3. HeldFor(r, p) /\ Lasts(r.lease, p)
  BY DEF Keeps
<1>4. row'[main'[p].claim.task] = r
  OBVIOUS
<1> HIDE DEF r
<1>5. HeldFor(row[main[p].claim.task], p)'
  BY <1>3, <1>4 DEF HeldFor
<1>6. r.lease >= Margin - 1 - losses' /\ (Renewed(p)' => r.lease >= Margin - losses')
  BY <1>1, <1>2, <1>3 DEF Lasts
<1>7. Lasts(row[main[p].claim.task].lease, p)'
  BY <1>4, <1>6 DEF Lasts, Margin
<1> QED
  BY <1>5, <1>7 DEF Keeps

\* A renewed lease lasts.
LEMMA KeepsRenewed ==
    ASSUME TypeInv, TypeInv', NEW p \in Processes, Control(p), main[p].pc = "working", Keeps(p),
           main'[p].claim = main[p].claim, workerOf' = workerOf,
           row'[main[p].claim.task] = [row[main[p].claim.task] EXCEPT !.lease = ActiveLease]
    PROVE  Keeps(p)'
<1> DEFINE r == row[main[p].claim.task]
           new == [r EXCEPT !.lease = ActiveLease]
<1>1. r \in RowSet
  BY WorkingClaim
<1>2. new.status = r.status /\ new.token = r.token /\ new.by = r.by /\ new.lease = ActiveLease
  BY <1>1 DEF RowSet
<1>3. row'[main'[p].claim.task] = new
  OBVIOUS
<1>4. r.status = "claimed" /\ r.token = main[p].claim.token /\ r.by = workerOf[p]
  BY DEF Keeps, HeldFor
<1> HIDE DEF r, new
<1>5. HeldFor(row[main[p].claim.task], p)'
  BY <1>2, <1>3, <1>4 DEF HeldFor
<1>6. ActiveLease \in Nat /\ losses' \in Nat
  BY WorkerAssumption DEF WorkerAssumption, TypeInv
<1>7. Lasts(row[main[p].claim.task].lease, p)'
  BY <1>2, <1>3, <1>6, MarginBounds DEF Lasts, Margin
<1> QED
  BY <1>5, <1>7 DEF Keeps

\* Nothing is renewed but by an answer.
LEMMA RenewedKept ==
    ASSUME NEW p \in Processes, main'[p].claim = main[p].claim, beat'[p] = beat[p], BeatCallKept(p)
    PROVE  Renewed(p)' <=> Renewed(p)
BY DEF Renewed, BeatCallKept

\* While the loop works and time stands still, a lease that has not run out
\* counts on.
LEMMA LeaseLeft ==
    ASSUME TypeInv, NEW p \in Processes, Control(p), main[p].pc = "working", Keeps(p),
           losses < Margin
    PROVE  row[main[p].claim.task].lease \in Nat
<1>1. row[main[p].claim.task].lease \in Nat \cup {Overdue}
  BY WorkingClaim DEF RowSet
<1>2. losses \in Nat /\ Margin \in Nat
  BY MarginBounds DEF TypeInv
<1>3. row[main[p].claim.task].lease >= Margin - 1 - losses
  BY DEF Keeps, Lasts
<1> QED
  BY <1>1, <1>2, <1>3 DEF Overdue

\* Serving one more request, whoever hears the reply.
LEMMA KeepServed ==
    ASSUME HolderInv, TypeInv', NEW p \in Processes, main[p].pc = "working", LateOk(p), Keeps(p),
           losses < Margin, losses' = losses, main' = main, workerOf' = workerOf,
           NEW r \in RequestSet, InFlight(r), NEW reply \in Replies, Served(r, reply),
           Renewed(p)' => Renewed(p) \/ row'[main[p].claim.task].lease = ActiveLease
    PROVE  Keeps(p)'
<1> DEFINE t == main[p].claim.task
<1>1. TypeInv /\ Control(p)
  BY DEF HolderInv, ControlInv
<1>2. row[t].lease \in Nat /\ HeldFor(row[t], p) /\ row[t] \in RowSet
  BY <1>1, LeaseLeft, WorkingClaim DEF Keeps
<1>3. row[t].lease # Overdue
  <2>1. \A n \in Nat : n # -1
    OBVIOUS
  <2> QED
    BY <1>2, <2>1 DEF Overdue
<1>4. row'[t] = row[t] \/ row'[t] = [row[t] EXCEPT !.lease = ActiveLease]
  BY <1>2, <1>3, ServedKeeps
<1>5. CASE row'[t] = [row[t] EXCEPT !.lease = ActiveLease]
  BY <1>1, <1>5, KeepsRenewed
<1>6. CASE row'[t] = row[t] /\ row'[t].lease = ActiveLease
  <2>1. row[t] = [row[t] EXCEPT !.lease = ActiveLease]
    BY <1>2, <1>6 DEF RowSet
  <2> QED
    BY <1>1, <1>6, <2>1, KeepsRenewed
<1>7. CASE row'[t] = row[t] /\ row'[t].lease # ActiveLease
  BY <1>1, <1>7, KeepsOn
<1> QED
  BY <1>4, <1>5, <1>6, <1>7

\* The first lease of a claim.
LEMMA KeepAnswered ==
    ASSUME HolderInv, HolderInv', NEW p \in Processes, GrantOk(p), Answered(p),
           main'[p].pc = "working"
    PROVE  Keeps(p)'
<1> DEFINE c == call[p]["main"].reply.claim
<1>1. TypeInv /\ Control(p) /\ TypeInv' /\ Control(p)'
  BY DEF HolderInv, ControlInv
<1>2. /\ Granted(p) /\ main'[p].claim = c /\ BeatCallKept(p)
      /\ beat'[p].snap = beat[p].snap /\ beat'[p].wake
      /\ row' = row /\ workerOf' = workerOf
  BY <1>1, AnsweredDoes DEF Granted, QueueKept, OnlyOf
<1>3. row[c.task] = [status |-> "claimed", token |-> c.token, by |-> workerOf[p],
                     lease |-> InitialLease]
  BY <1>2 DEF GrantOk
<1>4. beat[p].snap.claim # c
  <2>1. c.token \notin Elsewhere(p)
    BY <1>2 DEF HolderInv, TokenInv, GrantedOnce
  <2> QED
    BY <2>1 DEF Elsewhere, Kept
<1> HIDE DEF c
<1>5. ~Renewed(p)'
  BY <1>2, <1>4 DEF Renewed
<1>6. HeldFor(row[main[p].claim.task], p)'
  BY <1>2, <1>3 DEF HeldFor
<1>7. row'[main'[p].claim.task].lease = InitialLease
  BY <1>2, <1>3
<1>8. losses' \in Nat /\ InitialLease \in Nat /\ Margin \in Nat /\ Margin - 1 <= InitialLease
  BY <1>1, MarginBounds, WorkerAssumption DEF WorkerAssumption, TypeInv
<1>9. InitialLease >= Margin - 1 - losses'
  <2>1. \A l, i, m \in Nat : m - 1 <= i => i >= m - 1 - l
    OBVIOUS
  <2> QED
    BY <1>8, <2>1
<1>10. Lasts(row[main[p].claim.task].lease, p)'
  BY <1>5, <1>7, <1>9 DEF Lasts, Margin
<1> QED
  BY <1>6, <1>10 DEF Keeps

\* Time passes only after a round of the thread.
LEMMA KeepTick ==
    ASSUME HolderInv, HolderInv', NEW p \in Processes, main[p].pc = "working", Keeps(p),
           losses < Margin, Tick
    PROVE  Keeps(p)'
<1> DEFINE t == main[p].claim.task
           r == row[t]
           new == [r EXCEPT !.lease = Older(r.lease)]
<1>1. TypeInv /\ Control(p) /\ Control(p)' /\ TypeInv'
  BY DEF HolderInv, ControlInv
<1>2. t \in Tasks /\ r \in RowSet
  BY <1>1, WorkingClaim
<1>3. /\ Resting(p) /\ UNCHANGED <<workerOf, main, call, losses>>
      /\ beat[p].pc = "waiting" => beat'[p].due
      /\ beat'[p].pc = beat[p].pc
  BY <1>1, TickDoes
<1>4. beat[p].pc = "waiting" /\ Renewed(p)
  <2>1. beat[p].pc \notin {"off", "dead"}
    BY <1>1 DEF Control, ThreadOk, Up
  <2> QED
    BY <1>3, <2>1 DEF Resting, Renewed
<1>5. ~Renewed(p)'
  <2>1. call'[p]["beat"].at = "none"
    <3>1. call'[p]["beat"].at \in {"none", "sent", "back"}
      BY <1>1, CallTypes DEF TypeInv, Threads
    <3> QED
      BY <1>1, <1>3, <1>4, <3>1 DEF Control, BeatCallOk
  <2> QED
    BY <1>3, <1>4, <2>1 DEF Renewed
<1>6. HeldFor(r, p) /\ r.lease >= Margin - losses
  BY <1>4 DEF Keeps, Lasts
<1>7. losses \in Nat /\ Margin \in Nat /\ r.lease \in Nat
  BY <1>1, LeaseLeft, MarginBounds DEF TypeInv
<1>8. row'[t] = new
  BY <1>1, <1>2, <1>6, TickDoes DEF HeldFor
<1>9. new.status = r.status /\ new.token = r.token /\ new.by = r.by /\ new.lease = Older(r.lease)
  BY <1>2 DEF RowSet
<1>10. Older(r.lease) = r.lease - 1
  BY <1>7 DEF Older, Overdue
<1>11. row'[main'[p].claim.task] = new
  BY <1>3, <1>8
<1> HIDE DEF t, r, new
<1>12. HeldFor(row[main[p].claim.task], p)'
  BY <1>3, <1>6, <1>9, <1>11 DEF HeldFor
<1>13. r.lease - 1 >= Margin - 1 - losses
  BY <1>6, <1>7
<1>14. Lasts(row[main[p].claim.task].lease, p)'
  BY <1>3, <1>5, <1>9, <1>10, <1>11, <1>13 DEF Lasts, Margin
<1> QED
  BY <1>12, <1>14 DEF Keeps
-----------------------------------------------------------------------------
\* A live process of the next state works on and was live, or has just read
\* its grant: a session that was replaced does not come back.
LEMMA LiveBefore ==
    ASSUME HolderInv, [Next]_vars, NEW p \in Processes, Live(p)'
    PROVE  \/ Live(p) /\ main'[p].claim = main[p].claim
           \/ Answered(p)
<1> USE DEF HolderInv
<1>1. main'[p].pc = "working" /\ session'[workerOf'[p]] = p
  BY DEF Live
<1>2. workerOf' = workerOf
  <2>1. ASSUME NEW q \in Processes,
               \/ Start(q) \/ Poll(q) \/ Answered(q) \/ Progress(q) \/ Finish(q) \/ Reported(q)
               \/ Snapshot(q) \/ Beaten(q) \/ WakeUp(q) \/ Clear(q) \/ Crash(q)
        PROVE  OnlyOf(q)
    BY <2>1, StartDoes, PollDoes, AnsweredDoes, ProgressDoes, FinishDoes, ReportedDoes,
       SnapshotDoes, BeatenDoes, WakeUpOrClearDoes, CrashDoes
  <2>2. ASSUME NEW q \in Processes, NEW h \in Threads, Serve(q, h) \/ NetworkError(q, h)
        PROVE  OnlyOf(q)
    BY <2>2, ServeDoes, NetworkErrorDoes
  <2>3. (\E t \in Tasks : Submit(t)) \/ (\E s \in late : ServeLate(s)) \/ Tick =>
          workerOf' = workerOf
    BY SubmitDoes, ServeLateDoes, TickDoes
  <2>4. UNCHANGED vars => workerOf' = workerOf
    BY DEF vars
  <2> QED
    BY <2>1, <2>2, <2>3, <2>4, StepCases DEF OnlyOf
<1>3. workerOf[p] \in Workers
  BY DEF TypeInv
<1>4. ASSUME NEW q \in Processes, Start(q) PROVE session[workerOf[p]] = p
  <2>1. main'[q].pc # "working"
    BY <1>4, StartDoes
  <2>2. q # p
    BY <1>1, <2>1
  <2>3. session'[workerOf[q]] = q /\ \A w \in Workers : w # workerOf[q] => session'[w] = session[w]
    BY <1>4, StartDoes
  <2> QED
    BY <1>1, <1>2, <1>3, <2>2, <2>3
<1>5. session' = session \/ \E q \in Processes : Start(q)
  <2>1. ASSUME NEW q \in Processes,
               \/ Poll(q) \/ Answered(q) \/ Progress(q) \/ Finish(q) \/ Reported(q)
               \/ Snapshot(q) \/ Beaten(q) \/ WakeUp(q) \/ Clear(q) \/ Crash(q)
        PROVE  session' = session
    BY <2>1, PollDoes, AnsweredDoes, ProgressDoes, FinishDoes, ReportedDoes,
       SnapshotDoes, BeatenDoes, WakeUpOrClearDoes, CrashDoes DEF QueueKept
  <2>2. ASSUME NEW q \in Processes, NEW h \in Threads, NetworkError(q, h) PROVE session' = session
    BY <2>2, NetworkErrorDoes
  <2>3. ASSUME NEW q \in Processes, NEW h \in Threads, Serve(q, h) PROVE session' = session
    <3>1. PICK reply \in Replies : Served(call[q][h].request, reply)
      BY <2>3, ServeDoes
    <3> QED
      BY <2>3, <3>1, ServeDoes, RequestServed
  <2>4. ASSUME NEW s \in late, ServeLate(s) PROVE session' = session
    <3>1. PICK reply \in Replies : Served(s, reply)
      BY <2>4, ServeLateDoes
    <3> QED
      BY <2>4, <3>1, ServeLateDoes, RequestServed
  <2>5. (\E t \in Tasks : Submit(t)) \/ Tick \/ UNCHANGED vars => session' = session
    BY SubmitDoes, TickDoes DEF vars
  <2> QED
    BY <2>1, <2>2, <2>3, <2>4, <2>5, StepCases
<1>6. session[workerOf[p]] = p
  BY <1>1, <1>2, <1>4, <1>5
<1> QED
  BY <1>1, <1>6, WorkingStep DEF Live

\* A loop that goes on working: every step but the serving and the ticks.
LEMMA KeepStep ==
    ASSUME HolderInv, HolderInv', BeatInv', NEW p \in Processes, main[p].pc = "working",
           main'[p].pc = "working", main'[p].claim = main[p].claim, Keeps(p), NEW q \in Processes,
           \/ Start(q) \/ Poll(q) \/ Answered(q) \/ Progress(q) \/ Finish(q) \/ Reported(q)
           \/ Snapshot(q) \/ Beaten(q) \/ WakeUp(q) \/ Clear(q) \/ Crash(q)
    PROVE  Keeps(p)'
<1> USE DEF HolderInv
<1>1. TypeInv /\ TypeInv' /\ Control(p) /\ Control(p)'
  BY DEF ControlInv
<1>2. OnlyOf(q) /\ row' = row /\ losses' = losses
  BY StartDoes, PollDoes, AnsweredDoes, ProgressDoes, FinishDoes, ReportedDoes, SnapshotDoes,
     BeatenDoes, WakeUpOrClearDoes, CrashDoes DEF QueueKept
<1>3. Renewed(p)' => Renewed(p)
  <2>1. CASE q # p
    BY <1>2, <2>1, RenewedKept DEF OnlyOf, BeatCallKept
  <2>2. CASE q = p /\ (Start(q) \/ Poll(q) \/ Answered(q) \/ Finish(q) \/ Reported(q) \/ Crash(q))
    BY <2>2, StartDoes, PollDoes, AnsweredDoes, FinishDoes, ReportedDoes, CrashDoes
  <2>3. CASE q = p /\ Progress(q)
    <3>1. beat'[p].wake /\ beat'[p].snap = beat[p].snap /\ call' = call
      BY <2>3, ProgressDoes
    <3> QED
      BY <3>1 DEF Renewed
  <2>4. CASE q = p /\ Snapshot(q)
    <3>1. beat'[p].pc = "sending" /\ beat[p].state.claim \in Claims
          /\ call'[p]["beat"] = Sent(BeatRequest(p, beat[p].state.claim))
      BY <2>4, SnapshotDoes DEF TypeInv, BeatSet, ReportSet
    <3>2. call'[p]["beat"].at = "sent"
      BY <3>1, CallTypes, MessageTypes
    <3> QED
      BY <3>1, <3>2 DEF Renewed
  <2>5. CASE q = p /\ Beaten(q)
    <3>1. /\ call'[p]["beat"] = Silent /\ call[p]["beat"].at = "back" /\ beat'[p].pc = "waiting"
          /\ beat'[p].state = beat[p].state /\ beat'[p].snap = beat[p].snap
      BY <2>5, BeatenDoes
    <3>2. ~beat'[p].wake => beat'[p].snap = beat'[p].state
      BY <3>1 DEF BeatInv, NothingLost
    <3>3. call'[p]["beat"].at = "none"
      BY <3>1, CallTypes
    <3>4. beat[p].state.claim = main[p].claim
      BY <1>1 DEF Control, ThreadOk
    <3>5. Renewed(p)' => ~beat'[p].wake
      BY <3>3 DEF Renewed
    <3>6. Renewed(p)' => beat[p].snap.claim = main[p].claim
      BY <3>1, <3>2, <3>4, <3>5
    <3> QED
      BY <3>1, <3>6 DEF Renewed
  <2>6. CASE q = p /\ (WakeUp(q) \/ Clear(q))
    <3>1. beat'[p].pc \in {"clearing", "snap"}
      BY <2>6, WakeUpOrClearDoes
    <3>2. call'[p]["beat"].at = "none"
      BY <1>1, <3>1 DEF Control, BeatCallOk
    <3> QED
      BY <3>1, <3>2 DEF Renewed
  <2> QED
    BY <2>1, <2>2, <2>3, <2>4, <2>5, <2>6
<1> QED
  BY <1>1, <1>2, <1>3, KeepsOn DEF OnlyOf

LEMMA KeepNext ==
    ASSUME HolderInv, HolderInv', BeatInv', [Next]_vars, NEW p \in Processes,
           GrantOk(p), LateOk(p), KeepOk(p)
    PROVE  KeepOk(p)'
<1> SUFFICES ASSUME losses' < Margin, Live(p)' PROVE Keeps(p)'
  BY DEF KeepOk, Margin
<1> USE DEF HolderInv
<1>1. TypeInv /\ TypeInv' /\ Control(p) /\ Control(p)'
  BY DEF ControlInv
<1>2. losses \in Nat /\ Margin \in Nat
  BY <1>1, MarginBounds DEF TypeInv
<1>3. CASE Answered(p)
  BY <1>3, KeepAnswered DEF Live
<1>4. CASE Live(p) /\ main'[p].claim = main[p].claim
  <2>1. main[p].pc = "working" /\ main'[p].pc = "working" /\ main'[p].claim = main[p].claim
        /\ session[workerOf[p]] = p
    BY <1>4 DEF Live
  <2>2. losses < Margin => Keeps(p)
    BY <1>4 DEF KeepOk
  <2>3. ASSUME NEW q \in Processes,
               \/ Start(q) \/ Poll(q) \/ Answered(q) \/ Progress(q) \/ Finish(q) \/ Reported(q)
               \/ Snapshot(q) \/ Beaten(q) \/ WakeUp(q) \/ Clear(q) \/ Crash(q)
        PROVE  Keeps(p)'
    <3>1. losses' = losses
      BY <2>3, StartDoes, PollDoes, AnsweredDoes, ProgressDoes, FinishDoes, ReportedDoes,
         SnapshotDoes, BeatenDoes, WakeUpOrClearDoes, CrashDoes DEF QueueKept
    <3>2. Keeps(p)
      BY <2>2, <3>1
    <3> QED
      BY <2>1, <2>3, <3>2, KeepStep
  <2>4. ASSUME NEW q \in Processes, NEW h \in Threads, NetworkError(q, h) PROVE Keeps(p)'
    <3>1. losses' = losses + 1 /\ row' = row /\ OnlyOf(q)
      BY <2>4, NetworkErrorDoes
    <3>2. Keeps(p)
      BY <1>2, <2>2, <3>1
    <3> QED
      BY <1>1, <2>1, <3>1, <3>2, KeepsOn DEF OnlyOf
  <2>5. ASSUME NEW q \in Processes, NEW h \in Threads, Serve(q, h) PROVE Keeps(p)'
    <3>1. PICK reply \in Replies :
            /\ Served(call[q][h].request, reply)
            /\ call'[q][h].at = "back" /\ call'[q][h].reply = reply
      BY <2>5, ServeDoes
    <3>2. /\ call[q][h].request \in RequestSet /\ call[q][h].at = "sent" /\ OnlyOf(q)
          /\ main' = main /\ beat' = beat /\ losses' = losses
          /\ \A g \in Threads : g # h => call'[q][g] = call[q][g]
      BY <2>5, ServeDoes
    <3>3. Keeps(p) /\ losses < Margin
      BY <2>2, <3>2
    <3>4. Renewed(p)' => Renewed(p) \/ row'[main[p].claim.task].lease = ActiveLease
      <4>1. CASE q = p /\ h = "beat" /\ beat[p].snap.claim = main[p].claim
        BY <1>4, <3>1, <3>2, <3>3, <4>1, LiveBeatRenews DEF Keeps
      <4>2. CASE q = p /\ h = "beat" /\ beat[p].snap.claim # main[p].claim
        BY <2>1, <3>2, <4>2 DEF Renewed
      <4>3. CASE q # p \/ h # "beat"
        <5>1. BeatCallKept(p)
          BY <3>2, <4>3 DEF OnlyOf, BeatCallKept, Threads
        <5> QED
          BY <2>1, <3>2, <5>1, RenewedKept
      <4> QED
        BY <4>1, <4>2, <4>3
    <3>5. InFlight(call[q][h].request)
      BY <3>2 DEF InFlight
    <3> QED
      BY <1>1, <2>1, <3>1, <3>2, <3>3, <3>4, <3>5, KeepServed DEF OnlyOf
  <2>6. ASSUME NEW r \in late, ServeLate(r) PROVE Keeps(p)'
    <3>1. PICK reply \in Replies : Served(r, reply)
      BY <2>6, ServeLateDoes
    <3>2. r \in RequestSet /\ UNCHANGED <<workerOf, main, beat, call, losses>>
      BY <2>6, ServeLateDoes
    <3>3. Keeps(p) /\ losses < Margin
      BY <2>2, <3>2
    <3>4. Renewed(p)' => Renewed(p)
      BY <3>2, RenewedKept DEF BeatCallKept
    <3>5. InFlight(r)
      BY DEF InFlight
    <3> QED
      BY <1>1, <2>1, <3>1, <3>2, <3>3, <3>4, <3>5, KeepServed
  <2>7. CASE Tick
    <3>1. Keeps(p) /\ losses < Margin
      BY <2>2, <2>7, TickDoes
    <3> QED
      BY <2>1, <2>7, <3>1, KeepTick
  <2>8. ASSUME NEW u \in Tasks, Submit(u) PROVE Keeps(p)'
    <3>1. /\ UNCHANGED <<workerOf, main, beat, call, losses>> /\ row[u].status = "unborn"
          /\ \A t \in Tasks : t # u => row'[t] = row[t]
      BY <2>8, SubmitDoes
    <3>2. Keeps(p) /\ main[p].claim.task \in Tasks
      BY <1>1, <2>1, <2>2, <3>1, WorkingClaim
    <3>3. main[p].claim.task # u
      BY <3>1, <3>2 DEF Keeps, HeldFor
    <3>4. Renewed(p)' <=> Renewed(p)
      BY <3>1, RenewedKept DEF BeatCallKept
    <3> QED
      BY <1>1, <2>1, <3>1, <3>2, <3>3, <3>4, KeepsOn
  <2>9. CASE UNCHANGED vars
    <3>1. UNCHANGED <<workerOf, row, main, beat, call, losses>>
      BY <2>9 DEF vars
    <3>2. Renewed(p)' <=> Renewed(p)
      BY <3>1, RenewedKept DEF BeatCallKept
    <3>3. Keeps(p)
      BY <2>2, <3>1
    <3> QED
      BY <1>1, <2>1, <3>1, <3>2, <3>3, KeepsOn
  <2> QED
    BY <2>3, <2>4, <2>5, <2>6, <2>7, <2>8, <2>9, StepCases
<1> QED
  BY <1>3, <1>4, LiveBefore

LEMMA KeepInit == Init => KeepInv
<1> SUFFICES ASSUME Init, NEW p \in Processes PROVE GrantOk(p) /\ LateOk(p) /\ KeepOk(p)
  BY DEF KeepInv
<1>1. main[p].pc = "off" /\ call[p]["main"] = Silent
  BY DEF Init, Threads
<1> QED
  BY <1>1, CallTypes DEF GrantOk, Granted, LateOk, KeepOk, Live

\* A process that runs with its id's current session keeps its task however
\* long it works: as long as fewer calls were lost than the shorter of the two
\* leases has ticks, the row is its own and not overdue.
THEOREM LiveHoldersKeepTheirTask == Spec => []LiveHolderKeepsTask
<1>1. HolderInv /\ HolderInv' /\ BeatInv' /\ KeepInv /\ [Next]_vars => KeepInv'
  BY GrantNext, LateNext, KeepNext DEF KeepInv
<1>2. HolderInv /\ KeepInv => LiveHolderKeepsTask
  <2>1. SUFFICES ASSUME HolderInv, KeepInv, losses < ActiveLease, losses <= InitialLease,
                        NEW p \in Processes, Live(p)
                 PROVE  Owns(main[p].claim) /\ row[main[p].claim.task].lease # Overdue
    BY DEF LiveHolderKeepsTask, Live
  <2>2. TypeInv /\ Control(p)
    BY <2>1 DEF HolderInv, ControlInv
  <2>3. losses < Margin
    BY <2>1, <2>2, WorkerAssumption DEF TypeInv, Margin, WorkerAssumption
  <2>4. Keeps(p) /\ main[p].pc = "working"
    BY <2>1, <2>3 DEF KeepInv, KeepOk, Live
  <2>5. row[main[p].claim.task].lease \in Nat
    BY <2>2, <2>3, <2>4, LeaseLeft
  <2>6. row[main[p].claim.task].lease # Overdue
    <3>1. \A n \in Nat : n # -1
      OBVIOUS
    <3> QED
      BY <2>5, <3>1 DEF Overdue
  <2>7. Owns(main[p].claim)
    BY <2>4 DEF Keeps, HeldFor, Owns
  <2> QED
    BY <2>6, <2>7
<1>3. Spec => []BeatInv
  BY BeatInit, BeatNext, PTL DEF Spec
<1> QED
  BY <1>1, <1>2, <1>3, KeepInit, TokensHaveOneHolder, PTL DEF Spec
=============================================================================
