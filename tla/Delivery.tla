------------------------------ MODULE Delivery ------------------------------
(***************************************************************************)
(* The way of a visual task through all parts: a producer submits and      *)
(* waits for it, a worker resolves the character's hero, renders, uploads  *)
(* and reports the artifact, the producer fetches and deletes it, and      *)
(* pg_cron sweeps tasks and artifacts by their own clocks.                 *)
(*                                                                         *)
(* Composes ArtifactStore, whose requests go on at the server when their   *)
(* client gave up, with the rows of tasks, the worker processes of one     *)
(* machine and the cache of heroes they share.  A request to the queue is  *)
(* one step, and a claim may be overdue at any time: TaskQueue and         *)
(* WorkerLoop say when.  A worker has one claim at a time, so it names it. *)
(***************************************************************************)
EXTENDS Integers, Sequences

CONSTANTS
    Tasks, Workers,
    Artifacts, Suffixes, Requests,  \* of ArtifactStore
    Kinds,              \* "remote": an image with a remote hero (the same for all),
                        \* "local": one of the worker's own workspace, "candidate": a hero
    PostFormat,         \* POST_IMAGE_FORMAT
    Retentions,         \* retention_hours producers ask for
    ArtifactRetention,  \* artifact_retention_hours
    MaxTime,            \* BOUND: nothing is submitted that outlives the clock
    None

ASSUME DeliveryAssumption ==
    /\ None \notin Artifacts \cup Suffixes \cup Tasks \cup Workers \cup Requests
    /\ Kinds \subseteq {"remote", "local", "candidate"}
    /\ {PostFormat, ".png"} \subseteq Suffixes
    /\ Retentions \subseteq Nat /\ ArtifactRetention \in Nat /\ MaxTime \in Nat

VARIABLES
    now,
    task,      \* tasks: status, the worker that claims it, kind, result, expires_at
    producer,  \* how far each task's producer is
    worker,    \* where each worker is, its task, its upload, the artifact it got
    hero,      \* the cached file: "absent", "partial" or "whole"
    expires,   \* artifacts.expires_at
    row, object, id, req, doomed, swept

Store == INSTANCE ArtifactStore

storeVars == <<row, object, id, req, doomed, swept>>
vars == <<now, task, producer, worker, hero, expires, storeVars>>

NoTask == [status |-> "none", by |-> None, kind |-> "local", result |-> None,
           expires |-> 0, retention |-> 0]
Swept == [NoTask EXCEPT !.status = "swept"]
Idle == [at |-> "idle", task |-> None, kind |-> "local", req |-> None, artifact |-> None]

Exists(t) == task[t].status \notin {"none", "swept"}
Unfinished(t) == task[t].status \in {"queued", "claimed"}

-----------------------------------------------------------------------------
(* The producer.                                                           *)

Submit(t, kind, retention) ==
    /\ producer[t] = "new"
    /\ now + retention < MaxTime
    /\ task' = [task EXCEPT ![t] = [NoTask EXCEPT !.status = "queued", !.kind = kind,
                                     !.retention = retention, !.expires = now + retention]]
    /\ producer' = [producer EXCEPT ![t] = "waiting"]
    /\ UNCHANGED <<now, worker, hero, expires, storeVars>>

\* wait_for_task, a poll that ends it: done, failed, or 404.
Poll(t) ==
    /\ producer[t] = "waiting"
    /\ ~Unfinished(t)
    /\ producer' = [producer EXCEPT ![t] = task[t].status]
    /\ UNCHANGED <<now, task, worker, hero, expires, storeVars>>

\* A poll of an unfinished task past timeout_seconds.
WaitTimesOut(t) ==
    /\ producer[t] = "waiting"
    /\ Unfinished(t)
    /\ producer' = [producer EXCEPT ![t] = "timed out"]
    /\ UNCHANGED <<now, task, worker, hero, expires, storeVars>>

\* GET /artifacts/{id} of the result, then DELETE; a delete may be sent again.
DeleteResult(t, r) ==
    /\ producer[t] = "done"
    /\ task[t].result # None
    /\ Store!BeginDelete(r, task[t].result)
    /\ UNCHANGED <<now, task, producer, worker, hero, expires>>

-----------------------------------------------------------------------------
(* The worker.                                                             *)

Goto(w, from, to) == worker[w].at = from /\ worker' = [worker EXCEPT ![w].at = to]

Step(w, from, to) ==
    Goto(w, from, to) /\ UNCHANGED <<now, task, producer, hero, expires, storeVars>>

Claim(w, t) ==
    /\ worker[w].at = "idle"
    /\ Unfinished(t)
    /\ task' = [task EXCEPT ![t].status = "claimed", ![t].by = w]
    /\ worker' = [worker EXCEPT ![w] = [Idle EXCEPT !.at = "resolving", !.task = t,
                                                 !.kind = task[t].kind]]
    /\ UNCHANGED <<now, producer, hero, expires, storeVars>>

\* raise_if_expired, before anything else; no downgrade, no late start.
Expired(w) == Step(w, "resolving", "failing")

\* A URL off the allowed hosts, a hero without its card, a candidate without a
\* seed, a profile nobody knows.
Refused(w) == Step(w, "resolving", "failing")

\* An image without remote hero, or a candidate: nothing to resolve.
NoHeroNeeded(w) ==
    /\ worker[w].kind # "remote"
    /\ Step(w, "resolving", "rendering")

\* _resolve_remote_hero: a cached file that is not empty is used as it is.
HeroAtHand(w) ==
    /\ worker[w].kind = "remote" /\ hero # "absent"
    /\ Step(w, "resolving", "rendering")

HeroMissing(w) ==
    /\ worker[w].kind = "remote" /\ hero = "absent"
    /\ Step(w, "resolving", "downloading")

\* No answer, a redirect, more than MAX_HERO_BYTES, no image; or the disk is full.
DownloadFails(w) ==
    \E at \in {"downloading", "writing"} : Step(w, at, "failing")

\* Mutant: the cached file is written in place.
WriteCache(w) ==
    /\ Goto(w, "downloading", "writing")
    /\ hero' = "partial"
    /\ UNCHANGED <<now, task, producer, expires, storeVars>>

\* Downloaded and checked; a file with a name of its own is being written.
WriteTemporary(w) == Step(w, "downloading", "writing")

\* os.replace: the cached file is the whole image at once.
Replace(w) ==
    /\ Goto(w, "writing", "rendering")
    /\ hero' = "whole"
    /\ UNCHANGED <<now, task, producer, expires, storeVars>>

\* No memory, no ComfyUI, forge2 failed or took too long, a blank image.
RenderFails(w) == Step(w, "rendering", "failing")

\* A candidate is uploaded as forge2 wrote it.
Suffix(kind) == IF kind = "candidate" THEN ".png" ELSE PostFormat

BeginUpload(w, r, a) ==
    /\ worker[w].at = "rendering"
    /\ worker' = [worker EXCEPT ![w].at = "uploading", ![w].req = r]
    /\ Store!BeginUpload(r, a, Suffix(worker[w].kind))
    /\ UNCHANGED <<now, task, producer, hero, expires>>

\* The answer names the artifact; the request is over.
Uploaded(w) ==
    /\ worker[w].at = "uploading"
    /\ req[worker[w].req].at = "uploaded"
    /\ worker' = [worker EXCEPT ![w].at = "completing", ![w].req = None,
                                ![w].artifact = req[worker[w].req].id]
    /\ Store!Respond(worker[w].req)
    /\ UNCHANGED <<now, task, producer, hero, expires>>

\* The 30 s of the client are over.  The server goes on with the request.
UploadTimesOut(w) ==
    /\ worker[w].at = "uploading"
    /\ worker' = [worker EXCEPT ![w].at = "failing", ![w].req = None]
    /\ UNCHANGED <<now, task, producer, hero, expires, storeVars>>

Holds(w) == task[worker[w].task].status = "claimed" /\ task[worker[w].task].by = w

\* complete_task or fail_task: served, refused with 409, or never arriving.
\* The worker logs what went wrong and goes on.
Report(w, status, artifact) ==
    /\ \/ Holds(w) /\ task' = [task EXCEPT ![worker[w].task].status = status,
                                           ![worker[w].task].result = artifact]
       \/ UNCHANGED task
    /\ worker' = [worker EXCEPT ![w] = Idle]
    /\ UNCHANGED <<now, producer, hero, expires, storeVars>>

Complete(w) == worker[w].at = "completing" /\ Report(w, "done", worker[w].artifact)

Fail(w) == worker[w].at = "failing" /\ Report(w, "failed", None)

\* Killed, and started again.  A temporary file may stay behind.
Crash(w) ==
    /\ worker[w].at # "idle"
    /\ worker' = [worker EXCEPT ![w] = Idle]
    /\ UNCHANGED <<now, task, producer, hero, expires, storeVars>>

-----------------------------------------------------------------------------
(* The server and the database.                                            *)

\* A request whose client is gone is answered to nobody.
Abandoned(r) == \A w \in Workers : worker[w].req # r

StoreStep(r) ==
    /\ \/ Store!UploadObject(r) \/ Store!DeleteObject(r) \/ Store!DeleteRow(r)
       \/ Abandoned(r) /\ Store!Respond(r)
    /\ UNCHANGED <<now, task, producer, worker, hero, expires>>

\* expires_at counts from the moment the object is stored.
InsertArtifact(r) ==
    /\ Store!InsertRow(r)
    /\ expires' = [expires EXCEPT ![req[r].id] = now + ArtifactRetention]
    /\ UNCHANGED <<now, task, producer, worker, hero>>

\* 500, or no answer: the worker that waits for it reports a failure.
RequestFails(r) ==
    /\ Store!Fail(r)
    /\ expires' = IF row' = row THEN expires
                  ELSE [expires EXCEPT ![req[r].id] = now + ArtifactRetention]
    /\ worker' = [w \in Workers |->
                    IF worker[w].req = r THEN [worker[w] EXCEPT !.at = "failing", !.req = None]
                    ELSE worker[w]]
    /\ UNCHANGED <<now, task, producer, hero>>

\* Mutant: only finished tasks are swept.
CleanupFinished(t) ==
    /\ Exists(t) /\ ~Unfinished(t)
    /\ task[t].expires < now
    /\ task' = [task EXCEPT ![t] = Swept]
    /\ UNCHANGED <<now, producer, worker, hero, expires, storeVars>>

\* delete from tasks where expires_at < now(), whatever the status.
CleanupTask(t) ==
    /\ Exists(t)
    /\ task[t].expires < now
    /\ task' = [task EXCEPT ![t] = Swept]
    /\ UNCHANGED <<now, producer, worker, hero, expires, storeVars>>

\* Mutant: artifacts are swept a moment early.
CleanupArtifactAtTheBoundary(a) ==
    /\ expires[a] <= now
    /\ Store!CleanupArtifacts(a)
    /\ UNCHANGED <<now, task, producer, worker, hero, expires>>

CleanupArtifact(a) ==
    /\ expires[a] < now
    /\ Store!CleanupArtifacts(a)
    /\ UNCHANGED <<now, task, producer, worker, hero, expires>>

Tick ==
    /\ now < MaxTime
    /\ now' = now + 1
    /\ UNCHANGED <<task, producer, worker, hero, expires, storeVars>>

-----------------------------------------------------------------------------
Init ==
    /\ now = 0
    /\ task = [t \in Tasks |-> NoTask]
    /\ producer = [t \in Tasks |-> "new"]
    /\ worker = [w \in Workers |-> Idle]
    /\ hero = "absent"
    /\ expires = [a \in Artifacts |-> 0]
    /\ Store!Init

ProducerStep(t) ==
    \/ \E kind \in Kinds, retention \in Retentions : Submit(t, kind, retention)
    \/ Poll(t) \/ WaitTimesOut(t)
    \/ \E r \in Requests : DeleteResult(t, r)

WorkerStep(w) ==
    \/ \E t \in Tasks : Claim(w, t)
    \/ Expired(w) \/ Refused(w) \/ NoHeroNeeded(w) \/ HeroAtHand(w) \/ HeroMissing(w)
    \/ DownloadFails(w) \/ WriteTemporary(w) \/ Replace(w) \/ RenderFails(w)
    \/ \E r \in Requests, a \in Artifacts : BeginUpload(w, r, a)
    \/ Uploaded(w) \/ UploadTimesOut(w) \/ Complete(w) \/ Fail(w) \/ Crash(w)

Next ==
    \/ \E t \in Tasks : ProducerStep(t) \/ CleanupTask(t)
    \/ \E w \in Workers : WorkerStep(w)
    \/ \E r \in Requests : StoreStep(r) \/ InsertArtifact(r) \/ RequestFails(r)
    \/ \E a \in Artifacts : CleanupArtifact(a)
    \/ Tick

Spec == Init /\ [][Next]_vars

\* Time passes, pg_cron runs and a producer without a timeout polls.  Nothing
\* is assumed of the workers.
Fairness == WF_vars(Tick) /\ \A t \in Tasks : WF_vars(CleanupTask(t)) /\ WF_vars(Poll(t))

FairSpec == Spec /\ Fairness

-----------------------------------------------------------------------------
\* README, producers get the artifact of a finished task: while the row of a
\* task that is done has not expired, its result has its row and its object,
\* unless a producer deleted it, provided that the task was not to be kept
\* longer than artifacts are.
ResultIsDownloadable ==
    \A t \in Tasks :
        LET a == task[t].result
        IN task[t].status = "done" /\ now <= task[t].expires
             /\ task[t].retention <= ArtifactRetention /\ a \notin doomed
           => row[a] # None /\ row[a] \in object[a]

\* image_worker.py, _resolve_remote_hero ("only a real image is cached"): no
\* render reads a hero that another worker is writing or died writing.
HeroIsWhole ==
    \A w \in Workers :
        worker[w].at = "rendering" /\ worker[w].kind = "remote" => hero = "whole"

\* A producer that waits without a timeout is told an end, although workers may
\* crash on its task again and again: the sweep ends the wait at the latest.
EveryWaitEnds == \A t \in Tasks : producer[t] = "waiting" ~> producer[t] # "waiting"
=============================================================================
