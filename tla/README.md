# Verification of task-queue

TLA+ models of the task queue, its workers and its clients, the TLC runs that
check small instances of them, and the theorems TLAPS proves about them for
every instance.  Paths are relative to the repository (`src/` here).

## 1. Inventory

| component | state it keeps | operations | talks to |
|---|---|---|---|
| task service (`app/services/task_service.py`) | table `tasks` | submit, get, list, claim_next (reclaim + claim), complete, fail | Postgres |
| worker service (`app/services/worker_service.py`) | table `workers`, progress and lease of `tasks` | register, heartbeat, list, is_online | Postgres |
| artifact service (`app/services/artifact_service.py`, `app/storage.py`) | table `artifacts`, objects of a storage bucket | upload, get, download, delete | Postgres, Supabase Storage |
| worker keys (`app/services/worker_key_service.py`) | table `worker_keys` | create (cap 10), list, revoke, find_active_key | Postgres, `platform.profiles` |
| authentication (`app/auth.py`, `app/config.py`) | per-process cache of worker keys, configured key hashes | require_producer, require_worker, require_admin, require_approved_user | worker keys, Supabase Auth |
| HTTP API (`app/api/routes.py`, `app/schemas.py`, `app/main.py`, `app/admin.py`) | none | one route per operation above; service errors become 404, 409, 503 | the services |
| database jobs (`supabase/migrations`) | none | pg_cron sweeps of tasks, artifacts, workers; `on delete set null` | Postgres |
| client (`clients/python_client.py`) | none | one call per route, `wait_for_task` polling, 30 s timeout, no retries | HTTP API |
| worker main loop (`workers/local_worker.py`) | the claimed task, time of the last task | claim, run, report, sleep | client, heartbeat, ComfyUI, Ollama |
| heartbeat thread (`workers/image_worker.py` `WorkerHeartbeat`) | state to report, wake event | register, update, send every 60 s or on wake | client |
| task handlers (`workers/image_worker.py`, `workers/text_worker.py`, `workers/deadline.py`) | files, references | deadline check, memory gate, render, upload, chat | forge2, client |
| ComfyUI supervisor (`workers/comfyui.py`) | process handle, pid file, busy flag | adopt, ensure_running, stop, restart, idle stop | OS processes, ComfyUI HTTP |
| Ollama manager (`workers/ollama.py`) | which model it loaded, last use | chat, unload, idle unload | Ollama HTTP |
| memory probe (`workers/memory.py`) | none | shortfall of a profile | OS |
| admin dashboard (`app/admin_ui/admin.js`) | session, tables shown, refresh flag | sign in/out, refresh, reset | HTTP API, Supabase Auth |
| checks (`scripts/validate_admin_ui.py`), styles | none | static lint of the dashboard | files |

What makes it hard:

* Every request is one READ COMMITTED transaction.  Only `claim_next` locks
  (`FOR UPDATE SKIP LOCKED`); all other requests read a row, check it, and
  later write the columns they changed by primary key.  There is no version
  column, so what was checked may be stale when it is written.
* A worker is two threads and a crash away from silence: the main loop reports
  a result once and never retries, the heartbeat thread keeps a five-minute
  lease alive, and the reclaim happens only when somebody else polls.
* A claim whose response is lost stays claimed until its lease ends.
* pg_cron deletes rows by age whatever their status, and knows nothing of the
  objects in storage.
* Keys are cached per process for 60 s after a lookup, and the settings that
  say which keys are needed change by deployments, one variable at a time.
* The dashboard's requests are answered in any order, while the user signs out
  or in again in another tab.
* Workers of one machine share a cache of reference images without a lock.
* The worker must stop a ComfyUI and unload a model exactly when it is its own.

## 2. Plan and status

In the order of importance, each module after those it builds on:

| step | module | subject | status |
|---|---|---|---|
| 1 | `TaskQueue` | the rows of `tasks` and `workers` under overlapping requests and sweeps | modelled, checked, every safety property proved |
| 2 | `TaskLifecycle`, `TaskQueueRefinement` | the abstract promise to producers and workers, and that the queue implements it | checked and proved |
| 3 | `WorkerLoop` | main loop and heartbeat thread, lost and late calls, crashes, takeovers, leases | modelled, checked, every safety property proved |
| 4 | `WorkerKeys` | self-service keys, the cache, revocation, the cap | modelled, checked, every property proved |
| 5 | `ArtifactStore` | rows and objects of artifacts, half-done uploads and deletes | modelled, checked, every property proved |
| 6 | `ComfySupervisor`, `OllamaOwner`, composed by `TaskHandlers` | who may stop what on the worker's machine, and who shares its memory | modelled, checked, safety proved |
| 7 | `Access` | the settings, their validation and what each route's dependency decides | modelled, checked; what a rollout changes proved in `DashboardProofs` |
| 8 | `Dashboard`, composed with `Access` | refreshes in flight across sign-out, failures and deployments | modelled, checked, safety proved |
| 9 | `Delivery`, composed with `ArtifactStore` | a visual task from submit to the fetched artifact, through every part | modelled, checked, safety proved; each of its steps proved to be one of the store's or to leave the store alone |

`TaskLifecycle` is the one abstract specification so far: a second worth
stating is a lock on the machine's memory (one of: nothing, ComfyUI, model),
which `TaskHandlers` should implement while no process crashed.

Every safety property of a passing run is the statement of a theorem
(`LoadedIsOwned` and `RenderRunsAlone` under a condition, section 5).  Worth
proving next: that `TaskHandlers` implements the lock on the machine's memory,
and that what `WorkerLoop` serves in one step is what `TaskQueue` commits.

## 3. Modules and the code

### TaskQueue

The committed rows are `task` and `worker`; `txn` is what each database
connection's request has read and will write; `grant` is history: which task
and worker each claim token was issued for.  `now` is the clock of the
database and of the API processes, which the code compares with each other.

A request is one transaction at READ COMMITTED without a row version.

* `complete_task`, `fail_task`, `heartbeat` and `register_worker` load a row,
  check it and commit later.  SQLAlchemy then writes the columns whose value
  it changed, by primary key, so each is two actions: a read with all the
  checks (`CompleteTask`, `FailTask`, `Heartbeat`, `Register`) and a commit
  (`FinishCommit`, `HeartbeatCommit`, `RegisterCommit`) that merges the changed
  columns (`Dirty`, `MergeWorker`) into the row as it is by then.
* `claim_next` takes its `now` (`ClaimNext`) and runs `_RECLAIM_SQL` and
  `_CLAIM_SQL` later.  The rows those UPDATEs touch stay locked until the
  commit and only rows that still satisfy the WHERE are locked, so the two
  statements and the commit are one action (`ClaimTask`, `ClaimNothing`).
* `Rollback` ends a request with no effect: a row is gone at its commit, an
  INSERT meets a row, the connection or the process dies.
* `CleanupTasks` and `CleanupWorkers` are the pg_cron jobs with the foreign
  key's ON DELETE SET NULL.  A sweep waits for the row locks of a request that
  has flushed; since a request flushes and commits in one action here, nothing is lost
  by that.

The clients are arbitrary: any caller presents any token ever issued, for any
task.  What is left out: payloads, results and messages as data (a result is
identified by the token it was reported with), names, versions, capabilities
and machine details, progress counters, the reads, the anonymous worker id a
claim may come with, and that SKIP LOCKED may pass over a row another claim
holds at that moment (it then returns a newer row; `OldestFirst` is about the
rows a claim can see).

`TaskLifecycle` has no rows, requests, leases or clock: submit, assign under a
new claim (taking some other claims away), deliver under a claim that was
made, forget.  It promises at-least-once, not more: a lost claim may still
deliver.  `TaskQueueRefinement` maps the columns `status`, `claim_token`,
`result` and `error` to it.

### WorkerLoop

`main[p]` is the loop of `local_worker.main`, `beat[p]` the `WorkerHeartbeat`
thread: `state` is `_state`, `snap` what `_send` copied under the lock, `wake`
the event, `due` that the 60 s of `wait` are over.  `call[p][h]` is the HTTP
call of each thread; `late` are requests whose caller gave up (30 s timeout)
and which the server will still serve.  `NetworkError` covers the request that
never arrived, that arrives later, and the lost response.

A tick is one round of a heartbeat thread, its call and its wait: at most 90 s.
`ACTIVE_LEASE_MINUTES` = 5 covers three such rounds; the runs use leases of
one tick for a fresh claim (less than any lease in use) and two for a
heartbeat's, which makes losing them easier.  `Tick` waits until each living thread waits
(`Resting`): the clock does not overtake the program, which is the assumption
that the code's timeouts hold.  A claim's answer that has reached the process
is taken up before the tick ends, for the same reason.  A tick also needs no
answer of the main loop's other calls: handlers may take any number of ticks.

The queue is served in one step per request here (overlap is `TaskQueue`'s
subject); tokens are recycled when nobody holds them, which keeps the state
space finite and is sound because a uuid4 is compared for equality only.
`Update` assigns `_state` and sets the event in one step: between the two the
thread could only send the new state early or clear an older wake-up, and the
event is set afterwards in any case.  Signals, sleeps between polls
(`next_poll_delay`) and the machine are left to `TaskHandlers` or abstracted.

`workerOf` is the WORKER_ID each process was started with.  One run has both
deployments that matter: processes with ids of their own, which compete for a
task, and two under one id, where the second to register replaces the session
of the first (`README.md:212` calls it a stable identity; nothing keeps two
processes from having the same).

### WorkerKeys

`require_worker` runs on a thread pool and the threads of a process share
`_worker_key_cache` without a lock: a request takes its time (`Present`),
looks in the cache (`LookUp`), queries (`FindActiveKey`), stores (`Store`).
`create_key` counts and inserts in two statements (`CountKeys`, `CreateKey`).
A key stands for its sha256.  `ended` and `held` are history: when a key last
stopped being valid, and whether it was valid all through a request.
`last_used_at` and the configured environment keys are not modelled.

### ArtifactStore

An upload stores the object, then inserts the row; a delete loads the row,
deletes up to four objects one call at a time, then the row.  `Fail` ends a
request at any call, with the call's effect or without it.  pg_cron removes
rows only.  An object is the suffix it has under its id.  Reads are left out.

### ComfySupervisor, OllamaOwner, TaskHandlers

`ComfySupervisor` has the processes of the machine (`proc`: who started each,
what it does), the pid file, the supervisor's fields and `call`, which says
how far the main thread's call is: `ensure_running` may take minutes, with its
lock held, while processes come up, hang, answer again and die.  `details()`,
called by the heartbeat thread, acts only when the lock is free (`Free`).
What the code asks in a row with nothing slow in between (poll, health probe,
`ps`) is one observation.  `OllamaOwner` has the models in memory, `_owned`
and the chat under way; only the main thread changes them.  `model` says who
really loaded each model, which the code cannot see: a model the user loads is
`user` whatever `_owned` says (`user_model` is about the difference), and `kept`
is what no longer is the worker's to unload: a model of ours whose unload
Ollama refused, or one loaded by a chat that could not ask.

What may fail (`Failing`): opening the log, writing the pid file, and reading
it or asking `ps` (`Shown`); after the last, the code removes the pid file
whatever ran under that pid.

`TaskHandlers` composes them with the place of the main thread: no task, a
visual task (unload, memory gate with its second measurement, supervisor,
render), a text task (stop, chat), a signal anywhere (`SystemExit`, the
`finally` of a render, which clears the busy flag, then the atexit handlers,
last registered first), a crash, and the start of the next
worker.  Free choices: the memory gate's verdict, whether idle time is over,
whether Ollama obeys an unload (an HTTP 500 counts as success in the code),
whether a failed chat loaded its model.

Assumed of the machine: SIGKILL works within the 20 s `_terminate` waits (the
code logs a survivor and goes on, `comfyui.py:218-220`); the
start script execs `main.py`, so its pid is ComfyUI's; only one process has
the port; a pid comes round again only while no worker runs, and then to a
program that is no ComfyUI.  `restart()` is called by tests only.  The check
of a task's deadline comes before all of this and changes nothing.

### Access

`Settings` is what the environment says, `Accepted` the validator of
`config.py`, `ServiceKeyHashes` and `WorkerKeyHashes` the dicts it builds, and
each `Require...` operator one dependency of `auth.py`: whom a route takes the
caller for, or the status it refuses with.  A key stands for its sha256, a bearer
token for its user, and the identity service is a free choice of three answers.
`Deploy` replaces the settings by others that were accepted.

### Dashboard

`page`, `token` (`accessToken`), `inProgress` (`refreshInProgress`) and
`table` (`resources`) are the variables of `admin.js`; each step runs to the
next `await`.  A refresh is two requests sent with the token of that moment,
served by the queue as `Access` decides (`Serve`), failing (`FetchFails`),
rendered (`Loaded`), and an end when both promises are fulfilled
(`RefreshEnds`).  What a table shows is the version of the queue it was read
at.  `Fresh` is a page just opened or left: nothing of it survives, answers
on their way included, since the browser drops them with the page; what a
script may still do between `location.replace` and the navigation is left out
(`Leave`).  The code
lets one refresh run at a time; the model has room for two, so that the flag
is what keeps them apart.  Events of the authentication client reach the tab
only while it `listening`.  A worker row that `renderWorkers` throws on is in
`Unrenderable`.

### Delivery

The composition: producer (`Submit`, `Poll`, `WaitTimesOut`, `DeleteResult`),
worker (`Claim`, `Expired` and `Refused`, the cache of heroes, the render, the
upload, `Complete` and `Fail`, `Crash`), the requests of `ArtifactStore`, whose
module it instantiates with its own variables, and the sweeps with the clocks
of both tables.  An upload whose client gave up after 30 s goes on at the
server (`UploadTimesOut`, `Abandoned`).  A claim may be overdue at any time
here, so that two workers on one task is the normal case; `TaskQueue` and
`WorkerLoop` say when it really is.  The cached hero is `partial` while it is
written in place, which the code's temporary file and `os.replace` avoid: only
a mutant writes it so.

## 4. The runs

Symmetry is used on ids no definition tells apart, never in a run with a liveness
property.  `CHECK_DEADLOCK FALSE` where the model really stops: a bounded
clock at its end with every token issued (`TaskQueue`), every artifact id used
and everything deleted (`ArtifactStore`), no pid or crash left
(`TaskHandlers`), everything delivered and swept (`Delivery`).  `WorkerLoop`,
`WorkerKeys` and `Dashboard` are checked for deadlock.

| run | instance | what it shows |
|---|---|---|
| `claims` | 2 tasks of 2 types; a worker of one type and one of both; 3 tokens, 2 connections, clock 0..3, lease 1, retention 2 | claims stay genuine, outcomes stay on their own task, tokens never return, only overdue claims are lost, a claim that is over finishes nothing more once the requests that checked it are over too, the oldest task goes first, and every commit is a step of `TaskLifecycle` |
| `heartbeats` | 1 task; 1 worker id registered by two users' keys and the operator's; 2 tokens, 2 connections, clock 0..3, both sweeps | late heartbeats and finishes reopen nothing; a finished row is final once the requests that read its claim are over; no worker row names a swept task; a living worker row passes to nobody but the operator; a replaced session comes back only with a registration |
| `race_stale_token` | as `claims` with 1 task; violation | a finish checked under the first claim commits after the task was reclaimed and claimed again, and its stale token finishes it |
| `worker_loop` | 2 processes, one may crash: with ids of their own and 1 lost call, or under one id | no report is swallowed, a live holder keeps its task, a replaced process renews nothing, every task finishes |
| `worker_keys` | 3 keys of 1 user, 2 threads of 1 API process, cap 1, cache 2, clock 0..3, restarts | a revocation takes effect within the cache's life, a key valid all along is never refused, the cap is exceeded by less than the overlap |
| `artifacts` | 2 artifacts, 2 requests, suffixes of an image (2) and of anything else | what is listed has its object, a half-done delete can be repeated, 204 means gone for what the delete could find |
| `artifact_delete` | 1 artifact; violation | a swept artifact that is no image survives its delete |
| `machine` | 3 pids, 1 model; log, pid file and `ps` may fail; 2 crashes, signals and restarts | only what a worker started is stopped, one of its own at a time; no ComfyUI that this process started lives beside its chat, and none of this worker's models beside a render, unless its unload was refused; a loaded model stays owned; a ComfyUI of its own that drew a blank is not reused.  A ComfyUI of the user, or an orphan the worker does not hold, may share the memory with a chat: the code stops only what it holds |
| `orphan` | 2 pids, 1 crash; violation | a ComfyUI left starting by a dead worker is forgotten |
| `user_model` | 1 model, no crash, nothing fails but a chat; violation | a model that the user loaded after a chat of ours failed to is unloaded before the next visual task |
| `dashboard` | 1 tab, 2 users, 4 keys, every deployment of the Demo Reel hash and the enforcement, 3 of administrators, 2 versions of the queue, one of which cannot be rendered, room for 2 refreshes | the tables never go back, the summary is that of the tables, every refresh ends unless a row cannot be rendered, a rollout leaves all other keys alone |
| `delivery` | 1 task, 2 workers, 2 artifacts, 2 requests, clock 0..2, retention 1 | a finished task's result can be fetched while the task is kept, no render reads half a hero, every wait ends |

Why these bounds are enough to see the interesting cases:

* Every race of `TaskQueue` is between one request that has read and one that
  commits: two connections.  Three tokens let each task be claimed and one be
  reclaimed and claimed again; a clock of 0..3 with a lease of 1 and a
  retention of 2 has a claim in time, at the boundary, overdue, and swept.
  One task suffices for heartbeats, whose only other row is the worker's.
  Retention and the 30 days of silence are shortened to a few ticks; the code
  only compares them with the clock.
* Two processes are a holder and its rival; with one task they compete for it
  and with one loss every call of each is lost once in some behaviour, before
  it is served, after, or served late.  Under a shared id nothing is lost: the
  two together are out of TLC's reach, and a replaced session is the subject.  Four tokens are always enough for a
  claim to be given a fresh one.
* Three keys fill a cap of one and exceed it by both threads' overlap.
* In the dashboard the queue changes once: two versions are an older and a newer
  answer.  Both users may be administrators, one, or none.
* In the delivery one worker's abandoned upload runs beside the other worker's:
  two requests and two artifacts.  A retention of one tick and a clock of two
  has a task alive, at its boundary and swept, and an artifact stored a tick
  after its task was submitted.
* Three pids are an orphan, its replacement and a ComfyUI of the user; two
  crashes let an orphan's adopter die as well.  With two models
  `LoadedIsOwned` and `RenderRunsAlone` fail when a chat takes over from a
  model that is still owned (section 6), and only then (section 5).
* A claim may bring its own `lease_minutes` (`Overrides`); the runs use the
  default only, with both the instance is too large.  `LeasesAreHonoured` is
  proved for every set of them.

Fairness (`WorkerLoop!Fairness`), for `EveryTaskFinishes` only: the main loop
and the heartbeat thread of a living process keep running (they are loops
whose calls have timeouts, and a handler's subprocess and HTTP calls have
timeouts too, so `Finish` happens); a call that was sent is answered or
fails; a process named in `Reliable` starts; time passes.  Nothing is assumed
of crashes, losses, late requests or progress reports, and processes outside
`Reliable` may never start.  Without one reliable process nobody would be
left to work.  The number of losses is bounded, which stands for a network
that works again in the end.

`Dashboard!Fairness`: the browser ends every request, with an answer or an
error, and runs the code that awaits it.  Nothing is assumed of the user, the
interval or the queue.  `Delivery!Fairness`, for `EveryWaitEnds`: time passes,
pg_cron runs, and a producer polls; no worker needs to work.

Every property has a mutant: a named operator beside the definition
it replaces (`\* Mutant:` in the modules), the way the code could plausibly be
wrong, which TLC refutes under the same run.

## 5. The proofs

| theorem | module | for every |
|---|---|---|
| `TypeCorrect`: `TypeOK` | `TaskQueueProofs` | set of tasks, workers, tokens, connections, any clock bound |
| `QueueInvariant`; `ClaimsAreGenuine`, `OutcomesHaveAClaim`, `CurrentTasksExist` | `TaskQueueProofs` | the same |
| `FinishedStaysFinished`, `TokensAreFresh` (action properties) | `TaskQueueProofs` | the same |
| `LeasesAreHonoured`: `OnlyOverdueClaimsAreLost`, `OldestIsClaimed`: `OldestFirst`, `OnlyTheOperatorTakesOver`: `OwnershipOnlyPassesToOperator` (action properties) | `TaskQueueProofs` | the same |
| `QueueImplementsLifecycle`: `ImplementsLifecycle` | `TaskQueueProofs` | the same |
| `OverClaimsAreOver`: `OverClaimStaysOver`, `SettledRowsAreFinal`: `SettledRowIsFinal`, `ReplacedSessionsStayOut`: `ReplacedSessionStaysOut` (action properties) | `TaskQueueOverlapProofs` | the same |
| `NoUpdateIsLost`: `NoUpdateLost` | `WorkerLoopProofs` | number of tasks, processes, worker ids and tokens, any assignment of ids, crashes, losses, late calls and leases |
| `TokensHaveOneHolder` (the invariant); `ReplacedSessionsRenewNothing`: `ReplacedSessionRenewsNothing` (action property), `LiveHoldersKeepTheirTask`: `LiveHolderKeepsTask` | `WorkerLoopProofs` | the same |
| `TypeCorrect`, `RevocationIsTimely`: `RevocationTakesEffect`, `ValidKeysPass`: `ValidKeysAreNotRejected`, `CapIsExceededByOverlapOnly`: `CapHoldsUpToOverlap` | `WorkerKeysProofs` | number of processes, keys, users, any finite number of threads, any cap and cache life |
| `MachineInvariant`; `TypeCorrect`, `UserIsNeverStopped`: `OnlyOwnIsStopped`, `OneAtATime`: `OneComfyAtATime`, `TextIsAlone`: `TextRunsAlone`, `BlankIsReplaced`: `BlankIsNotReused` | `TaskHandlersProofs` | number of pids, models, crashes and restarts, whatever of log, pid file and `ps` fails |
| `LoadedStaysOwned`: only a chat that takes over (`AnotherTakesOver`) ends `LoadedIsOwned`; `RendersAreAlone`: `LoadedIsOwned` and `RenderRunsAlone` as long as none does | `TaskHandlersProofs` | the same as for `MachineInvariant` |
| `StoreInvariant`; `TypeCorrect`, `ListedArtifactsHaveObjects`: `ListedHasObject`, `DeletesCanBeRepeated`: `UnfinishedDeleteKeepsRow`, `DeletedMeansGone`: `DeleteRemovesWhatItFinds` | `ArtifactStoreProofs` | set of ids, suffixes and overlapping requests |
| `DashboardInvariant`; `TypeCorrect`, `SummaryMatches`: `SummaryMatchesTables`, `TablesOnlyAdvance`: `TablesNeverGoBack`, `RolloutsAreSafe`: `RolloutsLeaveKeysAlone` (action properties) | `DashboardProofs` | settings, users, changes of the queue, room for refreshes |
| `DeliveryInvariant`; `HeroesAreWhole`: `HeroIsWhole`, `ResultsAreDownloadable`: `ResultIsDownloadable` | `DeliveryProofs` | number of tasks, workers, artifacts and overlapping requests, any retentions and clock bound |
| `DeliveryRunsTheStore`: `Delivery` implements `ArtifactStore` | `DeliveryProofs` | the same |

Assumptions: `TimingAssumption`, `NamingAssumption` and `NoneAssumption` of
`TaskQueue` (times are naturals, None is none of the ids), `WorkerAssumption`
of `WorkerLoop` (leases of at least one tick, None is no id and no token),
`KeysAssumption` of `WorkerKeys` (a thread pool is finite and not empty, which
the count of `CapHoldsUpToOverlap` needs), `HandlerAssumption` of
`TaskHandlers` (None and NoModel are no ids), `NamesAssumption` of
`ArtifactStore`, `DashboardAssumption` of `Dashboard` (None is no version),
`EnvironmentsAssumption` of `Access` (what is deployed are settings) and
`DeliveryAssumption` of `Delivery` (None is no id, the suffix of a post and
`.png` are suffixes, times are naturals).  TLC evaluates each in the runs.
No theorem assumes more of the constants.  `RendersAreAlone` has a hypothesis
on the behaviour instead: no chat with another model while one is owned, which
is the case the code gets wrong (section 6).  With one model it never happens.

`QueueInv` adds to the three invariants of the rows what the requests in
progress know (`RequestsAreGrounded`): a finish in progress carries a token
that was issued for its task, and a heartbeat in progress carries the task of
a claim.  Without it the commit of a request whose row has changed under it
would prove nothing about the outcome it writes.  The induction then needs
that grants only grow (`GrantsPersist`) and what each kind of commit writes
column by column (`ClaimWrites`, `FinishWrites`, `HeartbeatWrites`).

`QueueImplementsLifecycle` needs `QueueInv` and that the row of a task not yet
submitted names no claim: a claim commit maps to `Assign` with the claims it
reclaims as the lost ones, a finish to `Deliver` because `RequestsAreGrounded`
says its token was a claim of that task, a sweep to `Forget`, and every other
step, heartbeats included, to a stutter.  `LeasesAreHonoured` needs that the time
a claim took lies in the past when it commits (`ClaimsLookBack`), and
`OnlyTheOperatorTakesOver` that a registration under way keeps the owner it
loaded or is the operator's (`OwnersChecked`): the UPDATE then writes the owner
only if it is the operator's.

A check and its commit are apart, so that "the stale token no longer works"
and "an outcome is final" cannot hold at once for every request
(`race_stale_token`).  `TaskQueueOverlapProofs` says when they hold: as soon as
the requests that had passed their check are over.  A claim is over when no
claimed row has its token and no finish in progress carries it (`Over`); since
tokens are drawn fresh and a check compares with a claimed row, no step brings
it back.  A finished row is settled when no finish or heartbeat of its task is in
progress (`WritePending`); new ones fail their check.

`BeatInv` says where in `_loop` an unset event means that what was sent is
current: from the snapshot to the wake-up, not only while waiting.  Clearing
the event is safe because the snapshot comes after it.

`HolderInv` of `WorkerLoopProofs` follows the claim tokens.  `Control` says
what each thread's call asks for at each place of its loop; `TokenInv`, that a
token is in the places of one process only (`OneHolder`: its claim, its
thread's state and snapshot, its calls and its late requests), and that a
token granted but not read is nowhere but in the answer (`GrantedOnce`).  Both
hold because a step moves tokens within one process (`Moves`) and `claim_next`
draws one that is not in use; that there is a least such token
(`FreshIsFresh`) is the well-foundedness of the naturals.  A heartbeat that
renews a row therefore comes from the process that works on it, which is what
`ReplacedSessionsRenewNothing` needs.  `LiveHoldersKeepTheirTask` counts:
`Keeps` says that the lease is worth the losses that are still allowed, one
tick more once the thread's round for this claim is over (`Renewed`), and a
tick needs that round from every thread.  It rests on `NothingLost` (a thread
that sleeps has sent the claim that is worked on) and on `LateOk` (a late
report is never about the task that is worked on).  The bound on the losses is
the shorter of the two leases: with `lease_minutes` below the rolling lease,
the first heartbeats after the claim matter more than the later ones.

`RevocationIsTimely` rests on `LastValid`, the last moment a key was valid,
which never decreases; a cached match expires within `CacheSeconds` of it
(`CacheInv`), because `Store` counts from the time the request took before
its query (`PastInv`), not from the store.  `ValidKeysPass` needs that a key
valid all through a request is still found by its query (`HeldInv`).
`CapIsExceededByOverlapOnly` compares the keys a user has with the requests
that passed the count and have not inserted yet: each is a key in advance
(`CapInv`), and there are at most as many as threads.

`ModelNext` says what a step leaves of `LoadedIsOwned` and of `RenderFree` (no
model of ours beside a render): both, unless it is the end of a chat that
overwrites `_owned`.  No theorem is about the user's models: `user_model`
refutes that they are left alone.

`MachineInv` has five parts.  `OwnInv`: what is held, named by the pid file or
being terminated is no ComfyUI of the user (the file may name a program that
reused the pid, which is no ComfyUI).  `PlaceInv`: which steps of a call each
place of the main thread can wait for.  `HeldInv`: a live ComfyUI this
process started is the one it holds, unless it is just being terminated or a
signal made the worker let go of it; `OneComfyAtATime` is inductive with these
three only, since a launch needs that nothing is held.  `TextInv`: from the
stop to the answer nothing of ours is held, although the heartbeat thread may
adopt an orphan meanwhile.  `BlankInv`: a blank ComfyUI has its restart
pending until it is terminated, and a render begins with none pending.
`HandleStep` gathers what every call may do to the handle and the processes,
so that the last two parts are proved once for all steps outside the main
thread.

The invariant of `ArtifactStore` has three parts beside the types.  `IdInv`:
an id is new, one upload's, or that of a row or a finished upload.
`ObjectInv`: an object comes before its row, under the suffix the row has.
`DeleteInv`: what a delete has not tried yet is all that can be left of the
artifact.  `UnfinishedDeleteKeepsRow` needs the first two, because another
upload could otherwise bring the id back between two steps of a delete.

`TablesNeverGoBack` does not follow from one load: an answer that arrives was
read at some version, and between its arrival and its rendering another
refresh could render a newer one.  `OneRefresh` (the flag `refreshInProgress`
is set exactly while one refresh is under way, on the dashboard) excludes
that, and `InOrder` says what follows: shown, held, arrived and current
versions are in this order.  `SummaryMatchesTables` is inductive with
`Rendered`, that the two tables of a refresh about to end show what they hold.

`RolloutsAreSafe` is about `Access`: the last of the entries with a key's hash
names it, whether `_named_key_hashes` builds a dict over them or `Max` picks
it, so a deployment that repeats the Demo Reel key (`DemoReelRepeated`) or
changes the enforcement leaves what every other key is taken for
(`RolloutKeeps`, `KeyAlone`).  That a finite sequence has a last such place
(`GreatestExists`) again comes from the least element of a set of naturals.

The invariant of `Delivery` has the part of the store's that it needs
(`StoreInv`), and what ties a task to its artifact: `Order` (a task is claimed
after it was submitted), `Waits` (an upload that a worker waits for is the one
it asked for), `Results` (the artifact a task names was stored after the task
was submitted, so it `Outlives` a task with no longer retention) and `Kept`
(an artifact that was stored has its row until it expires or its owner deletes
it).  `ResultsAreDownloadable` then compares two clocks that no step
relates directly.  `DeliveryRunsTheStore` has one step per action: an action of
`Delivery` that touches the store does what one of `ArtifactStore`'s does.

Left to TLC: everything with fairness (`EveryTaskFinishes`,
`EveryRefreshEnds`, `EveryWaitEnds`), since liveness and ENABLED are beyond
the prover.

## 6. Disagreements between code and documents

Each with a run that shows it (the quotations are in `PROJECT.json`):

* `race_stale_token`: a finish whose check passed before the task was reclaimed
  and claimed again commits afterwards; the stale token finishes the task
  although README.md:31-33 says it no longer works.  Fix: compare status and token in the UPDATE, or
  load the row FOR UPDATE.
* `artifact_delete`: DELETE of a swept artifact stored without an image
  suffix answers 204 and leaves its object in the public bucket.
* `orphan`: `ensure_running` adopts only what answers; a ComfyUI that is still
  starting when its worker dies loses the pid file to the next one.
* `user_model`: `_owned` records the model a chat asked for although the chat
  failed before loading it (`ollama.py:89-93`), and outlives an eviction, so a
  model the user loaded since is unloaded as ours (`ollama.py:106`), although
  README.md:240-241 and the module say such a model is never unloaded.  Fix:
  ask `/api/ps` again before the unload narrows it; Ollama does not say who
  loaded a model.

Met while modelling and not kept as runs:

* In `_start` the open file is bound to `log` (`comfyui.py:178`), so the
  handler of a failed pid file, which calls `log(...)`, raises TypeError
  (`comfyui.py:184`): the state stays `starting` and the process is not
  waited for.  `ComfySupervisor` does what the code does.
* `models.py:65-66` calls capabilities opaque, but `renderWorkers` spreads
  `capabilities.task_types` (`admin.js:108`): a row where it is no list rejects
  the promise, and `refreshInProgress` stays set until the page is reloaded
  (`admin.js:325`).  `EveryRefreshEnds` names the exception.
* `docs/authentication.md` says a worker key is rejected on producer routes.  Nothing
  rejects one hash configured in both SERVICE_API_KEYS and WORKER_API_KEYS,
  and such a key is accepted on both.
* A token refreshed while the session is being verified is missed, since the
  tab listens only afterwards; and a refreshed token may belong to an account
  signed in from another tab, while this one shows the first e-mail.
* `schemas.py:13` accepts any `retention_hours`: a task kept for longer than
  `artifact_retention_hours` outlives its result, so `ResultIsDownloadable` is
  about the others.
* An upload whose client timed out leaves an artifact no task names; the sweep
  takes its row and leaves its object (`artifact_delete`).
* Overlapping requests have more effects that one request at a time has not:
  an outcome can be overwritten by a second finish under the same claim
  (`task_service.py:179`), a finished row can show a running stage and a lease
  (`worker_service.py:91`), and a row can mix the columns of two owners'
  registrations (`worker_service.py:39`).  `SettledRowIsFinal` bounds the first two.
* A signal during `_terminate`'s wait leaves a hung ComfyUI behind, since its
  handle and pid file are cleared first (`comfyui.py:207`; README.md:294).
* README.md:293 says a blank render restarts ComfyUI "before failing"; the
  code marks it and restarts it before the next task.
* With two models, a second chat overwrites `_owned` and a model of ours stays
  in memory, beside renders too (`ollama.py:93`); a refused unload forgets one
  (`ollama.py:106`).
* A failing `ps`, or a pid file that cannot be read, makes the worker remove the
  pid file of a ComfyUI that still runs (`comfyui.py:88-89`, `138-142`).

## 7. Not modelled

Reads (get, list, download) change nothing.  The memory probe's reading of the
machine, command lines, image encoding, the static lint and the styles have no
state that a property here is about.  The worker's sleeps (`next_poll_delay`)
change nothing but when the next step comes, which every model leaves free.
`last_used_at` of a worker key is read by the account page only.
