--------------------------- MODULE ComfySupervisor ---------------------------
(***************************************************************************)
(* The supervisor of ComfyUI in a worker process, the pid file it leaves   *)
(* on disk, and the processes of the machine.                              *)
(*                                                                         *)
(* The main thread calls ensure_running, stop and maybe_stop_idle, which   *)
(* hold the lock for as long as they take (minutes, for a cold start): a   *)
(* call is several steps, and call.at says where it is.  The heartbeat     *)
(* thread's details() never waits: it acts only when the lock is free, and *)
(* is one step.  Processes come up, hang, answer again and die in between. *)
(* Whoever answers on the port answers the health probe, and only one      *)
(* process can hold the port.                                              *)
(***************************************************************************)
EXTENDS Integers, FiniteSets

CONSTANTS
    Pids,          \* process ids (BOUND on ComfyUIs started)
    Manage,        \* COMFYUI_MANAGE
    Failing,       \* what may fail: opening the "log", writing the "pid" file,
                   \* reading it or asking "ps" about it
    None

VARIABLES
    proc,     \* who started each process, what it does, whether it rendered blank
    pidfile,  \* the pid on disk
    sup,      \* the supervisor's fields: _proc, _state, _busy, _restart_pending
    call      \* how far the main thread's call is

supVars == <<proc, pidfile, sup, call>>

\* "mine": started by this worker process; "orphan": by an earlier one.
Starters == {"nobody", "mine", "orphan", "user"}
\* "running": a program that is no ComfyUI ("main.py").
Lives == {"none", "starting", "up", "hung", "running", "dead"}
States == {"stopped", "starting", "ready", "restarting", "failed"}
Process == [by : Starters, life : Lives, blank : BOOLEAN]
Supervisor ==
    [proc : Pids \cup {None}, state : States, busy : BOOLEAN, pending : BOOLEAN]
Call ==
    [at : {"ok", "raised", "killing", "launching", "launched", "waiting"},
     target : Pids \cup {None}, then : {"ok", "raised", "launching", None}]

NewSupervisor == [proc |-> None, state |-> "stopped", busy |-> FALSE, pending |-> FALSE]
At(place) == [at |-> place, target |-> None, then |-> None]
Killing(p, next) == [at |-> "killing", target |-> p, then |-> next]

\* The lock is free: the last call returned or raised.
Free == call.at \in {"ok", "raised"}

Alive(p) == proc[p].life \in {"starting", "up", "hung", "running"}
ChildAlive == sup.proc # None /\ Alive(sup.proc)
Healthy == \E p \in Pids : proc[p].life = "up"

-----------------------------------------------------------------------------
(* Adoption of a ComfyUI that a previous worker left running.              *)

\* Mutant: any process of that pid is adopted.
AnyProcess(p) == Alive(p)

\* _adopt_comfyui: `ps` shows main.py under that pid.
IsComfy(p) == proc[p].life \in {"starting", "up", "hung"}

\* `shown`: the pid file can be read and `ps` answers.
Shown == {TRUE} \cup IF "ps" \in Failing THEN {FALSE} ELSE {}

\* _adopt_orphan, when it holds `held`: the process held afterwards, and the
\* pid file, removed if it shows no ComfyUI.
Adopted(held, shown) ==
    IF held = None /\ pidfile # None /\ shown /\ IsComfy(pidfile) THEN pidfile ELSE held
FileKept(held, shown) ==
    IF held = None /\ pidfile # None /\ ~(shown /\ IsComfy(pidfile)) THEN None ELSE pidfile

-----------------------------------------------------------------------------
(* ensure_running, _start and _terminate.                                  *)

\* Mutant: a hung ComfyUI is left beside the one started for it.
EnsureRunningBesideHung(shown) ==
    /\ Free
    /\ LET held == IF ChildAlive THEN sup.proc ELSE None
       IN IF Healthy
          THEN /\ sup' = [sup EXCEPT !.proc = Adopted(held, shown), !.pending = FALSE,
                                     !.state = "ready"]
               /\ pidfile' = FileKept(held, shown)
               /\ call' = At("ok")
          ELSE /\ sup' = [sup EXCEPT !.proc = None, !.pending = FALSE]
               /\ UNCHANGED pidfile
               /\ call' = At("launching")
    /\ UNCHANGED proc

\* Mutant: a ComfyUI that answers is used before the restart is looked at.
EnsureRunningIfHealthy(shown) ==
    /\ Free
    /\ LET own  == IF ChildAlive THEN sup.proc ELSE None
           held == IF Healthy THEN Adopted(own, shown) ELSE own
       IN IF Healthy
          THEN /\ sup' = [sup EXCEPT !.proc = held, !.state = "ready"]
               /\ pidfile' = FileKept(own, shown)
               /\ call' = At("ok")
          ELSE /\ sup' = [sup EXCEPT !.proc = None, !.pending = FALSE]
               /\ pidfile' = IF held # None THEN None ELSE pidfile
               /\ call' = IF held # None THEN Killing(held, "launching") ELSE At("launching")
    /\ UNCHANGED proc

\* The checks before the first slow step: a crashed child is forgotten, the
\* health probed, an orphan adopted if something answers.  Then: replace a
\* ComfyUI that is to be restarted, use one that answers, or start one, in
\* place of a hung one of ours.
EnsureRunning(shown) ==
    /\ Free
    /\ LET own     == IF ChildAlive THEN sup.proc ELSE None
           held    == IF Healthy THEN Adopted(own, shown) ELSE own
           file    == IF Healthy THEN FileKept(own, shown) ELSE pidfile
           restart == sup.pending /\ held # None
           fresh   == IF Manage \/ restart THEN "launching" ELSE "raised"
           state   == IF restart THEN "restarting"
                      ELSE IF Healthy THEN "ready"
                      ELSE IF fresh = "raised" /\ held = None THEN "failed" ELSE sup.state
           usable  == Healthy /\ ~restart
       IN /\ sup' = [sup EXCEPT !.proc = IF usable THEN held ELSE None,
                                !.state = state, !.pending = FALSE]
          /\ pidfile' = IF usable \/ held = None THEN file ELSE None
          /\ call' = IF usable THEN At("ok")
                     ELSE IF held = None THEN At(fresh)
                     ELSE Killing(held, fresh)
    /\ UNCHANGED proc

\* _terminate, once the fields and the pid file are cleared: SIGTERM, then
\* SIGKILL after 20 s.  It is gone when the call goes on.
Kill ==
    /\ call.at = "killing"
    /\ proc' = [proc EXCEPT ![call.target].life = "dead"]
    /\ call' = At(call.then)
    /\ sup' = [sup EXCEPT !.state = CASE call.then = "ok" -> "stopped"
                                      [] call.then = "raised" -> "failed"
                                      [] call.then = "launching" -> @]
    /\ UNCHANGED pidfile

\* _start: the process is created ...
Launch(p) ==
    /\ call.at = "launching"
    /\ proc[p].life = "none"
    /\ proc' = [proc EXCEPT ![p] = [by |-> "mine", life |-> "starting", blank |-> FALSE]]
    /\ sup' = [sup EXCEPT !.proc = p, !.state = "starting"]
    /\ call' = At("launched")
    /\ UNCHANGED pidfile

\* ... or the log cannot be opened, and the OSError leaves ensure_running.
LaunchFails ==
    /\ "log" \in Failing
    /\ call.at = "launching"
    /\ sup' = [sup EXCEPT !.state = "starting"]
    /\ call' = At("raised")
    /\ UNCHANGED <<proc, pidfile>>

RecordPid ==
    /\ call.at = "launched"
    /\ pidfile' = sup.proc
    /\ call' = At("waiting")
    /\ UNCHANGED <<proc, sup>>

\* The handler of the OSError calls log, which is the open file here (line
\* 178): a TypeError leaves ensure_running.
RecordPidFails ==
    /\ "pid" \in Failing
    /\ call.at = "launched"
    /\ call' = At("raised")
    /\ UNCHANGED <<proc, pidfile, sup>>

ExitedDuringStartup ==
    /\ call.at = "waiting"
    /\ ~ChildAlive
    /\ sup' = [sup EXCEPT !.proc = None, !.state = "failed"]
    /\ pidfile' = None
    /\ call' = At("raised")
    /\ UNCHANGED proc

Responds ==
    /\ call.at = "waiting"
    /\ ChildAlive
    /\ Healthy
    /\ sup' = [sup EXCEPT !.state = "ready"]
    /\ call' = At("ok")
    /\ UNCHANGED <<proc, pidfile>>

\* The deadline passes, whatever the last probe said before the last sleep.
StartTimesOut ==
    /\ call.at = "waiting"
    /\ sup' = [sup EXCEPT !.proc = None, !.state = IF ChildAlive THEN @ ELSE "failed"]
    /\ pidfile' = None
    /\ call' = IF ChildAlive THEN Killing(sup.proc, "raised") ELSE At("raised")
    /\ UNCHANGED proc

-----------------------------------------------------------------------------
(* stop, maybe_stop_idle, request_restart, mark_busy and mark_idle.        *)

\* stop(), of a supervisor that holds `held`.
StopHeld(held, file) ==
    IF held = None
    THEN sup' = sup /\ pidfile' = file /\ call' = At("ok")
    ELSE /\ pidfile' = None
         /\ sup' = [sup EXCEPT !.proc = None, !.state = IF Alive(held) THEN @ ELSE "stopped"]
         /\ call' = IF Alive(held) THEN Killing(held, "ok") ELSE At("ok")

Stop ==
    /\ Free
    /\ StopHeld(sup.proc, pidfile)
    /\ UNCHANGED proc

\* `idle`: nothing has used it for COMFYUI_IDLE_MINUTES.
MaybeStopIdle(idle, shown) ==
    /\ Free
    /\ LET held == Adopted(sup.proc, shown)
           file == FileKept(sup.proc, shown)
       IN IF idle /\ ~sup.busy
          THEN StopHeld(held, file)
          ELSE sup' = [sup EXCEPT !.proc = held] /\ pidfile' = file /\ call' = At("ok")
    /\ UNCHANGED proc

MarkBusy == Free /\ sup' = [sup EXCEPT !.busy = TRUE] /\ UNCHANGED <<proc, pidfile, call>>
MarkIdle == Free /\ sup' = [sup EXCEPT !.busy = FALSE] /\ UNCHANGED <<proc, pidfile, call>>

-----------------------------------------------------------------------------
(* details(), in the heartbeat thread.  While the lock is held it only     *)
(* reads; while a render runs it asks no one but its own child.            *)

Forget == [sup EXCEPT !.proc = None, !.state = "stopped"]
Dead == sup.proc # None /\ ~ChildAlive

DetailsBusy ==
    /\ Free /\ sup.busy /\ Dead
    /\ sup' = Forget
    /\ pidfile' = None
    /\ UNCHANGED <<proc, call>>

DetailsHealthy(shown) ==
    /\ Free /\ ~sup.busy /\ sup.state \in {"ready", "stopped", "failed"} /\ Healthy
    /\ sup' = [sup EXCEPT !.proc = Adopted(@, shown), !.state = "ready"]
    /\ pidfile' = FileKept(sup.proc, shown)
    /\ UNCHANGED <<proc, call>>

DetailsUnhealthy ==
    /\ Free /\ ~sup.busy /\ sup.state = "ready" /\ ~Healthy
    /\ sup' = IF Dead THEN Forget ELSE [sup EXCEPT !.state = "stopped"]
    /\ pidfile' = IF Dead THEN None ELSE pidfile
    /\ UNCHANGED <<proc, call>>

-----------------------------------------------------------------------------
(* The processes.                                                          *)

Become(p, life) == proc' = [proc EXCEPT ![p].life = life] /\ UNCHANGED <<pidfile, sup, call>>

PortFree == \A p \in Pids : proc[p].life \notin {"up", "hung"}
ComesUp(p) == proc[p].life = "starting" /\ PortFree /\ Become(p, "up")
Hangs(p) == proc[p].life = "up" /\ Become(p, "hung")
AnswersAgain(p) == proc[p].life = "hung" /\ Become(p, "up")

\* It crashes, finds the port taken, or its user stops it.
Exits(p) == Alive(p) /\ Become(p, "dead")

UserStarts(p) ==
    /\ proc[p].life = "none"
    /\ proc' = [proc EXCEPT ![p] = [by |-> "user", life |-> "starting", blank |-> FALSE]]
    /\ UNCHANGED <<pidfile, sup, call>>

\* A pid is given to another program.
Reused(p) ==
    /\ proc[p].life = "dead"
    /\ proc' = [proc EXCEPT ![p] = [by |-> "user", life |-> "running", blank |-> FALSE]]
    /\ UNCHANGED <<pidfile, sup, call>>

Environment ==
    \E p \in Pids : \/ ComesUp(p) \/ Hangs(p) \/ AnswersAgain(p) \/ Exits(p)
                    \/ UserStarts(p)

SupervisorSteps ==
    \/ Kill \/ RecordPid \/ RecordPidFails \/ LaunchFails
    \/ \E p \in Pids : Launch(p)
    \/ ExitedDuringStartup \/ Responds \/ StartTimesOut

Details ==
    \/ DetailsBusy \/ DetailsUnhealthy
    \/ \E shown \in Shown : DetailsHealthy(shown)

SupervisorInit ==
    /\ proc = [p \in Pids |-> [by |-> "nobody", life |-> "none", blank |-> FALSE]]
    /\ pidfile = None
    /\ sup = NewSupervisor
    /\ call = At("ok")
=============================================================================
