---------------------------- MODULE TaskHandlers ----------------------------
(***************************************************************************)
(* A worker process on its machine: the main thread that polls, prepares   *)
(* the machine for a visual or a text task and runs it, the heartbeat      *)
(* thread that looks at ComfyUI beside it, clean exits and crashes, and    *)
(* the ComfyUI and the Ollama it shares the machine with.                  *)
(*                                                                         *)
(* Composes ComfySupervisor and OllamaOwner: an action of the main thread  *)
(* is one call of a component, or one step of a call that takes long.      *)
(* What the queue sees of all this is the subject of WorkerLoop.           *)
(***************************************************************************)
EXTENDS ComfySupervisor, OllamaOwner

CONSTANT MaxCrashes  \* BOUND

VARIABLES
    main,    \* where the main thread is; "down": no worker runs
    crashes

vars == <<proc, pidfile, sup, call, model, owned, chat, main, crashes>>

ASSUME HandlerAssumption ==
    /\ Manage \in BOOLEAN
    /\ Failing \subseteq {"log", "pid", "ps"}
    /\ MaxCrashes \in Nat
    /\ None \notin Pids \cup {"ok", "raised", "launching"}
    /\ NoModel \notin Models

Places == {"down", "polling", "idling", "measuring", "remeasuring", "starting",
           "ensuring", "rendering", "clearing", "chatting",
           "quitting", "leaving", "stopping"}

Goto(from, to) == main = from /\ main' = to

-----------------------------------------------------------------------------
(* main: no task.  ComfyUI first, then the model.                          *)

NoTask(idle, shown) ==
    /\ Goto("polling", "idling")
    /\ MaybeStopIdle(idle, shown)
    /\ UNCHANGED <<model, owned, chat, crashes>>

NoTaskEnds(idle, works) ==
    /\ Goto("idling", "polling")
    /\ Free
    /\ MaybeUnloadIdle(idle, works)
    /\ UNCHANGED <<proc, pidfile, sup, call, crashes>>

-----------------------------------------------------------------------------
(* run_task, a visual one: unload our model, pass the memory gate (it may  *)
(* stop our ComfyUI and measure again), make sure ComfyUI runs, render.    *)
(* A task past its deadline fails before any of this and changes nothing.  *)

\* Mutant: the model stays in memory.
BeginVisualBesideModel(works) ==
    /\ Goto("polling", "measuring")
    /\ UNCHANGED <<proc, pidfile, sup, call, model, owned, chat, crashes>>

BeginVisual(works) ==
    /\ Goto("polling", "measuring")
    /\ Unload(works)
    /\ UNCHANGED <<proc, pidfile, sup, call, crashes>>

EnoughMemory ==
    /\ main \in {"measuring", "remeasuring"}
    /\ main' = "starting"
    /\ MarkBusy
    /\ UNCHANGED <<model, owned, chat, crashes>>

ShortOfMemory ==
    /\ Goto("measuring", "remeasuring")
    /\ sup.proc # None
    /\ Stop
    /\ UNCHANGED <<model, owned, chat, crashes>>

InsufficientMemory ==
    /\ Free
    /\ \/ Goto("measuring", "polling") /\ sup.proc = None
       \/ Goto("remeasuring", "polling")
    /\ UNCHANGED <<proc, pidfile, sup, call, model, owned, chat, crashes>>

EnsureComfy(shown) ==
    /\ Goto("starting", "ensuring")
    /\ EnsureRunning(shown)
    /\ UNCHANGED <<model, owned, chat, crashes>>

Render ==
    /\ Goto("ensuring", "rendering")
    /\ call.at = "ok"
    /\ UNCHANGED <<proc, pidfile, sup, call, model, owned, chat, crashes>>

ComfyUIUnavailable ==
    /\ Goto("ensuring", "polling")
    /\ call.at = "raised"
    /\ MarkIdle
    /\ UNCHANGED <<model, owned, chat, crashes>>

\* An image, or an error of any other kind.
RenderEnds ==
    /\ Goto("rendering", "polling")
    /\ MarkIdle
    /\ UNCHANGED <<model, owned, chat, crashes>>

\* corrupt_output: request_restart, then mark_idle.
BlankRender ==
    /\ Goto("rendering", "polling")
    /\ \E p \in Pids : /\ proc[p].life = "up"
                       /\ proc' = [proc EXCEPT ![p].blank = TRUE]
    /\ sup' = [sup EXCEPT !.pending = TRUE, !.busy = FALSE]
    /\ UNCHANGED <<pidfile, call, model, owned, chat, crashes>>

-----------------------------------------------------------------------------
(* run_task, a text one: stop our ComfyUI, then chat.                      *)

\* Mutant: ComfyUI is left running beside the model.
BeginTextBesideComfy ==
    /\ Goto("polling", "clearing")
    /\ UNCHANGED <<proc, pidfile, sup, call, model, owned, chat, crashes>>

BeginText ==
    /\ Goto("polling", "clearing")
    /\ Stop
    /\ UNCHANGED <<model, owned, chat, crashes>>

Ask(m, answered) ==
    /\ Goto("clearing", "chatting")
    /\ Free
    /\ AskLoaded(m, answered)
    /\ UNCHANGED <<proc, pidfile, sup, call, crashes>>

Answer(success, loaded) ==
    /\ Goto("chatting", "polling")
    /\ ChatEnds(success, loaded)
    /\ UNCHANGED <<proc, pidfile, sup, call, crashes>>

-----------------------------------------------------------------------------
(* The end of a worker and the start of the next.                          *)

\* A signal raises SystemExit wherever the main thread is: the call under way
\* is left (if it was terminating a ComfyUI, that one is forgotten), a render
\* and a chat pass their `finally`.
Signal(loaded) ==
    /\ main \notin {"down", "quitting", "leaving", "stopping"}
    /\ main' = "quitting"
    /\ call' = At("raised")
    /\ sup' = IF main \in {"starting", "ensuring", "rendering"}
              THEN [sup EXCEPT !.busy = FALSE] ELSE sup
    /\ IF chat = NoChat THEN UNCHANGED ollamaVars ELSE ChatEnds(FALSE, loaded)
    /\ UNCHANGED <<proc, pidfile, crashes>>

\* atexit, last registered first: unload, then stop.
ExitUnload(works) ==
    /\ Goto("quitting", "leaving")
    /\ Unload(works)
    /\ UNCHANGED <<proc, pidfile, sup, call, crashes>>

ExitStop ==
    /\ Goto("leaving", "stopping")
    /\ Stop
    /\ UNCHANGED <<model, owned, chat, crashes>>

\* The process is gone; what it started outlives it.
ProcessEnds ==
    /\ main' = "down"
    /\ proc' = [p \in Pids |-> IF proc[p].by = "mine"
                               THEN [proc[p] EXCEPT !.by = "orphan"] ELSE proc[p]]
    /\ model' = [m \in Models |-> Released(model[m])]
    /\ sup' = NewSupervisor
    /\ call' = At("ok")
    /\ owned' = NoModel
    /\ chat' = NoChat
    /\ UNCHANGED pidfile

Exit == main = "stopping" /\ Free /\ ProcessEnds /\ UNCHANGED crashes

Crash ==
    /\ main # "down"
    /\ crashes < MaxCrashes
    /\ crashes' = crashes + 1
    /\ ProcessEnds

StartWorker ==
    /\ Goto("down", "polling")
    /\ UNCHANGED <<proc, pidfile, sup, call, model, owned, chat, crashes>>

-----------------------------------------------------------------------------
MainThread ==
    \/ \E idle \in BOOLEAN, shown \in Shown : NoTask(idle, shown)
    \/ \E idle, works \in BOOLEAN : NoTaskEnds(idle, works)
    \/ \E works \in BOOLEAN : BeginVisual(works) \/ ExitUnload(works)
    \/ EnoughMemory \/ ShortOfMemory \/ InsufficientMemory
    \/ \E shown \in Shown : EnsureComfy(shown)
    \/ Render \/ ComfyUIUnavailable \/ RenderEnds \/ BlankRender
    \/ BeginText
    \/ \E m \in Models, answered \in BOOLEAN : Ask(m, answered)
    \/ \E success, loaded \in BOOLEAN : Answer(success, loaded)
    \/ ExitStop \/ Exit

InsideCall == SupervisorSteps /\ UNCHANGED <<model, owned, chat, main, crashes>>

HeartbeatThread ==
    main # "down" /\ Details /\ UNCHANGED <<model, owned, chat, main, crashes>>

\* Pids come round again across a reboot, not while a worker runs.
Machine ==
    \/ Environment /\ UNCHANGED <<model, owned, chat, main, crashes>>
    \/ /\ main = "down"
       /\ \E p \in Pids : Reused(p)
       /\ UNCHANGED <<model, owned, chat, main, crashes>>
    \/ /\ \E m \in Models : UserLoads(m) \/ Evicted(m)
       /\ UNCHANGED <<proc, pidfile, sup, call, main, crashes>>

Next ==
    \/ MainThread \/ InsideCall \/ HeartbeatThread \/ Machine
    \/ \E loaded \in BOOLEAN : Signal(loaded)
    \/ Crash \/ StartWorker

Init == SupervisorInit /\ OllamaInit /\ main = "polling" /\ crashes = 0

Spec == Init /\ [][Next]_vars

-----------------------------------------------------------------------------
\* The states a heartbeat reports are those of the README, and every field
\* keeps its kind.
TypeOK ==
    /\ proc \in [Pids -> Process]
    /\ pidfile \in Pids \cup {None}
    /\ sup \in Supervisor
    /\ call \in Call
    /\ model \in [Models -> Loaders]
    /\ owned \in Models \cup {NoModel}
    /\ chat \in Chat
    /\ main \in Places
    /\ crashes \in Nat

\* comfyui.py, the ownership rule: the worker holds, and terminates, only
\* what a worker launched; a ComfyUI the user started is "NEVER stopped or
\* restarted", whatever a crashed worker left in the pid file.
OnlyOwnIsStopped ==
    /\ sup.proc # None => proc[sup.proc].by # "user"
    /\ call.at = "killing" => proc[call.target].by # "user"

\* A worker never has two ComfyUIs of its own in memory, whoever hangs, dies
\* or answers on the port while it replaces one.
OneComfyAtATime ==
    \A p, q \in Pids :
        /\ proc[p].by = "mine" /\ Alive(p) /\ proc[q].by = "mine" /\ Alive(q)
        => p = q

\* text_worker.py: "Ollama and a loaded ComfyUI can't share the 24 GB Mac":
\* no ComfyUI this worker started lives while it chats.
TextRunsAlone ==
    main = "chatting" => \A p \in Pids : proc[p].by = "mine" => ~Alive(p)

\* ollama.py: a model this worker loaded is unloaded "before any image
\* render" (one whose unload Ollama refused is left to the memory gate).
RenderRunsAlone ==
    main \in {"starting", "ensuring", "rendering"} => \A m \in Models : model[m] # "mine"

\* ollama.py: "even a failed/timed-out call may have loaded the model -- it
\* must still be unloaded": what a chat loaded is owned until an unload.
LoadedIsOwned == \A m \in Models : model[m] = "mine" => owned = m

\* comfyui.py: a ComfyUI that rendered a blank image is restarted before the
\* next task, whatever idle stops, heartbeats and failed starts come first.
BlankIsNotReused ==
    main = "rendering" =>
        \A p \in Pids : proc[p].life = "up" /\ proc[p].by = "mine" => ~proc[p].blank

-----------------------------------------------------------------------------
\* comfyui.py, "a worker that died without cleanup ... can be replaced by one
\* that adopts its orphan instead of mistaking it for the user's": a live
\* orphan leaves the pid file only to be terminated.
OrphanIsNotLost ==
    [][pidfile # None /\ IsComfy(pidfile) /\ proc[pidfile].by = "orphan"
       /\ pidfile' # pidfile
       => call'.at = "killing" /\ call'.target = pidfile]_vars

\* README, "A model or ComfyUI someone else started is never unloaded/stopped",
\* and ollama.py, "A model someone else already had loaded is used but never
\* unloaded": the unload of what this worker counts as its own leaves alone a
\* model that the user loaded.
UserModelIsNotUnloaded ==
    [][\A m \in Models : model[m] = "user" /\ owned = m /\ owned' = NoModel
                            => model'[m] = "user"]_vars
=============================================================================
