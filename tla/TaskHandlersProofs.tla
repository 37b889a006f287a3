------------------------- MODULE TaskHandlersProofs -------------------------
(***************************************************************************)
(* Proofs about TaskHandlers, for any number of processes, models, crashes *)
(* and restarts, and whatever files cannot be written or read.             *)
(***************************************************************************)
EXTENDS TaskHandlers, TLAPS

-----------------------------------------------------------------------------
(* Types.                                                                  *)

WellFormed(c) ==
    /\ c \in Call
    /\ c.at = "killing" => c.target \in Pids /\ c.then \in {"ok", "raised", "launching"}

SupType ==
    /\ proc \in [Pids -> Process]
    /\ pidfile \in Pids \cup {None}
    /\ sup \in Supervisor
    /\ WellFormed(call)

ModelType ==
    /\ model \in [Models -> Loaders]
    /\ owned \in Models \cup {NoModel}
    /\ chat \in {NoChat} \cup [of : Models, ours : BOOLEAN]

\* The places of a call are well formed.
LEMMA CallTypes ==
    /\ \A place \in {"ok", "raised", "launching", "launched", "waiting"} : WellFormed(At(place))
    /\ \A p \in Pids, next \in {"ok", "raised", "launching"} : WellFormed(Killing(p, next))
  BY DEF At, Killing, Call, WellFormed

\* What a healthy answer lets the worker hold and keep in the file is a pid or None.
LEMMA AdoptedType ==
    ASSUME SupType, NEW held \in Pids \cup {None}, NEW shown \in Shown
    PROVE  /\ Adopted(held, shown) \in Pids \cup {None}
           /\ FileKept(held, shown) \in Pids \cup {None}
  BY DEF SupType, Adopted, FileKept

\* Stopping what is held, or nothing, keeps the supervisor well typed.
LEMMA StopType ==
    ASSUME SupType, NEW held \in Pids \cup {None}, NEW file \in Pids \cup {None},
           StopHeld(held, file), UNCHANGED proc
    PROVE  SupType'
<1>1. CASE held = None
  BY <1>1, CallTypes DEF SupType, StopHeld
<1>2. CASE held # None
  <2>1. WellFormed(call')
    BY <1>2, CallTypes DEF StopHeld
  <2>2. sup' \in Supervisor
    BY <1>2 DEF SupType, StopHeld, Supervisor, States
  <2> QED
    BY <1>2, <2>1, <2>2 DEF SupType, StopHeld
<1> QED
  BY <1>1, <1>2

\* What the supervisor's calls, the heartbeat thread and the processes do
\* keeps every field of its kind.
LEMMA SupervisorType ==
    ASSUME SupType,
           \/ SupervisorSteps \/ Details \/ Environment
           \/ \E shown \in Shown : EnsureRunning(shown)
    PROVE  SupType'
<1> USE DEF SupType
<1>1. ASSUME NEW shown \in Shown, EnsureRunning(shown) PROVE SupType'
  <2> DEFINE own == IF ChildAlive THEN sup.proc ELSE None
             held == IF Healthy THEN Adopted(own, shown) ELSE own
  <2>1. own \in Pids \cup {None}
    BY DEF ChildAlive, Supervisor
  <2> HIDE DEF own
  <2>2. held \in Pids \cup {None} /\ FileKept(own, shown) \in Pids \cup {None}
    BY <2>1, AdoptedType
  <2> HIDE DEF held
  <2>3. WellFormed(call')
    BY <1>1, <2>2, CallTypes DEF EnsureRunning, own, held
  <2>4. sup' \in Supervisor
    BY <1>1, <2>2 DEF EnsureRunning, own, held, Supervisor, States
  <2>5. pidfile' \in Pids \cup {None} /\ UNCHANGED proc
    BY <1>1, <2>2 DEF EnsureRunning, own, held
  <2> QED
    BY <2>3, <2>4, <2>5
<1>2. CASE Kill
  <2>1. call.then \in {"ok", "raised", "launching"} /\ call.target \in Pids
    BY <1>2 DEF WellFormed, Kill
  <2> QED
    BY <1>2, <2>1, CallTypes DEF Kill, Supervisor, States, Process, Lives
<1>3. ASSUME NEW p \in Pids, Launch(p) PROVE SupType'
  BY <1>3, CallTypes DEF Launch, Supervisor, States, Process, Lives, Starters
<1>4. CASE RecordPid \/ RecordPidFails \/ LaunchFails
  BY <1>4, CallTypes DEF RecordPid, RecordPidFails, LaunchFails, Supervisor, States
<1>5. CASE ExitedDuringStartup \/ Responds
  BY <1>5, CallTypes DEF ExitedDuringStartup, Responds, Supervisor, States
<1>6. CASE StartTimesOut
  BY <1>6, CallTypes DEF StartTimesOut, ChildAlive, Supervisor, States
<1>7. CASE Details
  <2>1. \A shown \in Shown : /\ Adopted(sup.proc, shown) \in Pids \cup {None}
                             /\ FileKept(sup.proc, shown) \in Pids \cup {None}
    BY AdoptedType DEF Supervisor
  <2>2. Forget \in Supervisor
    BY DEF Forget, Supervisor, States
  <2>3. CASE DetailsBusy
    BY <2>2, <2>3 DEF DetailsBusy
  <2>4. ASSUME NEW shown \in Shown, DetailsHealthy(shown) PROVE SupType'
    BY <2>1, <2>4 DEF DetailsHealthy, Supervisor, States
  <2>5. CASE DetailsUnhealthy
    <3>1. [sup EXCEPT !.state = "stopped"] \in Supervisor
      BY DEF Supervisor, States
    <3> QED
      BY <2>2, <2>5, <3>1 DEF DetailsUnhealthy
  <2> QED
    BY <1>7, <2>3, <2>4, <2>5 DEF Details
<1>8. CASE Environment
  <2>1. ASSUME NEW p \in Pids, NEW life \in Lives, Become(p, life) PROVE SupType'
    BY <2>1 DEF Become, Process
  <2>2. ASSUME NEW p \in Pids, UserStarts(p) PROVE SupType'
    BY <2>2 DEF UserStarts, Process, Starters, Lives
  <2>3. {"up", "hung", "dead"} \subseteq Lives
    BY DEF Lives
  <2> QED
    BY <1>8, <2>1, <2>2, <2>3 DEF Environment, ComesUp, Hangs, AnswersAgain, Exits
<1> QED
  BY <1>1, <1>2, <1>3, <1>4, <1>5, <1>6, <1>7, <1>8 DEF SupervisorSteps

\* Every step of Ollama and of the calls to it keeps the fields of their kind.
LEMMA ModelTypeSteps ==
    ASSUME ModelType
    PROVE  /\ \A works \in BOOLEAN : Unload(works) => ModelType'
           /\ \A m \in Models, answered \in BOOLEAN : AskLoaded(m, answered) => ModelType'
           /\ \A success, loaded \in BOOLEAN : ChatEnds(success, loaded) => ModelType'
           /\ \A m \in Models : UserLoads(m) \/ Evicted(m) => ModelType'
<1> USE DEF ModelType, Loaders
<1>1. ASSUME NEW works \in BOOLEAN, Unload(works) PROVE ModelType'
  BY <1>1 DEF Unload, Released
<1>2. ASSUME NEW m \in Models, NEW answered \in BOOLEAN, AskLoaded(m, answered)
      PROVE  ModelType'
  BY <1>2 DEF AskLoaded
<1>3. ASSUME NEW success \in BOOLEAN, NEW loaded \in BOOLEAN,
             ChatEnds(success, loaded)
      PROVE  ModelType'
  BY <1>3 DEF ChatEnds, NoChat
<1>4. ASSUME NEW m \in Models, UserLoads(m) \/ Evicted(m) PROVE ModelType'
  BY <1>4 DEF UserLoads, Evicted
<1> QED
  BY <1>1, <1>2, <1>3, <1>4
-----------------------------------------------------------------------------
(* Who holds what: the inductive invariant.                                *)

Mine(p) == proc[p].by = "mine" /\ Alive(p)
Leaving == main \in {"quitting", "leaving", "stopping"}
BeingKilled(p) == call.at = "killing" /\ call.target = p

\* A process the worker may hold, and one its pid file may name: a pid that
\* went to the user's program names no ComfyUI any more.
Ours(p) == p # None => proc[p].by # "user" /\ proc[p].life # "none"
Recorded(p) ==
    p # None => /\ proc[p].life # "none"
                /\ proc[p].by # "user" \/ proc[p].life \in {"running", "dead"}

OwnInv ==
    /\ Ours(sup.proc)
    /\ Recorded(pidfile)
    /\ call.at = "killing" => Ours(call.target)

\* Which steps of a call the main thread can be waiting for.
PlaceInv ==
    /\ main \in Places
    /\ main = "down" => sup.proc = None /\ call.at = "ok" /\ \A p \in Pids : proc[p].by # "mine"
    /\ call.at \in {"killing", "launching"} => sup.proc = None
    /\ call.at \in {"launching", "launched", "waiting"} => main = "ensuring"
    /\ call.at = "killing" /\ call.then # "ok" => main = "ensuring"
    /\ main \in {"polling", "chatting", "rendering", "quitting"} => Free

\* A ComfyUI of this worker that lives is the one it holds, unless it is just
\* being terminated or a signal made the worker let go of it.
HeldInv == \A p \in Pids : Mine(p) => sup.proc = p \/ BeingKilled(p) \/ Leaving

OwnershipInv == OwnInv /\ PlaceInv /\ HeldInv /\ OneComfyAtATime

\* Adoption takes no ComfyUI of the user, and only one that lives.
LEMMA AdoptedOwn ==
    ASSUME SupType, OwnInv, NEW held \in Pids \cup {None}, Ours(held), NEW shown \in Shown
    PROVE  /\ Ours(Adopted(held, shown))
           /\ Recorded(FileKept(held, shown))
           /\ held # None => Adopted(held, shown) = held
           /\ Adopted(held, shown) # None /\ Adopted(held, shown) # held => Alive(Adopted(held, shown))
  BY HandlerAssumption DEF SupType, OwnInv, Ours, Recorded, Adopted, FileKept, IsComfy, Alive

\* The processes of the machine: none becomes ours, none that lives appears.
LEMMA EnvironmentOwn ==
    ASSUME SupType, OwnershipInv, Environment, UNCHANGED main
    PROVE  OwnershipInv'
<1> USE DEF SupType, OwnershipInv
<1>1. ASSUME NEW p \in Pids, NEW life \in Lives, Become(p, life), Alive(p),
             life \notin {"none", "running"}, life = "dead" \/ proc[p].life # "running"
      PROVE  OwnershipInv'
  <2>1. OwnInv'
    BY <1>1, HandlerAssumption
       DEF Become, OwnInv, Ours, Recorded, Process, WellFormed, Alive, Supervisor
  <2>2. PlaceInv'
    BY <1>1 DEF Become, PlaceInv, Process, Free
  <2>3. HeldInv' /\ OneComfyAtATime'
    BY <1>1 DEF Become, HeldInv, OneComfyAtATime, Mine, Alive, Process, BeingKilled, Leaving
  <2> QED
    BY <2>1, <2>2, <2>3
<1>2. ASSUME NEW p \in Pids, UserStarts(p) PROVE OwnershipInv'
  <2>1. OwnInv'
    BY <1>2, HandlerAssumption
       DEF UserStarts, OwnInv, Ours, Recorded, Process, WellFormed, Supervisor
  <2>2. PlaceInv'
    BY <1>2 DEF UserStarts, PlaceInv, Process, Free
  <2>3. HeldInv' /\ OneComfyAtATime'
    BY <1>2 DEF UserStarts, HeldInv, OneComfyAtATime, Mine, Alive, Process, BeingKilled, Leaving
  <2> QED
    BY <2>1, <2>2, <2>3
<1>3. {"up", "hung", "dead"} \subseteq Lives
  BY DEF Lives
<1> QED
  BY <1>1, <1>2, <1>3 DEF Environment, ComesUp, Hangs, AnswersAgain, Exits, Alive

\* One step inside a call of the main thread.
LEMMA InsideCallOwn ==
    ASSUME SupType, OwnershipInv, SupervisorSteps, UNCHANGED main
    PROVE  OwnershipInv'
<1> USE HandlerAssumption DEF SupType, OwnershipInv, OwnInv, Ours, Recorded, Supervisor, WellFormed
<1> USE DEF PlaceInv, HeldInv, OneComfyAtATime, Mine, Leaving, BeingKilled, Free, At, Killing
<1>1. CASE Kill
  BY <1>1 DEF Kill, Process, Alive
<1>2. ASSUME NEW p \in Pids, Launch(p) PROVE OwnershipInv'
  BY <1>2 DEF Launch, Process, Alive
<1>3. CASE RecordPid \/ RecordPidFails \/ LaunchFails
  BY <1>3 DEF RecordPid, RecordPidFails, LaunchFails, Alive
<1>4. CASE ExitedDuringStartup
  BY <1>4 DEF ExitedDuringStartup, ChildAlive, Alive
<1>6. CASE Responds
  BY <1>6 DEF Responds, Alive
<1>5. CASE StartTimesOut
  <2>1. /\ sup'.proc = None /\ pidfile' = None /\ UNCHANGED proc
        /\ call.at = "waiting" /\ main = "ensuring"
    BY <1>5 DEF StartTimesOut
  <2>2. CASE ChildAlive
    <3>1. call' = Killing(sup.proc, "raised")
      BY <1>5, <2>2 DEF StartTimesOut
    <3> QED
      BY <2>1, <2>2, <3>1 DEF ChildAlive, Alive
  <2>3. CASE ~ChildAlive
    <3>1. call' = At("raised")
      BY <1>5, <2>3 DEF StartTimesOut
    <3> QED
      BY <2>1, <2>3, <3>1 DEF ChildAlive, Alive
  <2> QED
    BY <2>2, <2>3
<1> QED
  BY <1>1, <1>2, <1>3, <1>4, <1>5, <1>6 DEF SupervisorSteps

\* The heartbeat thread forgets only what is dead and adopts only an orphan.
LEMMA DetailsOwn ==
    ASSUME SupType, OwnershipInv, Details, main # "down", UNCHANGED main
    PROVE  OwnershipInv'
<1> USE HandlerAssumption DEF SupType, OwnershipInv, OwnInv, Supervisor, WellFormed
<1>0. sup.proc \in Pids \cup {None}
  OBVIOUS
<1>00. ASSUME NEW shown \in Shown
       PROVE  /\ Ours(Adopted(sup.proc, shown)) /\ Recorded(FileKept(sup.proc, shown))
              /\ sup.proc # None => Adopted(sup.proc, shown) = sup.proc
  BY <1>0, AdoptedOwn
<1> USE DEF Ours, Recorded, PlaceInv, HeldInv, OneComfyAtATime, Mine, Leaving, BeingKilled, Free
<1>1. CASE DetailsBusy
  BY <1>1 DEF DetailsBusy, Dead, Forget, ChildAlive, Alive
<1>2. ASSUME NEW shown \in Shown, DetailsHealthy(shown) PROVE OwnershipInv'
  BY <1>0, <1>00, <1>2 DEF DetailsHealthy, Alive
<1>3. CASE DetailsUnhealthy
  BY <1>3 DEF DetailsUnhealthy, Dead, Forget, ChildAlive, Alive
<1> QED
  BY <1>1, <1>2, <1>3 DEF Details

\* The calls of the main thread: `held` is what it holds when it stops,
\* `from` and `to` are its places before and after.
LEMMA StopOwn ==
    ASSUME SupType, OwnershipInv, NEW held \in Pids \cup {None}, NEW file, Free,
           Ours(held), Recorded(file),
           sup.proc # None => held = sup.proc,
           StopHeld(held, file), UNCHANGED proc,
           main # "down",
           main' \in Places \ {"down", "polling", "ensuring", "chatting", "rendering",
                               "quitting"},
           Leaving => Leaving',
           held = None \/ sup.proc = held \/ ~Mine(held)
    PROVE  OwnershipInv' /\ (sup'.proc = None \/ sup'.proc = held)
<1> USE HandlerAssumption DEF SupType, OwnershipInv, OwnInv, Ours, Recorded, Supervisor, WellFormed
<1> USE DEF PlaceInv, HeldInv, OneComfyAtATime, Mine, Leaving, BeingKilled, Free, At, Killing
<1>1. CASE held = None
  BY <1>1 DEF StopHeld, Alive
<1>2. CASE held # None
  <2>1. sup'.proc = None /\ pidfile' = None
    BY <1>2 DEF StopHeld
  <2>2. CASE Alive(held)
    <3>1. call' = Killing(held, "ok")
      BY <1>2, <2>2 DEF StopHeld
    <3> QED
      BY <1>2, <2>1, <2>2, <3>1 DEF Alive
  <2>3. CASE ~Alive(held)
    <3>1. call' = At("ok")
      BY <1>2, <2>3 DEF StopHeld
    <3> QED
      BY <1>2, <2>1, <2>3, <3>1 DEF Alive
  <2> QED
    BY <2>2, <2>3
<1> QED
  BY <1>1, <1>2

\* ensure_running begins: it keeps its own, adopts an orphan, or replaces one.
LEMMA EnsureOwn ==
    ASSUME SupType, OwnershipInv, NEW shown \in Shown, EnsureRunning(shown),
           main = "starting", main' = "ensuring"
    PROVE  /\ OwnershipInv' /\ ~sup'.pending
           /\ \A p \in Pids : Mine(p) /\ sup.pending => BeingKilled(p)'
<1> DEFINE own  == IF ChildAlive THEN sup.proc ELSE None
           held == IF Healthy THEN Adopted(own, shown) ELSE own
           file == IF Healthy THEN FileKept(own, shown) ELSE pidfile
           usable == Healthy /\ ~(sup.pending /\ held # None)
<1>1. own \in Pids \cup {None} /\ Ours(own)
  BY DEF SupType, Supervisor, OwnershipInv, OwnInv, Ours, ChildAlive
<1>2. /\ held \in Pids \cup {None} /\ Ours(held) /\ Recorded(file)
      /\ ChildAlive => held = sup.proc
      /\ held # None => Alive(held)
  BY <1>1, AdoptedOwn, AdoptedType DEF OwnershipInv, OwnInv, ChildAlive
<1>3. ASSUME NEW p \in Pids, Mine(p) PROVE p = sup.proc /\ held = p
  BY <1>2, <1>3, HandlerAssumption
  DEF OwnershipInv, HeldInv, EnsureRunning, Free, BeingKilled, Leaving, Mine, ChildAlive
<1>4. /\ sup'.proc = IF usable THEN held ELSE None
      /\ sup'.pending = FALSE
      /\ pidfile' = IF usable \/ held = None THEN file ELSE None
      /\ UNCHANGED proc
      /\ \/ usable /\ call' = At("ok")
         \/ ~usable /\ held = None /\ call' \in {At("launching"), At("raised")}
         \/ /\ ~usable /\ held # None
            /\ call' \in {Killing(held, "launching"), Killing(held, "raised")}
  BY DEF EnsureRunning, SupType, Supervisor
<1> HIDE DEF own, held, file, usable
<1> USE HandlerAssumption DEF OwnershipInv, Free, At, Killing
<1>5. OwnInv'
  BY <1>2, <1>4 DEF OwnInv, Ours, Recorded
<1>6. PlaceInv'
  BY <1>4 DEF PlaceInv, Places
<1>7. HeldInv' /\ OneComfyAtATime'
  BY <1>2, <1>3, <1>4 DEF HeldInv, OneComfyAtATime, Mine, Alive, BeingKilled, Leaving
<1>8. ASSUME NEW p \in Pids, Mine(p), sup.pending PROVE BeingKilled(p)'
  BY <1>3, <1>4, <1>8 DEF BeingKilled, usable
<1> QED
  BY <1>4, <1>5, <1>6, <1>7, <1>8

\* The main thread moves on between two calls.
LEMMA MoveOwn ==
    ASSUME SupType, OwnershipInv, Free, UNCHANGED <<proc, pidfile, call>>, sup'.proc = sup.proc,
           main' \in Places \ {"down"}, Leaving => Leaving'
    PROVE  OwnershipInv'
  BY DEF SupType, OwnershipInv, OwnInv, PlaceInv, HeldInv, OneComfyAtATime, Ours, Recorded, Mine,
     Alive, BeingKilled, Leaving, Free

\* The end of a process makes its ComfyUI an orphan that nobody holds.
LEMMA EndOwn ==
    ASSUME SupType, OwnershipInv, ProcessEnds
    PROVE  OwnershipInv'
<1> USE HandlerAssumption DEF SupType, OwnershipInv, ProcessEnds, NewSupervisor, At
<1>1. ASSUME NEW p \in Pids
      PROVE  /\ proc'[p].life = proc[p].life
             /\ proc'[p].by = IF proc[p].by = "mine" THEN "orphan" ELSE proc[p].by
  BY DEF Process
<1>2. OwnInv'
  BY <1>1 DEF OwnInv, Ours, Recorded
<1>3. PlaceInv'
  BY <1>1 DEF PlaceInv, Places
<1>4. HeldInv' /\ OneComfyAtATime'
  BY <1>1 DEF HeldInv, OneComfyAtATime, Mine
<1> QED
  BY <1>2, <1>3, <1>4

\* Every step of the main thread keeps the ownership invariant.
LEMMA MainThreadOwn ==
    ASSUME SupType, OwnershipInv, MainThread
    PROVE  OwnershipInv'
<1> sup.proc \in Pids \cup {None} /\ Ours(sup.proc) /\ Recorded(pidfile)
  BY DEF SupType, Supervisor, OwnershipInv, OwnInv
<1>1. ASSUME NEW idle \in BOOLEAN, NEW shown \in Shown, NoTask(idle, shown) PROVE OwnershipInv'
  <2> DEFINE held == Adopted(sup.proc, shown)
             file == FileKept(sup.proc, shown)
  <2>1. /\ held \in Pids \cup {None} /\ Ours(held) /\ Recorded(file)
        /\ sup.proc # None => held = sup.proc
        /\ held # None /\ held # sup.proc => Alive(held)
    BY AdoptedOwn, AdoptedType DEF OwnershipInv
  <2>2. Free /\ main = "polling" /\ main' = "idling" /\ UNCHANGED proc
    BY <1>1 DEF NoTask, MaybeStopIdle, Goto
  <2>3. held = None \/ sup.proc = held \/ ~Mine(held)
    BY <2>1, <2>2 DEF OwnershipInv, HeldInv, Free, BeingKilled, Leaving
  <2>4. CASE idle /\ ~sup.busy
    <3>1. StopHeld(held, file)
      BY <1>1, <2>4 DEF NoTask, MaybeStopIdle
    <3>2. main' \in Places \ {"down", "polling", "ensuring", "chatting", "rendering", "quitting"}
      BY <2>2 DEF Places
    <3> HIDE DEF held, file
    <3> QED
      BY <2>1, <2>2, <2>3, <3>1, <3>2, StopOwn DEF Leaving
  <2>5. CASE ~(idle /\ ~sup.busy)
    <3>1. sup'.proc = held /\ pidfile' = file /\ call' = At("ok")
      BY <1>1, <2>5 DEF NoTask, MaybeStopIdle, SupType, Supervisor
    <3> HIDE DEF held, file
    <3> QED
      BY <2>1, <2>2, <2>3, <3>1, HandlerAssumption
         DEF SupType, OwnershipInv, OwnInv, PlaceInv, HeldInv, OneComfyAtATime, Mine, Alive, Ours,
             Recorded, BeingKilled, Leaving, Free, At, Places
  <2> QED
    BY <2>4, <2>5
<1>2. ASSUME Stop, main # "down", Leaving => Leaving',
             main' \in Places \ {"down", "polling", "ensuring", "chatting", "rendering", "quitting"}
      PROVE  OwnershipInv'
  BY <1>2, StopOwn DEF Stop
<1>3. ASSUME ShortOfMemory \/ BeginText \/ ExitStop PROVE OwnershipInv'
  BY <1>2, <1>3 DEF ShortOfMemory, BeginText, ExitStop, Goto, Places, Leaving
<1>4. ASSUME NEW shown \in Shown, EnsureComfy(shown) PROVE OwnershipInv'
  BY <1>4, EnsureOwn DEF EnsureComfy, Goto
<1>5. ASSUME MarkBusy \/ MarkIdle, main' \in Places \ {"down"}, ~Leaving PROVE OwnershipInv'
  <2>1. /\ Free /\ UNCHANGED <<proc, pidfile, call>>
        /\ sup'.proc = sup.proc
    BY <1>5 DEF MarkBusy, MarkIdle, SupType, Supervisor
  <2> QED
    BY <1>5, <2>1, MoveOwn
<1>6. CASE EnoughMemory \/ ComfyUIUnavailable \/ RenderEnds
  BY <1>5, <1>6 DEF EnoughMemory, ComfyUIUnavailable, RenderEnds, Goto, Places, Leaving
<1>7. CASE InsufficientMemory
  BY <1>7, MoveOwn DEF InsufficientMemory, Goto, Places, Leaving
<1>8. CASE Render
  BY <1>8, MoveOwn DEF Render, Goto, Places, Leaving, Free
<1>9. ASSUME NEW idle \in BOOLEAN, NEW works \in BOOLEAN, NoTaskEnds(idle, works)
      PROVE  OwnershipInv'
  BY <1>9, MoveOwn DEF NoTaskEnds, Goto, Places, Leaving
<1>10. ASSUME NEW works \in BOOLEAN, BeginVisual(works) \/ ExitUnload(works) PROVE OwnershipInv'
  <2>1. Free
    BY <1>10 DEF BeginVisual, ExitUnload, Goto, OwnershipInv, PlaceInv
  <2> QED
    BY <1>10, <2>1, MoveOwn DEF BeginVisual, ExitUnload, Goto, Places, Leaving
<1>11. ASSUME NEW m \in Models, NEW answered \in BOOLEAN, Ask(m, answered) PROVE OwnershipInv'
  BY <1>11, MoveOwn DEF Ask, Goto, Places, Leaving
<1>12. ASSUME NEW success \in BOOLEAN, NEW loaded \in BOOLEAN, Answer(success, loaded)
       PROVE  OwnershipInv'
  <2>1. Free
    BY <1>12 DEF Answer, Goto, OwnershipInv, PlaceInv
  <2> QED
    BY <1>12, <2>1, MoveOwn DEF Answer, Goto, Places, Leaving
<1>13. CASE BlankRender
  <2>1. PICK p \in Pids : proc' = [proc EXCEPT ![p].blank = TRUE]
    BY <1>13 DEF BlankRender
  <2>2. \A q \in Pids : proc'[q].by = proc[q].by /\ proc'[q].life = proc[q].life
    BY <2>1 DEF SupType, Process
  <2>3. /\ sup'.proc = sup.proc /\ UNCHANGED <<pidfile, call>>
        /\ main = "rendering" /\ main' = "polling"
    BY <1>13 DEF BlankRender, Goto, SupType, Supervisor
  <2> QED
    BY <2>2, <2>3 DEF SupType, OwnershipInv, OwnInv, PlaceInv, HeldInv, OneComfyAtATime, Ours,
       Recorded, Mine, Alive, BeingKilled, Leaving, Free, Places, WellFormed
<1>14. CASE Exit
  BY <1>14, EndOwn DEF Exit
<1> QED
  BY <1>1, <1>3, <1>4, <1>6, <1>7, <1>8, <1>9, <1>10, <1>11, <1>12, <1>13, <1>14 DEF MainThread

\* Every step keeps the ownership invariant.
LEMMA OwnershipNext ==
    ASSUME SupType, OwnershipInv, [Next]_vars
    PROVE  OwnershipInv'
<1>1. CASE MainThread
  BY <1>1, MainThreadOwn
<1>2. CASE InsideCall
  BY <1>2, InsideCallOwn DEF InsideCall
<1>3. CASE HeartbeatThread
  BY <1>3, DetailsOwn DEF HeartbeatThread
<1>4. ASSUME UNCHANGED <<proc, pidfile, sup, call, main>> PROVE OwnershipInv'
  BY <1>4 DEF OwnershipInv, OwnInv, PlaceInv, HeldInv, OneComfyAtATime, Ours, Recorded, Mine,
     Alive, BeingKilled, Leaving, Free
<1>5. ASSUME NEW p \in Pids, main = "down", Reused(p), UNCHANGED main PROVE OwnershipInv'
  <2> USE HandlerAssumption DEF SupType, OwnershipInv
  <2>1. /\ UNCHANGED <<pidfile, sup, call>> /\ sup.proc = None /\ call.at = "ok"
        /\ proc'[p].by = "user" /\ proc'[p].life = "running"
        /\ \A q \in Pids : q # p => proc'[q] = proc[q]
        /\ \A q \in Pids : proc[q].by # "mine"
    BY <1>5 DEF Reused, PlaceInv
  <2>2. \A q \in Pids : proc'[q].by # "mine"
    BY <2>1
  <2>3. OwnInv'
    BY <2>1 DEF OwnInv, Ours, Recorded
  <2>4. PlaceInv' /\ HeldInv' /\ OneComfyAtATime'
    BY <1>5, <2>1, <2>2 DEF PlaceInv, HeldInv, OneComfyAtATime, Mine, Free
  <2> QED
    BY <2>3, <2>4
<1>6. CASE Machine
  <2>1. CASE Environment /\ UNCHANGED main
    BY <2>1, EnvironmentOwn
  <2> QED
    BY <1>4, <1>5, <1>6, <2>1 DEF Machine
<1>7. ASSUME NEW loaded \in BOOLEAN, Signal(loaded) PROVE OwnershipInv'
  BY <1>7 DEF Signal, SupType, OwnershipInv, OwnInv, PlaceInv, HeldInv, OneComfyAtATime, Ours,
     Recorded, Mine, Alive, BeingKilled, Leaving, Free, At, Places
<1>8. CASE Crash
  BY <1>8, EndOwn DEF Crash
<1>9. CASE StartWorker
  BY <1>9 DEF StartWorker, Goto, OwnershipInv, OwnInv, PlaceInv, HeldInv, OneComfyAtATime, Ours,
     Recorded, Mine, Alive, BeingKilled, Leaving, Free, Places
<1>10. CASE UNCHANGED vars
  BY <1>4, <1>10 DEF vars
<1> QED
  BY <1>1, <1>2, <1>3, <1>6, <1>7, <1>8, <1>9, <1>10 DEF Next

-----------------------------------------------------------------------------
(* Types of every step.                                                    *)

TypeInv == SupType /\ ModelType /\ crashes \in Nat

\* The end of a process keeps every field of its kind.
LEMMA EndType == ASSUME TypeInv, ProcessEnds PROVE SupType' /\ ModelType'
<1>1. proc' \in [Pids -> Process]
  BY DEF TypeInv, SupType, ProcessEnds, Process, Starters
<1>2. model' \in [Models -> Loaders]
  BY DEF TypeInv, ModelType, ProcessEnds, Released, Loaders
<1> QED
  BY <1>1, <1>2, CallTypes
     DEF TypeInv, SupType, ModelType, ProcessEnds, NewSupervisor, Supervisor, States

\* Every step of the main thread keeps every field of its kind.
LEMMA MainThreadType == ASSUME TypeInv, MainThread PROVE TypeInv'
<1> USE DEF TypeInv
<1>0. sup.proc \in Pids \cup {None} /\ pidfile \in Pids \cup {None}
  BY DEF SupType, Supervisor
<1>1. ASSUME UNCHANGED <<proc, pidfile, sup, call>> PROVE SupType'
  BY <1>1 DEF SupType
<1>2. ASSUME UNCHANGED <<model, owned, chat>> PROVE ModelType'
  BY <1>2 DEF ModelType
<1>3. ASSUME NEW idle \in BOOLEAN, NEW shown \in Shown, MaybeStopIdle(idle, shown)
      PROVE  SupType'
  <2>1. /\ Adopted(sup.proc, shown) \in Pids \cup {None}
        /\ FileKept(sup.proc, shown) \in Pids \cup {None}
    BY <1>0, AdoptedType
  <2>2. CASE idle /\ ~sup.busy
    BY <1>3, <2>1, <2>2, StopType DEF MaybeStopIdle
  <2>3. CASE ~(idle /\ ~sup.busy)
    <3>1. /\ UNCHANGED proc /\ pidfile' = FileKept(sup.proc, shown) /\ call' = At("ok")
          /\ sup' = [sup EXCEPT !.proc = Adopted(sup.proc, shown)]
      BY <1>3, <2>3 DEF MaybeStopIdle
    <3> QED
      BY <2>1, <3>1, CallTypes DEF SupType, Supervisor
  <2> QED
    BY <2>2, <2>3
<1>4. ASSUME Stop PROVE SupType'
  BY <1>0, <1>4, StopType DEF Stop
<1>5. ASSUME MarkBusy \/ MarkIdle PROVE SupType'
  BY <1>5 DEF MarkBusy, MarkIdle, SupType, Supervisor
<1>6. ASSUME NEW shown \in Shown, EnsureRunning(shown) PROVE SupType'
  BY <1>6, SupervisorType
<1>7. ASSUME BlankRender PROVE SupType'
  <2>1. proc' \in [Pids -> Process]
    BY <1>7 DEF BlankRender, SupType, Process
  <2>2. sup' \in Supervisor
    BY <1>7 DEF BlankRender, SupType, Supervisor
  <2>3. UNCHANGED <<pidfile, call>>
    BY <1>7 DEF BlankRender
  <2> QED
    BY <2>1, <2>2, <2>3 DEF SupType
<1>8. ASSUME NEW idle \in BOOLEAN, NEW shown \in Shown, NoTask(idle, shown) PROVE TypeInv'
  BY <1>2, <1>3, <1>8 DEF NoTask
<1>9. ASSUME NEW idle \in BOOLEAN, NEW works \in BOOLEAN, NoTaskEnds(idle, works) PROVE TypeInv'
  BY <1>1, <1>2, <1>9, ModelTypeSteps DEF NoTaskEnds, MaybeUnloadIdle, ollamaVars
<1>10. ASSUME NEW works \in BOOLEAN, BeginVisual(works) \/ ExitUnload(works) PROVE TypeInv'
  BY <1>1, <1>10, ModelTypeSteps DEF BeginVisual, ExitUnload
<1>11. CASE EnoughMemory \/ ComfyUIUnavailable \/ RenderEnds
  BY <1>2, <1>5, <1>11 DEF EnoughMemory, ComfyUIUnavailable, RenderEnds
<1>12. CASE ShortOfMemory \/ BeginText \/ ExitStop
  BY <1>2, <1>4, <1>12 DEF ShortOfMemory, BeginText, ExitStop
<1>13. CASE InsufficientMemory \/ Render
  BY <1>1, <1>2, <1>13 DEF InsufficientMemory, Render
<1>14. ASSUME NEW shown \in Shown, EnsureComfy(shown) PROVE TypeInv'
  BY <1>2, <1>6, <1>14 DEF EnsureComfy
<1>15. CASE BlankRender
  BY <1>2, <1>7, <1>15 DEF BlankRender
<1>16. ASSUME NEW m \in Models, NEW answered \in BOOLEAN, Ask(m, answered) PROVE TypeInv'
  BY <1>1, <1>16, ModelTypeSteps DEF Ask
<1>17. ASSUME NEW success \in BOOLEAN, NEW loaded \in BOOLEAN, Answer(success, loaded)
       PROVE  TypeInv'
  BY <1>1, <1>17, ModelTypeSteps DEF Answer
<1>18. CASE Exit
  BY <1>18, EndType DEF Exit
<1> QED
  BY <1>8, <1>9, <1>10, <1>11, <1>12, <1>13, <1>14, <1>15, <1>16, <1>17, <1>18 DEF MainThread

\* Every step keeps every field of its kind.
LEMMA TypeNext == ASSUME TypeInv, [Next]_vars PROVE TypeInv'
<1> USE DEF TypeInv
<1>1. ASSUME UNCHANGED <<proc, pidfile, sup, call>> PROVE SupType'
  BY <1>1 DEF SupType
<1>2. ASSUME UNCHANGED <<model, owned, chat>> PROVE ModelType'
  BY <1>2 DEF ModelType
<1>3. CASE MainThread
  BY <1>3, MainThreadType
<1>4. CASE InsideCall \/ HeartbeatThread
  BY <1>2, <1>4, SupervisorType DEF InsideCall, HeartbeatThread
<1>5. CASE Machine
  <2>1. ASSUME NEW p \in Pids, Reused(p) PROVE SupType'
    BY <2>1 DEF Reused, SupType, Process, Starters, Lives
  <2> QED
    BY <1>1, <1>2, <1>5, <2>1, SupervisorType, ModelTypeSteps DEF Machine
<1>6. ASSUME NEW loaded \in BOOLEAN, Signal(loaded) PROVE TypeInv'
  <2>1. SupType'
    <3>1. sup' \in Supervisor
      BY <1>6, HandlerAssumption DEF Signal, SupType, Supervisor
    <3> QED
      BY <1>6, <3>1, CallTypes DEF Signal, SupType
  <2> QED
    BY <1>2, <1>6, <2>1, ModelTypeSteps DEF Signal, ollamaVars
<1>7. CASE Crash
  BY <1>7, EndType DEF Crash
<1>8. CASE StartWorker
  BY <1>1, <1>2, <1>8 DEF StartWorker
<1>9. CASE UNCHANGED vars
  BY <1>1, <1>2, <1>9 DEF vars
<1> QED
  BY <1>3, <1>4, <1>5, <1>6, <1>7, <1>8, <1>9 DEF Next

-----------------------------------------------------------------------------
(* Text alone, and blank ComfyUIs.                                         *)

NotMine(p) == p # None => proc[p].by # "mine"

\* From the stop to the answer of the model nothing of ours is held.
TextInv == main \in {"clearing", "chatting"} => NotMine(sup.proc)

\* A ComfyUI of ours that rendered blank has its restart pending until it is
\* terminated, and a render begins with none pending.
BlankInv ==
    /\ \A p \in Pids : Mine(p) /\ proc[p].blank => sup.pending \/ BeingKilled(p) \/ Leaving
    /\ main \in {"ensuring", "rendering"} => ~sup.pending

MachineInv == SupType /\ OwnershipInv /\ TextInv /\ BlankInv

\* A call of the supervisor, seen by what it does to the handle, the restart
\* mark and the processes: none of ours appears but a fresh one.
HandleStep ==
    /\ sup'.pending = sup.pending
    /\ sup'.proc \in {sup.proc, None} \/ NotMine(sup.proc)' \/ call.at = "launching"
    /\ \A p \in Pids :
         /\ Mine(p)' /\ proc'[p].blank => Mine(p) /\ proc[p].blank
         /\ Mine(p)' /\ BeingKilled(p) => BeingKilled(p)'
         /\ proc[p].by # "mine" /\ proc[p].life # "none" => proc'[p].by # "mine"

\* A step that brings in none of ours but a fresh one keeps TextInv and BlankInv.
LEMMA HandleStepInv ==
    ASSUME MachineInv, OwnershipInv', HandleStep, Leaving => Leaving',
           main' = main \/ main' \notin {"clearing", "chatting", "ensuring", "rendering"}
    PROVE  TextInv' /\ BlankInv'
<1> USE DEF MachineInv, HandleStep
<1>1. TextInv'
  <2> SUFFICES ASSUME main' \in {"clearing", "chatting"} PROVE NotMine(sup.proc)'
    BY DEF TextInv
  <2>1. NotMine(sup.proc) /\ Ours(sup.proc) /\ call.at # "launching"
    BY DEF TextInv, OwnershipInv, OwnInv, PlaceInv
  <2> QED
    BY <2>1 DEF NotMine, Ours, SupType, Supervisor
<1>2. BlankInv'
  BY DEF BlankInv, Mine, Leaving
<1> QED
  BY <1>1, <1>2

\* The steps inside a call, beside it and of the processes are such steps.
LEMMA HandleSteps ==
    ASSUME SupType, OwnershipInv
    PROVE  /\ SupervisorSteps => HandleStep
           /\ Details /\ ~Leaving /\ main # "down" => HandleStep
           /\ Environment => HandleStep
<1> USE HandlerAssumption DEF SupType, Supervisor, WellFormed
<1> USE DEF HandleStep, Mine, BeingKilled, NotMine
<1>1. ASSUME Kill PROVE HandleStep
  BY <1>1 DEF Kill, Process, Alive
<1>2. ASSUME NEW p \in Pids, Launch(p) PROVE HandleStep
  BY <1>2 DEF Launch, Process, Alive
<1>3. ASSUME RecordPid \/ RecordPidFails \/ LaunchFails PROVE HandleStep
  BY <1>3 DEF RecordPid, RecordPidFails, LaunchFails, Alive
<1>4. ASSUME ExitedDuringStartup \/ Responds \/ StartTimesOut PROVE HandleStep
  BY <1>4 DEF ExitedDuringStartup, Responds, StartTimesOut, Alive
<1>5. ASSUME Details, ~Leaving, main # "down" PROVE HandleStep
  <2>0. ASSUME NEW shown \in Shown
        PROVE  Adopted(sup.proc, shown) \in {sup.proc, None} \/ NotMine(Adopted(sup.proc, shown))
    <3>1. Adopted(sup.proc, shown) \in Pids \cup {None}
      BY AdoptedType
    <3>2. Free
      BY <1>5 DEF Details, DetailsBusy, DetailsHealthy, DetailsUnhealthy
    <3> QED
      BY <1>5, <3>1, <3>2, AdoptedOwn DEF OwnershipInv, OwnInv, HeldInv, Free
  <2>1. Free /\ UNCHANGED <<proc, call>>
    BY <1>5 DEF Details, DetailsBusy, DetailsHealthy, DetailsUnhealthy
  <2>2. /\ sup'.pending = sup.pending
        /\ \/ sup'.proc \in {sup.proc, None}
           \/ \E shown \in Shown : sup'.proc = Adopted(sup.proc, shown)
    BY <1>5 DEF Details, DetailsBusy, DetailsHealthy, DetailsUnhealthy, Forget
  <2>5. sup'.proc \in {sup.proc, None} \/ NotMine(sup.proc)'
    BY <2>0, <2>1, <2>2
  <2> QED
    BY <2>1, <2>2, <2>5 DEF Alive
<1>6. ASSUME Environment PROVE HandleStep
  <2>1. ASSUME NEW p \in Pids, NEW life, Become(p, life), Alive(p) PROVE HandleStep
    BY <2>1 DEF Become, Process, Alive
  <2>2. ASSUME NEW p \in Pids, UserStarts(p) PROVE HandleStep
    BY <2>2 DEF UserStarts, Process, Alive
  <2> QED
    BY <1>6, <2>1, <2>2 DEF Environment, ComesUp, Hangs, AnswersAgain, Exits, Alive
<1> QED
  BY <1>1, <1>2, <1>3, <1>4, <1>5, <1>6 DEF SupervisorSteps

\* Stopping what is held, or an orphan, or moving on.
LEMMA QuietSteps ==
    ASSUME SupType, OwnershipInv, Free, UNCHANGED proc, sup'.pending = sup.pending,
           sup'.proc \in {sup.proc, None} \/ NotMine(sup.proc)'
    PROVE  HandleStep
  BY DEF HandleStep, Mine, Alive, BeingKilled, Free

\* So is stopping, whatever is held.
LEMMA StopQuiet ==
    ASSUME SupType, OwnershipInv, Free, NEW held \in Pids \cup {None}, NEW file,
           sup.proc # None => held = sup.proc, StopHeld(held, file), UNCHANGED proc
    PROVE  HandleStep /\ sup'.proc = None
<1>1. sup'.proc = None /\ sup'.pending = sup.pending
  BY DEF StopHeld, SupType, Supervisor
<1> QED
  BY <1>1, QuietSteps

\* Every step of the main thread keeps TextInv and BlankInv.
LEMMA MachineMain ==
    ASSUME MachineInv, OwnershipInv', MainThread
    PROVE  TextInv' /\ BlankInv'
<1> USE DEF MachineInv
<1> sup.proc \in Pids \cup {None}
  BY DEF SupType, Supervisor
<1>1. ASSUME NEW idle \in BOOLEAN, NEW shown \in Shown, NoTask(idle, shown) PROVE TextInv' /\ BlankInv'
  <2> DEFINE held == Adopted(sup.proc, shown)
  <2>1. Free /\ main = "polling" /\ main' = "idling" /\ UNCHANGED proc
    BY <1>1 DEF NoTask, MaybeStopIdle, Goto
  <2>2. /\ held \in Pids \cup {None}
        /\ sup.proc # None => held = sup.proc
        /\ held # None /\ held # sup.proc => Alive(held)
    BY AdoptedOwn, AdoptedType DEF OwnershipInv, OwnInv
  <2>3. held \in {sup.proc, None} \/ NotMine(held)
    BY <2>1, <2>2 DEF OwnershipInv, HeldInv, Mine, NotMine, Free, BeingKilled, Leaving
  <2>4. CASE idle /\ ~sup.busy
    <3>1. StopHeld(held, FileKept(sup.proc, shown))
      BY <1>1, <2>4 DEF NoTask, MaybeStopIdle
    <3> HIDE DEF held
    <3> QED
      BY <2>1, <2>2, <3>1, StopQuiet, HandleStepInv DEF Leaving
  <2>5. CASE ~(idle /\ ~sup.busy)
    <3>1. sup'.proc = held /\ sup'.pending = sup.pending
      BY <1>1, <2>5 DEF NoTask, MaybeStopIdle, SupType, Supervisor
    <3>2. HandleStep
      BY <2>1, <2>3, <3>1, QuietSteps DEF NotMine
    <3> QED
      BY <2>1, <3>2, HandleStepInv DEF Leaving
  <2> QED
    BY <2>4, <2>5
<1>2. ASSUME Stop PROVE HandleStep /\ sup'.proc = None /\ Free
  BY <1>2, StopQuiet DEF Stop
<1>3. CASE ShortOfMemory \/ ExitStop
  BY <1>2, <1>3, HandleStepInv DEF ShortOfMemory, ExitStop, Goto, Leaving
<1>4. CASE BeginText
  <2>1. HandleStep /\ sup'.proc = None /\ main = "polling" /\ main' = "clearing"
    BY <1>2, <1>4 DEF BeginText, Goto
  <2> QED
    BY <2>1 DEF TextInv, NotMine, BlankInv, HandleStep, Mine, Leaving
<1>5. ASSUME NEW shown \in Shown, EnsureComfy(shown) PROVE TextInv' /\ BlankInv'
  <2>1. /\ ~sup'.pending /\ \A p \in Pids : Mine(p) /\ sup.pending => BeingKilled(p)'
        /\ UNCHANGED proc /\ main = "starting" /\ main' = "ensuring" /\ Free
    BY <1>5, EnsureOwn DEF EnsureComfy, EnsureRunning, Goto
  <2> QED
    BY <2>1 DEF TextInv, BlankInv, Mine, Alive, BeingKilled, Leaving, Free
<1>6. ASSUME MarkBusy \/ MarkIdle PROVE HandleStep
  <2>1. Free /\ UNCHANGED proc /\ sup'.pending = sup.pending /\ sup'.proc = sup.proc
    BY <1>6 DEF MarkBusy, MarkIdle, SupType, Supervisor
  <2> QED
    BY <2>1, QuietSteps
<1>7. CASE EnoughMemory \/ ComfyUIUnavailable \/ RenderEnds
  BY <1>6, <1>7, HandleStepInv
     DEF EnoughMemory, ComfyUIUnavailable, RenderEnds, Goto, Leaving
<1>8. ASSUME UNCHANGED <<proc, sup, call>>, ~Leaving \/ Leaving',
             main' \notin {"clearing", "chatting", "ensuring", "rendering"}
      PROVE  TextInv' /\ BlankInv'
  BY <1>8 DEF TextInv, BlankInv, Mine, Alive, BeingKilled, Leaving
<1>9. CASE InsufficientMemory
  BY <1>8, <1>9 DEF InsufficientMemory, Goto, Leaving
<1>10. CASE Render
  BY <1>10 DEF Render, Goto, TextInv, BlankInv, Mine, Alive, BeingKilled, Leaving
<1>11. ASSUME NEW idle \in BOOLEAN, NEW works \in BOOLEAN, NoTaskEnds(idle, works)
       PROVE  TextInv' /\ BlankInv'
  BY <1>8, <1>11 DEF NoTaskEnds, Goto, Leaving
<1>12. ASSUME NEW works \in BOOLEAN, BeginVisual(works) \/ ExitUnload(works)
       PROVE  TextInv' /\ BlankInv'
  BY <1>8, <1>12 DEF BeginVisual, ExitUnload, Goto, Leaving
<1>13. ASSUME NEW m \in Models, NEW answered \in BOOLEAN, Ask(m, answered)
       PROVE  TextInv' /\ BlankInv'
  BY <1>13 DEF Ask, Goto, TextInv, NotMine, BlankInv, Mine, Alive, BeingKilled, Leaving
<1>14. ASSUME NEW success \in BOOLEAN, NEW loaded \in BOOLEAN, Answer(success, loaded)
       PROVE  TextInv' /\ BlankInv'
  BY <1>8, <1>14 DEF Answer, Goto, Leaving
<1>15. CASE BlankRender
  <2>1. sup'.pending = TRUE /\ main' = "polling"
    BY <1>15 DEF BlankRender, Goto, SupType, Supervisor
  <2> QED
    BY <2>1 DEF TextInv, BlankInv
<1>16. CASE Exit
  <2>1. main' = "down" /\ \A p \in Pids : proc'[p].by # "mine"
    BY <1>16 DEF Exit, ProcessEnds, SupType, Process
  <2> QED
    BY <2>1 DEF TextInv, BlankInv, Mine
<1> QED
  BY <1>1, <1>3, <1>4, <1>5, <1>7, <1>9, <1>10, <1>11, <1>12, <1>13, <1>14, <1>15, <1>16
     DEF MainThread

\* Every step keeps the whole invariant.
LEMMA MachineNext ==
    ASSUME MachineInv, SupType', [Next]_vars
    PROVE  MachineInv'
<1> USE DEF MachineInv
<1>1. OwnershipInv'
  BY OwnershipNext
<1>2. CASE MainThread
  BY <1>1, <1>2, MachineMain
<1>3. CASE InsideCall
  BY <1>1, <1>3, HandleSteps, HandleStepInv DEF InsideCall, Leaving
<1>4. CASE HeartbeatThread
  <2>1. CASE Leaving
    BY <1>1, <1>4, <2>1 DEF HeartbeatThread, TextInv, BlankInv, Leaving
  <2>2. CASE ~Leaving
    BY <1>1, <1>4, <2>2, HandleSteps, HandleStepInv DEF HeartbeatThread, Leaving
  <2> QED
    BY <1>1, <2>1, <2>2
<1>5. ASSUME UNCHANGED <<proc, sup, call, main>> PROVE TextInv' /\ BlankInv'
  BY <1>5 DEF TextInv, NotMine, BlankInv, Mine, Alive, BeingKilled, Leaving
<1>6. CASE Machine
  <2>1. CASE Environment /\ UNCHANGED main
    BY <1>1, <2>1, HandleSteps, HandleStepInv DEF Leaving
  <2>2. ASSUME NEW p \in Pids, main = "down", Reused(p), UNCHANGED main
        PROVE  TextInv' /\ BlankInv'
    <3>1. \A q \in Pids : proc'[q].by # "mine"
      BY <2>2 DEF Reused, SupType, OwnershipInv, PlaceInv
    <3> QED
      BY <2>2, <3>1 DEF TextInv, BlankInv, Mine
  <2> QED
    BY <1>1, <1>5, <1>6, <2>1, <2>2 DEF Machine
<1>7. ASSUME NEW loaded \in BOOLEAN, Signal(loaded) PROVE TextInv' /\ BlankInv'
  BY <1>7 DEF Signal, TextInv, BlankInv, Leaving
<1>8. CASE Crash
  <2>1. main' = "down" /\ \A p \in Pids : proc'[p].by # "mine"
    BY <1>8 DEF Crash, ProcessEnds, SupType, Process
  <2> QED
    BY <1>1, <2>1 DEF TextInv, BlankInv, Mine
<1>9. CASE StartWorker
  BY <1>1, <1>9 DEF StartWorker, Goto, TextInv, BlankInv, Mine, Alive, BeingKilled, Leaving
<1>10. CASE UNCHANGED vars
  BY <1>1, <1>5, <1>10 DEF vars
<1> QED
  BY <1>1, <1>2, <1>3, <1>4, <1>6, <1>7, <1>8, <1>9, <1>10 DEF Next

\* The worker starts with nothing held, recorded or loaded.
LEMMA MachineInit == Init => TypeInv /\ MachineInv
<1> SUFFICES ASSUME Init PROVE TypeInv /\ MachineInv
  OBVIOUS
<1> USE HandlerAssumption DEF Init, SupervisorInit, OllamaInit, NewSupervisor
<1>1. TypeInv
  BY CallTypes DEF TypeInv, SupType, ModelType, Process, Starters, Lives, Supervisor, States,
     Loaders
<1>2. \A p \in Pids : ~Mine(p)
  BY DEF Mine
<1>3. OwnershipInv
  BY <1>2 DEF OwnershipInv, OwnInv, PlaceInv, HeldInv, OneComfyAtATime, Mine, Ours, Recorded, Free,
     At, Places
<1>4. TextInv /\ BlankInv
  BY <1>2 DEF TextInv, BlankInv
<1> QED
  BY <1>1, <1>3, <1>4 DEF MachineInv, TypeInv

\* The inductive invariant of the machine: what the worker holds and records
\* is no ComfyUI of the user, what lives of its own it holds, unless it is
\* leaving, and a blank ComfyUI of its own has its restart pending.
THEOREM MachineInvariant == Spec => [](TypeInv /\ MachineInv)
<1>1. TypeInv /\ MachineInv /\ [Next]_vars => TypeInv' /\ MachineInv'
  BY TypeNext, MachineNext DEF TypeInv
<1> QED
  BY MachineInit, <1>1, PTL DEF Spec

\* Every field keeps its kind and the main thread is at a place of the code.
THEOREM TypeCorrect == Spec => []TypeOK
<1>1. TypeInv /\ MachineInv => TypeOK
  <2>1. ASSUME ModelType PROVE chat \in Chat
    <3>1. CASE chat = NoChat
      BY <3>1 DEF NoChat, Chat
    <3>2. CASE chat \in [of : Models, ours : BOOLEAN]
      BY <3>2 DEF Chat
    <3> QED
      BY <2>1, <3>1, <3>2 DEF ModelType
  <2> QED
    BY <2>1 DEF TypeInv, MachineInv, SupType, WellFormed, ModelType, OwnershipInv, PlaceInv, TypeOK
<1> QED
  BY MachineInvariant, <1>1, PTL

\* The worker holds, and terminates, only what a worker launched: never a
\* ComfyUI of the user, whatever the pid file of a dead worker names.
THEOREM UserIsNeverStopped == Spec => []OnlyOwnIsStopped
<1>1. MachineInv => OnlyOwnIsStopped
  BY HandlerAssumption
     DEF MachineInv, OwnershipInv, OwnInv, Ours, OnlyOwnIsStopped, SupType, WellFormed
<1> QED
  BY MachineInvariant, <1>1, PTL

\* No two ComfyUIs of one worker process are in memory at once.
THEOREM OneAtATime == Spec => []OneComfyAtATime
<1>1. MachineInv => OneComfyAtATime
  BY DEF MachineInv, OwnershipInv
<1> QED
  BY MachineInvariant, <1>1, PTL

\* No ComfyUI that this worker process started lives while it chats.
THEOREM TextIsAlone == Spec => []TextRunsAlone
<1>1. MachineInv => TextRunsAlone
  BY HandlerAssumption
     DEF MachineInv, SupType, OwnershipInv, PlaceInv, HeldInv, TextInv, NotMine, TextRunsAlone,
         Mine, Free, BeingKilled, Leaving
<1> QED
  BY MachineInvariant, <1>1, PTL

\* A ComfyUI of this worker process that rendered a blank image renders no more.
THEOREM BlankIsReplaced == Spec => []BlankIsNotReused
<1>1. MachineInv => BlankIsNotReused
  BY DEF MachineInv, OwnershipInv, PlaceInv, BlankInv, BlankIsNotReused, Mine, Alive, Free,
     BeingKilled, Leaving
<1> QED
  BY MachineInvariant, <1>1, PTL

-----------------------------------------------------------------------------
(* The models of this worker and its renders.                              *)

Rendering == main \in {"measuring", "remeasuring", "starting", "ensuring", "rendering"}
RenderFree == Rendering => \A m \in Models : model[m] # "mine"

\* A chat with another model than the one that is owned: `_owned` names one.
AnotherTakesOver == owned # NoModel /\ owned' \notin {NoModel, owned}

\* What a step that is no take-over keeps.
ModelKept == /\ LoadedIsOwned' \/ AnotherTakesOver
             /\ RenderFree => RenderFree'

\* What the calls to Ollama leave loaded and owned.
LEMMA ModelSteps ==
    ASSUME ModelType, LoadedIsOwned
    PROVE  /\ \A works \in BOOLEAN :
                Unload(works) => \A m \in Models : model'[m] # "mine"
           /\ \A success, loaded \in BOOLEAN :
                ChatEnds(success, loaded) => LoadedIsOwned' \/ AnotherTakesOver
<1> USE DEF ModelType, Loaders, LoadedIsOwned
<1>1. ASSUME NEW works \in BOOLEAN, Unload(works), NEW m \in Models PROVE model'[m] # "mine"
  <2>1. CASE owned = NoModel
    BY <1>1, <2>1, HandlerAssumption DEF Unload
  <2>2. CASE owned \in Models
    <3>1. model[m] = "mine" => m = owned
      OBVIOUS
    <3>2. owned # NoModel
      BY <2>2, HandlerAssumption
    <3> QED
      BY <1>1, <2>2, <3>1, <3>2 DEF Unload, Released
  <2> QED
    BY <2>1, <2>2
<1>2. ASSUME NEW success \in BOOLEAN, NEW loaded \in BOOLEAN, ChatEnds(success, loaded)
      PROVE  LoadedIsOwned' \/ AnotherTakesOver
  <2>1. chat.of \in Models
    BY <1>2 DEF ChatEnds
  <2>2. CASE chat.ours
    BY <1>2, <2>1, <2>2, HandlerAssumption DEF ChatEnds, AnotherTakesOver
  <2>3. CASE ~chat.ours
    BY <1>2, <2>1, <2>3 DEF ChatEnds
  <2> QED
    BY <2>2, <2>3
<1> QED
  BY <1>1, <1>2

\* Every step but a chat that takes over keeps what is loaded owned, and none
\* brings a model of ours beside a render.
LEMMA ModelNext ==
    ASSUME ModelType, LoadedIsOwned, [Next]_vars
    PROVE  ModelKept
<1>1. ASSUME UNCHANGED <<model, owned>>, Rendering' => Rendering PROVE ModelKept
  BY <1>1 DEF LoadedIsOwned, RenderFree, ModelKept
<1>2. ASSUME NEW works \in BOOLEAN, Unload(works) PROVE ModelKept
  BY <1>2, ModelSteps DEF LoadedIsOwned, RenderFree, ModelKept
<1>3. ASSUME NEW success \in BOOLEAN, NEW loaded \in BOOLEAN, ChatEnds(success, loaded),
             ~Rendering'
      PROVE  ModelKept
  BY <1>3, ModelSteps DEF RenderFree, ModelKept
<1>4. ASSUME ProcessEnds PROVE ModelKept
  BY <1>4 DEF ProcessEnds, Released, ModelType, LoadedIsOwned, RenderFree, ModelKept
<1>5. CASE MainThread
  <2>1. ASSUME NEW idle \in BOOLEAN, NEW works \in BOOLEAN, NoTaskEnds(idle, works)
        PROVE  ModelKept
    BY <1>1, <1>2, <2>1 DEF NoTaskEnds, MaybeUnloadIdle, ollamaVars, Goto, Rendering
  <2>2. ASSUME NEW works \in BOOLEAN, BeginVisual(works) \/ ExitUnload(works) PROVE ModelKept
    BY <1>2, <2>2 DEF BeginVisual, ExitUnload
  <2>3. ASSUME NEW m \in Models, NEW answered \in BOOLEAN, Ask(m, answered) PROVE ModelKept
    BY <1>1, <2>3 DEF Ask, AskLoaded, Goto, Rendering
  <2>4. ASSUME NEW success \in BOOLEAN, NEW loaded \in BOOLEAN, Answer(success, loaded)
        PROVE  ModelKept
    BY <1>3, <2>4 DEF Answer, Goto, Rendering
  <2>5. ASSUME NEW idle \in BOOLEAN, NEW shown \in Shown, NoTask(idle, shown) PROVE ModelKept
    BY <1>1, <2>5 DEF NoTask, Goto, Rendering
  <2>6. CASE EnoughMemory \/ ShortOfMemory \/ InsufficientMemory \/ Render
    BY <1>1, <2>6 DEF EnoughMemory, ShortOfMemory, InsufficientMemory, Render, Goto, Rendering
  <2>7. ASSUME NEW shown \in Shown, EnsureComfy(shown) PROVE ModelKept
    BY <1>1, <2>7 DEF EnsureComfy, Goto, Rendering
  <2>8. CASE ComfyUIUnavailable \/ RenderEnds \/ BlankRender \/ BeginText \/ ExitStop
    BY <1>1, <2>8 DEF ComfyUIUnavailable, RenderEnds, BlankRender, BeginText, ExitStop, Goto,
       Rendering
  <2>9. CASE Exit
    BY <1>4, <2>9 DEF Exit
  <2> QED
    BY <1>5, <2>1, <2>2, <2>3, <2>4, <2>5, <2>6, <2>7, <2>8, <2>9 DEF MainThread
<1>6. CASE InsideCall \/ HeartbeatThread
  BY <1>1, <1>6 DEF InsideCall, HeartbeatThread, Rendering
<1>7. CASE Machine
  <2>1. ASSUME NEW m \in Models, UserLoads(m) \/ Evicted(m), UNCHANGED main PROVE ModelKept
    BY <2>1 DEF UserLoads, Evicted, ModelType, LoadedIsOwned, RenderFree, Rendering, ModelKept
  <2> QED
    BY <1>1, <1>7, <2>1 DEF Machine, Rendering
<1>8. ASSUME NEW loaded \in BOOLEAN, Signal(loaded) PROVE ModelKept
  <2>1. ~Rendering'
    BY <1>8 DEF Signal, Rendering
  <2> QED
    BY <1>1, <1>3, <1>8, <2>1 DEF Signal, ollamaVars
<1>9. CASE Crash
  BY <1>4, <1>9 DEF Crash
<1>10. CASE StartWorker
  BY <1>1, <1>10 DEF StartWorker, Goto, Rendering
<1>11. CASE UNCHANGED vars
  BY <1>1, <1>11 DEF vars, Rendering
<1> QED
  BY <1>5, <1>6, <1>7, <1>8, <1>9, <1>10, <1>11 DEF Next

LEMMA ModelInit == Init => LoadedIsOwned /\ RenderFree
  BY DEF Init, OllamaInit, LoadedIsOwned, RenderFree, Rendering

\* For any number of models, failed and interrupted chats, refused unloads,
\* evictions, signals and crashes: the only step after which this worker does
\* not own a model that it loaded is a chat with another one ("_owned = model"
\* forgets the first); it is not unloaded before a render any more.
THEOREM LoadedStaysOwned == Spec => [][LoadedIsOwned => LoadedIsOwned' \/ AnotherTakesOver]_vars
<1>1. TypeInv /\ [Next]_vars => [LoadedIsOwned => LoadedIsOwned' \/ AnotherTakesOver]_vars
  BY ModelNext DEF TypeInv, ModelKept
<1> QED
  BY MachineInvariant, <1>1, PTL DEF Spec

\* For any number of models: as long as no chat takes over from another model
\* that is still owned, what this worker loaded is owned, and ComfyUI renders
\* only after Ollama gave it up, whatever the user loads or Ollama evicts.
THEOREM RendersAreAlone ==
    Spec /\ [][~AnotherTakesOver]_vars => [](LoadedIsOwned /\ RenderRunsAlone)
<1>1. TypeInv /\ LoadedIsOwned /\ RenderFree /\ [Next]_vars /\ [~AnotherTakesOver]_vars
        => LoadedIsOwned' /\ RenderFree'
  <2> SUFFICES ASSUME TypeInv, LoadedIsOwned, RenderFree, [Next]_vars,
                      [~AnotherTakesOver]_vars
               PROVE  LoadedIsOwned' /\ RenderFree'
    OBVIOUS
  <2>1. CASE ~AnotherTakesOver
    BY <2>1, ModelNext DEF TypeInv, ModelKept
  <2>2. CASE UNCHANGED vars
    BY <2>2 DEF vars, LoadedIsOwned, RenderFree, Rendering
  <2> QED
    BY <2>1, <2>2
<1>2. RenderFree => RenderRunsAlone
  BY DEF RenderFree, RenderRunsAlone, Rendering
<1> QED
  BY MachineInvariant, ModelInit, <1>1, <1>2, PTL DEF Spec
=============================================================================
