---------------------------- MODULE OllamaOwner ----------------------------
(***************************************************************************)
(* The models in Ollama's memory and the one this worker counts as its     *)
(* own.  Only the main thread chats and unloads (the heartbeat thread      *)
(* asks, which changes nothing), so the calls below never overlap; the     *)
(* user and Ollama load and evict models in between.                       *)
(***************************************************************************)
CONSTANTS
    Models,
    NoModel  \* Python None

VARIABLES
    model,  \* who loaded each model: "out" if it is not in memory
    owned,  \* _owned
    chat    \* the model asked for and what /api/ps said of it

ollamaVars == <<model, owned, chat>>

\* "mine": loaded by a chat that had seen it out of memory.  "kept": by a chat
\* that had not, or a model of ours whose unload was refused.
Loaders == {"out", "mine", "kept", "user"}
NoChat == [of |-> NoModel, ours |-> FALSE]
Chat == [of : Models \cup {NoModel}, ours : BOOLEAN]

\* chat, the question before the call: ours only if Ollama answers and does
\* not list the model.
AskLoaded(m, answered) ==
    /\ chat = NoChat
    /\ chat' = [of |-> m, ours |-> answered /\ model[m] = "out"]
    /\ UNCHANGED <<model, owned>>

\* Mutant: the ownership is recorded only when the call succeeds.
ChatEndsOwnedOnSuccess(success, loaded) ==
    /\ chat # NoChat
    /\ model' = IF model[chat.of] = "out" /\ loaded
                THEN [model EXCEPT ![chat.of] = IF chat.ours THEN "mine" ELSE "kept"]
                ELSE model
    /\ owned' = IF chat.ours /\ success THEN chat.of ELSE owned
    /\ chat' = NoChat

\* The answer, an error or an interrupt: each may have loaded the model, and
\* `finally` records it as owned in each case.
ChatEnds(success, loaded) ==
    /\ chat # NoChat
    /\ success => loaded
    /\ model' = IF model[chat.of] = "out" /\ loaded
                THEN [model EXCEPT ![chat.of] = IF chat.ours THEN "mine" ELSE "kept"]
                ELSE model
    /\ owned' = IF chat.ours THEN chat.of ELSE owned
    /\ chat' = NoChat

\* What is no longer counted as our own.
Released(by) == IF by = "mine" THEN "kept" ELSE by

\* unload: forgotten before the call, whatever comes of it.
Unload(works) ==
    /\ owned' = NoModel
    /\ model' = IF owned = NoModel THEN model
                ELSE [model EXCEPT ![owned] = IF works THEN "out" ELSE Released(@)]
    /\ UNCHANGED chat

\* `idle`: no chat for OLLAMA_IDLE_MINUTES.
MaybeUnloadIdle(idle, works) ==
    IF idle THEN Unload(works) ELSE UNCHANGED ollamaVars

-----------------------------------------------------------------------------
(* The user and Ollama, whatever this worker counts as its own.            *)

UserLoads(m) ==
    model[m] = "out" /\ model' = [model EXCEPT ![m] = "user"] /\ UNCHANGED <<owned, chat>>

\* Its keep_alive runs out, or another model needs the memory.
Evicted(m) ==
    model[m] # "out" /\ model' = [model EXCEPT ![m] = "out"] /\ UNCHANGED <<owned, chat>>

OllamaInit ==
    /\ model = [m \in Models |-> "out"]
    /\ owned = NoModel
    /\ chat = NoChat
=============================================================================
