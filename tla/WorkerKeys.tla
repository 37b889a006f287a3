----------------------------- MODULE WorkerKeys -----------------------------
(***************************************************************************)
(* Self-service worker keys: the table worker_keys, the profiles it is     *)
(* joined with, the cache of matches each API process keeps, and the       *)
(* requests that create, revoke and present keys.                          *)
(*                                                                         *)
(* require_worker runs on a thread pool, so the threads of a process share *)
(* its cache without a lock, and a request is several steps: it takes its  *)
(* time, looks in the cache, queries the table, stores the match.  A key   *)
(* stands for its sha256 digest.  Environment keys bypass all of this.     *)
(***************************************************************************)
EXTENDS Integers, FiniteSets

CONSTANTS
    Users,          \* owners of keys
    Keys,           \* keys that create_key may generate
    Processes,      \* API processes
    Threads,        \* requests that run at once (BOUND)
    ProcessOf,      \* the process each request runs in
    MaxActiveKeys,  \* MAX_ACTIVE_KEYS
    CacheSeconds,   \* WORKER_KEY_CACHE_SECONDS
    MaxTime,        \* BOUND on the clock
    None

ASSUME KeysAssumption ==
    /\ IsFiniteSet(Threads) /\ Threads # {}
    /\ ProcessOf \in [Threads -> Processes]
    /\ MaxActiveKeys \in Nat
    /\ CacheSeconds \in Nat \ {0}
    /\ MaxTime \in Nat
    /\ None \notin Users \cup Keys

VARIABLES
    clock,    \* time
    profile,  \* platform.profiles.status of each user
    key,      \* worker_keys: owner and state of each key ("unborn": no row)
    cache,    \* _worker_key_cache of each process: expiry of a key, 0 if absent
    req,      \* the request of each thread
    ended     \* history: when each key last stopped being valid

vars == <<clock, profile, key, cache, req, ended>>

Time == 0 .. MaxTime
NoKeyRow == [user |-> None, state |-> "unborn"]
KeyRow == [user : Users, state : {"active", "revoked"}] \cup {NoKeyRow}
Idle == [at |-> "idle", key |-> None, user |-> None, now |-> 0, held |-> FALSE]
Presenting == {"looking", "querying", "matched", "accepted", "rejected"}
KeyCheck == [at : Presenting, key : Keys, user : {None}, now : Time, held : BOOLEAN]
KeyAdmin == [at : {"approved", "creating"}, key : {None}, user : Users, now : {0},
             held : {FALSE}]
NoRequest == [at : {"idle"}, key : {None}, user : {None}, now : {0}, held : {FALSE}]
Request == NoRequest \cup KeyCheck \cup KeyAdmin

\* The rows find_active_key matches: not revoked, and the owner is approved.
ValidIn(k, keys, profiles) ==
    keys[k].state = "active" /\ profiles[keys[k].user] = "approved"
Valid(k) == ValidIn(k, key, profile)

\* The last moment a key was valid: now, or when it stopped.
LastValid(k) == IF Valid(k) THEN clock ELSE ended[k]

\* History: requests remember whether their key stayed valid all along.
Watched(keys, profiles) ==
    [h \in Threads |-> [req[h] EXCEPT !.held =
        @ /\ req[h].key # None /\ ValidIn(req[h].key, keys, profiles)]]

Ended(keys, profiles) ==
    [k \in Keys |-> IF Valid(k) /\ ~ValidIn(k, keys, profiles) THEN clock ELSE ended[k]]

-----------------------------------------------------------------------------
(* require_worker.                                                         *)

\* A worker presents a key: the request takes its time.
Present(h, k) ==
    /\ req[h].at = "idle"
    /\ req' = [req EXCEPT ![h] = [at |-> "looking", key |-> k, user |-> None,
                                  now |-> clock, held |-> Valid(k)]]
    /\ UNCHANGED <<clock, profile, key, cache, ended>>

Cached(h) == cache[ProcessOf[h]][req[h].key]

\* Mutant: an expired entry is rejected without asking the table.
LookUpRejectsExpired(h) ==
    /\ req[h].at = "looking"
    /\ IF Cached(h) > 0
       THEN /\ req' = [req EXCEPT ![h].at =
                         IF Cached(h) > req[h].now THEN "accepted" ELSE "rejected"]
            /\ UNCHANGED cache
       ELSE /\ req' = [req EXCEPT ![h].at = "querying"]
            /\ UNCHANGED cache
    /\ UNCHANGED <<clock, profile, key, ended>>

\* The cache: a match that has not expired decides, anything else is dropped
\* (and if another thread's newer match goes with it, one more query is made).
LookUp(h) ==
    /\ req[h].at = "looking"
    /\ IF Cached(h) > req[h].now
       THEN req' = [req EXCEPT ![h].at = "accepted"] /\ UNCHANGED cache
       ELSE /\ req' = [req EXCEPT ![h].at = "querying"]
            /\ cache' = [cache EXCEPT ![ProcessOf[h]][req[h].key] = 0]
    /\ UNCHANGED <<clock, profile, key, ended>>

\* find_active_key: one query decides; last_used_at is touched (not modelled).
FindActiveKey(h) ==
    /\ req[h].at = "querying"
    /\ req' = [req EXCEPT ![h].at = IF Valid(req[h].key) THEN "matched" ELSE "rejected"]
    /\ UNCHANGED <<clock, profile, key, cache, ended>>

\* SQLAlchemyError: 503, neither accepted nor rejected.
KeyCheckFails(h) ==
    /\ req[h].at = "querying"
    /\ req' = [req EXCEPT ![h] = Idle]
    /\ UNCHANGED <<clock, profile, key, cache, ended>>

\* Mutant: the entry's life is counted from when it is stored.
StoreFromNow(h) ==
    /\ req[h].at = "matched"
    /\ cache' = [cache EXCEPT ![ProcessOf[h]][req[h].key] = clock + CacheSeconds]
    /\ req' = [req EXCEPT ![h].at = "accepted"]
    /\ UNCHANGED <<clock, profile, key, ended>>

\* A match is cached until CacheSeconds after the request took its time.
Store(h) ==
    /\ req[h].at = "matched"
    /\ cache' = [cache EXCEPT ![ProcessOf[h]][req[h].key] = req[h].now + CacheSeconds]
    /\ req' = [req EXCEPT ![h].at = "accepted"]
    /\ UNCHANGED <<clock, profile, key, ended>>

Respond(h) ==
    /\ req[h].at \in {"accepted", "rejected"}
    /\ req' = [req EXCEPT ![h] = Idle]
    /\ UNCHANGED <<clock, profile, key, cache, ended>>

-----------------------------------------------------------------------------
(* The routes /worker-keys: a signed-in user whose profile is approved     *)
(* creates and revokes keys.                                               *)

\* require_approved_user reads the profile, the handler runs afterwards.
ApproveUser(h, u) ==
    /\ req[h].at = "idle"
    /\ profile[u] = "approved"
    /\ req' = [req EXCEPT ![h] = [Idle EXCEPT !.at = "approved", !.user = u]]
    /\ UNCHANGED <<clock, profile, key, cache, ended>>

ActiveKeys(u) == {k \in Keys : key[k].user = u /\ key[k].state = "active"}

\* Mutant: one key too many.
CountKeysOffByOne(h) ==
    /\ req[h].at = "approved"
    /\ req' = IF Cardinality(ActiveKeys(req[h].user)) > MaxActiveKeys
              THEN [req EXCEPT ![h] = Idle]
              ELSE [req EXCEPT ![h].at = "creating"]
    /\ UNCHANGED <<clock, profile, key, cache, ended>>

\* create_key, first statement: 409 at the cap.
CountKeys(h) ==
    /\ req[h].at = "approved"
    /\ req' = IF Cardinality(ActiveKeys(req[h].user)) >= MaxActiveKeys
              THEN [req EXCEPT ![h] = Idle]
              ELSE [req EXCEPT ![h].at = "creating"]
    /\ UNCHANGED <<clock, profile, key, cache, ended>>

\* create_key, second statement and commit: a key nobody has seen.
CreateKey(h, k) ==
    /\ req[h].at = "creating"
    /\ key[k].state = "unborn"
    /\ key' = [key EXCEPT ![k] = [user |-> req[h].user, state |-> "active"]]
    /\ req' = [req EXCEPT ![h] = Idle]
    /\ UNCHANGED <<clock, profile, cache, ended>>

\* revoke_key: only a user's own key, 404 otherwise; revoking twice is no error.
RevokeKey(h, k) ==
    /\ req[h].at = "approved"
    /\ LET own == key[k].state = "active" /\ key[k].user = req[h].user
           keys == IF own THEN [key EXCEPT ![k].state = "revoked"] ELSE key
       IN /\ key' = keys
          /\ req' = [Watched(keys, profile) EXCEPT ![h] = Idle]
          /\ ended' = Ended(keys, profile)
    /\ UNCHANGED <<clock, profile, cache>>

-----------------------------------------------------------------------------
\* An administrator suspends or approves a user, outside this service.
SetProfile(u, status) ==
    /\ profile' = [profile EXCEPT ![u] = status]
    /\ req' = Watched(key, profile')
    /\ ended' = Ended(key, profile')
    /\ UNCHANGED <<clock, key, cache>>

\* An API process restarts with an empty cache; its requests are gone.
Restart(p) ==
    /\ cache' = [cache EXCEPT ![p] = [k \in Keys |-> 0]]
    /\ req' = [h \in Threads |-> IF ProcessOf[h] = p THEN Idle ELSE req[h]]
    /\ UNCHANGED <<clock, profile, key, ended>>

Tick ==
    /\ clock < MaxTime
    /\ clock' = clock + 1
    /\ UNCHANGED <<profile, key, cache, req, ended>>

Init ==
    /\ clock = 0
    /\ profile = [u \in Users |-> "approved"]
    /\ key = [k \in Keys |-> NoKeyRow]
    /\ cache = [p \in Processes |-> [k \in Keys |-> 0]]
    /\ req = [h \in Threads |-> Idle]
    /\ ended = [k \in Keys |-> 0]

CheckSteps(h) ==
    \/ \E k \in Keys : Present(h, k)
    \/ LookUp(h) \/ FindActiveKey(h) \/ KeyCheckFails(h) \/ Store(h) \/ Respond(h)

KeyRoutes(h) ==
    \/ \E u \in Users : ApproveUser(h, u)
    \/ CountKeys(h)
    \/ \E k \in Keys : CreateKey(h, k) \/ RevokeKey(h, k)

Next ==
    \/ \E h \in Threads : CheckSteps(h) \/ KeyRoutes(h)
    \/ \E u \in Users, status \in {"approved", "suspended"} : SetProfile(u, status)
    \/ \E p \in Processes : Restart(p)
    \/ Tick

Spec == Init /\ [][Next]_vars

-----------------------------------------------------------------------------
TypeOK ==
    /\ clock \in Time
    /\ profile \in [Users -> {"approved", "suspended"}]
    /\ key \in [Keys -> KeyRow]
    /\ cache \in [Processes -> [Keys -> Nat]]
    /\ req \in [Threads -> Request]
    /\ ended \in [Keys -> Time]

\* auth.py: "revoking a key or suspending its owner takes effect within a
\* minute".  A request is accepted only if its key was valid less than
\* CacheSeconds before the request took its time, whatever process, cache and
\* interleaving of threads served it.
RevocationTakesEffect ==
    \A h \in Threads :
        req[h].at = "accepted" => req[h].now < LastValid(req[h].key) + CacheSeconds

\* auth.py: "a brand-new key works at once".  No request is rejected whose key
\* was valid from the moment it was presented.
ValidKeysAreNotRejected ==
    \A h \in Threads : req[h].at = "rejected" => ~req[h].held

\* create_key's cap is "not race-proof": requests that overlap may all pass
\* the count.  They exceed it by no more than the requests that run at once.
CapHoldsUpToOverlap ==
    \A u \in Users :
        Cardinality(ActiveKeys(u)) < MaxActiveKeys + Cardinality(Threads)
=============================================================================
