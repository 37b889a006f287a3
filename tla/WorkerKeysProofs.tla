-------------------------- MODULE WorkerKeysProofs --------------------------
(***************************************************************************)
(* Proofs about WorkerKeys, for any number of users, keys, processes and   *)
(* overlapping requests, and any life of the cache.                        *)
(***************************************************************************)
EXTENDS WorkerKeys, FiniteSetTheorems, TLAPS

\* What requests and history remember lies in the past.
PastInv ==
    /\ \A k \in Keys : ended[k] <= clock
    /\ \A h \in Threads : req[h].now <= clock

\* A request that found its key, and a cache entry up to CacheSeconds, reach no
\* further than the last moment at which the key was valid.
CacheInv ==
    /\ \A p \in Processes, k \in Keys : cache[p][k] <= LastValid(k) + CacheSeconds
    /\ \A h \in Threads :
         req[h].at = "matched" => req[h].now <= LastValid(req[h].key)

IInv == TypeOK /\ PastInv /\ CacheInv /\ RevocationTakesEffect

\* The fields of a request, by where it is.
LEMMA RequestFields ==
    ASSUME NEW r \in Request
    PROVE  /\ r.now \in Time
           /\ r.held \in BOOLEAN
           /\ r.at \in Presenting => r \in KeyCheck /\ r.key \in Keys
           /\ r.at \in {"approved", "creating"} => r \in KeyAdmin /\ r.user \in Users
<1> 0 \in Time
  BY KeysAssumption DEF Time
<1>1. CASE r \in NoRequest
  BY <1>1 DEF NoRequest, Presenting
<1>2. CASE r \in KeyCheck
  BY <1>2 DEF KeyCheck, Presenting
<1>3. CASE r \in KeyAdmin
  BY <1>3 DEF KeyAdmin, Presenting
<1> QED
  BY <1>1, <1>2, <1>3 DEF Request

\* A request that presents a key may change its place.
LEMMA MovedType ==
    ASSUME NEW r \in Request, r.at \in Presenting, NEW at \in Presenting
    PROVE  [r EXCEPT !.at = at] \in Request
<1>1. r \in KeyCheck
  BY RequestFields
<1>2. [r EXCEPT !.at = at] \in KeyCheck
  BY <1>1 DEF KeyCheck
<1> QED
  BY <1>2 DEF Request

\* Only a request that presents a key remembers whether its key was valid.
LEMMA HeldType ==
    ASSUME NEW r \in Request, NEW b \in BOOLEAN
    PROVE  [r EXCEPT !.held = r.held /\ r.key # None /\ b] \in Request
<1>1. CASE r \in NoRequest
  <2>1. (r.held /\ r.key # None /\ b) = FALSE
    BY <1>1 DEF NoRequest
  <2>2. [r EXCEPT !.held = FALSE] \in NoRequest
    BY <1>1 DEF NoRequest
  <2> QED
    BY <2>1, <2>2 DEF Request
<1>2. CASE r \in KeyCheck
  <2> DEFINE c == r.held /\ r.key # None /\ b
  <2>1. c \in BOOLEAN
    OBVIOUS
  <2> HIDE DEF c
  <2>2. [r EXCEPT !.held = c] \in KeyCheck
    BY <1>2, <2>1 DEF KeyCheck
  <2> QED
    BY <2>2 DEF c, Request
<1>3. CASE r \in KeyAdmin
  <2>1. (r.held /\ r.key # None /\ b) = FALSE
    BY <1>3 DEF KeyAdmin
  <2>2. [r EXCEPT !.held = FALSE] \in KeyAdmin
    BY <1>3 DEF KeyAdmin
  <2> QED
    BY <2>1, <2>2 DEF Request
<1> QED
  BY <1>1, <1>2, <1>3 DEF Request

LEMMA WatchedType ==
    ASSUME TypeOK, NEW keys, NEW profiles
    PROVE  Watched(keys, profiles) \in [Threads -> Request]
<1> SUFFICES ASSUME NEW h \in Threads
             PROVE  [req[h] EXCEPT !.held =
                       req[h].held /\ req[h].key # None
                         /\ ValidIn(req[h].key, keys, profiles)] \in Request
  BY DEF Watched
<1> QED
  BY HeldType DEF TypeOK, ValidIn

LEMMA EndedType ==
    ASSUME TypeOK, NEW keys, NEW profiles
    PROVE  Ended(keys, profiles) \in [Keys -> Time]
  BY DEF TypeOK, Ended

LEMMA IdleType == Idle \in Request
  BY DEF Idle, Request, NoRequest

LEMMA TypeInit == Init => TypeOK
  BY KeysAssumption, IdleType DEF Init, TypeOK, KeyRow, Time

LEMMA TypeNext == ASSUME TypeOK, [Next]_vars PROVE TypeOK'
<1> USE DEF TypeOK
<1>1. ASSUME NEW h \in Threads, NEW k \in Keys, Present(h, k) PROVE TypeOK'
  BY <1>1 DEF Present, Request, KeyCheck, Presenting, Valid, ValidIn
<1>2. ASSUME NEW h \in Threads, NEW k \in Keys, CreateKey(h, k) PROVE TypeOK'
  <2>1. req[h].user \in Users
    BY <1>2, RequestFields DEF CreateKey
  <2> QED
    BY <1>2, <2>1, IdleType DEF CreateKey, KeyRow
<1>3. ASSUME NEW h \in Threads, NEW k \in Keys, RevokeKey(h, k) PROVE TypeOK'
  <2> DEFINE own == key[k].state = "active" /\ key[k].user = req[h].user
             keys == IF own THEN [key EXCEPT ![k].state = "revoked"] ELSE key
  <2>1. key' = keys /\ req' = [Watched(keys, profile) EXCEPT ![h] = Idle]
          /\ ended' = Ended(keys, profile) /\ UNCHANGED <<clock, profile, cache>>
    BY <1>3 DEF RevokeKey
  <2>2. keys \in [Keys -> KeyRow]
    BY DEF KeyRow, NoKeyRow
  <2> HIDE DEF keys
  <2>3. Watched(keys, profile) \in [Threads -> Request] /\ Ended(keys, profile) \in [Keys -> Time]
    BY WatchedType, EndedType
  <2> QED
    BY <2>1, <2>2, <2>3, IdleType
<1>4. ASSUME NEW h \in Threads, LookUp(h) PROVE TypeOK'
  <2>1. req[h].at \in Presenting
    BY <1>4 DEF LookUp, Presenting
  <2>2. /\ [req[h] EXCEPT !.at = "accepted"] \in Request
        /\ [req[h] EXCEPT !.at = "querying"] \in Request
    BY <2>1, MovedType DEF Presenting
  <2>3. req' \in [Threads -> Request]
    BY <1>4, <2>2 DEF LookUp
  <2>4. cache' \in [Processes -> [Keys -> Nat]]
    <3>1. cache' = cache \/ cache' = [cache EXCEPT ![ProcessOf[h]][req[h].key] = 0]
      BY <1>4 DEF LookUp
    <3> QED
      BY <3>1
  <2>5. UNCHANGED <<clock, profile, key, ended>>
    BY <1>4 DEF LookUp
  <2> QED
    BY <2>3, <2>4, <2>5
<1>5. ASSUME NEW h \in Threads, FindActiveKey(h) PROVE TypeOK'
  <2>1. req[h].at \in Presenting
    BY <1>5 DEF FindActiveKey, Presenting
  <2>2. /\ [req[h] EXCEPT !.at = "matched"] \in Request
        /\ [req[h] EXCEPT !.at = "rejected"] \in Request
    BY <2>1, MovedType DEF Presenting
  <2> QED
    BY <1>5, <2>2 DEF FindActiveKey
<1>6. ASSUME NEW h \in Threads, KeyCheckFails(h) \/ Respond(h) PROVE TypeOK'
  BY <1>6, IdleType DEF KeyCheckFails, Respond
<1>7. ASSUME NEW h \in Threads, Store(h) PROVE TypeOK'
  <2>1. req[h].at \in Presenting /\ "accepted" \in Presenting
    BY <1>7 DEF Store, Presenting
  <2>2. [req[h] EXCEPT !.at = "accepted"] \in Request
    BY <2>1, MovedType
  <2>3. req[h].now + CacheSeconds \in Nat
    BY RequestFields, KeysAssumption DEF Time
  <2> QED
    BY <1>7, <2>2, <2>3 DEF Store
<1>8. ASSUME NEW h \in Threads, NEW u \in Users, ApproveUser(h, u) PROVE TypeOK'
  BY <1>8 DEF ApproveUser, Request, KeyAdmin, Idle
<1>9. ASSUME NEW h \in Threads, CountKeys(h) PROVE TypeOK'
  <2>1. ASSUME req[h].at = "approved" PROVE [req[h] EXCEPT !.at = "creating"] \in Request
    <3>1. req[h] \in KeyAdmin
      BY <2>1, RequestFields
    <3>2. [req[h] EXCEPT !.at = "creating"] \in KeyAdmin
      BY <3>1 DEF KeyAdmin
    <3> QED
      BY <3>2 DEF Request
  <2> QED
    BY <1>9, <2>1, IdleType DEF CountKeys
<1>10. ASSUME NEW u \in Users, NEW status \in {"approved", "suspended"}, SetProfile(u, status)
       PROVE  TypeOK'
  BY <1>10, WatchedType, EndedType DEF SetProfile
<1>11. ASSUME NEW p \in Processes, Restart(p) PROVE TypeOK'
  BY <1>11, IdleType DEF Restart
<1>12. ASSUME Tick PROVE TypeOK'
  BY <1>12, KeysAssumption DEF Tick, Time
<1>13. CASE UNCHANGED vars
  BY <1>13 DEF vars
<1> QED
  BY <1>1, <1>2, <1>3, <1>4, <1>5, <1>6, <1>7, <1>8, <1>9, <1>10, <1>11, <1>12, <1>13
  DEF Next, CheckSteps, KeyRoutes

\* Rows, caches and requests keep their shape: a stored key has an owner, and
\* a request that presents a key has one.
THEOREM TypeCorrect == Spec => []TypeOK
  BY TypeInit, TypeNext, PTL DEF Spec

-----------------------------------------------------------------------------
(* Revocation.                                                             *)

\* What an action does to the rows that decide whether a key is valid.
RowsStay == UNCHANGED <<clock, profile, key, ended>>
RowsChange ==
    /\ UNCHANGED clock
    /\ \A k \in Keys : ended'[k] = IF Valid(k) /\ ~Valid(k)' THEN clock ELSE ended[k]

LEMMA RowSteps ==
    ASSUME TypeOK, [Next]_vars PROVE RowsStay \/ RowsChange \/ Tick
<1>1. ASSUME NEW h \in Threads, NEW k \in Keys, CreateKey(h, k) PROVE RowsChange
  <2>1. \A j \in Keys : Valid(j) => Valid(j)'
    BY <1>1 DEF CreateKey, Valid, ValidIn, TypeOK
  <2> QED
    BY <1>1, <2>1 DEF CreateKey, RowsChange
<1>2. ASSUME NEW h \in Threads, NEW k \in Keys, RevokeKey(h, k) PROVE RowsChange
  <2>1. ended' = Ended(key', profile') /\ UNCHANGED clock
    BY <1>2 DEF RevokeKey
  <2> QED
    BY <2>1 DEF RowsChange, Ended, Valid
<1>3. ASSUME NEW u \in Users, NEW status, SetProfile(u, status) PROVE RowsChange
  <2>1. ended' = Ended(key', profile') /\ UNCHANGED clock
    BY <1>3 DEF SetProfile
  <2> QED
    BY <2>1 DEF RowsChange, Ended, Valid
<1> QED
  BY <1>1, <1>2, <1>3
  DEF Next, CheckSteps, KeyRoutes, vars, RowsStay, Present, LookUp, FindActiveKey, KeyCheckFails,
     Store, Respond, ApproveUser, CountKeys, Restart

\* The last moment a key was valid never moves back.
LEMMA LastValidGrows ==
    ASSUME TypeOK, PastInv, [Next]_vars, NEW k \in Keys
    PROVE  /\ LastValid(k) \in Nat
           /\ LastValid(k)' \in Nat
           /\ LastValid(k) <= LastValid(k)'
<1> ended[k] \in Nat /\ clock \in Nat /\ ended[k] <= clock
  BY KeysAssumption DEF TypeOK, Time, PastInv
<1>1. CASE RowsStay
  <2>1. LastValid(k)' = LastValid(k)
    BY <1>1 DEF RowsStay, LastValid, Valid
  <2> QED
    BY <2>1 DEF LastValid
<1>2. CASE RowsChange
  BY <1>2 DEF RowsChange, LastValid
<1>3. CASE Tick
  <2>1. clock' = clock + 1 /\ ended' = ended /\ Valid(k)' = Valid(k)
    BY <1>3 DEF Tick, Valid
  <2> QED
    BY <2>1 DEF LastValid
<1> QED
  BY <1>1, <1>2, <1>3, RowSteps

\* What a request with an answer did in a step: nothing, or it got its answer
\* from the table, from the cache, or by storing the table's answer.
AnswerStep(h) ==
    req'[h].at \in {"matched", "accepted"} =>
        /\ req[h].at \in Presenting
        /\ req'[h].key = req[h].key
        /\ req'[h].now = req[h].now
        /\ \/ req'[h].at = req[h].at
           \/ req'[h].at = "matched" /\ Valid(req[h].key) /\ RowsStay
           \/ req'[h].at = "accepted" /\ Cached(h) > req[h].now
           \/ req'[h].at = "accepted" /\ req[h].at = "matched"

LEMMA WatchedFields ==
    ASSUME TypeOK, NEW keys, NEW profiles, NEW h \in Threads
    PROVE  /\ Watched(keys, profiles)[h].at = req[h].at
           /\ Watched(keys, profiles)[h].key = req[h].key
           /\ Watched(keys, profiles)[h].now = req[h].now
           /\ Watched(keys, profiles)[h].user = req[h].user
           /\ Watched(keys, profiles)[h].held =
                (req[h].held /\ req[h].key # None /\ ValidIn(req[h].key, keys, profiles))
<1> DEFINE b == req[h].held /\ req[h].key # None /\ ValidIn(req[h].key, keys, profiles)
<1>1. Watched(keys, profiles)[h] = [req[h] EXCEPT !.held = b]
  BY DEF Watched
<1> HIDE DEF b
<1>2. /\ [req[h] EXCEPT !.held = b].at = req[h].at
      /\ [req[h] EXCEPT !.held = b].key = req[h].key
      /\ [req[h] EXCEPT !.held = b].now = req[h].now
      /\ [req[h] EXCEPT !.held = b].user = req[h].user
      /\ [req[h] EXCEPT !.held = b].held = b
  BY DEF TypeOK, Request, NoRequest, KeyCheck, KeyAdmin
<1> QED
  BY <1>1, <1>2 DEF b

LEMMA MovedFields ==
    ASSUME TypeOK, NEW g \in Threads, NEW at,
           req' = [req EXCEPT ![g].at = at]
    PROVE  /\ req'[g].at = at /\ req'[g].key = req[g].key /\ req'[g].now = req[g].now
           /\ req'[g].user = req[g].user /\ req'[g].held = req[g].held
           /\ \A h \in Threads : h # g => req'[h] = req[h]
<1>1. req'[g] = [req[g] EXCEPT !.at = at]
  BY DEF TypeOK
<1>2. /\ [req[g] EXCEPT !.at = at].at = at
      /\ [req[g] EXCEPT !.at = at].key = req[g].key
      /\ [req[g] EXCEPT !.at = at].now = req[g].now
      /\ [req[g] EXCEPT !.at = at].user = req[g].user
      /\ [req[g] EXCEPT !.at = at].held = req[g].held
  BY DEF TypeOK, Request, NoRequest, KeyCheck, KeyAdmin
<1> QED
  BY <1>1, <1>2 DEF TypeOK

LEMMA AnswerSteps == ASSUME TypeOK, [Next]_vars, NEW h \in Threads PROVE AnswerStep(h)
<1> req[h] \in Request /\ {"matched", "accepted"} \subseteq Presenting
  BY DEF TypeOK, Presenting
<1>1. CASE req'[h] = req[h]
  BY <1>1 DEF AnswerStep, Presenting
<1>2. CASE req'[h].at \notin {"matched", "accepted"}
  BY <1>2 DEF AnswerStep
<1>3. ASSUME NEW keys, NEW profiles, req'[h] = Watched(keys, profiles)[h] PROVE AnswerStep(h)
  BY <1>3, WatchedFields DEF AnswerStep, Presenting
<1>4. ASSUME NEW g \in Threads, LookUp(g) PROVE AnswerStep(h)
  <2>1. CASE Cached(g) > req[g].now
    BY <1>1, <1>4, <2>1, MovedFields DEF LookUp, AnswerStep, Presenting
  <2>2. CASE ~(Cached(g) > req[g].now)
    BY <1>1, <1>2, <1>4, <2>2, MovedFields DEF LookUp
  <2> QED
    BY <2>1, <2>2
<1>5. ASSUME NEW g \in Threads, FindActiveKey(g) PROVE AnswerStep(h)
  <2>1. CASE Valid(req[g].key)
    BY <1>1, <1>5, <2>1, MovedFields DEF FindActiveKey, AnswerStep, RowsStay, Presenting
  <2>2. CASE ~Valid(req[g].key)
    BY <1>1, <1>2, <1>5, <2>2, MovedFields DEF FindActiveKey
  <2> QED
    BY <2>1, <2>2
<1>6. ASSUME NEW g \in Threads, Store(g) PROVE AnswerStep(h)
  BY <1>1, <1>6, MovedFields DEF Store, AnswerStep, Presenting
<1>7. ASSUME NEW g \in Threads, NEW k \in Keys, Present(g, k) \/ CreateKey(g, k)
      PROVE  AnswerStep(h)
  BY <1>1, <1>2, <1>7 DEF Present, CreateKey, TypeOK, Idle
<1>8. ASSUME NEW g \in Threads, NEW k \in Keys, RevokeKey(g, k) PROVE AnswerStep(h)
  <2>1. PICK keys : req' = [Watched(keys, profile) EXCEPT ![g] = Idle]
    BY <1>8 DEF RevokeKey
  <2>2. CASE g = h
    BY <1>2, <2>1, <2>2, WatchedType DEF Idle
  <2>3. CASE g # h
    BY <1>3, <2>1, <2>3, WatchedType
  <2> QED
    BY <2>2, <2>3
<1>9. ASSUME NEW g \in Threads, KeyCheckFails(g) \/ Respond(g) \/ CountKeys(g)
      PROVE  AnswerStep(h)
  <2>1. CASE req' = [req EXCEPT ![g] = Idle]
    BY <1>1, <1>2, <2>1 DEF TypeOK, Idle
  <2>2. CASE req' = [req EXCEPT ![g].at = "creating"]
    BY <1>1, <1>2, <2>2, MovedFields
  <2> QED
    BY <1>9, <2>1, <2>2 DEF KeyCheckFails, Respond, CountKeys
<1>13. ASSUME NEW g \in Threads, NEW u \in Users, ApproveUser(g, u) PROVE AnswerStep(h)
  BY <1>1, <1>2, <1>13 DEF ApproveUser, TypeOK, Idle
<1>10. ASSUME NEW u \in Users, NEW status, SetProfile(u, status) PROVE AnswerStep(h)
  BY <1>3, <1>10 DEF SetProfile
<1>11. ASSUME NEW p \in Processes, Restart(p) PROVE AnswerStep(h)
  BY <1>1, <1>2, <1>11 DEF Restart, Idle
<1>12. CASE Tick \/ UNCHANGED vars
  BY <1>1, <1>12 DEF Tick, vars
<1> QED
  BY <1>4, <1>5, <1>6, <1>7, <1>8, <1>9, <1>10, <1>11, <1>12, <1>13
  DEF Next, CheckSteps, KeyRoutes

\* What a step writes in a cache: nothing, an eviction, or a match of a request
\* with the time that request took.
LEMMA CacheSteps ==
    ASSUME TypeOK, [Next]_vars, NEW p \in Processes, NEW k \in Keys
    PROVE  \/ cache'[p][k] \in {0, cache[p][k]}
           \/ \E h \in Threads : /\ req[h].at = "matched" /\ req[h].key = k
                               /\ cache'[p][k] = req[h].now + CacheSeconds
<1>1. ASSUME NEW h \in Threads, LookUp(h) PROVE cache'[p][k] \in {0, cache[p][k]}
  BY <1>1 DEF LookUp, TypeOK
<1>2. ASSUME NEW h \in Threads, Store(h)
      PROVE  \/ cache'[p][k] = cache[p][k]
             \/ /\ req[h].at = "matched" /\ req[h].key = k
                /\ cache'[p][k] = req[h].now + CacheSeconds
  BY <1>2 DEF Store, TypeOK
<1>3. ASSUME NEW q \in Processes, Restart(q) PROVE cache'[p][k] \in {0, cache[p][k]}
  BY <1>3 DEF Restart, TypeOK
<1> QED
  BY <1>1, <1>2, <1>3 DEF Next, CheckSteps, KeyRoutes, vars, Present, CreateKey, RevokeKey, FindActiveKey,
     KeyCheckFails, Respond, ApproveUser, CountKeys, SetProfile, Tick

\* A request keeps its time, or starts now, or has none.
LEMMA NowSteps ==
    ASSUME TypeOK, [Next]_vars, NEW h \in Threads
    PROVE  req'[h].now \in {req[h].now, clock, 0}
<1>1. CASE req'[h] \in {req[h], Idle}
  BY <1>1 DEF Idle
<1>2. ASSUME NEW g \in Threads, NEW k \in Keys, Present(g, k)
      PROVE  req'[h].now \in {req[h].now, clock, 0}
  BY <1>2 DEF Present, TypeOK
<1>3. ASSUME NEW g \in Threads, NEW at, req' = [req EXCEPT ![g].at = at]
      PROVE  req'[h].now \in {req[h].now, clock, 0}
  BY <1>3, MovedFields
<1>4. ASSUME NEW g \in Threads, req' = [req EXCEPT ![g] = Idle]
      PROVE  req'[h].now \in {req[h].now, clock, 0}
  BY <1>1, <1>4 DEF TypeOK
<1>5. ASSUME NEW g \in Threads, NEW k \in Keys, RevokeKey(g, k)
      PROVE  req'[h].now \in {req[h].now, clock, 0}
  <2>1. PICK keys : req' = [Watched(keys, profile) EXCEPT ![g] = Idle]
    BY <1>5 DEF RevokeKey
  <2> QED
    BY <1>1, <2>1, WatchedType, WatchedFields
<1>6. ASSUME NEW u \in Users, NEW status, SetProfile(u, status)
      PROVE  req'[h].now \in {req[h].now, clock, 0}
  BY <1>6, WatchedFields DEF SetProfile
<1>7. ASSUME NEW g \in Threads, NEW u \in Users, ApproveUser(g, u)
      PROVE  req'[h].now \in {req[h].now, clock, 0}
  BY <1>7 DEF ApproveUser, TypeOK, Idle
<1>8. ASSUME NEW q \in Processes, Restart(q) PROVE req'[h].now \in {req[h].now, clock, 0}
  BY <1>1, <1>8 DEF Restart
<1>9. ASSUME NEW g \in Threads, LookUp(g) \/ FindActiveKey(g) \/ Store(g) \/ CountKeys(g)
      PROVE  \/ \E at : req' = [req EXCEPT ![g].at = at]
             \/ req' = [req EXCEPT ![g] = Idle]
  BY <1>9 DEF LookUp, FindActiveKey, Store, CountKeys
<1>10. ASSUME NEW g \in Threads, NEW k \in Keys,
              KeyCheckFails(g) \/ Respond(g) \/ CreateKey(g, k)
       PROVE  req' = [req EXCEPT ![g] = Idle]
  BY <1>10 DEF KeyCheckFails, Respond, CreateKey
<1> QED
  BY <1>1, <1>2, <1>3, <1>4, <1>5, <1>6, <1>7, <1>8, <1>9, <1>10
  DEF Next, CheckSteps, KeyRoutes, Tick, vars,
     KeyCheckFails, Respond

LEMMA PastNext == ASSUME TypeOK, PastInv, [Next]_vars PROVE PastInv'
<1> clock \in Nat /\ clock' \in Nat /\ clock <= clock'
  BY KeysAssumption, RowSteps, TypeNext DEF RowsStay, RowsChange, Tick, TypeOK, Time
<1>1. ASSUME NEW k \in Keys PROVE ended'[k] <= clock'
  <2>1. ended[k] \in Nat /\ ended[k] <= clock
    BY KeysAssumption DEF TypeOK, Time, PastInv
  <2> QED
    BY <2>1, RowSteps DEF RowsStay, RowsChange, Tick
<1>2. ASSUME NEW h \in Threads PROVE req'[h].now <= clock'
  <2>1. req[h].now \in Nat /\ req[h].now <= clock
    BY RequestFields, KeysAssumption DEF TypeOK, Time, PastInv
  <2> QED
    BY <2>1, NowSteps
<1> QED
  BY <1>1, <1>2 DEF PastInv

LEMMA CacheNext == ASSUME IInv, [Next]_vars PROVE CacheInv' /\ RevocationTakesEffect'
<1> USE DEF IInv
<1> CacheSeconds \in Nat \ {0}
  BY KeysAssumption
<1>1. ASSUME NEW p \in Processes, NEW k \in Keys
      PROVE  cache'[p][k] <= LastValid(k)' + CacheSeconds
  <2> /\ LastValid(k) \in Nat /\ LastValid(k)' \in Nat /\ LastValid(k) <= LastValid(k)'
    BY LastValidGrows
  <2>1. CASE cache'[p][k] \in {0, cache[p][k]}
    <3>1. cache[p][k] \in Nat /\ cache[p][k] <= LastValid(k) + CacheSeconds
      BY DEF TypeOK, CacheInv
    <3> QED
      BY <2>1, <3>1
  <2>2. ASSUME NEW h \in Threads, req[h].at = "matched", req[h].key = k,
               cache'[p][k] = req[h].now + CacheSeconds
        PROVE  cache'[p][k] <= LastValid(k)' + CacheSeconds
    <3>1. req[h].now \in Nat /\ req[h].now <= LastValid(k)
      BY <2>2, RequestFields, KeysAssumption DEF TypeOK, Time, CacheInv
    <3> QED
      BY <2>2, <3>1
  <2> QED
    BY <2>1, <2>2, CacheSteps
<1>2. ASSUME NEW h \in Threads, req'[h].at \in {"matched", "accepted"},
             NEW k \in Keys, req'[h].key = k
      PROVE  /\ req'[h].at = "matched" => req'[h].now <= LastValid(k)'
             /\ req'[h].at = "accepted" => req'[h].now < LastValid(k)' + CacheSeconds
  <2>1. AnswerStep(h)
    BY AnswerSteps
  <2>2. /\ req[h].at \in Presenting /\ req[h].key = k /\ req'[h].now = req[h].now
    BY <1>2, <2>1 DEF AnswerStep
  <2>3. req[h].now \in Nat /\ req[h].now <= clock /\ clock \in Nat
    BY <2>2, RequestFields, KeysAssumption DEF TypeOK, Time, PastInv
  <2>4. /\ LastValid(k) \in Nat /\ LastValid(k)' \in Nat /\ LastValid(k) <= LastValid(k)'
    BY LastValidGrows
  <2>5. CASE req'[h].at = req[h].at
    <3>1. /\ req[h].at = "matched" => req[h].now <= LastValid(k)
          /\ req[h].at = "accepted" => req[h].now < LastValid(k) + CacheSeconds
      BY <2>2 DEF CacheInv, RevocationTakesEffect
    <3> QED
      BY <2>2, <2>3, <2>4, <2>5, <3>1
  <2>6. CASE req'[h].at = "matched" /\ Valid(k)
    <3>1. LastValid(k) = clock
      BY <2>6 DEF LastValid
    <3> QED
      BY <2>2, <2>3, <2>4, <2>6, <3>1
  <2>7. CASE req'[h].at = "accepted" /\ Cached(h) > req[h].now
    <3>1. /\ Cached(h) \in Nat /\ Cached(h) <= LastValid(k) + CacheSeconds
      BY <2>2, KeysAssumption DEF Cached, CacheInv, TypeOK
    <3>2. req[h].now < LastValid(k)' + CacheSeconds
      BY <2>3, <2>4, <2>7, <3>1
    <3> QED
      BY <2>2, <2>7, <3>2
  <2>8. CASE req'[h].at = "accepted" /\ req[h].at = "matched"
    <3>1. req[h].now <= LastValid(k)
      BY <2>2, <2>8 DEF CacheInv
    <3>2. req[h].now < LastValid(k)' + CacheSeconds
      BY <2>3, <2>4, <3>1
    <3> QED
      BY <2>2, <2>8, <3>2
  <2> QED
    BY <1>2, <2>1, <2>5, <2>6, <2>7, <2>8 DEF AnswerStep
<1>3. \A h \in Threads : req'[h].at \in {"matched", "accepted"} => req'[h].key \in Keys
  BY TypeNext, RequestFields DEF TypeOK, Presenting
<1>4. RevocationTakesEffect' /\ CacheInv'
  BY <1>1, <1>2, <1>3 DEF RevocationTakesEffect, CacheInv
<1> QED
  BY <1>4

\* Revoking a key or suspending its owner takes effect within CacheSeconds:
\* whatever process, cache and overlap of requests served it, an accepted
\* request's key was valid less than CacheSeconds before it took its time.
THEOREM RevocationIsTimely == Spec => []RevocationTakesEffect
<1>1. Init => IInv
  <2>1. Init => TypeOK
    BY TypeInit
  <2>2. Init => PastInv /\ CacheInv /\ RevocationTakesEffect
    BY KeysAssumption DEF Init, PastInv, CacheInv, RevocationTakesEffect, Idle, LastValid, Valid,
       ValidIn, NoKeyRow
  <2> QED
    BY <2>1, <2>2 DEF IInv
<1>2. IInv /\ [Next]_vars => IInv'
  BY TypeNext, PastNext, CacheNext DEF IInv
<1>3. IInv => RevocationTakesEffect
  BY DEF IInv
<1> QED
  BY <1>1, <1>2, <1>3, PTL DEF Spec

-----------------------------------------------------------------------------
(* Keys that are valid all along.                                          *)

\* A request whose key stayed valid since it was presented is not rejected,
\* and its key is valid.
HeldInv ==
    \A h \in Threads :
        req[h].held => req[h].at \in Presenting \ {"rejected"} /\ Valid(req[h].key)

\* Creating a key makes no other key invalid.
LEMMA CreateKeepsValid ==
    ASSUME TypeOK, NEW g \in Threads, NEW k \in Keys, CreateKey(g, k),
           NEW j \in Keys, Valid(j)
    PROVE  Valid(j)'
BY DEF CreateKey, Valid, ValidIn, TypeOK

LEMMA HeldNext == ASSUME TypeOK, HeldInv, [Next]_vars PROVE HeldInv'
<1> SUFFICES ASSUME NEW h \in Threads, req'[h].held
             PROVE  req'[h].at \in Presenting \ {"rejected"} /\ Valid(req[h].key)'
  BY DEF HeldInv
<1> DEFINE Kept == req'[h].at \in Presenting \ {"rejected"} /\ Valid(req[h].key)'
<1> USE DEF HeldInv
<1>0. /\ req[h] \in Request
      /\ req[h].at \in Presenting => req[h].key \in Keys
  BY RequestFields DEF TypeOK
<1>1. ASSUME req'[h] = req[h], UNCHANGED <<key, profile>> PROVE Kept
  BY <1>1 DEF Valid
<1>2. req'[h] # Idle
  BY DEF Idle
<1>3. ASSUME NEW g \in Threads, NEW k \in Keys, Present(g, k) PROVE Kept
  <2>1. UNCHANGED <<key, profile>>
    BY <1>3 DEF Present
  <2>2. CASE g = h
    BY <1>3, <2>1, <2>2 DEF Present, TypeOK, Presenting, Valid
  <2>3. CASE g # h
    BY <1>1, <1>3, <2>1, <2>3 DEF Present, TypeOK
  <2> QED
    BY <2>2, <2>3
<1>4. ASSUME NEW g \in Threads, NEW at \in Presenting, req' = [req EXCEPT ![g].at = at],
             UNCHANGED <<key, profile>>,
             at = "rejected" => ~Valid(req[g].key)
      PROVE  Kept
  <2>1. CASE g = h
    BY <1>4, <2>1, MovedFields DEF Valid
  <2>2. CASE g # h
    BY <1>1, <1>4, <2>2, MovedFields
  <2> QED
    BY <2>1, <2>2
<1>5. ASSUME NEW g \in Threads, LookUp(g) PROVE Kept
  <2>1. /\ UNCHANGED <<key, profile>>
        /\ \/ req' = [req EXCEPT ![g].at = "accepted"]
           \/ req' = [req EXCEPT ![g].at = "querying"]
    BY <1>5 DEF LookUp
  <2> QED
    BY <1>4, <2>1 DEF Presenting
<1>6. ASSUME NEW g \in Threads, FindActiveKey(g) PROVE Kept
  <2>1. CASE Valid(req[g].key)
    <3>1. req' = [req EXCEPT ![g].at = "matched"] /\ UNCHANGED <<key, profile>>
      BY <1>6, <2>1 DEF FindActiveKey
    <3> QED
      BY <1>4, <3>1 DEF Presenting
  <2>2. CASE ~Valid(req[g].key)
    <3>1. req' = [req EXCEPT ![g].at = "rejected"] /\ UNCHANGED <<key, profile>>
      BY <1>6, <2>2 DEF FindActiveKey
    <3> QED
      BY <1>4, <2>2, <3>1 DEF Presenting
  <2> QED
    BY <2>1, <2>2
<1>7. ASSUME NEW g \in Threads, Store(g) PROVE Kept
  <2>1. req' = [req EXCEPT ![g].at = "accepted"] /\ UNCHANGED <<key, profile>>
    BY <1>7 DEF Store
  <2> QED
    BY <1>4, <2>1 DEF Presenting
<1>8. ASSUME NEW g \in Threads, req' = [req EXCEPT ![g] = Idle], UNCHANGED <<key, profile>>
      PROVE  Kept
  BY <1>1, <1>2, <1>8 DEF TypeOK
<1>9. ASSUME NEW g \in Threads, KeyCheckFails(g) \/ Respond(g) PROVE Kept
  BY <1>8, <1>9 DEF KeyCheckFails, Respond
<1>10. ASSUME NEW g \in Threads, NEW u \in Users, ApproveUser(g, u) PROVE Kept
  <2>1. g # h
    BY <1>10 DEF ApproveUser, TypeOK, Idle
  <2> QED
    BY <1>1, <1>10, <2>1 DEF ApproveUser, TypeOK
<1>11. ASSUME NEW g \in Threads, CountKeys(g) PROVE Kept
  <2>1. req[g].at = "approved" /\ UNCHANGED <<key, profile>>
    BY <1>11 DEF CountKeys
  <2>2. CASE req' = [req EXCEPT ![g] = Idle]
    BY <1>8, <2>1, <2>2
  <2>3. CASE req' = [req EXCEPT ![g].at = "creating"]
    <3>1. g # h
      BY <2>1, <2>3, MovedFields DEF Presenting
    <3> QED
      BY <1>1, <2>1, <2>3, <3>1, MovedFields
  <2> QED
    BY <1>11, <2>2, <2>3 DEF CountKeys
<1>12. ASSUME NEW g \in Threads, NEW k \in Keys, CreateKey(g, k) PROVE Kept
  <2>1. g # h /\ req'[h] = req[h]
    BY <1>2, <1>12 DEF CreateKey, TypeOK
  <2> QED
    BY <1>0, <1>12, <2>1, CreateKeepsValid
<1>13. ASSUME NEW keys, NEW profiles, req'[h] = Watched(keys, profiles)[h],
              key' = keys, profile' = profiles
       PROVE  Kept
  <2>1. ValidIn(req[h].key, keys, profiles) /\ req[h].held
    <3>1. Watched(keys, profiles)[h].held =
            (req[h].held /\ req[h].key # None /\ ValidIn(req[h].key, keys, profiles))
      BY WatchedFields
    <3>2. Watched(keys, profiles)[h].held
      BY <1>13
    <3> QED
      BY <3>1, <3>2, Zenon
  <2>2. req'[h].at = req[h].at /\ req'[h].key = req[h].key
    BY <1>13, WatchedFields
  <2> QED
    BY <1>13, <2>1, <2>2 DEF Valid
<1>14. ASSUME NEW g \in Threads, NEW k \in Keys, RevokeKey(g, k) PROVE Kept
  <2>1. req' = [Watched(key', profile) EXCEPT ![g] = Idle] /\ profile' = profile
    BY <1>14 DEF RevokeKey
  <2>2. g # h
    BY <1>2, <2>1, WatchedType
  <2>3. req'[h] = Watched(key', profile)[h]
    BY <2>1, <2>2, WatchedType
  <2> QED
    BY <1>13, <2>1, <2>3
<1>15. ASSUME NEW u \in Users, NEW status, SetProfile(u, status) PROVE Kept
  BY <1>13, <1>15 DEF SetProfile
<1>16. ASSUME NEW p \in Processes, Restart(p) PROVE Kept
  BY <1>1, <1>2, <1>16 DEF Restart
<1>17. CASE Tick \/ UNCHANGED vars
  BY <1>1, <1>17 DEF Tick, vars
<1> QED
  BY <1>3, <1>5, <1>6, <1>7, <1>9, <1>10, <1>11, <1>12, <1>14, <1>15, <1>16, <1>17
  DEF Next, CheckSteps, KeyRoutes

\* auth.py, "a brand-new key works at once": no request is rejected whose key
\* was valid from the moment it was presented, whatever the caches hold and
\* whichever keys are created and revoked beside it.
THEOREM ValidKeysPass == Spec => []ValidKeysAreNotRejected
<1>1. Init => TypeOK /\ HeldInv
  BY TypeInit DEF Init, HeldInv, Idle
<1>2. TypeOK /\ HeldInv /\ [Next]_vars => TypeOK' /\ HeldInv'
  BY TypeNext, HeldNext
<1>3. HeldInv => ValidKeysAreNotRejected
  BY DEF HeldInv, ValidKeysAreNotRejected
<1> QED
  BY <1>1, <1>2, <1>3, PTL DEF Spec

-----------------------------------------------------------------------------
(* The cap on the keys of a user.                                          *)

\* The requests that passed the count and will insert a key of the user.
Creating(u) == {h \in Threads : req[h].at = "creating" /\ req[h].user = u}

\* A request that passed the count is a key in advance: since it passed below
\* the cap, the sum exceeds the cap by less than the requests that run at once.
CapInv ==
    \A u \in Users :
        /\ IsFiniteSet(ActiveKeys(u))
        /\ Cardinality(ActiveKeys(u)) + Cardinality(Creating(u))
             < MaxActiveKeys + Cardinality(Threads)

LEMMA CreatingFinite ==
    ASSUME NEW u
    PROVE  /\ IsFiniteSet(Creating(u)) /\ Cardinality(Creating(u)) \in Nat
           /\ Cardinality(Creating(u)) <= Cardinality(Threads)
           /\ Cardinality(Threads) \in Nat
<1>1. Creating(u) \in SUBSET Threads /\ IsFiniteSet(Threads)
  BY KeysAssumption DEF Creating
<1>2. IsFiniteSet(Creating(u)) /\ Cardinality(Creating(u)) <= Cardinality(Threads)
  BY <1>1, FS_Subset
<1> QED
  BY <1>1, <1>2, FS_CardinalityType

\* What a step may do to the keys of a user and to the requests creating one:
\* no more of either, a count below the cap, or a request become its key.
NoMore(u) == ActiveKeys(u)' \subseteq ActiveKeys(u) /\ Creating(u)' \subseteq Creating(u)
Counted(u) == ActiveKeys(u)' = ActiveKeys(u) /\ Cardinality(ActiveKeys(u)) < MaxActiveKeys
Created(u) ==
    \E h \in Creating(u), k \in Keys \ ActiveKeys(u) :
        /\ ActiveKeys(u)' = ActiveKeys(u) \cup {k}
        /\ Creating(u)' = Creating(u) \ {h}

LEMMA CapSteps ==
    ASSUME TypeOK, CapInv, [Next]_vars, NEW u \in Users
    PROVE  NoMore(u) \/ Counted(u) \/ Created(u)
<1>1. ASSUME key' = key,
             \A h \in Threads : req'[h].at = "creating" =>
                 req[h].at = "creating" /\ req'[h].user = req[h].user
      PROVE  NoMore(u)
  BY <1>1 DEF NoMore, ActiveKeys, Creating
<1>2. ASSUME key' = key, NEW g \in Threads, NEW new, req' = [req EXCEPT ![g] = new],
             new.at # "creating"
      PROVE  NoMore(u)
  BY <1>1, <1>2 DEF TypeOK
<1>3. ASSUME key' = key, NEW g \in Threads, NEW at \in Presenting,
             req' = [req EXCEPT ![g].at = at]
      PROVE  NoMore(u)
  BY <1>1, <1>3, MovedFields DEF Presenting
<1>4. ASSUME NEW g \in Threads, NEW k \in Keys, Present(g, k) PROVE NoMore(u)
  <2> DEFINE new == [at |-> "looking", key |-> k, user |-> None, now |-> clock, held |-> Valid(k)]
  <2>1. key' = key /\ req' = [req EXCEPT ![g] = new] /\ new.at # "creating"
    BY <1>4 DEF Present
  <2> HIDE DEF new
  <2> QED
    BY <1>2, <2>1
<1>5. ASSUME NEW g \in Threads, LookUp(g) \/ FindActiveKey(g) \/ Store(g) PROVE NoMore(u)
  <2>1. /\ key' = key
        /\ \E at \in Presenting : req' = [req EXCEPT ![g].at = at]
    BY <1>5 DEF LookUp, FindActiveKey, Store, Presenting
  <2> QED
    BY <1>3, <2>1
<1>6. ASSUME NEW g \in Threads, KeyCheckFails(g) \/ Respond(g) PROVE NoMore(u)
  BY <1>2, <1>6 DEF KeyCheckFails, Respond, Idle
<1>7. ASSUME NEW g \in Threads, NEW v \in Users, ApproveUser(g, v) PROVE NoMore(u)
  <2> DEFINE new == [Idle EXCEPT !.at = "approved", !.user = v]
  <2>1. key' = key /\ req' = [req EXCEPT ![g] = new] /\ new.at # "creating"
    BY <1>7 DEF ApproveUser, Idle
  <2> HIDE DEF new
  <2> QED
    BY <1>2, <2>1
<1>8. ASSUME NEW g \in Threads, CountKeys(g) PROVE NoMore(u) \/ Counted(u)
  <2>1. key' = key /\ req[g].at = "approved"
    BY <1>8 DEF CountKeys
  <2>2. CASE req' = [req EXCEPT ![g] = Idle]
    <3>1. Idle.at # "creating"
      BY DEF Idle
    <3> QED
      BY <1>2, <2>1, <2>2, <3>1
  <2>3. CASE req' # [req EXCEPT ![g] = Idle] /\ req[g].user = u
    <3>1. ~(Cardinality(ActiveKeys(u)) >= MaxActiveKeys)
      BY <1>8, <2>3 DEF CountKeys
    <3>2. Cardinality(ActiveKeys(u)) \in Nat /\ MaxActiveKeys \in Nat
      BY FS_CardinalityType, KeysAssumption DEF CapInv
    <3> QED
      BY <2>1, <3>1, <3>2 DEF Counted, ActiveKeys
  <2>4. CASE req' # [req EXCEPT ![g] = Idle] /\ req[g].user # u
    <3>1. req' = [req EXCEPT ![g].at = "creating"]
      BY <1>8, <2>4 DEF CountKeys
    <3>2. /\ req'[g].user = req[g].user
          /\ \A h \in Threads : h # g => req'[h] = req[h]
      BY <3>1, MovedFields
    <3>3. Creating(u)' \subseteq Creating(u)
      BY <2>4, <3>2 DEF Creating
    <3> QED
      BY <2>1, <3>3 DEF NoMore, ActiveKeys
  <2> QED
    BY <2>2, <2>3, <2>4
<1>9. ASSUME NEW g \in Threads, NEW k \in Keys, CreateKey(g, k) PROVE NoMore(u) \/ Created(u)
  <2>1. /\ req[g].at = "creating" /\ key[k].state = "unborn"
        /\ key'[k].user = req[g].user /\ key'[k].state = "active"
        /\ \A j \in Keys \ {k} : key'[j] = key[j]
        /\ req'[g].at = "idle" /\ \A h \in Threads \ {g} : req'[h] = req[h]
    BY <1>9 DEF CreateKey, TypeOK, Idle
  <2>2. k \notin ActiveKeys(u) /\ Creating(u)' = Creating(u) \ {g}
    BY <2>1 DEF ActiveKeys, Creating
  <2>3. CASE req[g].user = u
    <3>1. ActiveKeys(u)' = ActiveKeys(u) \cup {k}
      BY <2>1, <2>3 DEF ActiveKeys
    <3>2. g \in Creating(u)
      BY <2>1, <2>3 DEF Creating
    <3> QED
      BY <2>2, <3>1, <3>2 DEF Created
  <2>4. CASE req[g].user # u
    <3>1. ActiveKeys(u)' = ActiveKeys(u)
      BY <2>1, <2>2, <2>4 DEF ActiveKeys
    <3> QED
      BY <2>2, <3>1 DEF NoMore
  <2> QED
    BY <2>3, <2>4
<1>10. ASSUME NEW keys, NEW profiles, NEW g \in Threads,
              req' = [Watched(keys, profiles) EXCEPT ![g] = Idle] \/ req' = Watched(keys, profiles)
       PROVE  Creating(u)' \subseteq Creating(u)
  <2>1. ASSUME NEW h \in Threads, req'[h].at = "creating"
        PROVE  req[h].at = "creating" /\ req'[h].user = req[h].user
    <3>1. req'[h] = Idle \/ req'[h] = Watched(keys, profiles)[h]
      BY <1>10, WatchedType
    <3>2. req'[h] # Idle
      BY <2>1 DEF Idle
    <3> QED
      BY <2>1, <3>1, <3>2, WatchedFields
  <2> QED
    BY <2>1 DEF Creating
<1>11. ASSUME NEW g \in Threads, NEW k \in Keys, RevokeKey(g, k) PROVE NoMore(u)
  <2>1. /\ req' = [Watched(key', profile) EXCEPT ![g] = Idle]
        /\ key' = key \/ key' = [key EXCEPT ![k].state = "revoked"]
    BY <1>11 DEF RevokeKey
  <2>2. [key[k] EXCEPT !.state = "revoked"].state = "revoked"
    BY DEF TypeOK, KeyRow, NoKeyRow
  <2>3. \A j \in Keys : key'[j] = key[j] \/ key'[j].state = "revoked"
    BY <2>1, <2>2 DEF TypeOK
  <2>4. ActiveKeys(u)' \subseteq ActiveKeys(u)
    BY <2>3 DEF ActiveKeys
  <2> QED
    BY <1>10, <2>1, <2>4 DEF NoMore
<1>12. ASSUME NEW v \in Users, NEW status, SetProfile(v, status) PROVE NoMore(u)
  <2>1. key' = key /\ req' = Watched(key, profile')
    BY <1>12 DEF SetProfile
  <2> QED
    BY <1>10, <2>1, KeysAssumption DEF NoMore, ActiveKeys
<1>13. ASSUME NEW p \in Processes, Restart(p) PROVE NoMore(u)
  BY <1>1, <1>13 DEF Restart, Idle
<1>14. CASE Tick \/ UNCHANGED vars
  BY <1>1, <1>14 DEF Tick, vars
<1> QED
  BY <1>4, <1>5, <1>6, <1>7, <1>8, <1>9, <1>11, <1>12, <1>13, <1>14
  DEF Next, CheckSteps, KeyRoutes

LEMMA CapNext == ASSUME TypeOK, CapInv, [Next]_vars PROVE CapInv'
<1> SUFFICES ASSUME NEW u \in Users
             PROVE  /\ IsFiniteSet(ActiveKeys(u)')
                    /\ Cardinality(ActiveKeys(u)') + Cardinality(Creating(u)')
                         < MaxActiveKeys + Cardinality(Threads)
  BY DEF CapInv
<1> DEFINE active == ActiveKeys(u)
           creating == Creating(u)
<1>1. /\ IsFiniteSet(active) /\ Cardinality(active) \in Nat /\ MaxActiveKeys \in Nat
      /\ Cardinality(active) + Cardinality(creating) < MaxActiveKeys + Cardinality(Threads)
  BY FS_CardinalityType, KeysAssumption DEF CapInv
<1>2. /\ IsFiniteSet(creating) /\ Cardinality(creating) \in Nat
      /\ Cardinality(Threads) \in Nat
  BY CreatingFinite
<1>3. /\ IsFiniteSet(creating') /\ Cardinality(creating') \in Nat
      /\ Cardinality(creating') <= Cardinality(Threads)
  <2>1. creating' \in SUBSET Threads /\ IsFiniteSet(Threads)
    BY KeysAssumption DEF Creating
  <2> HIDE DEF creating
  <2> QED
    BY <2>1, FS_Subset, FS_CardinalityType
<1>4. CASE NoMore(u)
  <2>1. /\ IsFiniteSet(active') /\ Cardinality(active') <= Cardinality(active)
        /\ Cardinality(creating') <= Cardinality(creating)
    BY <1>1, <1>2, <1>4, FS_Subset DEF NoMore
  <2>2. Cardinality(active') \in Nat
    BY <2>1, FS_CardinalityType
  <2> HIDE DEF active, creating
  <2>3. Cardinality(active') + Cardinality(creating') < MaxActiveKeys + Cardinality(Threads)
    BY <1>1, <1>2, <1>3, <2>1, <2>2
  <2> QED
    BY <2>1, <2>3 DEF active, creating
<1>5. CASE Counted(u)
  <2>1. active' = active /\ Cardinality(active) < MaxActiveKeys
    BY <1>5 DEF Counted
  <2> HIDE DEF active, creating
  <2>2. Cardinality(active') + Cardinality(creating') < MaxActiveKeys + Cardinality(Threads)
    BY <1>1, <1>2, <1>3, <2>1
  <2> QED
    BY <1>1, <2>1, <2>2 DEF active, creating
<1>6. CASE Created(u)
  <2>1. PICK h \in creating, k \in Keys \ active :
            active' = active \cup {k} /\ creating' = creating \ {h}
    BY <1>6 DEF Created
  <2> HIDE DEF active, creating
  <2>2. IsFiniteSet(active') /\ Cardinality(active') = Cardinality(active) + 1
    BY <1>1, <2>1, FS_AddElement
  <2>3. Cardinality(creating') = Cardinality(creating) - 1
    BY <1>2, <2>1, FS_RemoveElement
  <2>4. Cardinality(active') + Cardinality(creating') < MaxActiveKeys + Cardinality(Threads)
    BY <1>1, <1>2, <2>2, <2>3
  <2> QED
    BY <2>2, <2>4 DEF active, creating
<1> QED
  BY <1>4, <1>5, <1>6, CapSteps

\* create_key's count and its insert are two statements, so requests that
\* overlap may all pass the count: a user's active keys exceed the cap by less
\* than the requests that run at once, however keys are revoked meanwhile.
THEOREM CapIsExceededByOverlapOnly == Spec => []CapHoldsUpToOverlap
<1>1. Init => TypeOK /\ CapInv
  <2> SUFFICES ASSUME Init PROVE TypeOK /\ CapInv
    OBVIOUS
  <2>1. \A u \in Users : ActiveKeys(u) = {} /\ Creating(u) = {}
    BY DEF Init, ActiveKeys, Creating, NoKeyRow, Idle
  <2>2. Cardinality(Threads) \in Nat /\ Cardinality(Threads) # 0
    BY KeysAssumption, FS_CardinalityType, FS_EmptySet
  <2> QED
    BY <2>1, <2>2, TypeInit, FS_EmptySet, KeysAssumption DEF CapInv
<1>2. TypeOK /\ CapInv /\ [Next]_vars => TypeOK' /\ CapInv'
  BY TypeNext, CapNext
<1>3. CapInv => CapHoldsUpToOverlap
  <2> SUFFICES ASSUME CapInv, NEW u \in Users
               PROVE  Cardinality(ActiveKeys(u)) < MaxActiveKeys + Cardinality(Threads)
    BY DEF CapHoldsUpToOverlap
  <2>1. Cardinality(ActiveKeys(u)) \in Nat /\ Cardinality(Creating(u)) \in Nat
    BY FS_CardinalityType, CreatingFinite DEF CapInv
  <2>2. Cardinality(Threads) \in Nat /\ MaxActiveKeys \in Nat
    BY CreatingFinite, KeysAssumption
  <2> QED
    BY <2>1, <2>2 DEF CapInv
<1> QED
  BY <1>1, <1>2, <1>3, PTL DEF Spec
=============================================================================
