---------------------------- MODULE DeliveryProofs ----------------------------
(***************************************************************************)
(* Proofs about Delivery, for any number of tasks, workers, artifacts and  *)
(* overlapping requests, any retentions and any bound on the clock.        *)
(***************************************************************************)
EXTENDS Delivery, TLAPS

AnyKind == {"remote", "local", "candidate"}

TaskRow ==
    [status : {"none", "swept", "queued", "claimed", "done", "failed"},
     by : Workers \cup {None}, kind : AnyKind, result : Artifacts \cup {None},
     expires : Nat, retention : Nat]

WorkerRow ==
    [at : {"idle", "resolving", "downloading", "writing", "rendering", "uploading",
           "completing", "failing"},
     task : Tasks \cup {None}, kind : AnyKind, req : Requests \cup {None},
     artifact : Artifacts \cup {None}]

Path == Suffixes \cup {".png", ".webp", ".jpg"}

Request ==
    [at : {"idle", "upload", "insert", "uploaded", "delete", "deleted"},
     id : Artifacts \cup {None}, suffix : Suffixes \cup {None},
     paths : Seq(Path), loaded : BOOLEAN]

TypeInv ==
    /\ now \in Nat
    /\ task \in [Tasks -> TaskRow]
    /\ producer \in [Tasks -> {"new", "waiting", "timed out", "done", "failed", "swept"}]
    /\ worker \in [Workers -> WorkerRow]
    /\ expires \in [Artifacts -> Nat]

StoreType ==
    /\ row \in [Artifacts -> Suffixes \cup {None}]
    /\ object \in [Artifacts -> SUBSET Suffixes]
    /\ id \in [Artifacts -> {"unused", "taken", "known"}]
    /\ req \in [Requests -> Request]
    /\ doomed \subseteq Artifacts
    /\ \A r \in Requests :
         /\ req[r].at # "idle" => req[r].id \in Artifacts
         /\ req[r].at \in {"upload", "insert", "uploaded"} => req[r].suffix \in Suffixes

Uploading(r) == req[r].at \in {"upload", "insert"}

\* An upload has its id alone until it is answered; only then are there deletes.
IdInv ==
    /\ \A a \in doomed : id[a] = "known"
    /\ \A r \in Requests :
         /\ Uploading(r) => id[req[r].id] = "taken"
         /\ req[r].at = "uploaded" => id[req[r].id] = "known"
         /\ req[r].at \in {"delete", "deleted"} => req[r].id \in doomed
    /\ \A r, q \in Requests : Uploading(r) /\ Uploading(q) /\ req[r].id = req[q].id => r = q

\* A row follows its object.
ObjectInv ==
    /\ \A r \in Requests : req[r].at = "insert" => req[r].suffix \in object[req[r].id]
    /\ Store!ListedHasObject

StoreInv == StoreType /\ IdInv /\ ObjectInv

\* The cached file is the whole image whenever it is there.
HeroInv == hero \in {"absent", "whole"} /\ HeroIsWhole

-----------------------------------------------------------------------------
Submitted(t) == task[t].expires - task[t].retention

\* The artifact is kept at least ArtifactRetention from the time of the task.
Outlives(a, t) == id[a] = "known" /\ Submitted(t) + ArtifactRetention <= expires[a]

\* A task is submitted once, and claimed afterwards.
Order ==
    /\ \A t \in Tasks :
         /\ 0 <= Submitted(t) /\ Submitted(t) <= now
         /\ producer[t] = "new" <=> task[t].status = "none"
    /\ \A w \in Workers :
         worker[w].at # "idle" =>
             worker[w].task \in Tasks /\ producer[worker[w].task] # "new"

\* A worker waits for an upload of its own, as long as there is one.
Waits ==
    /\ \A w \in Workers :
         IF worker[w].at = "uploading"
         THEN /\ worker[w].req \in Requests
              /\ req[worker[w].req].at \in {"upload", "insert", "uploaded"}
         ELSE worker[w].req = None
    /\ \A w, v \in Workers : worker[w].req = worker[v].req /\ worker[w].req # None => w = v

\* What an upload gave, a worker reports, or a task has, was stored after the
\* task was submitted.
Results ==
    /\ \A w \in Workers :
         /\ worker[w].at = "uploading" /\ req[worker[w].req].at = "uploaded" =>
              Outlives(req[worker[w].req].id, worker[w].task)
         /\ worker[w].at = "completing" =>
              worker[w].artifact \in Artifacts /\ Outlives(worker[w].artifact, worker[w].task)
    /\ \A t \in Tasks :
         task[t].status = "done" => task[t].result \in Artifacts /\ Outlives(task[t].result, t)

\* An artifact that clients know has its row until it expires or is deleted.
Kept ==
    \A a \in Artifacts : id[a] = "known" /\ a \notin doomed => row[a] # None \/ expires[a] < now

IInv == TypeInv /\ StoreInv /\ HeroInv /\ Order /\ Waits /\ Results /\ Kept
-----------------------------------------------------------------------------
(* The requests of the store.                                              *)

LEMMA NoneIsNothing ==
    None \notin Artifacts /\ None \notin Suffixes /\ None \notin Tasks /\ None \notin Requests
BY DeliveryAssumption

LEMMA NoRequestType ==
    Store!NoRequest \in Request /\ Store!NoRequest.at = "idle"
<1>1. <<>> \in Seq(Path)
  OBVIOUS
<1> QED
  BY <1>1 DEF Store!NoRequest, Request

\* A request that becomes another one of the right shape keeps the types.
LEMMA RequestMoves ==
    ASSUME StoreType, NEW r \in Requests, NEW new \in Request, req' = [req EXCEPT ![r] = new],
           new.at # "idle" => new.id \in Artifacts,
           new.at \in {"upload", "insert", "uploaded"} => new.suffix \in Suffixes,
           row' \in [Artifacts -> Suffixes \cup {None}],
           object' \in [Artifacts -> SUBSET Suffixes],
           id' \in [Artifacts -> {"unused", "taken", "known"}],
           doomed' \subseteq Artifacts
    PROVE  /\ StoreType'
           /\ req'[r] = new
           /\ \A q \in Requests \ {r} : req'[q] = req[q]
<1>1. /\ req' \in [Requests -> Request] /\ req'[r] = new
      /\ \A q \in Requests \ {r} : req'[q] = req[q]
  BY DEF StoreType
<1> QED
  BY <1>1 DEF StoreType

LEMMA BeginUploadKeeps ==
    ASSUME StoreInv, NEW r \in Requests, NEW a \in Artifacts, NEW suffix \in Suffixes,
           Store!BeginUpload(r, a, suffix)
    PROVE  /\ StoreInv'
           /\ req'[r].at = "upload"
           /\ \A q \in Requests \ {r} : req'[q] = req[q]
<1> DEFINE new == [Store!NoRequest EXCEPT !.at = "upload", !.id = a, !.suffix = suffix]
<1>1. new \in Request /\ new.at = "upload" /\ new.id = a /\ new.suffix = suffix
  BY NoRequestType DEF Request
<1>2. /\ req' = [req EXCEPT ![r] = new] /\ id[a] = "unused"
      /\ id' = [id EXCEPT ![a] = "taken"]
      /\ UNCHANGED <<row, object, doomed>>
  BY DEF Store!BeginUpload, Store!hist
<1> HIDE DEF new
<1>3. id' \in [Artifacts -> {"unused", "taken", "known"}]
  BY <1>2 DEF StoreInv, StoreType
<1>4. StoreType' /\ req'[r] = new /\ \A q \in Requests \ {r} : req'[q] = req[q]
  BY <1>1, <1>2, <1>3, RequestMoves DEF StoreInv, StoreType
<1>5. \A q \in Requests : Uploading(q) => req[q].id # a
  BY <1>2 DEF StoreInv, StoreType, IdInv
<1>6. IdInv'
  <2>1. \A b \in doomed' : id'[b] = "known"
    BY <1>2 DEF StoreInv, StoreType, IdInv
  <2>2. ASSUME NEW q \in Requests
        PROVE  /\ Uploading(q)' => id'[req'[q].id] = "taken"
               /\ req'[q].at = "uploaded" => id'[req'[q].id] = "known"
               /\ req'[q].at \in {"delete", "deleted"} => req'[q].id \in doomed'
    BY <1>1, <1>2, <1>4, <1>5 DEF StoreInv, StoreType, IdInv, Uploading
  <2>3. ASSUME NEW q \in Requests, NEW p \in Requests, Uploading(q)', Uploading(p)',
               req'[q].id = req'[p].id
        PROVE  q = p
    BY <1>1, <1>4, <1>5, <2>3 DEF StoreInv, IdInv, Uploading
  <2> QED
    BY <2>1, <2>2, <2>3 DEF IdInv, Uploading
<1>7. ObjectInv'
  BY <1>1, <1>2, <1>4 DEF StoreInv, ObjectInv, Store!ListedHasObject
<1> QED
  BY <1>1, <1>4, <1>6, <1>7 DEF StoreInv

LEMMA UploadObjectKeeps ==
    ASSUME StoreInv, NEW r \in Requests, Store!UploadObject(r)
    PROVE  /\ StoreInv'
           /\ req'[r] = [req[r] EXCEPT !.at = "insert"]
           /\ \A q \in Requests \ {r} : req'[q] = req[q]
<1> DEFINE new == [req[r] EXCEPT !.at = "insert"]
<1>1. /\ req[r] \in Request /\ req[r].at = "upload"
      /\ req[r].id \in Artifacts /\ req[r].suffix \in Suffixes
  BY DEF StoreInv, StoreType, Store!UploadObject
<1>2. new \in Request /\ new.at = "insert" /\ new.id = req[r].id /\ new.suffix = req[r].suffix
  BY <1>1 DEF Request
<1>3. /\ req' = [req EXCEPT ![r] = new]
      /\ object' = [object EXCEPT ![req[r].id] = @ \cup {req[r].suffix}]
      /\ UNCHANGED <<row, id, doomed>>
  BY DEF Store!UploadObject, Store!Goto, Store!hist
<1>4. /\ object' \in [Artifacts -> SUBSET Suffixes]
      /\ \A a \in Artifacts : object[a] \subseteq object'[a]
      /\ req[r].suffix \in object'[req[r].id]
  BY <1>1, <1>3 DEF StoreInv, StoreType
<1>5. StoreType' /\ req'[r] = new /\ \A q \in Requests \ {r} : req'[q] = req[q]
  <2> HIDE DEF new
  <2> QED
    BY <1>1, <1>2, <1>3, <1>4, RequestMoves DEF StoreInv, StoreType
<1> HIDE DEF new
<1>6. IdInv'
  BY <1>1, <1>2, <1>3, <1>5 DEF StoreInv, IdInv, Uploading
<1>7. ObjectInv'
  <2>1. ASSUME NEW q \in Requests, req'[q].at = "insert"
        PROVE  req'[q].suffix \in object'[req'[q].id]
    BY <1>2, <1>4, <1>5, <2>1 DEF StoreInv, StoreType, ObjectInv
  <2>2. Store!ListedHasObject'
    BY <1>3, <1>4 DEF StoreInv, ObjectInv, Store!ListedHasObject
  <2> QED
    BY <2>1, <2>2 DEF ObjectInv
<1> QED
  BY <1>5, <1>6, <1>7 DEF StoreInv, new

LEMMA InsertRowKeeps ==
    ASSUME StoreInv, NEW r \in Requests, Store!InsertRow(r)
    PROVE  /\ StoreInv'
           /\ req[r].id \in Artifacts /\ req[r].suffix \in Suffixes
           /\ req'[r] = [req[r] EXCEPT !.at = "uploaded"]
           /\ \A q \in Requests \ {r} : req'[q] = req[q]
           /\ row' = [row EXCEPT ![req[r].id] = req[r].suffix]
           /\ id' = [id EXCEPT ![req[r].id] = "known"]
           /\ doomed' = doomed
<1> DEFINE new == [req[r] EXCEPT !.at = "uploaded"]
<1>1. /\ req[r] \in Request /\ req[r].at = "insert"
      /\ req[r].id \in Artifacts /\ req[r].suffix \in Suffixes
  BY DEF StoreInv, StoreType, Store!InsertRow
<1>2. new \in Request /\ new.at = "uploaded" /\ new.id = req[r].id /\ new.suffix = req[r].suffix
  BY <1>1 DEF Request
<1>3. /\ req' = [req EXCEPT ![r] = new]
      /\ row' = [row EXCEPT ![req[r].id] = req[r].suffix]
      /\ id' = [id EXCEPT ![req[r].id] = "known"]
      /\ UNCHANGED <<object, doomed>>
  BY DEF Store!InsertRow, Store!Goto, Store!hist
<1>4. /\ row' \in [Artifacts -> Suffixes \cup {None}]
      /\ id' \in [Artifacts -> {"unused", "taken", "known"}]
  BY <1>1, <1>3 DEF StoreInv, StoreType
<1>5. StoreType' /\ req'[r] = new /\ \A q \in Requests \ {r} : req'[q] = req[q]
  <2> HIDE DEF new
  <2> QED
    BY <1>1, <1>2, <1>3, <1>4, RequestMoves DEF StoreInv, StoreType
<1> HIDE DEF new
<1>6. IdInv'
  <2>1. \A b \in doomed' : id'[b] = "known"
    BY <1>3 DEF StoreInv, StoreType, IdInv
  <2>2. \A q \in Requests \ {r} : Uploading(q) => req[q].id # req[r].id
    BY <1>1 DEF StoreInv, IdInv, Uploading
  <2>3. ASSUME NEW q \in Requests
        PROVE  /\ Uploading(q)' => id'[req'[q].id] = "taken"
               /\ req'[q].at = "uploaded" => id'[req'[q].id] = "known"
               /\ req'[q].at \in {"delete", "deleted"} => req'[q].id \in doomed'
    BY <1>1, <1>2, <1>3, <1>5, <2>2 DEF StoreInv, StoreType, IdInv, Uploading
  <2>4. \A q \in Requests : Uploading(q)' => q # r /\ Uploading(q)
    BY <1>2, <1>5 DEF Uploading
  <2> QED
    BY <1>5, <2>1, <2>3, <2>4 DEF StoreInv, IdInv, Uploading
<1>7. ObjectInv'
  <2>1. ASSUME NEW q \in Requests, req'[q].at = "insert"
        PROVE  req'[q].suffix \in object'[req'[q].id]
    BY <1>2, <1>3, <1>5, <2>1 DEF StoreInv, ObjectInv
  <2>2. Store!ListedHasObject'
    BY <1>1, <1>3 DEF StoreInv, StoreType, ObjectInv, Store!ListedHasObject
  <2> QED
    BY <2>1, <2>2 DEF ObjectInv
<1> QED
  BY <1>1, <1>3, <1>5, <1>6, <1>7 DEF StoreInv, new

LEMMA PathsOfType ==
    ASSUME NEW suffix \in Suffixes \cup {None}
    PROVE  Store!PathsOf(suffix) \in Seq(Path)
<1>1. Store!KnownSuffixes \in Seq(Path)
  BY DEF Store!KnownSuffixes, Path
<1>2. CASE suffix = None
  BY <1>1, <1>2 DEF Store!PathsOf
<1>3. CASE suffix # None
  <2>1. suffix \in Path
    BY <1>3 DEF Path
  <2>2. Append(Store!KnownSuffixes, suffix) \in Seq(Path)
    BY <1>1, <2>1
  <2> QED
    BY <1>1, <2>2 DEF Store!PathsOf
<1> QED
  BY <1>2, <1>3

LEMMA BeginDeleteKeeps ==
    ASSUME StoreInv, NEW r \in Requests, NEW a \in Artifacts, Store!BeginDelete(r, a)
    PROVE  /\ StoreInv'
           /\ req[r].at = "idle" /\ req'[r].at = "delete"
           /\ \A q \in Requests \ {r} : req'[q] = req[q]
<1> DEFINE new == [at |-> "delete", id |-> a, suffix |-> None,
                   paths |-> Store!PathsOf(row[a]), loaded |-> row[a] # None]
<1>1. row[a] \in Suffixes \cup {None}
  BY DEF StoreInv, StoreType
<1>2. new \in Request /\ new.at = "delete" /\ new.id = a
  BY <1>1, PathsOfType DEF Request
<1>3. /\ req' = [req EXCEPT ![r] = new] /\ id[a] = "known" /\ req[r].at = "idle"
      /\ doomed' = doomed \cup {a}
      /\ UNCHANGED <<row, object, id>>
  BY DEF Store!BeginDelete
<1> HIDE DEF new
<1>4. doomed' \subseteq Artifacts
  BY <1>3 DEF StoreInv, StoreType
<1>5. StoreType' /\ req'[r] = new /\ \A q \in Requests \ {r} : req'[q] = req[q]
  BY <1>2, <1>3, <1>4, RequestMoves DEF StoreInv, StoreType
<1>6. IdInv'
  BY <1>2, <1>3, <1>5 DEF StoreInv, IdInv, Uploading
<1>7. ObjectInv'
  BY <1>2, <1>3, <1>5 DEF StoreInv, ObjectInv, Store!ListedHasObject
<1> QED
  BY <1>2, <1>3, <1>5, <1>6, <1>7 DEF StoreInv

LEMMA DeleteObjectKeeps ==
    ASSUME StoreInv, NEW r \in Requests, Store!DeleteObject(r)
    PROVE  /\ StoreInv'
           /\ req[r].at = "delete" /\ req'[r].at = "delete"
           /\ \A q \in Requests \ {r} : req'[q] = req[q]
<1> DEFINE new == [req[r] EXCEPT !.paths = Tail(@)]
<1>1. req[r] \in Request /\ req[r].at = "delete" /\ req[r].paths # <<>>
  BY DEF StoreInv, StoreType, Store!DeleteObject
<1>2. Tail(req[r].paths) \in Seq(Path)
  BY <1>1 DEF Request
<1>3. new \in Request /\ new.at = "delete" /\ new.id = req[r].id
  BY <1>1, <1>2 DEF Request
<1>4. req[r].id \in Artifacts /\ req[r].id \in doomed
  BY <1>1 DEF StoreInv, StoreType, IdInv
<1>5. /\ req' = [req EXCEPT ![r] = new]
      /\ object' = [object EXCEPT ![req[r].id] = @ \ {Head(req[r].paths)}]
      /\ UNCHANGED <<row, id, doomed>>
  BY DEF Store!DeleteObject, Store!hist
<1> HIDE DEF new
<1>6. /\ object' \in [Artifacts -> SUBSET Suffixes]
      /\ \A a \in Artifacts : a # req[r].id => object'[a] = object[a]
  BY <1>4, <1>5 DEF StoreInv, StoreType
<1>7. StoreType' /\ req'[r] = new /\ \A q \in Requests \ {r} : req'[q] = req[q]
  BY <1>3, <1>4, <1>5, <1>6, RequestMoves DEF StoreInv, StoreType
<1>8. IdInv'
  BY <1>1, <1>3, <1>5, <1>7 DEF StoreInv, IdInv, Uploading
<1>9. ObjectInv'
  <2>1. ASSUME NEW q \in Requests, req'[q].at = "insert"
        PROVE  req'[q].suffix \in object'[req'[q].id]
    <3>1. q # r /\ req[q].at = "insert" /\ req'[q] = req[q]
      BY <1>3, <1>7, <2>1
    <3>2. req[q].id \in Artifacts /\ id[req[q].id] = "taken" /\ id[req[r].id] = "known"
      BY <1>4, <3>1 DEF StoreInv, StoreType, IdInv, Uploading
    <3> QED
      BY <1>6, <3>1, <3>2 DEF StoreInv, ObjectInv
  <2>2. Store!ListedHasObject'
    BY <1>4, <1>5, <1>6 DEF StoreInv, ObjectInv, Store!ListedHasObject
  <2> QED
    BY <2>1, <2>2 DEF ObjectInv
<1> QED
  BY <1>1, <1>3, <1>7, <1>8, <1>9 DEF StoreInv

LEMMA DeleteRowKeeps ==
    ASSUME StoreInv, NEW r \in Requests, Store!DeleteRow(r)
    PROVE  /\ StoreInv'
           /\ req[r].at = "delete" /\ req'[r].at = "deleted"
           /\ \A q \in Requests \ {r} : req'[q] = req[q]
           /\ \A a \in Artifacts : row'[a] # row[a] => a \in doomed
<1> DEFINE new == [req[r] EXCEPT !.at = "deleted"]
<1>1. req[r] \in Request /\ req[r].at = "delete"
  BY DEF StoreInv, StoreType, Store!DeleteRow
<1>2. new \in Request /\ new.at = "deleted" /\ new.id = req[r].id
  BY <1>1 DEF Request
<1>3. req[r].id \in Artifacts /\ req[r].id \in doomed
  BY <1>1 DEF StoreInv, StoreType, IdInv
<1>4. /\ req' = [req EXCEPT ![r] = new]
      /\ row' = IF req[r].loaded THEN [row EXCEPT ![req[r].id] = None] ELSE row
      /\ UNCHANGED <<object, id, doomed>>
  BY DEF Store!DeleteRow, Store!Goto, Store!hist
<1> HIDE DEF new
<1>5. /\ row' \in [Artifacts -> Suffixes \cup {None}]
      /\ \A a \in Artifacts : row'[a] # row[a] => a \in doomed
  BY <1>3, <1>4 DEF StoreInv, StoreType
<1>6. StoreType' /\ req'[r] = new /\ \A q \in Requests \ {r} : req'[q] = req[q]
  BY <1>2, <1>3, <1>4, <1>5, RequestMoves DEF StoreInv, StoreType
<1>7. IdInv'
  BY <1>2, <1>3, <1>4, <1>6 DEF StoreInv, IdInv, Uploading
<1>8. ObjectInv'
  BY <1>2, <1>4, <1>5, <1>6 DEF StoreInv, ObjectInv, Store!ListedHasObject
<1> QED
  BY <1>1, <1>2, <1>5, <1>6, <1>7, <1>8 DEF StoreInv

LEMMA RespondKeeps ==
    ASSUME StoreInv, NEW r \in Requests, Store!Respond(r)
    PROVE  /\ StoreInv'
           /\ req'[r].at = "idle"
           /\ \A q \in Requests \ {r} : req'[q] = req[q]
<1>1. req' = [req EXCEPT ![r] = Store!NoRequest] /\ UNCHANGED <<row, object, id, doomed>>
  BY DEF Store!Respond, Store!hist
<1>2. StoreType' /\ req'[r] = Store!NoRequest /\ \A q \in Requests \ {r} : req'[q] = req[q]
  BY <1>1, NoRequestType, RequestMoves DEF StoreInv, StoreType
<1>3. IdInv'
  BY <1>1, <1>2, NoRequestType DEF StoreInv, IdInv, Uploading
<1>4. ObjectInv'
  BY <1>1, <1>2, NoRequestType DEF StoreInv, ObjectInv, Store!ListedHasObject
<1> QED
  BY <1>2, <1>3, <1>4, NoRequestType DEF StoreInv

LEMMA FailKeeps ==
    ASSUME StoreInv, NEW r \in Requests, Store!Fail(r)
    PROVE  /\ StoreInv'
           /\ req[r].at \in {"upload", "insert", "delete"} /\ req'[r].at = "idle"
           /\ \A q \in Requests \ {r} : req'[q] = req[q]
           /\ id' = id /\ doomed' = doomed
           /\ req[r].id \in Artifacts
           /\ \A a \in Artifacts \ {req[r].id} : row'[a] = row[a]
           /\ req[r].id \in doomed \/ id[req[r].id] = "taken"
<1>1. /\ req' = [req EXCEPT ![r] = Store!NoRequest] /\ UNCHANGED <<id, doomed>>
      /\ req[r].at \in {"upload", "insert", "delete"}
  BY DEF Store!Fail, Store!hist
<1> DEFINE a == req[r].id
<1>2. /\ req[r] \in Request /\ a \in Artifacts
      /\ Uploading(r) => req[r].suffix \in Suffixes
      /\ a \in doomed \/ id[a] = "taken"
  BY <1>1 DEF StoreInv, StoreType, IdInv, Uploading
<1>3. \/ UNCHANGED <<row, object>>
      \/ /\ Uploading(r) /\ object' = [object EXCEPT ![a] = @ \cup {req[r].suffix}]
         /\ row' = row
      \/ /\ req[r].at = "insert" /\ row' = [row EXCEPT ![a] = req[r].suffix]
         /\ object' = object
      \/ /\ req[r].at = "delete" /\ object' = [object EXCEPT ![a] = @ \ {Head(req[r].paths)}]
         /\ row' = row
      \/ /\ req[r].at = "delete" /\ row' = [row EXCEPT ![a] = None]
         /\ object' = object
  BY DEF Store!Fail, Uploading
<1> HIDE DEF a
<1>4. /\ row' \in [Artifacts -> Suffixes \cup {None}]
      /\ object' \in [Artifacts -> SUBSET Suffixes]
  BY <1>2, <1>3 DEF StoreInv, StoreType, Uploading
<1>5. \A b \in Artifacts \ {a} : row'[b] = row[b] /\ object'[b] = object[b]
  BY <1>2, <1>3 DEF StoreInv, StoreType
<1>6. StoreType' /\ req'[r] = Store!NoRequest /\ \A q \in Requests \ {r} : req'[q] = req[q]
  BY <1>1, <1>4, NoRequestType, RequestMoves DEF StoreInv, StoreType
<1>7. IdInv'
  BY <1>1, <1>6, NoRequestType DEF StoreInv, IdInv, Uploading
<1>8. ObjectInv'
  <2>1. ASSUME NEW q \in Requests, req'[q].at = "insert"
        PROVE  req'[q].suffix \in object'[req'[q].id]
    <3>1. q # r /\ req'[q] = req[q] /\ req[q].at = "insert"
      BY <1>6, <2>1, NoRequestType
    <3>2. req[q].id \in Artifacts /\ req[q].id # a
      BY <1>1, <3>1 DEF StoreInv, StoreType, IdInv, Uploading, a
    <3> QED
      BY <1>5, <3>1, <3>2 DEF StoreInv, ObjectInv
  <2>2. ASSUME NEW b \in Artifacts, row'[b] # None, b \notin doomed
        PROVE  row'[b] \in object'[b]
    <3>1. CASE b # a
      BY <1>5, <2>2, <3>1 DEF StoreInv, ObjectInv, Store!ListedHasObject
    <3>2. CASE b = a
      <4>1. req[r].at # "delete" /\ Uploading(r)
        BY <1>1, <2>2, <3>2 DEF StoreInv, IdInv, Uploading, a
      <4>2. req[r].at = "insert" => req[r].suffix \in object[a]
        BY DEF StoreInv, ObjectInv, a
      <4>3. row[a] # None => row[a] \in object[a]
        BY <1>2, <2>2, <3>2 DEF StoreInv, ObjectInv, Store!ListedHasObject
      <4> QED
        BY <1>2, <1>3, <2>2, <3>2, <4>1, <4>2, <4>3 DEF StoreInv, StoreType
    <3> QED
      BY <3>1, <3>2
  <2> QED
    BY <1>1, <2>1, <2>2 DEF ObjectInv, Store!ListedHasObject
<1> QED
  BY <1>1, <1>2, <1>5, <1>6, <1>7, <1>8, NoRequestType DEF StoreInv, a

LEMMA CleanupKeeps ==
    ASSUME StoreInv, NEW a \in Artifacts, Store!CleanupArtifacts(a)
    PROVE  StoreInv' /\ \A b \in Artifacts \ {a} : row'[b] = row[b]
<1>1. row' = [row EXCEPT ![a] = None] /\ UNCHANGED <<object, id, req, doomed>>
  BY DEF Store!CleanupArtifacts
<1>2. /\ row' \in [Artifacts -> Suffixes \cup {None}]
      /\ row'[a] = None /\ \A b \in Artifacts \ {a} : row'[b] = row[b]
  BY <1>1 DEF StoreInv, StoreType
<1>3. StoreType' /\ IdInv'
  BY <1>1, <1>2 DEF StoreInv, StoreType, IdInv, Uploading
<1>4. ObjectInv'
  BY <1>1, <1>2 DEF StoreInv, ObjectInv, Store!ListedHasObject
<1> QED
  BY <1>2, <1>3, <1>4 DEF StoreInv

LEMMA StoreStays ==
    ASSUME StoreInv, UNCHANGED storeVars
    PROVE  StoreInv'
<1>1. UNCHANGED <<row, object, id, req, doomed>>
  BY DEF storeVars
<1>2. StoreType' /\ IdInv' /\ ObjectInv'
  BY <1>1 DEF StoreInv, StoreType, IdInv, Uploading, ObjectInv, Store!ListedHasObject
<1> QED
  BY <1>2 DEF StoreInv

-----------------------------------------------------------------------------
(* The workers.                                                            *)

\* What is known of an artifact stays, while its expiry is set to later.
LEMMA OutlivesStays ==
    ASSUME IInv, NEW a \in Artifacts, NEW t \in Tasks, Outlives(a, t),
           id'[a] = "known", expires'[a] \in {expires[a], now + ArtifactRetention},
           Submitted(t)' \in {0, Submitted(t)}
    PROVE  Outlives(a, t)'
<1>1. /\ Submitted(t) \in Int /\ now \in Int /\ ArtifactRetention \in Int
      /\ expires[a] \in Int
  <2>0. task[t] \in TaskRow /\ now \in Nat /\ expires[a] \in Nat
    BY DEF IInv, TypeInv
  <2>1. task[t].expires \in Int /\ task[t].retention \in Int
    BY <2>0 DEF TaskRow
  <2>2. now \in Int /\ ArtifactRetention \in Int /\ expires[a] \in Int
    BY <2>0, DeliveryAssumption
  <2> QED
    BY <2>1, <2>2 DEF Submitted
<1>2. 0 <= Submitted(t) /\ Submitted(t) <= now
  BY DEF IInv, Order
<1> DEFINE s == Submitted(t)
           z == Submitted(t)'
<1>3. s + ArtifactRetention <= expires[a] /\ s \in Int /\ 0 <= s /\ s <= now /\ z \in {0, s}
  BY <1>1, <1>2 DEF Outlives
<1> HIDE DEF s, z
<1>4. z + ArtifactRetention <= expires'[a]
  BY <1>1, <1>3
<1> QED
  BY <1>4 DEF Outlives, z

\* A worker that does not wait for an upload, nor has one to report.  What
\* becomes of tasks leaves their clocks alone.
LEMMA WorkerMoves ==
    ASSUME IInv, UNCHANGED <<now, producer, expires, storeVars>>,
           NEW w \in Workers, NEW new \in WorkerRow, worker' = [worker EXCEPT ![w] = new],
           new.at \notin {"uploading", "completing"}, new.req = None,
           new.at # "idle" => new.task \in Tasks /\ producer[new.task] # "new",
           hero' \in {"absent", "whole"}, hero = "whole" => hero' = "whole",
           new.at = "rendering" /\ new.kind = "remote" => hero' = "whole",
           task' \in [Tasks -> TaskRow],
           \A t \in Tasks :
             /\ Submitted(t)' = Submitted(t)
             /\ task[t].status = "none" <=> task'[t].status = "none"
             /\ task'[t].status = "done" =>
                  \/ task[t].status = "done" /\ task'[t].result = task[t].result
                  \/ task'[t].result \in Artifacts /\ Outlives(task'[t].result, t)
    PROVE  IInv'
<1>1. /\ worker' \in [Workers -> WorkerRow] /\ worker'[w] = new
      /\ \A v \in Workers \ {w} : worker'[v] = worker[v]
  BY DEF IInv, TypeInv
<1>2. UNCHANGED <<row, object, id, req, doomed>> /\ now' = now /\ expires' = expires
  BY DEF storeVars
<1>3. TypeInv' /\ StoreInv'
  BY <1>1, StoreStays DEF IInv, TypeInv
<1>4. HeroInv'
  BY <1>1 DEF IInv, HeroInv, HeroIsWhole
<1>5. Order'
  BY <1>1, <1>2 DEF IInv, Order
<1>6. Waits'
  BY <1>1, <1>2 DEF IInv, Waits
<1>7. \A t \in Tasks, a \in Artifacts : Outlives(a, t) => Outlives(a, t)'
  BY <1>2 DEF Outlives
<1>8. Results'
  <2>1. ASSUME NEW v \in Workers, worker'[v].at = "uploading", req'[worker'[v].req].at = "uploaded"
        PROVE  Outlives(req[worker[v].req].id, worker[v].task)'
    <3>1. worker'[v] = worker[v] /\ worker[v].at = "uploading" /\ worker[v].req \in Requests
      BY <1>1, <2>1 DEF IInv, Waits
    <3>2. /\ req[worker[v].req].id \in Artifacts /\ worker[v].task \in Tasks
          /\ Outlives(req[worker[v].req].id, worker[v].task)
      BY <1>2, <2>1, <3>1 DEF IInv, Results, StoreInv, StoreType, Order
    <3> QED
      BY <1>2, <1>7, <3>1, <3>2 DEF Outlives, Submitted
  <2>2. ASSUME NEW v \in Workers, worker'[v].at = "completing"
        PROVE  worker'[v].artifact \in Artifacts /\ Outlives(worker[v].artifact, worker[v].task)'
    <3>1. worker'[v] = worker[v] /\ worker[v].at = "completing" /\ worker[v].task \in Tasks
      BY <1>1, <2>2 DEF IInv, Order
    <3>2. worker[v].artifact \in Artifacts /\ Outlives(worker[v].artifact, worker[v].task)
      BY <3>1 DEF IInv, Results
    <3> QED
      BY <1>2, <1>7, <3>1, <3>2 DEF Outlives, Submitted
  <2>3. ASSUME NEW t \in Tasks, task'[t].status = "done"
        PROVE  task'[t].result \in Artifacts /\ Outlives(task[t].result, t)'
    <3>1. task'[t].result \in Artifacts /\ Outlives(task'[t].result, t)
      BY <2>3 DEF IInv, Results
    <3> QED
      BY <1>2, <3>1 DEF Outlives
  <2> QED
    BY <2>1, <2>2, <2>3 DEF Results
<1>9. Kept'
  BY <1>2 DEF IInv, Kept
<1> QED
  BY <1>3, <1>4, <1>5, <1>6, <1>8, <1>9 DEF IInv

LEMMA IdleType == Idle \in WorkerRow /\ Idle.at = "idle" /\ Idle.req = None
BY DEF Idle, WorkerRow, AnyKind

\* Steps that turn to the next part of the work, and only touch the cache.
LEMMA StepKeeps ==
    ASSUME IInv, NEW w \in Workers, NEW from, NEW to, Goto(w, from, to),
           from \in {"resolving", "downloading", "writing", "rendering"},
           to \in {"downloading", "writing", "rendering", "failing"},
           hero' \in {"absent", "whole"}, hero = "whole" => hero' = "whole",
           to = "rendering" /\ worker[w].kind = "remote" => hero' = "whole",
           UNCHANGED <<now, task, producer, expires, storeVars>>
    PROVE  IInv'
<1> DEFINE new == [worker[w] EXCEPT !.at = to]
<1>1. worker[w] \in WorkerRow /\ worker[w].at = from
  BY DEF IInv, TypeInv, Goto
<1>2. /\ new \in WorkerRow /\ new.at = to /\ new.req = worker[w].req
      /\ new.task = worker[w].task /\ new.kind = worker[w].kind
  BY <1>1 DEF WorkerRow
<1>3. worker' = [worker EXCEPT ![w] = new]
  BY DEF Goto
<1>4. worker[w].req = None
  BY <1>1 DEF IInv, Waits
<1>5. worker[w].task \in Tasks /\ producer[worker[w].task] # "new"
  BY <1>1 DEF IInv, Order
<1>6. task' \in [Tasks -> TaskRow]
  BY DEF IInv, TypeInv
<1>7. ASSUME NEW t \in Tasks
      PROVE  /\ Submitted(t)' = Submitted(t) /\ task'[t] = task[t]
  BY DEF Submitted
<1> HIDE DEF new
<1> QED
  BY <1>2, <1>3, <1>4, <1>5, <1>6, <1>7, WorkerMoves

\* The part of a worker's steps that does not touch the store.
LEMMA WorkKeeps ==
    ASSUME IInv, NEW w \in Workers,
           \/ Expired(w) \/ Refused(w) \/ NoHeroNeeded(w) \/ HeroAtHand(w) \/ HeroMissing(w)
           \/ DownloadFails(w) \/ WriteTemporary(w) \/ Replace(w) \/ RenderFails(w)
    PROVE  IInv'
<1>0. hero \in {"absent", "whole"}
  BY DEF IInv, HeroInv
<1>1. CASE Expired(w) \/ Refused(w)
  BY <1>0, <1>1, StepKeeps DEF Expired, Refused, Step
<1>2. CASE NoHeroNeeded(w)
  BY <1>0, <1>2, StepKeeps DEF NoHeroNeeded, Step
<1>3. CASE HeroAtHand(w)
  BY <1>0, <1>3, StepKeeps DEF HeroAtHand, Step
<1>4. CASE HeroMissing(w)
  BY <1>0, <1>4, StepKeeps DEF HeroMissing, Step
<1>5. CASE DownloadFails(w)
  BY <1>0, <1>5, StepKeeps DEF DownloadFails, Step
<1>6. CASE WriteTemporary(w)
  BY <1>0, <1>6, StepKeeps DEF WriteTemporary, Step
<1>7. CASE Replace(w)
  BY <1>0, <1>7, StepKeeps DEF Replace
<1>8. CASE RenderFails(w)
  BY <1>0, <1>8, StepKeeps DEF RenderFails, Step
<1> QED
  BY <1>1, <1>2, <1>3, <1>4, <1>5, <1>6, <1>7, <1>8

\* A task whose row was rewritten keeps its clocks.
LEMMA Rewritten ==
    ASSUME TypeInv, NEW t \in Tasks, NEW new \in TaskRow, task' = [task EXCEPT ![t] = new],
           new.expires = task[t].expires, new.retention = task[t].retention
    PROVE  /\ task' \in [Tasks -> TaskRow]
           /\ task'[t] = new
           /\ \A u \in Tasks \ {t} : task'[u] = task[u]
           /\ \A u \in Tasks : Submitted(u)' = Submitted(u)
<1>1. /\ task' \in [Tasks -> TaskRow] /\ task'[t] = new
      /\ \A u \in Tasks \ {t} : task'[u] = task[u]
  BY DEF TypeInv
<1> QED
  BY <1>1 DEF Submitted

LEMMA ClaimKeeps ==
    ASSUME IInv, NEW w \in Workers, NEW t \in Tasks, Claim(w, t)
    PROVE  IInv'
<1> DEFINE new == [Idle EXCEPT !.at = "resolving", !.task = t, !.kind = task[t].kind]
<1>1. task[t] \in TaskRow /\ task[t].status \in {"queued", "claimed"}
  BY DEF IInv, TypeInv, Claim, Unfinished
<1>2. new \in WorkerRow /\ new.at = "resolving" /\ new.task = t /\ new.req = None
  BY <1>1 DEF Idle, WorkerRow, TaskRow
<1>3. /\ worker' = [worker EXCEPT ![w] = new]
      /\ UNCHANGED <<now, producer, hero, expires, storeVars>>
  BY DEF Claim
<1> DEFINE claimed == [task[t] EXCEPT !.status = "claimed", !.by = w]
<1>4. /\ claimed \in TaskRow /\ claimed.status = "claimed"
      /\ claimed.expires = task[t].expires /\ claimed.retention = task[t].retention
  BY <1>1 DEF TaskRow
<1>5. task' = [task EXCEPT ![t] = claimed]
  BY DEF Claim, IInv, TypeInv
<1> HIDE DEF claimed
<1>6. /\ task' \in [Tasks -> TaskRow]
      /\ task'[t].status = "claimed"
      /\ \A u \in Tasks \ {t} : task'[u] = task[u]
      /\ \A u \in Tasks : Submitted(u)' = Submitted(u)
  BY <1>4, <1>5, Rewritten DEF IInv
<1>7. producer[t] # "new"
  BY <1>1 DEF IInv, Order
<1>8. hero \in {"absent", "whole"}
  BY DEF IInv, HeroInv
<1> HIDE DEF new
<1>9. \A u \in Tasks :
        /\ task[u].status = "none" <=> task'[u].status = "none"
        /\ task'[u].status = "done" => task[u].status = "done" /\ task'[u].result = task[u].result
  BY <1>1, <1>6
<1> QED
  BY <1>2, <1>3, <1>6, <1>7, <1>8, <1>9, WorkerMoves

\* A report that is served ends the task with what the worker has of its own.
LEMMA ReportKeeps ==
    ASSUME IInv, NEW w \in Workers, Complete(w) \/ Fail(w)
    PROVE  IInv'
<1>1. /\ worker' = [worker EXCEPT ![w] = Idle]
      /\ UNCHANGED <<now, producer, hero, expires, storeVars>>
      /\ hero \in {"absent", "whole"}
  BY DEF Complete, Fail, Report, IInv, HeroInv
<1>2. CASE task' = task
  <2>1. task' \in [Tasks -> TaskRow] /\ \A t \in Tasks : Submitted(t)' = Submitted(t)
    BY <1>2 DEF IInv, TypeInv, Submitted
  <2> QED
    BY <1>1, <1>2, <2>1, IdleType, WorkerMoves
<1>3. ASSUME Holds(w), NEW s \in {"done", "failed"}, NEW a \in Artifacts \cup {None},
             NEW t \in Tasks, worker[w].task = t,
             task' = [task EXCEPT ![t].status = s, ![t].result = a],
             s = "done" => a \in Artifacts /\ Outlives(a, t)
      PROVE  IInv'
  <2>1. task[t] \in TaskRow /\ task[t].status = "claimed" /\ task[t].by = w
    BY <1>3 DEF IInv, TypeInv, Holds
  <2> DEFINE new == [task[t] EXCEPT !.status = s, !.result = a]
  <2>2. /\ new \in TaskRow /\ new.status = s /\ new.result = a
        /\ new.expires = task[t].expires /\ new.retention = task[t].retention
    BY <2>1 DEF TaskRow
  <2>3. task' = [task EXCEPT ![t] = new]
    BY <1>3 DEF IInv, TypeInv
  <2> HIDE DEF new
  <2>4. /\ task' \in [Tasks -> TaskRow]
        /\ task'[t].status = s /\ task'[t].result = a
        /\ \A u \in Tasks \ {t} : task'[u] = task[u]
        /\ \A u \in Tasks : Submitted(u)' = Submitted(u)
    BY <2>2, <2>3, Rewritten DEF IInv
  <2>5. \A u \in Tasks :
          /\ task[u].status = "none" <=> task'[u].status = "none"
          /\ task'[u].status = "done" =>
               \/ task[u].status = "done" /\ task'[u].result = task[u].result
               \/ task'[u].result \in Artifacts /\ Outlives(task'[u].result, u)
    BY <1>3, <2>1, <2>4
  <2> QED
    BY <1>1, <2>4, <2>5, IdleType, WorkerMoves
<1>4. CASE Complete(w)
  <2>1. /\ worker[w].task \in Tasks /\ worker[w].artifact \in Artifacts
        /\ Outlives(worker[w].artifact, worker[w].task)
    BY <1>4 DEF Complete, IInv, Order, Results
  <2> QED
    BY <1>2, <1>3, <1>4, <2>1 DEF Complete, Report
<1>5. CASE Fail(w)
  <2>1. worker[w].task \in Tasks
    BY <1>5 DEF Fail, IInv, Order
  <2> QED
    BY <1>2, <1>3, <1>5, <2>1 DEF Fail, Report
<1> QED
  BY <1>4, <1>5

\* The upload goes on without the worker.
LEMMA GiveUpKeeps ==
    ASSUME IInv, NEW w \in Workers, UploadTimesOut(w) \/ Crash(w)
    PROVE  IInv'
<1>1. /\ UNCHANGED <<now, task, producer, hero, expires, storeVars>>
      /\ hero \in {"absent", "whole"}
  BY DEF UploadTimesOut, Crash, IInv, HeroInv
<1>2. task' \in [Tasks -> TaskRow] /\ \A t \in Tasks : Submitted(t)' = Submitted(t)
  BY <1>1 DEF IInv, TypeInv, Submitted
<1>3. CASE Crash(w)
  <2>1. worker' = [worker EXCEPT ![w] = Idle]
    BY <1>3 DEF Crash
  <2> QED
    BY <1>1, <1>2, <2>1, IdleType, WorkerMoves
<1>4. CASE UploadTimesOut(w)
  <2> DEFINE new == [worker[w] EXCEPT !.at = "failing", !.req = None]
  <2>1. worker[w] \in WorkerRow /\ worker[w].at = "uploading"
    BY <1>4 DEF UploadTimesOut, IInv, TypeInv
  <2>2. /\ new \in WorkerRow /\ new.at = "failing" /\ new.req = None
        /\ new.task = worker[w].task
    BY <2>1 DEF WorkerRow
  <2>3. worker' = [worker EXCEPT ![w] = new]
    BY <1>4 DEF UploadTimesOut, IInv, TypeInv
  <2>4. worker[w].task \in Tasks /\ producer[worker[w].task] # "new"
    BY <2>1 DEF IInv, Order
  <2> HIDE DEF new
  <2> QED
    BY <1>1, <1>2, <2>2, <2>3, <2>4, WorkerMoves
<1> QED
  BY <1>3, <1>4

-----------------------------------------------------------------------------
(* The requests to the store, and who waits for them.                      *)

\* The store moves and workers with it: what they got is as old as their tasks.
LEMMA StoreMoves ==
    ASSUME IInv, StoreInv', Waits', Kept', UNCHANGED <<now, task, producer, hero>>,
           worker' \in [Workers -> WorkerRow], expires' \in [Artifacts -> Nat],
           \A a \in Artifacts : /\ expires'[a] \in {expires[a], now + ArtifactRetention}
                                /\ id[a] = "known" => id'[a] = "known",
           \A v \in Workers :
             /\ worker'[v].task = worker[v].task /\ worker'[v].kind = worker[v].kind
             /\ worker[v].at = "idle" => worker'[v].at = "idle"
             /\ worker'[v].at = "rendering" => worker[v].at = "rendering"
             /\ worker'[v].at = "completing" =>
                  \/ worker[v].at = "completing" /\ worker'[v].artifact = worker[v].artifact
                  \/ /\ worker'[v].artifact \in Artifacts
                     /\ Outlives(worker'[v].artifact, worker[v].task)
             /\ worker'[v].at = "uploading" /\ req'[worker'[v].req].at = "uploaded" =>
                  Outlives(req[worker[v].req].id, worker[v].task)'
    PROVE  IInv'
<1>1. TypeInv' /\ HeroInv' /\ Order'
  <2>1. TypeInv' /\ HeroInv'
    BY DEF IInv, TypeInv, HeroInv, HeroIsWhole
  <2>2. \A t \in Tasks : Submitted(t)' = Submitted(t)
    BY DEF Submitted
  <2> QED
    BY <2>1, <2>2 DEF IInv, Order
<1>2. \A t \in Tasks, a \in Artifacts : Outlives(a, t) => Outlives(a, t)'
  <2>1. \A t \in Tasks : Submitted(t)' = Submitted(t)
    BY DEF Submitted
  <2> QED
    BY <2>1, OutlivesStays DEF Outlives
<1>3. Results'
  <2>1. ASSUME NEW v \in Workers, worker'[v].at = "completing"
        PROVE  worker'[v].artifact \in Artifacts /\ Outlives(worker[v].artifact, worker[v].task)'
    <3>1. worker[v].task \in Tasks
      BY <2>1 DEF IInv, Order
    <3>2. worker'[v].artifact \in Artifacts /\ Outlives(worker'[v].artifact, worker[v].task)
      BY <2>1 DEF IInv, Results
    <3>3. /\ id'[worker'[v].artifact] = "known"
          /\ Submitted(worker[v].task) + ArtifactRetention <= expires'[worker'[v].artifact]
          /\ Submitted(worker[v].task)' = Submitted(worker[v].task)
      BY <1>2, <3>1, <3>2 DEF Outlives, Submitted
    <3> QED
      BY <3>2, <3>3 DEF Outlives
  <2>2. ASSUME NEW t \in Tasks, task'[t].status = "done"
        PROVE  task'[t].result \in Artifacts /\ Outlives(task[t].result, t)'
    <3>1. task[t].result \in Artifacts /\ Outlives(task[t].result, t) /\ task' = task
      BY <2>2 DEF IInv, Results
    <3> QED
      BY <1>2, <3>1 DEF Outlives
  <2> QED
    BY <2>1, <2>2 DEF Results
<1> QED
  BY <1>1, <1>3 DEF IInv

\* An artifact that is stored now outlives every task that was submitted.
LEMMA NewOutlives ==
    ASSUME IInv, task' = task, NEW a \in Artifacts, NEW t \in Tasks,
           id'[a] = "known", expires'[a] = now + ArtifactRetention
    PROVE  Outlives(a, t)'
<1>1. task[t] \in TaskRow /\ now \in Nat /\ ArtifactRetention \in Nat
  BY DeliveryAssumption DEF IInv, TypeInv
<1>2. Submitted(t) \in Int
  BY <1>1 DEF Submitted, TaskRow
<1>3. Submitted(t) <= now /\ Submitted(t)' = Submitted(t)
  BY DEF IInv, Order, Submitted
<1> QED
  BY <1>1, <1>2, <1>3 DEF Outlives

\* A request moves that nobody waits for, or its upload goes on.
LEMMA RequestKeeps ==
    ASSUME IInv, StoreInv', Kept', UNCHANGED <<now, task, producer, worker, hero>>,
           expires' \in [Artifacts -> Nat],
           \A a \in Artifacts : /\ expires'[a] \in {expires[a], now + ArtifactRetention}
                                /\ id[a] = "known" => id'[a] = "known",
           NEW r \in Requests, \A q \in Requests \ {r} : req'[q] = req[q],
           Abandoned(r) \/ req'[r].at \in {"upload", "insert", "uploaded"},
           req'[r].at = "uploaded" => expires'[req'[r].id] = now + ArtifactRetention
    PROVE  IInv'
<1>1. Waits'
  BY DEF IInv, Waits, Abandoned
<1>2. ASSUME NEW v \in Workers, worker'[v].at = "uploading", req'[worker'[v].req].at = "uploaded"
      PROVE  Outlives(req[worker[v].req].id, worker[v].task)'
  <2>1. PICK q \in Requests : worker[v].req = q
    BY <1>2 DEF IInv, Waits
  <2>2. PICK t \in Tasks : worker[v].task = t
    BY <1>2 DEF IInv, Order
  <2>3. req'[q].at = "uploaded" /\ req'[q].id \in Artifacts /\ id'[req'[q].id] = "known"
    BY <1>2, <2>1 DEF StoreInv, StoreType, IdInv
  <2>4. PICK a \in Artifacts : req'[q].id = a
    BY <2>3
  <2>5. Outlives(a, t)'
    <3>1. CASE q = r
      BY <2>3, <2>4, <3>1, NewOutlives
    <3>2. CASE q # r
      <4>1. Outlives(a, t)
        BY <1>2, <2>1, <2>2, <2>4, <3>2 DEF IInv, Results
      <4>2. Submitted(t)' = Submitted(t)
        BY DEF Submitted
      <4> QED
        BY <2>3, <2>4, <4>1, <4>2, OutlivesStays
    <3> QED
      BY <3>1, <3>2
  <2> QED
    BY <2>1, <2>2, <2>4, <2>5 DEF Outlives, Submitted
<1>3. worker' \in [Workers -> WorkerRow]
  BY DEF IInv, TypeInv
<1> QED
  BY <1>1, <1>2, <1>3, StoreMoves

LEMMA DeleteResultKeeps ==
    ASSUME IInv, NEW t \in Tasks, NEW r \in Requests, DeleteResult(t, r)
    PROVE  IInv' /\ task[t].result \in Artifacts
<1>1. task[t].result \in Artifacts
  BY DEF IInv, TypeInv, TaskRow, DeleteResult
<1>2. PICK a \in Artifacts : task[t].result = a
  BY <1>1
<1>3. Store!BeginDelete(r, a) /\ UNCHANGED <<now, task, producer, worker, hero, expires>>
  BY <1>2 DEF DeleteResult
<1>4. /\ StoreInv' /\ req[r].at = "idle" /\ req'[r].at = "delete"
      /\ \A q \in Requests \ {r} : req'[q] = req[q]
  BY <1>3, BeginDeleteKeeps DEF IInv
<1>5. id' = id /\ row' = row /\ doomed' = doomed \cup {a}
  BY <1>3 DEF Store!BeginDelete
<1>6. Kept'
  BY <1>3, <1>5 DEF IInv, Kept
<1>7. Abandoned(r)
  BY <1>4, NoneIsNothing DEF IInv, Waits, Abandoned
<1>8. expires' \in [Artifacts -> Nat]
  BY <1>3 DEF IInv, TypeInv
<1> QED
  BY <1>1, <1>3, <1>4, <1>5, <1>6, <1>7, <1>8, RequestKeeps

LEMMA StoreStepKeeps ==
    ASSUME IInv, NEW r \in Requests, StoreStep(r)
    PROVE  IInv'
<1>1. UNCHANGED <<now, task, producer, worker, hero, expires>> /\ StoreInv
  BY DEF StoreStep, IInv
<1>2. expires' \in [Artifacts -> Nat]
  BY <1>1 DEF IInv, TypeInv
<1>3. CASE Store!UploadObject(r)
  <2>1. /\ StoreInv' /\ req'[r] = [req[r] EXCEPT !.at = "insert"]
        /\ \A q \in Requests \ {r} : req'[q] = req[q]
    BY <1>1, <1>3, UploadObjectKeeps
  <2>2. req'[r].at = "insert"
    BY <2>1 DEF IInv, StoreInv, StoreType, Request
  <2>3. UNCHANGED <<row, id, doomed>>
    BY <1>3 DEF Store!UploadObject, Store!hist
  <2>4. Kept'
    BY <1>1, <2>3 DEF IInv, Kept
  <2> QED
    BY <1>1, <1>2, <2>1, <2>2, <2>3, <2>4, RequestKeeps
<1>4. CASE Store!DeleteObject(r) \/ Store!DeleteRow(r)
  <2>1. /\ StoreInv' /\ req[r].at = "delete" /\ req'[r].at \in {"delete", "deleted"}
        /\ \A q \in Requests \ {r} : req'[q] = req[q]
    BY <1>1, <1>4, DeleteObjectKeeps, DeleteRowKeeps
  <2>2. UNCHANGED <<id, doomed>> /\ \A a \in Artifacts : row'[a] # row[a] => a \in doomed
    BY <1>1, <1>4, DeleteRowKeeps DEF Store!DeleteObject, Store!DeleteRow, Store!hist
  <2>3. Kept'
    BY <1>1, <2>2 DEF IInv, Kept
  <2>4. Abandoned(r)
    BY <2>1, NoneIsNothing DEF IInv, Waits, Abandoned
  <2> QED
    BY <1>1, <1>2, <2>1, <2>2, <2>3, <2>4, RequestKeeps
<1>5. CASE Abandoned(r) /\ Store!Respond(r)
  <2>1. /\ StoreInv' /\ req'[r].at = "idle"
        /\ \A q \in Requests \ {r} : req'[q] = req[q]
    BY <1>1, <1>5, RespondKeeps
  <2>2. UNCHANGED <<row, id, doomed>>
    BY <1>5 DEF Store!Respond, Store!hist
  <2>3. Kept'
    BY <1>1, <2>2 DEF IInv, Kept
  <2> QED
    BY <1>1, <1>2, <1>5, <2>1, <2>2, <2>3, RequestKeeps
<1> QED
  BY <1>3, <1>4, <1>5 DEF StoreStep

LEMMA InsertArtifactKeeps ==
    ASSUME IInv, NEW r \in Requests, InsertArtifact(r)
    PROVE  IInv'
<1>1. /\ Store!InsertRow(r) /\ StoreInv
      /\ expires' = [expires EXCEPT ![req[r].id] = now + ArtifactRetention]
      /\ UNCHANGED <<now, task, producer, worker, hero>>
  BY DEF InsertArtifact, IInv
<1>2. /\ StoreInv'
      /\ req[r].id \in Artifacts /\ req[r].suffix \in Suffixes
      /\ req'[r] = [req[r] EXCEPT !.at = "uploaded"]
      /\ \A q \in Requests \ {r} : req'[q] = req[q]
      /\ row' = [row EXCEPT ![req[r].id] = req[r].suffix]
      /\ id' = [id EXCEPT ![req[r].id] = "known"]
      /\ doomed' = doomed
  BY <1>1, InsertRowKeeps
<1>3. req'[r].at = "uploaded" /\ req'[r].id = req[r].id
  BY <1>2 DEF IInv, StoreInv, StoreType, Request
<1>4. now + ArtifactRetention \in Nat
  <2>1. now \in Nat
    BY DEF IInv, TypeInv
  <2> QED
    BY <2>1, DeliveryAssumption
<1>5. /\ expires' \in [Artifacts -> Nat] /\ expires'[req[r].id] = now + ArtifactRetention
      /\ \A a \in Artifacts : expires'[a] \in {expires[a], now + ArtifactRetention}
      /\ \A a \in Artifacts \ {req[r].id} : expires'[a] = expires[a]
  BY <1>1, <1>2, <1>4 DEF IInv, TypeInv
<1>6. /\ row'[req[r].id] = req[r].suffix
      /\ \A a \in Artifacts \ {req[r].id} : row'[a] = row[a] /\ id'[a] = id[a]
      /\ \A a \in Artifacts : id[a] = "known" => id'[a] = "known"
  BY <1>2 DEF IInv, StoreInv, StoreType
<1>7. Kept'
  BY <1>1, <1>2, <1>5, <1>6, NoneIsNothing DEF IInv, Kept
<1> QED
  BY <1>1, <1>2, <1>3, <1>5, <1>6, <1>7, RequestKeeps

\* Workers that waited for the request that fails turn to failing the task.
LEMMA RequestFailsKeeps ==
    ASSUME IInv, NEW r \in Requests, RequestFails(r)
    PROVE  IInv'
<1>1. /\ Store!Fail(r) /\ StoreInv
      /\ expires' = IF row' = row THEN expires
                    ELSE [expires EXCEPT ![req[r].id] = now + ArtifactRetention]
      /\ worker' = [w \in Workers |->
                      IF worker[w].req = r THEN [worker[w] EXCEPT !.at = "failing", !.req = None]
                      ELSE worker[w]]
      /\ UNCHANGED <<now, task, producer, hero>>
  BY DEF RequestFails, IInv
<1>2. /\ StoreInv' /\ req'[r].at = "idle"
      /\ \A q \in Requests \ {r} : req'[q] = req[q]
      /\ id' = id /\ doomed' = doomed
      /\ req[r].id \in Artifacts
      /\ \A a \in Artifacts \ {req[r].id} : row'[a] = row[a]
      /\ req[r].id \in doomed \/ id[req[r].id] = "taken"
  BY <1>1, FailKeeps
<1>3. now \in Nat /\ ArtifactRetention \in Nat /\ expires \in [Artifacts -> Nat]
  <2>1. now \in Nat /\ expires \in [Artifacts -> Nat]
    BY DEF IInv, TypeInv
  <2> QED
    BY <2>1, DeliveryAssumption
<1>4. /\ expires' \in [Artifacts -> Nat]
      /\ \A a \in Artifacts : expires'[a] \in {expires[a], now + ArtifactRetention}
      /\ \A a \in Artifacts \ {req[r].id} : expires'[a] = expires[a]
  <2>1. now + ArtifactRetention \in Nat
    BY <1>3
  <2>2. CASE row' = row
    BY <1>1, <1>3, <2>2
  <2>3. CASE expires' = [expires EXCEPT ![req[r].id] = now + ArtifactRetention]
    BY <1>3, <2>1, <2>3
  <2> QED
    BY <1>1, <2>2, <2>3
<1>5. Kept'
  BY <1>1, <1>2, <1>4 DEF IInv, Kept
<1>6. ASSUME NEW v \in Workers
      PROVE  /\ worker'[v] \in WorkerRow
             /\ worker[v].req # r => worker'[v] = worker[v]
             /\ worker[v].req = r =>
                  /\ worker[v].at = "uploading" /\ worker'[v].at = "failing"
                  /\ worker'[v].req = None
                  /\ worker'[v].task = worker[v].task /\ worker'[v].kind = worker[v].kind
  <2>1. worker[v] \in WorkerRow
    BY DEF IInv, TypeInv
  <2>2. worker[v].req = r => worker[v].at = "uploading"
    BY NoneIsNothing DEF IInv, Waits
  <2> QED
    BY <1>1, <2>1, <2>2 DEF WorkerRow
<1>7. worker' \in [Workers -> WorkerRow]
  BY <1>1, <1>6
<1>8. Waits'
  BY <1>2, <1>6, NoneIsNothing DEF IInv, Waits
<1>9. ASSUME NEW v \in Workers, worker'[v].at = "uploading", req'[worker'[v].req].at = "uploaded"
      PROVE  Outlives(req[worker[v].req].id, worker[v].task)'
  <2>1. worker'[v] = worker[v] /\ worker[v].req \in Requests \ {r} /\ worker[v].task \in Tasks
    BY <1>6, <1>9 DEF IInv, Waits, Order
  <2>2. PICK q \in Requests \ {r}, t \in Tasks : worker[v].req = q /\ worker[v].task = t
    BY <2>1
  <2>3. req'[q] = req[q] /\ req[q].at = "uploaded"
    BY <1>2, <1>9, <2>1, <2>2
  <2>4. PICK a \in Artifacts : req[q].id = a
    BY <2>3 DEF IInv, StoreInv, StoreType
  <2>5. Outlives(a, t) /\ id'[a] = "known" /\ Submitted(t)' = Submitted(t)
    BY <1>1, <1>2, <1>9, <2>1, <2>2, <2>3, <2>4 DEF IInv, Results, Outlives, Submitted
  <2>6. Outlives(a, t)'
    BY <1>4, <2>5, OutlivesStays
  <2> QED
    BY <2>1, <2>2, <2>3, <2>4, <2>6 DEF Outlives, Submitted
<1>10. \A v \in Workers :
         /\ worker'[v].task = worker[v].task /\ worker'[v].kind = worker[v].kind
         /\ worker[v].at = "idle" => worker'[v].at = "idle"
         /\ worker'[v].at = "rendering" => worker[v].at = "rendering"
         /\ worker'[v].at = "completing" =>
              worker[v].at = "completing" /\ worker'[v].artifact = worker[v].artifact
  BY <1>6
<1> QED
  BY <1>1, <1>2, <1>4, <1>5, <1>7, <1>8, <1>9, <1>10, StoreMoves

\* pg_cron deletes a row of an artifact that has expired.
LEMMA CleanupArtifactKeeps ==
    ASSUME IInv, NEW a \in Artifacts, CleanupArtifact(a)
    PROVE  IInv'
<1>1. /\ Store!CleanupArtifacts(a) /\ StoreInv /\ expires[a] < now
      /\ UNCHANGED <<now, task, producer, worker, hero, expires>>
  BY DEF CleanupArtifact, IInv
<1>2. StoreInv' /\ \A b \in Artifacts \ {a} : row'[b] = row[b]
  BY <1>1, CleanupKeeps
<1>3. UNCHANGED <<id, req, doomed>>
  BY <1>1 DEF Store!CleanupArtifacts
<1>4. Kept' /\ Waits'
  BY <1>1, <1>2, <1>3 DEF IInv, Kept, Waits
<1>5. ASSUME NEW v \in Workers, worker'[v].at = "uploading", req'[worker'[v].req].at = "uploaded"
      PROVE  Outlives(req[worker[v].req].id, worker[v].task)'
  BY <1>1, <1>3, <1>5 DEF IInv, Results, Outlives, Submitted
<1>6. worker' \in [Workers -> WorkerRow] /\ expires' \in [Artifacts -> Nat]
  BY <1>1 DEF IInv, TypeInv
<1> QED
  BY <1>1, <1>2, <1>3, <1>4, <1>5, <1>6, StoreMoves

\* The request is new: no other worker waits for it.
LEMMA UploadKeeps ==
    ASSUME IInv, NEW w \in Workers, NEW r \in Requests, NEW a \in Artifacts,
           BeginUpload(w, r, a)
    PROVE  IInv' /\ Suffix(worker[w].kind) \in Suffixes
<1>1. Suffix(worker[w].kind) \in Suffixes
  BY DeliveryAssumption DEF Suffix
<1>2. PICK suffix \in Suffixes : suffix = Suffix(worker[w].kind)
  BY <1>1
<1>3. /\ Store!BeginUpload(r, a, suffix) /\ StoreInv /\ worker[w].at = "rendering"
      /\ worker' = [worker EXCEPT ![w].at = "uploading", ![w].req = r]
      /\ UNCHANGED <<now, task, producer, hero, expires>>
  BY <1>2 DEF BeginUpload, IInv
<1>4. /\ StoreInv' /\ req'[r].at = "upload"
      /\ \A q \in Requests \ {r} : req'[q] = req[q]
  BY <1>3, BeginUploadKeeps
<1>5. /\ req[r].at = "idle" /\ id[a] = "unused" /\ id' = [id EXCEPT ![a] = "taken"]
      /\ UNCHANGED <<row, doomed>>
  BY <1>3 DEF Store!BeginUpload, Store!hist
<1>6. \A v \in Workers : worker[v].req # r
  BY <1>5, NoneIsNothing DEF IInv, Waits
<1>7. worker[w] \in WorkerRow
  BY DEF IInv, TypeInv
<1>8. /\ worker' \in [Workers -> WorkerRow]
      /\ worker'[w].at = "uploading" /\ worker'[w].req = r
      /\ worker'[w].task = worker[w].task /\ worker'[w].kind = worker[w].kind
      /\ \A v \in Workers \ {w} : worker'[v] = worker[v]
  <2> DEFINE new == [worker[w] EXCEPT !.at = "uploading", !.req = r]
  <2>1. /\ new \in WorkerRow /\ new.at = "uploading" /\ new.req = r
        /\ new.task = worker[w].task /\ new.kind = worker[w].kind
    BY <1>7 DEF WorkerRow
  <2>2. worker' = [worker EXCEPT ![w] = new]
    BY <1>3 DEF IInv, TypeInv
  <2> HIDE DEF new
  <2> QED
    BY <2>1, <2>2 DEF IInv, TypeInv
<1>9. Waits'
  BY <1>4, <1>6, <1>8, NoneIsNothing DEF IInv, Waits
<1>10. \A b \in Artifacts : id[b] = "known" <=> id'[b] = "known"
  BY <1>5 DEF IInv, StoreInv, StoreType
<1>11. Kept'
  BY <1>3, <1>5, <1>10 DEF IInv, Kept
<1>12. ASSUME NEW v \in Workers, worker'[v].at = "uploading", req'[worker'[v].req].at = "uploaded"
       PROVE  Outlives(req[worker[v].req].id, worker[v].task)'
  <2>1. v # w
    BY <1>4, <1>8, <1>12
  <2>2. worker'[v] = worker[v] /\ worker[v].req \in Requests \ {r} /\ worker[v].task \in Tasks
    BY <1>6, <1>8, <1>12, <2>1 DEF IInv, Waits, Order
  <2>3. req'[worker[v].req] = req[worker[v].req]
    BY <1>4, <2>2
  <2>4. /\ req[worker[v].req].id \in Artifacts
        /\ Outlives(req[worker[v].req].id, worker[v].task)
    BY <1>12, <2>2, <2>3 DEF IInv, Results, StoreInv, StoreType
  <2> QED
    BY <1>3, <1>10, <2>2, <2>3, <2>4 DEF Outlives, Submitted
<1>13. expires' \in [Artifacts -> Nat]
  BY <1>3 DEF IInv, TypeInv
<1>14. \A v \in Workers :
         /\ worker'[v].task = worker[v].task /\ worker'[v].kind = worker[v].kind
         /\ worker[v].at = "idle" => worker'[v].at = "idle"
         /\ worker'[v].at = "rendering" => worker[v].at = "rendering"
         /\ worker'[v].at = "completing" =>
              worker[v].at = "completing" /\ worker'[v].artifact = worker[v].artifact
  BY <1>3, <1>8
<1> QED
  BY <1>1, <1>3, <1>4, <1>8, <1>9, <1>10, <1>11, <1>12, <1>13, <1>14, StoreMoves

\* The answer names the artifact of the worker's own upload.
LEMMA UploadedKeeps ==
    ASSUME IInv, NEW w \in Workers, Uploaded(w)
    PROVE  IInv' /\ worker[w].req \in Requests
<1>1. PICK r \in Requests : worker[w].req = r
  BY DEF Uploaded, IInv, Waits
<1>2. /\ Store!Respond(r) /\ StoreInv /\ worker[w].at = "uploading" /\ req[r].at = "uploaded"
      /\ worker' = [worker EXCEPT ![w].at = "completing", ![w].req = None,
                                  ![w].artifact = req[r].id]
      /\ UNCHANGED <<now, task, producer, hero, expires>>
  BY <1>1 DEF Uploaded, IInv
<1>3. /\ StoreInv' /\ \A q \in Requests \ {r} : req'[q] = req[q]
      /\ UNCHANGED <<row, id, doomed>>
  BY <1>2, RespondKeeps DEF Store!Respond, Store!hist
<1>4. PICK a \in Artifacts : req[r].id = a
  BY <1>2 DEF StoreInv, StoreType
<1>5. worker[w].task \in Tasks /\ Outlives(a, worker[w].task)
  BY <1>1, <1>2, <1>4 DEF IInv, Order, Results
<1>6. /\ worker' \in [Workers -> WorkerRow]
      /\ worker'[w].at = "completing" /\ worker'[w].req = None /\ worker'[w].artifact = a
      /\ worker'[w].task = worker[w].task /\ worker'[w].kind = worker[w].kind
      /\ \A v \in Workers \ {w} : worker'[v] = worker[v]
  <2> DEFINE new == [worker[w] EXCEPT !.at = "completing", !.req = None, !.artifact = a]
  <2>1. worker[w] \in WorkerRow
    BY DEF IInv, TypeInv
  <2>2. /\ new \in WorkerRow /\ new.at = "completing" /\ new.req = None /\ new.artifact = a
        /\ new.task = worker[w].task /\ new.kind = worker[w].kind
    BY <2>1 DEF WorkerRow
  <2>3. worker' = [worker EXCEPT ![w] = new]
    BY <1>2, <1>4 DEF IInv, TypeInv
  <2> HIDE DEF new
  <2> QED
    BY <2>2, <2>3 DEF IInv, TypeInv
<1>7. \A v \in Workers \ {w} : worker[v].req # r
  BY <1>1, NoneIsNothing DEF IInv, Waits
<1>8. Waits'
  BY <1>3, <1>6, <1>7, NoneIsNothing DEF IInv, Waits
<1>9. Kept'
  BY <1>2, <1>3 DEF IInv, Kept
<1>10. ASSUME NEW v \in Workers, worker'[v].at = "uploading", req'[worker'[v].req].at = "uploaded"
       PROVE  Outlives(req[worker[v].req].id, worker[v].task)'
  <2>1. /\ worker'[v] = worker[v] /\ worker[v].req \in Requests \ {r}
        /\ worker[v].at = "uploading" /\ worker[v].task \in Tasks
    BY <1>6, <1>7, <1>10 DEF IInv, Waits, Order
  <2>2. req'[worker[v].req] = req[worker[v].req]
    BY <1>3, <2>1
  <2>3. Outlives(req[worker[v].req].id, worker[v].task)
    BY <1>10, <2>1, <2>2 DEF IInv, Results
  <2> QED
    BY <1>2, <1>3, <2>1, <2>2, <2>3 DEF Outlives, Submitted
<1>11. expires' \in [Artifacts -> Nat]
  BY <1>2 DEF IInv, TypeInv
<1>12. \A v \in Workers :
         /\ worker'[v].task = worker[v].task /\ worker'[v].kind = worker[v].kind
         /\ worker[v].at = "idle" => worker'[v].at = "idle"
         /\ worker'[v].at = "rendering" => worker[v].at = "rendering"
         /\ worker'[v].at = "completing" =>
              \/ worker[v].at = "completing" /\ worker'[v].artifact = worker[v].artifact
              \/ /\ worker'[v].artifact \in Artifacts
                 /\ Outlives(worker'[v].artifact, worker[v].task)
  BY <1>2, <1>5, <1>6
<1> QED
  BY <1>1, <1>2, <1>3, <1>6, <1>8, <1>9, <1>10, <1>11, <1>12, StoreMoves

-----------------------------------------------------------------------------
(* The producers, the sweep of tasks and the clock.                        *)

Producers == {"new", "waiting", "timed out", "done", "failed", "swept"}

\* The clocks are numbers, and a task was not submitted later than now.
LEMMA Clocks ==
    ASSUME IInv
    PROVE  /\ now \in Nat /\ now <= now
           /\ task \in [Tasks -> TaskRow] /\ producer \in [Tasks -> Producers]
           /\ \A t \in Tasks :
                /\ Submitted(t) \in Int /\ 0 <= Submitted(t) /\ Submitted(t) <= now
                /\ producer[t] = "new" <=> task[t].status = "none"
<1>1. now \in Nat /\ task \in [Tasks -> TaskRow] /\ producer \in [Tasks -> Producers]
  BY DEF IInv, TypeInv, Producers
<1>2. ASSUME NEW t \in Tasks
      PROVE  Submitted(t) \in Int
  <2>1. task[t] \in TaskRow
    BY <1>1
  <2> QED
    BY <2>1 DEF TaskRow, Submitted
<1>3. \A t \in Tasks : /\ 0 <= Submitted(t) /\ Submitted(t) <= now
                       /\ producer[t] = "new" <=> task[t].status = "none"
  BY DEF IInv, Order
<1> QED
  BY <1>1, <1>2, <1>3

LEMMA OutsideMoves ==
    ASSUME IInv, UNCHANGED <<worker, hero, expires, storeVars>>,
           now' \in Nat, now <= now', task' \in [Tasks -> TaskRow],
           producer' \in [Tasks -> Producers],
           \A t \in Tasks :
             /\ 0 <= Submitted(t)' /\ Submitted(t)' <= now'
             /\ producer'[t] = "new" => producer[t] = "new"
             /\ producer'[t] = "new" <=> task'[t].status = "none"
             /\ producer[t] # "new" => Submitted(t)' \in {0, Submitted(t)}
             /\ task'[t].status = "done" =>
                  task[t].status = "done" /\ task'[t].result = task[t].result
    PROVE  IInv'
<1>1. UNCHANGED <<row, object, id, req, doomed>>
  BY DEF storeVars
<1>2. TypeInv' /\ StoreInv'
  BY StoreStays DEF IInv, TypeInv, Producers
<1>3. HeroInv' /\ Waits'
  BY <1>1 DEF IInv, HeroInv, HeroIsWhole, Waits
<1>4. Order'
  BY DEF IInv, Order
<1>5. ASSUME NEW t \in Tasks, NEW a \in Artifacts, Outlives(a, t), producer[t] # "new"
      PROVE  id'[a] = "known" /\ Submitted(t)' + ArtifactRetention <= expires'[a]
  BY <1>1, <1>5, OutlivesStays DEF Outlives
<1>6. Results'
  <2>1. ASSUME NEW v \in Workers, worker'[v].at = "uploading", req'[worker'[v].req].at = "uploaded"
        PROVE  Outlives(req[worker[v].req].id, worker[v].task)'
    <3>1. /\ worker[v].req \in Requests /\ worker[v].task \in Tasks
          /\ producer[worker[v].task] # "new"
      BY <2>1 DEF IInv, Waits, Order
    <3>2. /\ req[worker[v].req].id \in Artifacts
          /\ Outlives(req[worker[v].req].id, worker[v].task)
      BY <1>1, <2>1, <3>1 DEF IInv, Results, StoreInv, StoreType
    <3> QED
      BY <1>1, <1>5, <3>1, <3>2 DEF Outlives, Submitted
  <2>2. ASSUME NEW v \in Workers, worker'[v].at = "completing"
        PROVE  worker'[v].artifact \in Artifacts /\ Outlives(worker[v].artifact, worker[v].task)'
    <3>1. /\ worker[v].task \in Tasks /\ producer[worker[v].task] # "new"
          /\ worker[v].artifact \in Artifacts /\ Outlives(worker[v].artifact, worker[v].task)
      BY <2>2 DEF IInv, Order, Results
    <3> QED
      BY <1>1, <1>5, <3>1 DEF Outlives, Submitted
  <2>3. ASSUME NEW t \in Tasks, task'[t].status = "done"
        PROVE  task'[t].result \in Artifacts /\ Outlives(task[t].result, t)'
    <3>1. /\ producer[t] # "new" /\ task[t].status = "done" /\ task'[t].result = task[t].result
          /\ task[t].result \in Artifacts /\ Outlives(task[t].result, t)
      BY <2>3 DEF IInv, Order, Results
    <3> QED
      BY <1>5, <3>1 DEF Outlives
  <2> QED
    BY <2>1, <2>2, <2>3 DEF Results
<1>7. Kept'
  <2>1. ASSUME NEW a \in Artifacts, expires[a] < now
        PROVE  expires'[a] < now'
    <3>1. now \in Nat /\ expires[a] \in Nat /\ expires'[a] = expires[a]
      BY DEF IInv, TypeInv
    <3> QED
      BY <2>1, <3>1
  <2> QED
    BY <1>1, <2>1 DEF IInv, Kept
<1> QED
  BY <1>2, <1>3, <1>4, <1>6, <1>7 DEF IInv

LEMMA SubmitKeeps ==
    ASSUME IInv, NEW t \in Tasks, NEW kind \in Kinds, NEW retention \in Retentions,
           Submit(t, kind, retention)
    PROVE  IInv'
<1> DEFINE new == [NoTask EXCEPT !.status = "queued", !.kind = kind,
                                 !.retention = retention, !.expires = now + retention]
<1>1. now \in Nat /\ retention \in Nat /\ kind \in AnyKind
  <2>1. now \in Nat
    BY DEF IInv, TypeInv
  <2> QED
    BY <2>1, DeliveryAssumption DEF AnyKind
<1>2. /\ new \in TaskRow /\ new.status = "queued"
      /\ new.expires = now + retention /\ new.retention = retention
  <2>1. now + retention \in Nat
    BY <1>1
  <2> QED
    BY <1>1, <2>1 DEF NoTask, TaskRow
<1>3. /\ task' = [task EXCEPT ![t] = new] /\ producer[t] = "new"
      /\ producer' = [producer EXCEPT ![t] = "waiting"]
      /\ UNCHANGED <<now, worker, hero, expires, storeVars>>
  BY DEF Submit
<1> HIDE DEF new
<1>4. /\ task' \in [Tasks -> TaskRow] /\ task'[t] = new
      /\ \A u \in Tasks \ {t} : task'[u] = task[u]
      /\ producer' \in [Tasks -> Producers]
      /\ producer'[t] = "waiting"
      /\ \A u \in Tasks \ {t} : producer'[u] = producer[u]
  <2>1. "waiting" \in Producers
    BY DEF Producers
  <2> QED
    BY <1>2, <1>3, <2>1, Clocks
<1>5. Submitted(t)' = now
  <2>1. task'[t].expires = now + retention /\ task'[t].retention = retention
    BY <1>2, <1>4
  <2>2. (now + retention) - retention = now
    BY <1>1
  <2> QED
    BY <2>1, <2>2 DEF Submitted
<1>6. \A u \in Tasks \ {t} : Submitted(u)' = Submitted(u)
  BY <1>4 DEF Submitted
<1>7. ASSUME NEW u \in Tasks
      PROVE  /\ 0 <= Submitted(u)' /\ Submitted(u)' <= now'
             /\ producer'[u] = "new" => producer[u] = "new"
             /\ producer'[u] = "new" <=> task'[u].status = "none"
             /\ producer[u] # "new" => Submitted(u)' \in {0, Submitted(u)}
             /\ task'[u].status = "done" =>
                  task[u].status = "done" /\ task'[u].result = task[u].result
  <2>1. CASE u = t
    BY <1>1, <1>2, <1>3, <1>4, <1>5, <2>1
  <2>2. CASE u # t
    BY <1>3, <1>4, <1>6, <2>2, Clocks
  <2> QED
    BY <2>1, <2>2
<1>8. now' \in Nat /\ now <= now'
  BY <1>3, Clocks
<1> QED
  BY <1>3, <1>4, <1>7, <1>8, OutsideMoves

LEMMA WaitKeeps ==
    ASSUME IInv, NEW t \in Tasks, Poll(t) \/ WaitTimesOut(t)
    PROVE  IInv'
<1>1. task[t].status \in {"none", "swept", "queued", "claimed", "done", "failed"}
  BY DEF IInv, TypeInv, TaskRow
<1>2. task[t].status # "none"
  <2>1. producer[t] = "waiting"
    BY DEF Poll, WaitTimesOut
  <2> QED
    BY <2>1, Clocks
<1>3. PICK end \in Producers \ {"new"} : producer' = [producer EXCEPT ![t] = end]
  BY <1>1, <1>2 DEF Poll, WaitTimesOut, Unfinished, Producers
<1>4. /\ UNCHANGED <<now, task, worker, hero, expires, storeVars>>
      /\ producer[t] # "new"
  BY DEF Poll, WaitTimesOut
<1>5. /\ producer' \in [Tasks -> Producers]
      /\ \A u \in Tasks : producer'[u] = "new" <=> producer[u] = "new"
  BY <1>3, <1>4, Clocks
<1>6. now' \in Nat /\ now <= now' /\ task' \in [Tasks -> TaskRow]
  BY <1>4, Clocks
<1>7. \A u \in Tasks :
        /\ 0 <= Submitted(u)' /\ Submitted(u)' <= now' /\ Submitted(u)' = Submitted(u)
        /\ producer'[u] = "new" <=> task'[u].status = "none"
  BY <1>4, <1>5, Clocks DEF Submitted
<1> QED
  BY <1>4, <1>5, <1>6, <1>7, OutsideMoves

LEMMA CleanupTaskKeeps ==
    ASSUME IInv, NEW t \in Tasks, CleanupTask(t)
    PROVE  IInv'
<1>1. /\ task' = [task EXCEPT ![t] = Swept] /\ task[t].status # "none"
      /\ UNCHANGED <<now, producer, worker, hero, expires, storeVars>>
  BY DEF CleanupTask, Exists
<1>2. /\ Swept \in TaskRow /\ Swept.status = "swept"
      /\ Swept.expires = 0 /\ Swept.retention = 0
  BY DEF Swept, NoTask, TaskRow, AnyKind
<1>3. /\ task' \in [Tasks -> TaskRow] /\ task'[t] = Swept
      /\ \A u \in Tasks \ {t} : task'[u] = task[u]
  BY <1>1, <1>2, Clocks
<1>4. producer' \in [Tasks -> Producers] /\ now' \in Nat /\ now <= now' /\ 0 <= now'
  BY <1>1, Clocks
<1>5. Submitted(t)' = 0
  <2>1. task'[t].expires = 0 /\ task'[t].retention = 0
    BY <1>2, <1>3
  <2> QED
    BY <2>1 DEF Submitted
<1>6. \A u \in Tasks \ {t} : Submitted(u)' = Submitted(u)
  BY <1>3 DEF Submitted
<1>7. ASSUME NEW u \in Tasks
      PROVE  /\ 0 <= Submitted(u)' /\ Submitted(u)' <= now'
             /\ producer'[u] = "new" => producer[u] = "new"
             /\ producer'[u] = "new" <=> task'[u].status = "none"
             /\ producer[u] # "new" => Submitted(u)' \in {0, Submitted(u)}
             /\ task'[u].status = "done" =>
                  task[u].status = "done" /\ task'[u].result = task[u].result
  <2>1. CASE u = t
    BY <1>1, <1>2, <1>3, <1>4, <1>5, <2>1, Clocks
  <2>2. CASE u # t
    BY <1>1, <1>3, <1>6, <2>2, Clocks
  <2> QED
    BY <2>1, <2>2
<1> QED
  BY <1>1, <1>3, <1>4, <1>7, OutsideMoves

LEMMA TickKeeps ==
    ASSUME IInv, Tick
    PROVE  IInv'
<1>1. now' = now + 1 /\ UNCHANGED <<task, producer, worker, hero, expires, storeVars>>
  BY DEF Tick
<1>2. /\ now \in Nat /\ now' \in Nat /\ now <= now'
      /\ task' \in [Tasks -> TaskRow] /\ producer' \in [Tasks -> Producers]
  BY <1>1, Clocks
<1>3. \A t \in Tasks : Submitted(t)' = Submitted(t)
  BY <1>1 DEF Submitted
<1>4. \A t \in Tasks :
        /\ 0 <= Submitted(t)' /\ Submitted(t)' <= now'
        /\ producer'[t] = "new" <=> task'[t].status = "none"
  BY <1>1, <1>2, <1>3, Clocks
<1> QED
  BY <1>1, <1>2, <1>3, <1>4, OutsideMoves

LEMMA StutterKeeps ==
    ASSUME IInv, UNCHANGED vars
    PROVE  IInv'
<1>1. UNCHANGED <<now, task, producer, worker, hero, expires, storeVars>>
  BY DEF vars
<1>2. /\ now' \in Nat /\ now <= now'
      /\ task' \in [Tasks -> TaskRow] /\ producer' \in [Tasks -> Producers]
  BY <1>1, Clocks
<1>3. \A t \in Tasks : Submitted(t)' = Submitted(t)
  BY <1>1 DEF Submitted
<1>4. \A t \in Tasks :
        /\ 0 <= Submitted(t)' /\ Submitted(t)' <= now'
        /\ producer'[t] = "new" <=> task'[t].status = "none"
  BY <1>1, <1>3, Clocks
<1> QED
  BY <1>1, <1>2, <1>3, <1>4, OutsideMoves

-----------------------------------------------------------------------------
LEMMA InitInv == Init => IInv
<1> SUFFICES ASSUME Init PROVE IInv
  OBVIOUS
<1>1. /\ NoTask \in TaskRow /\ NoTask.status = "none"
      /\ NoTask.expires = 0 /\ NoTask.retention = 0
  BY DEF NoTask, TaskRow, AnyKind
<1>2. TypeInv
  BY <1>1, IdleType DEF Init, TypeInv
<1>3. /\ req = [r \in Requests |-> Store!NoRequest] /\ doomed = {}
      /\ row = [a \in Artifacts |-> None] /\ object = [a \in Artifacts |-> {}]
      /\ id = [a \in Artifacts |-> "unused"]
  BY DEF Init, Store!Init
<1>4. StoreInv
  <2>1. StoreType
    BY <1>3, NoRequestType DEF StoreType
  <2>2. IdInv /\ ObjectInv
    BY <1>3, NoRequestType DEF IdInv, ObjectInv, Uploading, Store!ListedHasObject
  <2> QED
    BY <2>1, <2>2 DEF StoreInv
<1>5. HeroInv /\ Waits
  BY IdleType DEF Init, HeroInv, HeroIsWhole, Waits
<1>6. Order
  <2>1. \A t \in Tasks : Submitted(t) = 0
    <3>1. \A t \in Tasks : task[t] = NoTask
      BY DEF Init
    <3>2. \A t \in Tasks : task[t].expires = 0 /\ task[t].retention = 0
      BY <1>1, <3>1
    <3>3. \A t \in Tasks : Submitted(t) = 0 - 0
      BY <3>2 DEF Submitted
    <3>4. 0 - 0 = 0
      OBVIOUS
    <3> QED
      BY <3>3, <3>4
  <2> QED
    BY <1>1, <2>1, IdleType DEF Init, Order
<1>7. Results /\ Kept
  BY <1>1, <1>3, IdleType DEF Init, Results, Kept
<1> QED
  BY <1>2, <1>4, <1>5, <1>6, <1>7 DEF IInv

LEMMA NextKeeps == IInv /\ [Next]_vars => IInv'
<1> SUFFICES ASSUME IInv, [Next]_vars PROVE IInv'
  OBVIOUS
<1>1. ASSUME NEW t \in Tasks, ProducerStep(t)
      PROVE  IInv'
  BY <1>1, SubmitKeeps, WaitKeeps, DeleteResultKeeps DEF ProducerStep
<1>2. ASSUME NEW w \in Workers, WorkerStep(w)
      PROVE  IInv'
  <2>1. ASSUME NEW t \in Tasks, Claim(w, t) PROVE IInv'
    BY <2>1, ClaimKeeps
  <2>2. ASSUME NEW r \in Requests, NEW a \in Artifacts, BeginUpload(w, r, a) PROVE IInv'
    BY <2>2, UploadKeeps
  <2>3. CASE Uploaded(w)
    BY <2>3, UploadedKeeps
  <2>4. CASE UploadTimesOut(w) \/ Crash(w)
    BY <2>4, GiveUpKeeps
  <2>5. CASE Complete(w) \/ Fail(w)
    BY <2>5, ReportKeeps
  <2>6. CASE \/ Expired(w) \/ Refused(w) \/ NoHeroNeeded(w) \/ HeroAtHand(w)
             \/ HeroMissing(w) \/ DownloadFails(w) \/ WriteTemporary(w) \/ Replace(w)
             \/ RenderFails(w)
    BY <2>6, WorkKeeps
  <2> QED
    BY <1>2, <2>1, <2>2, <2>3, <2>4, <2>5, <2>6 DEF WorkerStep
<1>3. ASSUME NEW r \in Requests, StoreStep(r) \/ InsertArtifact(r) \/ RequestFails(r)
      PROVE  IInv'
  BY <1>3, StoreStepKeeps, InsertArtifactKeeps, RequestFailsKeeps
<1> QED
  BY <1>1, <1>2, <1>3, CleanupTaskKeeps, CleanupArtifactKeeps, TickKeeps, StutterKeeps DEF Next

\* Everything above holds however the parts interleave.
THEOREM DeliveryInvariant == Spec => []IInv
<1> QED
  BY InitInv, NextKeeps, PTL DEF Spec

\* No render reads a hero that another worker is writing, or died writing: the
\* cache is only ever replaced by a whole file (image_worker.py).
THEOREM HeroesAreWhole == Spec => []HeroIsWhole
<1>1. IInv => HeroIsWhole
  BY DEF IInv, HeroInv
<1> QED
  BY <1>1, DeliveryInvariant, PTL

\* The result of a task can be fetched as long as its row is there: the artifact
\* was stored after the task was submitted, so that its own clock ends later
\* (README.md, the migration's two sweeps).
THEOREM ResultsAreDownloadable == Spec => []ResultIsDownloadable
<1>1. IInv => ResultIsDownloadable
  <2> SUFFICES ASSUME IInv, NEW t \in Tasks, task[t].status = "done", now <= task[t].expires,
                      task[t].retention <= ArtifactRetention, task[t].result \notin doomed
               PROVE  row[task[t].result] # None /\ row[task[t].result] \in object[task[t].result]
    BY DEF ResultIsDownloadable
  <2>1. task[t].result \in Artifacts /\ Outlives(task[t].result, t)
    BY DEF IInv, Results
  <2>2. PICK a \in Artifacts : a = task[t].result
    BY <2>1
  <2>3. ~ (expires[a] < now)
    <3>1. /\ task[t] \in TaskRow /\ now \in Nat /\ expires[a] \in Nat
          /\ ArtifactRetention \in Nat
      BY DeliveryAssumption DEF IInv, TypeInv
    <3>2. task[t].expires \in Nat /\ task[t].retention \in Nat
      BY <3>1 DEF TaskRow
    <3>3. (task[t].expires - task[t].retention) + ArtifactRetention <= expires[a]
      BY <2>1, <2>2 DEF Outlives, Submitted
    <3> QED
      BY <3>1, <3>2, <3>3
  <2>4. row[a] # None
    BY <2>1, <2>2, <2>3 DEF IInv, Kept, Outlives
  <2>5. row[a] \in object[a]
    BY <2>2, <2>4 DEF IInv, StoreInv, ObjectInv, Store!ListedHasObject
  <2> QED
    BY <2>2, <2>4, <2>5
<1> QED
  BY <1>1, DeliveryInvariant, PTL

-----------------------------------------------------------------------------
\* The whole leaves the artifact service its rules: each of its steps is one of
\* ArtifactStore or does not touch the store, so that what ArtifactStoreProofs
\* proves of the store holds beside tasks, workers, producers and both sweeps.
THEOREM DeliveryRunsTheStore == Spec => Store!Spec
<1>1. Init => Store!Init
  BY DEF Init
<1>2. IInv /\ [Next]_vars => [Store!Next]_(Store!vars)
  <2> SUFFICES ASSUME IInv, [Next]_vars
               PROVE  Store!Next \/ UNCHANGED Store!vars
    OBVIOUS
  <2>1. ASSUME UNCHANGED storeVars
        PROVE  UNCHANGED Store!vars
    BY <2>1 DEF storeVars, Store!vars
  <2>2. ASSUME NEW t \in Tasks, ProducerStep(t)
        PROVE  Store!Next \/ UNCHANGED storeVars
    <3>1. ASSUME NEW r \in Requests, DeleteResult(t, r) PROVE Store!Next
      <4>1. task[t].result \in Artifacts
        BY <3>1, DeleteResultKeeps
      <4> QED
        BY <3>1, <4>1 DEF DeleteResult, Store!Next
    <3> QED
      BY <2>2, <3>1 DEF ProducerStep, Submit, Poll, WaitTimesOut
  <2>3. ASSUME NEW w \in Workers, WorkerStep(w)
        PROVE  Store!Next \/ UNCHANGED storeVars
    <3>1. ASSUME NEW r \in Requests, NEW a \in Artifacts, BeginUpload(w, r, a)
          PROVE  Store!Next
      <4>1. Suffix(worker[w].kind) \in Suffixes
        BY <3>1, UploadKeeps
      <4> QED
        BY <3>1, <4>1 DEF BeginUpload, Store!Next
    <3>2. CASE Uploaded(w)
      <4>1. worker[w].req \in Requests
        BY <3>2, UploadedKeeps
      <4> QED
        BY <3>2, <4>1 DEF Uploaded, Store!Next
    <3>3. CASE \/ \E t \in Tasks : Claim(w, t)
               \/ UploadTimesOut(w) \/ Complete(w) \/ Fail(w) \/ Crash(w) \/ Replace(w)
      BY <3>3 DEF Claim, UploadTimesOut, Complete, Fail, Report, Crash, Replace
    <3>4. CASE \/ Expired(w) \/ Refused(w) \/ NoHeroNeeded(w) \/ HeroAtHand(w)
               \/ HeroMissing(w) \/ DownloadFails(w) \/ WriteTemporary(w) \/ RenderFails(w)
      BY <3>4 DEF Expired, Refused, NoHeroNeeded, HeroAtHand, HeroMissing, DownloadFails,
                  WriteTemporary, RenderFails, Step
    <3> QED
      BY <2>3, <3>1, <3>2, <3>3, <3>4 DEF WorkerStep
  <2>4. ASSUME NEW r \in Requests, StoreStep(r) \/ InsertArtifact(r) \/ RequestFails(r)
        PROVE  Store!Next
    BY <2>4 DEF StoreStep, InsertArtifact, RequestFails, Store!Next
  <2>5. ASSUME NEW a \in Artifacts, CleanupArtifact(a)
        PROVE  Store!Next
    BY <2>5 DEF CleanupArtifact, Store!Next
  <2>6. CASE (\E t \in Tasks : CleanupTask(t)) \/ Tick \/ UNCHANGED vars
    BY <2>1, <2>6 DEF CleanupTask, Tick, vars
  <2> QED
    BY <2>1, <2>2, <2>3, <2>4, <2>5, <2>6 DEF Next
<1> QED
  BY <1>1, <1>2, DeliveryInvariant, PTL DEF Spec, Store!Spec

=============================================================================
