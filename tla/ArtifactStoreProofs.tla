------------------------- MODULE ArtifactStoreProofs -------------------------
(***************************************************************************)
(* Proofs about ArtifactStore, for any number of artifacts and overlapping *)
(* requests, and any suffixes.                                             *)
(***************************************************************************)
EXTENDS ArtifactStore, TLAPS

Path == Suffixes \cup Known

Request ==
    [at : {"idle", "upload", "insert", "uploaded", "delete", "deleted"},
     id : Artifacts \cup {None}, suffix : Suffixes \cup {None},
     paths : Seq(Path), loaded : BOOLEAN]

Uploading(r) == req[r].at \in {"upload", "insert"}
Deleting(r) == req[r].at \in {"delete", "deleted"}

\* The paths a delete has yet to try.
Left(paths) == {paths[i] : i \in 1 .. Len(paths)}

TypeInv ==
    /\ req \in [Requests -> Request]
    /\ TypeOK

\* An id is new, or one upload has it, or it is known: only then deletes do.
IdInv ==
    /\ \A a \in Artifacts :
         /\ id[a] = "unused" => row[a] = None /\ object[a] = {}
         /\ a \in doomed => id[a] = "known"
    /\ \A r \in Requests : Uploading(r) => id[req[r].id] = "taken" /\ row[req[r].id] = None
    /\ \A r, q \in Requests : Uploading(r) /\ Uploading(q) /\ req[r].id = req[q].id => r = q
    /\ \A r \in Requests : Deleting(r) => req[r].id \in doomed

\* An object has the suffix of its row, and is there before the row is.
ObjectInv ==
    /\ \A a \in Artifacts : row[a] # None => object[a] \subseteq {row[a]}
    /\ \A r \in Requests :
         /\ req[r].at = "upload" => object[req[r].id] = {}
         /\ req[r].at = "insert" => object[req[r].id] = {req[r].suffix}

\* What a delete has not tried yet is all that can be left.
DeleteInv ==
    \A r \in Requests :
        /\ req[r].at = "delete" =>
             /\ object[req[r].id] \cap Known \subseteq Left(req[r].paths)
             /\ req[r].loaded => object[req[r].id] \subseteq Left(req[r].paths)
             /\ ~req[r].loaded => row[req[r].id] = None
        /\ req[r].at = "deleted" =>
             /\ row[req[r].id] = None
             /\ object[req[r].id] \cap Known = {}
             /\ req[r].loaded => object[req[r].id] = {}

IInv == TypeInv /\ IdInv /\ ObjectInv /\ DeleteInv /\ ListedHasObject /\ UnfinishedDeleteKeepsRow

-----------------------------------------------------------------------------
\* Trying a path takes it from those that are left.
LEMMA LeftTail ==
    ASSUME NEW paths \in Seq(Path), paths # <<>>
    PROVE  /\ Tail(paths) \in Seq(Path)
           /\ Left(paths) \subseteq {Head(paths)} \cup Left(Tail(paths))
<1>1. Tail(paths) \in Seq(Path) /\ Len(Tail(paths)) = Len(paths) - 1
  OBVIOUS
<1>2. ASSUME NEW i \in 1 .. Len(paths), i # 1
      PROVE  paths[i] \in Left(Tail(paths))
  <2>1. i - 1 \in 1 .. Len(Tail(paths)) /\ Tail(paths)[i - 1] = paths[i]
    BY <1>1, <1>2
  <2> QED
    BY <2>1 DEF Left
<1>3. Head(paths) = paths[1]
  OBVIOUS
<1> QED
  BY <1>1, <1>2, <1>3 DEF Left

\* Adding a path adds it to those that are left.
LEMMA LeftAppend ==
    ASSUME NEW paths \in Seq(Path), NEW path \in Path
    PROVE  /\ Append(paths, path) \in Seq(Path)
           /\ Left(Append(paths, path)) = Left(paths) \cup {path}
<1> DEFINE n == Len(paths)
           longer == Append(paths, path)
<1>1. n \in Nat
  OBVIOUS
<1>2. longer \in Seq(Path) /\ Len(longer) = n + 1
  OBVIOUS
<1>3. longer[n + 1] = path /\ \A i \in 1 .. n : longer[i] = paths[i]
  OBVIOUS
<1> HIDE DEF n, longer
<1>4. 1 .. (n + 1) = (1 .. n) \cup {n + 1}
  BY <1>1
<1>5. Left(longer) = {longer[i] : i \in 1 .. n} \cup {longer[n + 1]}
  BY <1>2, <1>4 DEF Left
<1>6. {longer[i] : i \in 1 .. n} = Left(paths)
  BY <1>3 DEF Left, n
<1> QED
  BY <1>2, <1>3, <1>5, <1>6 DEF longer

\* A delete without paths has none left.
LEMMA NothingLeft == Left(<<>>) = {}
BY DEF Left

\* The paths of a delete are the known suffixes and the row's.
LEMMA PathsOfRow ==
    ASSUME NEW suffix \in Suffixes \cup {None}
    PROVE  /\ PathsOf(suffix) \in Seq(Path)
           /\ Known \subseteq Left(PathsOf(suffix))
           /\ suffix # None => suffix \in Left(PathsOf(suffix))
<1>1. KnownSuffixes \in Seq(Path) /\ Len(KnownSuffixes) = 3
  BY DEF KnownSuffixes, Path, Known
<1>2. Left(KnownSuffixes) = Known
  BY DEF Left, Known
<1>3. CASE suffix = None \/ \E i \in 1 .. Len(KnownSuffixes) : KnownSuffixes[i] = suffix
  BY <1>1, <1>2, <1>3 DEF PathsOf, Known
<1>4. CASE ~(suffix = None \/ \E i \in 1 .. Len(KnownSuffixes) : KnownSuffixes[i] = suffix)
  <2>1. suffix \in Path
    BY <1>4 DEF Path
  <2>2. /\ Append(KnownSuffixes, suffix) \in Seq(Path)
        /\ Left(Append(KnownSuffixes, suffix)) = Left(KnownSuffixes) \cup {suffix}
    BY <1>1, <2>1, LeftAppend, Zenon
  <2> QED
    BY <1>2, <1>4, <2>2 DEF PathsOf
<1> QED
  BY <1>3, <1>4

\* A request that moves on keeps the types, if what it has become is a request.
LEMMA RequestMoves ==
    ASSUME TypeInv, NEW r \in Requests, NEW new \in Request, req' = [req EXCEPT ![r] = new],
           new.at # "idle" => new.id \in Artifacts,
           new.at \in {"upload", "insert"} => new.suffix \in Suffixes,
           row' \in [Artifacts -> Suffixes \cup {None}],
           object' \in [Artifacts -> SUBSET Suffixes],
           id' \in [Artifacts -> {"unused", "taken", "known"}],
           doomed' \subseteq Artifacts, swept' \subseteq Artifacts
    PROVE  TypeInv'
<1>1. req' \in [Requests -> Request] /\ req'[r] = new
      /\ \A q \in Requests \ {r} : req'[q] = req[q]
  BY DEF TypeInv
<1>2. req'[r].at \in {"idle", "upload", "insert", "uploaded", "delete", "deleted"}
  BY <1>1 DEF Request
<1> QED
  BY <1>1, <1>2 DEF TypeInv, TypeOK

-----------------------------------------------------------------------------
LEMMA InitInv == Init => IInv
<1> SUFFICES ASSUME Init PROVE IInv
  OBVIOUS
<1>1. NoRequest \in Request /\ NoRequest.at = "idle"
  BY DEF NoRequest, Request
<1>2. TypeInv
  BY <1>1 DEF Init, TypeInv, TypeOK
<1>3. IdInv /\ ObjectInv /\ DeleteInv
  BY <1>1 DEF Init, IdInv, ObjectInv, DeleteInv, Uploading, Deleting
<1>4. ListedHasObject /\ UnfinishedDeleteKeepsRow
  BY DEF Init, ListedHasObject, UnfinishedDeleteKeepsRow
<1> QED
  BY <1>2, <1>3, <1>4 DEF IInv

\* An id that is new is given to one upload.
LEMMA BeginUploadKeeps ==
    ASSUME IInv, NEW r \in Requests, NEW a \in Artifacts, NEW suffix \in Suffixes,
           BeginUpload(r, a, suffix)
    PROVE  IInv'
<1> <<>> \in Seq(Path)
  OBVIOUS
<1>1. TypeInv'
  BY NamesAssumption DEF IInv, BeginUpload, Goto, hist, NoRequest, TypeInv, TypeOK, Request
<1>2. IdInv'
  BY NamesAssumption DEF IInv, BeginUpload, Goto, hist, NoRequest, TypeInv, TypeOK, Request,
     IdInv, Uploading, Deleting
<1>3. ObjectInv'
  BY NamesAssumption DEF IInv, BeginUpload, Goto, hist, NoRequest, TypeInv, TypeOK, Request,
     IdInv, ObjectInv, Uploading, Deleting
<1>4. DeleteInv'
  BY NamesAssumption DEF IInv, BeginUpload, Goto, hist, NoRequest, TypeInv, TypeOK, Request,
     IdInv, ObjectInv, DeleteInv, Uploading, Deleting
<1>5. ListedHasObject'
  BY NamesAssumption DEF IInv, BeginUpload, Goto, hist, NoRequest, TypeInv, TypeOK, Request,
     IdInv, ObjectInv, DeleteInv, ListedHasObject, Uploading, Deleting
<1>6. UnfinishedDeleteKeepsRow'
  BY NamesAssumption DEF IInv, BeginUpload, Goto, hist, NoRequest, TypeInv, TypeOK, Request,
     IdInv, ObjectInv, DeleteInv, UnfinishedDeleteKeepsRow, Uploading, Deleting
<1> QED
  BY <1>1, <1>2, <1>3, <1>4, <1>5, <1>6 DEF IInv

\* The upload has its id alone, and no row names the object yet.
LEMMA UploadObjectKeeps ==
    ASSUME IInv, NEW r \in Requests, UploadObject(r)
    PROVE  IInv'
<1> req[r].id \in Artifacts /\ req[r].suffix \in Suffixes /\ req[r] \in Request
  BY DEF IInv, TypeInv, TypeOK, UploadObject
<1>1. TypeInv'
  BY NamesAssumption DEF IInv, UploadObject, Goto, hist, NoRequest, TypeInv, TypeOK, Request
<1>2. IdInv'
  BY NamesAssumption DEF IInv, UploadObject, Goto, hist, NoRequest, TypeInv, TypeOK, Request,
     IdInv, Uploading, Deleting
<1>3. ObjectInv'
  BY NamesAssumption DEF IInv, UploadObject, Goto, hist, NoRequest, TypeInv, TypeOK, Request,
     IdInv, ObjectInv, Uploading, Deleting
<1>4. DeleteInv'
  BY NamesAssumption DEF IInv, UploadObject, Goto, hist, NoRequest, TypeInv, TypeOK, Request,
     IdInv, ObjectInv, DeleteInv, Uploading, Deleting
<1>5. ListedHasObject'
  BY NamesAssumption DEF IInv, UploadObject, Goto, hist, NoRequest, TypeInv, TypeOK, Request,
     IdInv, ObjectInv, DeleteInv, ListedHasObject, Uploading, Deleting
<1>6. UnfinishedDeleteKeepsRow'
  BY NamesAssumption DEF IInv, UploadObject, Goto, hist, NoRequest, TypeInv, TypeOK, Request,
     IdInv, ObjectInv, DeleteInv, UnfinishedDeleteKeepsRow, Uploading, Deleting
<1> QED
  BY <1>1, <1>2, <1>3, <1>4, <1>5, <1>6 DEF IInv

\* The row follows its object.
LEMMA InsertRowKeeps ==
    ASSUME IInv, NEW r \in Requests, InsertRow(r)
    PROVE  IInv'
<1>1. TypeInv'
  <2> DEFINE new == [req[r] EXCEPT !.at = "uploaded"]
  <2>1. req[r] \in Request /\ req[r].id \in Artifacts /\ req[r].suffix \in Suffixes
    BY DEF IInv, TypeInv, TypeOK, InsertRow
  <2>2. /\ new \in Request /\ new.at = "uploaded" /\ new.id = req[r].id
        /\ req' = [req EXCEPT ![r] = new]
    BY <2>1 DEF InsertRow, Goto, Request
  <2>3. /\ row' \in [Artifacts -> Suffixes \cup {None}]
        /\ id' \in [Artifacts -> {"unused", "taken", "known"}]
        /\ UNCHANGED <<object, doomed, swept>>
    BY <2>1 DEF IInv, TypeInv, TypeOK, InsertRow, hist
  <2> HIDE DEF new
  <2> QED
    BY <2>1, <2>2, <2>3, RequestMoves DEF IInv, TypeInv, TypeOK
<1>2. IdInv'
  BY NamesAssumption DEF IInv, InsertRow, Goto, hist, NoRequest, TypeInv, TypeOK, Request,
     IdInv, Uploading, Deleting
<1>3. ObjectInv'
  BY NamesAssumption DEF IInv, InsertRow, Goto, hist, NoRequest, TypeInv, TypeOK, Request,
     IdInv, ObjectInv, Uploading, Deleting
<1>4. DeleteInv'
  BY NamesAssumption DEF IInv, InsertRow, Goto, hist, NoRequest, TypeInv, TypeOK, Request,
     IdInv, ObjectInv, DeleteInv, Uploading, Deleting
<1>5. ListedHasObject'
  BY NamesAssumption DEF IInv, InsertRow, Goto, hist, NoRequest, TypeInv, TypeOK, Request,
     IdInv, ObjectInv, DeleteInv, ListedHasObject, Uploading, Deleting
<1>6. UnfinishedDeleteKeepsRow'
  BY NamesAssumption DEF IInv, InsertRow, Goto, hist, NoRequest, TypeInv, TypeOK, Request,
     IdInv, ObjectInv, DeleteInv, UnfinishedDeleteKeepsRow, Uploading, Deleting
<1> QED
  BY <1>1, <1>2, <1>3, <1>4, <1>5, <1>6 DEF IInv

\* The delete will try every path that the object can have.
LEMMA BeginDeleteKeeps ==
    ASSUME IInv, NEW r \in Requests, NEW a \in Artifacts, BeginDelete(r, a)
    PROVE  IInv'
<1>1. TypeInv'
  BY NamesAssumption, PathsOfRow DEF IInv, BeginDelete, Goto, hist, NoRequest, TypeInv, TypeOK,
     Request
<1>2. IdInv'
  BY NamesAssumption, PathsOfRow DEF IInv, BeginDelete, Goto, hist, NoRequest, TypeInv, TypeOK,
     Request, IdInv, Uploading, Deleting
<1>3. ObjectInv'
  BY NamesAssumption, PathsOfRow DEF IInv, BeginDelete, Goto, hist, NoRequest, TypeInv, TypeOK,
     Request, IdInv, ObjectInv, Uploading, Deleting
<1>4. DeleteInv'
  <2>1. /\ row[a] \in Suffixes \cup {None} /\ object[a] \subseteq Suffixes
        /\ Known \subseteq Left(PathsOf(row[a]))
        /\ row[a] # None => object[a] \subseteq Left(PathsOf(row[a]))
    BY PathsOfRow DEF IInv, TypeInv, TypeOK, ObjectInv
  <2>2. /\ req'[r].at = "delete" /\ req'[r].id = a
        /\ req'[r].paths = PathsOf(row[a]) /\ req'[r].loaded = (row[a] # None)
        /\ \A q \in Requests \ {r} : req'[q] = req[q]
        /\ row' = row /\ object' = object
    BY DEF BeginDelete, IInv, TypeInv
  <2> QED
    BY <2>1, <2>2 DEF IInv, DeleteInv
<1>5. ListedHasObject'
  BY NamesAssumption, PathsOfRow DEF IInv, BeginDelete, Goto, hist, NoRequest, TypeInv, TypeOK,
     Request, IdInv, ObjectInv, DeleteInv, ListedHasObject, Uploading, Deleting
<1>6. UnfinishedDeleteKeepsRow'
  BY NamesAssumption, PathsOfRow DEF IInv, BeginDelete, Goto, hist, NoRequest, TypeInv, TypeOK,
     Request, IdInv, ObjectInv, DeleteInv, UnfinishedDeleteKeepsRow, Uploading, Deleting
<1> QED
  BY <1>1, <1>2, <1>3, <1>4, <1>5, <1>6 DEF IInv

\* One path less is left.
LEMMA DeleteObjectKeeps ==
    ASSUME IInv, NEW r \in Requests, DeleteObject(r)
    PROVE  IInv'
<1>1. TypeInv'
  <2> DEFINE new == [req[r] EXCEPT !.paths = Tail(@)]
  <2>1. req[r] \in Request /\ req[r].id \in Artifacts /\ Tail(req[r].paths) \in Seq(Path)
    BY LeftTail DEF IInv, TypeInv, TypeOK, DeleteObject, Request
  <2>2. /\ new \in Request /\ new.at = "delete" /\ new.id = req[r].id
        /\ req' = [req EXCEPT ![r] = new]
    BY <2>1 DEF DeleteObject, Request
  <2>3. /\ object' \in [Artifacts -> SUBSET Suffixes]
        /\ UNCHANGED <<row, id, doomed, swept>>
    BY <2>1 DEF IInv, TypeInv, TypeOK, DeleteObject, hist
  <2> HIDE DEF new
  <2> QED
    BY <2>1, <2>2, <2>3, RequestMoves DEF IInv, TypeInv, TypeOK
<1>0. /\ req[r].id \in Artifacts
      /\ object'[req[r].id] = object[req[r].id] \ {Head(req[r].paths)}
      /\ \A a \in Artifacts \ {req[r].id} : object'[a] = object[a]
      /\ row' = row /\ id' = id /\ doomed' = doomed
      /\ Deleting(r) /\ req[r].paths # <<>> /\ req[r].paths \in Seq(Path)
      /\ req'[r].at = "delete" /\ req'[r].id = req[r].id
      /\ req'[r].loaded = req[r].loaded /\ req'[r].paths = Tail(req[r].paths)
      /\ \A q \in Requests \ {r} : req'[q] = req[q]
  BY DEF IInv, TypeInv, TypeOK, DeleteObject, Deleting, Request, hist
<1>2. IdInv'
  BY <1>0 DEF IInv, IdInv, Uploading, Deleting
<1>3. ObjectInv'
  <2>1. \A q \in Requests : Uploading(q) => req[q].id \in Artifacts /\ req[q].id # req[r].id
    BY <1>0 DEF IInv, TypeInv, TypeOK, IdInv, Uploading
  <2>2. \A q \in Requests : Uploading(q)' => Uploading(q) /\ req'[q] = req[q]
    BY <1>0 DEF Uploading
  <2>3. \A a \in Artifacts : object'[a] \subseteq object[a]
    BY <1>0
  <2>4. \A q \in Requests : Uploading(q)' => object'[req[q].id] = object[req[q].id]
    BY <1>0, <2>1, <2>2
  <2>5. \A a \in Artifacts : row'[a] # None => object'[a] \subseteq {row'[a]}
    BY <1>0, <2>3 DEF IInv, ObjectInv
  <2>6. ASSUME NEW q \in Requests
        PROVE  /\ req'[q].at = "upload" => object'[req'[q].id] = {}
               /\ req'[q].at = "insert" => object'[req'[q].id] = {req'[q].suffix}
    <3>1. CASE Uploading(q)'
      BY <2>2, <2>4, <3>1 DEF IInv, ObjectInv
    <3>2. CASE ~Uploading(q)'
      BY <3>2 DEF Uploading
    <3> QED
      BY <3>1, <3>2
  <2> QED
    BY <2>5, <2>6 DEF ObjectInv
<1>4. DeleteInv'
  <2>1. Left(req[r].paths) \subseteq {Head(req[r].paths)} \cup Left(Tail(req[r].paths))
    BY <1>0, LeftTail
  <2>2. \A q \in Requests : Deleting(q) => req[q].id \in Artifacts
    BY DEF IInv, TypeInv, TypeOK, Deleting
  <2>3. ASSUME NEW q \in Requests, Deleting(q)
        PROVE  object'[req[q].id] \subseteq object[req[q].id]
    BY <1>0, <2>2, <2>3
  <2> DEFINE Tries(q) ==
        /\ req[q].at = "delete" =>
             /\ object[req[q].id] \cap Known \subseteq Left(req[q].paths)
             /\ req[q].loaded => object[req[q].id] \subseteq Left(req[q].paths)
             /\ ~req[q].loaded => row[req[q].id] = None
        /\ req[q].at = "deleted" =>
             /\ row[req[q].id] = None
             /\ object[req[q].id] \cap Known = {}
             /\ req[q].loaded => object[req[q].id] = {}
  <2>4. ASSUME NEW q \in Requests \ {r} PROVE Tries(q)'
    <3>1. req'[q] = req[q] /\ row' = row /\ Tries(q)
      BY <1>0 DEF IInv, DeleteInv
    <3>2. CASE Deleting(q)
      BY <2>3, <3>1, <3>2
    <3>3. CASE ~Deleting(q)
      BY <3>1, <3>3 DEF Deleting
    <3> QED
      BY <3>2, <3>3
  <2>5. Tries(r)'
    <3>1. req[r].at = "delete" /\ Tries(r)
      BY DEF DeleteObject, IInv, DeleteInv
    <3> QED
      BY <1>0, <2>1, <3>1
  <2> QED
    BY <2>4, <2>5 DEF DeleteInv
<1>5. ListedHasObject'
  BY NamesAssumption, LeftTail DEF IInv, DeleteObject, Goto, hist, NoRequest, TypeInv, TypeOK,
     Request, IdInv, ObjectInv, DeleteInv, ListedHasObject, Uploading, Deleting
<1>6. UnfinishedDeleteKeepsRow'
  BY NamesAssumption, LeftTail DEF IInv, DeleteObject, Goto, hist, NoRequest, TypeInv, TypeOK,
     Request, IdInv, ObjectInv, DeleteInv, UnfinishedDeleteKeepsRow, Uploading, Deleting
<1> QED
  BY <1>1, <1>2, <1>3, <1>4, <1>5, <1>6 DEF IInv

\* No object of the row is left.
LEMMA DeleteRowKeeps ==
    ASSUME IInv, NEW r \in Requests, DeleteRow(r)
    PROVE  IInv'
<1>1. TypeInv'
  <2> DEFINE new == [req[r] EXCEPT !.at = "deleted"]
  <2>1. req[r] \in Request /\ req[r].id \in Artifacts
    BY DEF IInv, TypeInv, TypeOK, DeleteRow
  <2>2. /\ new \in Request /\ new.at = "deleted" /\ new.id = req[r].id
        /\ req' = [req EXCEPT ![r] = new]
    BY <2>1 DEF DeleteRow, Goto, Request
  <2>3. row' \in [Artifacts -> Suffixes \cup {None}] /\ UNCHANGED <<object, id, doomed, swept>>
    BY <2>1 DEF IInv, TypeInv, TypeOK, DeleteRow, hist
  <2> HIDE DEF new
  <2> QED
    BY <2>1, <2>2, <2>3, RequestMoves DEF IInv, TypeInv, TypeOK
<1>2. IdInv'
  BY NamesAssumption, NothingLeft DEF IInv, DeleteRow, Goto, hist, NoRequest, TypeInv, TypeOK,
     Request, IdInv, Uploading, Deleting
<1>3. ObjectInv'
  BY NamesAssumption, NothingLeft DEF IInv, DeleteRow, Goto, hist, NoRequest, TypeInv, TypeOK,
     Request, IdInv, ObjectInv, Uploading, Deleting
<1>4. DeleteInv'
  BY NamesAssumption, NothingLeft DEF IInv, DeleteRow, Goto, hist, NoRequest, TypeInv, TypeOK,
     Request, IdInv, ObjectInv, DeleteInv, Uploading, Deleting
<1>5. ListedHasObject'
  BY NamesAssumption, NothingLeft DEF IInv, DeleteRow, Goto, hist, NoRequest, TypeInv, TypeOK,
     Request, IdInv, ObjectInv, DeleteInv, ListedHasObject, Uploading, Deleting
<1>6. UnfinishedDeleteKeepsRow'
  BY NamesAssumption, NothingLeft DEF IInv, DeleteRow, Goto, hist, NoRequest, TypeInv, TypeOK,
     Request, IdInv, ObjectInv, DeleteInv, UnfinishedDeleteKeepsRow, Uploading, Deleting
<1> QED
  BY <1>1, <1>2, <1>3, <1>4, <1>5, <1>6 DEF IInv

\* An answer changes only the request.
LEMMA RespondKeeps ==
    ASSUME IInv, NEW r \in Requests, Respond(r)
    PROVE  IInv'
<1>1. TypeInv'
  BY NamesAssumption DEF IInv, Respond, Goto, hist, NoRequest, TypeInv, TypeOK, Request
<1>2. IdInv'
  BY NamesAssumption DEF IInv, Respond, Goto, hist, NoRequest, TypeInv, TypeOK, Request, IdInv,
     Uploading, Deleting
<1>3. ObjectInv'
  BY NamesAssumption DEF IInv, Respond, Goto, hist, NoRequest, TypeInv, TypeOK, Request, IdInv,
     ObjectInv, Uploading, Deleting
<1>4. DeleteInv'
  BY NamesAssumption DEF IInv, Respond, Goto, hist, NoRequest, TypeInv, TypeOK, Request, IdInv,
     ObjectInv, DeleteInv, Uploading, Deleting
<1>5. ListedHasObject'
  BY NamesAssumption DEF IInv, Respond, Goto, hist, NoRequest, TypeInv, TypeOK, Request, IdInv,
     ObjectInv, DeleteInv, ListedHasObject, Uploading, Deleting
<1>6. UnfinishedDeleteKeepsRow'
  BY NamesAssumption DEF IInv, Respond, Goto, hist, NoRequest, TypeInv, TypeOK, Request, IdInv,
     ObjectInv, DeleteInv, UnfinishedDeleteKeepsRow, Uploading, Deleting
<1> QED
  BY <1>1, <1>2, <1>3, <1>4, <1>5, <1>6 DEF IInv

\* Whatever a failing call did, the others would have found it so.
LEMMA FailKeeps ==
    ASSUME IInv, NEW r \in Requests, Fail(r)
    PROVE  IInv'
<1> req' = [req EXCEPT ![r] = NoRequest] /\ UNCHANGED <<id, doomed, swept>>
  BY DEF Fail, hist
<1> req[r] \in Request /\ req[r].id \in Artifacts
    /\ (Uploading(r) => req[r].suffix \in Suffixes)
  BY DEF IInv, TypeInv, TypeOK, Fail, Uploading
<1> NoRequest \in Request /\ NoRequest.at = "idle"
  BY DEF NoRequest, Request
<1>1. CASE /\ req[r].at \in {"upload", "insert", "delete"}
           /\ UNCHANGED <<row, object>>
  <2>1. TypeInv'
    BY <1>1, NamesAssumption DEF IInv, TypeInv, TypeOK, Uploading
  <2>2. IdInv'
    BY <1>1, NamesAssumption DEF IInv, TypeInv, TypeOK, IdInv, Uploading, Deleting
  <2>3. ObjectInv'
    BY <1>1, NamesAssumption DEF IInv, TypeInv, TypeOK, IdInv, ObjectInv, Uploading, Deleting
  <2>4. DeleteInv'
    BY <1>1, NamesAssumption DEF IInv, TypeInv, TypeOK, IdInv, ObjectInv, DeleteInv, Uploading,
       Deleting
  <2>5. ListedHasObject'
    BY <1>1, NamesAssumption DEF IInv, TypeInv, TypeOK, IdInv, ObjectInv, DeleteInv,
       ListedHasObject, Uploading, Deleting
  <2>6. UnfinishedDeleteKeepsRow'
    BY <1>1, NamesAssumption DEF IInv, TypeInv, TypeOK, IdInv, ObjectInv, DeleteInv,
       UnfinishedDeleteKeepsRow, Uploading, Deleting
  <2> QED
    BY <2>1, <2>2, <2>3, <2>4, <2>5, <2>6 DEF IInv
<1>2. CASE /\ req[r].at = "upload" /\ UNCHANGED row
           /\ object' = [object EXCEPT ![req[r].id] = @ \cup {req[r].suffix}]
  <2>1. TypeInv'
    BY <1>2, NamesAssumption DEF IInv, TypeInv, TypeOK, Uploading
  <2>2. IdInv'
    BY <1>2, NamesAssumption DEF IInv, TypeInv, TypeOK, IdInv, Uploading, Deleting
  <2>3. ObjectInv'
    BY <1>2, NamesAssumption DEF IInv, TypeInv, TypeOK, IdInv, ObjectInv, Uploading, Deleting
  <2>4. DeleteInv'
    BY <1>2, NamesAssumption DEF IInv, TypeInv, TypeOK, IdInv, ObjectInv, DeleteInv, Uploading,
       Deleting
  <2>5. ListedHasObject'
    BY <1>2, NamesAssumption DEF IInv, TypeInv, TypeOK, IdInv, ObjectInv, DeleteInv,
       ListedHasObject, Uploading, Deleting
  <2>6. UnfinishedDeleteKeepsRow'
    BY <1>2, NamesAssumption DEF IInv, TypeInv, TypeOK, IdInv, ObjectInv, DeleteInv,
       UnfinishedDeleteKeepsRow, Uploading, Deleting
  <2> QED
    BY <2>1, <2>2, <2>3, <2>4, <2>5, <2>6 DEF IInv
<1>3. CASE /\ req[r].at = "insert" /\ UNCHANGED object
           /\ row' = [row EXCEPT ![req[r].id] = req[r].suffix]
  <2>1. TypeInv'
    BY <1>3, NamesAssumption DEF IInv, TypeInv, TypeOK, Uploading
  <2>2. IdInv'
    BY <1>3, NamesAssumption DEF IInv, TypeInv, TypeOK, IdInv, Uploading, Deleting
  <2>3. ObjectInv'
    BY <1>3, NamesAssumption DEF IInv, TypeInv, TypeOK, IdInv, ObjectInv, Uploading, Deleting
  <2>4. DeleteInv'
    BY <1>3, NamesAssumption DEF IInv, TypeInv, TypeOK, IdInv, ObjectInv, DeleteInv, Uploading,
       Deleting
  <2>5. ListedHasObject'
    BY <1>3, NamesAssumption DEF IInv, TypeInv, TypeOK, IdInv, ObjectInv, DeleteInv,
       ListedHasObject, Uploading, Deleting
  <2>6. UnfinishedDeleteKeepsRow'
    BY <1>3, NamesAssumption DEF IInv, TypeInv, TypeOK, IdInv, ObjectInv, DeleteInv,
       UnfinishedDeleteKeepsRow, Uploading, Deleting
  <2> QED
    BY <2>1, <2>2, <2>3, <2>4, <2>5, <2>6 DEF IInv
<1>4. CASE /\ req[r].at = "delete" /\ req[r].paths # <<>> /\ UNCHANGED row
           /\ object' = [object EXCEPT ![req[r].id] = @ \ {Head(req[r].paths)}]
  <2>1. TypeInv'
    BY <1>4, NamesAssumption, LeftTail DEF IInv, TypeInv, TypeOK, Uploading
  <2>2. IdInv'
    BY <1>4, NamesAssumption, LeftTail DEF IInv, TypeInv, TypeOK, IdInv, Uploading, Deleting
  <2>3. ObjectInv'
    BY <1>4, NamesAssumption, LeftTail DEF IInv, TypeInv, TypeOK, IdInv, ObjectInv, Uploading,
       Deleting
  <2>4. DeleteInv'
    <3>1. \A q \in Requests : Deleting(q) => req[q].id \in Artifacts
      BY DEF IInv, TypeInv, TypeOK, Deleting
    <3>2. \A q \in Requests : Deleting(q) => object'[req[q].id] \subseteq object[req[q].id]
      BY <1>4, <3>1 DEF IInv, TypeInv, TypeOK
    <3>3. \A q \in Requests : Deleting(q)' => Deleting(q) /\ req'[q] = req[q]
      BY DEF Deleting, IInv, TypeInv
    <3> QED
      BY <1>4, <3>2, <3>3 DEF IInv, DeleteInv, Deleting
  <2>5. ListedHasObject'
    BY <1>4, NamesAssumption, LeftTail DEF IInv, TypeInv, TypeOK, IdInv, ObjectInv, DeleteInv,
       ListedHasObject, Uploading, Deleting
  <2>6. UnfinishedDeleteKeepsRow'
    BY <1>4, NamesAssumption, LeftTail DEF IInv, TypeInv, TypeOK, IdInv, ObjectInv, DeleteInv,
       UnfinishedDeleteKeepsRow, Uploading, Deleting
  <2> QED
    BY <2>1, <2>2, <2>3, <2>4, <2>5, <2>6 DEF IInv
<1>5. CASE /\ req[r].at = "delete" /\ req[r].paths = <<>> /\ req[r].loaded
           /\ row' = [row EXCEPT ![req[r].id] = None] /\ UNCHANGED object
  <2>1. TypeInv'
    BY <1>5, NamesAssumption, NothingLeft DEF IInv, TypeInv, TypeOK, Uploading
  <2>2. IdInv'
    BY <1>5, NamesAssumption, NothingLeft DEF IInv, TypeInv, TypeOK, IdInv, Uploading, Deleting
  <2>3. ObjectInv'
    BY <1>5, NamesAssumption, NothingLeft DEF IInv, TypeInv, TypeOK, IdInv, ObjectInv,
       Uploading, Deleting
  <2>4. DeleteInv'
    BY <1>5, NamesAssumption, NothingLeft DEF IInv, TypeInv, TypeOK, IdInv, ObjectInv,
       DeleteInv, Uploading, Deleting
  <2>5. ListedHasObject'
    BY <1>5, NamesAssumption, NothingLeft DEF IInv, TypeInv, TypeOK, IdInv, ObjectInv,
       DeleteInv, ListedHasObject, Uploading, Deleting
  <2>6. UnfinishedDeleteKeepsRow'
    BY <1>5, NamesAssumption, NothingLeft DEF IInv, TypeInv, TypeOK, IdInv, ObjectInv,
       DeleteInv, UnfinishedDeleteKeepsRow, Uploading, Deleting
  <2> QED
    BY <2>1, <2>2, <2>3, <2>4, <2>5, <2>6 DEF IInv
<1> QED
  BY <1>1, <1>2, <1>3, <1>4, <1>5 DEF Fail

\* pg_cron takes a row; a swept artifact is not promised its row.
LEMMA CleanupKeeps ==
    ASSUME IInv, NEW a \in Artifacts, CleanupArtifacts(a)
    PROVE  IInv'
<1>1. TypeInv'
  BY NamesAssumption DEF IInv, CleanupArtifacts, TypeInv, TypeOK
<1>2. IdInv'
  BY NamesAssumption DEF IInv, CleanupArtifacts, TypeInv, TypeOK, IdInv, Uploading, Deleting
<1>3. ObjectInv'
  BY NamesAssumption DEF IInv, CleanupArtifacts, TypeInv, TypeOK, IdInv, ObjectInv, Uploading,
     Deleting
<1>4. DeleteInv'
  BY NamesAssumption DEF IInv, CleanupArtifacts, TypeInv, TypeOK, IdInv, ObjectInv, DeleteInv,
     Uploading, Deleting
<1>5. ListedHasObject'
  BY NamesAssumption DEF IInv, CleanupArtifacts, TypeInv, TypeOK, IdInv, ObjectInv, DeleteInv,
     ListedHasObject, Uploading, Deleting
<1>6. UnfinishedDeleteKeepsRow'
  BY NamesAssumption DEF IInv, CleanupArtifacts, TypeInv, TypeOK, IdInv, ObjectInv, DeleteInv,
     UnfinishedDeleteKeepsRow, Uploading, Deleting
<1> QED
  BY <1>1, <1>2, <1>3, <1>4, <1>5, <1>6 DEF IInv

LEMMA StutterKeeps == IInv /\ UNCHANGED vars => IInv'
<1> SUFFICES ASSUME IInv, UNCHANGED vars PROVE IInv'
  OBVIOUS
<1>1. TypeInv'
  BY DEF IInv, vars, hist, TypeInv, TypeOK
<1>2. IdInv'
  BY DEF IInv, vars, hist, TypeInv, TypeOK, IdInv, Uploading, Deleting
<1>3. ObjectInv'
  BY DEF IInv, vars, hist, TypeInv, TypeOK, IdInv, ObjectInv, Uploading, Deleting
<1>4. DeleteInv'
  BY DEF IInv, vars, hist, TypeInv, TypeOK, IdInv, ObjectInv, DeleteInv, Uploading, Deleting
<1>5. ListedHasObject'
  BY DEF IInv, vars, hist, TypeInv, TypeOK, IdInv, ObjectInv, DeleteInv, ListedHasObject,
     Uploading, Deleting
<1>6. UnfinishedDeleteKeepsRow'
  BY DEF IInv, vars, hist, TypeInv, TypeOK, IdInv, ObjectInv, DeleteInv,
     UnfinishedDeleteKeepsRow, Uploading, Deleting
<1> QED
  BY <1>1, <1>2, <1>3, <1>4, <1>5, <1>6 DEF IInv

LEMMA NextKeeps == IInv /\ [Next]_vars => IInv'
<1> SUFFICES ASSUME IInv, Next PROVE IInv'
  BY StutterKeeps
<1>1. ASSUME NEW r \in Requests, NEW a \in Artifacts, NEW suffix \in Suffixes,
             BeginUpload(r, a, suffix)
      PROVE  IInv'
  BY <1>1, BeginUploadKeeps
<1>2. ASSUME NEW r \in Requests, UploadObject(r) \/ InsertRow(r)
      PROVE  IInv'
  BY <1>2, UploadObjectKeeps, InsertRowKeeps
<1>3. ASSUME NEW r \in Requests, NEW a \in Artifacts, BeginDelete(r, a)
      PROVE  IInv'
  BY <1>3, BeginDeleteKeeps
<1>4. ASSUME NEW r \in Requests, DeleteObject(r) \/ DeleteRow(r)
      PROVE  IInv'
  BY <1>4, DeleteObjectKeeps, DeleteRowKeeps
<1>5. ASSUME NEW r \in Requests, Fail(r) \/ Respond(r)
      PROVE  IInv'
  BY <1>5, FailKeeps, RespondKeeps
<1>6. ASSUME NEW a \in Artifacts, CleanupArtifacts(a)
      PROVE  IInv'
  BY <1>6, CleanupKeeps
<1> QED
  BY <1>1, <1>2, <1>3, <1>4, <1>5, <1>6 DEF Next

-----------------------------------------------------------------------------
\* What uploads, deletes and sweeps keep true of artifacts, for any number of
\* them and any overlap: the invariant all that follows rests on.
THEOREM StoreInvariant == Spec => []IInv
<1> QED
  BY InitInv, NextKeeps, PTL DEF Spec

\* TypeOK: rows, objects and requests have the form the code gives them.
THEOREM TypeCorrect == Spec => []TypeOK
<1>1. IInv => TypeOK
  BY DEF IInv, TypeInv
<1> QED
  BY <1>1, StoreInvariant, PTL

\* ListedHasObject: what GET /artifacts/{id} finds has its object, although the
\* row and the object are changed by calls that fail one by one.
THEOREM ListedArtifactsHaveObjects == Spec => []ListedHasObject
<1>1. IInv => ListedHasObject
  BY DEF IInv
<1> QED
  BY <1>1, StoreInvariant, PTL

\* UnfinishedDeleteKeepsRow: a delete that stopped half way can be repeated.
THEOREM DeletesCanBeRepeated == Spec => []UnfinishedDeleteKeepsRow
<1>1. IInv => UnfinishedDeleteKeepsRow
  BY DEF IInv
<1> QED
  BY <1>1, StoreInvariant, PTL

\* DeleteRemovesWhatItFinds: 204 means gone, for an image and for an artifact
\* whose row the delete found.
THEOREM DeletedMeansGone == Spec => []DeleteRemovesWhatItFinds
<1>1. IInv => DeleteRemovesWhatItFinds
  BY DEF IInv, DeleteInv, DeleteRemovesWhatItFinds
<1> QED
  BY <1>1, StoreInvariant, PTL
=============================================================================
