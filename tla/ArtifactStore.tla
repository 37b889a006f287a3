---------------------------- MODULE ArtifactStore ----------------------------
(***************************************************************************)
(* Artifacts: the rows of the table artifacts and the objects of the       *)
(* storage bucket.  The two are changed by separate calls, so an upload or *)
(* a delete may stop between them, and pg_cron removes rows only.          *)
(*                                                                         *)
(* Each request is its calls in the code's order; a request may fail at    *)
(* any call: HTTP error, lost answer of a call that was served, database   *)
(* error, or the process going away.                                       *)
(***************************************************************************)
EXTENDS Integers, Sequences

CONSTANTS
    Artifacts,    \* ids upload_artifact may generate (uuid4: each used once)
    Suffixes,     \* the suffixes object_path gives: ".png", ".jpg", ".webp", ""
    Requests,     \* requests that run at once (BOUND)
    None

\* delete_artifact_files tries these before the row's storage_path.
KnownSuffixes == <<".png", ".webp", ".jpg">>

ASSUME NamesAssumption == None \notin Artifacts \cup Suffixes

VARIABLES
    row,      \* artifacts: the suffix of storage_path; None: no row
    object,   \* the bucket: the suffixes under which an id has an object
    id,       \* each id: unused, taken by an upload, or known to clients
    req,      \* what each request is doing
    doomed,   \* history: ids a delete was begun for
    swept     \* history: ids whose row pg_cron removed

vars == <<row, object, id, req, doomed, swept>>
hist == <<doomed, swept>>

NoRequest == [at |-> "idle", id |-> None, suffix |-> None, paths |-> <<>>, loaded |-> FALSE]

Goto(r, at) == req' = [req EXCEPT ![r].at = at]

-----------------------------------------------------------------------------
(* upload_artifact: generate an id, upload the object, insert the row.     *)

BeginUpload(r, a, suffix) ==
    /\ req[r].at = "idle"
    /\ id[a] = "unused"
    /\ id' = [id EXCEPT ![a] = "taken"]
    /\ req' = [req EXCEPT ![r] = [NoRequest EXCEPT !.at = "upload", !.id = a, !.suffix = suffix]]
    /\ UNCHANGED <<row, object, hist>>

\* Mutant: the row is inserted first.
InsertRowFirst(r) ==
    /\ req[r].at = "upload"
    /\ row' = [row EXCEPT ![req[r].id] = req[r].suffix]
    /\ Goto(r, "insert")
    /\ UNCHANGED <<object, id, hist>>

\* storage.upload, answered with success.
UploadObject(r) ==
    /\ req[r].at = "upload"
    /\ object' = [object EXCEPT ![req[r].id] = @ \cup {req[r].suffix}]
    /\ Goto(r, "insert")
    /\ UNCHANGED <<row, id, hist>>

\* Mutant: storage_path is the bare id.
InsertRowWithoutSuffix(r) ==
    /\ req[r].at = "insert"
    /\ row' = [row EXCEPT ![req[r].id] = req[r].id]
    /\ id' = [id EXCEPT ![req[r].id] = "known"]
    /\ Goto(r, "uploaded")
    /\ UNCHANGED <<object, hist>>

\* The row, and with it the answer that tells the id.
InsertRow(r) ==
    /\ req[r].at = "insert"
    /\ row' = [row EXCEPT ![req[r].id] = req[r].suffix]
    /\ id' = [id EXCEPT ![req[r].id] = "known"]
    /\ Goto(r, "uploaded")
    /\ UNCHANGED <<object, hist>>

-----------------------------------------------------------------------------
(* delete_artifact_files: load the row, delete the objects it may have     *)
(* under the known suffixes and under its storage_path, delete the row.    *)

\* Mutant: only the suffixes of images are tried.
PathsOfImages(suffix) == KnownSuffixes

PathsOf(suffix) ==
    IF suffix = None \/ \E i \in 1 .. Len(KnownSuffixes) : KnownSuffixes[i] = suffix
    THEN KnownSuffixes
    ELSE Append(KnownSuffixes, suffix)

BeginDelete(r, a) ==
    /\ req[r].at = "idle"
    /\ id[a] = "known"
    /\ doomed' = doomed \cup {a}
    /\ req' = [req EXCEPT ![r] = [at |-> "delete", id |-> a, suffix |-> None,
                                  paths |-> PathsOf(row[a]), loaded |-> row[a] # None]]
    /\ UNCHANGED <<row, object, id, swept>>

\* Mutant: the row goes first.
DeleteObjectAfterRow(r) ==
    /\ req[r].at = "delete"
    /\ req[r].paths # <<>>
    /\ object' = [object EXCEPT ![req[r].id] = @ \ {Head(req[r].paths)}]
    /\ req' = [req EXCEPT ![r].paths = Tail(@)]
    /\ row' = IF req[r].loaded THEN [row EXCEPT ![req[r].id] = None] ELSE row
    /\ UNCHANGED <<id, hist>>

\* storage.delete: an object that is not there (400, 404) is no error.
DeleteObject(r) ==
    /\ req[r].at = "delete"
    /\ req[r].paths # <<>>
    /\ object' = [object EXCEPT ![req[r].id] = @ \ {Head(req[r].paths)}]
    /\ req' = [req EXCEPT ![r].paths = Tail(@)]
    /\ UNCHANGED <<row, id, hist>>

\* The row goes last, if it was there when the request began: 204.
DeleteRow(r) ==
    /\ req[r].at = "delete"
    /\ req[r].paths = <<>>
    /\ row' = IF req[r].loaded THEN [row EXCEPT ![req[r].id] = None] ELSE row
    /\ Goto(r, "deleted")
    /\ UNCHANGED <<object, id, hist>>

-----------------------------------------------------------------------------
\* A call fails and the request with it: the call had no effect, or its effect
\* and no answer.
Fail(r) ==
    /\ \/ req[r].at \in {"upload", "insert", "delete"} /\ UNCHANGED <<row, object>>
       \/ /\ req[r].at = "upload"
          /\ object' = [object EXCEPT ![req[r].id] = @ \cup {req[r].suffix}]
          /\ UNCHANGED row
       \/ /\ req[r].at = "insert"
          /\ row' = [row EXCEPT ![req[r].id] = req[r].suffix]
          /\ UNCHANGED object
       \/ /\ req[r].at = "delete" /\ req[r].paths # <<>>
          /\ object' = [object EXCEPT ![req[r].id] = @ \ {Head(req[r].paths)}]
          /\ UNCHANGED row
       \/ /\ req[r].at = "delete" /\ req[r].paths = <<>> /\ req[r].loaded
          /\ row' = [row EXCEPT ![req[r].id] = None]
          /\ UNCHANGED object
    /\ req' = [req EXCEPT ![r] = NoRequest]
    /\ UNCHANGED <<id, hist>>

Respond(r) ==
    /\ req[r].at \in {"uploaded", "deleted"}
    /\ req' = [req EXCEPT ![r] = NoRequest]
    /\ UNCHANGED <<row, object, id, hist>>

\* pg_cron: rows past their expires_at; the objects stay.
CleanupArtifacts(a) ==
    /\ row[a] # None
    /\ row' = [row EXCEPT ![a] = None]
    /\ swept' = swept \cup {a}
    /\ UNCHANGED <<object, id, req, doomed>>

Init ==
    /\ row = [a \in Artifacts |-> None]
    /\ object = [a \in Artifacts |-> {}]
    /\ id = [a \in Artifacts |-> "unused"]
    /\ req = [r \in Requests |-> NoRequest]
    /\ doomed = {}
    /\ swept = {}

Next ==
    \/ \E r \in Requests :
         \/ \E a \in Artifacts, suffix \in Suffixes : BeginUpload(r, a, suffix)
         \/ UploadObject(r) \/ InsertRow(r)
         \/ \E a \in Artifacts : BeginDelete(r, a)
         \/ DeleteObject(r) \/ DeleteRow(r)
         \/ Fail(r) \/ Respond(r)
    \/ \E a \in Artifacts : CleanupArtifacts(a)

Spec == Init /\ [][Next]_vars

-----------------------------------------------------------------------------
TypeOK ==
    /\ row \in [Artifacts -> Suffixes \cup {None}]
    /\ object \in [Artifacts -> SUBSET Suffixes]
    /\ id \in [Artifacts -> {"unused", "taken", "known"}]
    /\ doomed \subseteq Artifacts /\ swept \subseteq Artifacts
    /\ \A r \in Requests :
         /\ req[r].at \in {"idle", "upload", "insert", "uploaded", "delete", "deleted"}
         /\ req[r].at # "idle" => req[r].id \in Artifacts
         /\ req[r].at \in {"upload", "insert"} => req[r].suffix \in Suffixes

Known == {KnownSuffixes[i] : i \in 1 .. Len(KnownSuffixes)}

\* An artifact that GET /artifacts/{id} finds has the object its url points to,
\* unless a producer asked for its deletion, whatever calls failed.
ListedHasObject ==
    \A a \in Artifacts : row[a] # None /\ a \notin doomed => row[a] \in object[a]

\* A delete that stopped half way can be repeated: while an artifact that was
\* stored, and not swept, has an object left, its row is there to find it by.
UnfinishedDeleteKeepsRow ==
    \A a \in Artifacts :
        id[a] = "known" /\ a \notin swept /\ object[a] # {} => row[a] # None

\* 204 means gone for an artifact stored as an image, or whose row the request
\* found: no row, and no object, although other deletes and sweeps ran beside it.
DeleteRemovesWhatItFinds ==
    \A r \in Requests :
        req[r].at = "deleted" =>
            /\ row[req[r].id] = None
            /\ object[req[r].id] \cap Known = {}
            /\ req[r].loaded => object[req[r].id] = {}

\* README.md: producers "can permanently remove an artifact", and 204 is
\* returned "when the artifact is deleted or already gone".
DeleteIsPermanent ==
    \A r \in Requests :
        req[r].at = "deleted" => row[req[r].id] = None /\ object[req[r].id] = {}
=============================================================================
