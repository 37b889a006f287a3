---------------------------- MODULE MCWorkerLoop ----------------------------
(* Small instances of WorkerLoop for TLC.                                  *)
EXTENDS WorkerLoop, TLC

CONSTANTS t1, p1, p2, w1, w2

\* Processes of two workers; a worker and the process that replaces it.
OwnIds == (p1 :> w1) @@ (p2 :> w2)
SharedId == [p \in Processes |-> w1]

BothAssignments == {OwnIds, SharedId}

\* A call is lost only where the ids are distinct: the two together have more
\* states than a run can visit.
Losses == (OwnIds :> 1) @@ (SharedId :> 0)
=============================================================================
