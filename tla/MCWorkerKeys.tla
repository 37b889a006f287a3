---------------------------- MODULE MCWorkerKeys ----------------------------
(* Small instances of WorkerKeys for TLC.                                  *)
EXTENDS WorkerKeys, TLC

CONSTANTS k1, k2, k3, u1, p1, h1, h2

\* The requests share the cache of one process.
OneProcess == [h \in Threads |-> p1]

KeysAreInterchangeable == Permutations(Keys)
=============================================================================
