-------------------------- MODULE MCArtifactStore --------------------------
(* Small instances of ArtifactStore for TLC.                               *)
EXTENDS ArtifactStore, TLC

CONSTANTS a1, a2, r1, r2

ArtifactsAreInterchangeable == Permutations(Artifacts) \cup Permutations(Requests)
=============================================================================
