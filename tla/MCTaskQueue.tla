---------------------------- MODULE MCTaskQueue ----------------------------
(* Small instances of TaskQueue for TLC.                                   *)
EXTENDS TaskQueueRefinement, TLC

CONSTANTS t1, t2, w1, w2, s1, s2, s3, u1, u2, k1, k2, k3, c1, c2, image, text

\* The type of each task, and the types each worker asks for.
AllImage == [t \in Tasks |-> image]
ImageThenText == (t1 :> image) @@ (t2 :> text)
AllServeAll == [w \in Workers |-> Types]
ImageOrAll == (w1 :> {image}) @@ (w2 :> {image, text})

\* The owner of the key each process uses: the operator alone, the operator
\* and two users with one process each.
OperatorKeys == [s \in Sessions |-> None]
TwoUsersAndOperator ==
    [s \in Sessions |-> IF s = s1 THEN u1 ELSE IF s = s2 THEN u2 ELSE None]

NoOverride == {None}

\* Tokens and connections are interchangeable in every instance.
Symmetry == Permutations(Tokens) \cup Permutations(Conns)
=============================================================================
