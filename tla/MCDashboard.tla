----------------------------- MODULE MCDashboard -----------------------------
(* Small instances of Dashboard for TLC.                                   *)
EXTENDS Dashboard, TLC

CONSTANTS ann, bob, k1, k2, k3, k4, alpha, box

Named(name, key) == [name |-> name, key |-> key]

\* The keys of a producer and of Demo Reel, listed or not, and of a worker.
Machines ==
    [service : {<<Named(alpha, k1)>>, <<Named(DemoReel, k2), Named(alpha, k1)>>},
     worker : {<<Named(box, k3)>>}, demo : {None, k1, k2}, required : BOOLEAN]

NoHumans == [auth |-> FALSE, admins |-> {}, publishable |-> FALSE]

Enforcing == [service |-> <<Named(alpha, k1)>>, worker |-> <<Named(box, k3)>>,
              demo |-> None, required |-> TRUE]

\* Every deployment of keys without authentication, and with one every one of
\* administrators, so that a run can visit all of them.
Tried ==
    {m @@ NoHumans : m \in Machines}
      \cup {Enforcing @@ h : h \in [auth : {TRUE}, admins : {{}, {ann}, {ann, bob}},
                                    publishable : {TRUE}]}
=============================================================================
