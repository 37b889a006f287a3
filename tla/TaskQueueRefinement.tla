------------------------ MODULE TaskQueueRefinement ------------------------
(* TaskQueue, with its split requests and its clock, implements            *)
(* TaskLifecycle: the columns status, claim_token, result and error of a   *)
(* row are the life of its task, and the tokens issued are its claims.     *)
EXTENDS TaskQueue

Lifecycle == INSTANCE TaskLifecycle WITH
    status  <- [t \in Tasks |-> task[t].status],
    holder  <- [t \in Tasks |-> task[t].token],
    outcome <- [t \in Tasks |-> [result |-> task[t].result, error |-> task[t].error]],
    claimOf <- [k \in Tokens |-> grant[k].task]

\* Every behaviour of the service is one the producers and the workers were
\* promised: each commit is one step of the lifecycle or none.
ImplementsLifecycle == Lifecycle!Spec
=============================================================================
