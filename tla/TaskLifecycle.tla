--------------------------- MODULE TaskLifecycle ---------------------------
(***************************************************************************)
(* What the queue promises a producer and a worker about one set of tasks, *)
(* with no rows, requests, leases or clock: a task waits, is held under    *)
(* one claim at a time, may lose that claim at any moment and be held      *)
(* again under a new one, and ends with an outcome delivered under some    *)
(* claim that was made of it.  After its retention it is forgotten.        *)
(*                                                                         *)
(* The promise is at-least-once: a claim that was lost may still deliver,  *)
(* and a later delivery may replace an earlier one.                        *)
(***************************************************************************)
CONSTANTS Tasks, Tokens, None

VARIABLES
    status,   \* where each task is in its life
    holder,   \* the claim each task is held under, None if none
    outcome,  \* the claims that delivered its result and its error
    claimOf   \* the task each claim was made of, None: not made yet

lifecycleVars == <<status, holder, outcome, claimOf>>

NoOutcome == [result |-> None, error |-> None]

Init ==
    /\ status = [t \in Tasks |-> "unborn"]
    /\ holder = [t \in Tasks |-> None]
    /\ outcome = [t \in Tasks |-> NoOutcome]
    /\ claimOf = [k \in Tokens |-> None]

Submit(t) ==
    /\ status[t] = "unborn"
    /\ status' = [status EXCEPT ![t] = "queued"]
    /\ UNCHANGED <<holder, outcome, claimOf>>

\* The claims in `lost` end, and a waiting task is held under a new claim k.
Assign(t, k, lost) ==
    /\ \A u \in lost : status[u] = "claimed"
    /\ status[t] = "queued" \/ t \in lost
    /\ claimOf[k] = None
    /\ status' = [u \in Tasks |-> IF u = t THEN "claimed"
                                  ELSE IF u \in lost THEN "queued" ELSE status[u]]
    /\ holder' = [u \in Tasks |-> IF u = t THEN k
                                  ELSE IF u \in lost THEN None ELSE holder[u]]
    /\ claimOf' = [claimOf EXCEPT ![k] = t]
    /\ UNCHANGED outcome

\* A claim of the task, present or past, delivers its result or its error.
Deliver(t, k) ==
    /\ claimOf[k] = t
    /\ status[t] \notin {"unborn", "deleted"}
    /\ \/ /\ status' = [status EXCEPT ![t] = "done"]
          /\ outcome' = [outcome EXCEPT ![t].result = k]
       \/ /\ status' = [status EXCEPT ![t] = "failed"]
          /\ outcome' = [outcome EXCEPT ![t].error = k]
    /\ UNCHANGED <<holder, claimOf>>

Forget(gone) ==
    /\ \A t \in gone : status[t] \notin {"unborn", "deleted"}
    /\ status' = [t \in Tasks |-> IF t \in gone THEN "deleted" ELSE status[t]]
    /\ holder' = [t \in Tasks |-> IF t \in gone THEN None ELSE holder[t]]
    /\ outcome' = [t \in Tasks |-> IF t \in gone THEN NoOutcome ELSE outcome[t]]
    /\ UNCHANGED claimOf

Next ==
    \/ \E t \in Tasks : Submit(t)
    \/ \E t \in Tasks, k \in Tokens, lost \in SUBSET Tasks : Assign(t, k, lost)
    \/ \E t \in Tasks, k \in Tokens : Deliver(t, k)
    \/ \E gone \in SUBSET Tasks : Forget(gone)

Spec == Init /\ [][Next]_lifecycleVars
=============================================================================
