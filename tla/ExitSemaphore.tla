--------------------------- MODULE ExitSemaphore ---------------------------
(***************************************************************************)
(* What the limiter promises to its callers about concurrency: one counting *)
(* semaphore per exit.  A caller holds at most one exit, never more than    *)
(* Capacity callers hold the same one, and a caller gives back exactly the  *)
(* exit it was given.                                                       *)
(***************************************************************************)
EXTENDS Naturals, FiniteSets

CONSTANTS Requests, Exits, NoExit, Capacity

VARIABLE holding

HoldersOf(e) == {r \in Requests : holding[r] = e}

Init == holding = [r \in Requests |-> NoExit]

Acquire(r, e) ==
    /\ holding[r] = NoExit
    /\ Cardinality(HoldersOf(e)) < Capacity
    /\ holding' = [holding EXCEPT ![r] = e]

Release(r) ==
    /\ holding[r] # NoExit
    /\ holding' = [holding EXCEPT ![r] = NoExit]

Next ==
    \/ \E r \in Requests, e \in Exits : Acquire(r, e)
    \/ \E r \in Requests : Release(r)

Spec == Init /\ [][Next]_holding
=============================================================================
