--------------------------- MODULE ExclusiveLeases ---------------------------
(***************************************************************************)
(* What the lease manager promises: a run holds a complete set of targets  *)
(* or none, and two runs never hold the same target.                       *)
(***************************************************************************)
CONSTANTS Runs, Requests, NoGrant

VARIABLE holds      \* the request each run holds, or NoGrant

Init == holds = [r \in Runs |-> NoGrant]

\* A run that holds nothing takes all it asks for, if nobody holds any of it.
Take(r, request) ==
    /\ holds[r] = NoGrant
    /\ \A s \in Runs : holds[s] # NoGrant => holds[s] \cap request = {}
    /\ holds' = [holds EXCEPT ![r] = request]

Give(r) ==
    /\ holds[r] # NoGrant
    /\ holds' = [holds EXCEPT ![r] = NoGrant]

Next == \E r \in Runs : Give(r) \/ \E request \in Requests : Take(r, request)

Spec == Init /\ [][Next]_holds
=============================================================================
