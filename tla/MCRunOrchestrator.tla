------------------------- MODULE MCRunOrchestrator -------------------------
(* Instances of RunOrchestrator for TLC. *)
EXTENDS RunOrchestrator, TLC

CONSTANTS r1, r2, w1, w2, zone1, zone2

\* A run of two phases, the first on both workers, and one that needs one of them.
\* Each robot declares a safety domain, which every run on it leases.
TwoPhases == (r1 :> <<{w1, w2}, {w2}>>) @@ (r2 :> <<{w2}>>)
TwoDomains == (r1 :> {zone1, zone2}) @@ (r2 :> {zone2})

\* Callers cancel a run at any await.
AnyAwait == Gathering \cup Waiting
=============================================================================
