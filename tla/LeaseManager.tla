---------------------------- MODULE LeaseManager ----------------------------
(***************************************************************************)
(* remote_robot/lease.py: the manager keeps two tables under one lock, the *)
(* owner of every target and the grant of every run.  Targets are leaves,  *)
(* resources and safety domains alike.  An operation that returns an older *)
(* grant, or raises, changes nothing and is no action here.                *)
(***************************************************************************)

CONSTANTS
    Runs,       \* run ids
    Targets,    \* LeaseTarget: leaves, resources and safety domains
    Requests,   \* lock sets that runs may ask for
    NoRun,      \* a target without owner
    NoGrant     \* a run without grant

ASSUME LeaseAssumption ==
    /\ NoRun \notin Runs
    /\ Requests \subseteq SUBSET Targets
    /\ \A request \in Requests : request # NoGrant

VARIABLES
    owners,     \* LeaseManager._owners
    grants      \* LeaseManager._grants

leaseVars == <<owners, grants>>

-----------------------------------------------------------------------------
Init ==
    /\ owners = [t \in Targets |-> NoRun]
    /\ grants = [r \in Runs |-> NoGrant]

\* Faulty variant of Conflicts: only the first target is looked up.
ConflictsFirst(r, request) ==
    request # {} /\ owners[CHOOSE t \in request : TRUE] \notin {NoRun, r}

Conflicts(r, request) == \E t \in request : owners[t] \notin {NoRun, r}

\* acquire: all of the request or none of it.
Acquire(r, request) ==
    /\ grants[r] = NoGrant
    /\ ~Conflicts(r, request)
    /\ owners' = [t \in Targets |-> IF t \in request THEN r ELSE owners[t]]
    /\ grants' = [grants EXCEPT ![r] = request]

\* Faulty variant of Release: the owners' table keeps its entries.
ReleaseGrantOnly(r) ==
    /\ grants[r] # NoGrant
    /\ grants' = [grants EXCEPT ![r] = NoGrant]
    /\ UNCHANGED owners

\* release: exactly what the run's grant names, and only where it is the owner.
Release(r) ==
    /\ grants[r] # NoGrant
    /\ owners' = [t \in Targets |->
                     IF t \in grants[r] /\ owners[t] = r THEN NoRun ELSE owners[t]]
    /\ grants' = [grants EXCEPT ![r] = NoGrant]

Next == \E r \in Runs : Release(r) \/ \E request \in Requests : Acquire(r, request)

Spec == Init /\ [][Next]_leaseVars

-----------------------------------------------------------------------------
(* Properties. *)

TypeOK ==
    /\ owners \in [Targets -> Runs \cup {NoRun}]
    /\ grants \in [Runs -> Requests \cup {NoGrant}]

\* The two tables of the manager say the same: a run owns exactly the targets of
\* its grant.  Nothing is leaked by a release and nothing is held in part.
OwnersMatchGrants ==
    \A r \in Runs, t \in Targets :
        owners[t] = r <=> grants[r] # NoGrant /\ t \in grants[r]

Abstract == INSTANCE ExclusiveLeases WITH holds <- grants

\* acquire and release on the two tables implement exclusive leases: a lookup in
\* the owners' table is as good as a comparison with every grant.
ImplementsExclusiveLeases == Abstract!Spec
=============================================================================
