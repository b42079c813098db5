------------------------- MODULE RunAdmissionProofs -------------------------
(***************************************************************************)
(* Proofs about what runs are admitted to.  First the lease manager by     *)
(* itself: it implements exclusive leases.  Then the admission of runs,    *)
(* for any registries, restarts, templates and edited programs: what is    *)
(* under way fits the robots as registered, no two runs share a leaf or a  *)
(* lock, and a program is refused if and only if something at or below     *)
(* its root has changed.                                                   *)
(***************************************************************************)
EXTENDS RunAdmission, NumberInduction, SequenceTheorems, FiniteSetTheorems

-----------------------------------------------------------------------------
(* The lease manager. *)

\* The two tables agree, and have their types: inductive as it stands.
LeaseInv == TypeOK /\ OwnersMatchGrants

\* Empty tables agree.
LEMMA LeaseInvInit == Init => LeaseInv
BY LeaseAssumption DEF Init, LeaseInv, TypeOK, OwnersMatchGrants

\* acquire keeps the tables in agreement: it writes an owner only where the
\* target was free.
LEMMA AcquireKeepsInv ==
    ASSUME LeaseInv, NEW r \in Runs, NEW request \in Requests, Acquire(r, request)
    PROVE  LeaseInv'
<1>1. /\ grants[r] = NoGrant
      /\ \A t \in request : owners[t] \in {NoRun, r}
      /\ owners' = [t \in Targets |-> IF t \in request THEN r ELSE owners[t]]
      /\ grants' = [grants EXCEPT ![r] = request]
  BY DEF Acquire, Conflicts
<1>2. request \subseteq Targets /\ request # NoGrant
  BY LeaseAssumption
<1>3. TypeOK'
  BY <1>1 DEF LeaseInv, TypeOK
<1>4. OwnersMatchGrants'
  <2> SUFFICES ASSUME NEW s \in Runs, NEW t \in Targets
               PROVE  owners'[t] = s <=> grants'[s] # NoGrant /\ t \in grants'[s]
    BY DEF OwnersMatchGrants
  <2>1. owners[t] = s <=> grants[s] # NoGrant /\ t \in grants[s]
    BY DEF LeaseInv, OwnersMatchGrants
  <2>2. owners'[t] = IF t \in request THEN r ELSE owners[t]
    BY <1>1
  <2>3. grants'[s] = IF s = r THEN request ELSE grants[s]
    BY <1>1 DEF LeaseInv, TypeOK
  <2>4. t \in request => owners[t] \in {NoRun, r}
    BY <1>1
  <2> QED
    BY <1>1, <1>2, <2>1, <2>2, <2>3, <2>4, LeaseAssumption
<1> QED
  BY <1>3, <1>4 DEF LeaseInv

\* release keeps the tables in agreement: it clears an owner only where the run is it.
LEMMA ReleaseKeepsInv ==
    ASSUME LeaseInv, NEW r \in Runs, Release(r)
    PROVE  LeaseInv'
<1>1. TypeOK'
  BY DEF LeaseInv, TypeOK, Release
<1>2. OwnersMatchGrants'
  <2> SUFFICES ASSUME NEW s \in Runs, NEW t \in Targets
               PROVE  owners'[t] = s <=> grants'[s] # NoGrant /\ t \in grants'[s]
    BY DEF OwnersMatchGrants
  <2>1. owners[t] = s <=> grants[s] # NoGrant /\ t \in grants[s]
    BY DEF LeaseInv, OwnersMatchGrants
  <2>2. owners[t] = r <=> grants[r] # NoGrant /\ t \in grants[r]
    BY DEF LeaseInv, OwnersMatchGrants
  <2>3. owners'[t] = IF t \in grants[r] /\ owners[t] = r THEN NoRun ELSE owners[t]
    BY DEF Release
  <2>4. grants'[s] = IF s = r THEN NoGrant ELSE grants[s]
    BY DEF Release, LeaseInv, TypeOK
  <2>5. grants[r] # NoGrant
    BY DEF Release
  <2> QED
    BY <2>1, <2>2, <2>3, <2>4, <2>5, LeaseAssumption
<1> QED
  BY <1>1, <1>2 DEF LeaseInv

\* So does every step of the manager.
LEMMA LeaseInvNext == LeaseInv /\ [Next]_leaseVars => LeaseInv'
<1> SUFFICES ASSUME LeaseInv, [Next]_leaseVars
             PROVE  LeaseInv'
  OBVIOUS
<1>1. CASE UNCHANGED leaseVars
  BY <1>1 DEF leaseVars, LeaseInv, TypeOK, OwnersMatchGrants
<1>2. CASE Next
  BY <1>2, AcquireKeepsInv, ReleaseKeepsInv DEF Next
<1> QED
  BY <1>1, <1>2

\* The inductive invariant of the lease manager: types and agreement of the tables.
THEOREM LeaseInvariant == Spec => []LeaseInv
BY LeaseInvInit, LeaseInvNext, PTL DEF Spec

\* A run owns exactly the targets of its grant, whatever was acquired, refused
\* and released before.
THEOREM TablesAgree == Spec => []OwnersMatchGrants
BY LeaseInvariant, PTL DEF LeaseInv

\* A lookup in the owners' table is as good as a comparison with every grant:
\* a request without conflicts is disjoint from all that others hold.
LEMMA AcquireImplementsTake ==
    ASSUME LeaseInv, NEW r \in Runs, NEW request \in Requests, Acquire(r, request)
    PROVE  Abstract!Take(r, request)
<1>1. \A s \in Runs : grants[s] # NoGrant => grants[s] \cap request = {}
  <2> SUFFICES ASSUME NEW s \in Runs, grants[s] # NoGrant,
                      NEW t \in grants[s], t \in request
               PROVE  FALSE
    OBVIOUS
  <2>1. t \in Targets
    BY LeaseAssumption
  <2>2. owners[t] = s
    BY <2>1 DEF LeaseInv, OwnersMatchGrants
  <2>3. s = r
    BY <2>2, LeaseAssumption DEF Acquire, Conflicts
  <2> QED
    BY <2>3 DEF Acquire
<1> QED
  BY <1>1 DEF Acquire, Abstract!Take

\* The manager with its two tables implements exclusive leases: every run holds
\* its whole request or nothing, and no two runs hold the same target.
THEOREM LeaseManagerImplementsExclusiveLeases == Spec => ImplementsExclusiveLeases
<1>1. Init => Abstract!Init
  BY DEF Init, Abstract!Init
<1>2. LeaseInv /\ [Next]_leaseVars => [Abstract!Next]_grants
  <2> SUFFICES ASSUME LeaseInv, [Next]_leaseVars
               PROVE  [Abstract!Next]_grants
    OBVIOUS
  <2>1. ASSUME NEW r \in Runs, Release(r) PROVE Abstract!Next
    BY <2>1 DEF Release, Abstract!Next, Abstract!Give
  <2>2. ASSUME NEW r \in Runs, NEW request \in Requests, Acquire(r, request)
        PROVE  Abstract!Next
    BY <2>2, AcquireImplementsTake DEF Abstract!Next
  <2>3. CASE UNCHANGED leaseVars
    BY <2>3 DEF leaseVars
  <2> QED
    BY <2>1, <2>2, <2>3 DEF Next
<1> QED
  BY <1>1, <1>2, LeaseInvariant, PTL DEF Spec, Abstract!Spec, ImplementsExclusiveLeases

-----------------------------------------------------------------------------
(* Role paths. *)

\* The walk down a role path is what its recursion says.
LEMMA WalkExists ==
    ASSUME NEW reg, NEW n, NEW roles, Len(roles) \in Nat
    PROVE  Walk(reg, n, roles) =
              [i \in 0 .. Len(roles) |->
                  IF i = 0 THEN {n} ELSE Follow(reg, Walk(reg, n, roles)[i - 1], roles[i])]
<1> DEFINE P(f, k) ==
              f = [i \in 0 .. k |-> IF i = 0 THEN {n} ELSE Follow(reg, f[i - 1], roles[i])]
           S == {k \in Nat : \E f : P(f, k)}
<1>1. 0 \in S
  <2> DEFINE g == [i \in 0 .. 0 |-> {n}]
  <2>1. P(g, 0)
    OBVIOUS
  <2> QED
    BY <2>1
<1>2. ASSUME NEW k \in 0 .. Len(roles) - 1, k \in S PROVE k + 1 \in S
  <2>1. PICK f : P(f, k)
    BY <1>2
  <2> DEFINE g == [i \in 0 .. k + 1 |->
                      IF i = k + 1 THEN Follow(reg, f[k], roles[k + 1]) ELSE f[i]]
             h == [i \in 0 .. k + 1 |-> IF i = 0 THEN {n} ELSE Follow(reg, g[i - 1], roles[i])]
  <2>2. k \in Nat /\ k + 1 \in Nat
    OBVIOUS
  <2>3. ASSUME NEW i \in 0 .. k + 1 PROVE g[i] = h[i]
    <3>1. CASE i = k + 1
      <4>1. g[i] = Follow(reg, f[k], roles[k + 1])
        BY <2>2, <3>1
      <4>2. i # 0 /\ i - 1 = k /\ k \in 0 .. k + 1 /\ k # k + 1
        BY <2>2, <3>1
      <4>3. g[i - 1] = f[k]
        BY <4>2
      <4> QED
        BY <3>1, <4>1, <4>2, <4>3
    <3>2. CASE i # k + 1
      <4>1. i \in 0 .. k /\ g[i] = f[i]
        BY <2>2, <3>2
      <4>2. f[i] = IF i = 0 THEN {n} ELSE Follow(reg, f[i - 1], roles[i])
        BY <2>1, <4>1
      <4>3. i # 0 => i - 1 \in 0 .. k + 1 /\ i - 1 # k + 1
        BY <2>2, <4>1
      <4>4. i # 0 => g[i - 1] = f[i - 1]
        BY <4>3
      <4> QED
        BY <4>1, <4>2, <4>4
    <3> QED
      BY <3>1, <3>2
  <2>4. g = h
    BY <2>3
  <2>5. P(g, k + 1)
    BY <2>4
  <2> HIDE DEF g, h, P
  <2> QED
    BY <2>2, <2>5
<1>3. \A k \in 0 .. Len(roles) : k \in S
  <2> HIDE DEF S
  <2>1. 0 \in Nat /\ \A k \in 0 .. Len(roles) - 1 : k \in S => k + 1 \in S
    BY <1>2
  <2> QED
    BY <1>1, <2>1, IntervalInduction
<1>4. \E f : P(f, Len(roles))
  <2>1. Len(roles) \in S
    <3> HIDE DEF S
    <3>1. Len(roles) \in 0 .. Len(roles)
      OBVIOUS
    <3> QED
      BY <1>3, <3>1
  <2> HIDE DEF P
  <2> QED
    BY <2>1
<1>5. Walk(reg, n, roles) = CHOOSE f : P(f, Len(roles))
  BY DEF Walk
<1>6. P(Walk(reg, n, roles), Len(roles))
  <2> HIDE DEF P
  <2> QED
    BY <1>4, <1>5
<1> QED
  BY <1>6

\* The walk, place by place.
LEMMA WalkSteps ==
    ASSUME NEW reg, NEW n, NEW roles, Len(roles) \in Nat
    PROVE  /\ DOMAIN Walk(reg, n, roles) = 0 .. Len(roles)
           /\ Walk(reg, n, roles)[0] = {n}
           /\ \A i \in 0 .. Len(roles) - 1 :
                 Walk(reg, n, roles)[i + 1] =
                    Follow(reg, Walk(reg, n, roles)[i], roles[i + 1])
<1> DEFINE at == Walk(reg, n, roles)
<1>1. at = [i \in 0 .. Len(roles) |->
               IF i = 0 THEN {n} ELSE Follow(reg, at[i - 1], roles[i])]
  BY WalkExists
<1> HIDE DEF at
<1>2. DOMAIN at = 0 .. Len(roles) /\ at[0] = {n}
  BY <1>1
<1>3. ASSUME NEW i \in 0 .. Len(roles) - 1
      PROVE  at[i + 1] = Follow(reg, at[i], roles[i + 1])
  <2>1. i + 1 \in 0 .. Len(roles) /\ i + 1 # 0 /\ (i + 1) - 1 = i
    OBVIOUS
  <2> QED
    BY <1>1, <2>1
<1> QED
  BY <1>2, <1>3 DEF at

\* A set that has the children of its nodes.
Closed(reg, set) == \A n \in set : \A c \in Children(reg, n) : c.node \in set

\* Two registries have the same nodes in such a set around n.
SameOn(reg, old, n, set) ==
    n \in set /\ Closed(old, set) /\ \A m \in set : reg.nodes[m] = old.nodes[m]

\* A walk does not leave such a set, and is the same in every registry that has the same
\* nodes in it.
LEMMA WalkStays ==
    ASSUME NEW reg, NEW old, NEW n, NEW roles, Len(roles) \in Nat,
           NEW set, SameOn(reg, old, n, set)
    PROVE  \A i \in 0 .. Len(roles) :
              /\ Walk(reg, n, roles)[i] = Walk(old, n, roles)[i]
              /\ Walk(reg, n, roles)[i] \subseteq set
<1> USE DEF SameOn
<1> DEFINE at == Walk(reg, n, roles)
           was == Walk(old, n, roles)
           S == {i \in Nat : at[i] = was[i] /\ at[i] \subseteq set}
<1>1. at[0] = {n} /\ was[0] = {n}
  BY WalkSteps
<1>2. \A i \in 0 .. Len(roles) - 1 :
         /\ at[i + 1] = Follow(reg, at[i], roles[i + 1])
         /\ was[i + 1] = Follow(old, was[i], roles[i + 1])
  BY WalkSteps
<1> HIDE DEF at, was
<1>3. 0 \in S
  BY <1>1
<1>4. ASSUME NEW m \in set PROVE Children(reg, m) = Children(old, m)
  BY DEF Children, IsComposite
<1>5. ASSUME NEW i \in 0 .. Len(roles) - 1, i \in S PROVE i + 1 \in S
  <2>1. at[i] = was[i] /\ at[i] \subseteq set
    BY <1>5
  <2>2. UNION {Children(reg, m) : m \in at[i]} = UNION {Children(old, m) : m \in was[i]}
    BY <1>4, <2>1
  <2>3. Follow(reg, at[i], roles[i + 1]) = Follow(old, was[i], roles[i + 1])
    BY <2>2 DEF Follow
  <2>4. Follow(old, was[i], roles[i + 1]) \subseteq set
    BY <2>1 DEF Follow, Closed
  <2>5. at[i + 1] = was[i + 1] /\ at[i + 1] \subseteq set /\ i + 1 \in Nat
    BY <1>2, <2>3, <2>4
  <2> QED
    BY <2>5
<1>6. \A i \in 0 .. Len(roles) : i \in S
  <2>1. 0 \in Nat /\ \A i \in 0 .. Len(roles) - 1 : i \in S => i + 1 \in S
    BY <1>5
  <2> HIDE DEF S
  <2> QED
    BY <1>3, <2>1, IntervalInduction
<1> QED
  BY <1>6 DEF at, was

\* The front of a role path and its last segment.
LEMMA FrontOfPath ==
    ASSUME NEW T, NEW path \in Seq(T), path # << >>
    PROVE  /\ Len(path) \in Nat \ {0} /\ Len(Front(path)) = Len(path) - 1
           /\ \A i \in 1 .. Len(path) - 1 : Front(path)[i] = path[i]
<1>1. Len(path) \in Nat \ {0}
  OBVIOUS
<1>2. Front(path) = SubSeq(path, 1, Len(path) - 1)
  BY DEF Front
<1>3. 1 \in Int /\ Len(path) - 1 \in Int /\ \A i \in 1 .. Len(path) - 1 : path[i] \in T
  BY <1>1
<1>4. /\ Len(Front(path)) = IF 1 <= Len(path) - 1 THEN (Len(path) - 1) - 1 + 1 ELSE 0
      /\ \A i \in 1 .. (Len(path) - 1) - 1 + 1 : Front(path)[i] = path[1 + i - 1]
  BY <1>2, <1>3, SubSeqProperties
<1>5. Len(Front(path)) = Len(path) - 1
  <2>1. \A l \in Nat \ {0} : \A f :
           f = (IF 1 <= l - 1 THEN (l - 1) - 1 + 1 ELSE 0) => f = l - 1
    OBVIOUS
  <2>2. Len(Front(path)) = IF 1 <= Len(path) - 1 THEN (Len(path) - 1) - 1 + 1 ELSE 0
    BY <1>4
  <2> DEFINE l == Len(path)
             f == Len(Front(path))
  <2>3. l \in Nat \ {0} /\ f = IF 1 <= l - 1 THEN (l - 1) - 1 + 1 ELSE 0
    BY <1>1, <2>2
  <2> HIDE DEF l, f
  <2>4. f = l - 1
    BY <2>1, <2>3
  <2> QED
    BY <2>4 DEF f, l
<1>6. ASSUME NEW i \in 1 .. Len(path) - 1 PROVE Front(path)[i] = path[i]
  <2>1. i \in 1 .. (Len(path) - 1) - 1 + 1 /\ 1 + i - 1 = i
    BY <1>1
  <2> QED
    BY <1>4, <2>1
<1> QED
  BY <1>1, <1>5, <1>6

\* The nodes at or below a node of a registry without missing children.
LEMMA BelowIsClosed ==
    ASSUME NEW reg, ChildrenExist(reg), NEW n \in DOMAIN reg.nodes
    PROVE  /\ n \in Below(reg, n) /\ Below(reg, n) \subseteq DOMAIN reg.nodes
           /\ Closed(reg, Below(reg, n))
           /\ \A set \in SUBSET DOMAIN reg.nodes :
                 n \in set /\ Closed(reg, set) => Below(reg, n) \subseteq set
<1>1. n \in Below(reg, n) /\ Below(reg, n) \subseteq DOMAIN reg.nodes
  BY DEF Below
<1>2. \A set \in SUBSET DOMAIN reg.nodes :
         n \in set /\ Closed(reg, set) => Below(reg, n) \subseteq set
  BY DEF Below, Closed
<1>3. ASSUME NEW m \in Below(reg, n), NEW c \in Children(reg, m) PROVE c.node \in Below(reg, n)
  <2>1. c.node \in DOMAIN reg.nodes
    BY <1>1, <1>3 DEF ChildrenExist
  <2>2. ASSUME NEW set \in SUBSET DOMAIN reg.nodes, n \in set, Closed(reg, set)
        PROVE  c.node \in set
    BY <1>2, <2>2 DEF Closed
  <2> QED
    BY <2>1, <2>2 DEF Below, Closed
<1> QED
  BY <1>1, <1>2, <1>3 DEF Closed

\* What a role path leads to: a group of a physical node at the end of the walk.
LEMMA Resolved ==
    ASSUME NEW reg, NEW n, NEW path, IsList(path), ResolveGroup(reg, n, path) # Nowhere
    PROVE  /\ path # << >> /\ Len(path) \in Nat \ {0} /\ Len(Front(path)) = Len(path) - 1
           /\ \A i \in 1 .. Len(path) - 1 : Front(path)[i] = path[i]
           /\ \E m \in Walk(reg, n, Front(path))[Len(path) - 1] :
                 /\ ~IsComposite(reg, m) /\ Last(path) \in DOMAIN reg.nodes[m].groups
                 /\ ResolveGroup(reg, n, path) = <<m, Last(path)>>
<1>1. path \in Seq(ToSet(path))
  BY DEF IsList
<1>2. path # << >>
  BY DEF ResolveGroup
<1>3. /\ Len(path) \in Nat \ {0} /\ Len(Front(path)) = Len(path) - 1
      /\ \A i \in 1 .. Len(path) - 1 : Front(path)[i] = path[i]
  BY <1>1, <1>2, FrontOfPath
<1> DEFINE ends == {m \in Walk(reg, n, Front(path))[Len(path) - 1] :
                       ~IsComposite(reg, m) /\ Last(path) \in DOMAIN reg.nodes[m].groups}
<1>4. ResolveGroup(reg, n, path) =
         IF ends = {} THEN Nowhere ELSE <<CHOOSE m \in ends : TRUE, Last(path)>>
  BY <1>2 DEF ResolveGroup
<1>5. ends # {}
  BY <1>4
<1>6. (CHOOSE m \in ends : TRUE) \in ends
  BY <1>5
<1> QED
  BY <1>2, <1>3, <1>4, <1>5, <1>6

\* A role names one child of a node.
LEMMA RoleNamesOneChild ==
    ASSUME NEW reg, NEW n, WellFormed(reg.nodes[n]),
           NEW c \in Children(reg, n), NEW d \in Children(reg, n), c.role = d.role
    PROVE  c = d
<1>1. IsComposite(reg, n)
  BY DEF Children
<1>2. PICK i \in DOMAIN reg.nodes[n].children : c = reg.nodes[n].children[i]
  BY <1>1 DEF Children, ToSet
<1>3. PICK j \in DOMAIN reg.nodes[n].children : d = reg.nodes[n].children[j]
  BY <1>1 DEF Children, ToSet
<1>4. i = j
  BY <1>1, <1>2, <1>3 DEF IsComposite, WellFormed, WellFormedComposite
<1> QED
  BY <1>2, <1>3, <1>4

\* A walk that gets somewhere is at one node at a time, each a child of the one before.
LEMMA WalkIsOne ==
    ASSUME NEW reg, NEW n, NEW roles, Len(roles) \in Nat,
           NEW set, n \in set, Closed(reg, set), \A m \in set : WellFormed(reg.nodes[m]),
           Walk(reg, n, roles)[Len(roles)] # {}
    PROVE  \A i \in 0 .. Len(roles) : \E x \in set : Walk(reg, n, roles)[i] = {x}
<1> DEFINE at == Walk(reg, n, roles)
           S == {i \in Nat : at[i] = {} \/ \E x \in set : at[i] = {x}}
<1>1. at[0] = {n}
  BY WalkSteps
<1>2. \A i \in 0 .. Len(roles) - 1 : at[i + 1] = Follow(reg, at[i], roles[i + 1])
  BY WalkSteps
<1>3. at[Len(roles)] # {}
  OBVIOUS
<1> HIDE DEF at
<1>4. 0 \in S
  BY <1>1
<1>5. ASSUME NEW i \in 0 .. Len(roles) - 1, i \in S PROVE i + 1 \in S
  <2>1. i + 1 \in Nat /\ at[i + 1] = Follow(reg, at[i], roles[i + 1])
    BY <1>2
  <2>2. CASE at[i] = {}
    <3>1. at[i + 1] = {}
      BY <2>1, <2>2 DEF Follow
    <3> QED
      BY <2>1, <3>1
  <2>3. ASSUME NEW x \in set, at[i] = {x} PROVE i + 1 \in S
    <3> DEFINE named == {d \in Children(reg, x) : d.role = roles[i + 1]}
    <3>1. at[i + 1] = {c.node : c \in named}
      BY <2>1, <2>3 DEF Follow
    <3>2. \A c, d \in named : c = d
      BY RoleNamesOneChild
    <3>3. \A c \in named : c.node \in set
      BY DEF Closed
    <3> HIDE DEF named
    <3>4. CASE named = {}
      <4>1. at[i + 1] = {}
        BY <3>1, <3>4
      <4> QED
        BY <2>1, <4>1
    <3>5. CASE named # {}
      <4>1. PICK c \in named : TRUE
        BY <3>5
      <4>2. at[i + 1] = {c.node} /\ c.node \in set
        BY <3>1, <3>2, <3>3, <4>1
      <4> QED
        BY <2>1, <4>2
    <3> QED
      BY <3>4, <3>5
  <2> QED
    BY <1>5, <2>2, <2>3
<1>6. \A i \in 0 .. Len(roles) : i \in S
  <2>1. 0 \in Nat /\ \A i \in 0 .. Len(roles) - 1 : i \in S => i + 1 \in S
    BY <1>5
  <2> HIDE DEF S
  <2> QED
    BY <1>4, <2>1, IntervalInduction
<1>7. ASSUME NEW i \in 0 .. Len(roles), at[i] = {} PROVE FALSE
  <2> DEFINE E == {k \in Nat : at[k] = {}}
  <2>1. i \in E
    BY <1>7
  <2>2. ASSUME NEW k \in i .. Len(roles) - 1, k \in E PROVE k + 1 \in E
    <3>1. k + 1 \in Nat /\ k \in 0 .. Len(roles) - 1
      OBVIOUS
    <3>2. at[k] = {}
      BY <2>2
    <3>3. at[k + 1] = {}
      BY <1>2, <3>1, <3>2 DEF Follow
    <3> QED
      BY <3>1, <3>3
  <2>3. i \in Nat /\ Len(roles) \in i .. Len(roles)
    OBVIOUS
  <2>4. \A k \in i .. Len(roles) - 1 : k \in E => k + 1 \in E
    BY <2>2
  <2>5. \A k \in i .. Len(roles) : k \in E
    <3> HIDE DEF E
    <3> QED
      BY <2>1, <2>3, <2>4, IntervalInduction
  <2> QED
    BY <1>3, <2>3, <2>5
<1> QED
  BY <1>6, <1>7 DEF at

EdgesOnWalk(reg, root, path) ==
    LET at == Walk(reg, root, Front(path))
        edges == Branch(reg, root, path)
    IN  /\ DOMAIN edges = 1 .. Len(path) - 1
        /\ \A i \in 1 .. Len(path) - 1 :
              at[i - 1] = {edges[i].from} /\ at[i] = {edges[i].child.node}

AllWellFormed(reg, set) == \A m \in set : WellFormed(reg.nodes[m])

\* The edges of a role path that leads somewhere join the nodes of the walk.
LEMMA BranchIsWalk ==
    ASSUME NEW reg, NEW root, NEW path, IsList(path), ResolveGroup(reg, root, path) # Nowhere,
           NEW set, root \in set, Closed(reg, set), AllWellFormed(reg, set)
    PROVE  EdgesOnWalk(reg, root, path)
<1> DEFINE roles == Front(path)
           at == Walk(reg, root, roles)
           l == Len(path)
           P(f) == f = [i \in 1 .. l |->
                           IF i = 1 THEN root ELSE Child(reg, f[i - 1], path[i - 1]).node]
           Place(i) == CHOOSE x : at[i - 1] = {x}
           g == [i \in 1 .. l |-> Place(i)]
           from == CHOOSE f : P(f)
<1>1. /\ l \in Nat \ {0} /\ Len(roles) = l - 1
      /\ \A i \in 1 .. l - 1 : roles[i] = path[i]
      /\ at[l - 1] # {}
  BY Resolved
<1>2. at[0] = {root} /\ \A i \in 0 .. Len(roles) - 1 : at[i + 1] = Follow(reg, at[i], roles[i + 1])
  <2>1. Len(roles) \in Nat
    BY <1>1
  <2> HIDE DEF roles, l
  <2> QED
    BY <2>1, WalkSteps
<1>3. \A i \in 0 .. l - 1 : \E x \in set : at[i] = {x}
  <2>1. Len(roles) \in Nat /\ at[Len(roles)] # {}
    BY <1>1
  <2>2. \A i \in 0 .. Len(roles) : \E x \in set : at[i] = {x}
    BY <2>1, WalkIsOne DEF AllWellFormed
  <2> QED
    BY <1>1, <2>2
<1>4. Branch(reg, root, path) =
         [i \in 1 .. l - 1 |-> [from |-> from[i], child |-> Child(reg, from[i], path[i])]]
  BY DEF Branch
<1> HIDE DEF at, roles, l
<1>5. ASSUME NEW i \in 1 .. l PROVE at[i - 1] = {g[i]} /\ g[i] \in set
  <2>1. i - 1 \in 0 .. l - 1
    BY <1>1
  <2>2. PICK x \in set : at[i - 1] = {x}
    BY <1>3, <2>1
  <2>3. g[i] = CHOOSE y : at[i - 1] = {y}
    OBVIOUS
  <2>4. at[i - 1] = {g[i]}
    BY <2>2, <2>3
  <2> QED
    BY <2>2, <2>4
<1>6. g[1] = root
  <2>1. 1 \in 1 .. l /\ 1 - 1 = 0
    BY <1>1
  <2> QED
    BY <1>2, <1>5, <2>1
<1>7. ASSUME NEW i \in 1 .. l, i # 1 PROVE g[i] = Child(reg, g[i - 1], path[i - 1]).node
  <2>1. /\ i - 1 \in 1 .. l /\ i - 1 \in 1 .. l - 1 /\ (i - 1) - 1 \in 0 .. Len(roles) - 1
        /\ ((i - 1) - 1) + 1 = i - 1
    BY <1>1, <1>7
  <2>2. at[i - 1] = Follow(reg, at[(i - 1) - 1], roles[i - 1]) /\ roles[i - 1] = path[i - 1]
    BY <1>1, <1>2, <2>1
  <2>3. at[(i - 1) - 1] = {g[i - 1]} /\ at[i - 1] = {g[i]} /\ g[i - 1] \in set
    BY <1>5, <2>1
  <2> HIDE DEF g
  <2>4. {g[i]} = {c.node : c \in {d \in Children(reg, g[i - 1]) : d.role = path[i - 1]}}
    BY <2>2, <2>3 DEF Follow
  <2>5. PICK c \in Children(reg, g[i - 1]) : c.role = path[i - 1]
    BY <2>4
  <2>6. /\ Child(reg, g[i - 1], path[i - 1]) \in Children(reg, g[i - 1])
        /\ Child(reg, g[i - 1], path[i - 1]).role = path[i - 1]
    BY <2>5 DEF Child
  <2> QED
    BY <2>4, <2>6
<1>8. P(g)
  <2> HIDE DEF Place
  <2> DEFINE h == [i \in 1 .. l |->
                      IF i = 1 THEN root ELSE Child(reg, g[i - 1], path[i - 1]).node]
  <2>1. DOMAIN g = 1 .. l /\ g = [i \in 1 .. l |-> g[i]]
    OBVIOUS
  <2> HIDE DEF g
  <2>2. \A i \in 1 .. l : g[i] = h[i]
    BY <1>6, <1>7
  <2>3. h = [i \in 1 .. l |-> h[i]]
    OBVIOUS
  <2> HIDE DEF h
  <2>4. g = h
    BY <2>1, <2>2, <2>3
  <2> QED
    BY <2>4 DEF h
<1>9. P(from)
  <2> HIDE DEF P, g
  <2> QED
    BY <1>8
<1> HIDE DEF g, from
<1>10. \A i \in 1 .. l : from[i] = g[i]
  <2> DEFINE S == {i \in Nat : from[i] = g[i]}
  <2>1. 1 \in S
    BY <1>1, <1>6, <1>9
  <2>2. ASSUME NEW i \in 1 .. l - 1, i \in S PROVE i + 1 \in S
    <3>1. i + 1 \in 1 .. l /\ i + 1 # 1 /\ (i + 1) - 1 = i /\ i + 1 \in Nat
      BY <1>1
    <3>2. from[i] = g[i]
      BY <2>2
    <3>3. from[i + 1] = Child(reg, from[i], path[i]).node
      BY <1>9, <3>1
    <3>4. g[i + 1] = Child(reg, g[i], path[i]).node
      BY <1>8, <3>1
    <3> QED
      BY <3>1, <3>2, <3>3, <3>4
  <2>3. 1 \in Nat /\ l \in Nat /\ \A i \in 1 .. l - 1 : i \in S => i + 1 \in S
    BY <1>1, <2>2
  <2>4. \A i \in 1 .. l : i \in S
    <3> HIDE DEF S
    <3> QED
      BY <2>1, <2>3, IntervalInduction
  <2> QED
    BY <2>4
<1> DEFINE edges == Branch(reg, root, path)
<1>11. DOMAIN edges = 1 .. l - 1
  BY <1>4
<1>12. ASSUME NEW i \in 1 .. l - 1
       PROVE  at[i - 1] = {edges[i].from} /\ at[i] = {edges[i].child.node}
  <2>1. edges[i] = [from |-> from[i], child |-> Child(reg, from[i], path[i])]
    BY <1>4
  <2>2. i \in 1 .. l /\ i + 1 \in 1 .. l /\ i + 1 # 1 /\ (i + 1) - 1 = i
    BY <1>1
  <2>3. from[i] = g[i] /\ from[i + 1] = g[i + 1]
    BY <1>10, <2>2
  <2>4. from[i + 1] = Child(reg, from[i], path[i]).node
    BY <1>9, <2>2
  <2>5. at[i - 1] = {g[i]} /\ at[i] = {g[i + 1]}
    BY <1>5, <2>2
  <2> HIDE DEF edges
  <2>6. edges[i].from = from[i] /\ edges[i].child = Child(reg, from[i], path[i])
    BY <2>1
  <2>7. edges[i].child.node = g[i + 1]
    BY <2>3, <2>4, <2>6
  <2> QED
    BY <2>3, <2>5, <2>6, <2>7
<1> QED
  BY <1>11, <1>12 DEF roles, at, l, EdgesOnWalk

\* A manifest is walked like the registry it was taken of.
LEMMA ManifestIsWalkedAlike ==
    ASSUME NEW reg, ChildrenExist(reg), NEW root \in DOMAIN reg.nodes,
           NEW roles, Len(roles) \in Nat
    PROVE  \A i \in 0 .. Len(roles) :
              /\ Walk(Manifest(reg, root), root, roles)[i] = Walk(reg, root, roles)[i]
              /\ Walk(reg, root, roles)[i] \subseteq Below(reg, root)
<1> DEFINE manifest == Manifest(reg, root)
<1>1. root \in Below(reg, root) /\ Closed(reg, Below(reg, root))
  BY BelowIsClosed
<1>2. \A m \in Below(reg, root) : manifest.nodes[m] = reg.nodes[m]
  BY DEF Manifest
<1> HIDE DEF manifest
<1>3. SameOn(manifest, reg, root, Below(reg, root))
  BY <1>1, <1>2 DEF SameOn
<1>4. \A i \in 0 .. Len(roles) :
         /\ Walk(manifest, root, roles)[i] = Walk(reg, root, roles)[i]
         /\ Walk(manifest, root, roles)[i] \subseteq Below(reg, root)
  BY <1>3, WalkStays
<1> QED
  BY <1>4 DEF manifest

\* The locks of a branch are those of all nodes from the root to the leaf.
LEMMA LocksOfBranch ==
    ASSUME NEW reg, ChildrenExist(reg), \A n \in DOMAIN reg.nodes : WellFormed(reg.nodes[n]),
           NEW root \in DOMAIN reg.nodes, NEW path, IsList(path),
           ResolveGroup(reg, root, path) # Nowhere
    PROVE  /\ BranchLocks(Manifest(reg, root), path)
                 \subseteq UNION {reg.nodes[n].locks : n \in DOMAIN reg.nodes}
           /\ reg.nodes[ResolveGroup(reg, root, path)[1]].locks
                 \subseteq BranchLocks(Manifest(reg, root), path)
           /\ \A e \in ToSet(Branch(reg, root, path)) :
                 reg.nodes[e.from].locks \subseteq BranchLocks(Manifest(reg, root), path)
           /\ \E m \in Below(reg, root) :
                 /\ ~IsComposite(reg, m) /\ Last(path) \in DOMAIN reg.nodes[m].groups
                 /\ ResolveGroup(reg, root, path) = <<m, Last(path)>>
<1> DEFINE manifest == Manifest(reg, root)
           roles == Front(path)
           at == Walk(reg, root, roles)
           was == Walk(manifest, root, roles)
           below == Below(reg, root)
           locks == BranchLocks(manifest, path)
<1>1. /\ root \in below /\ below \subseteq DOMAIN reg.nodes /\ Closed(reg, below)
      /\ \A m \in below : WellFormed(reg.nodes[m])
  BY BelowIsClosed
<1>2. Len(path) \in Nat \ {0} /\ Len(roles) = Len(path) - 1 /\ Len(roles) \in Nat
  BY Resolved
<1>3. PICK m \in at[Len(roles)] :
         /\ ~IsComposite(reg, m) /\ Last(path) \in DOMAIN reg.nodes[m].groups
         /\ ResolveGroup(reg, root, path) = <<m, Last(path)>>
  BY <1>2, Resolved
<1>4. \A i \in 0 .. Len(roles) : was[i] = at[i] /\ at[i] \subseteq below
  BY <1>2, ManifestIsWalkedAlike
<1>5. DOMAIN was = 0 .. Len(roles)
  BY <1>2, WalkSteps
<1>6. \A e \in ToSet(Branch(reg, root, path)) : \E i \in 0 .. Len(roles) : at[i] = {e.from}
  <2>1. root \in below /\ Closed(reg, below) /\ AllWellFormed(reg, below)
    BY <1>1 DEF AllWellFormed
  <2> HIDE DEF below
  <2>2. EdgesOnWalk(reg, root, path)
    BY <2>1, BranchIsWalk
  <2> DEFINE edges == Branch(reg, root, path)
  <2>3. /\ DOMAIN edges = 1 .. Len(path) - 1
        /\ \A i \in 1 .. Len(path) - 1 : at[i - 1] = {edges[i].from}
    BY <2>2 DEF EdgesOnWalk
  <2>4. \A i \in 1 .. Len(path) - 1 : i - 1 \in 0 .. Len(roles)
    BY <1>2
  <2> HIDE DEF edges, at
  <2>5. ASSUME NEW e \in ToSet(edges) PROVE \E i \in 0 .. Len(roles) : at[i] = {e.from}
    <3>1. PICK i \in 1 .. Len(path) - 1 : e = edges[i]
      BY <2>3, <2>5 DEF ToSet
    <3> QED
      BY <2>3, <2>4, <3>1
  <2> QED
    BY <2>5 DEF edges
<1>7. manifest.root = root /\ \A n \in below : manifest.nodes[n] = reg.nodes[n]
  BY DEF Manifest
<1>8. locks = UNION {manifest.nodes[n].locks : n \in UNION {was[i] : i \in DOMAIN was}}
  BY <1>7 DEF BranchLocks
<1> HIDE DEF manifest, roles, at, was, locks, below
<1>9. UNION {was[i] : i \in DOMAIN was} = UNION {at[i] : i \in 0 .. Len(roles)}
  BY <1>4, <1>5
<1> DEFINE way == UNION {at[i] : i \in 0 .. Len(roles)}
<1>10. way \subseteq below
  BY <1>4
<1>11. \A i \in 0 .. Len(roles) : \A n \in at[i] : n \in way
  OBVIOUS
<1>12. locks = UNION {manifest.nodes[n].locks : n \in way}
  BY <1>8, <1>9
<1> HIDE DEF way
<1>13. \A n \in way : n \in below /\ manifest.nodes[n] = reg.nodes[n]
  BY <1>7, <1>10
<1>14. \A n \in way : reg.nodes[n].locks \subseteq locks
  BY <1>12, <1>13
<1>15. locks \subseteq UNION {reg.nodes[n].locks : n \in DOMAIN reg.nodes}
  BY <1>1, <1>12, <1>13
<1>16. Len(roles) \in 0 .. Len(roles)
  BY <1>2
<1>17. m \in way
  BY <1>3, <1>11, <1>16
<1>18. ResolveGroup(reg, root, path)[1] = m
  BY <1>3
<1>19. \A e \in ToSet(Branch(reg, root, path)) : e.from \in way
  BY <1>6, <1>11
<1> QED
  BY <1>3, <1>10, <1>14, <1>15, <1>17, <1>18, <1>19 DEF locks, manifest, below

-----------------------------------------------------------------------------
(* Programs that the compiler accepts. *)

SequenceFits(reg, root, s) ==
    /\ IsList(s.path) /\ s.target # Nowhere /\ s.target = ResolveGroup(reg, root, s.path)
    /\ SamplesCompile(s.samples, reg.nodes[s.target[1]].groups[s.target[2]].axes,
                      s.reference, s.schema)

\* Every sequence drives the leaf its path leads to, each another one, and the phase is
\* as long as the longest of them.
PhaseFits(reg, root, phase) ==
    /\ \E n \in Nat : DOMAIN phase.sequences = 1 .. n
    /\ \A i \in DOMAIN phase.sequences : SequenceFits(reg, root, phase.sequences[i])
    /\ \A i, j \in DOMAIN phase.sequences :
          phase.sequences[i].target = phase.sequences[j].target => i = j
    /\ phase.duration = Max({Last(phase.sequences[i].samples).t : i \in DOMAIN phase.sequences})

\* What the compiler makes of a sequence that it accepts.
LEMMA CompiledSequenceFits ==
    ASSUME NEW reg, NEW root, NEW sequence, SequenceCompiles(reg, root, sequence)
    PROVE  /\ SequenceFits(reg, root, CompiledSequence(reg, root, sequence))
           /\ CompiledSequence(reg, root, sequence).target = ResolveGroup(reg, root, sequence.path)
           /\ CompiledSequence(reg, root, sequence).samples = sequence.samples
<1> DEFINE s == CompiledSequence(reg, root, sequence)
           leaf == ResolveGroup(reg, root, sequence.path)
<1>1. /\ s.path = sequence.path /\ s.target = leaf /\ s.samples = sequence.samples
      /\ s.reference = sequence.reference /\ s.schema = sequence.schema
  BY DEF CompiledSequence
<1>2. /\ IsList(sequence.path) /\ leaf # Nowhere
      /\ SamplesCompile(sequence.samples, reg.nodes[leaf[1]].groups[leaf[2]].axes,
                        sequence.reference, sequence.schema)
  BY DEF SequenceCompiles
<1> HIDE DEF s
<1>3. SequenceFits(reg, root, s)
  BY <1>1, <1>2 DEF SequenceFits
<1> QED
  BY <1>1, <1>3 DEF s

\* What the compiler makes of a phase that it accepts.
LEMMA CompiledPhaseFits ==
    ASSUME NEW reg, NEW root, NEW phase, PhaseCompiles(reg, root, phase)
    PROVE  PhaseFits(reg, root, CompiledPhase(reg, root, phase))
<1> DEFINE made == CompiledPhase(reg, root, phase)
           Made(i) == CompiledSequence(reg, root, phase.sequences[i])
<1>1. /\ made.sequences = [i \in DOMAIN phase.sequences |-> Made(i)]
      /\ made.duration = Max({Last(s.samples).t : s \in ToSet(phase.sequences)})
  BY DEF CompiledPhase
<1>2. /\ phase.sequences \in Seq(ToSet(phase.sequences))
      /\ \A i \in DOMAIN phase.sequences : SequenceCompiles(reg, root, phase.sequences[i])
      /\ \A i, j \in DOMAIN phase.sequences :
            ResolveGroup(reg, root, phase.sequences[i].path)
                = ResolveGroup(reg, root, phase.sequences[j].path) => i = j
  BY DEF PhaseCompiles, IsList
<1>3. \E n \in Nat : DOMAIN phase.sequences = 1 .. n
  BY <1>2
<1>4. \A i \in DOMAIN phase.sequences :
         /\ SequenceFits(reg, root, Made(i))
         /\ Made(i).target = ResolveGroup(reg, root, phase.sequences[i].path)
         /\ Made(i).samples = phase.sequences[i].samples
  BY <1>2, CompiledSequenceFits
<1> HIDE DEF made, Made
<1>5. /\ DOMAIN made.sequences = DOMAIN phase.sequences
      /\ \A i \in DOMAIN phase.sequences : made.sequences[i] = Made(i)
  BY <1>1
<1>6. {Last(s.samples).t : s \in ToSet(phase.sequences)}
         = {Last(made.sequences[i].samples).t : i \in DOMAIN made.sequences}
  <2>1. {Last(s.samples).t : s \in ToSet(phase.sequences)}
           = {Last(phase.sequences[i].samples).t : i \in DOMAIN phase.sequences}
    BY DEF ToSet
  <2>2. \A i \in DOMAIN phase.sequences : made.sequences[i].samples = phase.sequences[i].samples
    BY <1>4, <1>5
  <2> QED
    BY <1>5, <2>1, <2>2
<1>7. made.duration = Max({Last(made.sequences[i].samples).t : i \in DOMAIN made.sequences})
  BY <1>1, <1>6
<1>8. \A i \in DOMAIN made.sequences : SequenceFits(reg, root, made.sequences[i])
  BY <1>4, <1>5
<1>9. \A i, j \in DOMAIN made.sequences :
         made.sequences[i].target = made.sequences[j].target => i = j
  BY <1>2, <1>4, <1>5
<1>10. PhaseFits(reg, root, made)
  BY <1>3, <1>5, <1>7, <1>8, <1>9 DEF PhaseFits
<1> QED
  BY <1>10 DEF made

\* What a valid program is.
LEMMA ValidProgramFits ==
    ASSUME NEW reg, NEW program, ValidForRegistry(reg, program)
    PROVE  /\ program.root \in DOMAIN reg.nodes
           /\ \A k \in DOMAIN program.phases : PhaseFits(reg, program.root, program.phases[k])
<1> DEFINE template == TemplateOf(program)
           made == Compiled(reg, template)
<1>1. /\ program.root \in DOMAIN reg.nodes /\ Compiles(reg, template) /\ made = program
  BY DEF ValidForRegistry, Rebuilt
<1>2. template.root = program.root
  BY DEF TemplateOf
<1>3. \A k \in DOMAIN template.phases : PhaseCompiles(reg, template.root, template.phases[k])
  BY <1>1 DEF Compiles
<1>4. made.phases = [k \in DOMAIN template.phases |->
                        CompiledPhase(reg, template.root, template.phases[k])]
  BY DEF Compiled
<1> HIDE DEF template, made
<1>5. \A k \in DOMAIN template.phases :
         PhaseFits(reg, template.root, CompiledPhase(reg, template.root, template.phases[k]))
  BY <1>3, CompiledPhaseFits
<1> QED
  BY <1>1, <1>2, <1>4, <1>5

\* No number of a list is above the greatest of them.
LEMMA MaxIsUpperBound ==
    ASSUME NEW n \in Nat, NEW f, \A i \in 1 .. n : f[i] \in Nat
    PROVE  \A i \in 1 .. n : f[i] <= Max({f[j] : j \in 1 .. n})
<1> DEFINE S == {k \in Nat : \E m \in 1 .. k : \A i \in 1 .. k : f[m] >= f[i]}
<1>1. CASE n = 0
  BY <1>1
<1>2. CASE n # 0
  <2>1. 1 \in S
    <3>1. 1 \in 1 .. 1 /\ 1 \in 1 .. n /\ \A i \in 1 .. 1 : i = 1
      BY <1>2
    <3>2. \A i \in 1 .. 1 : f[1] >= f[i]
      BY <3>1
    <3> QED
      BY <3>1, <3>2
  <2>2. ASSUME NEW k \in 1 .. n - 1, k \in S PROVE k + 1 \in S
    <3>1. PICK m \in 1 .. k : \A i \in 1 .. k : f[m] >= f[i]
      BY <2>2
    <3>2. /\ k + 1 \in Nat /\ k + 1 \in 1 .. n /\ m \in 1 .. n /\ k + 1 \in 1 .. k + 1
          /\ m \in 1 .. k + 1
          /\ \A i \in 1 .. k + 1 : i \in 1 .. n /\ (i = k + 1 \/ i \in 1 .. k)
      OBVIOUS
    <3>3. f[m] \in Nat /\ f[k + 1] \in Nat /\ \A i \in 1 .. k + 1 : f[i] \in Nat
      BY <3>2
    <3>4. CASE f[m] >= f[k + 1]
      <4>1. \A i \in 1 .. k + 1 : f[m] >= f[i]
        BY <3>1, <3>2, <3>4
      <4> QED
        BY <3>2, <4>1
    <3>5. CASE f[m] < f[k + 1]
      <4>1. \A i \in 1 .. k + 1 : f[k + 1] >= f[i]
        BY <3>1, <3>2, <3>3, <3>5
      <4> QED
        BY <3>2, <4>1
    <3> QED
      BY <3>3, <3>4, <3>5
  <2>3. n \in S
    <3>1. 1 \in Nat /\ n \in 1 .. n /\ \A k \in 1 .. n - 1 : k \in S => k + 1 \in S
      BY <1>2, <2>2
    <3> HIDE DEF S
    <3> QED
      BY <2>1, <3>1, IntervalInduction
  <2>4. PICK m \in 1 .. n : \A i \in 1 .. n : f[m] >= f[i]
    BY <2>3
  <2> DEFINE all == {f[j] : j \in 1 .. n}
  <2>5. f[m] \in all /\ \A y \in all : f[m] >= y
    BY <2>4
  <2>6. Max(all) \in all /\ \A y \in all : Max(all) >= y
    <3> HIDE DEF all
    <3> QED
      BY <2>5 DEF Max
  <2>7. Max(all) \in Nat
    BY <2>6
  <2>8. ASSUME NEW i \in 1 .. n PROVE f[i] <= Max(all)
    <3>1. f[i] \in all /\ f[i] \in Nat
      OBVIOUS
    <3>2. Max(all) >= f[i]
      BY <2>6, <3>1
    <3> HIDE DEF all
    <3> QED
      BY <2>7, <3>1, <3>2
  <2> QED
    BY <2>8
<1> QED
  BY <1>1, <1>2

\* The samples of a sequence that compiles end at a time.
LEMMA LastSampleHasTime ==
    ASSUME NEW samples, NEW axes, NEW reference, NEW schema,
           SamplesCompile(samples, axes, reference, schema)
    PROVE  Last(samples).t \in Nat
<1>1. /\ samples \in Seq(ToSet(samples)) /\ Len(samples) >= 2
      /\ \A i \in DOMAIN samples : samples[i].t \in Nat
  BY DEF SamplesCompile, IsList
<1>2. Len(samples) \in DOMAIN samples
  <2>1. Len(samples) \in Nat /\ DOMAIN samples = 1 .. Len(samples)
    BY <1>1
  <2> QED
    BY <1>1, <2>1
<1> QED
  BY <1>1, <1>2 DEF Last

\* A phase that fits, as RunningProgramFits says it.
LEMMA PhaseFitsTheRobots ==
    ASSUME NEW reg, NEW root, NEW phase, PhaseFits(reg, root, phase),
           NEW s \in ToSet(phase.sequences)
    PROVE  /\ ResolveGroup(reg, root, s.path) = s.target
           /\ Last(s.samples).t <= phase.duration
           /\ LET axes == reg.nodes[s.target[1]].groups[s.target[2]].axes
              IN  \A i \in DOMAIN s.samples, a \in DOMAIN axes :
                    /\ s.reference = "absolute" =>
                          s.samples[i].values[a] \in axes[a].lower .. axes[a].upper
                    /\ i > 1 =>
                          15 * Distance(s.samples[i - 1].values[a], s.samples[i].values[a])
                             * Second
                          <= 8 * axes[a].velocity * (s.samples[i].t - s.samples[i - 1].t)
<1> DEFINE axes == reg.nodes[s.target[1]].groups[s.target[2]].axes
           parts == phase.sequences
<1>1. PICK n \in Nat : DOMAIN parts = 1 .. n
  BY DEF PhaseFits
<1>2. PICK p \in 1 .. n : s = parts[p]
  BY <1>1 DEF ToSet
<1>3. \A i \in 1 .. n : SequenceFits(reg, root, parts[i])
  BY <1>1 DEF PhaseFits
<1>4. Last(s.samples).t <= phase.duration
  <2> DEFINE f == [i \in 1 .. n |-> Last(parts[i].samples).t]
  <2>1. \A i \in 1 .. n : f[i] \in Nat
    BY <1>3, LastSampleHasTime DEF SequenceFits
  <2>2. f[p] = Last(s.samples).t
    BY <1>2
  <2>3. phase.duration = Max({f[i] : i \in 1 .. n})
    <3>1. phase.duration = Max({Last(parts[i].samples).t : i \in 1 .. n})
      BY <1>1 DEF PhaseFits
    <3>2. {Last(parts[i].samples).t : i \in 1 .. n} = {f[i] : i \in 1 .. n}
      OBVIOUS
    <3> QED
      BY <3>1, <3>2
  <2> HIDE DEF f
  <2>4. f[p] <= Max({f[i] : i \in 1 .. n})
    BY <2>1, MaxIsUpperBound
  <2> QED
    BY <2>2, <2>3, <2>4
<1>5. /\ s.target = ResolveGroup(reg, root, s.path)
      /\ SamplesCompile(s.samples, axes, s.reference, s.schema)
  BY <1>2, <1>3 DEF SequenceFits
<1> HIDE DEF axes
<1>6. ASSUME NEW i \in DOMAIN s.samples, NEW a \in DOMAIN axes
      PROVE  /\ s.reference = "absolute" =>
                   s.samples[i].values[a] \in axes[a].lower .. axes[a].upper
             /\ i > 1 =>
                   15 * Distance(s.samples[i - 1].values[a], s.samples[i].values[a]) * Second
                   <= 8 * axes[a].velocity * (s.samples[i].t - s.samples[i - 1].t)
  <2>1. SampleWithinLimits(axes, s.reference, s.samples[i].values)
    BY <1>5 DEF SamplesCompile
  <2>2. i > 1 => SegmentWithinRate(axes[a], s.samples[i - 1].values[a], s.samples[i].values[a],
                                   s.samples[i].t - s.samples[i - 1].t)
    BY <1>5 DEF SamplesCompile
  <2>3. s.reference = "absolute" => s.samples[i].values[a] \in axes[a].lower .. axes[a].upper
    BY <2>1 DEF SampleWithinLimits
  <2>4. i > 1 => 15 * Distance(s.samples[i - 1].values[a], s.samples[i].values[a]) * Second
                   <= 8 * axes[a].velocity * (s.samples[i].t - s.samples[i - 1].t)
    BY <2>2 DEF SegmentWithinRate
  <2> QED
    BY <2>3, <2>4
<1> QED
  BY <1>4, <1>5, <1>6 DEF axes

-----------------------------------------------------------------------------
(* The locks of a program. *)

\* What loading a registry has checked, as far as the locks need it.
LEMMA LoadedGraph ==
    ASSUME NEW reg, Loads(reg)
    PROVE  ChildrenExist(reg) /\ AllWellFormed(reg, DOMAIN reg.nodes)
BY DEF Loads, ValidateGraph, AllWellFormed

\* Every sequence of a valid program fits.
LEMMA PartsFit ==
    ASSUME NEW reg, NEW program, ValidForRegistry(reg, program), NEW s \in Parts(program)
    PROVE  program.root \in DOMAIN reg.nodes /\ SequenceFits(reg, program.root, s)
<1>1. /\ program.root \in DOMAIN reg.nodes
      /\ \A k \in DOMAIN program.phases : PhaseFits(reg, program.root, program.phases[k])
  BY ValidProgramFits
<1>2. PICK k \in DOMAIN program.phases : s \in ToSet(program.phases[k].sequences)
  BY DEF Parts
<1>3. PICK i \in DOMAIN program.phases[k].sequences : s = program.phases[k].sequences[i]
  BY <1>2 DEF ToSet
<1> QED
  BY <1>1, <1>3 DEF PhaseFits

\* A leaf as a lease target.
LEMMA LeafTarget ==
    ASSUME NEW tag, NEW m, NEW g
    PROVE  <<tag>> \o <<m, g>> = <<tag, m, g>>
<1> DEFINE T == {tag, m, g}
           s == <<tag>> \o <<m, g>>
           t == <<tag, m, g>>
<1>1. <<tag>> \in Seq(T) /\ <<m, g>> \in Seq(T) /\ t \in Seq(T)
  OBVIOUS
<1>2. s \in Seq(T) /\ Len(s) = 3 /\ s[1] = tag /\ s[2] = m /\ s[3] = g
  BY <1>1
<1>3. Len(t) = 3 /\ t[1] = tag /\ t[2] = m /\ t[3] = g
  OBVIOUS
<1> HIDE DEF s, t
<1>4. \A i \in 1 .. 3 : s[i] = t[i]
  BY <1>2, <1>3
<1>5. s = t
  BY <1>1, <1>2, <1>3, <1>4, SeqEqual
<1> QED
  BY <1>5 DEF s, t

\* The locks of a sequence: those of its branch, all of which can be leased.
LEMMA LocksOfPart ==
    ASSUME NEW reg \in Registries, Loads(reg), NEW program, ValidForRegistry(reg, program),
           NEW s \in Parts(program)
    PROVE  /\ <<"leaf">> \o s.target \in Targets
           /\ BranchLocks(Manifest(reg, program.root), s.path) \subseteq Targets
           /\ reg.nodes[s.target[1]].locks
                 \subseteq BranchLocks(Manifest(reg, program.root), s.path)
           /\ \A e \in ToSet(Branch(reg, program.root, s.path)) :
                 reg.nodes[e.from].locks \subseteq BranchLocks(Manifest(reg, program.root), s.path)
<1> DEFINE root == program.root
           path == s.path
           locks == BranchLocks(Manifest(reg, root), path)
<1>1. ChildrenExist(reg) /\ \A n \in DOMAIN reg.nodes : WellFormed(reg.nodes[n])
  BY LoadedGraph DEF AllWellFormed
<1>2. root \in DOMAIN reg.nodes /\ SequenceFits(reg, root, s)
  BY PartsFit
<1>3. IsList(path) /\ s.target = ResolveGroup(reg, root, path) /\ ResolveGroup(reg, root, path) # Nowhere
  BY <1>2 DEF SequenceFits
<1> HIDE DEF root, path
<1>4. /\ locks \subseteq UNION {reg.nodes[n].locks : n \in DOMAIN reg.nodes}
      /\ reg.nodes[ResolveGroup(reg, root, path)[1]].locks \subseteq locks
      /\ \A e \in ToSet(Branch(reg, root, path)) : reg.nodes[e.from].locks \subseteq locks
      /\ \E m \in Below(reg, root) :
            /\ ~IsComposite(reg, m) /\ Last(path) \in DOMAIN reg.nodes[m].groups
            /\ ResolveGroup(reg, root, path) = <<m, Last(path)>>
  BY <1>1, <1>2, <1>3, LocksOfBranch
<1>5. \A n \in DOMAIN reg.nodes :
         /\ reg.nodes[n].locks \subseteq Targets
         /\ ~IsComposite(reg, n) =>
               \A g \in DOMAIN reg.nodes[n].groups : <<"leaf", n, g>> \in Targets
  BY AdmissionAssumption
<1>6. locks \subseteq Targets
  BY <1>4, <1>5
<1>7. <<"leaf">> \o s.target \in Targets
  <2>1. PICK m \in Below(reg, root) :
            /\ ~IsComposite(reg, m) /\ Last(path) \in DOMAIN reg.nodes[m].groups
            /\ s.target = <<m, Last(path)>>
    BY <1>3, <1>4
  <2>2. m \in DOMAIN reg.nodes
    BY <2>1 DEF Below
  <2>3. <<"leaf", m, Last(path)>> \in Targets
    BY <1>5, <2>1, <2>2
  <2>4. <<"leaf">> \o <<m, Last(path)>> = <<"leaf", m, Last(path)>>
    BY LeafTarget
  <2> QED
    BY <2>1, <2>3, <2>4
<1> QED
  BY <1>3, <1>4, <1>6, <1>7 DEF root, path

\* A run can ask for what its program needs.
LEMMA LocksAreRequests ==
    ASSUME NEW reg \in Registries, Loads(reg), NEW program, ValidForRegistry(reg, program)
    PROVE  LockRequirements(reg, program) \in Requests
<1>1. \A s \in Parts(program) :
         /\ <<"leaf">> \o s.target \in Targets
         /\ BranchLocks(Manifest(reg, program.root), s.path) \subseteq Targets
  BY LocksOfPart
<1>2. LockRequirements(reg, program) \subseteq Targets
  BY <1>1 DEF LockRequirements
<1> QED
  BY <1>2, AdmissionAssumption

\* Everything that a run keeps others from is in its lock set.
LEMMA HeldIsLocked ==
    ASSUME NEW r \in Runs, running[r] # NoProgram, files \in Registries, Loads(files),
           ValidForRegistry(files, running[r])
    PROVE  Held(r) \subseteq LockRequirements(files, running[r])
<1> DEFINE program == running[r]
           Locks(s) == BranchLocks(Manifest(files, program.root), s.path)
<1>1. \A s \in Parts(program) :
         /\ files.nodes[s.target[1]].locks \subseteq Locks(s)
         /\ \A e \in ToSet(Branch(files, program.root, s.path)) :
               files.nodes[e.from].locks \subseteq Locks(s)
  BY LocksOfPart
<1>2. Held(r) = UNION {{<<"leaf">> \o s.target} \cup files.nodes[s.target[1]].locks
                  \cup UNION {files.nodes[e.from].locks :
                                 e \in ToSet(Branch(files, program.root, s.path))} :
                   s \in Parts(program)}
  BY DEF Held
<1>3. LockRequirements(files, program)
         = UNION {{<<"leaf">> \o s.target} \cup Locks(s) : s \in Parts(program)}
  BY DEF LockRequirements
<1> HIDE DEF program, Locks
<1>4. ASSUME NEW s \in Parts(program)
      PROVE  {<<"leaf">> \o s.target} \cup files.nodes[s.target[1]].locks
                  \cup UNION {files.nodes[e.from].locks :
                                 e \in ToSet(Branch(files, program.root, s.path))}
               \subseteq {<<"leaf">> \o s.target} \cup Locks(s)
  BY <1>1
<1>5. Held(r) \subseteq LockRequirements(files, program)
  BY <1>2, <1>3, <1>4
<1> QED
  BY <1>5 DEF program

-----------------------------------------------------------------------------
(* Admission. *)

\* A run under way: its server has loaded the registry on disk, its program is valid for
\* that registry, and its lease is the lock set of its program.
Admitted(r) ==
    /\ server = "up"
    /\ ValidForRegistry(files, running[r])
    /\ grants[r] = LockRequirements(files, running[r])

\* Without the validity of the running programs a lock set says nothing; without the
\* loaded registry a lock set need not name every node on the way.
AdmissionInv ==
    /\ LeaseInv
    /\ files \in Registries
    /\ DOMAIN running = Runs
    /\ server = "up" => Loads(files)
    /\ \A r \in Runs : running[r] # NoProgram => Admitted(r)

\* No run is under way before a server has started.
LEMMA AdmissionInvInit == AdmissionInit => AdmissionInv
BY LeaseInvInit, AdmissionAssumption DEF AdmissionInit, AdmissionInv

\* A run that is admitted is valid and gets the locks it needs.
LEMMA ExecuteKeepsInv ==
    ASSUME AdmissionInv, NEW r \in Runs, NEW identity, NEW program,
           Execute(r, identity, program)
    PROVE  AdmissionInv'
<1>1. /\ server = "up" /\ ValidForRegistry(files, program)
      /\ Acquire(r, LockRequirements(files, program))
      /\ running' = [running EXCEPT ![r] = program]
      /\ files' = files /\ server' = server
  BY DEF Execute
<1>2. LeaseInv /\ files \in Registries /\ Loads(files) /\ DOMAIN running = Runs
  BY <1>1 DEF AdmissionInv
<1>3. LockRequirements(files, program) \in Requests
  BY <1>1, <1>2, LocksAreRequests
<1> DEFINE request == LockRequirements(files, program)
<1>4. LeaseInv' /\ grants' = [grants EXCEPT ![r] = request] /\ DOMAIN grants = Runs
  <2> HIDE DEF request
  <2>1. request \in Requests /\ Acquire(r, request)
    BY <1>1, <1>3 DEF request
  <2>2. LeaseInv'
    BY <1>2, <2>1, AcquireKeepsInv
  <2> QED
    BY <1>2, <2>1, <2>2 DEF Acquire, LeaseInv, TypeOK
<1>5. ASSUME NEW s \in Runs, running'[s] # NoProgram PROVE Admitted(s)'
  <2>1. CASE s = r
    <3>1. running'[s] = program /\ grants'[s] = request
      BY <1>1, <1>2, <1>4, <2>1
    <3> QED
      BY <1>1, <3>1 DEF Admitted
  <2>2. CASE s # r
    <3>1. running'[s] = running[s] /\ grants'[s] = grants[s]
      BY <1>1, <1>2, <1>4, <2>2
    <3>2. Admitted(s)
      BY <1>5, <3>1 DEF AdmissionInv
    <3> QED
      BY <1>1, <3>1, <3>2 DEF Admitted
  <2> QED
    BY <2>1, <2>2
<1>6. files' \in Registries /\ DOMAIN running' = Runs /\ Loads(files')
  BY <1>1, <1>2
<1> QED
  BY <1>4, <1>5, <1>6 DEF AdmissionInv

\* A run that ends leaves the others as they are.
LEMMA EndRunKeepsInv ==
    ASSUME AdmissionInv, NEW r \in Runs, EndRun(r)
    PROVE  AdmissionInv'
<1>1. /\ Release(r) /\ running' = [running EXCEPT ![r] = NoProgram]
      /\ files' = files /\ server' = server
  BY DEF EndRun
<1>2. LeaseInv /\ files \in Registries /\ DOMAIN running = Runs /\ (server = "up" => Loads(files))
  BY DEF AdmissionInv
<1>3. LeaseInv'
  BY <1>1, <1>2, ReleaseKeepsInv
<1>4. grants' = [grants EXCEPT ![r] = NoGrant] /\ DOMAIN grants = Runs
  BY <1>1, <1>2 DEF Release, LeaseInv, TypeOK
<1>5. ASSUME NEW s \in Runs, running'[s] # NoProgram PROVE Admitted(s)'
  <2>1. s # r /\ running'[s] = running[s] /\ grants'[s] = grants[s]
    BY <1>1, <1>2, <1>4, <1>5
  <2>2. Admitted(s)
    BY <1>5, <2>1 DEF AdmissionInv
  <2> QED
    BY <1>1, <2>1, <2>2 DEF Admitted
<1>6. files' \in Registries /\ DOMAIN running' = Runs /\ (server' = "up" => Loads(files'))
  BY <1>1, <1>2
<1> QED
  BY <1>3, <1>5, <1>6 DEF AdmissionInv

\* The steps that leave leases and programs under way alone.
LEMMA QuietStepKeepsInv ==
    ASSUME AdmissionInv, leaseVars' = leaseVars, running' = running,
           \/ server' = server /\ files' = files
           \/ server = "starting" /\ files' = files /\ (server' = "up" => Loads(files))
           \/ server' = "starting" /\ files' \in Registries
              /\ \A r \in Runs : running[r] = NoProgram
    PROVE  AdmissionInv'
<1>1. owners' = owners /\ grants' = grants
  BY DEF leaseVars
<1>2. LeaseInv'
  BY <1>1 DEF AdmissionInv, LeaseInv, TypeOK, OwnersMatchGrants
<1>3. ASSUME NEW r \in Runs, running'[r] # NoProgram PROVE Admitted(r)'
  <2>1. Admitted(r)
    BY <1>3 DEF AdmissionInv
  <2>2. server' = server /\ files' = files
    BY <1>3, <2>1 DEF Admitted
  <2> QED
    BY <1>1, <2>1, <2>2 DEF Admitted
<1>4. files' \in Registries /\ DOMAIN running' = Runs /\ (server' = "up" => Loads(files'))
  BY DEF AdmissionInv
<1> QED
  BY <1>2, <1>3, <1>4 DEF AdmissionInv

\* Every step keeps the invariant.
LEMMA AdmissionInvNext == AdmissionInv /\ [AdmissionNext]_allVars => AdmissionInv'
<1> SUFFICES ASSUME AdmissionInv, [AdmissionNext]_allVars PROVE AdmissionInv'
  OBVIOUS
<1>1. CASE StartServer
  <2>1. /\ leaseVars' = leaseVars /\ running' = running /\ server = "starting" /\ files' = files
        /\ server' = "up" => Loads(files)
    BY <1>1 DEF StartServer
  <2> QED
    BY <2>1, QuietStepKeepsInv
<1>2. CASE Restart
  <2>1. /\ leaseVars' = leaseVars /\ running' = running /\ server' = "starting"
        /\ files' \in RegistryEdits(files) /\ \A r \in Runs : running[r] = NoProgram
    BY <1>2 DEF Restart
  <2>2. files' \in Registries
    BY <2>1, AdmissionAssumption DEF AdmissionInv
  <2> QED
    BY <2>1, <2>2, QuietStepKeepsInv
<1>3. ASSUME NEW template \in Templates, CompileTemplate(template) PROVE AdmissionInv'
  <2>1. leaseVars' = leaseVars /\ running' = running /\ server' = server /\ files' = files
    BY <1>3 DEF CompileTemplate
  <2> QED
    BY <2>1, QuietStepKeepsInv
<1>4. ASSUME NEW program \in Kept, EditArtifact(program) PROVE AdmissionInv'
  <2>1. leaseVars' = leaseVars /\ running' = running /\ server' = server /\ files' = files
    BY <1>4 DEF EditArtifact
  <2> QED
    BY <2>1, QuietStepKeepsInv
<1>5. ASSUME NEW r \in Runs, EndRun(r) PROVE AdmissionInv'
  BY <1>5, EndRunKeepsInv
<1>6. ASSUME NEW r \in Runs, NEW identity, NEW program, Execute(r, identity, program)
      PROVE  AdmissionInv'
  BY <1>6, ExecuteKeepsInv
<1>7. CASE UNCHANGED allVars
  <2>1. leaseVars' = leaseVars /\ running' = running /\ server' = server /\ files' = files
    BY <1>7 DEF allVars, admissionVars
  <2> QED
    BY <2>1, QuietStepKeepsInv
<1> QED
  BY <1>1, <1>2, <1>3, <1>4, <1>5, <1>6, <1>7 DEF AdmissionNext

\* The inductive invariant of admission: what is under way is valid for the registry of
\* the server and has leased its lock set.
THEOREM AdmissionInvariant == AdmissionSpec => []AdmissionInv
BY AdmissionInvInit, AdmissionInvNext, PTL DEF AdmissionSpec

\* execute and the end of a run keep owners and grants in agreement.
THEOREM AdmittedTablesAgree == AdmissionSpec => []OwnersMatchGrants
<1>1. AdmissionInv => OwnersMatchGrants
  BY DEF AdmissionInv, LeaseInv
<1> QED
  BY <1>1, AdmissionInvariant, PTL

\* Whatever registries were edited, programs kept or changed, and servers restarted: a
\* run under way drives the leaves its role paths lead to now, each once in a phase,
\* within the limits of position and rate.
THEOREM RunningProgramsFit == AdmissionSpec => []RunningProgramFits
<1>1. AdmissionInv => RunningProgramFits
  <2> SUFFICES ASSUME AdmissionInv, NEW r \in Runs, running[r] # NoProgram,
                      NEW k \in DOMAIN running[r].phases
               PROVE  LET parts == running[r].phases[k].sequences
                      IN  /\ \A i, j \in DOMAIN parts : parts[i].target = parts[j].target => i = j
                          /\ \A s \in ToSet(parts) :
                                /\ ResolveGroup(files, running[r].root, s.path) = s.target
                                /\ Last(s.samples).t <= running[r].phases[k].duration
                                /\ LET axes == files.nodes[s.target[1]].groups[s.target[2]].axes
                                   IN  \A i \in DOMAIN s.samples, a \in DOMAIN axes :
                                         /\ s.reference = "absolute" =>
                                               s.samples[i].values[a] \in axes[a].lower .. axes[a].upper
                                         /\ i > 1 =>
                                               15 * Distance(s.samples[i - 1].values[a], s.samples[i].values[a])
                                                  * Second
                                               <= 8 * axes[a].velocity * (s.samples[i].t - s.samples[i - 1].t)
    BY DEF RunningProgramFits
  <2>1. ValidForRegistry(files, running[r])
    BY DEF AdmissionInv, Admitted
  <2>2. PhaseFits(files, running[r].root, running[r].phases[k])
    BY <2>1, ValidProgramFits
  <2>3. \A i, j \in DOMAIN running[r].phases[k].sequences :
           running[r].phases[k].sequences[i].target = running[r].phases[k].sequences[j].target
              => i = j
    BY <2>2 DEF PhaseFits
  <2> QED
    BY <2>2, <2>3, PhaseFitsTheRobots
<1> QED
  BY <1>1, AdmissionInvariant, PTL

\* Runs under way at the same time share no leaf, and no resource or safety domain of a
\* node on their way down: what a run keeps others from is in its lock set, and lock sets
\* that are granted at the same time are disjoint.
THEOREM RunsAreKeptApart == AdmissionSpec => []RunsKeepApart
<1>1. AdmissionInv => RunsKeepApart
  <2> SUFFICES ASSUME AdmissionInv, NEW r \in Runs, NEW s \in Runs, r # s,
                      NEW t, t \in Held(r), t \in Held(s)
               PROVE  FALSE
    BY DEF RunsKeepApart
  <2>1. running[r] # NoProgram /\ running[s] # NoProgram
    BY DEF Held
  <2>2. Admitted(r) /\ Admitted(s)
    BY <2>1 DEF AdmissionInv
  <2>3. files \in Registries /\ Loads(files)
    BY <2>2 DEF AdmissionInv, Admitted
  <2>4. /\ Held(r) \subseteq LockRequirements(files, running[r])
        /\ Held(s) \subseteq LockRequirements(files, running[s])
    BY <2>1, <2>2, <2>3, HeldIsLocked DEF Admitted
  <2>5. /\ LockRequirements(files, running[r]) \in Requests
        /\ LockRequirements(files, running[s]) \in Requests
    BY <2>2, <2>3, LocksAreRequests DEF Admitted
  <2>6. /\ t \in grants[r] /\ grants[r] # NoGrant /\ t \in Targets
        /\ t \in grants[s] /\ grants[s] # NoGrant
    BY <2>2, <2>4, <2>5, LeaseAssumption DEF Admitted
  <2>7. owners[t] = r /\ owners[t] = s
    BY <2>6 DEF AdmissionInv, LeaseInv, OwnersMatchGrants
  <2> QED
    BY <2>7
<1> QED
  BY <1>1, AdmissionInvariant, PTL

\* Seen through its lease tables, admission is exclusive leases.
THEOREM AdmissionImplementsExclusiveLeases == AdmissionSpec => ImplementsExclusiveLeases
<1>1. AdmissionInit => Abstract!Init
  BY DEF AdmissionInit, Init, Abstract!Init
<1>2. AdmissionInv /\ [AdmissionNext]_allVars => [Abstract!Next]_grants
  <2> SUFFICES ASSUME AdmissionInv, [AdmissionNext]_allVars PROVE [Abstract!Next]_grants
    OBVIOUS
  <2>1. ASSUME NEW r \in Runs, EndRun(r) PROVE Abstract!Next
    BY <2>1 DEF EndRun, Release, Abstract!Next, Abstract!Give
  <2>2. ASSUME NEW r \in Runs, NEW identity, NEW program, Execute(r, identity, program)
        PROVE  Abstract!Next
    <3> DEFINE request == LockRequirements(files, program)
    <3>1. request \in Requests
      BY <2>2, LocksAreRequests DEF Execute, AdmissionInv
    <3>2. Acquire(r, request)
      BY <2>2 DEF Execute
    <3> HIDE DEF request
    <3>3. Abstract!Take(r, request)
      BY <3>1, <3>2, AcquireImplementsTake DEF AdmissionInv
    <3> QED
      BY <3>1, <3>3 DEF Abstract!Next
  <2>3. CASE UNCHANGED leaseVars
    BY <2>3 DEF leaseVars
  <2>4. \/ UNCHANGED leaseVars
        \/ \E r \in Runs : EndRun(r)
        \/ \E r \in Runs : \E identity, program : Execute(r, identity, program)
    BY DEF AdmissionNext, StartServer, Restart, CompileTemplate, EditArtifact, allVars
  <2> QED
    BY <2>1, <2>2, <2>3, <2>4
<1> QED
  BY <1>1, <1>2, AdmissionInvariant, PTL DEF AdmissionSpec, Abstract!Spec, ImplementsExclusiveLeases

-----------------------------------------------------------------------------
(* Stale programs. *)

\* Two registries have the same nodes at or below a root.
SameBelow(reg, old, root) ==
    /\ root \in DOMAIN reg.nodes
    /\ Below(reg, root) = Below(old, root)
    /\ \A n \in Below(old, root) : reg.nodes[n] = old.nodes[n]

\* A role path leads to the same group in two registries that have the same nodes in a
\* set that the walk does not leave.
LEMMA ResolvedAlike ==
    ASSUME NEW reg, NEW old, NEW root, NEW path, IsList(path),
           NEW set, SameOn(reg, old, root, set)
    PROVE  /\ ResolveGroup(reg, root, path) = ResolveGroup(old, root, path)
           /\ ResolveGroup(old, root, path) # Nowhere => ResolveGroup(old, root, path)[1] \in set
<1>1. CASE path = << >>
  BY <1>1 DEF ResolveGroup
<1>2. CASE path # << >>
  <2> DEFINE l == Len(path) - 1
             at == Walk(reg, root, Front(path))[l]
             was == Walk(old, root, Front(path))[l]
             Good(r, m) == ~IsComposite(r, m) /\ Last(path) \in DOMAIN r.nodes[m].groups
             ends == {m \in at : Good(reg, m)}
             ended == {m \in was : Good(old, m)}
  <2>1. Len(Front(path)) = l /\ l \in Nat /\ l \in 0 .. Len(Front(path))
    <3>1. Len(path) \in Nat \ {0} /\ Len(Front(path)) = Len(path) - 1
      BY <1>2, FrontOfPath DEF IsList
    <3> QED
      BY <3>1
  <2>2. at = was /\ at \subseteq set
    BY <2>1, WalkStays
  <2>3. /\ ResolveGroup(reg, root, path) =
              IF ends = {} THEN Nowhere ELSE <<CHOOSE m \in ends : TRUE, Last(path)>>
        /\ ResolveGroup(old, root, path) =
              IF ended = {} THEN Nowhere ELSE <<CHOOSE m \in ended : TRUE, Last(path)>>
    BY <1>2 DEF ResolveGroup
  <2> HIDE DEF at, was
  <2>4. \A m \in set : Good(reg, m) <=> Good(old, m)
    BY DEF IsComposite, SameOn
  <2> HIDE DEF Good
  <2>5. ends = ended /\ ended \subseteq set
    BY <2>2, <2>4
  <2>6. ended # {} => (CHOOSE m \in ended : TRUE) \in ended
    OBVIOUS
  <2> HIDE DEF ends, ended
  <2> QED
    BY <2>3, <2>5, <2>6
<1> QED
  BY <1>1, <1>2

\* A sequence compiles against both, to the same.
LEMMA SequenceCompilesAlike ==
    ASSUME NEW reg, NEW old, NEW root, NEW sequence, SequenceCompiles(old, root, sequence),
           NEW set, SameOn(reg, old, root, set)
    PROVE  /\ SequenceCompiles(reg, root, sequence)
           /\ ResolveGroup(reg, root, sequence.path) = ResolveGroup(old, root, sequence.path)
           /\ CompiledSequence(reg, root, sequence) = CompiledSequence(old, root, sequence)
<1> DEFINE leaf == ResolveGroup(old, root, sequence.path)
           group == old.nodes[leaf[1]].groups[leaf[2]]
<1>1. /\ IsList(sequence.path) /\ leaf # Nowhere
      /\ sequence.schema \in group.schemas \cap PositionSchemas
      /\ sequence.reference \in {"absolute", "relative"}
      /\ SamplesCompile(sequence.samples, group.axes, sequence.reference, sequence.schema)
  BY DEF SequenceCompiles
<1>2. ResolveGroup(reg, root, sequence.path) = leaf /\ leaf[1] \in set
  <2> DEFINE path == sequence.path
  <2>1. IsList(path) /\ ResolveGroup(old, root, path) # Nowhere
    BY <1>1
  <2> HIDE DEF path
  <2>2. /\ ResolveGroup(reg, root, path) = ResolveGroup(old, root, path)
        /\ ResolveGroup(old, root, path) # Nowhere => ResolveGroup(old, root, path)[1] \in set
    BY <2>1, ResolvedAlike
  <2> QED
    BY <2>1, <2>2 DEF path
<1> HIDE DEF leaf
<1>3. reg.nodes[leaf[1]].groups[leaf[2]] = group
  BY <1>2 DEF SameOn
<1>4. SequenceCompiles(reg, root, sequence)
  BY <1>1, <1>2, <1>3 DEF SequenceCompiles
<1>5. CompiledSequence(reg, root, sequence) = CompiledSequence(old, root, sequence)
  BY <1>2 DEF CompiledSequence, leaf
<1> QED
  BY <1>2, <1>4, <1>5 DEF leaf

\* So does a phase.
LEMMA PhaseCompilesAlike ==
    ASSUME NEW reg, NEW old, NEW root, NEW phase, PhaseCompiles(old, root, phase),
           NEW set, SameOn(reg, old, root, set)
    PROVE  /\ PhaseCompiles(reg, root, phase)
           /\ CompiledPhase(reg, root, phase) = CompiledPhase(old, root, phase)
<1> DEFINE parts == phase.sequences
           Now(i) == CompiledSequence(reg, root, parts[i])
           Then(i) == CompiledSequence(old, root, parts[i])
           To(r, i) == ResolveGroup(r, root, parts[i].path)
<1>1. /\ IsList(parts) /\ parts # << >>
      /\ \A i \in DOMAIN parts : SequenceCompiles(old, root, parts[i])
      /\ \A i, j \in DOMAIN parts : To(old, i) = To(old, j) => i = j
  BY DEF PhaseCompiles
<1>2. \A i \in DOMAIN parts :
         SequenceCompiles(reg, root, parts[i]) /\ To(reg, i) = To(old, i) /\ Now(i) = Then(i)
  <2> SUFFICES ASSUME NEW i \in DOMAIN parts
               PROVE  /\ SequenceCompiles(reg, root, parts[i])
                      /\ To(reg, i) = To(old, i) /\ Now(i) = Then(i)
    OBVIOUS
  <2> DEFINE sequence == parts[i]
  <2>1. SequenceCompiles(old, root, sequence)
    BY <1>1
  <2> HIDE DEF sequence
  <2>2. /\ SequenceCompiles(reg, root, sequence)
        /\ ResolveGroup(reg, root, sequence.path) = ResolveGroup(old, root, sequence.path)
        /\ CompiledSequence(reg, root, sequence) = CompiledSequence(old, root, sequence)
    BY <2>1, SequenceCompilesAlike
  <2> QED
    BY <2>2 DEF sequence
<1>3. PhaseCompiles(reg, root, phase)
  <2>1. \A i, j \in DOMAIN parts : To(reg, i) = To(reg, j) => i = j
    BY <1>1, <1>2
  <2> QED
    BY <1>1, <1>2, <2>1 DEF PhaseCompiles
<1>4. [i \in DOMAIN parts |-> Now(i)] = [i \in DOMAIN parts |-> Then(i)]
  <2> HIDE DEF Now, Then
  <2> QED
    BY <1>2
<1>5. CompiledPhase(reg, root, phase) = CompiledPhase(old, root, phase)
  BY <1>4 DEF CompiledPhase
<1> QED
  BY <1>3, <1>5

\* What is compiled has the template it was compiled from.
LEMMA CompiledKeepsTemplate ==
    ASSUME NEW reg, NEW template
    PROVE  TemplateOf(Compiled(reg, template)) = TemplateOf(template)
<1> DEFINE program == Compiled(reg, template)
           Part(p, k, i) ==
              [path |-> p.phases[k].sequences[i].path, schema |-> p.phases[k].sequences[i].schema,
               reference |-> p.phases[k].sequences[i].reference,
               samples |-> p.phases[k].sequences[i].samples]
           Phase(p, k) ==
              [id |-> p.phases[k].id,
               sequences |-> [i \in DOMAIN p.phases[k].sequences |-> Part(p, k, i)]]
<1>1. \A p : TemplateOf(p) = [root |-> p.root, phases |-> [k \in DOMAIN p.phases |-> Phase(p, k)]]
  BY DEF TemplateOf
<1>2. /\ program.root = template.root
      /\ program.phases = [k \in DOMAIN template.phases |->
                              CompiledPhase(reg, template.root, template.phases[k])]
  BY DEF Compiled
<1> HIDE DEF program
<1>3. DOMAIN program.phases = DOMAIN template.phases
  BY <1>2
<1>4. ASSUME NEW k \in DOMAIN template.phases PROVE Phase(program, k) = Phase(template, k)
  <2> DEFINE made == program.phases[k]
             phase == template.phases[k]
  <2>1. made = CompiledPhase(reg, template.root, phase)
    BY <1>2
  <2> HIDE DEF made, phase
  <2>2. /\ made.id = phase.id
        /\ made.sequences = [i \in DOMAIN phase.sequences |->
                                CompiledSequence(reg, template.root, phase.sequences[i])]
    BY <2>1 DEF CompiledPhase
  <2>3. DOMAIN made.sequences = DOMAIN phase.sequences
    BY <2>2
  <2>4. ASSUME NEW i \in DOMAIN phase.sequences PROVE Part(program, k, i) = Part(template, k, i)
    <3>1. made.sequences[i] = CompiledSequence(reg, template.root, phase.sequences[i])
      BY <2>2
    <3>2. /\ made.sequences[i].path = phase.sequences[i].path
          /\ made.sequences[i].schema = phase.sequences[i].schema
          /\ made.sequences[i].reference = phase.sequences[i].reference
          /\ made.sequences[i].samples = phase.sequences[i].samples
      BY <3>1 DEF CompiledSequence
    <3> QED
      BY <3>2 DEF made, phase
  <2> HIDE DEF Part
  <2>5. [i \in DOMAIN made.sequences |-> Part(program, k, i)]
           = [i \in DOMAIN phase.sequences |-> Part(template, k, i)]
    BY <2>3, <2>4
  <2> QED
    BY <2>2, <2>5 DEF made, phase
<1> HIDE DEF Phase
<1>5. [k \in DOMAIN program.phases |-> Phase(program, k)]
         = [k \in DOMAIN template.phases |-> Phase(template, k)]
  BY <1>3, <1>4
<1>6. TemplateOf(program) = TemplateOf(template)
  BY <1>1, <1>2, <1>5
<1> QED
  BY <1>6 DEF program

\* A template compiles against both registries, to the same but for the manifest.
LEMMA TemplateCompilesAlike ==
    ASSUME NEW reg, NEW old, NEW template, Compiles(old, template),
           template.root \in DOMAIN reg.nodes,
           NEW set, SameOn(reg, old, template.root, set)
    PROVE  /\ Compiles(reg, template)
           /\ Compiled(reg, template).phases = Compiled(old, template).phases
<1> DEFINE root == template.root
           phases == template.phases
           Now(k) == CompiledPhase(reg, root, phases[k])
           Then(k) == CompiledPhase(old, root, phases[k])
<1>1. /\ template = TemplateOf(template) /\ old.nodes[root].exposed
      /\ IsList(phases) /\ phases # << >>
      /\ \A k \in DOMAIN phases : PhaseCompiles(old, root, phases[k])
      /\ \A j, k \in DOMAIN phases : phases[j].id = phases[k].id => j = k
  BY DEF Compiles
<1>2. \A k \in DOMAIN phases : PhaseCompiles(reg, root, phases[k]) /\ Now(k) = Then(k)
  <2> SUFFICES ASSUME NEW k \in DOMAIN phases
               PROVE  PhaseCompiles(reg, root, phases[k]) /\ Now(k) = Then(k)
    OBVIOUS
  <2> DEFINE phase == phases[k]
  <2>1. PhaseCompiles(old, root, phase) /\ SameOn(reg, old, root, set)
    BY <1>1
  <2> HIDE DEF phase, root
  <2>2. /\ PhaseCompiles(reg, root, phase)
        /\ CompiledPhase(reg, root, phase) = CompiledPhase(old, root, phase)
    BY <2>1, PhaseCompilesAlike
  <2> QED
    BY <2>2 DEF phase
<1>3. reg.nodes[root].exposed
  BY <1>1 DEF SameOn
<1>4. Compiles(reg, template)
  BY <1>1, <1>2, <1>3 DEF Compiles
<1>5. [k \in DOMAIN phases |-> Now(k)] = [k \in DOMAIN phases |-> Then(k)]
  <2> HIDE DEF Now, Then
  <2> QED
    BY <1>2
<1>6. /\ Compiled(reg, template).phases = [k \in DOMAIN phases |-> Now(k)]
      /\ Compiled(old, template).phases = [k \in DOMAIN phases |-> Then(k)]
  BY DEF Compiled
<1> QED
  BY <1>4, <1>5, <1>6

\* The manifests of a root agree exactly when server and nodes below do.
LEMMA SameManifest ==
    ASSUME NEW reg, NEW old, NEW root, root \in DOMAIN reg.nodes
    PROVE  Manifest(reg, root) = Manifest(old, root)
              <=> reg.server = old.server /\ SameBelow(reg, old, root)
<1> DEFINE now == [m \in Below(reg, root) |-> reg.nodes[m]]
           then == [m \in Below(old, root) |-> old.nodes[m]]
<1>1. Manifest(reg, root) = Manifest(old, root) <=> reg.server = old.server /\ now = then
  BY DEF Manifest
<1>2. now = then <=> SameBelow(reg, old, root)
  <2>1. ASSUME now = then PROVE SameBelow(reg, old, root)
    <3>1. DOMAIN now = DOMAIN then
      BY <2>1
    <3>2. Below(reg, root) = Below(old, root)
      BY <3>1
    <3>3. ASSUME NEW m \in Below(old, root) PROVE reg.nodes[m] = old.nodes[m]
      <4>1. now[m] = then[m]
        BY <2>1
      <4> QED
        BY <3>2, <4>1
    <3> QED
      BY <3>2, <3>3 DEF SameBelow
  <2>2. ASSUME SameBelow(reg, old, root) PROVE now = then
    BY <2>2 DEF SameBelow
  <2> QED
    BY <2>1, <2>2
<1> QED
  BY <1>1, <1>2

\* A program is valid for another registry exactly when the server and all nodes at or
\* below its root are the same.
LEMMA ValidIffSameBelow ==
    ASSUME NEW reg, NEW old, ChildrenExist(old), NEW template, Compiles(old, template)
    PROVE  LET program == Compiled(old, template)
           IN  ValidForRegistry(reg, program)
                  <=> reg.server = old.server /\ SameBelow(reg, old, program.root)
<1> DEFINE program == Compiled(old, template)
           root == template.root
<1>1. /\ program.server = old.server /\ program.root = root
      /\ program.manifest = Manifest(old, root)
  BY DEF Compiled, ManifestHash
<1>2. TemplateOf(program) = template /\ root \in DOMAIN old.nodes
  BY CompiledKeepsTemplate DEF Compiles
<1>3. ASSUME ValidForRegistry(reg, program)
      PROVE  reg.server = old.server /\ SameBelow(reg, old, root)
  <2>1. root \in DOMAIN reg.nodes /\ Manifest(reg, root) = Manifest(old, root)
    BY <1>1, <1>3 DEF ValidForRegistry, ManifestHash
  <2> HIDE DEF root
  <2> QED
    BY <2>1, SameManifest
<1>4. ASSUME reg.server = old.server, SameBelow(reg, old, root)
      PROVE  ValidForRegistry(reg, program)
  <2>1. root \in DOMAIN reg.nodes
    BY <1>4 DEF SameBelow
  <2>2. Manifest(reg, root) = Manifest(old, root)
    <3> HIDE DEF root
    <3> QED
      BY <1>4, <2>1, SameManifest
  <2>3. SameOn(reg, old, root, Below(old, root))
    <3> HIDE DEF root
    <3>1. root \in Below(old, root) /\ Closed(old, Below(old, root))
      BY <1>2, BelowIsClosed
    <3> QED
      BY <1>4, <3>1 DEF SameOn, SameBelow
  <2>4. /\ Compiles(reg, template)
        /\ Compiled(reg, template).phases = program.phases
    <3> DEFINE below == Below(old, root)
    <3>1. SameOn(reg, old, template.root, below)
      BY <2>3
    <3> HIDE DEF below
    <3> QED
      BY <2>1, <3>1, TemplateCompilesAlike
  <2>5. Compiled(reg, template) = program
    BY <1>4, <2>2, <2>4 DEF Compiled, ManifestHash
  <2> QED
    BY <1>1, <1>2, <1>4, <2>1, <2>2, <2>4, <2>5 DEF ValidForRegistry, Rebuilt, ManifestHash
<1> QED
  BY <1>1, <1>3, <1>4

-----------------------------------------------------------------------------
(* Role paths reach everything below a node. *)

\* A sequence is a list.
LEMMA SequenceIsList == ASSUME NEW T, NEW s \in Seq(T) PROVE IsList(s)
<1>1. /\ Len(s) \in Nat /\ DOMAIN s = 1 .. Len(s)
      /\ s = [i \in 1 .. Len(s) |-> s[i]]
  OBVIOUS
<1>2. \A i \in 1 .. Len(s) : s[i] \in ToSet(s)
  BY <1>1 DEF ToSet
<1>3. s \in [1 .. Len(s) -> ToSet(s)]
  BY <1>1, <1>2
<1>4. s \in Seq(ToSet(s))
  BY <1>1, <1>3, SeqDef
<1> QED
  BY <1>4 DEF IsList

\* Two walks from a node are the same as long as their roles are.
LEMMA WalkOfPrefix ==
    ASSUME NEW reg, NEW n, NEW roles, Len(roles) \in Nat, NEW others, Len(others) \in Nat,
           NEW l \in Nat, l <= Len(roles), l <= Len(others),
           \A i \in 1 .. l : roles[i] = others[i]
    PROVE  \A i \in 0 .. l : Walk(reg, n, roles)[i] = Walk(reg, n, others)[i]
<1> DEFINE at == Walk(reg, n, roles)
           to == Walk(reg, n, others)
           S == {i \in Nat : at[i] = to[i]}
<1>1. at[0] = {n} /\ to[0] = {n}
  BY WalkSteps
<1>2. \A i \in 0 .. Len(roles) - 1 : at[i + 1] = Follow(reg, at[i], roles[i + 1])
  BY WalkSteps
<1>3. \A i \in 0 .. Len(others) - 1 : to[i + 1] = Follow(reg, to[i], others[i + 1])
  BY WalkSteps
<1> HIDE DEF at, to
<1>4. 0 \in S
  BY <1>1
<1>5. ASSUME NEW i \in 0 .. l - 1, i \in S PROVE i + 1 \in S
  <2>1. /\ i \in 0 .. Len(roles) - 1 /\ i \in 0 .. Len(others) - 1
        /\ i + 1 \in 1 .. l /\ i + 1 \in Nat
    OBVIOUS
  <2>2. at[i + 1] = to[i + 1]
    BY <1>2, <1>3, <1>5, <2>1
  <2> QED
    BY <2>1, <2>2
<1>6. \A i \in 0 .. l : i \in S
  <2>1. 0 \in Nat /\ \A i \in 0 .. l - 1 : i \in S => i + 1 \in S
    BY <1>5
  <2> HIDE DEF S
  <2> QED
    BY <1>4, <2>1, IntervalInduction
<1> QED
  BY <1>6 DEF at, to

\* A walk from a node on a walk goes on with it.
LEMMA WalkOfSuffix ==
    ASSUME NEW reg, NEW n, NEW roles, Len(roles) \in Nat, NEW rest, Len(rest) \in Nat,
           NEW a \in Nat, a + Len(rest) = Len(roles),
           \A j \in 1 .. Len(rest) : roles[a + j] = rest[j],
           NEW m \in Walk(reg, n, roles)[a]
    PROVE  \A j \in 0 .. Len(rest) : Walk(reg, m, rest)[j] \subseteq Walk(reg, n, roles)[a + j]
<1> DEFINE at == Walk(reg, n, roles)
           to == Walk(reg, m, rest)
           S == {j \in Nat : to[j] \subseteq at[a + j]}
<1>1. to[0] = {m} /\ m \in at[a]
  BY WalkSteps
<1>2. \A i \in 0 .. Len(roles) - 1 : at[i + 1] = Follow(reg, at[i], roles[i + 1])
  BY WalkSteps
<1>3. \A i \in 0 .. Len(rest) - 1 : to[i + 1] = Follow(reg, to[i], rest[i + 1])
  BY WalkSteps
<1> HIDE DEF at, to
<1>4. 0 \in S
  <2>1. a + 0 = a
    OBVIOUS
  <2> QED
    BY <1>1, <2>1
<1>5. ASSUME NEW j \in 0 .. Len(rest) - 1, j \in S PROVE j + 1 \in S
  <2>1. /\ a + j \in 0 .. Len(roles) - 1 /\ (a + j) + 1 = a + (j + 1)
        /\ j + 1 \in 1 .. Len(rest) /\ j + 1 \in Nat
    OBVIOUS
  <2>2. to[j] \subseteq at[a + j]
    BY <1>5
  <2>3. at[a + (j + 1)] = Follow(reg, at[a + j], roles[a + (j + 1)])
    BY <1>2, <2>1
  <2>4. to[j + 1] = Follow(reg, to[j], rest[j + 1]) /\ roles[a + (j + 1)] = rest[j + 1]
    BY <1>3, <2>1
  <2>5. to[j + 1] \subseteq at[a + (j + 1)]
    BY <2>2, <2>3, <2>4 DEF Follow
  <2> QED
    BY <2>1, <2>5
<1>6. \A j \in 0 .. Len(rest) : j \in S
  <2>1. 0 \in Nat /\ \A j \in 0 .. Len(rest) - 1 : j \in S => j + 1 \in S
    BY <1>5
  <2> HIDE DEF S
  <2> QED
    BY <1>4, <2>1, IntervalInduction
<1> QED
  BY <1>6 DEF at, to

\* A path that ends at a group of a physical node is resolved.
LEMMA LeadsToGroup ==
    ASSUME NEW reg, NEW n, NEW path, path # << >>,
           NEW m \in Walk(reg, n, Front(path))[Len(path) - 1],
           ~IsComposite(reg, m), Last(path) \in DOMAIN reg.nodes[m].groups
    PROVE  ResolveGroup(reg, n, path) # Nowhere
<1> DEFINE ends == {k \in Walk(reg, n, Front(path))[Len(path) - 1] :
                       ~IsComposite(reg, k) /\ Last(path) \in DOMAIN reg.nodes[k].groups}
<1>1. m \in ends
  OBVIOUS
<1>2. ResolveGroup(reg, n, path) =
         IF ends = {} THEN Nowhere ELSE <<CHOOSE k \in ends : TRUE, Last(path)>>
  BY DEF ResolveGroup
<1> HIDE DEF ends
<1>3. ResolveGroup(reg, n, path) = <<CHOOSE k \in ends : TRUE, Last(path)>>
  BY <1>1, <1>2
<1>4. \A a, b : <<a, b>> # << >>
  OBVIOUS
<1> QED
  BY <1>3, <1>4 DEF Nowhere

\* The two parts of a joined path.
LEMMA JoinedPath ==
    ASSUME NEW reg, NEW n, NEW roles, IsList(roles), NEW rest, IsList(rest),
           NEW m \in Walk(reg, n, roles)[Len(roles)], ResolveGroup(reg, m, rest) # Nowhere
    PROVE  /\ IsList(roles \o rest) /\ ResolveGroup(reg, n, roles \o rest) # Nowhere
           /\ Len(roles) \in Nat /\ Len(roles) \in 0 .. Len(roles \o rest) - 1
           /\ m \in Walk(reg, n, Front(roles \o rest))[Len(roles)]
<1> DEFINE path == roles \o rest
           T == ToSet(roles) \cup ToSet(rest)
           a == Len(roles)
           k == Len(rest)
<1>1. roles \in Seq(T) /\ rest \in Seq(T)
  <2>1. roles \in Seq(ToSet(roles)) /\ rest \in Seq(ToSet(rest))
    BY DEF IsList
  <2> QED
    BY <2>1, SeqMonotonic
<1>2. a \in Nat
  BY <1>1
<1>3. /\ k \in Nat \ {0} /\ Len(Front(rest)) = k - 1
      /\ \A i \in 1 .. k - 1 : Front(rest)[i] = rest[i]
  BY Resolved
<1>4. PICK e \in Walk(reg, m, Front(rest))[k - 1] :
         ~IsComposite(reg, e) /\ Last(rest) \in DOMAIN reg.nodes[e].groups
  BY Resolved
<1>5. /\ path \in Seq(T) /\ Len(path) = a + k
      /\ \A i \in 1 .. a + k : path[i] = IF i <= a THEN roles[i] ELSE rest[i - a]
  BY <1>1, ConcatProperties
<1> HIDE DEF path, T, a, k
<1>6. IsList(path)
  BY <1>5, SequenceIsList
<1>7. path # << >>
  <2>1. Len(<< >>) = 0 /\ a + k # 0
    BY <1>2, <1>3
  <2> QED
    BY <1>5, <2>1
<1>8. /\ Len(Front(path)) = (a + k) - 1
      /\ \A i \in 1 .. (a + k) - 1 : Front(path)[i] = path[i]
  <2>1. /\ Len(Front(path)) = Len(path) - 1
        /\ \A i \in 1 .. Len(path) - 1 : Front(path)[i] = path[i]
    BY <1>5, <1>7, FrontOfPath
  <2> QED
    BY <1>5, <2>1
<1>9. \A i \in 1 .. a : Front(path)[i] = roles[i]
  <2> SUFFICES ASSUME NEW i \in 1 .. a PROVE Front(path)[i] = roles[i]
    OBVIOUS
  <2>1. i \in 1 .. (a + k) - 1 /\ i \in 1 .. a + k /\ i <= a
    BY <1>2, <1>3
  <2> QED
    BY <1>5, <1>8, <2>1
<1>10. \A j \in 1 .. k - 1 : Front(path)[a + j] = Front(rest)[j]
  <2> SUFFICES ASSUME NEW j \in 1 .. k - 1 PROVE Front(path)[a + j] = Front(rest)[j]
    OBVIOUS
  <2>1. /\ a + j \in 1 .. (a + k) - 1 /\ a + j \in 1 .. a + k /\ ~(a + j <= a)
        /\ (a + j) - a = j
    BY <1>2, <1>3
  <2> QED
    BY <1>3, <1>5, <1>8, <2>1
<1>11. Walk(reg, n, Front(path))[a] = Walk(reg, n, roles)[a]
  <2> DEFINE front == Front(path)
  <2>1. /\ Len(front) \in Nat /\ Len(roles) \in Nat /\ a <= Len(front) /\ a <= Len(roles)
        /\ a \in 0 .. a /\ \A i \in 1 .. a : front[i] = roles[i]
    BY <1>2, <1>3, <1>8, <1>9 DEF a
  <2> HIDE DEF front
  <2>2. \A i \in 0 .. a : Walk(reg, n, front)[i] = Walk(reg, n, roles)[i]
    BY <1>2, <2>1, WalkOfPrefix
  <2> QED
    BY <2>1, <2>2 DEF front
<1>12. m \in Walk(reg, n, Front(path))[a]
  BY <1>11 DEF a
<1>13. e \in Walk(reg, n, Front(path))[(a + k) - 1]
  <2> DEFINE front == Front(path)
             tail == Front(rest)
  <2>1. /\ Len(front) \in Nat /\ Len(tail) \in Nat /\ a + Len(tail) = Len(front)
        /\ Len(tail) \in 0 .. Len(tail) /\ a + Len(tail) = (a + k) - 1 /\ k - 1 = Len(tail)
    BY <1>2, <1>3, <1>8
  <2>2. \A j \in 1 .. Len(tail) : front[a + j] = tail[j]
    BY <1>10, <2>1
  <2>3. m \in Walk(reg, n, front)[a] /\ e \in Walk(reg, m, tail)[Len(tail)]
    BY <1>4, <1>12, <2>1
  <2> HIDE DEF front, tail
  <2>4. \A j \in 0 .. Len(tail) : Walk(reg, m, tail)[j] \subseteq Walk(reg, n, front)[a + j]
    BY <1>2, <2>1, <2>2, <2>3, WalkOfSuffix
  <2>5. e \in Walk(reg, n, front)[a + Len(tail)]
    BY <2>1, <2>3, <2>4
  <2> QED
    BY <2>1, <2>5 DEF front
<1>14. Last(path) = Last(rest)
  <2>1. a + k \in 1 .. a + k /\ ~(a + k <= a) /\ (a + k) - a = k
    BY <1>2, <1>3
  <2>2. path[a + k] = rest[k]
    BY <1>5, <2>1
  <2> QED
    BY <1>5, <2>2 DEF Last, k
<1>15. ResolveGroup(reg, n, path) # Nowhere
  BY <1>4, <1>5, <1>7, <1>13, <1>14, LeadsToGroup
<1>16. a \in 0 .. Len(path) - 1
  BY <1>2, <1>3, <1>5
<1> QED
  BY <1>2, <1>6, <1>12, <1>15, <1>16 DEF path, a

\* A role leads to its child.
LEMMA OneStep ==
    ASSUME NEW reg, NEW n, NEW c \in Children(reg, n)
    PROVE  /\ IsList(<<c.role>>) /\ Len(<<c.role>>) = 1
           /\ c.node \in Walk(reg, n, <<c.role>>)[Len(<<c.role>>)]
<1> DEFINE roles == <<c.role>>
<1>1. roles \in Seq({c.role}) /\ Len(roles) = 1 /\ roles[1] = c.role
  OBVIOUS
<1>2. IsList(roles)
  BY <1>1, SequenceIsList
<1> HIDE DEF roles
<1>3. Len(roles) \in Nat /\ 0 \in 0 .. Len(roles) - 1 /\ 0 + 1 = 1
  BY <1>1
<1>4. Walk(reg, n, roles)[0] = {n} /\ Walk(reg, n, roles)[0 + 1] = Follow(reg, {n}, roles[0 + 1])
  <2>1. /\ Walk(reg, n, roles)[0] = {n}
        /\ \A i \in 0 .. Len(roles) - 1 :
              Walk(reg, n, roles)[i + 1] = Follow(reg, Walk(reg, n, roles)[i], roles[i + 1])
    BY <1>3, WalkSteps
  <2> QED
    BY <1>3, <2>1
<1>5. c.node \in Follow(reg, {n}, c.role)
  BY DEF Follow
<1> QED
  BY <1>1, <1>2, <1>3, <1>4, <1>5 DEF roles

Leads(reg, n, path) == IsList(path) /\ ResolveGroup(reg, n, path) # Nowhere

\* In an acyclic registry some role path leads from every node to a group.
LEMMA EveryNodeLeadsDown ==
    ASSUME NEW reg, ChildrenExist(reg), AllWellFormed(reg, DOMAIN reg.nodes), Acyclic(reg)
    PROVE  \A n \in DOMAIN reg.nodes : \E path : Leads(reg, n, path)
<1> DEFINE nodes == DOMAIN reg.nodes
           lost == {n \in nodes : ~\E path : Leads(reg, n, path)}
<1> SUFFICES ASSUME lost # {} PROVE FALSE
  OBVIOUS
<1>1. PICK n \in lost : \A c \in Children(reg, n) : c.node \notin lost
  <2>1. lost \in SUBSET DOMAIN reg.nodes
    OBVIOUS
  <2> HIDE DEF lost
  <2> QED
    BY <2>1 DEF Acyclic
<1>2. n \in nodes /\ WellFormed(reg.nodes[n]) /\ \A path : ~Leads(reg, n, path)
  BY <1>1 DEF AllWellFormed
<1>3. CASE IsComposite(reg, n)
  <2>1. PICK c \in Children(reg, n) : TRUE
    BY <1>2, <1>3 DEF WellFormed, WellFormedComposite, IsComposite, Children
  <2>2. c.node \in nodes
    BY <1>2 DEF ChildrenExist
  <2>3. PICK rest : Leads(reg, c.node, rest)
    BY <1>1, <2>2
  <2> DEFINE roles == <<c.role>>
  <2>4. IsList(roles) /\ c.node \in Walk(reg, n, roles)[Len(roles)]
    BY OneStep
  <2> HIDE DEF roles
  <2>5. Leads(reg, n, roles \o rest)
    BY <2>3, <2>4, JoinedPath DEF Leads
  <2> QED
    BY <1>2, <2>5
<1>4. CASE ~IsComposite(reg, n)
  <2>1. PICK g \in DOMAIN reg.nodes[n].groups : TRUE
    BY <1>2, <1>4 DEF WellFormed, WellFormedPhysical, IsComposite
  <2> DEFINE path == <<g>>
  <2>2. path \in Seq({g}) /\ path # << >> /\ Len(path) = 1 /\ path[1] = g
    OBVIOUS
  <2> HIDE DEF path
  <2>3. Len(Front(path)) = 0 /\ Last(path) = g /\ Len(path) - 1 = 0
    <3>1. Len(Front(path)) = Len(path) - 1
      BY <2>2, FrontOfPath
    <3> QED
      BY <2>2, <3>1 DEF Last
  <2>4. n \in Walk(reg, n, Front(path))[Len(path) - 1]
    <3>1. Len(Front(path)) \in Nat
      BY <2>3
    <3>2. Walk(reg, n, Front(path))[0] = {n}
      BY <3>1, WalkSteps
    <3> QED
      BY <2>3, <3>2
  <2>5. ResolveGroup(reg, n, path) # Nowhere
    BY <1>4, <2>1, <2>2, <2>3, <2>4, LeadsToGroup
  <2>6. Leads(reg, n, path)
    BY <2>2, <2>5, SequenceIsList DEF Leads
  <2> QED
    BY <1>2, <2>6
<1> QED
  BY <1>3, <1>4

\* The nodes that some sequence of roles reaches are all nodes at or below the root.
LEMMA RolesReachBelow ==
    ASSUME NEW reg, ChildrenExist(reg), NEW root \in DOMAIN reg.nodes, NEW m \in Below(reg, root)
    PROVE  \E roles : IsList(roles) /\ m \in Walk(reg, root, roles)[Len(roles)]
<1> DEFINE Reached(n) == \E roles : IsList(roles) /\ n \in Walk(reg, root, roles)[Len(roles)]
           set == {n \in DOMAIN reg.nodes : Reached(n)}
<1>1. Reached(root)
  <2> DEFINE none == << >>
  <2>1. none \in Seq({root}) /\ Len(none) = 0
    OBVIOUS
  <2> HIDE DEF none
  <2>2. IsList(none)
    BY <2>1, SequenceIsList
  <2>3. Len(none) \in Nat
    BY <2>1
  <2>4. Walk(reg, root, none)[0] = {root}
    BY <2>3, WalkSteps
  <2> QED
    BY <2>1, <2>2, <2>4
<1>2. ASSUME NEW n \in set, NEW c \in Children(reg, n) PROVE c.node \in set
  <2>1. c.node \in DOMAIN reg.nodes
    BY <1>2 DEF ChildrenExist
  <2>2. PICK roles : IsList(roles) /\ n \in Walk(reg, root, roles)[Len(roles)]
    BY <1>2
  <2> DEFINE T == ToSet(roles) \cup {c.role}
             more == Append(roles, c.role)
             a == Len(roles)
  <2>3. /\ a \in Nat /\ Len(more) = a + 1 /\ more[a + 1] = c.role
        /\ \A i \in 1 .. a : more[i] = roles[i]
        /\ more \in Seq(T)
    <3>1. roles \in Seq(T) /\ c.role \in T
      BY <2>2, SeqMonotonic DEF IsList
    <3> HIDE DEF T
    <3> QED
      BY <3>1
  <2>4. IsList(more)
    BY <2>3, SequenceIsList
  <2> HIDE DEF more
  <2>5. Walk(reg, root, more)[a] = Walk(reg, root, roles)[a]
    <3>1. /\ Len(more) \in Nat /\ Len(roles) \in Nat /\ a <= Len(more) /\ a <= Len(roles)
          /\ a \in 0 .. a
      BY <2>3
    <3>2. \A i \in 0 .. a : Walk(reg, root, more)[i] = Walk(reg, root, roles)[i]
      BY <2>3, <3>1, WalkOfPrefix, SMTT(30)
    <3> QED
      BY <3>1, <3>2
  <2>6. Walk(reg, root, more)[a + 1] = Follow(reg, Walk(reg, root, more)[a], more[a + 1])
    <3>1. Len(more) \in Nat /\ a \in 0 .. Len(more) - 1
      BY <2>3
    <3>2. \A i \in 0 .. Len(more) - 1 :
             Walk(reg, root, more)[i + 1] = Follow(reg, Walk(reg, root, more)[i], more[i + 1])
      BY <3>1, WalkSteps
    <3> QED
      BY <3>1, <3>2
  <2>7. c.node \in Follow(reg, Walk(reg, root, roles)[a], c.role)
    BY <1>2, <2>2 DEF Follow
  <2>8. c.node \in Walk(reg, root, more)[Len(more)]
    BY <2>3, <2>5, <2>6, <2>7
  <2> QED
    BY <2>1, <2>4, <2>8
<1>3. root \in set /\ set \in SUBSET DOMAIN reg.nodes /\ Closed(reg, set)
  BY <1>1, <1>2 DEF Closed
<1>4. Below(reg, root) \subseteq set
  <2> HIDE DEF set
  <2> QED
    BY <1>3, BelowIsClosed
<1> QED
  BY <1>4

\* A walk down an acyclic registry meets no node twice, so it is no longer than the
\* registry is large.
LEMMA WalkIsShort ==
    ASSUME NEW reg, ChildrenExist(reg), AllWellFormed(reg, DOMAIN reg.nodes), Acyclic(reg),
           IsFiniteSet(DOMAIN reg.nodes), NEW root \in DOMAIN reg.nodes,
           NEW roles, Len(roles) \in Nat, Walk(reg, root, roles)[Len(roles)] # {}
    PROVE  /\ Len(roles) \in 0 .. Cardinality(DOMAIN reg.nodes) - 1
           /\ \A i \in 1 .. Len(roles) : roles[i] \in RolesOf(reg)
<1> DEFINE nodes == DOMAIN reg.nodes
           at == Walk(reg, root, roles)
           l == Len(roles)
           Place(i) == CHOOSE x : at[i] = {x}
           w == [i \in 0 .. l |-> Place(i)]
<1>1. \A i \in 0 .. l : \E x \in nodes : at[i] = {x}
  <2>1. root \in nodes /\ Closed(reg, nodes) /\ \A m \in nodes : WellFormed(reg.nodes[m])
    BY DEF AllWellFormed, ChildrenExist, Closed
  <2> HIDE DEF nodes
  <2> QED
    BY <2>1, WalkIsOne
<1>2. \A i \in 0 .. l - 1 : at[i + 1] = Follow(reg, at[i], roles[i + 1])
  BY WalkSteps
<1>3. l \in Nat
  OBVIOUS
<1> HIDE DEF at, l, nodes
<1>4. ASSUME NEW i \in 0 .. l PROVE at[i] = {w[i]} /\ w[i] \in nodes
  <2>1. PICK x \in nodes : at[i] = {x}
    BY <1>1
  <2>2. w[i] = CHOOSE y : at[i] = {y}
    OBVIOUS
  <2>3. at[i] = {w[i]}
    BY <2>1, <2>2
  <2> QED
    BY <2>1, <2>3
<1>5. w \in [0 .. l -> nodes]
  <2> HIDE DEF Place
  <2>1. \A i \in 0 .. l : w[i] \in nodes
    BY <1>4
  <2> QED
    BY <2>1
<1> HIDE DEF w
<1>6. ASSUME NEW i \in 0 .. l - 1
      PROVE  \E c \in Children(reg, w[i]) : c.role = roles[i + 1] /\ c.node = w[i + 1]
  <2>1. i \in 0 .. l /\ i + 1 \in 0 .. l
    BY <1>3
  <2>2. at[i] = {w[i]} /\ at[i + 1] = {w[i + 1]}
    BY <1>4, <2>1
  <2>3. {w[i + 1]} = Follow(reg, {w[i]}, roles[i + 1])
    BY <1>2, <2>2
  <2>4. w[i + 1] \in {c.node : c \in {d \in Children(reg, w[i]) : d.role = roles[i + 1]}}
    BY <2>3 DEF Follow
  <2> QED
    BY <2>4
<1>7. ASSUME NEW i \in 0 .. l, NEW j \in 0 .. l, i < j, w[i] = w[j] PROVE FALSE
  <2> DEFINE loop == {w[k] : k \in i .. j - 1}
  <2>1. i \in i .. j - 1 /\ \A k \in i .. j - 1 : k \in 0 .. l /\ k \in 0 .. l - 1
    BY <1>3, <1>7
  <2>2. w[i] \in loop /\ loop \in SUBSET DOMAIN reg.nodes
    BY <1>4, <2>1 DEF nodes
  <2>3. PICK n \in loop : \A c \in Children(reg, n) : c.node \notin loop
    <3> HIDE DEF loop
    <3> QED
      BY <2>2 DEF Acyclic
  <2>4. PICK k \in i .. j - 1 : n = w[k]
    BY <2>3
  <2>5. w[k + 1] \notin loop
    BY <1>6, <2>1, <2>3, <2>4
  <2>6. k + 1 = j \/ k + 1 \in i .. j - 1
    BY <2>4
  <2>7. CASE k + 1 = j
    BY <1>7, <2>2, <2>5, <2>7
  <2>8. CASE k + 1 \in i .. j - 1
    BY <2>5, <2>8
  <2> QED
    BY <2>6, <2>7, <2>8
<1>8. \A i, j \in 0 .. l : w[i] = w[j] => i = j
  <2>1. \A i, j \in 0 .. l : i < j \/ j < i \/ i = j
    BY <1>3
  <2> QED
    BY <1>7, <2>1
<1>9. w \in Injection(0 .. l, nodes)
  BY <1>5, <1>8 DEF Injection, IsInjective
<1>10. Cardinality(0 .. l) <= Cardinality(nodes) /\ IsFiniteSet(nodes)
  <2>1. IsFiniteSet(nodes)
    BY DEF nodes
  <2> QED
    BY <1>9, <2>1, FS_Injection
<1>11. Cardinality(0 .. l) = l + 1
  <2>1. 0 \in Int /\ l \in Int /\ ~(0 > l) /\ (l - 0) + 1 = l + 1
    BY <1>3
  <2> QED
    BY <2>1, FS_Interval
<1>12. Cardinality(nodes) \in Nat
  BY <1>10, FS_CardinalityType
<1>13. l \in 0 .. Cardinality(nodes) - 1
  BY <1>3, <1>10, <1>11, <1>12
<1>14. ASSUME NEW i \in 1 .. l PROVE roles[i] \in RolesOf(reg)
  <2>1. i - 1 \in 0 .. l - 1 /\ i - 1 \in 0 .. l /\ (i - 1) + 1 = i
    BY <1>3
  <2>2. PICK c \in Children(reg, w[i - 1]) : c.role = roles[i]
    BY <1>6, <2>1
  <2>3. w[i - 1] \in DOMAIN reg.nodes
    BY <1>4, <2>1 DEF nodes
  <2> QED
    BY <2>2, <2>3 DEF RolesOf
<1> QED
  BY <1>13, <1>14 DEF l, nodes

\* What is known of a loaded registry once its graph has no cycle.
Proper(reg) ==
    /\ ChildrenExist(reg) /\ AllWellFormed(reg, DOMAIN reg.nodes)
    /\ Acyclic(reg) /\ IsFiniteSet(DOMAIN reg.nodes)

\* The enumeration of role paths misses none that leads somewhere.
LEMMA RolePathsAreAll ==
    ASSUME NEW reg, Proper(reg), NEW root \in DOMAIN reg.nodes, NEW path, Leads(reg, root, path)
    PROVE  path \in RolePaths(reg)
<1> DEFINE roles == Front(path)
           g == Last(path)
           k == Len(path) - 1
           size == Cardinality(DOMAIN reg.nodes)
<1>1. path \in Seq(ToSet(path)) /\ path # << >> /\ Len(path) \in Nat \ {0}
  BY Resolved DEF Leads, IsList
<1>2. Len(roles) = k /\ \A i \in 1 .. k : roles[i] = path[i]
  BY Resolved DEF Leads
<1>3. PICK m \in Walk(reg, root, roles)[k] : ~IsComposite(reg, m) /\ g \in DOMAIN reg.nodes[m].groups
  BY Resolved DEF Leads
<1>4. k \in Nat
  BY <1>1
<1>5. k \in 0 .. size - 1 /\ \A i \in 1 .. k : roles[i] \in RolesOf(reg)
  <2>1. Len(roles) \in Nat /\ Walk(reg, root, roles)[Len(roles)] # {}
    BY <1>2, <1>3, <1>4
  <2> HIDE DEF roles, k
  <2> QED
    BY <1>2, <2>1, WalkIsShort DEF Proper
<1>6. g \in GroupsOf(reg)
  <2>1. root \in Below(reg, root) /\ Below(reg, root) \subseteq DOMAIN reg.nodes
    BY BelowIsClosed DEF Proper
  <2>2. m \in DOMAIN reg.nodes
    <3>1. Len(roles) \in Nat /\ k \in 0 .. Len(roles)
      BY <1>2, <1>4
    <3>2. Walk(reg, root, roles)[k] \subseteq Below(reg, root)
      <4> HIDE DEF roles, k
      <4> QED
        BY <3>1, ManifestIsWalkedAlike DEF Proper
    <3> QED
      BY <1>3, <2>1, <3>2
  <2> HIDE DEF g
  <2> QED
    BY <1>3, <2>2 DEF GroupsOf
<1> DEFINE front == [i \in 1 .. k |-> path[i]]
           T == ToSet(path)
<1>7. front \in [1 .. k -> RolesOf(reg)]
  BY <1>2, <1>5
<1>8. front \o <<g>> = path
  <2>1. Len(path) = k + 1 /\ g = path[k + 1] /\ k + 1 \in 1 .. Len(path)
    BY <1>1 DEF Last
  <2>2. DOMAIN path = 1 .. Len(path) /\ \A i \in 1 .. Len(path) : path[i] \in T
    BY <1>1 DEF ToSet
  <2>3. front \in Seq(T) /\ Len(front) = k /\ \A i \in 1 .. k : front[i] = path[i]
    <3>1. \A i \in 1 .. k : i \in 1 .. Len(path)
      BY <1>1
    <3>2. front \in [1 .. k -> T]
      BY <2>2, <3>1
    <3>3. front \in Seq(T)
      <4> HIDE DEF front, T
      <4> QED
        BY <1>4, <3>2, SeqDef
    <3> QED
      BY <1>4, <3>3
  <2> HIDE DEF front, k, g, T
  <2>4. <<g>> \in Seq(T) /\ Len(<<g>>) = 1 /\ <<g>>[1] = g
    BY <2>1, <2>2
  <2>5. /\ front \o <<g>> \in Seq(T) /\ Len(front \o <<g>>) = k + 1
        /\ \A i \in 1 .. k + 1 : (front \o <<g>>)[i] = IF i <= k THEN front[i] ELSE <<g>>[i - k]
    BY <2>3, <2>4, ConcatProperties
  <2>6. ASSUME NEW i \in 1 .. k + 1 PROVE (front \o <<g>>)[i] = path[i]
    <3>1. i \in 1 .. k \/ (i = k + 1 /\ i - k = 1 /\ ~(i <= k))
      BY <1>4
    <3>2. i \in 1 .. k => i <= k
      BY <1>4
    <3> QED
      BY <2>1, <2>3, <2>4, <2>5, <3>1, <3>2
  <2>7. path \in Seq(T)
    BY <1>1 DEF T
  <2> QED
    BY <2>1, <2>5, <2>6, <2>7, SeqEqual
<1> HIDE DEF front, k, g, size
<1>9. front \in UNION {[1 .. j -> RolesOf(reg)] : j \in 0 .. size - 1}
  BY <1>5, <1>7
<1> QED
  BY <1>6, <1>8, <1>9 DEF RolePaths, size

\* Role paths are lists.
LEMMA RolePathsAreLists ==
    ASSUME NEW reg, Proper(reg), NEW path \in RolePaths(reg)
    PROVE  IsList(path)
<1> DEFINE fronts == UNION {[1 .. k -> RolesOf(reg)] :
                               k \in 0 .. Cardinality(DOMAIN reg.nodes) - 1}
<1>0. path \in UNION {{roles \o <<g>> : roles \in fronts} : g \in GroupsOf(reg)}
  BY DEF RolePaths
<1>1. PICK g \in GroupsOf(reg), roles \in fronts : path = roles \o <<g>>
  <2> HIDE DEF fronts
  <2>1. PICK g \in GroupsOf(reg) : path \in {roles \o <<g>> : roles \in fronts}
    BY <1>0
  <2>2. PICK roles \in fronts : path = roles \o <<g>>
    BY <2>1
  <2> QED
    BY <2>2
<1>2. PICK k \in 0 .. Cardinality(DOMAIN reg.nodes) - 1 : roles \in [1 .. k -> RolesOf(reg)]
  BY <1>1
<1>3. k \in Nat
  BY FS_CardinalityType DEF Proper
<1> DEFINE T == RolesOf(reg) \cup {g}
<1>4. roles \in Seq(T)
  <2>1. roles \in [1 .. k -> T]
    BY <1>2
  <2> HIDE DEF T
  <2> QED
    BY <1>3, <2>1, SeqDef
<1>5. <<g>> \in Seq(T)
  OBVIOUS
<1>6. path \in Seq(T)
  <2> HIDE DEF T
  <2> QED
    BY <1>1, <1>4, <1>5, ConcatProperties
<1> QED
  BY <1>6, SequenceIsList

\* The nodes that the role paths from a root pass are all nodes at or below it.
LEMMA UnderIsBelow ==
    ASSUME NEW reg, Proper(reg), NEW root \in DOMAIN reg.nodes
    PROVE  Under(reg, root) = Below(reg, root)
<1> DEFINE below == Below(reg, root)
           paths == {q \in RolePaths(reg) : ResolveGroup(reg, root, q) # Nowhere}
           Edges(p) == ToSet(Branch(reg, root, p))
<1>1. /\ root \in below /\ below \subseteq DOMAIN reg.nodes /\ Closed(reg, below)
      /\ AllWellFormed(reg, below)
  BY BelowIsClosed DEF Proper, AllWellFormed
<1>2. Under(reg, root) = {root} \cup {e.child.node : e \in UNION {Edges(p) : p \in paths}}
  BY DEF Under
<1>3. ASSUME NEW path, Leads(reg, root, path)
      PROVE  /\ EdgesOnWalk(reg, root, path) /\ Len(path) \in Nat \ {0}
             /\ \A i \in 0 .. Len(path) - 1 : Walk(reg, root, Front(path))[i] \subseteq below
  <2>1. EdgesOnWalk(reg, root, path)
    <3> HIDE DEF below
    <3> QED
      BY <1>1, <1>3, BranchIsWalk DEF Leads
  <2>2. Len(path) \in Nat \ {0} /\ Len(Front(path)) = Len(path) - 1 /\ Len(Front(path)) \in Nat
    BY <1>3, Resolved DEF Leads
  <2>3. \A i \in 0 .. Len(Front(path)) : Walk(reg, root, Front(path))[i] \subseteq below
    <3> DEFINE roles == Front(path)
    <3>1. Len(roles) \in Nat
      BY <2>2
    <3> HIDE DEF roles
    <3>2. \A i \in 0 .. Len(roles) : Walk(reg, root, roles)[i] \subseteq Below(reg, root)
      BY <3>1, ManifestIsWalkedAlike DEF Proper
    <3> QED
      BY <3>2 DEF roles
  <2> QED
    BY <2>1, <2>2, <2>3
<1>4. ASSUME NEW path \in RolePaths(reg) PROVE IsList(path)
  BY RolePathsAreLists
<1>5. ASSUME NEW p \in paths, NEW e \in Edges(p) PROVE e.child.node \in below
  <2>1. Leads(reg, root, p)
    BY <1>4 DEF Leads
  <2> DEFINE edges == Branch(reg, root, p)
             at == Walk(reg, root, Front(p))
             l == Len(p) - 1
  <2>2. /\ DOMAIN edges = 1 .. l /\ \A i \in 1 .. l : at[i] = {edges[i].child.node}
        /\ l \in Nat /\ \A i \in 0 .. l : at[i] \subseteq below
    BY <1>3, <2>1 DEF EdgesOnWalk
  <2>3. PICK i \in DOMAIN edges : e = edges[i]
    BY <1>5 DEF ToSet
  <2> HIDE DEF edges, at, l, below
  <2>4. i \in 1 .. l /\ i \in 0 .. l
    BY <2>2, <2>3
  <2>5. at[i] = {e.child.node} /\ at[i] \subseteq below
    BY <2>2, <2>3, <2>4
  <2> QED
    BY <2>5
<1>6. ASSUME NEW m \in below, m # root PROVE \E p \in paths : \E e \in Edges(p) : e.child.node = m
  <2>1. PICK roles : IsList(roles) /\ m \in Walk(reg, root, roles)[Len(roles)]
    BY <1>6, RolesReachBelow DEF Proper
  <2>2. PICK rest : Leads(reg, m, rest)
    BY <1>1, <1>6, EveryNodeLeadsDown DEF Proper
  <2> DEFINE path == roles \o rest
             a == Len(roles)
             l == Len(path) - 1
             at == Walk(reg, root, Front(path))
             edges == Branch(reg, root, path)
  <2>3. Leads(reg, root, path) /\ a \in 0 .. l /\ m \in at[a]
    BY <2>1, <2>2, JoinedPath DEF Leads
  <2> HIDE DEF path
  <2>4. path \in paths
    BY <2>3, RolePathsAreAll DEF Leads
  <2>5. /\ DOMAIN edges = 1 .. l /\ \A i \in 1 .. l : at[i] = {edges[i].child.node}
        /\ l \in Nat
    BY <1>3, <2>3 DEF EdgesOnWalk
  <2>6. at[0] = {root}
    <3>1. Len(Front(path)) \in Nat
      BY <2>3, Resolved DEF Leads
    <3> QED
      BY <3>1, WalkSteps
  <2> HIDE DEF at, l, edges, a
  <2>7. a # 0
    BY <1>6, <2>3, <2>6
  <2>8. a \in 1 .. l
    BY <2>3, <2>5, <2>7
  <2>9. edges[a].child.node = m
    BY <2>3, <2>5, <2>8
  <2>10. edges[a] \in ToSet(edges)
    BY <2>5, <2>8 DEF ToSet
  <2> QED
    BY <2>4, <2>9, <2>10 DEF edges
<1> HIDE DEF below, paths, Edges
<1>7. Under(reg, root) = below
  BY <1>1, <1>2, <1>5, <1>6
<1> QED
  BY <1>7 DEF below

-----------------------------------------------------------------------------
(* The walk that looks for cycles. *)

\* The walks after each of a sequence of visits.
InTurn(visit, walk, ids, after) ==
    /\ after[0] = walk
    /\ \A i \in 0 .. Len(ids) - 1 : after[i + 1] = visit[after[i]][ids[i + 1]]

\* A loop of visits, one after the other.
LEMMA VisitsInTurn ==
    ASSUME NEW visit, NEW walk, NEW ids, Len(ids) \in Nat
    PROVE  InTurn(visit, walk, ids, VisitEach(visit, walk, ids))
<1> DEFINE P(f, k) ==
              f = [i \in 0 .. k |-> IF i = 0 THEN walk ELSE visit[f[i - 1]][ids[i]]]
           S == {k \in Nat : \E f : P(f, k)}
           after == VisitEach(visit, walk, ids)
<1>1. 0 \in S
  <2> DEFINE g == [i \in 0 .. 0 |-> walk]
  <2>1. P(g, 0)
    OBVIOUS
  <2> QED
    BY <2>1
<1>2. ASSUME NEW k \in 0 .. Len(ids) - 1, k \in S PROVE k + 1 \in S
  <2>1. PICK f : P(f, k)
    BY <1>2
  <2> DEFINE g == [i \in 0 .. k + 1 |-> IF i = k + 1 THEN visit[f[k]][ids[k + 1]] ELSE f[i]]
             h == [i \in 0 .. k + 1 |-> IF i = 0 THEN walk ELSE visit[g[i - 1]][ids[i]]]
  <2>2. k \in Nat /\ k + 1 \in Nat
    OBVIOUS
  <2>3. ASSUME NEW i \in 0 .. k + 1 PROVE g[i] = h[i]
    <3>1. CASE i = k + 1
      <4>1. g[i] = visit[f[k]][ids[k + 1]]
        BY <2>2, <3>1
      <4>2. i # 0 /\ i - 1 = k /\ k \in 0 .. k + 1 /\ k # k + 1
        BY <2>2, <3>1
      <4>3. g[i - 1] = f[k]
        BY <4>2
      <4> QED
        BY <3>1, <4>1, <4>2, <4>3
    <3>2. CASE i # k + 1
      <4>1. i \in 0 .. k /\ g[i] = f[i]
        BY <2>2, <3>2
      <4>2. f[i] = IF i = 0 THEN walk ELSE visit[f[i - 1]][ids[i]]
        BY <2>1, <4>1
      <4>3. i # 0 => i - 1 \in 0 .. k + 1 /\ i - 1 # k + 1
        BY <2>2, <4>1
      <4>4. i # 0 => g[i - 1] = f[i - 1]
        BY <4>3
      <4> QED
        BY <4>1, <4>2, <4>4
    <3> QED
      BY <3>1, <3>2
  <2>4. g = h
    BY <2>3
  <2>5. P(g, k + 1)
    BY <2>4
  <2> HIDE DEF g, h, P
  <2> QED
    BY <2>2, <2>5
<1>3. \A k \in 0 .. Len(ids) : k \in S
  <2> HIDE DEF S
  <2>1. 0 \in Nat /\ \A k \in 0 .. Len(ids) - 1 : k \in S => k + 1 \in S
    BY <1>2
  <2> QED
    BY <1>1, <2>1, IntervalInduction
<1>4. \E f : P(f, Len(ids))
  <2>1. Len(ids) \in S
    <3> HIDE DEF S
    <3>1. Len(ids) \in 0 .. Len(ids)
      OBVIOUS
    <3> QED
      BY <1>3, <3>1
  <2> HIDE DEF P
  <2> QED
    BY <2>1
<1>5. after = CHOOSE f : P(f, Len(ids))
  BY DEF VisitEach
<1>6. P(after, Len(ids))
  <2> HIDE DEF P, after
  <2> QED
    BY <1>4, <1>5
<1> HIDE DEF after
<1>7. after[0] = walk
  BY <1>6
<1>8. ASSUME NEW i \in 0 .. Len(ids) - 1 PROVE after[i + 1] = visit[after[i]][ids[i + 1]]
  <2>1. i + 1 \in 0 .. Len(ids) /\ i + 1 # 0 /\ (i + 1) - 1 = i
    OBVIOUS
  <2> QED
    BY <1>6, <2>1
<1>9. InTurn(visit, walk, ids, after)
  BY <1>7, <1>8 DEF InTurn
<1> QED
  BY <1>9 DEF after

\* A set of nodes with their children that has no cycle.
WellFounded(reg, set) ==
    /\ Closed(reg, set)
    /\ \A part \in SUBSET set : part # {} =>
          \E n \in part : \A c \in Children(reg, n) : c.node \notin part

\* What a visit does: it raises, or it leaves the nodes being visited as they were, and
\* the node among those that are done.
Visited(reg, walk, n, result) ==
    /\ result \in Walks(reg)
    /\ walk.cycle => result.cycle
    /\ ~result.cycle =>
          /\ result.visiting = walk.visiting
          /\ n \in result.visited /\ walk.visited \subseteq result.visited
          /\ WellFounded(reg, walk.visited) => WellFounded(reg, result.visited)

\* The walks that a visit can be called with while these nodes are being visited.
Inside(reg, visiting) == {w \in Walks(reg) : w.cycle \/ w.visiting = visiting}

VisitsWell(reg, visit, visiting) ==
    \A w \in Inside(reg, visiting), n \in DOMAIN reg.nodes : Visited(reg, w, n, visit[w][n])

\* A loop of such visits is like one of them, for all of its nodes.
LEMMA LoopVisits ==
    ASSUME NEW reg, NEW visit, NEW visiting, VisitsWell(reg, visit, visiting),
           NEW walk \in Walks(reg), ~walk.cycle, walk.visiting = visiting,
           NEW ids, Len(ids) \in Nat, \A i \in 1 .. Len(ids) : ids[i] \in DOMAIN reg.nodes
    PROVE  \A i \in 0 .. Len(ids) :
              LET w == VisitEach(visit, walk, ids)[i]
              IN  /\ w \in Inside(reg, visiting)
                  /\ ~w.cycle => /\ walk.visited \subseteq w.visited
                                 /\ \A j \in 1 .. i : ids[j] \in w.visited
                                 /\ WellFounded(reg, walk.visited) => WellFounded(reg, w.visited)
<1> DEFINE after == VisitEach(visit, walk, ids)
           Good(i) == /\ after[i] \in Inside(reg, visiting)
                      /\ ~after[i].cycle =>
                            /\ walk.visited \subseteq after[i].visited
                            /\ \A j \in 1 .. i : ids[j] \in after[i].visited
                            /\ WellFounded(reg, walk.visited) => WellFounded(reg, after[i].visited)
           S == {i \in Nat : Good(i)}
<1>1. after[0] = walk /\ \A i \in 0 .. Len(ids) - 1 : after[i + 1] = visit[after[i]][ids[i + 1]]
  <2>1. InTurn(visit, walk, ids, after)
    BY VisitsInTurn
  <2> HIDE DEF after
  <2> QED
    BY <2>1 DEF InTurn
<1> HIDE DEF after
<1>2. 0 \in S
  <2>1. walk \in Inside(reg, visiting) /\ 1 .. 0 = {}
    BY DEF Inside
  <2> QED
    BY <1>1, <2>1
<1>3. ASSUME NEW i \in 0 .. Len(ids) - 1, i \in S PROVE i + 1 \in S
  <2>1. i + 1 \in Nat /\ i + 1 \in 1 .. Len(ids) /\ \A j \in 1 .. i + 1 : j = i + 1 \/ j \in 1 .. i
    OBVIOUS
  <2>2. Good(i)
    BY <1>3
  <2> DEFINE w == after[i]
             next == after[i + 1]
             n == ids[i + 1]
  <2>3. Visited(reg, w, n, next)
    BY <1>1, <2>1, <2>2 DEF VisitsWell
  <2> HIDE DEF w, next, n
  <2>4. next \in Inside(reg, visiting)
    BY <2>2, <2>3 DEF Visited, Inside, w
  <2>5. ASSUME ~next.cycle
        PROVE  /\ walk.visited \subseteq next.visited
               /\ \A j \in 1 .. i + 1 : ids[j] \in next.visited
               /\ WellFounded(reg, walk.visited) => WellFounded(reg, next.visited)
    <3>1. ~w.cycle
      BY <2>3, <2>5 DEF Visited
    <3>2. /\ n \in next.visited /\ w.visited \subseteq next.visited
          /\ WellFounded(reg, w.visited) => WellFounded(reg, next.visited)
      BY <2>3, <2>5 DEF Visited
    <3>3. /\ walk.visited \subseteq w.visited
          /\ \A j \in 1 .. i : ids[j] \in w.visited
          /\ WellFounded(reg, walk.visited) => WellFounded(reg, w.visited)
      BY <2>2, <3>1 DEF w
    <3>4. \A j \in 1 .. i + 1 : ids[j] \in next.visited
      BY <2>1, <3>2, <3>3 DEF n
    <3> QED
      BY <3>2, <3>3, <3>4
  <2>6. Good(i + 1)
    BY <2>4, <2>5 DEF next
  <2> HIDE DEF Good
  <2> QED
    BY <2>1, <2>6
<1>4. \A i \in 0 .. Len(ids) : i \in S
  <2>1. 0 \in Nat /\ \A i \in 0 .. Len(ids) - 1 : i \in S => i + 1 \in S
    BY <1>3
  <2> HIDE DEF S
  <2> QED
    BY <1>2, <2>1, IntervalInduction
<1> QED
  BY <1>4 DEF after

\* What the constructors and the first check of _validate_graph establish.
SoundNodes(reg) == ChildrenExist(reg) /\ AllWellFormed(reg, DOMAIN reg.nodes)

\* The ids of the children, in order.
LEMMA ChildIdsAreNodes ==
    ASSUME NEW reg, SoundNodes(reg), NEW n \in DOMAIN reg.nodes
    PROVE  /\ Len(ChildIds(reg, n)) \in Nat
           /\ \A i \in 1 .. Len(ChildIds(reg, n)) : ChildIds(reg, n)[i] \in DOMAIN reg.nodes
           /\ \A c \in Children(reg, n) :
                 \E i \in 1 .. Len(ChildIds(reg, n)) : c.node = ChildIds(reg, n)[i]
           /\ \A i \in 1 .. Len(ChildIds(reg, n)) :
                 \E c \in Children(reg, n) : ChildIds(reg, n)[i] = c.node
<1>1. CASE IsComposite(reg, n)
  <2> DEFINE list == reg.nodes[n].children
             ids == [i \in DOMAIN list |-> list[i].node]
  <2>1. ChildIds(reg, n) = ids /\ Children(reg, n) = ToSet(list)
    BY <1>1 DEF ChildIds, Children
  <2>2. IsList(list)
    BY <1>1 DEF SoundNodes, AllWellFormed, WellFormed, WellFormedComposite, IsComposite
  <2>3. \A c \in ToSet(list) : c.node \in DOMAIN reg.nodes
    BY <2>1 DEF SoundNodes, ChildrenExist
  <2> HIDE DEF list
  <2>4. Len(list) \in Nat /\ DOMAIN list = 1 .. Len(list)
    BY <2>2 DEF IsList
  <2>5. ToSet(list) = {list[i] : i \in DOMAIN list}
    BY DEF ToSet
  <2>6. DOMAIN ids = 1 .. Len(list)
    BY <2>4
  <2>7. \A i \in 1 .. Len(list) :
           ids[i] = list[i].node /\ ids[i] \in DOMAIN reg.nodes /\ list[i] \in ToSet(list)
    BY <2>3, <2>4, <2>5
  <2>8. ids \in Seq(DOMAIN reg.nodes)
    <3>1. ids \in [1 .. Len(list) -> DOMAIN reg.nodes]
      BY <2>4, <2>7
    <3> HIDE DEF ids
    <3> QED
      BY <2>4, <3>1, SeqDef
  <2>9. Len(ids) = Len(list)
    <3> HIDE DEF ids
    <3> QED
      BY <2>4, <2>6, <2>8
  <2>10. \A c \in ToSet(list) : \E i \in 1 .. Len(list) : c.node = ids[i]
    BY <2>4, <2>5, <2>7
  <2> HIDE DEF ids
  <2> QED
    BY <2>1, <2>4, <2>7, <2>9, <2>10
<1>2. CASE ~IsComposite(reg, n)
  <2>1. ChildIds(reg, n) = << >> /\ Children(reg, n) = {}
    BY <1>2 DEF ChildIds, Children
  <2>2. Len(<< >>) = 0 /\ 1 .. 0 = {}
    OBVIOUS
  <2> QED
    BY <2>1, <2>2
<1> QED
  BY <1>1, <1>2

\* A node whose children are all done can be added.
LEMMA OneMoreNode ==
    ASSUME NEW reg, NEW set, WellFounded(reg, set), NEW n,
           \A c \in Children(reg, n) : c.node \in set
    PROVE  WellFounded(reg, set \cup {n})
<1>1. Closed(reg, set \cup {n})
  BY DEF WellFounded, Closed
<1>2. ASSUME NEW part \in SUBSET (set \cup {n}), part # {}
      PROVE  \E m \in part : \A c \in Children(reg, m) : c.node \notin part
  <2>1. CASE part \cap set # {}
    <3>1. PICK m \in part \cap set : \A c \in Children(reg, m) : c.node \notin part \cap set
      <4>1. part \cap set \in SUBSET set
        OBVIOUS
      <4> QED
        BY <2>1, <4>1 DEF WellFounded
    <3>2. \A c \in Children(reg, m) : c.node \in set
      BY <3>1 DEF WellFounded, Closed
    <3> QED
      BY <3>1, <3>2
  <2>2. CASE part \cap set = {}
    <3>1. n \in part
      BY <1>2, <2>2
    <3> QED
      BY <2>2, <3>1
  <2> QED
    BY <2>1, <2>2
<1> QED
  BY <1>1, <1>2 DEF WellFounded

\* The visits that call no other.
AtOnce(walk, n) == walk.cycle \/ n \in walk.visiting \/ n \in walk.visited

\* Such a visit leaves the walk as it is, or reports the cycle, whatever the visit function.
LEMMA VisitedAtOnce ==
    ASSUME NEW reg, NEW walk \in Walks(reg), NEW n \in DOMAIN reg.nodes, AtOnce(walk, n), NEW visit
    PROVE  Visited(reg, walk, n, VisitNode(reg, visit, walk, n))
<1>1. CASE walk.cycle \/ n \in walk.visiting
  <2> DEFINE raised == [walk EXCEPT !.cycle = TRUE]
  <2>1. VisitNode(reg, visit, walk, n) = raised
    BY <1>1 DEF VisitNode
  <2>2. raised \in Walks(reg) /\ raised.cycle
    BY DEF Walks
  <2> QED
    BY <2>1, <2>2 DEF Visited
<1>2. CASE ~(walk.cycle \/ n \in walk.visiting)
  <2>1. VisitNode(reg, visit, walk, n) = walk /\ n \in walk.visited
    BY <1>2 DEF VisitNode, AtOnce
  <2> QED
    BY <2>1 DEF Visited
<1> QED
  BY <1>1, <1>2

\* A visit is as good as the visits it calls.
LEMMA BodyVisits ==
    ASSUME NEW reg, SoundNodes(reg), NEW visit, NEW walk \in Walks(reg), NEW n \in DOMAIN reg.nodes,
           ~AtOnce(walk, n), VisitsWell(reg, visit, walk.visiting \cup {n})
    PROVE  Visited(reg, walk, n, VisitNode(reg, visit, walk, n))
<1> DEFINE ids == ChildIds(reg, n)
           entered == [walk EXCEPT !.visiting = @ \cup {n}]
           inside == walk.visiting \cup {n}
           after == VisitEach(visit, entered, ids)
           end == after[Len(ids)]
           result == Leave(end, n)
<1>1. VisitNode(reg, visit, walk, n) = result
  BY DEF VisitNode, AtOnce
<1>2. /\ entered \in Walks(reg) /\ ~entered.cycle /\ entered.visiting = inside
      /\ entered.visited = walk.visited
  BY DEF Walks, AtOnce
<1>3. /\ Len(ids) \in Nat /\ \A i \in 1 .. Len(ids) : ids[i] \in DOMAIN reg.nodes
      /\ \A c \in Children(reg, n) : \E i \in 1 .. Len(ids) : c.node = ids[i]
  BY ChildIdsAreNodes
<1>4. /\ end \in Inside(reg, inside)
      /\ ~end.cycle => /\ walk.visited \subseteq end.visited
                       /\ \A j \in 1 .. Len(ids) : ids[j] \in end.visited
                       /\ WellFounded(reg, walk.visited) => WellFounded(reg, end.visited)
  <2>1. VisitsWell(reg, visit, inside)
    OBVIOUS
  <2> HIDE DEF entered, inside, ids
  <2>2. Len(ids) \in 0 .. Len(ids)
    BY <1>3
  <2> QED
    BY <1>2, <1>3, <2>1, <2>2, LoopVisits
<1> HIDE DEF end, ids
<1>5. result = [end EXCEPT !.visiting = @ \ {n}, !.visited = @ \cup {n}]
  BY DEF Leave
<1>6. /\ result \in Walks(reg) /\ result.cycle = end.cycle
      /\ result.visiting = end.visiting \ {n} /\ result.visited = end.visited \cup {n}
  BY <1>4, <1>5, ZenonT(30) DEF Inside, Walks
<1> HIDE DEF result
<1>7. ASSUME ~result.cycle
      PROVE  /\ result.visiting = walk.visiting
             /\ n \in result.visited /\ walk.visited \subseteq result.visited
             /\ WellFounded(reg, walk.visited) => WellFounded(reg, result.visited)
  <2>1. ~end.cycle /\ end.visiting = inside
    BY <1>4, <1>6, <1>7 DEF Inside
  <2>2. \A c \in Children(reg, n) : c.node \in end.visited
    BY <1>3, <1>4, <2>1
  <2>3. WellFounded(reg, walk.visited) => WellFounded(reg, end.visited \cup {n})
    BY <1>4, <2>1, <2>2, OneMoreNode
  <2> QED
    BY <1>4, <1>6, <2>1, <2>3 DEF AtOnce
<1> QED
  BY <1>1, <1>6, <1>7 DEF Visited, AtOnce

\* Two visits that do the same while these nodes are being visited.
SameVisits(reg, visit, other, visiting) ==
    \A w \in Inside(reg, visiting), n \in DOMAIN reg.nodes : visit[w][n] = other[w][n]

\* A visit depends on the visits it calls only.
LEMMA BodyDependsOnVisits ==
    ASSUME NEW reg, SoundNodes(reg), NEW visit, NEW other, NEW walk \in Walks(reg),
           NEW n \in DOMAIN reg.nodes,
           ~AtOnce(walk, n), VisitsWell(reg, visit, walk.visiting \cup {n}),
           SameVisits(reg, visit, other, walk.visiting \cup {n})
    PROVE  VisitNode(reg, visit, walk, n) = VisitNode(reg, other, walk, n)
<1> DEFINE ids == ChildIds(reg, n)
           entered == [walk EXCEPT !.visiting = @ \cup {n}]
           inside == walk.visiting \cup {n}
           after == VisitEach(visit, entered, ids)
           others == VisitEach(other, entered, ids)
           S == {i \in Nat : after[i] = others[i]}
<1>1. /\ VisitNode(reg, visit, walk, n) = Leave(after[Len(ids)], n)
      /\ VisitNode(reg, other, walk, n) = Leave(others[Len(ids)], n)
  BY DEF VisitNode, AtOnce
<1>2. entered \in Walks(reg) /\ ~entered.cycle /\ entered.visiting = inside
  BY DEF Walks, AtOnce
<1>3. Len(ids) \in Nat /\ \A i \in 1 .. Len(ids) : ids[i] \in DOMAIN reg.nodes
  BY ChildIdsAreNodes
<1>4. VisitsWell(reg, visit, inside) /\ SameVisits(reg, visit, other, inside)
  OBVIOUS
<1> HIDE DEF entered, inside, ids
<1>5. \A i \in 0 .. Len(ids) : after[i] \in Inside(reg, inside)
  BY <1>2, <1>3, <1>4, LoopVisits
<1>6. after[0] = entered /\ \A i \in 0 .. Len(ids) - 1 : after[i + 1] = visit[after[i]][ids[i + 1]]
  <2>1. InTurn(visit, entered, ids, after)
    BY <1>3, VisitsInTurn
  <2> HIDE DEF after, others
  <2> QED
    BY <2>1 DEF InTurn
<1>7. others[0] = entered /\ \A i \in 0 .. Len(ids) - 1 : others[i + 1] = other[others[i]][ids[i + 1]]
  <2>1. InTurn(other, entered, ids, others)
    BY <1>3, VisitsInTurn
  <2> HIDE DEF after, others
  <2> QED
    BY <2>1 DEF InTurn
<1> HIDE DEF after, others
<1>8. 0 \in S
  BY <1>6, <1>7
<1>9. ASSUME NEW i \in 0 .. Len(ids) - 1, i \in S PROVE i + 1 \in S
  <2>1. i + 1 \in Nat /\ i + 1 \in 1 .. Len(ids) /\ i \in 0 .. Len(ids)
    BY <1>3
  <2>2. visit[after[i]][ids[i + 1]] = other[after[i]][ids[i + 1]]
    BY <1>3, <1>4, <1>5, <2>1 DEF SameVisits
  <2> QED
    BY <1>6, <1>7, <1>9, <2>1, <2>2
<1>10. \A i \in 0 .. Len(ids) : i \in S
  <2>1. 0 \in Nat /\ \A i \in 0 .. Len(ids) - 1 : i \in S => i + 1 \in S
    BY <1>9
  <2> HIDE DEF S
  <2> QED
    BY <1>3, <1>8, <2>1, IntervalInduction
<1>11. Len(ids) \in S
  <2>1. Len(ids) \in 0 .. Len(ids)
    BY <1>3
  <2> HIDE DEF S
  <2> QED
    BY <1>10, <2>1
<1> QED
  BY <1>1, <1>11

\* The nodes that a visit may still enter.
NodesLeft(reg, walk) == Cardinality(DOMAIN reg.nodes \ walk.visiting)

\* Entering a node leaves one node fewer.
LEMMA EnteringLeavesFewer ==
    ASSUME NEW reg, IsFiniteSet(DOMAIN reg.nodes), NEW walk \in Walks(reg)
    PROVE  /\ NodesLeft(reg, walk) \in 0 .. Cardinality(DOMAIN reg.nodes)
           /\ Cardinality(DOMAIN reg.nodes) \in Nat
           /\ \A n \in DOMAIN reg.nodes : n \notin walk.visiting =>
                 /\ NodesLeft(reg, walk) # 0
                 /\ \A w \in Walks(reg) : w.visiting = walk.visiting \cup {n} =>
                       NodesLeft(reg, w) = NodesLeft(reg, walk) - 1
<1> DEFINE nodes == DOMAIN reg.nodes
           left == nodes \ walk.visiting
<1>1. /\ left \subseteq nodes /\ IsFiniteSet(left) /\ Cardinality(left) <= Cardinality(nodes)
      /\ Cardinality(left) \in Nat /\ Cardinality(nodes) \in Nat
  BY FS_Subset, FS_CardinalityType
<1>2. ASSUME NEW n \in nodes, n \notin walk.visiting
      PROVE  /\ Cardinality(left) # 0
             /\ Cardinality(nodes \ (walk.visiting \cup {n})) = Cardinality(left) - 1
  <2>1. n \in left /\ left # {} /\ nodes \ (walk.visiting \cup {n}) = left \ {n}
    BY <1>2
  <2> HIDE DEF left, nodes
  <2> QED
    BY <1>1, <2>1, FS_RemoveElement, FS_EmptySet
<1>3. ASSUME NEW n \in nodes, n \notin walk.visiting,
             NEW w \in Walks(reg), w.visiting = walk.visiting \cup {n}
      PROVE  NodesLeft(reg, w) = NodesLeft(reg, walk) - 1
  <2>1. NodesLeft(reg, w) = Cardinality(nodes \ (walk.visiting \cup {n}))
    BY <1>3 DEF NodesLeft
  <2> QED
    BY <1>2, <1>3, <2>1 DEF NodesLeft
<1>4. NodesLeft(reg, walk) = Cardinality(left)
  BY DEF NodesLeft
<1>5. NodesLeft(reg, walk) \in 0 .. Cardinality(nodes) /\ Cardinality(nodes) \in Nat
  BY <1>1, <1>4
<1>6. \A n \in nodes : n \notin walk.visiting => NodesLeft(reg, walk) # 0
  BY <1>2, <1>4
<1> HIDE DEF left
<1> QED
  BY <1>3, <1>5, <1>6

\* A visit that is right for the walks with few nodes left.
VisitsUpTo(reg, visit, k) ==
    \A w \in Walks(reg), n \in DOMAIN reg.nodes :
        w.cycle \/ NodesLeft(reg, w) <= k =>
            /\ visit[w][n] = VisitNode(reg, visit, w, n)
            /\ Visited(reg, w, n, visit[w][n])

IsVisit(reg, visit) ==
    visit = [w \in Walks(reg) |-> [n \in DOMAIN reg.nodes |-> visit[w][n]]]

\* The visits that a visit calls have fewer nodes left.
LEMMA CallsHaveFewerLeft ==
    ASSUME NEW reg, IsFiniteSet(DOMAIN reg.nodes), NEW visit, NEW k \in Nat, VisitsUpTo(reg, visit, k),
           NEW walk \in Walks(reg), NEW n \in DOMAIN reg.nodes, ~AtOnce(walk, n),
           NodesLeft(reg, walk) <= k + 1
    PROVE  /\ VisitsWell(reg, visit, walk.visiting \cup {n})
           /\ \A w \in Inside(reg, walk.visiting \cup {n}), m \in DOMAIN reg.nodes :
                 visit[w][m] = VisitNode(reg, visit, w, m)
<1>1. n \notin walk.visiting
  BY DEF AtOnce
<1>2. ASSUME NEW w \in Inside(reg, walk.visiting \cup {n}) PROVE w.cycle \/ NodesLeft(reg, w) <= k
  <2>1. w \in Walks(reg) /\ (w.cycle \/ w.visiting = walk.visiting \cup {n})
    BY <1>2 DEF Inside
  <2>2. NodesLeft(reg, walk) \in Nat
    BY EnteringLeavesFewer
  <2>3. w.visiting = walk.visiting \cup {n} => NodesLeft(reg, w) = NodesLeft(reg, walk) - 1
    BY <1>1, <2>1, EnteringLeavesFewer
  <2> QED
    BY <2>1, <2>2, <2>3
<1>3. \A w \in Inside(reg, walk.visiting \cup {n}) : w \in Walks(reg)
  BY DEF Inside
<1> QED
  BY <1>2, <1>3 DEF VisitsUpTo, VisitsWell

\* A visit that calls no other does not depend on them.
LEMMA AtOnceAlike ==
    ASSUME NEW reg, NEW walk, NEW n, AtOnce(walk, n), NEW visit, NEW other
    PROVE  VisitNode(reg, visit, walk, n) = VisitNode(reg, other, walk, n)
BY DEF AtOnce, VisitNode

\* The equation of the visit has a solution: one more call deep, one more node left.
LEMMA VisitExists ==
    ASSUME NEW reg, SoundNodes(reg), IsFiniteSet(DOMAIN reg.nodes)
    PROVE  \A k \in 0 .. Cardinality(DOMAIN reg.nodes) :
              \E visit : IsVisit(reg, visit) /\ VisitsUpTo(reg, visit, k)
<1> DEFINE S == {k \in Nat : \E visit : IsVisit(reg, visit) /\ VisitsUpTo(reg, visit, k)}
           Next1(f) == [w \in Walks(reg) |-> [n \in DOMAIN reg.nodes |-> VisitNode(reg, f, w, n)]]
<1>0. ASSUME NEW f
      PROVE  /\ IsVisit(reg, Next1(f))
             /\ \A w \in Walks(reg), n \in DOMAIN reg.nodes : Next1(f)[w][n] = VisitNode(reg, f, w, n)
  BY DEF IsVisit
<1> HIDE DEF Next1
<1>1. 0 \in S
  <2>1. PICK f : f = Next1({})
    OBVIOUS
  <2>2. ASSUME NEW w \in Walks(reg), NEW n \in DOMAIN reg.nodes, w.cycle \/ NodesLeft(reg, w) <= 0
        PROVE  f[w][n] = VisitNode(reg, f, w, n) /\ Visited(reg, w, n, f[w][n])
    <3>1. AtOnce(w, n)
      <4>1. CASE w.cycle
        BY <4>1 DEF AtOnce
      <4>2. CASE NodesLeft(reg, w) <= 0
        <5>1. NodesLeft(reg, w) \in Nat
          BY EnteringLeavesFewer
        <5>2. n \in w.visiting
          BY <4>2, <5>1, EnteringLeavesFewer
        <5> QED
          BY <5>2 DEF AtOnce
      <4> QED
        BY <2>2, <4>1, <4>2
    <3>2. f[w][n] = VisitNode(reg, {}, w, n)
      BY <1>0, <2>1
    <3>3. f[w][n] = VisitNode(reg, f, w, n)
      BY <3>1, <3>2, AtOnceAlike
    <3>4. Visited(reg, w, n, VisitNode(reg, f, w, n))
      BY <3>1, VisitedAtOnce
    <3> QED
      BY <3>3, <3>4
  <2>3. VisitsUpTo(reg, f, 0)
    BY <2>2 DEF VisitsUpTo
  <2> QED
    BY <1>0, <2>1, <2>3
<1>2. ASSUME NEW k \in 0 .. Cardinality(DOMAIN reg.nodes) - 1, k \in S PROVE k + 1 \in S
  <2>1. k \in Nat /\ k + 1 \in Nat
    BY <1>2
  <2>2. PICK f : VisitsUpTo(reg, f, k)
    BY <1>2
  <2>3. PICK g : g = Next1(f)
    OBVIOUS
  <2>4. ASSUME NEW w \in Walks(reg), NEW n \in DOMAIN reg.nodes, w.cycle \/ NodesLeft(reg, w) <= k + 1
        PROVE  g[w][n] = VisitNode(reg, g, w, n) /\ Visited(reg, w, n, g[w][n])
    <3>1. g[w][n] = VisitNode(reg, f, w, n)
      BY <1>0, <2>3
    <3>2. CASE AtOnce(w, n)
      <4>1. VisitNode(reg, f, w, n) = VisitNode(reg, g, w, n)
        BY <3>2, AtOnceAlike
      <4>2. Visited(reg, w, n, VisitNode(reg, f, w, n))
        BY <3>2, VisitedAtOnce
      <4> QED
        BY <3>1, <4>1, <4>2
    <3>3. CASE ~AtOnce(w, n)
      <4>1. NodesLeft(reg, w) <= k + 1
        BY <2>4, <3>3 DEF AtOnce
      <4>2. /\ VisitsWell(reg, f, w.visiting \cup {n})
            /\ \A v \in Inside(reg, w.visiting \cup {n}), m \in DOMAIN reg.nodes :
                  f[v][m] = VisitNode(reg, f, v, m)
        BY <2>1, <2>2, <3>3, <4>1, CallsHaveFewerLeft
      <4>3. SameVisits(reg, f, g, w.visiting \cup {n})
        <5> SUFFICES ASSUME NEW v \in Inside(reg, w.visiting \cup {n}), NEW m \in DOMAIN reg.nodes
                     PROVE  f[v][m] = g[v][m]
          BY DEF SameVisits
        <5>1. v \in Walks(reg)
          BY DEF Inside
        <5>2. g[v][m] = VisitNode(reg, f, v, m)
          BY <1>0, <2>3, <5>1
        <5> QED
          BY <4>2, <5>2
      <4>4. VisitNode(reg, f, w, n) = VisitNode(reg, g, w, n)
        BY <3>3, <4>2, <4>3, BodyDependsOnVisits
      <4>5. Visited(reg, w, n, VisitNode(reg, f, w, n))
        BY <3>3, <4>2, BodyVisits
      <4> QED
        BY <3>1, <4>4, <4>5
    <3> QED
      BY <3>2, <3>3
  <2>5. VisitsUpTo(reg, g, k + 1)
    BY <2>4 DEF VisitsUpTo
  <2>6. IsVisit(reg, g)
    BY <1>0, <2>3
  <2> QED
    BY <2>1, <2>5, <2>6
<1>3. \A k \in 0 .. Cardinality(DOMAIN reg.nodes) : k \in S
  <2>1. 0 \in Nat /\ \A k \in 0 .. Cardinality(DOMAIN reg.nodes) - 1 : k \in S => k + 1 \in S
    BY <1>2
  <2>2. Cardinality(DOMAIN reg.nodes) \in Nat
    BY FS_CardinalityType
  <2> HIDE DEF S
  <2> QED
    BY <1>1, <2>1, <2>2, IntervalInduction
<1> QED
  BY <1>3

\* The equation of visit, and what its visits do.
VisitIsVisited(reg, visit) ==
    \A w \in Walks(reg), n \in DOMAIN reg.nodes :
        visit[w][n] = VisitNode(reg, visit, w, n) /\ Visited(reg, w, n, visit[w][n])

\* What a visit does, whatever it is called with.
LEMMA VisitVisits ==
    ASSUME NEW reg, SoundNodes(reg), IsFiniteSet(DOMAIN reg.nodes)
    PROVE  VisitIsVisited(reg, Visit(reg))
<1> DEFINE N == Cardinality(DOMAIN reg.nodes)
           visit == Visit(reg)
           Solves(f) == f = [w \in Walks(reg) |->
                                [n \in DOMAIN reg.nodes |-> VisitNode(reg, f, w, n)]]
           S == {k \in Nat : VisitsUpTo(reg, visit, k)}
<1>1. N \in Nat
  BY FS_CardinalityType
<1>2. \E f : Solves(f)
  <2>1. PICK f : IsVisit(reg, f) /\ VisitsUpTo(reg, f, N)
    <3>1. N \in 0 .. N
      BY <1>1
    <3> QED
      BY <3>1, VisitExists
  <2>2. \A w \in Walks(reg), n \in DOMAIN reg.nodes : f[w][n] = VisitNode(reg, f, w, n)
    <3>1. \A w \in Walks(reg) : NodesLeft(reg, w) <= N
      BY <1>1, EnteringLeavesFewer
    <3> HIDE DEF N
    <3> QED
      BY <2>1, <3>1 DEF VisitsUpTo
  <2>3. f = [w \in Walks(reg) |-> [n \in DOMAIN reg.nodes |-> f[w][n]]]
    BY <2>1 DEF IsVisit
  <2>4. Solves(f)
    BY <2>2, <2>3
  <2> QED
    BY <2>4
<1>3. visit = CHOOSE f : Solves(f)
  BY DEF Visit
<1>4. Solves(visit)
  <2> HIDE DEF Solves, visit
  <2> QED
    BY <1>2, <1>3
<1> HIDE DEF visit
<1>5. \A w \in Walks(reg), n \in DOMAIN reg.nodes : visit[w][n] = VisitNode(reg, visit, w, n)
  BY <1>4
<1> HIDE DEF Solves
<1>6. 0 \in S
  <2>1. ASSUME NEW w \in Walks(reg), NEW n \in DOMAIN reg.nodes, w.cycle \/ NodesLeft(reg, w) <= 0
        PROVE  Visited(reg, w, n, visit[w][n])
    <3>1. NodesLeft(reg, w) \in Nat
      BY EnteringLeavesFewer
    <3>2. w.cycle \/ n \in w.visiting
      BY <2>1, <3>1, EnteringLeavesFewer
    <3>3. AtOnce(w, n)
      BY <3>2 DEF AtOnce
    <3> QED
      BY <1>5, <3>3, VisitedAtOnce
  <2> QED
    BY <1>5, <2>1 DEF VisitsUpTo
<1>7. ASSUME NEW k \in 0 .. N - 1, k \in S PROVE k + 1 \in S
  <2>1. k \in Nat /\ k + 1 \in Nat /\ VisitsUpTo(reg, visit, k)
    BY <1>1, <1>7
  <2>2. ASSUME NEW w \in Walks(reg), NEW n \in DOMAIN reg.nodes, w.cycle \/ NodesLeft(reg, w) <= k + 1
        PROVE  Visited(reg, w, n, visit[w][n])
    <3>1. CASE AtOnce(w, n)
      BY <1>5, <3>1, VisitedAtOnce
    <3>2. CASE ~AtOnce(w, n)
      <4>1. NodesLeft(reg, w) <= k + 1
        BY <2>2, <3>2 DEF AtOnce
      <4>2. VisitsWell(reg, visit, w.visiting \cup {n})
        BY <2>1, <3>2, <4>1, CallsHaveFewerLeft
      <4> QED
        BY <1>5, <3>2, <4>2, BodyVisits
    <3> QED
      BY <3>1, <3>2
  <2> QED
    BY <1>5, <2>1, <2>2 DEF VisitsUpTo
<1>8. \A k \in 0 .. N : k \in S
  <2>1. 0 \in Nat /\ \A k \in 0 .. N - 1 : k \in S => k + 1 \in S
    BY <1>7
  <2> HIDE DEF S, N
  <2> QED
    BY <1>1, <1>6, <2>1, IntervalInduction
<1>9. VisitsUpTo(reg, visit, N)
  <2>1. N \in 0 .. N
    BY <1>1
  <2>2. N \in S
    <3> HIDE DEF S, N
    <3> QED
      BY <1>8, <2>1
  <2> QED
    BY <2>2
<1>10. \A w \in Walks(reg) : NodesLeft(reg, w) <= N
  BY <1>1, EnteringLeavesFewer
<1> HIDE DEF N
<1>11. \A w \in Walks(reg), n \in DOMAIN reg.nodes : Visited(reg, w, n, visit[w][n])
  BY <1>9, <1>10 DEF VisitsUpTo
<1>12. VisitIsVisited(reg, visit)
  BY <1>5, <1>11 DEF VisitIsVisited
<1> QED
  BY <1>12 DEF visit

\* Every node has a place in the sequence of the nodes.
LEMMA SequenceOfSet ==
    ASSUME NEW set, IsFiniteSet(set)
    PROVE  /\ Len(SetToSeq(set)) \in Nat
           /\ \A i \in 1 .. Len(SetToSeq(set)) : SetToSeq(set)[i] \in set
           /\ \A x \in set : \E i \in 1 .. Len(SetToSeq(set)) : SetToSeq(set)[i] = x
<1> DEFINE N == Cardinality(set)
           Lists(f) == f \in [1 .. N -> set] /\ IsInjective(f)
           list == SetToSeq(set)
<1>1. N \in Nat
  BY FS_CardinalityType
<1>2. \E f : Lists(f)
  <2>1. PICK f : f \in Bijection(1 .. N, set)
    <3>1. PICK n \in Nat : ExistsBijection(1 .. n, set)
      BY FS_NatBijection
    <3>2. N = n
      BY <3>1, FS_CountingElements
    <3> QED
      BY <3>1, <3>2 DEF ExistsBijection
  <2>2. f \in [1 .. N -> set] /\ IsInjective(f)
    BY <2>1 DEF Bijection, Injection
  <2> QED
    BY <2>2
<1>3. list = CHOOSE f \in [1 .. N -> set] : IsInjective(f)
  BY DEF SetToSeq
<1>4. list \in [1 .. N -> set] /\ IsInjective(list)
  <2> HIDE DEF list, N
  <2> QED
    BY <1>2, <1>3
<1> HIDE DEF list
<1>5. list \in Surjection(1 .. N, set)
  <2>1. list \in Injection(1 .. N, set)
    BY <1>4 DEF Injection
  <2>2. IsFiniteSet(1 .. N) /\ Cardinality(1 .. N) = N
    BY <1>1, FS_Interval
  <2> QED
    BY <2>1, <2>2, FS_Injection
<1>6. \A x \in set : \E i \in 1 .. N : list[i] = x
  BY <1>5 DEF Surjection
<1>7. Len(list) = N
  <2> HIDE DEF N
  <2>1. list \in Seq(set) /\ DOMAIN list = 1 .. N
    BY <1>1, <1>4, SeqDef
  <2> QED
    BY <1>1, <2>1
<1> QED
  BY <1>1, <1>4, <1>6, <1>7 DEF list

-----------------------------------------------------------------------------
(* The walk raises for a cycle only. *)

\* Below a node are the node itself and what is below its children.
LEMMA BelowIsNodeOrBelowChild ==
    ASSUME NEW reg, ChildrenExist(reg), NEW n \in DOMAIN reg.nodes, NEW m \in Below(reg, n), m # n
    PROVE  \E c \in Children(reg, n) : m \in Below(reg, c.node)
<1> DEFINE set == {n} \cup {k \in DOMAIN reg.nodes : \E c \in Children(reg, n) : k \in Below(reg, c.node)}
<1>1. ASSUME NEW c \in Children(reg, n)
      PROVE  /\ c.node \in DOMAIN reg.nodes /\ c.node \in Below(reg, c.node)
             /\ Closed(reg, Below(reg, c.node)) /\ Below(reg, c.node) \subseteq DOMAIN reg.nodes
  <2>1. c.node \in DOMAIN reg.nodes
    BY DEF ChildrenExist
  <2> QED
    BY <2>1, BelowIsClosed
<1>2. Closed(reg, set)
  <2> SUFFICES ASSUME NEW k \in set, NEW d \in Children(reg, k) PROVE d.node \in set
    BY DEF Closed
  <2>1. CASE k = n
    BY <1>1, <2>1
  <2>2. CASE k # n
    <3>1. PICK c \in Children(reg, n) : k \in Below(reg, c.node)
      BY <2>2
    <3>2. d.node \in Below(reg, c.node)
      BY <1>1, <3>1 DEF Closed
    <3> QED
      BY <1>1, <3>2
  <2> QED
    BY <2>1, <2>2
<1>3. n \in set /\ set \in SUBSET DOMAIN reg.nodes
  OBVIOUS
<1> HIDE DEF set
<1>4. Below(reg, n) \subseteq set
  BY <1>2, <1>3, BelowIsClosed
<1> QED
  BY <1>4 DEF set

\* A node is a descendant of another: at or below one of its children.
Descends(reg, m, n) == \E c \in Children(reg, n) : m \in Below(reg, c.node)

\* No node of an acyclic registry is its own descendant.
LEMMA NoneDescendsFromItself ==
    ASSUME NEW reg, ChildrenExist(reg), Acyclic(reg), NEW n \in DOMAIN reg.nodes
    PROVE  ~Descends(reg, n, n)
<1> SUFFICES ASSUME Descends(reg, n, n) PROVE FALSE
  OBVIOUS
<1> DEFINE set == {m \in DOMAIN reg.nodes : n \in Below(reg, m)}
<1>1. n \in set
  BY BelowIsClosed
<1>2. PICK m \in set : \A c \in Children(reg, m) : c.node \notin set
  <2>1. set \in SUBSET DOMAIN reg.nodes /\ set # {}
    BY <1>1
  <2> HIDE DEF set
  <2> QED
    BY <2>1 DEF Acyclic
<1>3. m \in DOMAIN reg.nodes /\ n \in Below(reg, m)
  OBVIOUS
<1>4. \E c \in Children(reg, m) : n \in Below(reg, c.node)
  <2>1. CASE m = n
    BY <2>1 DEF Descends
  <2>2. CASE m # n
    BY <1>3, <2>2, BelowIsNodeOrBelowChild
  <2> QED
    BY <2>1, <2>2
<1>5. \A c \in Children(reg, m) : c.node \in DOMAIN reg.nodes
  BY <1>3 DEF ChildrenExist
<1> QED
  BY <1>2, <1>4, <1>5

\* The children of a descendant are descendants, and so are those of the node.
LEMMA ChildrenDescend ==
    ASSUME NEW reg, ChildrenExist(reg), NEW n \in DOMAIN reg.nodes, NEW c \in Children(reg, n)
    PROVE  /\ Descends(reg, c.node, n)
           /\ \A v \in DOMAIN reg.nodes : Descends(reg, n, v) => Descends(reg, c.node, v)
<1>1. Descends(reg, c.node, n)
  <2>1. c.node \in DOMAIN reg.nodes
    BY DEF ChildrenExist
  <2> QED
    BY <2>1, BelowIsClosed DEF Descends
<1>2. ASSUME NEW v \in DOMAIN reg.nodes, Descends(reg, n, v) PROVE Descends(reg, c.node, v)
  <2>1. PICK d \in Children(reg, v) : n \in Below(reg, d.node)
    BY <1>2 DEF Descends
  <2>2. d.node \in DOMAIN reg.nodes
    BY <2>1 DEF ChildrenExist
  <2>3. Closed(reg, Below(reg, d.node))
    BY <2>2, BelowIsClosed
  <2>4. c.node \in Below(reg, d.node)
    BY <2>1, <2>3 DEF Closed
  <2> QED
    BY <2>1, <2>4 DEF Descends
<1> QED
  BY <1>1, <1>2

\* Nothing has raised, and what is being visited leads to the node.
LedTo(reg, walk, n) == ~walk.cycle /\ \A v \in walk.visiting : Descends(reg, n, v)

ClearUpTo(reg, visit, k) ==
    \A w \in Walks(reg), n \in DOMAIN reg.nodes :
        LedTo(reg, w, n) /\ NodesLeft(reg, w) <= k => ~visit[w][n].cycle

\* While these nodes are being visited, a visit of one of those does not raise.
ClearFor(reg, visit, visiting, ids) ==
    \A w \in Walks(reg), i \in 1 .. Len(ids) :
        ~w.cycle /\ w.visiting = visiting => ~visit[w][ids[i]].cycle

\* A loop of visits that do not raise does not raise.
LEMMA ClearLoop ==
    ASSUME NEW reg, NEW visit, VisitIsVisited(reg, visit), NEW visiting,
           NEW walk \in Walks(reg), ~walk.cycle, walk.visiting = visiting,
           NEW ids, Len(ids) \in Nat, \A i \in 1 .. Len(ids) : ids[i] \in DOMAIN reg.nodes,
           ClearFor(reg, visit, visiting, ids)
    PROVE  VisitEach(visit, walk, ids)[Len(ids)] \in Walks(reg)
           /\ ~VisitEach(visit, walk, ids)[Len(ids)].cycle
<1> DEFINE after == VisitEach(visit, walk, ids)
           S == {i \in Nat : after[i] \in Walks(reg) /\ ~after[i].cycle /\ after[i].visiting = visiting}
<1>1. InTurn(visit, walk, ids, after)
  BY VisitsInTurn
<1> HIDE DEF after
<1>2. 0 \in S
  BY <1>1 DEF InTurn
<1>3. ASSUME NEW i \in 0 .. Len(ids) - 1, i \in S PROVE i + 1 \in S
  <2> DEFINE w == after[i]
             m == ids[i + 1]
  <2>1. i + 1 \in Nat /\ i + 1 \in 1 .. Len(ids) /\ after[i + 1] = visit[w][m]
    BY <1>1 DEF InTurn
  <2>2. w \in Walks(reg) /\ ~w.cycle /\ w.visiting = visiting /\ m \in DOMAIN reg.nodes
    BY <1>3, <2>1
  <2>3. ~visit[w][m].cycle
    BY <2>1, <2>2 DEF ClearFor
  <2> HIDE DEF w, m
  <2>4. Visited(reg, w, m, visit[w][m])
    BY <2>2 DEF VisitIsVisited
  <2>5. visit[w][m] \in Walks(reg) /\ visit[w][m].visiting = visiting
    BY <2>2, <2>3, <2>4 DEF Visited
  <2> QED
    BY <2>1, <2>3, <2>5
<1>4. \A i \in 0 .. Len(ids) : i \in S
  <2>1. 0 \in Nat /\ \A i \in 0 .. Len(ids) - 1 : i \in S => i + 1 \in S
    BY <1>3
  <2> HIDE DEF S
  <2> QED
    BY <1>2, <2>1, IntervalInduction
<1>5. Len(ids) \in S
  <2>1. Len(ids) \in 0 .. Len(ids)
    OBVIOUS
  <2> HIDE DEF S
  <2> QED
    BY <1>4, <2>1
<1> QED
  BY <1>5 DEF after

\* A visit raises only if one it calls does.
LEMMA ClearVisit ==
    ASSUME NEW reg, SoundNodes(reg), Acyclic(reg), IsFiniteSet(DOMAIN reg.nodes),
           NEW visit, VisitIsVisited(reg, visit), NEW k \in Nat, ClearUpTo(reg, visit, k),
           NEW walk \in Walks(reg), NEW n \in DOMAIN reg.nodes, LedTo(reg, walk, n),
           NodesLeft(reg, walk) <= k + 1
    PROVE  ~visit[walk][n].cycle
<1>0. visit[walk][n] = VisitNode(reg, visit, walk, n) /\ ChildrenExist(reg)
  BY DEF VisitIsVisited, SoundNodes
<1>1. n \notin walk.visiting /\ ~walk.cycle
  BY <1>0, NoneDescendsFromItself DEF LedTo
<1>2. CASE n \in walk.visited
  BY <1>0, <1>1, <1>2 DEF VisitNode
<1>3. CASE n \notin walk.visited
  <2> DEFINE ids == ChildIds(reg, n)
             inside == walk.visiting \cup {n}
             entered == [walk EXCEPT !.visiting = @ \cup {n}]
             end == VisitEach(visit, entered, ids)[Len(ids)]
  <2>1. VisitNode(reg, visit, walk, n) = Leave(end, n)
    BY <1>1, <1>3 DEF VisitNode
  <2>2. entered \in Walks(reg) /\ ~entered.cycle /\ entered.visiting = inside
    BY <1>1 DEF Walks
  <2>3. /\ Len(ids) \in Nat /\ \A i \in 1 .. Len(ids) : ids[i] \in DOMAIN reg.nodes
        /\ \A i \in 1 .. Len(ids) : \E c \in Children(reg, n) : ids[i] = c.node
    BY ChildIdsAreNodes
  <2>4. \A w \in Walks(reg) : w.visiting = inside => NodesLeft(reg, w) <= k
    <3>1. NodesLeft(reg, walk) \in Nat
      BY EnteringLeavesFewer
    <3>2. \A w \in Walks(reg) : w.visiting = inside => NodesLeft(reg, w) = NodesLeft(reg, walk) - 1
      BY <1>1, EnteringLeavesFewer
    <3> QED
      BY <3>1, <3>2
  <2>5. \A c \in Children(reg, n), v \in inside : Descends(reg, c.node, v)
    <3>1. walk.visiting \subseteq DOMAIN reg.nodes
      BY DEF Walks
    <3> QED
      BY <1>0, <3>1, ChildrenDescend DEF LedTo
  <2> HIDE DEF ids, entered, inside
  <2>6. ClearFor(reg, visit, inside, ids)
    BY <2>3, <2>4, <2>5 DEF ClearFor, ClearUpTo, LedTo
  <2>7. end \in Walks(reg) /\ ~end.cycle
    BY <2>2, <2>3, <2>6, ClearLoop
  <2> HIDE DEF end
  <2>8. ~Leave(end, n).cycle
    BY <2>7 DEF Leave, Walks
  <2> QED
    BY <1>0, <2>1, <2>8
<1> QED
  BY <1>2, <1>3

\* No visit of an acyclic registry raises by itself.
LEMMA AcyclicVisitsClear ==
    ASSUME NEW reg, SoundNodes(reg), Acyclic(reg), IsFiniteSet(DOMAIN reg.nodes),
           NEW visit, VisitIsVisited(reg, visit)
    PROVE  ClearUpTo(reg, visit, Cardinality(DOMAIN reg.nodes))
<1> DEFINE N == Cardinality(DOMAIN reg.nodes)
           S == {k \in Nat : ClearUpTo(reg, visit, k)}
<1>1. N \in Nat
  BY FS_CardinalityType
<1>2. 0 \in S
  <2>1. ASSUME NEW w \in Walks(reg), NEW n \in DOMAIN reg.nodes, LedTo(reg, w, n), NodesLeft(reg, w) <= 0
        PROVE  FALSE
    <3>1. n \notin w.visiting
      BY <2>1, NoneDescendsFromItself DEF LedTo, SoundNodes
    <3>2. NodesLeft(reg, w) \in Nat /\ NodesLeft(reg, w) # 0
      BY <3>1, EnteringLeavesFewer
    <3> QED
      BY <2>1, <3>2
  <2> QED
    BY <2>1 DEF ClearUpTo
<1>3. ASSUME NEW k \in 0 .. N - 1, k \in S PROVE k + 1 \in S
  <2>1. k \in Nat /\ k + 1 \in Nat /\ ClearUpTo(reg, visit, k)
    BY <1>1, <1>3
  <2>2. ClearUpTo(reg, visit, k + 1)
    <3> SUFFICES ASSUME NEW w \in Walks(reg), NEW n \in DOMAIN reg.nodes, LedTo(reg, w, n),
                        NodesLeft(reg, w) <= k + 1
                 PROVE  ~visit[w][n].cycle
      BY DEF ClearUpTo
    <3> QED
      BY <2>1, ClearVisit
  <2> QED
    BY <2>1, <2>2
<1>4. \A k \in 0 .. N : k \in S
  <2>1. 0 \in Nat /\ \A k \in 0 .. N - 1 : k \in S => k + 1 \in S
    BY <1>3
  <2> HIDE DEF S, N
  <2> QED
    BY <1>1, <1>2, <2>1, IntervalInduction
<1>5. N \in S
  <2>1. N \in 0 .. N
    BY <1>1
  <2> HIDE DEF S, N
  <2> QED
    BY <1>4, <2>1
<1> QED
  BY <1>5

\* _validate_graph accepts exactly the graphs that have all their nodes and no cycle: a
\* node is done only when all its children are, and it visits every node; a node met while
\* it is being visited is its own descendant.
THEOREM GraphValidationIsExact ==
    \A reg \in Registries : AllWellFormed(reg, DOMAIN reg.nodes) =>
        (ValidateGraph(reg) <=> ChildrenExist(reg) /\ Acyclic(reg))
<1> SUFFICES ASSUME NEW reg \in Registries, AllWellFormed(reg, DOMAIN reg.nodes), ChildrenExist(reg)
             PROVE  ValidateGraph(reg) <=> Acyclic(reg)
  BY DEF ValidateGraph
<1> DEFINE nodes == DOMAIN reg.nodes
           ids == SetToSeq(nodes)
           start == [visiting |-> {}, visited |-> {}, cycle |-> FALSE]
           end == VisitEach(Visit(reg), start, ids)[Len(ids)]
<1>1. IsFiniteSet(nodes)
  BY AdmissionAssumption
<1>2. SoundNodes(reg)
  BY DEF SoundNodes
<1>3. ValidateGraph(reg) <=> ~end.cycle
  BY DEF ValidateGraph
<1>4. VisitIsVisited(reg, Visit(reg))
  BY <1>1, <1>2, VisitVisits
<1>5. start \in Walks(reg) /\ ~start.cycle /\ start.visiting = {} /\ start.visited = {}
  BY DEF Walks
<1>6. /\ Len(ids) \in Nat /\ \A i \in 1 .. Len(ids) : ids[i] \in nodes
      /\ \A n \in nodes : \E i \in 1 .. Len(ids) : ids[i] = n
  BY <1>1, SequenceOfSet
<1>7. ASSUME ~end.cycle PROVE Acyclic(reg)
  <2>1. VisitsWell(reg, Visit(reg), {})
    <3>1. \A w \in Inside(reg, {}) : w \in Walks(reg)
      BY DEF Inside
    <3> QED
      BY <1>4, <3>1 DEF VisitsWell, VisitIsVisited
  <2>2. WellFounded(reg, start.visited)
    BY <1>5 DEF WellFounded, Closed
  <2>3. /\ end \in Inside(reg, {})
        /\ \A j \in 1 .. Len(ids) : ids[j] \in end.visited
        /\ WellFounded(reg, end.visited)
    <3>1. Len(ids) \in 0 .. Len(ids)
      BY <1>6
    <3> HIDE DEF start, ids
    <3> QED
      BY <1>5, <1>6, <1>7, <2>1, <2>2, <3>1, LoopVisits
  <2> HIDE DEF end, ids
  <2>4. end.visited = nodes
    <3>1. end.visited \subseteq nodes
      BY <2>3 DEF Inside, Walks
    <3>2. ASSUME NEW n \in nodes PROVE n \in end.visited
      BY <1>6, <2>3
    <3> QED
      BY <3>1, <3>2
  <2> QED
    BY <2>3, <2>4 DEF WellFounded, Acyclic
<1>8. ASSUME Acyclic(reg) PROVE ~end.cycle
  <2>1. ClearUpTo(reg, Visit(reg), Cardinality(nodes))
    BY <1>1, <1>2, <1>4, <1>8, AcyclicVisitsClear
  <2>2. \A w \in Walks(reg) : NodesLeft(reg, w) <= Cardinality(nodes)
    BY <1>1, EnteringLeavesFewer
  <2> HIDE DEF start, ids
  <2>3. ClearFor(reg, Visit(reg), {}, ids)
    BY <1>6, <2>1, <2>2 DEF ClearFor, ClearUpTo, LedTo
  <2> QED
    BY <1>4, <1>5, <1>6, <2>3, ClearLoop
<1> QED
  BY <1>3, <1>7, <1>8

-----------------------------------------------------------------------------
(* Stale programs, of every server there has been. *)

\* Every kept program was made by the compiler for a registry that a server had loaded.
ProvenanceInv ==
    /\ files \in Registries /\ (server = "up" => Loads(files))
    /\ \A c \in compiled :
          /\ c.registry \in Registries /\ Loads(c.registry)
          /\ \E template \in Templates :
                Compiles(c.registry, template) /\ c.program = Compiled(c.registry, template)

\* Every step keeps it.
LEMMA ProvenanceInvNext == ProvenanceInv /\ [AdmissionNext]_allVars => ProvenanceInv'
<1> SUFFICES ASSUME ProvenanceInv, [AdmissionNext]_allVars PROVE ProvenanceInv'
  OBVIOUS
<1>1. CASE StartServer
  BY <1>1 DEF StartServer, ProvenanceInv
<1>2. CASE Restart
  <2>1. files' \in Registries
    BY <1>2, AdmissionAssumption DEF Restart, ProvenanceInv
  <2> QED
    BY <1>2, <2>1 DEF Restart, ProvenanceInv
<1>3. ASSUME NEW template \in Templates, CompileTemplate(template) PROVE ProvenanceInv'
  <2> DEFINE new == [program |-> Compiled(files, template), registry |-> files]
  <2>1. /\ files' = files /\ server' = server /\ compiled' = compiled \cup {new}
        /\ server = "up" /\ Compiles(files, template)
    BY <1>3 DEF CompileTemplate
  <2>2. /\ new.registry \in Registries /\ Loads(new.registry)
        /\ Compiles(new.registry, template) /\ new.program = Compiled(new.registry, template)
    BY <2>1 DEF ProvenanceInv
  <2> HIDE DEF new
  <2> QED
    BY <2>1, <2>2 DEF ProvenanceInv
<1>4. ASSUME NEW program \in Kept, EditArtifact(program) PROVE ProvenanceInv'
  BY <1>4 DEF EditArtifact, ProvenanceInv
<1>5. ASSUME NEW r \in Runs, EndRun(r) PROVE ProvenanceInv'
  BY <1>5 DEF EndRun, ProvenanceInv
<1>6. ASSUME NEW r \in Runs, NEW identity, NEW program, Execute(r, identity, program)
      PROVE  ProvenanceInv'
  BY <1>6 DEF Execute, ProvenanceInv
<1>7. CASE UNCHANGED allVars
  BY <1>7 DEF allVars, admissionVars, ProvenanceInv
<1> QED
  BY <1>1, <1>2, <1>3, <1>4, <1>5, <1>6, <1>7 DEF AdmissionNext

\* Kept programs come from the compiler, and the registries they were compiled for had
\* been loaded.
THEOREM KeptProgramsWereCompiled == AdmissionSpec => []ProvenanceInv
<1>1. AdmissionInit => ProvenanceInv
  BY AdmissionAssumption DEF AdmissionInit, ProvenanceInv
<1> QED
  BY <1>1, ProvenanceInvNext, PTL DEF AdmissionSpec

\* A program is refused after a restart if and only if something at or below its root has
\* changed, for every edit of the registry: its digest is over everything its role paths
\* can pass, and nothing else, and the compiler makes the same of the same nodes.
THEOREM ProgramsGoStaleExactly == AdmissionSpec => []StaleIffChanged
<1>1. ASSUME NEW reg \in Registries, Loads(reg) PROVE Proper(reg)
  <2>1. AllWellFormed(reg, DOMAIN reg.nodes) /\ ValidateGraph(reg)
    BY <1>1 DEF Loads, AllWellFormed
  <2> QED
    BY <2>1, GraphValidationIsExact, AdmissionAssumption DEF Proper
<1>2. ProvenanceInv => StaleIffChanged
  <2> SUFFICES ASSUME ProvenanceInv, server = "up", NEW c \in compiled
               PROVE  ValidForRegistry(files, c.program)
                         <=> /\ files.server = c.registry.server
                             /\ SameUnder(files, c.registry, c.program.root)
    BY DEF StaleIffChanged
  <2> DEFINE old == c.registry
             root == c.program.root
  <2>1. Proper(files) /\ Proper(old)
    BY <1>1 DEF ProvenanceInv
  <2>2. PICK template \in Templates : Compiles(old, template) /\ c.program = Compiled(old, template)
    BY DEF ProvenanceInv
  <2>3. root \in DOMAIN old.nodes
    BY <2>2 DEF Compiles, Compiled
  <2>4. ChildrenExist(old)
    BY <2>1 DEF Proper
  <2> HIDE DEF old, root
  <2>5. ValidForRegistry(files, c.program) <=> files.server = old.server /\ SameBelow(files, old, root)
    BY <2>2, <2>4, ValidIffSameBelow DEF root
  <2>6. Under(old, root) = Below(old, root)
    BY <2>1, <2>3, UnderIsBelow
  <2>7. root \in DOMAIN files.nodes => Under(files, root) = Below(files, root)
    BY <2>1, UnderIsBelow
  <2>8. SameUnder(files, old, root) <=> SameBelow(files, old, root)
    BY <2>6, <2>7 DEF SameUnder, SameBelow
  <2> QED
    BY <2>5, <2>8 DEF old, root
<1> QED
  BY <1>2, KeptProgramsWereCompiled, PTL

-----------------------------------------------------------------------------
(* The leaf paths of a node are the role paths that lead from it to a group. *)

\* Roles and what follows the first of them.
Continues(roles, rest) ==
    /\ Len(roles) \in Nat /\ Len(rest) \in Nat /\ 1 + Len(rest) = Len(roles)
    /\ \A j \in 1 .. Len(rest) : roles[1 + j] = rest[j]

\* A walk goes on from a node that it has all to itself as one that starts there.
LEMMA WalkGoesOn ==
    ASSUME NEW reg, NEW n, NEW roles, NEW rest, Continues(roles, rest),
           NEW m, Walk(reg, n, roles)[1] = {m}
    PROVE  \A j \in 0 .. Len(rest) : Walk(reg, m, rest)[j] = Walk(reg, n, roles)[1 + j]
<1> DEFINE at == Walk(reg, n, roles)
           to == Walk(reg, m, rest)
           S == {j \in Nat : to[j] = at[1 + j]}
<1>0. /\ Len(roles) \in Nat /\ Len(rest) \in Nat /\ 1 + Len(rest) = Len(roles)
      /\ \A j \in 1 .. Len(rest) : roles[1 + j] = rest[j]
  BY DEF Continues
<1>1. to[0] = {m} /\ at[1] = {m} /\ 0 \in Nat /\ 1 + 0 = 1
  BY <1>0, WalkSteps
<1>2. \A i \in 0 .. Len(roles) - 1 : at[i + 1] = Follow(reg, at[i], roles[i + 1])
  BY <1>0, WalkSteps
<1>3. \A i \in 0 .. Len(rest) - 1 : to[i + 1] = Follow(reg, to[i], rest[i + 1])
  BY <1>0, WalkSteps
<1> HIDE DEF at, to
<1>4. 0 \in S
  BY <1>1
<1>5. ASSUME NEW j \in 0 .. Len(rest) - 1, j \in S PROVE j + 1 \in S
  <2>1. /\ 1 + j \in 0 .. Len(roles) - 1 /\ (1 + j) + 1 = 1 + (j + 1)
        /\ j + 1 \in 1 .. Len(rest) /\ j + 1 \in Nat
    BY <1>0
  <2>2. to[j] = at[1 + j]
    BY <1>5
  <2>3. at[1 + (j + 1)] = Follow(reg, at[1 + j], roles[1 + (j + 1)])
    BY <1>2, <2>1
  <2>4. to[j + 1] = Follow(reg, to[j], rest[j + 1]) /\ roles[1 + (j + 1)] = rest[j + 1]
    BY <1>0, <1>3, <2>1
  <2> QED
    BY <2>1, <2>2, <2>3, <2>4
<1>6. \A j \in 0 .. Len(rest) : j \in S
  <2>1. 0 \in Nat /\ \A j \in 0 .. Len(rest) - 1 : j \in S => j + 1 \in S
    BY <1>5
  <2> HIDE DEF S
  <2> QED
    BY <1>0, <1>4, <2>1, IntervalInduction
<1> QED
  BY <1>6 DEF at, to

\* A path that starts with the role of a child goes on as a path from the child.
LongerBy(reg, n, c, rest, path) ==
    /\ IsList(path) /\ Len(path) = 1 + Len(rest) /\ path[1] = c.role
    /\ \A j \in 1 .. Len(rest) : path[1 + j] = rest[j]
    /\ ResolveGroup(reg, n, path) = ResolveGroup(reg, c.node, rest)
    /\ \A j \in 0 .. Len(rest) - 1 :
          Walk(reg, n, Front(path))[1 + j] = Walk(reg, c.node, Front(rest))[j]

\* The role of a child before a path from it makes such a longer path.
LEMMA PathFromChild ==
    ASSUME NEW reg, NEW n, WellFormed(reg.nodes[n]), NEW c \in Children(reg, n),
           NEW rest, IsList(rest), rest # << >>
    PROVE  LongerBy(reg, n, c, rest, <<c.role>> \o rest)
<1> DEFINE path == <<c.role>> \o rest
           T == {c.role} \cup ToSet(rest)
           k == Len(rest)
           roles == Front(path)
           others == Front(rest)
<1>1. rest \in Seq(T) /\ <<c.role>> \in Seq(T) /\ Len(<<c.role>>) = 1 /\ <<c.role>>[1] = c.role
  <2>1. rest \in Seq(ToSet(rest))
    BY DEF IsList
  <2> QED
    BY <2>1, SeqMonotonic
<1>2. /\ path \in Seq(T) /\ Len(path) = 1 + k
      /\ \A i \in 1 .. 1 + k : path[i] = IF i <= 1 THEN <<c.role>>[i] ELSE rest[i - 1]
  <2> DEFINE first == <<c.role>>
  <2>1. first \in Seq(T) /\ Len(first) = 1
    BY <1>1
  <2> HIDE DEF first, T
  <2>2. /\ first \o rest \in Seq(T) /\ Len(first \o rest) = Len(first) + Len(rest)
        /\ \A i \in 1 .. Len(first) + Len(rest) :
              (first \o rest)[i] = IF i <= Len(first) THEN first[i] ELSE rest[i - Len(first)]
    BY <1>1, <2>1, ConcatProperties
  <2> QED
    BY <2>1, <2>2 DEF first
<1>3. k \in Nat \ {0} /\ Len(others) = k - 1 /\ \A i \in 1 .. k - 1 : others[i] = rest[i]
  <2> HIDE DEF T
  <2> QED
    BY <1>1, FrontOfPath
<1> HIDE DEF path, T, k
<1>4. path[1] = c.role /\ \A j \in 1 .. k : path[1 + j] = rest[j]
  <2>1. 1 \in 1 .. 1 + k /\ 1 <= 1
    BY <1>3
  <2>2. \A j \in 1 .. k : 1 + j \in 1 .. 1 + k /\ ~(1 + j <= 1) /\ (1 + j) - 1 = j
    BY <1>3
  <2> QED
    BY <1>1, <1>2, <2>1, <2>2
<1>5. IsList(path)
  BY <1>2, SequenceIsList
<1>6. path # << >>
  <2>1. Len(<< >>) = 0 /\ 1 + k # 0
    BY <1>3
  <2> QED
    BY <1>2, <2>1
<1>7. Len(roles) = k /\ \A i \in 1 .. k : roles[i] = path[i]
  <2>1. /\ Len(Front(path)) = Len(path) - 1
        /\ \A i \in 1 .. Len(path) - 1 : Front(path)[i] = path[i]
    BY <1>2, <1>6, FrontOfPath
  <2> QED
    BY <1>2, <1>3, <2>1
<1>8. /\ Len(roles) \in Nat /\ Len(others) \in Nat /\ 1 + Len(others) = Len(roles)
      /\ \A j \in 1 .. Len(others) : roles[1 + j] = others[j]
  <2>1. Len(roles) \in Nat /\ Len(others) \in Nat /\ 1 + Len(others) = Len(roles)
    BY <1>3, <1>7
  <2>2. ASSUME NEW j \in 1 .. Len(others) PROVE roles[1 + j] = others[j]
    <3>1. j \in 1 .. k - 1 /\ j \in 1 .. k /\ 1 + j \in 1 .. k
      BY <1>3, <2>2
    <3> QED
      BY <1>3, <1>4, <1>7, <3>1
  <2> QED
    BY <2>1, <2>2
<1> HIDE DEF roles, others
<1>9. Walk(reg, n, roles)[1] = {c.node}
  <2>1. 0 \in 0 .. Len(roles) - 1 /\ 0 + 1 = 1 /\ 1 \in 1 .. k
    BY <1>3, <1>7
  <2>2. Walk(reg, n, roles)[0] = {n}
    BY <1>8, WalkSteps
  <2>3. Walk(reg, n, roles)[0 + 1] = Follow(reg, Walk(reg, n, roles)[0], roles[0 + 1])
    BY <1>8, <2>1, WalkSteps
  <2>4. Walk(reg, n, roles)[1] = Follow(reg, {n}, c.role)
    BY <1>4, <1>7, <2>1, <2>2, <2>3
  <2>5. \A d \in Children(reg, n) : d.role = c.role => d = c
    BY RoleNamesOneChild
  <2> QED
    BY <2>4, <2>5 DEF Follow
<1>10. \A j \in 0 .. Len(others) : Walk(reg, c.node, others)[j] = Walk(reg, n, roles)[1 + j]
  <2>1. Continues(roles, others)
    BY <1>8 DEF Continues
  <2> QED
    BY <1>9, <2>1, WalkGoesOn
<1>11. Last(path) = Last(rest)
  <2>1. k \in 1 .. k
    BY <1>3
  <2> QED
    BY <1>2, <1>4, <2>1 DEF Last, k
<1>12. Walk(reg, n, roles)[Len(path) - 1] = Walk(reg, c.node, others)[Len(rest) - 1]
  <2>1. Len(others) \in 0 .. Len(others) /\ 1 + Len(others) = Len(path) - 1 /\ Len(others) = Len(rest) - 1
    BY <1>2, <1>3, <1>8 DEF k
  <2> QED
    BY <1>10, <2>1
<1>13. ResolveGroup(reg, n, path) = ResolveGroup(reg, c.node, rest)
  BY <1>6, <1>11, <1>12 DEF ResolveGroup, roles, others
<1>14. \A j \in 0 .. Len(rest) - 1 : Walk(reg, n, Front(path))[1 + j] = Walk(reg, c.node, Front(rest))[j]
  BY <1>3, <1>10 DEF roles, others, k
<1> QED
  BY <1>2, <1>4, <1>5, <1>13, <1>14 DEF LongerBy, path, k

\* A walk that gets to its end is nowhere lost on the way.
LEMMA NoStepIsEmpty ==
    ASSUME NEW reg, NEW n, NEW roles, Len(roles) \in Nat, Walk(reg, n, roles)[Len(roles)] # {}
    PROVE  \A i \in 0 .. Len(roles) : Walk(reg, n, roles)[i] # {}
<1> SUFFICES ASSUME NEW k \in 0 .. Len(roles), Walk(reg, n, roles)[k] = {} PROVE FALSE
  OBVIOUS
<1> DEFINE at == Walk(reg, n, roles)
           S == {i \in Nat : at[i] = {}}
<1>1. \A i \in 0 .. Len(roles) - 1 : at[i + 1] = Follow(reg, at[i], roles[i + 1])
  BY WalkSteps
<1>2. at[Len(roles)] # {} /\ at[k] = {}
  OBVIOUS
<1> HIDE DEF at
<1>3. ASSUME NEW i \in k .. Len(roles) - 1, i \in S PROVE i + 1 \in S
  BY <1>1, <1>3 DEF Follow
<1>4. k \in Nat /\ k \in S /\ \A i \in k .. Len(roles) - 1 : i \in S => i + 1 \in S
  BY <1>2, <1>3
<1>5. \A i \in k .. Len(roles) : i \in S
  <2> HIDE DEF S
  <2> QED
    BY <1>4, IntervalInduction
<1>6. Len(roles) \in k .. Len(roles)
  OBVIOUS
<1> QED
  BY <1>2, <1>5, <1>6

\* The path is the role of a child and a path on from it.
StartsWithChild(reg, n, path) ==
    \E c \in Children(reg, n) : \E rest :
       IsList(rest) /\ rest # << >> /\ path = <<c.role>> \o rest

\* A role path that leads from a composite starts with the role of a child.
LEMMA PathStartsWithChild ==
    ASSUME NEW reg, NEW n, WellFormed(reg.nodes[n]), IsComposite(reg, n),
           NEW path, Leads(reg, n, path)
    PROVE  StartsWithChild(reg, n, path)
<1> DEFINE roles == Front(path)
           at == Walk(reg, n, roles)
           l == Len(path)
           T == ToSet(path)
<1>1. /\ path \in Seq(T) /\ path # << >> /\ l \in Nat \ {0} /\ Len(roles) = l - 1
      /\ \A i \in 1 .. l - 1 : roles[i] = path[i]
  BY Resolved DEF Leads, IsList
<1>2. PICK m \in at[l - 1] : ~IsComposite(reg, m)
  BY Resolved DEF Leads
<1>3. at[0] = {n} /\ \A i \in 0 .. Len(roles) - 1 : at[i + 1] = Follow(reg, at[i], roles[i + 1])
  <2>1. Len(roles) \in Nat
    BY <1>1
  <2> HIDE DEF roles, l
  <2> QED
    BY <2>1, WalkSteps
<1> HIDE DEF roles, at, l, T
<1>4. l - 1 # 0
  BY <1>2, <1>3
<1>5. at[1] # {}
  <2>1. Len(roles) \in Nat /\ at[Len(roles)] # {} /\ 1 \in 0 .. Len(roles)
    BY <1>1, <1>2, <1>4
  <2> QED
    BY <2>1, NoStepIsEmpty DEF at
<1>6. PICK c \in Children(reg, n) : c.role = path[1]
  <2>1. 0 \in 0 .. Len(roles) - 1 /\ 0 + 1 = 1 /\ 1 \in 1 .. l - 1
    BY <1>1, <1>4
  <2>2. at[1] = Follow(reg, {n}, path[1])
    BY <1>1, <1>3, <2>1
  <2> QED
    BY <1>5, <2>2 DEF Follow
<1> DEFINE rest == Tail(path)
<1>7. /\ rest \in Seq(T) /\ Len(rest) = l - 1 /\ \A i \in 1 .. l - 1 : rest[i] = path[i + 1]
  BY <1>1, HeadTailProperties DEF l
<1>8. IsList(rest)
  <2> HIDE DEF rest
  <2> QED
    BY <1>7, SequenceIsList
<1>9. rest # << >>
  <2> HIDE DEF rest
  <2>1. Len(<< >>) = 0
    OBVIOUS
  <2> QED
    BY <1>4, <1>7, <2>1
<1>10. path = <<c.role>> \o rest
  BY <1>1, <1>6
<1> QED
  BY <1>8, <1>9, <1>10 DEF StartsWithChild

\* A role path goes through an alias.
Aliased(reg, n, path) == \E e \in ToSet(Branch(reg, n, path)) : e.child.alias

\* The edges of a role path: where they start, and which child they go to.
LEMMA EdgesOfPath ==
    ASSUME NEW reg, Proper(reg), NEW n \in DOMAIN reg.nodes, NEW path, Leads(reg, n, path)
    PROVE  /\ Len(path) \in Nat \ {0} /\ DOMAIN Branch(reg, n, path) = 1 .. Len(path) - 1
           /\ \A i \in 1 .. Len(path) - 1 :
                 /\ Walk(reg, n, Front(path))[i - 1] = {Branch(reg, n, path)[i].from}
                 /\ Branch(reg, n, path)[i].child = Child(reg, Branch(reg, n, path)[i].from, path[i])
<1>1. Len(path) \in Nat \ {0}
  BY Resolved DEF Leads
<1>2. EdgesOnWalk(reg, n, path)
  <2> DEFINE nodes == DOMAIN reg.nodes
  <2>1. n \in nodes /\ Closed(reg, nodes) /\ AllWellFormed(reg, nodes)
    BY DEF Proper, Closed, ChildrenExist
  <2> HIDE DEF nodes
  <2> QED
    BY <2>1, BranchIsWalk DEF Leads
<1> DEFINE from == CHOOSE f : f = [i \in 1 .. Len(path) |->
                       IF i = 1 THEN n ELSE Child(reg, f[i - 1], path[i - 1]).node]
           l == Len(path) - 1
<1>3. Branch(reg, n, path) = [i \in 1 .. l |-> [from |-> from[i], child |-> Child(reg, from[i], path[i])]]
  BY DEF Branch
<1> HIDE DEF from
<1>4. \A i \in 1 .. l : Branch(reg, n, path)[i].child = Child(reg, Branch(reg, n, path)[i].from, path[i])
  BY <1>3
<1> QED
  BY <1>1, <1>2, <1>4 DEF EdgesOnWalk

\* One more role adds one more edge.
LEMMA AliasedFromChild ==
    ASSUME NEW reg, Proper(reg), NEW n \in DOMAIN reg.nodes, NEW c \in Children(reg, n),
           NEW rest, Leads(reg, c.node, rest), NEW path, Leads(reg, n, path),
           LongerBy(reg, n, c, rest, path)
    PROVE  Aliased(reg, n, path) <=> c.alias \/ Aliased(reg, c.node, rest)
<1> DEFINE edges == Branch(reg, n, path)
           others == Branch(reg, c.node, rest)
           k == Len(rest) - 1
<1>1. c.node \in DOMAIN reg.nodes /\ WellFormed(reg.nodes[n])
  BY DEF Proper, ChildrenExist, AllWellFormed
<1>2. /\ Len(path) = 1 + Len(rest) /\ path[1] = c.role
      /\ \A j \in 1 .. Len(rest) : path[1 + j] = rest[j]
      /\ \A j \in 0 .. Len(rest) - 1 :
            Walk(reg, n, Front(path))[1 + j] = Walk(reg, c.node, Front(rest))[j]
  BY DEF LongerBy
<1>3. /\ Len(rest) \in Nat \ {0} /\ DOMAIN others = 1 .. Len(rest) - 1
      /\ \A i \in 1 .. Len(rest) - 1 :
            /\ Walk(reg, c.node, Front(rest))[i - 1] = {others[i].from}
            /\ others[i].child = Child(reg, others[i].from, rest[i])
  BY <1>1, EdgesOfPath
<1>4. /\ DOMAIN edges = 1 .. Len(path) - 1
      /\ \A i \in 1 .. Len(path) - 1 :
            /\ Walk(reg, n, Front(path))[i - 1] = {edges[i].from}
            /\ edges[i].child = Child(reg, edges[i].from, path[i])
  BY EdgesOfPath
<1>5. Walk(reg, n, Front(path))[0] = {n}
  <2>1. Len(Front(path)) = Len(path) - 1 /\ Len(path) \in Nat \ {0}
    BY Resolved DEF Leads
  <2> DEFINE roles == Front(path)
  <2>2. Len(roles) \in Nat
    BY <2>1
  <2> HIDE DEF roles
  <2>3. Walk(reg, n, roles)[0] = {n}
    BY <2>2, WalkSteps
  <2> QED
    BY <2>3 DEF roles
<1> HIDE DEF edges, others, k
<1>6. 1 \in DOMAIN edges /\ edges[1].child = c
  <2>1. 1 \in 1 .. Len(path) - 1 /\ 1 - 1 = 0
    BY <1>2, <1>3
  <2>2. edges[1].from = n
    BY <1>4, <1>5, <2>1
  <2>3. edges[1].child = Child(reg, n, c.role)
    BY <1>2, <1>4, <2>1, <2>2
  <2>4. \A d \in Children(reg, n) : d.role = c.role => d = c
    BY <1>1, RoleNamesOneChild
  <2>5. Child(reg, n, c.role) = c
    BY <2>4 DEF Child
  <2> QED
    BY <1>4, <2>1, <2>3, <2>5
<1>7. ASSUME NEW j \in DOMAIN others PROVE 1 + j \in DOMAIN edges /\ edges[1 + j].child = others[j].child
  <2>1. /\ j \in 1 .. Len(rest) - 1 /\ j \in 1 .. Len(rest) /\ j - 1 \in 0 .. Len(rest) - 1
        /\ 1 + j \in 1 .. Len(path) - 1 /\ (1 + j) - 1 = 1 + (j - 1)
    BY <1>2, <1>3, <1>7
  <2>2. Walk(reg, n, Front(path))[1 + (j - 1)] = Walk(reg, c.node, Front(rest))[j - 1]
    BY <1>2, <2>1
  <2>3. Walk(reg, n, Front(path))[1 + (j - 1)] = {edges[1 + j].from}
    BY <1>4, <2>1
  <2>4. Walk(reg, c.node, Front(rest))[j - 1] = {others[j].from}
    BY <1>3, <2>1
  <2>5. edges[1 + j].from = others[j].from
    BY <2>2, <2>3, <2>4
  <2> QED
    BY <1>2, <1>3, <1>4, <2>1, <2>5
<1>8. ASSUME NEW i \in DOMAIN edges, i # 1 PROVE i - 1 \in DOMAIN others /\ 1 + (i - 1) = i
  BY <1>2, <1>3, <1>4, <1>8
<1>9. ToSet(edges) = {edges[i] : i \in DOMAIN edges} /\ ToSet(others) = {others[i] : i \in DOMAIN others}
  BY DEF ToSet
<1>10. Aliased(reg, n, path) <=> \E i \in DOMAIN edges : edges[i].child.alias
  BY <1>9 DEF Aliased, edges
<1>11. Aliased(reg, c.node, rest) <=> \E i \in DOMAIN others : others[i].child.alias
  BY <1>9 DEF Aliased, others
<1>12. ASSUME \E i \in DOMAIN edges : edges[i].child.alias
       PROVE  c.alias \/ \E i \in DOMAIN others : others[i].child.alias
  <2>1. PICK i \in DOMAIN edges : edges[i].child.alias
    BY <1>12
  <2>2. CASE i = 1
    BY <1>6, <2>1, <2>2
  <2>3. CASE i # 1
    <3>1. i - 1 \in DOMAIN others /\ 1 + (i - 1) = i
      BY <1>8, <2>3
    <3>2. edges[i].child = others[i - 1].child
      BY <1>7, <3>1
    <3> QED
      BY <2>1, <3>1, <3>2
  <2> QED
    BY <2>2, <2>3
<1>13. ASSUME c.alias \/ \E i \in DOMAIN others : others[i].child.alias
       PROVE  \E i \in DOMAIN edges : edges[i].child.alias
  BY <1>6, <1>7, <1>13
<1> QED
  BY <1>10, <1>11, <1>12, <1>13

\* From a physical node only its groups are reached, through no child.
LEMMA PathsOfPhysical ==
    ASSUME NEW reg, Proper(reg), NEW n \in DOMAIN reg.nodes, ~IsComposite(reg, n)
    PROVE  /\ \A path : Leads(reg, n, path) =>
                 \E g \in DOMAIN reg.nodes[n].groups : path = <<g>>
           /\ \A g \in DOMAIN reg.nodes[n].groups :
                 /\ Leads(reg, n, <<g>>) /\ ResolveGroup(reg, n, <<g>>) = <<n, g>>
                 /\ ~Aliased(reg, n, <<g>>)
<1>1. ASSUME NEW path, Leads(reg, n, path) PROVE \E g \in DOMAIN reg.nodes[n].groups : path = <<g>>
  <2> DEFINE roles == Front(path)
             at == Walk(reg, n, roles)
             l == Len(path)
  <2>1. path \in Seq(ToSet(path)) /\ l \in Nat \ {0} /\ Len(roles) = l - 1
    BY <1>1, Resolved DEF Leads, IsList
  <2>2. PICK m \in at[l - 1] : Last(path) \in DOMAIN reg.nodes[m].groups
    BY <1>1, Resolved DEF Leads
  <2>3. at[0] = {n} /\ \A i \in 0 .. Len(roles) - 1 : at[i + 1] = Follow(reg, at[i], roles[i + 1])
    <3>1. Len(roles) \in Nat
      BY <2>1
    <3> HIDE DEF roles, l
    <3> QED
      BY <3>1, WalkSteps
  <2>4. l = 1
    <3> SUFFICES ASSUME l # 1 PROVE FALSE
      OBVIOUS
    <3>1. Len(roles) \in Nat /\ 1 \in 0 .. Len(roles) /\ 0 \in 0 .. Len(roles) - 1 /\ 0 + 1 = 1
      BY <2>1
    <3>2. at[Len(roles)] # {}
      BY <2>1, <2>2
    <3>3. Children(reg, n) = {}
      BY DEF Children
    <3> HIDE DEF roles, l
    <3>4. at[1] # {}
      BY <3>1, <3>2, NoStepIsEmpty
    <3> HIDE DEF at
    <3>5. at[1] = Follow(reg, {n}, roles[1])
      BY <2>3, <3>1
    <3> QED
      BY <3>3, <3>4, <3>5 DEF Follow
  <2>5. m = n
    BY <2>2, <2>3, <2>4
  <2>6. path = <<Last(path)>>
    <3>1. Len(path) = 1 /\ Last(path) = path[1]
      BY <2>4 DEF Last
    <3> QED
      BY <2>1, <3>1
  <2> QED
    BY <2>2, <2>5, <2>6
<1>2. ASSUME NEW g \in DOMAIN reg.nodes[n].groups
      PROVE  /\ Leads(reg, n, <<g>>) /\ ResolveGroup(reg, n, <<g>>) = <<n, g>>
             /\ ~Aliased(reg, n, <<g>>)
  <2> DEFINE path == <<g>>
             roles == Front(path)
  <2>1. path \in Seq({g}) /\ Len(path) = 1 /\ path # << >> /\ Last(path) = g
    BY DEF Last
  <2>2. IsList(path)
    BY <2>1, SequenceIsList
  <2> HIDE DEF path
  <2>3. Len(roles) = 0
    <3>1. Len(Front(path)) = Len(path) - 1
      BY <2>1, FrontOfPath
    <3> QED
      BY <2>1, <3>1
  <2>4. Walk(reg, n, roles)[0] = {n}
    <3> HIDE DEF roles
    <3>1. Len(roles) \in Nat
      BY <2>3
    <3> QED
      BY <3>1, WalkSteps
  <2>5. Walk(reg, n, Front(path))[Len(path) - 1] = {n}
    BY <2>1, <2>4
  <2>6. ResolveGroup(reg, n, path) = <<n, g>>
    <3> DEFINE ends == {m \in Walk(reg, n, Front(path))[Len(path) - 1] :
                           ~IsComposite(reg, m) /\ Last(path) \in DOMAIN reg.nodes[m].groups}
    <3>1. ends = {n}
      BY <2>1, <2>5
    <3>2. ResolveGroup(reg, n, path) =
             IF path = << >> THEN Nowhere
             ELSE IF ends = {} THEN Nowhere ELSE <<CHOOSE m \in ends : TRUE, Last(path)>>
      BY DEF ResolveGroup
    <3> HIDE DEF ends
    <3>3. (CHOOSE m \in ends : TRUE) = n
      BY <3>1
    <3> QED
      BY <2>1, <3>1, <3>2, <3>3
  <2>7. Leads(reg, n, path)
    BY <2>2, <2>6 DEF Leads, Nowhere
  <2>8. DOMAIN Branch(reg, n, path) = {}
    BY <2>1, <2>7, EdgesOfPath
  <2>9. ~Aliased(reg, n, path)
    BY <2>8 DEF Aliased, ToSet
  <2> QED
    BY <2>6, <2>7, <2>9 DEF path
<1> QED
  BY <1>1, <1>2

\* What _leaf_paths has for a role path.
Route(reg, n, path) ==
    [leaf |-> ResolveGroup(reg, n, path), path |-> path, aliased |-> Aliased(reg, n, path)]

PathsFrom(reg, n) == {p \in RolePaths(reg) : ResolveGroup(reg, n, p) # Nowhere}

\* The paths that the reference enumerates are those that lead somewhere.
LEMMA PathsFromLead ==
    ASSUME NEW reg, Proper(reg), NEW n \in DOMAIN reg.nodes
    PROVE  \A path : path \in PathsFrom(reg, n) <=> Leads(reg, n, path)
BY RolePathsAreAll, RolePathsAreLists DEF PathsFrom, Leads

\* The equation of _leaf_paths, for one node.
LeafPathsOf(reg, paths, m) ==
    IF IsComposite(reg, m)
    THEN UNION {{[leaf |-> p.leaf, path |-> <<c.role>> \o p.path,
                  aliased |-> c.alias \/ p.aliased] : p \in paths[c.node]} :
                   c \in Children(reg, m)}
    ELSE {[leaf |-> <<m, g>>, path |-> <<g>>, aliased |-> FALSE] : g \in DOMAIN reg.nodes[m].groups}

\* One more role, one more edge, the same leaf.
LEMMA RouteFromChild ==
    ASSUME NEW reg, Proper(reg), NEW n \in DOMAIN reg.nodes, NEW c \in Children(reg, n),
           NEW rest, Leads(reg, c.node, rest)
    PROVE  /\ Leads(reg, n, <<c.role>> \o rest)
           /\ Route(reg, n, <<c.role>> \o rest) =
                 [leaf |-> ResolveGroup(reg, c.node, rest), path |-> <<c.role>> \o rest,
                  aliased |-> c.alias \/ Aliased(reg, c.node, rest)]
<1> DEFINE path == <<c.role>> \o rest
<1>1. IsList(rest) /\ rest # << >> /\ ResolveGroup(reg, c.node, rest) # Nowhere
  BY Resolved DEF Leads
<1>2. WellFormed(reg.nodes[n])
  BY DEF Proper, AllWellFormed
<1>3. LongerBy(reg, n, c, rest, path)
  BY <1>1, <1>2, PathFromChild
<1> HIDE DEF path
<1>4. Leads(reg, n, path) /\ ResolveGroup(reg, n, path) = ResolveGroup(reg, c.node, rest)
  BY <1>1, <1>3 DEF LongerBy, Leads
<1>5. Aliased(reg, n, path) <=> c.alias \/ Aliased(reg, c.node, rest)
  BY <1>3, <1>4, AliasedFromChild
<1>6. Aliased(reg, n, path) = (c.alias \/ Aliased(reg, c.node, rest))
  BY <1>5 DEF Aliased
<1> QED
  BY <1>4, <1>6 DEF Route, path

\* The routes of all nodes satisfy it.
LEMMA RoutesAreLeafPaths ==
    ASSUME NEW reg, Proper(reg), NEW f,
           f = [m \in DOMAIN reg.nodes |-> {Route(reg, m, p) : p \in PathsFrom(reg, m)}],
           NEW m \in DOMAIN reg.nodes
    PROVE  f[m] = LeafPathsOf(reg, f, m)
<1>1. f[m] = {Route(reg, m, p) : p \in PathsFrom(reg, m)}
  OBVIOUS
<1>2. \A c \in Children(reg, m) :
         c.node \in DOMAIN reg.nodes /\ f[c.node] = {Route(reg, c.node, p) : p \in PathsFrom(reg, c.node)}
  BY DEF Proper, ChildrenExist
<1>3. \A p : p \in PathsFrom(reg, m) <=> Leads(reg, m, p)
  BY PathsFromLead
<1>4. CASE IsComposite(reg, m)
  <2> DEFINE Longer(c, p) == [leaf |-> p.leaf, path |-> <<c.role>> \o p.path,
                              aliased |-> c.alias \/ p.aliased]
             all == UNION {{Longer(c, p) : p \in f[c.node]} : c \in Children(reg, m)}
  <2>1. LeafPathsOf(reg, f, m) = all
    BY <1>4 DEF LeafPathsOf
  <2>2. ASSUME NEW c \in Children(reg, m), NEW rest, Leads(reg, c.node, rest)
        PROVE  /\ Route(reg, c.node, rest) \in f[c.node]
               /\ Leads(reg, m, <<c.role>> \o rest)
               /\ Longer(c, Route(reg, c.node, rest)) = Route(reg, m, <<c.role>> \o rest)
    <3>1. rest \in PathsFrom(reg, c.node)
      BY <1>2, <2>2, PathsFromLead
    <3>2. /\ Leads(reg, m, <<c.role>> \o rest)
          /\ Route(reg, m, <<c.role>> \o rest) =
                [leaf |-> ResolveGroup(reg, c.node, rest), path |-> <<c.role>> \o rest,
                 aliased |-> c.alias \/ Aliased(reg, c.node, rest)]
      BY <2>2, RouteFromChild
    <3>3. /\ Route(reg, c.node, rest).leaf = ResolveGroup(reg, c.node, rest)
          /\ Route(reg, c.node, rest).path = rest
          /\ Route(reg, c.node, rest).aliased = Aliased(reg, c.node, rest)
      BY DEF Route
    <3>4. Longer(c, Route(reg, c.node, rest)) = Route(reg, m, <<c.role>> \o rest)
      BY <3>2, <3>3
    <3> QED
      BY <1>2, <3>1, <3>2, <3>4
  <2>3. ASSUME NEW r \in f[m] PROVE r \in all
    <3>1. PICK path \in PathsFrom(reg, m) : r = Route(reg, m, path)
      BY <1>1, <2>3
    <3>2. Leads(reg, m, path) /\ WellFormed(reg.nodes[m])
      BY <1>3, <3>1 DEF Proper, AllWellFormed
    <3>3. PICK c \in Children(reg, m) :
             \E rest : IsList(rest) /\ rest # << >> /\ path = <<c.role>> \o rest
      <4>1. Leads(reg, m, path)
        BY <3>2
      <4>2. WellFormed(reg.nodes[m])
        BY <3>2
      <4>3. IsComposite(reg, m)
        BY <1>4
      <4>4. StartsWithChild(reg, m, path)
        BY <4>1, <4>2, <4>3, PathStartsWithChild
      <4> QED
        BY <4>4 DEF StartsWithChild
    <3>4. PICK rest : IsList(rest) /\ rest # << >> /\ path = <<c.role>> \o rest
      BY <3>3
    <3>5. LongerBy(reg, m, c, rest, <<c.role>> \o rest)
      BY <3>2, <3>4, PathFromChild
    <3>6. Leads(reg, c.node, rest)
      BY <3>2, <3>4, <3>5 DEF LongerBy, Leads
    <3>7. r = Longer(c, Route(reg, c.node, rest)) /\ Route(reg, c.node, rest) \in f[c.node]
      BY <2>2, <3>1, <3>4, <3>6
    <3>8. PICK q \in f[c.node] : r = Longer(c, q)
      BY <3>7
    <3> HIDE DEF Longer
    <3>9. r \in {Longer(c, p) : p \in f[c.node]}
      BY <3>8
    <3>10. {Longer(c, p) : p \in f[c.node]} \in
             {{Longer(d, p) : p \in f[d.node]} : d \in Children(reg, m)}
      OBVIOUS
    <3> QED
      BY <3>9, <3>10, Zenon
  <2>4. ASSUME NEW r \in all PROVE r \in f[m]
    <3>1. PICK c \in Children(reg, m) : \E p \in f[c.node] : r = Longer(c, p)
      <4> HIDE DEF Longer
      <4> QED
        BY <2>4
    <3>2. PICK p \in f[c.node] : r = Longer(c, p)
      BY <3>1
    <3>3. PICK rest \in PathsFrom(reg, c.node) : p = Route(reg, c.node, rest)
      BY <1>2, <3>2
    <3>4. Leads(reg, c.node, rest)
      BY <1>2, <3>3, PathsFromLead
    <3> HIDE DEF Longer
    <3>5. r = Route(reg, m, <<c.role>> \o rest) /\ Leads(reg, m, <<c.role>> \o rest)
      BY <2>2, <3>2, <3>3, <3>4
    <3> QED
      BY <1>1, <1>3, <3>5
  <2> HIDE DEF all
  <2> QED
    BY <2>1, <2>3, <2>4
<1>5. CASE ~IsComposite(reg, m)
  <2> DEFINE groups == DOMAIN reg.nodes[m].groups
             Own(g) == [leaf |-> <<m, g>>, path |-> <<g>>, aliased |-> FALSE]
  <2>1. LeafPathsOf(reg, f, m) = {Own(g) : g \in groups}
    BY <1>5 DEF LeafPathsOf
  <2>2. /\ \A path : Leads(reg, m, path) => \E g \in groups : path = <<g>>
        /\ \A g \in groups : /\ Leads(reg, m, <<g>>) /\ ResolveGroup(reg, m, <<g>>) = <<m, g>>
                             /\ ~Aliased(reg, m, <<g>>)
    BY <1>5, PathsOfPhysical
  <2>3. \A g \in groups : Route(reg, m, <<g>>) = Own(g)
    <3> SUFFICES ASSUME NEW g \in groups PROVE Route(reg, m, <<g>>) = Own(g)
      OBVIOUS
    <3>1. Aliased(reg, m, <<g>>) = FALSE
      BY <2>2 DEF Aliased
    <3>2. ResolveGroup(reg, m, <<g>>) = <<m, g>>
      BY <2>2
    <3> QED
      BY <3>1, <3>2 DEF Route
  <2> HIDE DEF groups, Own
  <2>4. ASSUME NEW r \in f[m] PROVE r \in {Own(g) : g \in groups}
    BY <1>1, <1>3, <2>2, <2>3
  <2>5. ASSUME NEW g \in groups PROVE Own(g) \in f[m]
    BY <1>1, <1>3, <2>2, <2>3
  <2> QED
    BY <2>1, <2>4, <2>5
<1> QED
  BY <1>4, <1>5

\* The equation has one solution: two of them differ nowhere, as they would differ at a
\* node whose children they agree on.
LEMMA LeafPathsAreUnique ==
    ASSUME NEW reg, Proper(reg), NEW f, NEW h,
           f = [m \in DOMAIN reg.nodes |-> LeafPathsOf(reg, f, m)],
           h = [m \in DOMAIN reg.nodes |-> LeafPathsOf(reg, h, m)]
    PROVE  f = h
<1> SUFFICES ASSUME NEW k \in DOMAIN reg.nodes, f[k] # h[k] PROVE FALSE
  OBVIOUS
<1> DEFINE set == {m \in DOMAIN reg.nodes : f[m] # h[m]}
<1>1. PICK m \in set : \A c \in Children(reg, m) : c.node \notin set
  <2>1. set \in SUBSET DOMAIN reg.nodes /\ set # {}
    OBVIOUS
  <2> HIDE DEF set
  <2> QED
    BY <2>1 DEF Proper, Acyclic
<1>2. m \in DOMAIN reg.nodes /\ f[m] # h[m]
  OBVIOUS
<1>3. \A c \in Children(reg, m) : f[c.node] = h[c.node]
  BY <1>1, <1>2 DEF Proper, ChildrenExist
<1>4. LeafPathsOf(reg, f, m) = LeafPathsOf(reg, h, m)
  <2>1. CASE IsComposite(reg, m)
    <3> DEFINE Longer(c, p) == [leaf |-> p.leaf, path |-> <<c.role>> \o p.path,
                                aliased |-> c.alias \/ p.aliased]
               Part(e, c) == {Longer(c, p) : p \in e[c.node]}
    <3>1. /\ LeafPathsOf(reg, f, m) = UNION {Part(f, c) : c \in Children(reg, m)}
          /\ LeafPathsOf(reg, h, m) = UNION {Part(h, c) : c \in Children(reg, m)}
      BY <2>1 DEF LeafPathsOf
    <3>2. \A c \in Children(reg, m) : Part(f, c) = Part(h, c)
      BY <1>3
    <3> HIDE DEF Part
    <3>3. {Part(f, c) : c \in Children(reg, m)} = {Part(h, c) : c \in Children(reg, m)}
      BY <3>2
    <3> QED
      BY <3>1, <3>3
  <2>2. CASE ~IsComposite(reg, m)
    BY <2>2 DEF LeafPathsOf
  <2> QED
    BY <2>1, <2>2
<1>5. f[m] = LeafPathsOf(reg, f, m) /\ h[m] = LeafPathsOf(reg, h, m)
  BY <1>2
<1> QED
  BY <1>2, <1>4, <1>5

\* _leaf_paths finds the role paths that lead to a group, and knows which use an alias.
LEMMA LeafPathsAreRoutes ==
    ASSUME NEW reg, Proper(reg), NEW n \in DOMAIN reg.nodes
    PROVE  LeafPaths(reg, n) = {Route(reg, n, p) : p \in PathsFrom(reg, n)}
<1> DEFINE Solves(f) == f = [m \in DOMAIN reg.nodes |-> LeafPathsOf(reg, f, m)]
           routes == [m \in DOMAIN reg.nodes |-> {Route(reg, m, p) : p \in PathsFrom(reg, m)}]
           paths == CHOOSE f : Solves(f)
<1>1. Solves(routes)
  <2>1. PICK f : f = routes
    OBVIOUS
  <2>2. \A m \in DOMAIN reg.nodes : f[m] = LeafPathsOf(reg, f, m)
    BY <2>1, RoutesAreLeafPaths
  <2>3. f = [m \in DOMAIN reg.nodes |-> f[m]]
    BY <2>1
  <2>4. Solves(f)
    BY <2>2, <2>3
  <2> HIDE DEF Solves, routes
  <2> QED
    BY <2>1, <2>4
<1>2. LeafPaths(reg, n) = paths[n]
  BY DEF LeafPaths, LeafPathsOf
<1>3. Solves(paths)
  <2> HIDE DEF Solves, routes
  <2> QED
    BY <1>1
<1>4. paths = routes
  <2> HIDE DEF paths, routes
  <2> QED
    BY <1>1, <1>3, LeafPathsAreUnique
<1> QED
  BY <1>2, <1>4

\* From the same lists of paths the same aliases are told.
LEMMA AliasesAreExact ==
    ASSUME NEW reg, Proper(reg), NEW n \in DOMAIN reg.nodes
    PROVE  ValidateCompositeAliases(reg, n) <=> OnePrimaryPath(reg, n)
<1> DEFINE found == LeafPaths(reg, n)
           paths == PathsFrom(reg, n)
           R(p) == Route(reg, n, p)
           Same(p) == {q \in paths : ResolveGroup(reg, n, q) = ResolveGroup(reg, n, p)}
           Alike(r) == {q \in found : q.leaf = r.leaf}
           Primary(p) == \A e \in ToSet(Branch(reg, n, p)) : ~e.child.alias
<1>1. found = {R(p) : p \in paths}
  BY LeafPathsAreRoutes
<1>2. \A p : /\ R(p).leaf = ResolveGroup(reg, n, p) /\ R(p).path = p
             /\ R(p).aliased <=> ~Primary(p)
  BY DEF Route, Aliased
<1>3. ValidateCompositeAliases(reg, n) <=>
         \A r \in found : Alike(r) = {r} \/ ExactlyOne({q \in Alike(r) : ~q.aliased})
  BY DEF ValidateCompositeAliases
<1>4. OnePrimaryPath(reg, n) <=>
         \A p \in paths : Same(p) = {p} \/ ExactlyOne({q \in Same(p) : Primary(q)})
  BY DEF OnePrimaryPath, PathsFrom
<1> HIDE DEF R, found, paths, Primary
<1>5. ASSUME NEW p \in paths
      PROVE  /\ Alike(R(p)) = {R(q) : q \in Same(p)}
             /\ {q \in Alike(R(p)) : ~q.aliased} = {R(q) : q \in {o \in Same(p) : Primary(o)}}
  BY <1>1, <1>2
<1>6. \A set : \A p : {R(q) : q \in set} = {R(p)} <=> set = {p}
  <2> SUFFICES ASSUME NEW set, NEW p PROVE {R(q) : q \in set} = {R(p)} <=> set = {p}
    OBVIOUS
  <2>1. \A q : R(q) = R(p) => q = p
    BY <1>2
  <2> QED
    BY <2>1
<1>7. \A set : ExactlyOne({R(q) : q \in set}) <=> ExactlyOne(set)
  <2> SUFFICES ASSUME NEW set PROVE ExactlyOne({R(q) : q \in set}) <=> ExactlyOne(set)
    OBVIOUS
  <2>1. ASSUME ExactlyOne({R(q) : q \in set}) PROVE ExactlyOne(set)
    <3>1. PICK p \in set : {R(q) : q \in set} = {R(p)}
      BY <2>1 DEF ExactlyOne
    <3> QED
      BY <1>6, <3>1 DEF ExactlyOne
  <2>2. ASSUME ExactlyOne(set) PROVE ExactlyOne({R(q) : q \in set})
    BY <2>2 DEF ExactlyOne
  <2> QED
    BY <2>1, <2>2
<1>8. ASSUME NEW p \in paths
      PROVE  (Alike(R(p)) = {R(p)} \/ ExactlyOne({q \in Alike(R(p)) : ~q.aliased}))
                <=> (Same(p) = {p} \/ ExactlyOne({q \in Same(p) : Primary(q)}))
  <2> DEFINE same == Same(p)
             primary == {q \in Same(p) : Primary(q)}
  <2>1. /\ Alike(R(p)) = {R(q) : q \in same}
        /\ {q \in Alike(R(p)) : ~q.aliased} = {R(q) : q \in primary}
    BY <1>5
  <2> HIDE DEF same, primary, Alike, Same
  <2>2. {R(q) : q \in same} = {R(p)} <=> same = {p}
    BY <1>6
  <2>3. Alike(R(p)) = {R(p)} <=> same = {p}
    BY <2>1, <2>2
  <2>4. ExactlyOne({q \in Alike(R(p)) : ~q.aliased}) <=> ExactlyOne(primary)
    BY <1>7, <2>1
  <2> QED
    BY <2>3, <2>4 DEF same, primary
<1> HIDE DEF Alike, Same
<1> QED
  BY <1>1, <1>3, <1>4, <1>8

\* A robot has one path to each of its groups.
LEMMA PhysicalHasNoAliases ==
    ASSUME NEW reg, Proper(reg), NEW n \in DOMAIN reg.nodes, ~IsComposite(reg, n)
    PROVE  OnePrimaryPath(reg, n)
<1> DEFINE paths == PathsFrom(reg, n)
           Same(p) == {q \in paths : ResolveGroup(reg, n, q) = ResolveGroup(reg, n, p)}
<1>1. ASSUME NEW p \in paths PROVE Same(p) = {p}
  <2> SUFFICES ASSUME NEW q \in paths, ResolveGroup(reg, n, q) = ResolveGroup(reg, n, p) PROVE q = p
    OBVIOUS
  <2>1. Leads(reg, n, p) /\ Leads(reg, n, q)
    BY PathsFromLead
  <2>2. PICK g \in DOMAIN reg.nodes[n].groups : p = <<g>>
    BY <2>1, PathsOfPhysical
  <2>3. PICK h \in DOMAIN reg.nodes[n].groups : q = <<h>>
    BY <2>1, PathsOfPhysical
  <2>4. <<n, g>> = <<n, h>>
    BY <2>2, <2>3, PathsOfPhysical
  <2> QED
    BY <2>2, <2>3, <2>4
<1> QED
  BY <1>1 DEF OnePrimaryPath, PathsFrom

\* A server starts on exactly the registries with proper nodes, an acyclic graph, one
\* primary path to every leaf and scopes that name something: what the two walks of
\* _validate compute is what a definition without a walk says, for any finite registry.
THEOREM LoadingIsExact == AdmissionSpec => LoadIsExact
<1> DEFINE Fit(reg) ==
              /\ DOMAIN reg.nodes # {}
              /\ \A n \in DOMAIN reg.nodes : WellFormed(reg.nodes[n])
              /\ ProperGraph(reg)
              /\ \A i \in DOMAIN reg.identities :
                    \A scope \in reg.identities[i] : ValidateScope(reg, scope)
<1>1. ASSUME NEW reg \in Registries PROVE Loads(reg) <=> Fit(reg)
  <2> DEFINE Rest == /\ DOMAIN reg.nodes # {}
                     /\ \A i \in DOMAIN reg.identities :
                           \A scope \in reg.identities[i] : ValidateScope(reg, scope)
             Formed == AllWellFormed(reg, DOMAIN reg.nodes)
             Aliases == \A n \in DOMAIN reg.nodes :
                           IsComposite(reg, n) => ValidateCompositeAliases(reg, n)
             Primaries == \A n \in DOMAIN reg.nodes : OnePrimaryPath(reg, n)
  <2>1. Loads(reg) <=> Rest /\ Formed /\ ValidateGraph(reg) /\ Aliases
    BY DEF Loads, AllWellFormed
  <2>2. Fit(reg) <=> Rest /\ Formed /\ ChildrenExist(reg) /\ Acyclic(reg) /\ Primaries
    BY DEF ProperGraph, AllWellFormed
  <2>3. Formed => (ValidateGraph(reg) <=> ChildrenExist(reg) /\ Acyclic(reg))
    BY GraphValidationIsExact
  <2>4. ASSUME Formed, ChildrenExist(reg), Acyclic(reg) PROVE Aliases <=> Primaries
    <3>1. Proper(reg)
      BY <2>4, AdmissionAssumption DEF Proper
    <3> QED
      BY <3>1, AliasesAreExact, PhysicalHasNoAliases
  <2> HIDE DEF Rest, Formed, Aliases, Primaries, Fit
  <2> QED
    BY <2>1, <2>2, <2>3, <2>4
<1>2. ProvenanceInv /\ [AdmissionNext]_allVars =>
         [server = "starting" /\ server' # "starting" => (server' = "up" <=> Fit(files))]_allVars
  <2> SUFFICES ASSUME ProvenanceInv, [AdmissionNext]_allVars, server = "starting", server' # "starting"
               PROVE  server' = "up" <=> Fit(files)
    OBVIOUS
  <2>1. StartServer
    BY DEF AdmissionNext, StartServer, Restart, CompileTemplate, EditArtifact, EndRun, Execute,
           allVars, admissionVars
  <2>2. server' = "up" <=> Loads(files)
    BY <2>1 DEF StartServer
  <2> HIDE DEF Fit
  <2> QED
    BY <1>1, <2>2 DEF ProvenanceInv
<1> QED
  BY <1>2, KeptProgramsWereCompiled, PTL DEF AdmissionSpec, LoadIsExact

=============================================================================
