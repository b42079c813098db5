------------------------- MODULE CapabilityRegistry -------------------------
(***************************************************************************)
(* remote_robot/registry.py and model.py: the control nodes of a server,   *)
(* what makes their registration valid, and what a role path and a         *)
(* manifest of a node are.                                                 *)
(*                                                                         *)
(* A registry is a record [server, nodes, identities].  A node is          *)
(*   [kind |-> "physical", revision, exposed, locks, groups, watchdog] or  *)
(*   [kind |-> "composite", revision, exposed, locks, children],           *)
(* its resources and safety domains being one set of lease targets, its    *)
(* revisions one number.  A dotted name is the sequence of its segments.   *)
(* The private connection settings of a node appear in no manifest and     *)
(* are left out, as are the scopes that do not grant control, names, units *)
(* and rates.  Every axis has a velocity limit here.                       *)
(***************************************************************************)
EXTENDS Naturals, FiniteSets, SequencesExt

\* A role path that leads to no group.
Nowhere == << >>

\* isinstance(value, list)
IsList(value) == value \in Seq(ToSet(value))

IsComposite(reg, n) == reg.nodes[n].kind = "composite"

Children(reg, n) == IF IsComposite(reg, n) THEN ToSet(reg.nodes[n].children) ELSE {}

-----------------------------------------------------------------------------
(* The constructors of the nodes. *)

WellFormedGroup(group) ==
    /\ group.axes # << >> /\ group.schemas # {}
    /\ \A axis \in ToSet(group.axes) : axis.lower < axis.upper /\ axis.velocity > 0

WellFormedPhysical(node) ==
    /\ DOMAIN node.groups # {}
    /\ \A g \in DOMAIN node.groups : WellFormedGroup(node.groups[g])
    /\ node.watchdog.unattended => node.watchdog.crash_safe

WellFormedComposite(node) ==
    /\ IsList(node.children) /\ ToSet(node.children) # {}
    /\ \A i, j \in DOMAIN node.children :
          node.children[i].role = node.children[j].role => i = j

WellFormed(node) ==
    IF node.kind = "composite" THEN WellFormedComposite(node) ELSE WellFormedPhysical(node)

-----------------------------------------------------------------------------
(* _validate: the graph, the aliases, the scopes. *)

ChildrenExist(reg) ==
    \A n \in DOMAIN reg.nodes : \A c \in Children(reg, n) : c.node \in DOMAIN reg.nodes

\* Faulty variant of Leave: the node stays among those being visited.
LeaveInPlace(walk, n) == [walk EXCEPT !.visited = @ \cup {n}]

\* The end of a visit without a cycle.
Leave(walk, n) == [walk EXCEPT !.visiting = @ \ {n}, !.visited = @ \cup {n}]

\* What visit keeps between two calls, and whether it has raised.
Walks(reg) ==
    [visiting : SUBSET DOMAIN reg.nodes, visited : SUBSET DOMAIN reg.nodes, cycle : BOOLEAN]

\* A loop of visits: the walk after each of them.
VisitEach(visit, walk, ids) ==
    LET after[i \in 0 .. Len(ids)] ==
            IF i = 0 THEN walk ELSE visit[after[i - 1]][ids[i]]
    IN  after

ChildIds(reg, n) ==
    IF IsComposite(reg, n)
    THEN [i \in DOMAIN reg.nodes[n].children |-> reg.nodes[n].children[i].node]
    ELSE << >>

\* visit: depth first; a node met while it is being visited closes a cycle, and the
\* exception ends the whole walk.
VisitNode(reg, visit, walk, n) ==
    IF walk.cycle \/ n \in walk.visiting THEN [walk EXCEPT !.cycle = TRUE]
    ELSE IF n \in walk.visited THEN walk
    ELSE LET ids == ChildIds(reg, n)
             entered == [walk EXCEPT !.visiting = @ \cup {n}]
         IN  Leave(VisitEach(visit, entered, ids)[Len(ids)], n)

Visit(reg) ==
    LET visit[walk \in Walks(reg)] ==
            [n \in DOMAIN reg.nodes |-> VisitNode(reg, visit, walk, n)]
    IN  visit

\* The walk starts at every node in turn.
ValidateGraph(reg) ==
    /\ ChildrenExist(reg)
    /\ LET ids == SetToSeq(DOMAIN reg.nodes)
           start == [visiting |-> {}, visited |-> {}, cycle |-> FALSE]
       IN  ~VisitEach(Visit(reg), start, ids)[Len(ids)].cycle

\* _leaf_paths: every way from a node down to a group, and whether it uses an alias.
LeafPaths(reg, n) ==
    LET paths[m \in DOMAIN reg.nodes] ==
            IF IsComposite(reg, m)
            THEN UNION {{[leaf |-> p.leaf, path |-> <<c.role>> \o p.path,
                          aliased |-> c.alias \/ p.aliased] : p \in paths[c.node]} :
                           c \in Children(reg, m)}
            ELSE {[leaf |-> <<m, g>>, path |-> <<g>>, aliased |-> FALSE] :
                     g \in DOMAIN reg.nodes[m].groups}
    IN  paths[n]

\* len(primary) == 1.
ExactlyOne(set) == \E x \in set : set = {x}

\* Of several paths to a leaf exactly one is not an alias.
ValidateCompositeAliases(reg, n) ==
    LET found == LeafPaths(reg, n)
    IN  \A p \in found :
           LET same == {q \in found : q.leaf = p.leaf}
           IN  same = {p} \/ ExactlyOne({q \in same : ~q.aliased})

\* child, for the node of a set of one: the node in this role.
Follow(reg, nodes, role) ==
    {c.node : c \in {d \in UNION {Children(reg, n) : n \in nodes} : d.role = role}}

\* The loop of resolve_group: the node, if any, after each of the roles on the way down.
Walk(reg, n, roles) ==
    LET at[i \in 0 .. Len(roles)] ==
            IF i = 0 THEN {n} ELSE Follow(reg, at[i - 1], roles[i])
    IN  at

\* resolve_group: the physical node and the group at the end of a role path.
ResolveGroup(reg, n, path) ==
    IF path = << >> THEN Nowhere
    ELSE LET group == Last(path)
             ends == {m \in Walk(reg, n, Front(path))[Len(path) - 1] :
                         ~IsComposite(reg, m) /\ group \in DOMAIN reg.nodes[m].groups}
         IN  IF ends = {} THEN Nowhere ELSE <<CHOOSE m \in ends : TRUE, group>>

Everything == <<"*">>

\* The control scopes of an identity: everything, a root, or a role of a root.
ValidateScope(reg, scope) ==
    scope # Everything =>
        /\ Head(scope) \in DOMAIN reg.nodes
        /\ Tail(scope) \notin {<< >>, Everything} =>
              ResolveGroup(reg, Head(scope), Tail(scope)) # Nowhere

\* can_control, for the scopes of one identity.
CanControl(scopes, root, path) ==
    {Everything, <<root>>, <<root>> \o Everything, <<root>> \o path} \cap scopes # {}

\* load, and the constructor it ends with: the server does not start on a registry
\* that fails one of these.
Loads(reg) ==
    /\ DOMAIN reg.nodes # {}
    /\ \A n \in DOMAIN reg.nodes : WellFormed(reg.nodes[n])
    /\ ValidateGraph(reg)
    /\ \A n \in DOMAIN reg.nodes : IsComposite(reg, n) => ValidateCompositeAliases(reg, n)
    /\ \A i \in DOMAIN reg.identities : \A s \in reg.identities[i] : ValidateScope(reg, s)

-----------------------------------------------------------------------------
(* Manifests.  The manifest of a node nests those of its children, each with *)
(* the id of its node: it stands for the nodes at or below the node.  The    *)
(* assurances of a composite follow from the watchdogs and are left out.     *)

\* The least set with n that has the children of its members.
Below(reg, n) ==
    {m \in DOMAIN reg.nodes :
        \A set \in SUBSET DOMAIN reg.nodes :
            n \in set /\ (\A k \in set : \A c \in Children(reg, k) : c.node \in set)
               => m \in set}

Manifest(reg, n) ==
    [server |-> reg.server, root |-> n, nodes |-> [m \in Below(reg, n) |-> reg.nodes[m]]]

\* Faulty variant of ManifestHash: the children count with their names and roles only.
ShallowHash(manifest) ==
    [manifest EXCEPT !.nodes = [m \in {manifest.root} |-> manifest.nodes[m]]]

\* A digest stands for the value it is taken of.
ManifestHash(manifest) == manifest
=============================================================================
