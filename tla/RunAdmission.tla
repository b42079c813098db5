---------------------------- MODULE RunAdmission ----------------------------
(***************************************************************************)
(* What stands between a template and motion: the registry a server loads, *)
(* the programs compiled against it, and the part of                       *)
(* RunOrchestrator.execute that comes before the first await of a leased   *)
(* run.  Servers restart with edited registries, programs outlive them.    *)
(*                                                                         *)
(* execute does not await between its checks and the lease, so admission   *)
(* is one step; a run that is refused changes nothing and is no step.      *)
(***************************************************************************)
EXTENDS LeaseManager, ProgramCompiler

CONSTANTS
    Registries,     \* registries there can be
    FirstRegistries,    \* those that a server is set up with
    RegistryEdits(_),   \* what may become of a registry between two starts
    Templates,      \* templates of the clients
    ArtifactEdits(_),   \* what may become of a program between two uses
    WorkerIds,      \* physical nodes with a worker
    NoProgram,      \* a run that is not under way
    MaxPrograms,    \* programs kept, at most
    MaxRestarts     \* restarts, at most

\* A registry is a finite file; whatever it names can be leased.
ASSUME AdmissionAssumption ==
    /\ Requests = SUBSET Targets
    /\ FirstRegistries \subseteq Registries
    /\ \A reg \in Registries :
          /\ RegistryEdits(reg) \subseteq Registries
          /\ IsFiniteSet(DOMAIN reg.nodes)
          /\ \A n \in DOMAIN reg.nodes :
                /\ reg.nodes[n].locks \subseteq Targets
                /\ ~IsComposite(reg, n) =>
                      \A g \in DOMAIN reg.nodes[n].groups : <<"leaf", n, g>> \in Targets

VARIABLES
    files,      \* the registry on disk, which the server has read
    server,     \* "starting", "up" or "refused" to start
    compiled,   \* programs kept as compiled, with the registry they were compiled for
    edited,     \* programs changed afterwards, digests included
    running,    \* program of each leased run
    used,       \* run ids with a journal
    restarts    \* restarts so far

admissionVars == <<files, server, compiled, edited, running, used, restarts>>
allVars == <<leaseVars, admissionVars>>

Kept == {c.program : c \in compiled} \cup edited

-----------------------------------------------------------------------------
(* The lock set of a program. *)

Parts(program) ==
    UNION {ToSet(program.phases[k].sequences) : k \in DOMAIN program.phases}

\* Faulty variant of BranchLocks: only the root is looked at.
BranchLocksOfRoot(manifest, path) == manifest.nodes[manifest.root].locks

\* _collect_role_branch_locks: the locks of every node on the way down the manifest.
BranchLocks(manifest, path) ==
    LET at == Walk(manifest, manifest.root, Front(path))
    IN  UNION {manifest.nodes[n].locks : n \in UNION {at[i] : i \in DOMAIN at}}

\* lock_requirements
LockRequirements(reg, program) ==
    UNION {{<<"leaf">> \o s.target} \cup BranchLocks(Manifest(reg, program.root), s.path) :
              s \in Parts(program)}

\* _participant_worker_ids
ParticipantWorkerIds(program) == {s.target[1] : s \in Parts(program)}

\* require_control for every role path of the program.
RequireControl(reg, identity, program) ==
    /\ identity \in DOMAIN reg.identities
    /\ \A s \in Parts(program) :
          CanControl(reg.identities[identity], program.root, s.path)

-----------------------------------------------------------------------------
(* Actions. *)

\* The server reads its registry.
StartServer ==
    /\ server = "starting"
    /\ server' = IF Loads(files) THEN "up" ELSE "refused"
    /\ UNCHANGED <<leaseVars, files, compiled, edited, running, used, restarts>>

\* A client has a template compiled and keeps the program.
CompileTemplate(template) ==
    /\ server = "up"
    /\ Compiles(files, template)
    /\ compiled' = compiled \cup
          {[program |-> Compiled(files, template), registry |-> files]}
    /\ Cardinality(compiled') + Cardinality(edited) <= MaxPrograms
    /\ UNCHANGED <<leaseVars, files, server, edited, running, used, restarts>>

\* A kept program is changed by other means than the compiler.
EditArtifact(program) ==
    /\ edited' \in {edited \cup {p} : p \in ArtifactEdits(program)}
    /\ Cardinality(compiled) + Cardinality(edited') <= MaxPrograms
    /\ UNCHANGED <<leaseVars, files, server, compiled, running, used, restarts>>

\* execute, up to the lease and the record that opens the journal of the run.
Execute(r, identity, program) ==
    /\ server = "up"
    /\ r \notin used
    /\ ValidForRegistry(files, program)
    /\ RequireControl(files, identity, program)
    /\ ParticipantWorkerIds(program) \subseteq WorkerIds
    /\ Acquire(r, LockRequirements(files, program))
    /\ running' = [running EXCEPT ![r] = program]
    /\ used' = used \cup {r}
    /\ UNCHANGED <<files, server, compiled, edited, restarts>>

\* The run ends, one way or another, and gives its lease back.
EndRun(r) ==
    /\ Release(r)
    /\ running' = [running EXCEPT ![r] = NoProgram]
    /\ UNCHANGED <<files, server, compiled, edited, used, restarts>>

\* A server stops once its runs are cancelled, and starts again with edited files.
Restart ==
    /\ restarts < MaxRestarts
    /\ server # "starting"
    /\ \A r \in Runs : running[r] = NoProgram
    /\ files' \in RegistryEdits(files)
    /\ server' = "starting"
    /\ restarts' = restarts + 1
    /\ UNCHANGED <<leaseVars, compiled, edited, running, used>>

AdmissionInit ==
    /\ Init
    /\ files \in FirstRegistries
    /\ server = "starting"
    /\ compiled = {} /\ edited = {}
    /\ running = [r \in Runs |-> NoProgram]
    /\ used = {}
    /\ restarts = 0

AdmissionNext ==
    \/ StartServer
    \/ Restart
    \/ \E template \in Templates : CompileTemplate(template)
    \/ \E program \in Kept : EditArtifact(program)
    \/ \E r \in Runs :
          \/ EndRun(r)
          \/ \E identity \in DOMAIN files.identities, program \in Kept :
                Execute(r, identity, program)

AdmissionSpec == AdmissionInit /\ [][AdmissionNext]_allVars

-----------------------------------------------------------------------------
(* References: the graph without a walk, the paths without a recursion. *)

\* In every set of nodes there is one whose children are all outside.
Acyclic(reg) ==
    \A set \in SUBSET DOMAIN reg.nodes : set # {} =>
        \E n \in set : \A c \in Children(reg, n) : c.node \notin set

Child(reg, n, role) == CHOOSE c \in Children(reg, n) : c.role = role

\* The edges of a role path from a node, in order; its last segment is a group.
Branch(reg, root, path) ==
    LET from[i \in 1 .. Len(path)] ==
            IF i = 1 THEN root ELSE Child(reg, from[i - 1], path[i - 1]).node
    IN  [i \in 1 .. Len(path) - 1 |->
            [from |-> from[i], child |-> Child(reg, from[i], path[i])]]

RolesOf(reg) == UNION {{c.role : c \in Children(reg, n)} : n \in DOMAIN reg.nodes}

GroupsOf(reg) ==
    UNION {DOMAIN reg.nodes[n].groups : n \in {m \in DOMAIN reg.nodes : ~IsComposite(reg, m)}}

\* All role paths an acyclic registry can have.
RolePaths(reg) ==
    LET fronts == UNION {[1 .. k -> RolesOf(reg)] : k \in 0 .. Cardinality(DOMAIN reg.nodes) - 1}
    IN  UNION {{roles \o <<g>> : roles \in fronts} : g \in GroupsOf(reg)}

\* From n every leaf is reached by one path, or by one path and its aliases.
OnePrimaryPath(reg, n) ==
    LET paths == {p \in RolePaths(reg) : ResolveGroup(reg, n, p) # Nowhere}
        Primary(p) == \A e \in ToSet(Branch(reg, n, p)) : ~e.child.alias
    IN  \A p \in paths :
           LET same == {q \in paths : ResolveGroup(reg, n, q) = ResolveGroup(reg, n, p)}
           IN  same = {p} \/ ExactlyOne({q \in same : Primary(q)})

ProperGraph(reg) ==
    /\ ChildrenExist(reg)
    /\ Acyclic(reg)
    /\ \A n \in DOMAIN reg.nodes : OnePrimaryPath(reg, n)

\* The nodes that the root depends on.
Under(reg, root) ==
    {root} \cup {e.child.node : e \in
        UNION {ToSet(Branch(reg, root, p)) :
                  p \in {q \in RolePaths(reg) : ResolveGroup(reg, root, q) # Nowhere}}}

SameUnder(reg, old, root) ==
    /\ root \in DOMAIN reg.nodes
    /\ Under(reg, root) = Under(old, root)
    /\ \A n \in Under(old, root) : reg.nodes[n] = old.nodes[n]
-----------------------------------------------------------------------------
(* Properties. *)

\* A server starts on exactly the registries whose graph is proper: the walk of
\* _validate_graph finds a cycle if and only if there is one, a node shared by two
\* branches is none, and the aliases are told from the primary paths.
LoadIsExact ==
    [][server = "starting" /\ server' # "starting" =>
          (server' = "up" <=>
              /\ DOMAIN files.nodes # {}
              /\ \A n \in DOMAIN files.nodes : WellFormed(files.nodes[n])
              /\ ProperGraph(files)
              /\ \A i \in DOMAIN files.identities :
                    \A scope \in files.identities[i] : ValidateScope(files, scope))]_allVars

\* A program is refused after a restart if and only if something at or below its root
\* has changed: "Any child, axis, adapter, configuration revision, role mapping, or
\* safety-policy change produces a new hash and rejects stale compiled programs".
StaleIffChanged ==
    server = "up" => \A c \in compiled :
        ValidForRegistry(files, c.program)
            <=> files.server = c.registry.server /\ SameUnder(files, c.registry, c.program.root)

\* A run under way fits the robots as they are registered now, whichever server the
\* program was compiled for and whatever became of it since: each sequence drives the
\* leaf its role path leads to, no leaf is driven twice in a phase, absolute positions
\* are within the limits and no segment is too fast.
RunningProgramFits ==
    \A r \in Runs : running[r] # NoProgram =>
        \A k \in DOMAIN running[r].phases :
            LET parts == running[r].phases[k].sequences
            IN  /\ \A i, j \in DOMAIN parts : parts[i].target = parts[j].target => i = j
                /\ \A s \in ToSet(parts) :
                      /\ ResolveGroup(files, running[r].root, s.path) = s.target
                      /\ Last(s.samples).t <= running[r].phases[k].duration
                      /\ LET axes == files.nodes[s.target[1]].groups[s.target[2]].axes
                         IN  \A i \in DOMAIN s.samples, a \in DOMAIN axes :
                               /\ s.reference = "absolute" =>
                                     s.samples[i].values[a] \in axes[a].lower .. axes[a].upper
                               /\ i > 1 =>
                                     15 * Distance(s.samples[i - 1].values[a], s.samples[i].values[a])
                                        * Second
                                     <= 8 * axes[a].velocity * (s.samples[i].t - s.samples[i - 1].t)

\* What run r keeps others from: its leaves, and the resources and safety domains of
\* every node it reaches them through.
Held(r) ==
    IF running[r] = NoProgram THEN {}
    ELSE UNION {{<<"leaf">> \o s.target} \cup files.nodes[s.target[1]].locks
                  \cup UNION {files.nodes[e.from].locks :
                                 e \in ToSet(Branch(files, running[r].root, s.path))} :
                   s \in Parts(running[r])}

\* Runs under way at the same time share no leaf, and no resource or safety domain of
\* any node on their way down, be it through another root or through an alias.
RunsKeepApart == \A r, s \in Runs : r # s => Held(r) \cap Held(s) = {}
=============================================================================
