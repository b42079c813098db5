--------------------------- MODULE ProgramCompiler ---------------------------
(***************************************************************************)
(* remote_robot/program.py: a template of phases is compiled against a     *)
(* registry into a program that pins the manifest of its root, and a       *)
(* program is validated against the registry of the server it comes to.    *)
(*                                                                         *)
(* A template is [root, phases], a phase [id, sequences], a sequence       *)
(* [path, schema, reference, samples], a sample [t, values].  Positions    *)
(* are integers, One of them being 1.0, and times integers, Second of them *)
(* being a second.  The digests inside a program and its outline follow    *)
(* from the phases and are left out.                                       *)
(***************************************************************************)
EXTENDS Integers, CapabilityRegistry

CONSTANTS One, Second

Distance(a, b) == IF a < b THEN b - a ELSE a - b

\* _validate_segment_rates: the peak of a quintic segment is 1.875 times its mean.
\* No axis of a registry has an acceleration limit.
SegmentWithinRate(axis, before, after, duration) ==
    15 * Distance(before, after) * Second <= 8 * axis.velocity * duration

\* POSITION_SCHEMAS: the command schemas the compiler implements.
PositionSchemas == {"position", "normalized"}

\* A relative sequence is measured from a start nobody knows yet.
SampleWithinLimits(axes, reference, values) ==
    reference = "absolute" =>
        \A k \in DOMAIN axes : values[k] \in axes[k].lower .. axes[k].upper

SampleNormalized(schema, reference, values) ==
    schema = "normalized" =>
        \A v \in ToSet(values) :
            v \in (IF reference = "absolute" THEN 0 ELSE -One) .. One

\* _compile_dense_samples
SamplesCompile(samples, axes, reference, schema) ==
    /\ IsList(samples) /\ Len(samples) >= 2
    /\ samples[1].t = 0
    /\ \A i \in DOMAIN samples :
          LET values == samples[i].values
          IN  /\ samples[i].t \in Nat
              /\ values \in Seq(Int) /\ Len(values) = Len(axes)
              /\ reference = "relative" /\ i = 1 => ToSet(values) = {0}
              /\ SampleWithinLimits(axes, reference, values)
              /\ SampleNormalized(schema, reference, values)
              /\ i > 1 =>
                    LET duration == samples[i].t - samples[i - 1].t
                    IN  /\ duration > 0
                        /\ \A k \in DOMAIN axes :
                              SegmentWithinRate(axes[k], samples[i - 1].values[k],
                                                values[k], duration)

-----------------------------------------------------------------------------
(* Templates and the programs made of them have the same shape. *)

\* _template_from_compiled
TemplateOf(program) ==
    [root |-> program.root,
     phases |-> [k \in DOMAIN program.phases |->
        [id |-> program.phases[k].id,
         sequences |-> [i \in DOMAIN program.phases[k].sequences |->
            LET sequence == program.phases[k].sequences[i]
            IN  [path |-> sequence.path, schema |-> sequence.schema,
                 reference |-> sequence.reference, samples |-> sequence.samples]]]]]

-----------------------------------------------------------------------------
(* compile: what it accepts and what it makes of it. *)

SequenceCompiles(reg, root, sequence) ==
    LET leaf == ResolveGroup(reg, root, sequence.path)
    IN  /\ IsList(sequence.path) /\ leaf # Nowhere
        /\ LET group == reg.nodes[leaf[1]].groups[leaf[2]]
           IN  /\ sequence.schema \in group.schemas \cap PositionSchemas
               /\ sequence.reference \in {"absolute", "relative"}
               /\ SamplesCompile(sequence.samples, group.axes, sequence.reference,
                                 sequence.schema)

CompiledSequence(reg, root, sequence) ==
    [path |-> sequence.path, target |-> ResolveGroup(reg, root, sequence.path),
     schema |-> sequence.schema, reference |-> sequence.reference,
     samples |-> sequence.samples, duration |-> Last(sequence.samples).t]

\* Every sequence of a phase drives a group of its own, whatever its role path.
PhaseCompiles(reg, root, phase) ==
    /\ IsList(phase.sequences) /\ phase.sequences # << >>
    /\ \A i \in DOMAIN phase.sequences : SequenceCompiles(reg, root, phase.sequences[i])
    /\ \A i, j \in DOMAIN phase.sequences :
          ResolveGroup(reg, root, phase.sequences[i].path)
              = ResolveGroup(reg, root, phase.sequences[j].path) => i = j

CompiledPhase(reg, root, phase) ==
    [id |-> phase.id,
     duration |-> Max({Last(sequence.samples).t : sequence \in ToSet(phase.sequences)}),
     sequences |-> [i \in DOMAIN phase.sequences |->
                       CompiledSequence(reg, root, phase.sequences[i])]]

\* _require_exact_fields: a template is all that is in it.
Compiles(reg, template) ==
    /\ template = TemplateOf(template)
    /\ template.root \in DOMAIN reg.nodes
    /\ reg.nodes[template.root].exposed
    /\ IsList(template.phases) /\ template.phases # << >>
    /\ \A k \in DOMAIN template.phases : PhaseCompiles(reg, template.root, template.phases[k])
    /\ \A j, k \in DOMAIN template.phases :
          template.phases[j].id = template.phases[k].id => j = k

Compiled(reg, template) ==
    [server |-> reg.server, root |-> template.root,
     manifest |-> ManifestHash(Manifest(reg, template.root)),
     phases |-> [k \in DOMAIN template.phases |->
                    CompiledPhase(reg, template.root, template.phases[k])]]

-----------------------------------------------------------------------------
(* validate_for_current_registry *)

\* Faulty variant of Rebuilt: the compiler accepts it; what it makes is not compared.
RebuildCompiles(reg, program) == Compiles(reg, TemplateOf(program))

\* The program is what the compiler makes of its own template here and now.
Rebuilt(reg, program) ==
    /\ Compiles(reg, TemplateOf(program))
    /\ Compiled(reg, TemplateOf(program)) = program

ValidForRegistry(reg, program) ==
    /\ program.server = reg.server
    /\ program.root \in DOMAIN reg.nodes
    /\ program.manifest = ManifestHash(Manifest(reg, program.root))
    /\ Rebuilt(reg, program)
=============================================================================
