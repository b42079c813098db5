---------------------------- MODULE MCProgramRun ----------------------------
(* Instances of ProgramRun for TLC. *)
EXTENDS ProgramRun, TLC

P(time, pos) == [t |-> time, q |-> pos]

Config(m, p, c, d) == [mode |-> m, policy |-> p, coord |-> c, declared |-> d]

\* Instance 1, one run in full detail: chunks of one or two points, among them
\* ones that move too far, go back in time or leave the limits once resolved.
DetailChunks ==
    {<<P(0, 0)>>, <<P(0, 1)>>, <<P(1, 1)>>, <<P(1, 2)>>, <<P(2, 2)>>,
     <<P(0, 0), P(1, 1)>>}
DetailProgram == <<P(0, 0), P(1, 1), P(2, 2)>>
DetailConfigs ==
    {Config("sealed", "complete_if_sealed", "relative_deg", DetailProgram),
     Config("streaming", "stop_after_timeout", "relative_deg", DetailProgram),
     Config("streaming", "stop_after_timeout", "absolute_deg",
            <<P(0, 1), P(1, 2)>>)}

\* Instance 2, two runs competing for the arm: programs of two points.
ShareProgram == <<P(0, 0), P(1, 1)>>
ShareChunks == {ShareProgram}
ShareConfigs ==
    {Config("sealed", "stop_after_timeout", "relative_deg", ShareProgram)}

RunSymmetry == Permutations(Runs)
=============================================================================
