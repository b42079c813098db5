--------------------------- MODULE MCStreamSession ---------------------------
(* Small programs for StreamSession. *)
EXTENDS StreamSession

\* With two points a chunk: short chunks; chunks of span 3, as long as the
\* lookahead; a long chunk; a first chunk beyond the horizon.
SomePrograms == {<<0, 1, 2, 3, 4, 5, 6>>, <<0, 1, 3, 4, 7>>, <<0, 3, 4, 9, 10>>,
                 <<0, 7, 8>>}

\* The defaults to scale: a chunk of 64 points spans 6.4 s at least, since the
\* server wants 0.1 s between points, and the lookahead is 5 s.
DefaultProportions == {[i \in 1 .. 20 |-> i - 1]}
=============================================================================
