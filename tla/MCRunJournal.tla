---------------------------- MODULE MCRunJournal ----------------------------
(* RunJournal for TLC. *)
EXTENDS RunJournal, TLC

RunSymmetry == Permutations(Runs)
=============================================================================
