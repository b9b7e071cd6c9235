--------------------------- MODULE MCRunRegistry ---------------------------
(***************************************************************************)
(* Small instances of RunRegistry for TLC.                                 *)
(***************************************************************************)
EXTENDS RunRegistry, TLC

Symmetry == Permutations(Runs) \cup Permutations(Reverters)

=============================================================================
