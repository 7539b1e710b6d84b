------------------------------- MODULE MCSetup -------------------------------
(* Setup with interchangeable runs. *)
EXTENDS Setup, TLC

Symmetry == Permutations(Runs)
=============================================================================
