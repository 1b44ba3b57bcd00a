---------------------------- MODULE MCIORegistry ----------------------------
(* Instance of IORegistry for TLC: descriptor numbers are interchangeable. *)
EXTENDS IORegistry, TLC

Symmetry == Permutations(FDs)
=============================================================================
