----------------------------- MODULE MCTokioLoop -----------------------------
(***************************************************************************)
(* Instances of TokioLoop for TLC.                                         *)
(***************************************************************************)
EXTENDS TokioLoop, TLC

Symmetry == Permutations(Handles) \cup Permutations(Fds)
=============================================================================
