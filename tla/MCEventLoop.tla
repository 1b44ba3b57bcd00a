----------------------------- MODULE MCEventLoop -----------------------------
(***************************************************************************)
(* Instances of EventLoop for TLC.  Handles, threads and sources are       *)
(* interchangeable, so the runs that check only safety use symmetry.       *)
(***************************************************************************)
EXTENDS EventLoop, TLC

Symmetry == Permutations(Handles) \cup Permutations(Threads) \cup Permutations(Sources)
=============================================================================
