---------------------------- MODULE MCTCPTransport ----------------------------
(***************************************************************************)
(* Instances of TCPTransport for TLC: the constants are in the cfgs.       *)
(***************************************************************************)
EXTENDS TCPTransport
=============================================================================
