------------------------- MODULE MCTokioTCPTransport -------------------------
(***************************************************************************)
(* Instances of TokioTCPTransport for TLC: the constants are in the cfgs.  *)
(***************************************************************************)
EXTENDS TokioTCPTransport, TLC
=============================================================================
