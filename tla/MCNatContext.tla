---------------------------- MODULE MCNatContext ----------------------------
(* An instance of NatContext for TLC. *)
EXTENDS NatContext

CONSTANTS x, y

MCAddrOf == <<x, y, x>>
=============================================================================
