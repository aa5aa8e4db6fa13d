----------------------------- MODULE MCPdcServer -----------------------------
(* Instances of PdcServer for TLC. *)
EXTENDS PdcServer, TLC

Symmetry == Permutations(Conns)
=============================================================================
