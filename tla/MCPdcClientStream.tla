-------------------------- MODULE MCPdcClientStream --------------------------
(* Instances of PdcClientStream for TLC. *)
EXTENDS PdcClientStream

CONSTANTS c1, c2
=============================================================================
