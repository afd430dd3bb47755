--------------------------- MODULE MCControlQueue ---------------------------
(* ControlQueue for TLC: its constants need no definition.                   *)
EXTENDS ControlQueue
=============================================================================
