--------------------------- MODULE MCTeleopCamera ---------------------------
(* TeleopCamera for TLC: its constants need no definition.                   *)
EXTENDS TeleopCamera
=============================================================================
