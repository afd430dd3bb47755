-------------------------- MODULE MCHospitalServer --------------------------
(* HospitalServer for TLC: its constants are numbers and need no definition. *)
EXTENDS HospitalServer
=============================================================================
