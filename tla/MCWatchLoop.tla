---------------------------- MODULE MCWatchLoop ----------------------------
(* WatchLoop for TLC: its constants need no definition.                      *)
EXTENDS WatchLoop
=============================================================================
