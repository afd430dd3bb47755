--------------------------- MODULE MCActionStream ---------------------------
(* ActionStream for TLC: the hands that steer are the open ones.             *)
EXTENDS ActionStream

MCHands ==
  {NONE} \cup {hand \in Hand : hand.steers <=> hand.pinch = "apart"}
=============================================================================
