------------------------------ MODULE IkBridge ------------------------------
(***************************************************************************)
(* simbiote/teleop/ik_bridge.py: one hand, two jobs.  An open hand drives  *)
(* the base with the gripper open; a pinched one parks the base and closes *)
(* it.  The bridge of a teleop process is what landmarks_to_action keeps   *)
(* from one frame to the next; the closed and moves of it are the action.  *)
(*                                                                         *)
(* A hand is what the thresholds tell apart: its pinch ratio against the   *)
(* two of them, and whether its tilt or place leaves a dead zone.  The     *)
(* arm's target pose, which nothing here depends on, is left out.          *)
(***************************************************************************)
EXTENDS Integers

CONSTANT NONE  \* no hand in the frame; elsewhere, no action

(* Below PINCH_CLOSED_RATIO, above PINCH_RELEASE_RATIO, and from one to the  *)
(* other.                                                                    *)
Hand == [pinch : {"pinched", "apart", "between"}, steers : BOOLEAN]

(* `parted` is history: the hand was seen apart since the gripper was last   *)
(* commanded to close.                                                       *)
Bridge == [mode : {"drive", "manipulate"}, closed : BOOLEAN, moves : BOOLEAN, parted : BOOLEAN]

Neutral == [mode |-> "drive", closed |-> FALSE, moves |-> FALSE, parted |-> FALSE]

(* Mutant: one threshold for both ways.                                      *)
UpdateModeAtOnce(mode, pinch) == IF pinch = "pinched" THEN "manipulate" ELSE "drive"

UpdateMode(mode, pinch) ==
  CASE pinch = "pinched" -> "manipulate"
    [] pinch = "apart"   -> "drive"
    [] pinch = "between" -> mode

(* A dropout parks the base and keeps the mode and the gripper.              *)
Freeze(bridge) == [bridge EXCEPT !.moves = FALSE]

(* A base that was moving slows down for as long as the hand is level: the   *)
(* smoothed velocity never is zero again until it is set to zero.            *)
LandmarksToAction(bridge, hand) ==
  LET mode == UpdateMode(bridge.mode, hand.pinch) IN
  [mode   |-> mode,
   closed |-> mode = "manipulate",
   moves  |-> mode = "drive" /\ (hand.steers \/ bridge.moves),
   parted |-> mode = "drive" /\ (bridge.parted \/ hand.pinch = "apart")]

Retarget(bridge, hand) == IF hand = NONE THEN Freeze(bridge) ELSE LandmarksToAction(bridge, hand)
=============================================================================
