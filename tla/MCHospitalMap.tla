--------------------------- MODULE MCHospitalMap ---------------------------
(* HospitalMap for TLC: a small floor with the shapes that matter.           *)
EXTENDS HospitalMap

(* No, one and two pillars, walls with a door, a wall without one, a gap     *)
(* between corners, a trap open on one side, a furnished room, and floors    *)
(* blocked but for one cell and altogether.                                  *)
MCMaps ==
  {{}, {<<2, 1>>}, {<<1, 1>>, <<3, 0>>}, {<<1, 0>>, <<1, 1>>, <<3, 1>>, <<3, 2>>},
   {<<2, 0>>, <<2, 1>>, <<2, 2>>}, {<<1, 0>>, <<2, 1>>, <<1, 2>>},
   {<<2, 0>>, <<3, 1>>, <<2, 2>>, <<4, 0>>}, {<<0, 0>>, <<1, 0>>, <<0, 1>>, <<1, 1>>, <<0, 2>>},
   Cell \ {<<4, 2>>}, Cell}
=============================================================================
