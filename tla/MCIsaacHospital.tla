------------------------- MODULE MCIsaacHospital -------------------------
(* Scenes for TLC: a corridor with a bend, with and without a bed in it.     *)
EXTENDS IsaacHospital

Prim(name, x0, y0, x1, y1, lo, hi) ==
  [name |-> name, x0 |-> x0, y0 |-> y0, x1 |-> x1, y1 |-> y1, lo |-> lo, hi |-> hi]

Slabs == {Prim("Floor", 0, 0, 8, 6, 0, 0)}
Walls == {Prim("Wall", 0, 3, 5, 6, 0, 9), Prim("Lamp", 1, 1, 1, 1, 8, 9), Prim("Floor", 8, 6, 8, 6, 0, 4)}
Bed == Prim("Bed", 6, 3, 7, 3, 0, 2)

MCScenes == {Slabs \cup Walls, Slabs \cup Walls \cup {Bed}}
MCSpawns == {<<1, 1>>}
MCLocations == {<<7, 3>>, <<7, 5>>}
MCAnswers == {<<1, 1>>, <<0, 0>>}
MCAxes == {<<1, 0, 0, 1>>, <<0, -1, 1, 0>>}
=============================================================================
