--------------------------- MODULE HospitalScan ---------------------------
(***************************************************************************)
(* The occupancy grid of simbiote/sim_env/hospital_map.py, from the prims  *)
(* of hospital.usd to the cells the planner may use: _world_bounds_in_band,*)
(* HospitalMap.build, the exact distance transform of _inflate, and        *)
(* clearance.                                                              *)
(*                                                                         *)
(* Coordinates are whole cells: a prim is a box [name, x0, y0, x1, y1, lo, *)
(* hi] with lo and hi its heights, and the cell <<x, y>> is where to_cell  *)
(* puts the point of the same coordinates.                                 *)
(***************************************************************************)
EXTENDS Integers, Sequences, FiniteSets, FiniteSetsExt, SequencesExt

CONSTANTS
  ZLow, ZHigh,    \* Z_BAND: the heights of the robot
  Slab,           \* a floor is thinner than this, and not above it
  Pad             \* the cells around the floor

ASSUME PadAssumption == Pad \in Nat \ {0}

(* A prim whose bounds are empty is not looked at.                           *)
IsBox(p) == /\ p.x0 \in Int /\ p.x1 \in Int /\ p.x0 <= p.x1
            /\ p.y0 \in Int /\ p.y1 \in Int /\ p.y0 <= p.y1

Boxed(p) == (p.x0 .. p.x1) \X (p.y0 .. p.y1)

(* Its name is not enough: a wet-floor sign stands in the corridor.          *)
IsFloor(p) == p.name = "Floor" /\ p.hi - p.lo < Slab /\ p.lo < Slab
Floors(prims) == {p \in prims : IsFloor(p)}

(* What the robot would hit: neither the ceiling nor a decal.                *)
Footprints(prims) == {p \in prims \ Floors(prims) : p.hi >= ZLow /\ p.lo <= ZHigh}

(* The box around all floors; there is no grid without one.                  *)
FloorBox(prims) ==
  [x0 |-> Min({p.x0 : p \in Floors(prims)}), y0 |-> Min({p.y0 : p \in Floors(prims)}),
   x1 |-> Max({p.x1 : p \in Floors(prims)}), y1 |-> Max({p.y1 : p \in Floors(prims)})]

Grid(box) == (box.x0 - Pad .. box.x1 + Pad) \X (box.y0 - Pad .. box.y1 + Pad)

(* build: everything is blocked but the floor's box, and there what stands   *)
(* on it.  In cells the floor's last row counts as floor.                    *)
Occupied(prims) ==
  LET box == FloorBox(prims)
  IN  (Grid(box) \ Boxed(box)) \cup (Grid(box) \cap UNION {Boxed(p) : p \in Footprints(prims)})

-----------------------------------------------------------------------------
(* _inflate: one row after the other, and then one column after the other.   *)

(* Where the parabola of b overtakes that of a, as a fraction.               *)
Overtakes(f, a, b) == <<(f[b] + b * b) - (f[a] + a * a), 2 * (b - a)>>
Before(s, t) == s[1] * t[2] < t[1] * s[2]

(* Mutant: the last parabola is never taken off again.                       *)
EnvelopeKeepsAll(f, v, q) == Append(v, q)

(* The parabolas that still count after q's is added: those under it at the  *)
(* right end are taken off.                                                  *)
Envelope(f, v, q) ==
  LET counts == {k \in DOMAIN v : k = 1 \/ Before(Overtakes(f, v[k - 1], v[k]), Overtakes(f, v[k], q))}
  IN  Append(SubSeq(v, 1, Max(counts)), q)

(* edt_1d, over the indices lo .. hi.                                        *)
Edt1(f, lo, hi) ==
  LET v == FoldLeft(LAMBDA env, q : Envelope(f, env, q), <<lo>>, [i \in 1..(hi - lo) |-> lo + i])
      lowest(q) == Min({k \in DOMAIN v : k = Len(v) \/ ~Before(Overtakes(f, v[k], v[k + 1]), <<q, 1>>)})
  IN  [q \in lo..hi |-> (q - v[lowest(q)]) * (q - v[lowest(q)]) + f[v[lowest(q)]]]

Inflate(occupied, box, cells) ==
  LET grid == Grid(box)
      far == Cardinality(grid) + 1
      xs == {c[1] : c \in grid}   ys == {c[2] : c \in grid}
      rows == [x \in xs |-> Edt1([y \in ys |-> IF <<x, y>> \in occupied THEN 0 ELSE far], Min(ys), Max(ys))]
      columns == [y \in ys |-> Edt1([x \in xs |-> rows[x][y]], Min(xs), Max(xs))]
  IN  IF cells <= 0 THEN occupied ELSE {c \in grid : columns[c[2]][c[1]] <= cells * cells}

Square(n) == n * n
SquaredDist(c, d) == Square(c[1] - d[1]) + Square(c[2] - d[2])

(* What the inflation should be: the cells within cells of an occupied one.  *)
Grown(occupied, grid, cells) ==
  {c \in grid : \E o \in occupied : SquaredDist(c, o) <= cells * cells}
=============================================================================
