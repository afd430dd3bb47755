---------------------------- MODULE GridRoutes ----------------------------
(***************************************************************************)
(* What HospitalMap.plan may return, as a set: the routes between two      *)
(* points of a floor whose free cells are given.  HospitalMap is about how *)
(* plan() finds one of them, cell by cell; here is what a caller has to    *)
(* reckon with, any nearest free cell, any shortest path between the two   *)
(* and any rounding of the lines it is pulled along.  The lengths of a     *)
(* move, 1 and the square root of 2, are 10 and 14.                        *)
(***************************************************************************)
EXTENDS HospitalScan

CONSTANT SearchRadius    \* nearest_free's max_radius, in cells

Abs(n) == IF n < 0 THEN -n ELSE n

(* nearest_free: the cell itself, or the closest of the first window that    *)
(* has a free one.                                                           *)
FreeNear(free, c) ==
  LET near(n) == {f \in free : Abs(f[1] - c[1]) <= n /\ Abs(f[2] - c[2]) <= n}
      hit == {n \in 0..SearchRadius : near(n) # {}}
  IN  IF hit = {} THEN {}
      ELSE {f \in near(Min(hit)) : \A g \in near(Min(hit)) : SquaredDist(c, f) <= SquaredDist(c, g)}

(* The moves from a cell; no corner is cut.                                  *)
MovesFrom(free, c) ==
  {d \in ((c[1] - 1 .. c[1] + 1) \X (c[2] - 1 .. c[2] + 1)) \ {c} :
     {d, <<c[1], d[2]>>, <<d[1], c[2]>>} \subseteq free}

MoveLength(c, d) == IF c[1] # d[1] /\ c[2] # d[2] THEN 14 ELSE 10

(* The length of the shortest way to a goal from every cell that has one, as *)
(* pairs: the cells are settled in the order of their lengths.               *)
LengthsTo(free, goal) ==
  LET further(reached) ==
        UNION {{<<c, r[2] + MoveLength(c, r[1])>> : c \in MovesFrom(free, r[1]) \ {q[1] : q \in reached}} :
               r \in reached}
      settle(reached) ==
        LET next == further(reached)
        IN  reached \cup {r \in next : \A q \in next : r[2] <= q[2]}
  IN  FoldLeft(LAMBDA reached, i : settle(reached), {<<goal, 0>>}, [i \in 1..Cardinality(free) |-> i])

(* All shortest paths from a cell: every move gets nearer by its length.     *)
ShortestPaths(free, lengths, start) ==
  LET nearer(r) == {q \in lengths : q[1] \in MovesFrom(free, r[1]) /\ q[2] + MoveLength(q[1], r[1]) = r[2]}
      further(path) == IF nearer(Last(path)) = {} THEN {path}
                       ELSE {Append(path, q) : q \in nearer(Last(path))}
      paths == FoldLeft(LAMBDA ps, i : UNION {further(path) : path \in ps},
                        {<<r>> : r \in {q \in lengths : q[1] = start}}, [i \in 1..Cardinality(lengths) |-> i])
  IN  {[k \in DOMAIN path |-> path[k][1]] : path \in paths}

-----------------------------------------------------------------------------
(* _line_is_clear, sampled twice per cell; the last sample may be lost to    *)
(* rounding, and one on a border counts for one of the cells that meet there.*)

Spanned(a, b) == (Min({a[1], b[1]}) .. Max({a[1], b[1]})) \X (Min({a[2], b[2]}) .. Max({a[2], b[2]}))

SampleCounts(a, b) ==
  {n \in 1..(2 * (Abs(a[1] - b[1]) + Abs(a[2] - b[2]))) :
     n * n <= 4 * SquaredDist(a, b) /\ 4 * SquaredDist(a, b) <= (n + 1) * (n + 1)}

FallsIn(a, b, n, i, c) ==
  \A k \in 1..2 : LET x == (2 * a[k] + 1) * n + 2 * (b[k] - a[k]) * i
                  IN  2 * n * c[k] <= x /\ x <= 2 * n * (c[k] + 1)

LineMayPass(free, a, b) ==
  \E n \in SampleCounts(a, b) : \A i \in 0..n : \E c \in Spanned(a, b) \cap free : FallsIn(a, b, n, i, c)

LineMayStop(free, a, b) ==
  \E n \in SampleCounts(a, b) : \E i \in 0..n : \E c \in Spanned(a, b) \ free : FallsIn(a, b, n, i, c)

(* simplify: the line from the anchor goes on, or the point before becomes a *)
(* corner and the anchor.                                                    *)
Simplified(free, points) ==
  LET goes(pull, index) ==
        IF LineMayPass(free, points[pull.anchor], points[index]) THEN {pull} ELSE {}
      turns(pull, index) ==
        IF LineMayStop(free, points[pull.anchor], points[index])
        THEN {[out |-> Append(pull.out, points[index - 1]), anchor |-> index - 1]} ELSE {}
      pulls == FoldLeft(LAMBDA ps, index : UNION {goes(p, index) \cup turns(p, index) : p \in ps},
                        {[out |-> <<points[1]>>, anchor |-> 1]},
                        [i \in 1..(Len(points) - 2) |-> i + 2])
  IN  IF Len(points) < 3 THEN {points} ELSE {Append(p.out, Last(points)) : p \in pulls}

(* plan, between two free cells; <<>> is None.                               *)
RoutesBetween(free, start, goal) ==
  LET paths == ShortestPaths(free, LengthsTo(free, goal), start)
  IN  IF start = goal THEN {<<goal>>}
      ELSE IF paths = {} THEN {<<>>}
      ELSE UNION {Simplified(free, path) : path \in paths}
=============================================================================
