---------------------------- MODULE HospitalMap ----------------------------
(***************************************************************************)
(* HospitalMap.plan (simbiote/sim_env/hospital_map.py): from where the     *)
(* robot is and where it is to go, to the waypoints it drives along.  Both *)
(* ends are moved to the nearest free cell, A* runs over the free cells of *)
(* the inflated grid, the path is walked back from its end and pulled      *)
(* tight to the corners that matter.                                       *)
(*                                                                         *)
(* A point is the cell it lies in.  The two lengths of a move, 1 and the   *)
(* square root of 2, are 10 and 14, which order paths of a small grid the  *)
(* same way; where the code's floats meet a tie, either outcome is taken.  *)
(***************************************************************************)
EXTENDS Integers, Sequences, FiniteSets

CONSTANTS
  Width, Height,   \* GridSpec's
  Maps,            \* the sets of blocked cells considered
  MaxRadius        \* nearest_free's max_radius, in cells

ASSUME SizeAssumption == Width \in Nat /\ Height \in Nat /\ MaxRadius \in Nat

Cell == (0..(Width - 1)) \X (0..(Height - 1))

ASSUME MapsAssumption == Maps \subseteq SUBSET Cell

NoCell == <<-1, -1>>
Unseen == -1       \* the cost of a cell that has no entry: cost.get(cell, inf)
Straight == 10
Diagonal == 14

VARIABLES
  blocked,         \* self.blocked
  start, goal,     \* plan's arguments
  pc,
  start_cell, goal_cell,
  open,            \* open_heap: pairs of g and a cell; f follows from them
  came_from, cost, closed,
  points,          \* the grid path, walked back from its end
  out, anchor, index      \* simplify's

search == <<open, came_from, cost, closed>>
pull == <<out, anchor, index>>
vars == <<blocked, start, goal, pc, start_cell, goal_cell, search, points, pull>>

-----------------------------------------------------------------------------
(* Cells.                                                                    *)

Gap(a, b) == IF a < b THEN b - a ELSE a - b
DX(c, d) == Gap(c[1], d[1])
DY(c, d) == Gap(c[2], d[2])

(* The window of cells at most radius away from c in each direction.         *)
Window(c, radius) == {d \in Cell : DX(c, d) <= radius /\ DY(c, d) <= radius}

Dist2(c, d) == DX(c, d) * DX(c, d) + DY(c, d) * DY(c, d)

(* nearest_free: c itself, or the best free cell of the first window that    *)
(* has one.                                                                  *)
NearestFree(c) ==
  IF c \notin blocked THEN {c}
  ELSE UNION {LET free == Window(c, r) \ blocked
              IN  {d \in free : \A e \in free : Dist2(c, d) <= Dist2(c, e)} :
                r \in {r \in 1..MaxRadius : /\ Window(c, r) \ blocked # {}
                                            /\ Window(c, r - 1) \subseteq blocked}}

(* Mutant: (0, -1) is missing from _NEIGHBOURS.                              *)
NeighboursButOne(c) ==
  {d \in Window(c, 1) \ blocked :
     /\ d # c /\ ~(d[1] = c[1] /\ d[2] < c[2])
     /\ d[1] # c[1] /\ d[2] # c[2] => <<d[1], c[2]>> \notin blocked /\ <<c[1], d[2]>> \notin blocked}

(* The moves A* may make from a cell: to the eight around it, but not onto a *)
(* blocked one and not past the corner of one.                               *)
Neighbours(c) ==
  {d \in Window(c, 1) \ blocked :
     /\ d # c
     /\ d[1] # c[1] /\ d[2] # c[2] => <<d[1], c[2]>> \notin blocked /\ <<c[1], d[2]>> \notin blocked}

Step(c, d) == IF c[1] # d[1] /\ c[2] # d[2] THEN Diagonal ELSE Straight

(* Mutant: the Manhattan distance, which overestimates a diagonal.           *)
HeuristicManhattan(c) == Straight * (DX(c, goal_cell) + DY(c, goal_cell))

(* The octile distance to the goal.                                          *)
Heuristic(c) ==
  LET dx == DX(c, goal_cell)
      dy == DY(c, goal_cell)
  IN  Straight * (dx + dy) + (Diagonal - 2 * Straight) * (IF dx < dy THEN dx ELSE dy)

(* What heappop may return.                                                  *)
Smallest == {e \in open : \A f \in open : e[1] + Heuristic(e[2]) <= f[1] + Heuristic(f[2])}

-----------------------------------------------------------------------------
(* _line_is_clear.  A line between the centres of two cells is sampled twice *)
(* per cell of its length; where that comes out even the last may be lost to *)
(* rounding.  A sample on a border counts for one of the cells that meet     *)
(* there.                                                                    *)

Samples(a, b) ==
  {n \in 1..(2 * (Width + Height)) :
     n * n <= 4 * Dist2(a, b) /\ 4 * Dist2(a, b) <= (n + 1) * (n + 1)}

(* The sample i / n of the way lies in cell c or on its border.              *)
On(a, b, n, i, c) ==
  \A k \in 1..2 :
    LET x == (2 * a[k] + 1) * n + 2 * (b[k] - a[k]) * i
    IN  2 * n * c[k] <= x /\ x <= 2 * n * (c[k] + 1)

MayBeClear(a, b) ==
  \E n \in Samples(a, b) : \A i \in 0..n : \E c \in Cell \ blocked : On(a, b, n, i, c)

MayBeBlocked(a, b) ==
  \E n \in Samples(a, b) : \E i \in 0..n : \E c \in blocked : On(a, b, n, i, c)

ClearFrom(a) == {b \in Cell : MayBeClear(a, b)}
BlockedFrom(a) == {b \in Cell : MayBeBlocked(a, b)}

-----------------------------------------------------------------------------
Init ==
  /\ blocked \in Maps
  /\ start \in Cell /\ goal \in Cell
  /\ pc = "begin"
  /\ start_cell = NoCell /\ goal_cell = NoCell
  /\ open = {} /\ closed = {}
  /\ came_from = [c \in Cell |-> NoCell]
  /\ cost = [c \in Cell |-> Unseen]
  /\ points = <<>> /\ out = <<>> /\ anchor = 1 /\ index = 3

(* No free cell near one of the ends.                                        *)
NoEnd ==
  /\ pc = "begin" /\ (NearestFree(start) = {} \/ NearestFree(goal) = {})
  /\ pc' = "none"
  /\ UNCHANGED <<blocked, start, goal, start_cell, goal_cell, search, points, pull>>

(* Both ends in one cell: its only waypoint is the goal.                     *)
AlreadyThere ==
  /\ pc = "begin"
  /\ \E c \in NearestFree(start) \cap NearestFree(goal) :
       /\ start_cell' = c /\ goal_cell' = c
       /\ points' = <<c>> /\ out' = <<c>>
  /\ pc' = "done"
  /\ UNCHANGED <<blocked, start, goal, search, anchor, index>>

Begin ==
  /\ pc = "begin"
  /\ \E s \in NearestFree(start), g \in NearestFree(goal) :
       /\ s # g
       /\ start_cell' = s /\ goal_cell' = g
       /\ open' = {<<0, s>>}
       /\ cost' = [cost EXCEPT ![s] = 0]
  /\ pc' = "search"
  /\ UNCHANGED <<blocked, start, goal, came_from, closed, points, pull>>

(* An entry that was pushed before a shorter way to its cell was found.      *)
PopStale ==
  /\ pc = "search"
  /\ \E e \in Smallest : e[2] \in closed /\ open' = open \ {e}
  /\ UNCHANGED <<blocked, start, goal, pc, start_cell, goal_cell, came_from, cost, closed,
                 points, pull>>

(* The neighbours of e's cell that e reaches by a shorter way.               *)
Better(e) ==
  {d \in Neighbours(e[2]) : cost[d] = Unseen \/ e[1] + Step(e[2], d) < cost[d]}

Expand ==
  /\ pc = "search"
  /\ \E e \in Smallest :
       /\ e[2] \notin closed /\ e[2] # goal_cell
       /\ closed' = closed \cup {e[2]}
       /\ cost' = [d \in Cell |-> IF d \in Better(e) THEN e[1] + Step(e[2], d) ELSE cost[d]]
       /\ came_from' = [d \in Cell |-> IF d \in Better(e) THEN e[2] ELSE came_from[d]]
       /\ open' = (open \ {e}) \cup {<<e[1] + Step(e[2], d), d>> : d \in Better(e)}
  /\ UNCHANGED <<blocked, start, goal, pc, start_cell, goal_cell, points, pull>>

(* The goal itself; it has a link, so the check after the loop lets it pass. *)
PopGoal ==
  /\ pc = "search"
  /\ \E e \in Smallest :
       /\ e[2] \notin closed /\ e[2] = goal_cell
       /\ closed' = closed \cup {e[2]}
       /\ open' = open \ {e}
  /\ pc' = "walk" /\ points' = <<goal_cell>>
  /\ UNCHANGED <<blocked, start, goal, start_cell, goal_cell, came_from, cost, pull>>

Exhausted ==
  /\ pc = "search" /\ open = {}
  /\ pc' = "none"
  /\ UNCHANGED <<blocked, start, goal, start_cell, goal_cell, search, points, pull>>

(* cells.append(came_from[cells[-1]]); a cell that came from nowhere would   *)
(* be a KeyError, and stops the model here.                                  *)
WalkBack ==
  /\ pc = "walk" /\ Head(points) # start_cell
  /\ came_from[Head(points)] # NoCell
  /\ points' = <<came_from[Head(points)]>> \o points
  /\ UNCHANGED <<blocked, start, goal, pc, start_cell, goal_cell, search, pull>>

WalkedBack ==
  /\ pc = "walk" /\ Head(points) = start_cell
  /\ IF Len(points) < 3
     THEN pc' = "done" /\ out' = points
     ELSE pc' = "simplify" /\ out' = <<points[1]>>
  /\ UNCHANGED <<blocked, start, goal, start_cell, goal_cell, search, points, anchor, index>>

(* simplify: the line from the anchor is clear this far.                     *)
PullOn ==
  /\ pc = "simplify" /\ index <= Len(points)
  /\ points[index] \in ClearFrom(points[anchor])
  /\ index' = index + 1
  /\ UNCHANGED <<blocked, start, goal, pc, start_cell, goal_cell, search, points, out, anchor>>

(* Mutant: the corner is the point that was not clear any more.              *)
CornerTooLate ==
  /\ pc = "simplify" /\ index <= Len(points)
  /\ points[index] \in BlockedFrom(points[anchor])
  /\ out' = Append(out, points[index]) /\ anchor' = index
  /\ index' = index + 1
  /\ UNCHANGED <<blocked, start, goal, pc, start_cell, goal_cell, search, points>>

(* It is not: the point before is a corner, and the new anchor.              *)
Corner ==
  /\ pc = "simplify" /\ index <= Len(points)
  /\ points[index] \in BlockedFrom(points[anchor])
  /\ out' = Append(out, points[index - 1]) /\ anchor' = index - 1
  /\ index' = index + 1
  /\ UNCHANGED <<blocked, start, goal, pc, start_cell, goal_cell, search, points>>

Pulled ==
  /\ pc = "simplify" /\ index > Len(points)
  /\ out' = Append(out, points[Len(points)])
  /\ pc' = "done"
  /\ UNCHANGED <<blocked, start, goal, start_cell, goal_cell, search, points, anchor, index>>

Returned == pc \in {"done", "none"} /\ UNCHANGED vars

Search == NoEnd \/ AlreadyThere \/ Begin \/ PopStale \/ Expand \/ PopGoal \/ Exhausted
Route == WalkBack \/ WalkedBack \/ PullOn \/ Corner \/ Pulled

Next == Search \/ Route \/ Returned

Spec == Init /\ [][Next]_vars

-----------------------------------------------------------------------------
TypeOK ==
  /\ blocked \in Maps /\ start \in Cell /\ goal \in Cell
  /\ pc \in {"begin", "search", "walk", "simplify", "done", "none"}
  /\ start_cell \in Cell \cup {NoCell} /\ goal_cell \in Cell \cup {NoCell}
  /\ open \subseteq Nat \X Cell /\ closed \subseteq Cell
  /\ came_from \in [Cell -> Cell \cup {NoCell}]
  /\ cost \in [Cell -> Nat \cup {Unseen}]
  /\ points \in Seq(Cell) /\ out \in Seq(Cell)
  /\ anchor \in Nat \ {0} /\ index \in Nat \ {0}

(* "Refuse to cut a diagonal between two blocked cells": the base can go     *)
(* from one cell to the next, both are free and so are the two cells it      *)
(* slips past on a diagonal.                                                 *)
Drivable(c, d) ==
  /\ c # d /\ DX(c, d) <= 1 /\ DY(c, d) <= 1
  /\ {c, d, <<c[1], d[2]>>, <<d[1], c[2]>>} \cap blocked = {}

(* The grid path goes from the free cell found near the robot to the one     *)
(* found near its goal by moves that can be driven, and every leg between    *)
(* the waypoints returned has passed _line_is_clear.                         *)
RouteIsDrivable ==
  pc = "done" =>
    /\ points[1] \in NearestFree(start) /\ points[Len(points)] \in NearestFree(goal)
    /\ \A i \in 1..(Len(points) - 1) : Drivable(points[i], points[i + 1])
    /\ out[1] = points[1] /\ out[Len(out)] = points[Len(points)]
    /\ \A i \in 1..(Len(out) - 1) : MayBeClear(out[i], out[i + 1])

(* The cells that can be reached from start_cell in at most n moves, each    *)
(* with the length of the shortest way there.                                *)
Shortest(reached) == {w \in reached : \A v \in reached : v[1] = w[1] => w[2] <= v[2]}

Further(reached) ==
  reached \cup UNION {{<<d, w[2] + Step(w[1], d)>> : d \in {d \in Cell : Drivable(w[1], d)}} : w \in reached}

Ways[n \in 0..Cardinality(Cell)] ==
  IF n = 0 THEN {<<start_cell, 0>>} ELSE Shortest(Further(Ways[n - 1]))

(* Octile is "admissible for 8-connected grids": when the search ends at the *)
(* goal, no drivable way is shorter than the one found, and the path walked  *)
(* back has just that length.                                                *)
RouteIsShortest ==
  pc = "walk" /\ Head(points) = start_cell =>
    LET length[i \in 1..Len(points)] ==
          IF i = 1 THEN 0 ELSE length[i - 1] + Step(points[i - 1], points[i])
    IN  /\ <<goal_cell, cost[goal_cell]>> \in Ways[Cardinality(Cell)]
        /\ length[Len(points)] = cost[goal_cell]

(* "Returns None when the goal is unreachable": there is no free cell near   *)
(* an end, or a region closed under driving holds the start and not the      *)
(* goal.                                                                     *)
NoneIsUnreachable ==
  pc = "none" =>
    \/ NearestFree(start) = {} \/ NearestFree(goal) = {}
    \/ \E region \in SUBSET Cell :
         /\ start_cell \in region /\ goal_cell \notin region
         /\ \A c \in region, d \in Cell : Drivable(c, d) => d \in region
=============================================================================
