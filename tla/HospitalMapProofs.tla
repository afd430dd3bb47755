------------------------- MODULE HospitalMapProofs -------------------------
(***************************************************************************)
(* Invariance proofs about HospitalMap, for grids and maps of every size:  *)
(* a route that is returned can be driven and is a shortest one, None is   *)
(* returned only for a goal that cannot be reached, and the walk back      *)
(* never misses a link; and about IsaacHospital, which drives such routes, *)
(* for every building: a drive pushes by what it was told itself and never *)
(* beyond the leash, the base rests near where the result says it is, and  *)
(* the distance transform that obstacles are grown by is exact.            *)
(***************************************************************************)
EXTENDS HospitalMap, IsaacHospital, SequenceTheorems, FiniteSetTheorems, WellFoundedInduction, TLAPS

Seen(c) == cost[c] # Unseen

(* Before the search there is nothing.                                       *)
FreshInv ==
  /\ pc = "begin" =>
       /\ open = {} /\ closed = {}
       /\ \A c \in Cell : ~Seen(c) /\ came_from[c] = NoCell
  /\ pc \in {"begin", "search", "walk"} => anchor = 1 /\ index = 3

(* The ends of the route are free cells found near the arguments.            *)
EndsInv ==
  pc \in {"search", "walk", "simplify"} =>
    /\ start_cell \in NearestFree(start) /\ start_cell \in Cell \ blocked
    /\ goal_cell \in NearestFree(goal) /\ goal_cell \in Cell \ blocked

(* Every cell seen, but for the start, is linked to a closed one it can be   *)
(* driven to from.                                                           *)
LinksInv ==
  pc \in {"search", "walk"} =>
    /\ cost[start_cell] = 0
    /\ \A c \in Cell : came_from[c] # NoCell =>
         came_from[c] \in closed /\ Drivable(came_from[c], c)
    /\ \A c \in Cell \ {start_cell} : Seen(c) => came_from[c] # NoCell
    /\ \A c \in closed : Seen(c)
    /\ \A e \in open : Seen(e[2])

(* What is seen is closed or waits in the heap, and everything around a      *)
(* closed cell has been seen.                                                *)
FrontierInv ==
  pc = "search" =>
    /\ \A c \in Cell : Seen(c) => c \in closed \/ \E g \in Nat : <<g, c>> \in open
    /\ \A c \in closed : \A d \in Neighbours(c) : Seen(d)
    /\ goal_cell \notin closed

(* The path walked back so far can be driven, and ends at the goal.          *)
WalkInv ==
  pc \in {"walk", "simplify"} =>
    /\ Len(points) >= 1 /\ points[Len(points)] = goal_cell
    /\ \A i \in 1..(Len(points) - 1) : Drivable(points[i], points[i + 1])
    /\ pc = "walk" => Seen(points[1])
    /\ pc = "simplify" => points[1] = start_cell /\ Len(points) >= 3

(* simplify: the waypoints so far end at the anchor, from which all points   *)
(* up to the index are in sight.                                             *)
PullInv ==
  pc = "simplify" =>
    /\ anchor + 2 <= index /\ index <= Len(points) + 1
    /\ Len(out) >= 1 /\ out[1] = points[1] /\ out[Len(out)] = points[anchor]
    /\ \A i \in 1..(Len(out) - 1) : MayBeClear(out[i], out[i + 1])
    /\ \A k \in (anchor + 1)..(index - 1) : MayBeClear(points[anchor], points[k])

IInv ==
  /\ TypeOK /\ FreshInv /\ EndsInv /\ LinksInv /\ FrontierInv
  /\ WalkInv /\ PullInv /\ RouteIsDrivable /\ NoneIsUnreachable

-----------------------------------------------------------------------------
(* Facts about the grid.                                                     *)

(* A cell is a pair of coordinates on the grid. *)
LEMMA CellFacts ==
  ASSUME NEW c \in Cell
  PROVE  /\ c[1] \in 0..(Width - 1) /\ c[2] \in 0..(Height - 1) /\ c = <<c[1], c[2]>>
         /\ c # NoCell
BY SizeAssumption DEF Cell, NoCell

(* Blocked cells are cells of the grid. *)
LEMMA BlockedAreCells == TypeOK => blocked \subseteq Cell
BY MapsAssumption DEF TypeOK

(* nearest_free returns free cells.                                          *)
LEMMA NearestFreeIsFree ==
  ASSUME NEW c \in Cell, NEW d \in NearestFree(c)
  PROVE  d \in Cell \ blocked
<1>1. CASE c \notin blocked
  BY <1>1 DEF NearestFree
<1>2. CASE c \in blocked
  BY <1>2 DEF NearestFree, Window
<1> QED BY <1>1, <1>2

(* Between cells that are next to each other the code's rule and driving are *)
(* the same.                                                                 *)
LEMMA NeighboursAreDrivable ==
  ASSUME NEW c \in Cell \ blocked, NEW d \in Cell
  PROVE  d \in Neighbours(c) <=> Drivable(c, d)
<1>1. c = <<c[1], c[2]>> /\ d = <<d[1], d[2]>>
  BY CellFacts
<1>2. CASE c[1] # d[1] /\ c[2] # d[2]
  BY <1>1, <1>2 DEF Neighbours, Drivable, Window
<1>3. CASE c[1] = d[1] \/ c[2] = d[2]
  BY <1>1, <1>3 DEF Neighbours, Drivable, Window
<1> QED BY <1>2, <1>3

(* A move that can be driven is a clear line: its three samples lie in the   *)
(* two cells and on the border between them.                                 *)
LEMMA DrivableIsClear ==
  ASSUME NEW a \in Cell, NEW b \in Cell, Drivable(a, b)
  PROVE  MayBeClear(a, b)
<1>1. /\ a[1] \in Int /\ a[2] \in Int /\ b[1] \in Int /\ b[2] \in Int
      /\ a = <<a[1], a[2]>> /\ b = <<b[1], b[2]>>
      /\ Width + Height >= 2 /\ Width \in Nat /\ Height \in Nat
  BY CellFacts, SizeAssumption
<1>2. /\ DX(a, b) \in {0, 1} /\ DY(a, b) \in {0, 1} /\ (DX(a, b) = 1 \/ DY(a, b) = 1)
      /\ b[1] - a[1] \in {-1, 0, 1} /\ b[2] - a[2] \in {-1, 0, 1}
  BY <1>1 DEF Drivable, DX, DY, Gap
<1>3. Dist2(a, b) \in {1, 2}
  BY <1>2 DEF Dist2
<1>4. 2 \in Samples(a, b)
  BY <1>1, <1>3 DEF Samples
<1>5. a \in Cell \ blocked /\ b \in Cell \ blocked
  BY DEF Drivable
<1>6. On(a, b, 2, 0, a) /\ On(a, b, 2, 1, a) /\ On(a, b, 2, 2, b)
  <2> SUFFICES ASSUME NEW k \in 1..2, NEW p, NEW q, p = a[k], q = b[k]
               PROVE  /\ 4 * p <= (2 * p + 1) * 2 /\ (2 * p + 1) * 2 <= 4 * (p + 1)
                      /\ 4 * p <= (2 * p + 1) * 2 + 2 * (q - p)
                      /\ (2 * p + 1) * 2 + 2 * (q - p) <= 4 * (p + 1)
                      /\ 4 * q <= (2 * p + 1) * 2 + 4 * (q - p)
                      /\ (2 * p + 1) * 2 + 4 * (q - p) <= 4 * (q + 1)
    BY <1>1 DEF On
  <2>1. k = 1 \/ k = 2
    OBVIOUS
  <2>2. p \in Int /\ q \in Int /\ q - p \in {-1, 0, 1}
    BY <2>1, <1>1, <1>2
  <2> QED BY <2>2
<1>7. \A i \in 0..2 : \E c \in Cell \ blocked : On(a, b, 2, i, c)
  <2> TAKE i \in 0..2
  <2>1. CASE i = 0
    BY <2>1, <1>5, <1>6
  <2>2. CASE i = 1
    BY <2>2, <1>5, <1>6
  <2>3. CASE i = 2
    BY <2>3, <1>5, <1>6
  <2> QED BY <2>1, <2>2, <2>3
<1> QED BY <1>4, <1>7 DEF MayBeClear

(* The map is not changed, and what depends on it alone is not either.       *)
LEMMA MapKept ==
  ASSUME UNCHANGED <<blocked, start, goal>>
  PROVE  /\ \A c : NearestFree(c)' = NearestFree(c)
         /\ \A c : Neighbours(c)' = Neighbours(c)
         /\ \A c, d : Drivable(c, d)' <=> Drivable(c, d)
         /\ \A c, d : MayBeClear(c, d)' <=> MayBeClear(c, d)
<1>1. \A c : NearestFree(c)' = NearestFree(c)
  BY DEF NearestFree
<1>2. \A c : Neighbours(c)' = Neighbours(c)
  BY DEF Neighbours
<1>3. \A c, d : Drivable(c, d)' <=> Drivable(c, d)
  BY DEF Drivable
<1>4. \A c, d : MayBeClear(c, d)' <=> MayBeClear(c, d)
  BY DEF MayBeClear
<1> QED BY <1>1, <1>2, <1>3, <1>4

-----------------------------------------------------------------------------
(* A plan begins in the invariant. *)
LEMMA InitInv == Init => IInv
<1> SUFFICES ASSUME Init PROVE IInv
  OBVIOUS
<1>1. points \in Seq(Cell) /\ out \in Seq(Cell)
  BY DEF Init
<1>2. TypeOK
  BY <1>1 DEF Init, TypeOK
<1>3. FreshInv /\ EndsInv /\ LinksInv /\ FrontierInv
  BY DEF Init, FreshInv, EndsInv, LinksInv, FrontierInv, Seen
<1>4. WalkInv /\ PullInv /\ RouteIsDrivable /\ NoneIsUnreachable
  BY DEF Init, WalkInv, PullInv, RouteIsDrivable, NoneIsUnreachable
<1> QED BY <1>2, <1>3, <1>4 DEF IInv

(* Where the search begins, and where there is none.                         *)
LEMMA BeginInv == IInv /\ (NoEnd \/ AlreadyThere \/ Begin) => IInv'
<1> SUFFICES ASSUME IInv, NoEnd \/ AlreadyThere \/ Begin PROVE IInv'
  OBVIOUS
<1>0. TypeOK /\ pc = "begin" /\ UNCHANGED <<blocked, start, goal>>
  BY DEF IInv, NoEnd, AlreadyThere, Begin
<1>k. /\ NearestFree(start)' = NearestFree(start)
      /\ NearestFree(goal)' = NearestFree(goal)
  BY <1>0, MapKept
<1>1. CASE NoEnd
  <2>1. TypeOK'
    BY <1>0, <1>1 DEF NoEnd, TypeOK, search, pull
  <2>2. FreshInv' /\ EndsInv' /\ LinksInv' /\ FrontierInv' /\ WalkInv' /\ PullInv'
        /\ RouteIsDrivable'
    BY <1>1 DEF NoEnd, FreshInv, EndsInv, LinksInv, FrontierInv, WalkInv, PullInv, RouteIsDrivable
  <2>3. NoneIsUnreachable'
    BY <1>1, <1>k DEF NoEnd, NoneIsUnreachable
  <2> QED BY <2>1, <2>2, <2>3 DEF IInv
<1>2. CASE AlreadyThere
  <2> PICK c \in NearestFree(start) \cap NearestFree(goal) :
        /\ start_cell' = c /\ goal_cell' = c /\ points' = <<c>> /\ out' = <<c>>
    BY <1>2 DEF AlreadyThere
  <2>0. c \in Cell
    BY <1>0, NearestFreeIsFree DEF TypeOK
  <2>1. TypeOK'
    BY <1>0, <1>2, <2>0 DEF AlreadyThere, TypeOK, search
  <2>2. FreshInv' /\ EndsInv' /\ LinksInv' /\ FrontierInv' /\ WalkInv' /\ PullInv'
        /\ NoneIsUnreachable'
    BY <1>2 DEF AlreadyThere, FreshInv, EndsInv, LinksInv, FrontierInv, WalkInv, PullInv,
                NoneIsUnreachable
  <2>3. RouteIsDrivable'
    <3>1. Len(points') = 1 /\ Len(out') = 1 /\ points'[1] = c /\ out'[1] = c
      OBVIOUS
    <3> QED BY <3>1, <1>k DEF RouteIsDrivable
  <2> QED BY <2>1, <2>2, <2>3 DEF IInv
<1>3. CASE Begin
  <2> PICK s \in NearestFree(start), g \in NearestFree(goal) :
        /\ s # g /\ start_cell' = s /\ goal_cell' = g
        /\ open' = {<<0, s>>} /\ cost' = [cost EXCEPT ![s] = 0]
    BY <1>3 DEF Begin
  <2>0. s \in Cell \ blocked /\ g \in Cell \ blocked
    BY <1>0, NearestFreeIsFree DEF TypeOK
  <2>u. pc' = "search" /\ UNCHANGED <<came_from, closed, points, out, anchor, index>>
    BY <1>3 DEF Begin, pull
  <2>1. TypeOK'
    BY <1>0, <2>0, <2>u DEF TypeOK
  <2>f. /\ closed = {} /\ \A c \in Cell : cost[c] = Unseen /\ came_from[c] = NoCell
        /\ anchor = 1 /\ index = 3
    BY <1>0 DEF IInv, FreshInv, Seen
  <2>c. cost'[s] = 0 /\ \A c \in Cell \ {s} : cost'[c] = Unseen
    BY <1>0, <2>0, <2>f DEF TypeOK
  <2>2. FreshInv' /\ EndsInv'
    BY <1>k, <1>0, <2>0, <2>u, <2>f DEF FreshInv, EndsInv
  <2>3. LinksInv'
    BY <2>0, <2>u, <2>f, <2>c DEF LinksInv, Seen, Unseen
  <2>4. FrontierInv'
    BY <2>0, <2>u, <2>f, <2>c DEF FrontierInv, Seen
  <2>5. WalkInv' /\ PullInv' /\ RouteIsDrivable' /\ NoneIsUnreachable'
    BY <2>u DEF WalkInv, PullInv, RouteIsDrivable, NoneIsUnreachable
  <2> QED BY <2>1, <2>2, <2>3, <2>4, <2>5 DEF IInv
<1> QED BY <1>1, <1>2, <1>3

(* A stale entry's cell is closed: nothing waits for it.                     *)
LEMMA PopStaleInv == IInv /\ PopStale => IInv'
<1> SUFFICES ASSUME IInv, PopStale PROVE IInv'
  OBVIOUS
<1> PICK e \in Smallest : e[2] \in closed /\ open' = open \ {e}
  BY DEF PopStale
<1>0. /\ TypeOK /\ pc = "search" /\ pc' = "search"
      /\ UNCHANGED <<blocked, start, goal, start_cell, goal_cell, came_from, cost, closed,
                     points, out, anchor, index>>
  BY DEF IInv, PopStale, pull
<1>k. /\ NearestFree(start)' = NearestFree(start) /\ NearestFree(goal)' = NearestFree(goal)
      /\ \A c : Neighbours(c)' = Neighbours(c)
      /\ \A c, d : Drivable(c, d)' <=> Drivable(c, d)
  BY <1>0, MapKept
<1>1. TypeOK'
  BY <1>0 DEF TypeOK
<1>2. FreshInv' /\ EndsInv'
  BY <1>0, <1>k DEF IInv, FreshInv, EndsInv
<1>3. LinksInv'
  BY <1>0, <1>k DEF IInv, LinksInv, Seen
<1>4. FrontierInv'
  <2>1. \A c \in Cell, g \in Nat : <<g, c>> \in open => c \in closed \/ <<g, c>> \in open'
    OBVIOUS
  <2> QED BY <1>0, <1>k, <2>1 DEF IInv, FrontierInv, Seen
<1>5. WalkInv' /\ PullInv' /\ RouteIsDrivable' /\ NoneIsUnreachable'
  BY <1>0 DEF WalkInv, PullInv, RouteIsDrivable, NoneIsUnreachable
<1> QED BY <1>1, <1>2, <1>3, <1>4, <1>5 DEF IInv

(* An entry in the heap holds a cell and the length of a way to it.          *)
LEMMA EntryFacts ==
  ASSUME TypeOK, NEW e \in Smallest
  PROVE  e \in open /\ e[1] \in Nat /\ e[2] \in Cell /\ e = <<e[1], e[2]>>
BY DEF TypeOK, Smallest

(* A cell is expanded: it is closed, and everything around it is seen.       *)
LEMMA ExpandInv == IInv /\ Expand => IInv'
<1> SUFFICES ASSUME IInv, Expand PROVE IInv'
  OBVIOUS
<1> PICK e \in Smallest :
      /\ e[2] \notin closed /\ e[2] # goal_cell
      /\ closed' = closed \cup {e[2]}
      /\ cost' = [d \in Cell |-> IF d \in Better(e) THEN e[1] + Step(e[2], d) ELSE cost[d]]
      /\ came_from' = [d \in Cell |-> IF d \in Better(e) THEN e[2] ELSE came_from[d]]
      /\ open' = (open \ {e}) \cup {<<e[1] + Step(e[2], d), d>> : d \in Better(e)}
  BY DEF Expand
<1>0. /\ TypeOK /\ pc = "search" /\ pc' = "search"
      /\ UNCHANGED <<blocked, start, goal, start_cell, goal_cell, points, out, anchor, index>>
  BY DEF IInv, Expand, pull
<1>e. e \in open /\ e[1] \in Nat /\ e[2] \in Cell /\ e = <<e[1], e[2]>>
  BY <1>0, EntryFacts
<1>k. /\ NearestFree(start)' = NearestFree(start) /\ NearestFree(goal)' = NearestFree(goal)
      /\ \A c : Neighbours(c)' = Neighbours(c)
      /\ \A c, d : Drivable(c, d)' <=> Drivable(c, d)
  BY <1>0, MapKept
<1>l. /\ start_cell \in Cell \ blocked
      /\ cost[start_cell] = 0
      /\ \A c \in Cell : came_from[c] # NoCell =>
           came_from[c] \in closed /\ Drivable(came_from[c], c)
      /\ \A c \in Cell \ {start_cell} : Seen(c) => came_from[c] # NoCell
      /\ \A c \in closed : Seen(c)
      /\ \A f \in open : Seen(f[2])
  BY <1>0 DEF IInv, EndsInv, LinksInv
<1>f. e[2] \in Cell \ blocked
  BY <1>e, <1>l DEF Drivable
<1>s. \A d \in Cell : Step(e[2], d) \in Nat /\ e[1] + Step(e[2], d) \in Nat
  BY <1>e DEF Step, Straight, Diagonal
<1>b. Better(e) \subseteq Cell /\ start_cell \notin Better(e)
      /\ \A d \in Better(e) : Drivable(e[2], d)
  <2>1. Better(e) \subseteq Neighbours(e[2]) /\ Neighbours(e[2]) \subseteq Cell
    BY DEF Better, Neighbours, Window
  <2>2. start_cell \notin Better(e)
    <3>1. e[1] + Step(e[2], start_cell) \in Nat
      BY <1>s, <1>l
    <3> QED BY <3>1, <1>l DEF Better, Unseen
  <2> QED BY <2>1, <2>2, <1>f, NeighboursAreDrivable
<1>t. came_from \in [Cell -> Cell \cup {NoCell}]
      /\ cost \in [Cell -> Nat \cup {Unseen}] /\ open \subseteq Nat \X Cell /\ closed \subseteq Cell
  BY <1>0 DEF TypeOK
<1>1. TypeOK'
  <2>1. cost' \in [Cell -> Nat \cup {Unseen}]
    BY <1>t, <1>s
  <2>2. came_from' \in [Cell -> Cell \cup {NoCell}]
    BY <1>t, <1>e
  <2>3. open' \subseteq Nat \X Cell
    BY <1>t, <1>b, <1>s
  <2>4. closed' \subseteq Cell
    BY <1>t, <1>e
  <2> QED BY <1>0, <2>1, <2>2, <2>3, <2>4 DEF TypeOK
<1>2. FreshInv' /\ EndsInv'
  BY <1>0, <1>k DEF IInv, FreshInv, EndsInv
<1>c. \A d \in Cell : Seen(d)' <=> Seen(d) \/ d \in Better(e)
  BY <1>s DEF Seen, Unseen
<1>3. LinksInv'
  <2>1. cost'[start_cell] = 0
    BY <1>b, <1>l
  <2>2. \A c \in Cell : came_from'[c] # NoCell =>
          came_from'[c] \in closed' /\ Drivable(came_from'[c], c)
    BY <1>l, <1>b
  <2>3. \A c \in Cell \ {start_cell} : Seen(c)' => came_from'[c] # NoCell
    BY <1>l, <1>c, <1>e, CellFacts
  <2>4. \A c \in closed' : Seen(c)'
    BY <1>l, <1>c, <1>e, <1>t
  <2>5. \A f \in open' : Seen(f[2])'
    <3> TAKE f \in open'
    <3>1. CASE f \in open
      BY <3>1, <1>l, <1>c, <1>t
    <3>2. CASE f \in {<<e[1] + Step(e[2], d), d>> : d \in Better(e)}
      BY <3>2, <1>b, <1>c
    <3> QED BY <3>1, <3>2
  <2> QED BY <2>1, <2>2, <2>3, <2>4, <2>5, <1>0, <1>k DEF LinksInv
<1>4. FrontierInv'
  <2>0. /\ \A c \in Cell : Seen(c) => c \in closed \/ \E g \in Nat : <<g, c>> \in open
        /\ \A c \in closed : \A d \in Neighbours(c) : Seen(d)
        /\ goal_cell \notin closed
    BY <1>0 DEF IInv, FrontierInv
  <2>1. ASSUME NEW c \in Cell, Seen(c)'
        PROVE  c \in closed' \/ \E g \in Nat : <<g, c>> \in open'
    <3>1. CASE c \in Better(e)
      <4>1. <<e[1] + Step(e[2], c), c>> \in open' /\ e[1] + Step(e[2], c) \in Nat
        BY <3>1, <1>s
      <4> QED BY <4>1
    <3>2. CASE c \notin Better(e) /\ c = e[2]
      BY <3>2
    <3>3. CASE c \notin Better(e) /\ c # e[2]
      <4>1. Seen(c)
        BY <3>3, <2>1, <1>c
      <4>2. ASSUME NEW g \in Nat, <<g, c>> \in open PROVE <<g, c>> \in open'
        BY <4>2, <3>3
      <4> QED BY <4>1, <4>2, <2>0
    <3> QED BY <3>1, <3>2, <3>3
  <2>2. ASSUME NEW c \in closed', NEW d \in Neighbours(c) PROVE Seen(d)'
    <3>0. d \in Cell
      BY DEF Neighbours, Window
    <3>1. CASE c = e[2]
      BY <3>0, <3>1, <1>c DEF Better, Seen
    <3>2. CASE c \in closed
      BY <3>0, <3>2, <2>0, <1>c
    <3> QED BY <3>1, <3>2
  <2>3. goal_cell \notin closed'
    BY <2>0
  <2> QED BY <2>1, <2>2, <2>3, <1>0, <1>k DEF FrontierInv
<1>5. WalkInv' /\ PullInv' /\ RouteIsDrivable' /\ NoneIsUnreachable'
  BY <1>0 DEF WalkInv, PullInv, RouteIsDrivable, NoneIsUnreachable
<1> QED BY <1>1, <1>2, <1>3, <1>4, <1>5 DEF IInv

(* The goal is closed: the walk back begins there.                           *)
LEMMA PopGoalInv == IInv /\ PopGoal => IInv'
<1> SUFFICES ASSUME IInv, PopGoal PROVE IInv'
  OBVIOUS
<1> PICK e \in Smallest :
      /\ e[2] \notin closed /\ e[2] = goal_cell
      /\ closed' = closed \cup {e[2]} /\ open' = open \ {e}
  BY DEF PopGoal
<1>0. /\ TypeOK /\ pc = "search" /\ pc' = "walk" /\ points' = <<goal_cell>>
      /\ UNCHANGED <<blocked, start, goal, start_cell, goal_cell, came_from, cost,
                     out, anchor, index>>
  BY DEF IInv, PopGoal, pull
<1>e. e \in open /\ e[2] \in Cell
  BY <1>0, EntryFacts
<1>k. /\ NearestFree(start)' = NearestFree(start) /\ NearestFree(goal)' = NearestFree(goal)
      /\ \A c, d : Drivable(c, d)' <=> Drivable(c, d)
  BY <1>0, MapKept
<1>1. TypeOK'
  BY <1>0, <1>e DEF TypeOK
<1>2. FreshInv' /\ EndsInv'
  BY <1>0, <1>k DEF IInv, FreshInv, EndsInv
<1>g. Seen(goal_cell)
  BY <1>0, <1>e DEF IInv, LinksInv
<1>3. LinksInv'
  BY <1>0, <1>k, <1>g DEF IInv, LinksInv, Seen
<1>4. WalkInv'
  <2>1. Len(points') = 1 /\ points'[1] = goal_cell
    BY <1>0
  <2> QED BY <1>0, <1>g, <2>1 DEF WalkInv, Seen
<1>5. FrontierInv' /\ PullInv' /\ RouteIsDrivable' /\ NoneIsUnreachable'
  BY <1>0 DEF FrontierInv, PullInv, RouteIsDrivable, NoneIsUnreachable
<1> QED BY <1>1, <1>2, <1>3, <1>4, <1>5 DEF IInv

(* The heap is empty: the closed cells are a region that driving does not    *)
(* leave, with the start in it and the goal outside.                         *)
LEMMA ExhaustedInv == IInv /\ Exhausted => IInv'
<1> SUFFICES ASSUME IInv, Exhausted PROVE IInv'
  OBVIOUS
<1>0. /\ TypeOK /\ pc = "search" /\ pc' = "none" /\ open = {}
      /\ UNCHANGED <<blocked, start, goal, start_cell, goal_cell, open, came_from, cost, closed,
                     points, out, anchor, index>>
  BY DEF IInv, Exhausted, search, pull
<1>k. \A c, d : Drivable(c, d)' <=> Drivable(c, d)
  BY <1>0, MapKept
<1>1. TypeOK'
  BY <1>0 DEF TypeOK
<1>2. FreshInv' /\ EndsInv' /\ LinksInv' /\ FrontierInv' /\ WalkInv' /\ PullInv' /\ RouteIsDrivable'
  BY <1>0 DEF FreshInv, EndsInv, LinksInv, FrontierInv, WalkInv, PullInv, RouteIsDrivable
<1>l. /\ start_cell \in Cell \ blocked /\ cost[start_cell] = 0
      /\ \A c \in Cell : came_from[c] # NoCell => Drivable(came_from[c], c)
      /\ \A c \in Cell \ {start_cell} : Seen(c) => came_from[c] # NoCell
      /\ \A c \in closed : Seen(c)
      /\ \A c \in Cell : Seen(c) => c \in closed
      /\ \A c \in closed : \A d \in Neighbours(c) : Seen(d)
      /\ goal_cell \notin closed /\ closed \subseteq Cell
  BY <1>0 DEF IInv, EndsInv, LinksInv, FrontierInv, TypeOK
<1>3. start_cell \in closed
  BY <1>l DEF Seen, Unseen
<1>4. ASSUME NEW c \in closed, NEW d \in Cell, Drivable(c, d) PROVE d \in closed
  <2>1. c \in Cell \ blocked
    BY <1>4, <1>l DEF Drivable
  <2>2. d \in Neighbours(c)
    BY <1>4, <2>1, NeighboursAreDrivable
  <2> QED BY <2>2, <1>l
<1>5. NoneIsUnreachable'
  <2>1. /\ closed \in SUBSET Cell /\ start_cell' \in closed /\ goal_cell' \notin closed
        /\ \A c \in closed, d \in Cell : Drivable(c, d)' => d \in closed
    BY <1>0, <1>l, <1>3, <1>4, <1>k
  <2> QED BY <2>1 DEF NoneIsUnreachable
<1> QED BY <1>1, <1>2, <1>5 DEF IInv

-----------------------------------------------------------------------------
(* One link back: the new first cell drives to the one before.               *)
LEMMA WalkBackInv == IInv /\ WalkBack => IInv'
<1> SUFFICES ASSUME IInv, WalkBack PROVE IInv'
  OBVIOUS
<1> DEFINE c == came_from[points[1]]
<1>0. /\ TypeOK /\ pc = "walk" /\ pc' = "walk"
      /\ points' = <<came_from[Head(points)]>> \o points
      /\ came_from[Head(points)] # NoCell
      /\ UNCHANGED <<blocked, start, goal, start_cell, goal_cell, open, came_from, cost, closed,
                     out, anchor, index>>
  BY DEF IInv, WalkBack, search, pull
<1>p. /\ points \in Seq(Cell) /\ Len(points) >= 1 /\ Len(points) \in Nat
      /\ points[Len(points)] = goal_cell
      /\ \A i \in 1..(Len(points) - 1) : Drivable(points[i], points[i + 1])
  BY <1>0 DEF IInv, TypeOK, WalkInv
<1>h. Head(points) = points[1] /\ points[1] \in Cell
  BY <1>p
<1>c. c \in Cell /\ c \in closed /\ Drivable(c, points[1]) /\ Seen(c)
  BY <1>0, <1>h DEF IInv, TypeOK, LinksInv
<1>k. /\ NearestFree(start)' = NearestFree(start) /\ NearestFree(goal)' = NearestFree(goal)
      /\ \A a, b : Drivable(a, b)' <=> Drivable(a, b)
  BY <1>0, MapKept
<1> HIDE DEF c
<1>n. points' = <<c>> \o points
  BY <1>0, <1>h DEF c
<1>q. /\ points' \in Seq(Cell) /\ Len(points') = Len(points) + 1 /\ points'[1] = c
      /\ \A i \in 1..Len(points) : points'[i + 1] = points[i]
  BY <1>n, <1>p, <1>c
<1>1. TypeOK'
  BY <1>0, <1>q DEF TypeOK
<1>2. FreshInv' /\ EndsInv' /\ LinksInv'
  BY <1>0, <1>k DEF IInv, FreshInv, EndsInv, LinksInv, Seen
<1>3. WalkInv'
  <2>1. points'[Len(points')] = goal_cell'
    BY <1>0, <1>p, <1>q
  <2>2. ASSUME NEW i \in 1..(Len(points') - 1) PROVE Drivable(points'[i], points'[i + 1])
    <3>1. CASE i = 1
      BY <3>1, <1>c, <1>q, <1>p
    <3>2. CASE i # 1
      <4>1. i - 1 \in 1..(Len(points) - 1) /\ (i - 1) + 1 = i
        BY <3>2, <1>q, <1>p
      <4>2. points'[i] = points[i - 1] /\ points'[i + 1] = points[i]
        BY <4>1, <1>q, <1>p
      <4> QED BY <4>1, <4>2, <1>p
    <3> QED BY <3>1, <3>2
  <2>3. cost'[points'[1]] # Unseen
    BY <1>0, <1>c, <1>q DEF Seen
  <2> QED BY <1>0, <1>k, <1>p, <1>q, <2>1, <2>2, <2>3 DEF WalkInv, Seen
<1>4. FrontierInv' /\ PullInv' /\ RouteIsDrivable' /\ NoneIsUnreachable'
  BY <1>0 DEF FrontierInv, PullInv, RouteIsDrivable, NoneIsUnreachable
<1> QED BY <1>1, <1>2, <1>3, <1>4 DEF IInv

(* The start is reached: a path of one or two cells is the route, a longer   *)
(* one is pulled tight.                                                      *)
LEMMA WalkedBackInv == IInv /\ WalkedBack => IInv'
<1> SUFFICES ASSUME IInv, WalkedBack PROVE IInv'
  OBVIOUS
<1>0. /\ TypeOK /\ pc = "walk" /\ Head(points) = start_cell
      /\ UNCHANGED <<blocked, start, goal, start_cell, goal_cell, open, came_from, cost, closed,
                     points, anchor, index>>
  BY DEF IInv, WalkedBack, search
<1>p. /\ points \in Seq(Cell) /\ Len(points) >= 1 /\ Len(points) \in Nat
      /\ points[Len(points)] = goal_cell /\ points[1] = start_cell
      /\ \A i \in 1..(Len(points) - 1) : Drivable(points[i], points[i + 1])
      /\ anchor = 1 /\ index = 3
      /\ \A i \in 1..Len(points) : points[i] \in Cell
      /\ start_cell \in NearestFree(start) /\ goal_cell \in NearestFree(goal)
  BY <1>0 DEF IInv, TypeOK, WalkInv, FreshInv, EndsInv
<1>k. /\ NearestFree(start)' = NearestFree(start) /\ NearestFree(goal)' = NearestFree(goal)
      /\ \A a, b : Drivable(a, b)' <=> Drivable(a, b)
      /\ \A a, b : MayBeClear(a, b)' <=> MayBeClear(a, b)
  BY <1>0, MapKept
<1>c. \A i \in 1..(Len(points) - 1) : MayBeClear(points[i], points[i + 1])
  <2> TAKE i \in 1..(Len(points) - 1)
  <2>1. points[i] \in Cell /\ points[i + 1] \in Cell /\ Drivable(points[i], points[i + 1])
    BY <1>p
  <2> QED BY <2>1, DrivableIsClear
<1>1. CASE Len(points) < 3
  <2>0. pc' = "done" /\ out' = points
    BY <1>1 DEF WalkedBack
  <2>1. TypeOK'
    BY <1>0, <2>0 DEF TypeOK
  <2>2. FreshInv' /\ EndsInv' /\ LinksInv' /\ FrontierInv' /\ WalkInv' /\ PullInv'
        /\ NoneIsUnreachable'
    BY <2>0 DEF FreshInv, EndsInv, LinksInv, FrontierInv, WalkInv, PullInv, NoneIsUnreachable
  <2>3. RouteIsDrivable'
    BY <1>0, <1>p, <1>k, <1>c, <2>0 DEF RouteIsDrivable
  <2> QED BY <2>1, <2>2, <2>3 DEF IInv
<1>2. CASE ~(Len(points) < 3)
  <2>0. pc' = "simplify" /\ out' = <<points[1]>>
    BY <1>2 DEF WalkedBack
  <2>o. out' \in Seq(Cell) /\ Len(out') = 1 /\ out'[1] = points[1]
    BY <2>0, <1>p
  <2>1. TypeOK'
    BY <1>0, <2>0, <2>o DEF TypeOK
  <2>2. FreshInv' /\ EndsInv'
    BY <1>0, <1>k, <2>0 DEF IInv, FreshInv, EndsInv
  <2>3. WalkInv'
    BY <1>0, <1>p, <1>k, <1>2, <2>0 DEF WalkInv
  <2>4. PullInv'
    <3>1. MayBeClear(points[1], points[2])
      BY <1>c, <1>p, <1>2
    <3>2. \A j \in 2..2 : MayBeClear(points[1], points[j])
      BY <3>1
    <3> QED BY <1>0, <1>p, <1>k, <1>2, <2>0, <2>o, <3>2 DEF PullInv
  <2>5. LinksInv' /\ FrontierInv' /\ RouteIsDrivable' /\ NoneIsUnreachable'
    BY <2>0 DEF LinksInv, FrontierInv, RouteIsDrivable, NoneIsUnreachable
  <2> QED BY <2>1, <2>2, <2>3, <2>4, <2>5 DEF IInv
<1> QED BY <1>1, <1>2

-----------------------------------------------------------------------------
(* What the steps of simplify find.                                          *)
PullContext ==
  /\ points \in Seq(Cell) /\ Len(points) \in Nat /\ Len(points) >= 3
  /\ \A i \in 1..Len(points) : points[i] \in Cell
  /\ points[1] \in NearestFree(start) /\ points[Len(points)] \in NearestFree(goal)
  /\ \A i \in 1..(Len(points) - 1) : Drivable(points[i], points[i + 1])
  /\ \A i \in 1..(Len(points) - 1) : MayBeClear(points[i], points[i + 1])
  /\ anchor \in Nat \ {0} /\ index \in Nat
  /\ anchor + 2 <= index /\ index <= Len(points) + 1
  /\ out \in Seq(Cell) /\ Len(out) \in Nat /\ Len(out) >= 1
  /\ out[1] = points[1] /\ out[Len(out)] = points[anchor]
  /\ \A i \in 1..(Len(out) - 1) : MayBeClear(out[i], out[i + 1])
  /\ \A k \in (anchor + 1)..(index - 1) : MayBeClear(points[anchor], points[k])

(* What is known of the path while it is pulled straight. *)
LEMMA PullFacts == IInv /\ pc = "simplify" => PullContext
<1> SUFFICES ASSUME IInv, pc = "simplify" PROVE PullContext
  OBVIOUS
<1>1. /\ points \in Seq(Cell) /\ Len(points) \in Nat /\ Len(points) >= 3
      /\ \A i \in 1..Len(points) : points[i] \in Cell
      /\ points[1] \in NearestFree(start) /\ points[Len(points)] \in NearestFree(goal)
      /\ \A i \in 1..(Len(points) - 1) : Drivable(points[i], points[i + 1])
  BY DEF IInv, TypeOK, EndsInv, WalkInv
<1>2. \A i \in 1..(Len(points) - 1) : MayBeClear(points[i], points[i + 1])
  <2> TAKE i \in 1..(Len(points) - 1)
  <2>1. points[i] \in Cell /\ points[i + 1] \in Cell /\ Drivable(points[i], points[i + 1])
    BY <1>1
  <2> QED BY <2>1, DrivableIsClear
<1>3. /\ anchor \in Nat \ {0} /\ index \in Nat /\ out \in Seq(Cell) /\ Len(out) \in Nat
  BY DEF IInv, TypeOK
<1> QED BY <1>1, <1>2, <1>3 DEF IInv, PullInv, PullContext

(* A waypoint is appended to the route: it is in sight of the one before.    *)
LEMMA WaypointAppended ==
  ASSUME NEW legs \in Seq(Cell), Len(legs) >= 1, NEW w \in Cell,
         \A i \in 1..(Len(legs) - 1) : MayBeClear(legs[i], legs[i + 1]),
         MayBeClear(legs[Len(legs)], w)
  PROVE  LET longer == Append(legs, w)
         IN  /\ longer \in Seq(Cell) /\ Len(longer) = Len(legs) + 1
             /\ longer[1] = legs[1] /\ longer[Len(longer)] = w
             /\ \A i \in 1..(Len(longer) - 1) : MayBeClear(longer[i], longer[i + 1])
<1> DEFINE longer == Append(legs, w)
<1>1. /\ longer \in Seq(Cell) /\ Len(longer) = Len(legs) + 1 /\ Len(legs) \in Nat
      /\ \A i \in 1..Len(legs) : longer[i] = legs[i]
      /\ longer[Len(legs) + 1] = w
  BY AppendProperties
<1> HIDE DEF longer
<1>2. ASSUME NEW i \in 1..(Len(longer) - 1) PROVE MayBeClear(longer[i], longer[i + 1])
  <2>1. CASE i = Len(legs)
    BY <2>1, <1>1
  <2>2. CASE i # Len(legs)
    <3>1. i \in 1..(Len(legs) - 1) /\ i \in 1..Len(legs) /\ i + 1 \in 1..Len(legs)
      BY <2>2, <1>1
    <3> QED BY <3>1, <1>1
  <2> QED BY <2>1, <2>2
<1>3. longer[1] = legs[1] /\ longer[Len(longer)] = w
  BY <1>1
<1> QED BY <1>1, <1>2, <1>3 DEF longer

(* Pulling the path straight preserves the invariant. *)
LEMMA PullInvariant == IInv /\ (PullOn \/ Corner \/ Pulled) => IInv'
<1> SUFFICES ASSUME IInv, PullOn \/ Corner \/ Pulled PROVE IInv'
  OBVIOUS
<1>0. /\ TypeOK /\ pc = "simplify"
      /\ UNCHANGED <<blocked, start, goal, start_cell, goal_cell, open, came_from, cost, closed,
                     points>>
  BY DEF IInv, PullOn, Corner, Pulled, search
<1>p. PullContext
  BY <1>0, PullFacts
<1>k. /\ NearestFree(start)' = NearestFree(start) /\ NearestFree(goal)' = NearestFree(goal)
      /\ \A a, b : Drivable(a, b)' <=> Drivable(a, b)
      /\ \A a, b : MayBeClear(a, b)' <=> MayBeClear(a, b)
  BY <1>0, MapKept
<1>1. CASE PullOn
  <2>0. /\ pc' = pc /\ out' = out /\ anchor' = anchor /\ index' = index + 1
        /\ index <= Len(points) /\ MayBeClear(points[anchor], points[index])
    BY <1>1 DEF PullOn, ClearFrom
  <2>1. TypeOK'
    BY <1>0, <1>p, <2>0 DEF TypeOK, PullContext
  <2>2. FreshInv' /\ EndsInv' /\ LinksInv' /\ FrontierInv' /\ WalkInv'
        /\ RouteIsDrivable' /\ NoneIsUnreachable'
    BY <1>0, <1>k, <2>0 DEF IInv, FreshInv, EndsInv, LinksInv, FrontierInv, WalkInv,
                            RouteIsDrivable, NoneIsUnreachable
  <2>3. \A j \in (anchor + 1)..index : MayBeClear(points[anchor], points[j])
    <3> TAKE j \in (anchor + 1)..index
    <3>1. j = index \/ j \in (anchor + 1)..(index - 1)
      BY <1>p DEF PullContext
    <3> QED BY <3>1, <2>0, <1>p DEF PullContext
  <2>4. PullInv'
    BY <1>0, <1>p, <1>k, <2>0, <2>3 DEF PullInv, PullContext
  <2> QED BY <2>1, <2>2, <2>4 DEF IInv
<1>2. CASE Corner
  <2>0. /\ pc' = pc /\ anchor' = index - 1 /\ index' = index + 1
        /\ index <= Len(points) /\ out' = Append(out, points[index - 1])
    BY <1>2 DEF Corner
  <2>i. index - 1 \in 1..(Len(points) - 1) /\ index - 1 \in (anchor + 1)..(index - 1)
        /\ index - 1 \in Nat \ {0} /\ (index - 1) + 1 = index
    BY <1>p, <2>0 DEF PullContext
  <2>w. points[index - 1] \in Cell /\ MayBeClear(out[Len(out)], points[index - 1])
        /\ MayBeClear(points[index - 1], points[index])
    <3>1. points[index - 1] \in Cell
      BY <1>p, <2>i DEF PullContext
    <3>2. MayBeClear(points[anchor], points[index - 1])
      BY <1>p, <2>i DEF PullContext
    <3>3. MayBeClear(points[index - 1], points[(index - 1) + 1])
      BY <1>p, <2>i DEF PullContext
    <3> QED BY <1>p, <2>i, <3>1, <3>2, <3>3 DEF PullContext
  <2>o. /\ out' \in Seq(Cell) /\ Len(out') >= 1
        /\ out'[1] = points[1] /\ out'[Len(out')] = points[index - 1]
        /\ \A i \in 1..(Len(out') - 1) : MayBeClear(out'[i], out'[i + 1])
    BY SMTT(30), <1>p, <2>0, <2>w, WaypointAppended DEF PullContext
  <2>1. TypeOK'
    BY <1>0, <1>p, <2>0, <2>i, <2>o DEF TypeOK, PullContext
  <2>2. FreshInv' /\ EndsInv' /\ LinksInv' /\ FrontierInv' /\ WalkInv'
        /\ RouteIsDrivable' /\ NoneIsUnreachable'
    BY <1>0, <1>k, <2>0 DEF IInv, FreshInv, EndsInv, LinksInv, FrontierInv, WalkInv,
                            RouteIsDrivable, NoneIsUnreachable
  <2>3. \A j \in ((index - 1) + 1)..((index + 1) - 1) : MayBeClear(points[index - 1], points[j])
    BY <1>p, <2>w DEF PullContext
  <2>4. PullInv'
    BY <1>p, <1>k, <1>0, <2>0, <2>i, <2>o, <2>3 DEF PullInv, PullContext
  <2> QED BY <2>1, <2>2, <2>4 DEF IInv
<1>3. CASE Pulled
  <2>0. /\ pc' = "done" /\ anchor' = anchor /\ index' = index
        /\ index > Len(points) /\ out' = Append(out, points[Len(points)])
    BY <1>3 DEF Pulled
  <2>i. Len(points) \in 1..Len(points) /\ Len(points) \in (anchor + 1)..(index - 1)
    BY <1>p, <2>0 DEF PullContext
  <2>w. points[Len(points)] \in Cell /\ MayBeClear(out[Len(out)], points[Len(points)])
    BY <1>p, <2>i DEF PullContext
  <2>o. /\ out' \in Seq(Cell) /\ Len(out') >= 1
        /\ out'[1] = points[1] /\ out'[Len(out')] = points[Len(points)]
        /\ \A i \in 1..(Len(out') - 1) : MayBeClear(out'[i], out'[i + 1])
    BY <1>p, <2>0, <2>w, WaypointAppended DEF PullContext
  <2>1. TypeOK'
    BY <1>0, <2>0, <2>o DEF TypeOK
  <2>2. FreshInv' /\ EndsInv' /\ LinksInv' /\ FrontierInv' /\ WalkInv' /\ PullInv'
        /\ NoneIsUnreachable'
    BY <2>0 DEF FreshInv, EndsInv, LinksInv, FrontierInv, WalkInv, PullInv, NoneIsUnreachable
  <2>3. RouteIsDrivable'
    BY <1>0, <1>p, <1>k, <2>0, <2>o DEF RouteIsDrivable, PullContext
  <2> QED BY <2>1, <2>2, <2>3 DEF IInv
<1> QED BY <1>1, <1>2, <1>3

(* A step that changes nothing preserves the invariant. *)
LEMMA StutterInv == IInv /\ UNCHANGED vars => IInv'
<1> SUFFICES ASSUME IInv, UNCHANGED vars PROVE IInv'
  OBVIOUS
<1>0. /\ UNCHANGED <<blocked, start, goal, pc, start_cell, goal_cell, open, came_from, cost,
                     closed, points, out, anchor, index>>
  BY DEF vars, search, pull
<1>k. /\ \A c : NearestFree(c)' = NearestFree(c)
      /\ \A c : Neighbours(c)' = Neighbours(c)
      /\ \A a, b : Drivable(a, b)' <=> Drivable(a, b)
      /\ \A a, b : MayBeClear(a, b)' <=> MayBeClear(a, b)
  BY <1>0, MapKept
<1>1. TypeOK' /\ FreshInv' /\ EndsInv'
  BY <1>0, <1>k DEF IInv, TypeOK, FreshInv, EndsInv, Seen
<1>2. LinksInv' /\ FrontierInv'
  BY <1>0, <1>k DEF IInv, LinksInv, FrontierInv, Seen
<1>3. WalkInv' /\ PullInv'
  BY <1>0, <1>k DEF IInv, WalkInv, PullInv, Seen
<1>4. RouteIsDrivable' /\ NoneIsUnreachable'
  BY <1>0, <1>k DEF IInv, RouteIsDrivable, NoneIsUnreachable
<1> QED BY <1>1, <1>2, <1>3, <1>4 DEF IInv

(* Every step preserves the invariant. *)
LEMMA NextInv == IInv /\ [Next]_vars => IInv'
<1> SUFFICES ASSUME IInv, [Next]_vars PROVE IInv'
  OBVIOUS
<1>1. CASE NoEnd \/ AlreadyThere \/ Begin
  BY <1>1, BeginInv
<1>2. CASE PopStale \/ Expand \/ PopGoal \/ Exhausted
  BY <1>2, PopStaleInv, ExpandInv, PopGoalInv, ExhaustedInv
<1>3. CASE WalkBack \/ WalkedBack
  BY <1>3, WalkBackInv, WalkedBackInv
<1>4. CASE PullOn \/ Corner \/ Pulled
  BY <1>4, PullInvariant
<1>5. CASE UNCHANGED vars
  BY <1>5, StutterInv
<1> QED BY <1>1, <1>2, <1>3, <1>4, <1>5 DEF Next, Search, Route, Returned

-----------------------------------------------------------------------------
(* The inductive invariant holds of every run of plan().                     *)
THEOREM Invariance == Spec => []IInv
<1> QED BY InitInv, NextInv, PTL DEF Spec

(* The planner's variables keep their types; in particular every cell it     *)
(* indexes the grid with is on it.                                           *)
THEOREM TypeCorrect == Spec => []TypeOK
<1>1. IInv => TypeOK
  BY DEF IInv
<1> QED BY <1>1, Invariance, PTL

(* A route that is returned can be driven, on every map: its grid path by    *)
(* moves A* may make, its legs by _line_is_clear.                            *)
THEOREM RoutesAreDrivable == Spec => []RouteIsDrivable
<1>1. IInv => RouteIsDrivable
  BY DEF IInv
<1> QED BY <1>1, Invariance, PTL

(* None is returned only when there is no way, whatever the order in which   *)
(* the heap gives up equal entries.                                          *)
THEOREM NoneMeansNoWay == Spec => []NoneIsUnreachable
<1>1. IInv => NoneIsUnreachable
  BY DEF IInv
<1> QED BY <1>1, Invariance, PTL

(* The walk back never looks up a cell that has no link (a KeyError).        *)
THEOREM NoMissingLink ==
  Spec => [](pc = "walk" /\ Head(points) # start_cell => came_from[Head(points)] # NoCell)
<1>1. IInv => (pc = "walk" /\ Head(points) # start_cell => came_from[Head(points)] # NoCell)
  <2> SUFFICES ASSUME IInv, pc = "walk", Head(points) # start_cell
               PROVE  came_from[Head(points)] # NoCell
    OBVIOUS
  <2>1. Head(points) = points[1] /\ points[1] \in Cell /\ Seen(points[1])
    BY DEF IInv, TypeOK, WalkInv
  <2> QED BY <2>1 DEF IInv, LinksInv
<1> QED BY <1>1, Invariance, PTL

-----------------------------------------------------------------------------
(* Induction and recursion over the numbers of an interval.                  *)

(* A set of natural numbers has a least one.                                 *)
LEMMA LeastExists ==
  ASSUME NEW S \in SUBSET Nat, S # {}
  PROVE  \E x \in S : \A y \in S : x <= y
  <1>. DEFINE T == {1..n : n \in S}
              R == StrictSubsetOrdering(Nat)
  <1>1. T \subseteq FiniteSubsetsOf(Nat) /\ T # {}
    <2>1. \A n \in Nat : 1..n \in SUBSET Nat /\ IsFiniteSet(1..n)
      BY FS_Interval
    <2>2. \A n \in S : 1..n \in FiniteSubsetsOf(Nat)
      BY <2>1 DEF FiniteSubsetsOf
    <2>. QED  BY <2>2
  <1>2. IsWellFoundedOn(R, FiniteSubsetsOf(Nat))
    BY FS_StrictSubsetOrderingWellFounded
  <1>3. PICK i \in T : \A j \in T : ~ (<<j, i>> \in R)
    <2>. HIDE DEF T, R
    <2>. QED  BY <1>1, <1>2, WFMin
  <1>4. PICK x \in S : i = 1..x
    OBVIOUS
  <1>5. ASSUME NEW y \in S PROVE x <= y
    <2> SUFFICES ASSUME y < x PROVE FALSE
      OBVIOUS
    <2>1. 1..y \subseteq 1..x /\ 1..y # 1..x
      <3>1. x \in 1..x /\ x \notin 1..y
        OBVIOUS
      <3>. QED  BY <3>1
    <2>2. <<1..y, i>> \in R
      BY <1>4, <2>1 DEF StrictSubsetOrdering
    <2>. QED  BY <2>2, <1>3
  <1>. QED  BY <1>5

(* What holds at the lower end of an interval, and with a number of the next *)
(* one, holds in all of it.                                                  *)
LEMMA IntervalInduction ==
  ASSUME NEW lo \in Int, NEW hi \in Int, NEW S, lo \in S,
         \A i \in lo..(hi - 1) : i \in S => i + 1 \in S
  PROVE  lo..hi \subseteq S
  <1> SUFFICES ASSUME NEW bad \in lo..hi, bad \notin S PROVE FALSE
    OBVIOUS
  <1>. DEFINE T == {n \in Nat : lo + n \in lo..hi /\ lo + n \notin S}
  <1>1. bad - lo \in T
    OBVIOUS
  <1>2. PICK x \in T : \A y \in T : x <= y
    BY <1>1, LeastExists
  <1>3. x # 0 /\ x - 1 \in Nat /\ x - 1 \notin T
    BY <1>2
  <1>4. lo + (x - 1) \in lo..(hi - 1) /\ lo + (x - 1) \in S
    BY <1>2, <1>3
  <1>5. (lo + (x - 1)) + 1 = lo + x
    BY <1>2
  <1>. QED  BY <1>2, <1>4, <1>5

(* f on lo..hi is first at lo, and each value follows from the one before.   *)
Follows(f, lo, hi, A, first, step) ==
  f \in [lo..hi -> A] /\ \A i \in lo..hi : f[i] = IF i = lo THEN first ELSE step[<<f[i - 1], i>>]

(* There is such a function.                                                 *)
LEMMA RecursionExists ==
  ASSUME NEW lo \in Int, NEW hi \in Int, NEW A, NEW first \in A, NEW step \in [A \X Int -> A]
  PROVE  \E f : Follows(f, lo, hi, A, first, step)
  <1>. DEFINE Fits(f, n) == \A i \in lo..n : f[i] = IF i = lo THEN first ELSE step[<<f[i - 1], i>>]
              S == {n \in Int : \E f \in [lo..n -> A] : Fits(f, n)}
  <1>1. CASE hi < lo
    <2>1. lo..hi = {}
      BY <1>1
    <2>2. [i \in lo..hi |-> first] \in [lo..hi -> A]
      OBVIOUS
    <2>. QED  BY <2>1, <2>2 DEF Follows
  <1>2. CASE lo <= hi
    <2>1. lo \in S
      <3>1. [i \in lo..lo |-> first] \in [lo..lo -> A] /\ Fits([i \in lo..lo |-> first], lo)
        OBVIOUS
      <3>. QED  BY <3>1, Zenon
    <2>2. ASSUME NEW n \in lo..(hi - 1), n \in S PROVE n + 1 \in S
      <3>1. PICK f \in [lo..n -> A] : Fits(f, n)
        BY <2>2
      <3>. DEFINE g == [i \in lo..(n + 1) |-> IF i = n + 1 THEN step[<<f[n], n + 1>>] ELSE f[i]]
      <3>2. n \in lo..n /\ <<f[n], n + 1>> \in A \X Int
        OBVIOUS
      <3>3. g \in [lo..(n + 1) -> A]
        BY <3>2
      <3>4. ASSUME NEW i \in lo..(n + 1)
            PROVE  g[i] = IF i = lo THEN first ELSE step[<<g[i - 1], i>>]
        <4>1. CASE i = n + 1
          <5>1. i - 1 = n /\ g[i - 1] = f[n] /\ i # lo
            BY <4>1, <3>2
          <5>. QED  BY <5>1, <4>1
        <4>2. CASE i # n + 1
          <5>1. i \in lo..n /\ g[i] = f[i] /\ (i # lo => g[i - 1] = f[i - 1])
            BY <4>2
          <5>. QED  BY <5>1, <3>1
        <4>. QED  BY <4>1, <4>2
      <3>. HIDE DEF g
      <3>5. n + 1 \in Int
        OBVIOUS
      <3>6. \E e \in [lo..(n + 1) -> A] : Fits(e, n + 1)
        BY <3>3, <3>4
      <3>. QED  BY <3>5, <3>6
    <2>. HIDE DEF S
    <2>3. lo..hi \subseteq S
      BY <2>1, <2>2, IntervalInduction
    <2>. QED  BY <2>3, <1>2 DEF S, Follows
  <1>. QED  BY <1>1, <1>2

-----------------------------------------------------------------------------
(* Shortest routes.                                                          *)

(* What the entries of the heap, the costs and the closed cells have to do   *)
(* with each other while the search goes on: no entry is below the cost of   *)
(* its cell, a cell seen is closed or waits with its cost, no closed cell    *)
(* comes after an entry in the order of the heap, and around a closed cell   *)
(* nothing can be improved from it.                                          *)
HeapInv ==
  pc = "search" =>
    /\ \A e \in open : cost[e[2]] <= e[1]
    /\ \A c \in Cell : Seen(c) => c \in closed \/ <<cost[c], c>> \in open
    /\ \A c \in closed : \A e \in open : cost[c] + Heuristic(c) <= e[1] + Heuristic(e[2])
    /\ \A c \in closed : \A d \in Neighbours(c) : cost[d] <= cost[c] + Step(c, d)

(* A cell's cost is its link's and the move from there.                      *)
LinkCostInv ==
  pc \in {"search", "walk"} =>
    \A c \in Cell \ {start_cell} : Seen(c) => cost[c] = cost[came_from[c]] + Step(came_from[c], c)

(* Once the goal is popped, nothing can be improved around the cells that    *)
(* come before it.                                                           *)
GoalInv ==
  pc = "walk" =>
    \A c \in Cell : Seen(c) /\ cost[c] + Heuristic(c) < cost[goal_cell] =>
      \A d \in Neighbours(c) : Seen(d) /\ cost[d] <= cost[c] + Step(c, d)

(* The path walked back so far grows dearer by its moves, and comes before   *)
(* the goal in the order of the heap.                                        *)
TightInv ==
  pc = "walk" =>
    /\ \A i \in 1..Len(points) :
         Seen(points[i]) /\ cost[points[i]] + Heuristic(points[i]) <= cost[goal_cell]
    /\ \A i \in 1..(Len(points) - 1) : cost[points[i + 1]] = cost[points[i]] + Step(points[i], points[i + 1])
    /\ \A i \in 1..Len(points), k \in 1..Len(points) : i < k => cost[points[i]] < cost[points[k]]

OptimalInv == HeapInv /\ LinkCostInv /\ GoalInv /\ TightInv

-----------------------------------------------------------------------------
(* The octile distance is a number, and 0 at the goal.                       *)
LEMMA HeuristicFacts ==
  ASSUME goal_cell \in Cell, NEW c \in Cell
  PROVE  Heuristic(c) \in Nat /\ Heuristic(goal_cell) = 0
  <1>1. DX(c, goal_cell) \in Nat /\ DY(c, goal_cell) \in Nat
    BY CellFacts, SizeAssumption DEF DX, DY, Gap
  <1>2. DX(goal_cell, goal_cell) = 0 /\ DY(goal_cell, goal_cell) = 0
    BY CellFacts, SizeAssumption DEF DX, DY, Gap
  <1>3. Heuristic(goal_cell) = 0
    BY <1>2 DEF Heuristic, Straight, Diagonal
  <1>4. Heuristic(c) \in Nat
    BY <1>1 DEF Heuristic, Straight, Diagonal
  <1>. QED  BY <1>3, <1>4

(* It is consistent: a move costs no less than it brings the goal nearer.    *)
LEMMA HeuristicConsistent ==
  ASSUME goal_cell \in Cell, NEW c \in Cell, NEW d \in Cell, Drivable(c, d)
  PROVE  Heuristic(c) <= Step(c, d) + Heuristic(d)
  <1>1. /\ c[1] \in Int /\ c[2] \in Int /\ d[1] \in Int /\ d[2] \in Int
        /\ goal_cell[1] \in Int /\ goal_cell[2] \in Int
    BY CellFacts, SizeAssumption
  <1>2. c[1] - d[1] \in {-1, 0, 1} /\ c[2] - d[2] \in {-1, 0, 1}
    BY <1>1 DEF Drivable, DX, DY, Gap
  <1>3. /\ DX(c, goal_cell) \in Nat /\ DY(c, goal_cell) \in Nat
        /\ DX(d, goal_cell) \in Nat /\ DY(d, goal_cell) \in Nat
    BY <1>1 DEF DX, DY, Gap
  <1>4. /\ DX(c, goal_cell) - DX(d, goal_cell) \in {-1, 0, 1}
        /\ c[1] = d[1] => DX(c, goal_cell) = DX(d, goal_cell)
    BY <1>1, <1>2 DEF DX, Gap
  <1>5. /\ DY(c, goal_cell) - DY(d, goal_cell) \in {-1, 0, 1}
        /\ c[2] = d[2] => DY(c, goal_cell) = DY(d, goal_cell)
    BY <1>1, <1>2 DEF DY, Gap
  <1>. QED  BY <1>3, <1>4, <1>5 DEF Heuristic, Step, Straight, Diagonal

(* A move has a length.                                                      *)
LEMMA StepFacts == \A c, d : Step(c, d) \in Nat /\ Step(c, d) > 0
  BY DEF Step, Straight, Diagonal

(* What the invariants so far say of a search under way.                     *)
LEMMA SearchFacts ==
  ASSUME IInv, pc \in {"search", "walk"}
  PROVE  /\ start_cell \in Cell \ blocked /\ goal_cell \in Cell \ blocked /\ cost[start_cell] = 0
         /\ cost \in [Cell -> Nat \cup {Unseen}] /\ came_from \in [Cell -> Cell \cup {NoCell}]
         /\ closed \subseteq Cell /\ open \subseteq Nat \X Cell /\ points \in Seq(Cell)
         /\ \A c \in Cell : Seen(c) => cost[c] \in Nat
         /\ \A e \in open : Seen(e[2])
         /\ \A c \in closed : Seen(c)
         /\ \A c \in Cell \ {start_cell} :
              Seen(c) => /\ came_from[c] \in closed /\ Drivable(came_from[c], c)
  BY DEF IInv, TypeOK, EndsInv, LinksInv, Seen

(* A neighbour is a cell, and can be driven to.                              *)
LEMMA NeighbourFacts ==
  ASSUME NEW c \in Cell \ blocked, NEW d \in Neighbours(c)
  PROVE  d \in Cell /\ d # c /\ Drivable(c, d)
  <1>1. d \in Cell /\ d # c
    BY DEF Neighbours, Window
  <1>. QED  BY <1>1, NeighboursAreDrivable

(* Where no search is under way, there is nothing to say.                    *)
LEMMA OptimalElsewhere ==
  ASSUME pc' \notin {"search", "walk"}
  PROVE  OptimalInv'
  BY DEF OptimalInv, HeapInv, LinkCostInv, GoalInv, TightInv

(* The search begins with the start alone.                                   *)
LEMMA BeginOptimal == IInv /\ Begin => OptimalInv'
  <1> SUFFICES ASSUME IInv, Begin PROVE OptimalInv'
    OBVIOUS
  <1> PICK s \in NearestFree(start), g \in NearestFree(goal) :
        /\ s # g /\ start_cell' = s /\ goal_cell' = g
        /\ open' = {<<0, s>>} /\ cost' = [cost EXCEPT ![s] = 0]
    BY DEF Begin
  <1>0. /\ TypeOK /\ pc = "begin" /\ pc' = "search"
        /\ closed' = {} /\ \A c \in Cell : cost[c] = Unseen
    BY DEF IInv, Begin, FreshInv, Seen
  <1>1. s \in Cell /\ g \in Cell
    BY <1>0, NearestFreeIsFree DEF TypeOK
  <1>2. cost'[s] = 0 /\ \A c \in Cell \ {s} : cost'[c] = Unseen
    BY <1>0, <1>1 DEF TypeOK
  <1>3. Heuristic(s)' \in Nat
    <2>1. DX(s, g) \in Nat /\ DY(s, g) \in Nat
      BY <1>1, CellFacts, SizeAssumption DEF DX, DY, Gap
    <2>. QED  BY <2>1 DEF Heuristic, Straight, Diagonal
  <1>4. HeapInv'
    BY <1>0, <1>1, <1>2, <1>3 DEF HeapInv, Seen
  <1>5. LinkCostInv' /\ GoalInv' /\ TightInv'
    BY <1>0, <1>2 DEF LinkCostInv, GoalInv, TightInv, Seen
  <1>. QED  BY <1>4, <1>5 DEF OptimalInv

(* A stale entry leaves the heap: its cell is closed.                        *)
LEMMA PopStaleOptimal == IInv /\ OptimalInv /\ PopStale => OptimalInv'
  <1> SUFFICES ASSUME IInv, OptimalInv, PopStale PROVE OptimalInv'
    OBVIOUS
  <1> PICK e \in Smallest : e[2] \in closed /\ open' = open \ {e}
    BY DEF PopStale
  <1>0. /\ pc = "search" /\ pc' = "search"
        /\ UNCHANGED <<blocked, start, goal, start_cell, goal_cell, came_from, cost, closed, points>>
    BY DEF PopStale
  <1>1. (\A c : Heuristic(c)' = Heuristic(c)) /\ \A c : Neighbours(c)' = Neighbours(c)
    BY <1>0, MapKept DEF Heuristic
  <1>2. HeapInv'
    <2>1. \A c \in Cell, n \in Nat : <<n, c>> \in open => c \in closed \/ <<n, c>> \in open'
      OBVIOUS
    <2>. QED  BY <1>0, <1>1, <2>1, SearchFacts DEF OptimalInv, HeapInv, Seen
  <1>3. LinkCostInv' /\ GoalInv' /\ TightInv'
    BY <1>0 DEF OptimalInv, LinkCostInv, GoalInv, TightInv, Seen
  <1>. QED  BY <1>2, <1>3 DEF OptimalInv

(* A cell is expanded.  Its entry has its cost, for an older one would not   *)
(* be the smallest; and what is closed cannot be improved, for the heuristic *)
(* is consistent.                                                            *)
LEMMA ExpandOptimal == IInv /\ OptimalInv /\ Expand => OptimalInv'
  <1> SUFFICES ASSUME IInv, OptimalInv, Expand PROVE OptimalInv'
    OBVIOUS
  <1> PICK e \in Smallest :
        /\ e[2] \notin closed /\ e[2] # goal_cell
        /\ closed' = closed \cup {e[2]}
        /\ cost' = [d \in Cell |-> IF d \in Better(e) THEN e[1] + Step(e[2], d) ELSE cost[d]]
        /\ came_from' = [d \in Cell |-> IF d \in Better(e) THEN e[2] ELSE came_from[d]]
        /\ open' = (open \ {e}) \cup {<<e[1] + Step(e[2], d), d>> : d \in Better(e)}
    BY DEF Expand
  <1>0. /\ pc = "search" /\ pc' = "search" /\ TypeOK
        /\ UNCHANGED <<blocked, start, goal, start_cell, goal_cell, points>>
    BY DEF IInv, Expand
  <1>e. e \in open /\ e[1] \in Nat /\ e[2] \in Cell /\ e = <<e[1], e[2]>>
    BY <1>0, EntryFacts
  <1>k. (\A c : Heuristic(c)' = Heuristic(c)) /\ \A c : Neighbours(c)' = Neighbours(c)
    BY <1>0, MapKept DEF Heuristic
  <1>s. /\ start_cell \in Cell /\ goal_cell \in Cell /\ cost[start_cell] = 0
        /\ cost \in [Cell -> Nat \cup {Unseen}] /\ came_from \in [Cell -> Cell \cup {NoCell}]
        /\ closed \subseteq Cell /\ open \subseteq Nat \X Cell
        /\ \A c \in Cell : Seen(c) => cost[c] \in Nat
        /\ \A f \in open : Seen(f[2])
        /\ \A c \in closed : Seen(c)
        /\ \A c \in Cell \ {start_cell} : Seen(c) => came_from[c] \in closed /\ Drivable(came_from[c], c)
    BY <1>0, SearchFacts
  <1>h. \A c \in Cell : Heuristic(c) \in Nat
    BY <1>s, HeuristicFacts
  <1>p. /\ \A f \in open : cost[f[2]] <= f[1]
        /\ \A c \in Cell : Seen(c) => c \in closed \/ <<cost[c], c>> \in open
        /\ \A c \in closed : \A f \in open : cost[c] + Heuristic(c) <= f[1] + Heuristic(f[2])
        /\ \A c \in closed : \A d \in Neighbours(c) : cost[d] <= cost[c] + Step(c, d)
        /\ \A c \in Cell \ {start_cell} : Seen(c) => cost[c] = cost[came_from[c]] + Step(came_from[c], c)
    BY <1>0 DEF OptimalInv, HeapInv, LinkCostInv
  <1>m. \A f \in open : e[1] + Heuristic(e[2]) <= f[1] + Heuristic(f[2])
    BY DEF Smallest
  <1>1. e[1] = cost[e[2]] /\ Seen(e[2])
    <2>1. Seen(e[2]) /\ cost[e[2]] \in Nat /\ cost[e[2]] <= e[1]
      BY <1>e, <1>s, <1>p
    <2>2. <<cost[e[2]], e[2]>> \in open
      BY <2>1, <1>e, <1>p
    <2>3. e[1] + Heuristic(e[2]) <= cost[e[2]] + Heuristic(e[2])
      BY <2>2, <1>m
    <2>. QED  BY <2>1, <2>3, <1>e, <1>h
  <1>b. \A d \in Better(e) :
          /\ d \in Cell /\ d # e[2] /\ Drivable(e[2], d)
          /\ cost[d] = Unseen \/ e[1] + Step(e[2], d) < cost[d]
    <2>1. e[2] \notin blocked
      <3>1. CASE e[2] = start_cell
        BY <3>1, <1>0, SearchFacts
      <3>2. CASE e[2] # start_cell
        BY <3>2, <1>1, <1>s, <1>e DEF Drivable
      <3>. QED  BY <3>1, <3>2
    <2>. QED  BY <2>1, <1>e, NeighbourFacts DEF Better
  <1>t. \A d \in Cell : /\ Step(e[2], d) \in Nat /\ e[1] + Step(e[2], d) \in Nat
                         /\ e[1] + Step(e[2], d) > 0
    BY <1>e, StepFacts
  <1>c. \A d \in closed' : d \notin Better(e)
    <2> SUFFICES ASSUME NEW d \in closed, d \in Better(e) PROVE FALSE
      BY <1>b
    <2>1. d \in Cell /\ Drivable(e[2], d) /\ cost[d] \in Nat
      BY <1>b, <1>s
    <2>2. e[1] + Step(e[2], d) < cost[d]
      BY <1>b, <2>1 DEF Unseen
    <2>3. cost[d] + Heuristic(d) <= e[1] + Heuristic(e[2])
      BY <1>p, <1>e
    <2>4. Heuristic(e[2]) <= Step(e[2], d) + Heuristic(d)
      BY <2>1, <1>s, <1>e, HeuristicConsistent
    <2>. QED  BY <2>1, <2>2, <2>3, <2>4, <1>e, <1>t, <1>h
  <1>d. /\ \A c \in closed' : cost'[c] = cost[c] /\ c \in Cell /\ Seen(c) /\ cost[c] \in Nat
        /\ \A c \in Cell : Seen(c)' <=> Seen(c) \/ c \in Better(e)
        /\ \A c \in Cell : Seen(c) => cost'[c] <= cost[c] /\ cost'[c] \in Nat
        /\ \A d \in Better(e) : cost'[d] = e[1] + Step(e[2], d)
    <2>1. \A c \in closed' : cost'[c] = cost[c] /\ c \in Cell /\ Seen(c) /\ cost[c] \in Nat
      BY <1>c, <1>s, <1>1, <1>e
    <2>2. \A c \in Cell : Seen(c)' <=> Seen(c) \/ c \in Better(e)
      BY <1>t DEF Seen, Unseen
    <2>3. \A c \in Cell : Seen(c) => cost'[c] <= cost[c] /\ cost'[c] \in Nat
      BY <1>t, <1>b, <1>s DEF Seen
    <2>4. \A d \in Better(e) : cost'[d] = e[1] + Step(e[2], d)
      BY <1>b
    <2>. QED  BY <2>1, <2>2, <2>3, <2>4
  <1>f. \A f \in open' : \/ f \in open
                         \/ \E d \in Better(e) : f[1] = e[1] + Step(e[2], d) /\ f[2] = d
    OBVIOUS
  <1>g. \A f \in open' : f[1] \in Nat /\ f[2] \in Cell /\ Heuristic(f[2]) \in Nat
    BY <1>f, <1>s, <1>t, <1>b, <1>h
  <1>o. \A f \in open' : e[1] + Heuristic(e[2]) <= f[1] + Heuristic(f[2])
    <2> TAKE f \in open'
    <2>1. CASE f \in open
      BY <2>1, <1>m
    <2>2. ASSUME NEW d \in Better(e), f[1] = e[1] + Step(e[2], d), f[2] = d
          PROVE  e[1] + Heuristic(e[2]) <= f[1] + Heuristic(f[2])
      <3>1. d \in Cell /\ Heuristic(e[2]) <= Step(e[2], d) + Heuristic(d)
        BY <1>b, <1>s, <1>e, HeuristicConsistent
      <3>. QED  BY <3>1, <2>2, <1>e, <1>t, <1>h
    <2>. QED  BY <2>1, <2>2, <1>f
  <1>2. HeapInv'
    <2>1. \A f \in open' : cost'[f[2]] <= f[1]
      <3> TAKE f \in open'
      <3>1. CASE f \in open
        <4>1. cost[f[2]] <= f[1] /\ cost'[f[2]] <= cost[f[2]] /\ cost'[f[2]] \in Nat
          BY <3>1, <1>p, <1>s, <1>d, <1>g
        <4>. QED  BY <4>1, <3>1, <1>s, <1>g
      <3>2. ASSUME NEW d \in Better(e), f[1] = e[1] + Step(e[2], d), f[2] = d
            PROVE  cost'[f[2]] <= f[1]
        BY <3>2, <1>d, <1>t, <1>b
      <3>. QED  BY <3>1, <3>2, <1>f
    <2>2. \A c \in Cell : Seen(c)' => c \in closed' \/ <<cost'[c], c>> \in open'
      <3> SUFFICES ASSUME NEW c \in Cell, Seen(c)', c \notin closed' PROVE <<cost'[c], c>> \in open'
        OBVIOUS
      <3>1. CASE c \in Better(e)
        BY <3>1, <1>d
      <3>2. CASE c \notin Better(e)
        BY <3>2, <1>d, <1>p
      <3>. QED  BY <3>1, <3>2
    <2>3. \A c \in closed' : \A f \in open' : cost'[c] + Heuristic(c) <= f[1] + Heuristic(f[2])
      <3> TAKE c \in closed'
      <3> TAKE f \in open'
      <3>1. cost'[c] + Heuristic(c) <= e[1] + Heuristic(e[2])
        BY <1>d, <1>p, <1>1, <1>e, <1>h
      <3>2. e[1] + Heuristic(e[2]) <= f[1] + Heuristic(f[2])
        BY <1>o
      <3>3. cost'[c] \in Nat /\ Heuristic(c) \in Nat /\ Heuristic(e[2]) \in Nat
        BY <1>d, <1>e, <1>h
      <3>4. f[1] \in Nat /\ Heuristic(f[2]) \in Nat
        BY <1>g
      <3>. QED  BY <3>1, <3>2, <3>3, <3>4, <1>e
    <2>4. \A c \in closed' : \A d \in Neighbours(c) : cost'[d] <= cost'[c] + Step(c, d)
      <3> TAKE c \in closed'
      <3> TAKE d \in Neighbours(c)
      <3>0. d \in Cell
        BY DEF Neighbours, Window
      <3>1. CASE c = e[2]
        <4>1. CASE d \in Better(e)
          BY <3>1, <4>1, <1>1, <1>d, <1>t, <3>0
        <4>2. CASE d \notin Better(e)
          BY <3>0, <3>1, <4>2, <1>1, <1>d, <1>t, <1>s DEF Better, Seen
        <4>. QED  BY <4>1, <4>2
      <3>2. CASE c \in closed
        <4>1. cost[d] <= cost[c] + Step(c, d) /\ Seen(d) /\ cost'[d] <= cost[d]
              /\ cost'[d] \in Nat /\ cost[d] \in Nat
          BY <3>0, <3>2, <1>0, <1>p, <1>d, <1>s DEF IInv, FrontierInv
        <4>. QED  BY <4>1, <1>d, StepFacts
      <3>. QED  BY <3>1, <3>2
    <2>. QED  BY <2>1, <2>2, <2>3, <2>4, <1>0, <1>k DEF HeapInv
  <1>3. LinkCostInv'
    <2>1. ASSUME NEW c \in Cell \ {start_cell}, Seen(c)'
          PROVE  cost'[c] = cost'[came_from'[c]] + Step(came_from'[c], c)
      <3>1. CASE c \in Better(e)
        BY <3>1, <1>d, <1>1
      <3>2. CASE c \notin Better(e)
        <4>1. Seen(c) /\ came_from'[c] = came_from[c] /\ cost'[c] = cost[c]
          BY <3>2, <2>1, <1>d
        <4>2. came_from[c] \in closed
          BY <4>1, <1>s
        <4>. QED  BY <4>1, <4>2, <1>d, <1>p
      <3>. QED  BY <3>1, <3>2
    <2>. QED  BY <2>1, <1>0 DEF LinkCostInv
  <1>4. GoalInv' /\ TightInv'
    BY <1>0 DEF GoalInv, TightInv
  <1>. QED  BY <1>2, <1>3, <1>4 DEF OptimalInv

(* The goal is the smallest entry: what comes before it is closed.           *)
LEMMA PopGoalOptimal == IInv /\ OptimalInv /\ PopGoal => OptimalInv'
  <1> SUFFICES ASSUME IInv, OptimalInv, PopGoal PROVE OptimalInv'
    OBVIOUS
  <1> PICK e \in Smallest : e[2] \notin closed /\ e[2] = goal_cell
    BY DEF PopGoal
  <1>0. /\ TypeOK /\ pc = "search" /\ pc' = "walk" /\ points' = <<goal_cell>>
        /\ UNCHANGED <<blocked, start, goal, start_cell, goal_cell, came_from, cost>>
    BY DEF IInv, PopGoal
  <1>e. e \in open /\ e[1] \in Nat /\ e[2] \in Cell
    BY <1>0, EntryFacts
  <1>k. (\A c : Heuristic(c)' = Heuristic(c)) /\ \A c : Neighbours(c)' = Neighbours(c)
    BY <1>0, MapKept DEF Heuristic
  <1>s. /\ start_cell \in Cell /\ goal_cell \in Cell
        /\ \A c \in Cell : Seen(c) => cost[c] \in Nat
        /\ \A f \in open : Seen(f[2])
    BY <1>0, SearchFacts
  <1>h. Heuristic(goal_cell) = 0 /\ \A c \in Cell : Heuristic(c) \in Nat
    BY <1>s, HeuristicFacts
  <1>p. /\ \A f \in open : cost[f[2]] <= f[1]
        /\ \A c \in Cell : Seen(c) => c \in closed \/ <<cost[c], c>> \in open
        /\ \A c \in closed : \A d \in Neighbours(c) : cost[d] <= cost[c] + Step(c, d)
    BY <1>0 DEF OptimalInv, HeapInv
  <1>m. \A f \in open : e[1] + Heuristic(e[2]) <= f[1] + Heuristic(f[2])
    BY DEF Smallest
  <1>1. e[1] = cost[goal_cell] /\ Seen(goal_cell)
    <2>1. Seen(goal_cell) /\ cost[goal_cell] \in Nat /\ cost[goal_cell] <= e[1]
      BY <1>e, <1>s, <1>p
    <2>2. <<cost[goal_cell], goal_cell>> \in open
      BY <2>1, <1>s, <1>p
    <2>3. e[1] + Heuristic(goal_cell) <= cost[goal_cell] + Heuristic(goal_cell)
      BY <2>2, <1>m
    <2>. QED  BY <2>1, <2>3, <1>e, <1>h
  <1>2. GoalInv'
    <2>1. ASSUME NEW c \in Cell, Seen(c), cost[c] + Heuristic(c) < cost[goal_cell], NEW d \in Neighbours(c)
          PROVE  Seen(d) /\ cost[d] <= cost[c] + Step(c, d)
      <3>1. c \in closed
        <4> SUFFICES ASSUME c \notin closed PROVE FALSE
          OBVIOUS
        <4>1. e[1] + Heuristic(goal_cell) <= cost[c] + Heuristic(c)
          BY <2>1, <1>p, <1>m
        <4>2. cost[c] \in Nat /\ Heuristic(c) \in Nat
          BY <2>1, <1>s, <1>h
        <4>. QED  BY <4>1, <4>2, <2>1, <1>1, <1>e, <1>h
      <3>. QED  BY <3>1, <1>0, <1>p DEF IInv, FrontierInv
    <2>. QED  BY <2>1, <1>0, <1>k DEF GoalInv, Seen
  <1>3. TightInv'
    <2>1. Len(points') = 1 /\ points'[1] = goal_cell
      BY <1>0
    <2>2. cost[goal_cell] \in Nat
      BY <1>1, <1>s
    <2>. QED  BY <2>1, <2>2, <1>0, <1>1, <1>h, <1>k DEF TightInv, Seen
  <1>4. HeapInv' /\ LinkCostInv'
    BY <1>0 DEF OptimalInv, HeapInv, LinkCostInv, Seen
  <1>. QED  BY <1>2, <1>3, <1>4 DEF OptimalInv

(* One link back: the new first cell is cheaper by the move from it.         *)
LEMMA WalkBackOptimal == IInv /\ OptimalInv /\ WalkBack => OptimalInv'
  <1> SUFFICES ASSUME IInv, OptimalInv, WalkBack PROVE OptimalInv'
    OBVIOUS
  <1> DEFINE h == points[1]
             c == came_from[h]
  <1>0. /\ pc = "walk" /\ pc' = "walk" /\ points' = <<came_from[Head(points)]>> \o points
        /\ Head(points) # start_cell
        /\ UNCHANGED <<blocked, start, goal, start_cell, goal_cell, open, came_from, cost, closed>>
    BY DEF WalkBack, search
  <1>s. /\ start_cell \in Cell /\ goal_cell \in Cell /\ points \in Seq(Cell) /\ closed \subseteq Cell
        /\ \A d \in Cell : Seen(d) => cost[d] \in Nat
        /\ \A d \in closed : Seen(d)
        /\ \A d \in Cell \ {start_cell} : Seen(d) => came_from[d] \in closed /\ Drivable(came_from[d], d)
    BY <1>0, SearchFacts
  <1>k. (\A d : Heuristic(d)' = Heuristic(d)) /\ \A d : Neighbours(d)' = Neighbours(d)
    BY <1>0, MapKept DEF Heuristic
  <1>p. /\ Len(points) \in Nat /\ Len(points) >= 1 /\ h \in Cell /\ h # start_cell /\ Head(points) = h
        /\ \A i \in 1..Len(points) : points[i] \in Cell
    BY <1>0, <1>s DEF IInv, WalkInv
  <1>t. /\ \A i \in 1..Len(points) :
             Seen(points[i]) /\ cost[points[i]] + Heuristic(points[i]) <= cost[goal_cell]
        /\ \A i \in 1..(Len(points) - 1) :
             cost[points[i + 1]] = cost[points[i]] + Step(points[i], points[i + 1])
        /\ \A i \in 1..Len(points), k \in 1..Len(points) : i < k => cost[points[i]] < cost[points[k]]
    BY <1>0 DEF OptimalInv, TightInv
  <1>1. /\ c \in Cell /\ Seen(c) /\ cost[c] \in Nat /\ cost[h] \in Nat
        /\ cost[h] = cost[c] + Step(c, h)
        /\ Heuristic(c) <= Step(c, h) + Heuristic(h)
    <2>1. Seen(h)
      BY <1>p, <1>t
    <2>2. c \in closed /\ Drivable(c, h)
      BY <2>1, <1>p, <1>s
    <2>3. c \in Cell /\ Seen(c) /\ cost[c] \in Nat /\ cost[h] \in Nat
      BY <2>1, <2>2, <1>p, <1>s
    <2>4. cost[h] = cost[c] + Step(c, h)
      BY <2>1, <1>0, <1>p DEF OptimalInv, LinkCostInv
    <2>5. Heuristic(c) <= Step(c, h) + Heuristic(h)
      BY <2>2, <2>3, <1>p, <1>s, HeuristicConsistent
    <2>. QED  BY <2>3, <2>4, <2>5
  <1>n. /\ Heuristic(c) \in Nat /\ Heuristic(h) \in Nat /\ Step(c, h) \in Nat /\ Step(c, h) > 0
    BY <1>1, <1>p, <1>s, HeuristicFacts, StepFacts
  <1>g. cost[goal_cell] \in Nat
    BY <1>0, <1>p, <1>t, <1>s DEF IInv, WalkInv
  <1>2. /\ Len(points') = Len(points) + 1 /\ points'[1] = c
        /\ \A i \in 2..(Len(points) + 1) : points'[i] = points[i - 1]
    <2>1. points' = <<c>> \o points
      BY <1>0, <1>p
    <2>. HIDE DEF c, h
    <2>. QED  BY <2>1, <1>s, <1>1, <1>p
  <1>. HIDE DEF c
  <1>3. TightInv'
    <2>1. ASSUME NEW i \in 1..Len(points')
          PROVE  Seen(points'[i]) /\ cost[points'[i]] + Heuristic(points'[i]) <= cost[goal_cell]
      <3>1. CASE i = 1
        <4>1. cost[h] + Heuristic(h) <= cost[goal_cell]
          BY <1>p, <1>t
        <4>. QED  BY <3>1, <4>1, <1>1, <1>2, <1>n, <1>g
      <3>2. CASE i > 1
        <4>1. i - 1 \in 1..Len(points) /\ points'[i] = points[i - 1]
          BY <3>2, <1>2, <1>p
        <4>. QED  BY <4>1, <1>t
      <3>. QED  BY <3>1, <3>2, <1>2, <1>p
    <2>2. ASSUME NEW i \in 1..(Len(points') - 1)
          PROVE  cost[points'[i + 1]] = cost[points'[i]] + Step(points'[i], points'[i + 1])
      <3>1. CASE i = 1
        <4>1. points'[i + 1] = h /\ points'[i] = c
          BY <3>1, <1>2, <1>p
        <4>. QED  BY <4>1, <1>1
      <3>2. CASE i > 1
        <4>1. i - 1 \in 1..(Len(points) - 1) /\ points'[i] = points[i - 1] /\ points'[i + 1] = points[(i - 1) + 1]
          BY <3>2, <1>2, <1>p
        <4>. QED  BY <4>1, <1>t
      <3>. QED  BY <3>1, <3>2, <1>2, <1>p
    <2>3. ASSUME NEW i \in 1..Len(points'), NEW k \in 1..Len(points'), i < k
          PROVE  cost[points'[i]] < cost[points'[k]]
      <3>0. k - 1 \in 1..Len(points) /\ points'[k] = points[k - 1]
        BY <2>3, <1>2, <1>p
      <3>1. CASE i = 1
        <4>1. cost[h] <= cost[points[k - 1]] /\ cost[points[k - 1]] \in Nat
          <5>1. cost[points[k - 1]] \in Nat
            BY <3>0, <1>t, <1>s, <1>p
          <5>2. CASE k = 2
            BY <5>1, <5>2, <1>p
          <5>3. CASE k # 2
            BY <5>1, <5>3, <2>3, <3>0, <3>1, <1>t, <1>p, <1>1
          <5>. QED  BY <5>2, <5>3, <5>1
        <4>. QED  BY <4>1, <3>0, <3>1, <1>1, <1>2, <1>n
      <3>2. CASE i > 1
        <4>1. i - 1 \in 1..Len(points) /\ points'[i] = points[i - 1] /\ i - 1 < k - 1
          BY <3>2, <2>3, <1>2, <1>p
        <4>. QED  BY <4>1, <3>0, <1>t
      <3>. QED  BY <3>1, <3>2, <1>2, <1>p
    <2>. QED  BY <2>1, <2>2, <2>3, <1>0, <1>k DEF TightInv, Seen
  <1>4. HeapInv' /\ LinkCostInv' /\ GoalInv'
    BY <1>0, <1>k DEF OptimalInv, HeapInv, LinkCostInv, GoalInv, Seen
  <1>. QED  BY <1>3, <1>4 DEF OptimalInv

(* Every step of plan() keeps it.                                            *)
LEMMA NextOptimal == IInv /\ OptimalInv /\ [Next]_vars => OptimalInv'
  <1> SUFFICES ASSUME IInv, OptimalInv, [Next]_vars PROVE OptimalInv'
    OBVIOUS
  <1>1. CASE NoEnd \/ AlreadyThere \/ Exhausted \/ WalkedBack \/ PullOn \/ Corner \/ Pulled
    <2>1. pc' \notin {"search", "walk"}
      BY <1>1 DEF NoEnd, AlreadyThere, Exhausted, WalkedBack, PullOn, Corner, Pulled
    <2>. QED  BY <2>1, OptimalElsewhere
  <1>2. CASE UNCHANGED vars
    <2>1. UNCHANGED <<blocked, start, goal, start_cell, goal_cell, pc, points, open, came_from, cost, closed>>
      BY <1>2 DEF vars, search
    <2>2. (\A c : Heuristic(c)' = Heuristic(c)) /\ \A c : Neighbours(c)' = Neighbours(c)
      BY <2>1, MapKept DEF Heuristic
    <2>. QED  BY <2>1, <2>2 DEF OptimalInv, HeapInv, LinkCostInv, GoalInv, TightInv, Seen
  <1>3. CASE Begin \/ PopStale \/ Expand \/ PopGoal \/ WalkBack
    BY <1>3, BeginOptimal, PopStaleOptimal, ExpandOptimal, PopGoalOptimal, WalkBackOptimal
  <1>. QED  BY <1>1, <1>2, <1>3 DEF Next, Search, Route, Returned

-----------------------------------------------------------------------------
(* What is proved of the search is what Ways defines.                        *)

(* The sets of cells with lengths of ways to them.                           *)
Reached == SUBSET (Cell \X Nat)

(* One move further, ways still are to cells and have lengths.               *)
LEMMA FurtherFacts ==
  ASSUME NEW reached \in Reached
  PROVE  Shortest(Further(reached)) \in Reached
  <1>1. \A w \in reached : w[1] \in Cell /\ w[2] \in Nat
    BY DEF Reached
  <1>2. \A w \in reached, d \in Cell : <<d, w[2] + Step(w[1], d)>> \in Cell \X Nat
    BY <1>1, StepFacts
  <1>3. Further(reached) \in Reached
    BY <1>2 DEF Further, Reached
  <1>. QED  BY <1>3 DEF Shortest, Reached

(* The grid has finitely many cells.                                         *)
LEMMA CellIsFinite == IsFiniteSet(Cell) /\ Cardinality(Cell) \in Nat
  <1>1. IsFiniteSet(0..(Width - 1)) /\ IsFiniteSet(0..(Height - 1))
    BY SizeAssumption, FS_Interval
  <1>2. IsFiniteSet(Cell)
    BY <1>1, FS_Product DEF Cell
  <1>. QED  BY <1>2, FS_CardinalityType

(* The ways of n moves, from those of one move less.                         *)
LEMMA WaysUnfold ==
  ASSUME start_cell \in Cell
  PROVE  /\ Ways[0] = {<<start_cell, 0>>}
         /\ \A n \in 0..Cardinality(Cell) :
              Ways[n] \in Reached /\ (n # 0 => Ways[n] = Shortest(Further(Ways[n - 1])))
  <1>. DEFINE N == Cardinality(Cell)
              here == {<<start_cell, 0>>}
              step == [p \in Reached \X Int |-> Shortest(Further(p[1]))]
  <1>1. here \in Reached
    BY DEF Reached
  <1>2. step \in [Reached \X Int -> Reached]
    BY FurtherFacts
  <1>3. N \in Nat
    BY CellIsFinite
  <1>4. PICK f : Follows(f, 0, N, Reached, here, step)
    <2>1. 0 \in Int /\ N \in Int
      BY <1>3
    <2>. HIDE DEF here, step, N
    <2>. QED  BY <1>1, <1>2, <2>1, RecursionExists
  <1>5. \A i \in 0..N : i # 0 => f[i - 1] \in Reached /\ step[<<f[i - 1], i>>] = Shortest(Further(f[i - 1]))
    BY <1>3, <1>4 DEF Follows
  <1>6. f = [n \in 0..N |-> IF n = 0 THEN here ELSE Shortest(Further(f[n - 1]))]
    <2>. HIDE DEF step, here, N
    <2>. QED  BY <1>4, <1>5 DEF Follows
  <1>7. Ways = [n \in 0..N |-> IF n = 0 THEN here ELSE Shortest(Further(Ways[n - 1]))]
    <2>. HIDE DEF step
    <2>. QED  BY <1>6, Zenon DEF Ways
  <1>8. Ways[0] = here /\ \A n \in 0..N : n # 0 => Ways[n] = Shortest(Further(Ways[n - 1]))
    <2>1. 0 \in 0..N
      BY <1>3
    <2>. HIDE DEF N, here, step
    <2>. QED  BY <2>1, <1>7
  <1>9. \A n \in 0..N : Ways[n] \in Reached
    <2>. DEFINE S == {n \in 0..N : Ways[n] \in Reached}
    <2>1. 0 \in S
      <3>1. 0 \in 0..N
        BY <1>3
      <3>. QED  BY <3>1, <1>1, <1>8
    <2>2. ASSUME NEW n \in 0..(N - 1), n \in S PROVE n + 1 \in S
      <3>1. n + 1 \in 0..N /\ n + 1 # 0 /\ (n + 1) - 1 = n
        BY <1>3
      <3>. QED  BY <3>1, <2>2, <1>8, FurtherFacts
    <2>3. 0..N \subseteq S
      <3>1. 0 \in Int /\ N \in Int
        BY <1>3
      <3>. HIDE DEF S, N
      <3>. QED  BY <2>1, <2>2, <3>1, IntervalInduction
    <2>. QED  BY <2>3 DEF S
  <1>. QED  BY <1>8, <1>9

(* What a way to c costs at least, by the costs that the search has found    *)
(* and, beyond them, by how far the goal is from c.                          *)
Least(c) ==
  IF Seen(c) /\ cost[c] + Heuristic(c) < cost[goal_cell] THEN cost[c]
  ELSE cost[goal_cell] - Heuristic(c)

(* It is a number.                                                           *)
LEMMA LeastFacts ==
  ASSUME IInv, pc = "walk", NEW c \in Cell
  PROVE  Least(c) \in Int
  <1>1. goal_cell \in Cell /\ cost \in [Cell -> Nat \cup {Unseen}]
    BY SearchFacts
  <1>2. cost[goal_cell] \in Int /\ cost[c] \in Int
    BY <1>1 DEF Unseen
  <1>3. Heuristic(c) \in Nat
    BY <1>1, HeuristicFacts
  <1>. QED  BY <1>2, <1>3 DEF Least

(* The bound is kept by every move.                                          *)
LEMMA LeastGrows ==
  ASSUME IInv, OptimalInv, pc = "walk", NEW c \in Cell, NEW d \in Cell, Drivable(c, d)
  PROVE  Least(d) <= Least(c) + Step(c, d)
  <1>1. /\ goal_cell \in Cell /\ cost[goal_cell] \in Int
        /\ Seen(c) => cost[c] \in Nat
        /\ Seen(d) => cost[d] \in Nat
    BY SearchFacts DEF Unseen
  <1>2. Heuristic(c) \in Nat /\ Heuristic(d) \in Nat /\ Heuristic(c) <= Step(c, d) + Heuristic(d)
    BY <1>1, HeuristicFacts, HeuristicConsistent
  <1>3. Step(c, d) \in Nat
    BY StepFacts
  <1>4. CASE Seen(c) /\ cost[c] + Heuristic(c) < cost[goal_cell]
    <2>1. c \in Cell \ blocked
      BY DEF Drivable
    <2>2. d \in Neighbours(c)
      BY <2>1, NeighboursAreDrivable
    <2>3. Seen(d) /\ cost[d] <= cost[c] + Step(c, d)
      BY <2>2, <1>4 DEF OptimalInv, GoalInv
    <2>. QED  BY <2>3, <1>1, <1>2, <1>3, <1>4 DEF Least
  <1>5. CASE ~(Seen(c) /\ cost[c] + Heuristic(c) < cost[goal_cell])
    BY <1>1, <1>2, <1>3, <1>5 DEF Least
  <1>. QED  BY <1>4, <1>5

(* Lengths of ways respect the bound.                                        *)
Bounded(reached) == \A w \in reached : Least(w[1]) <= w[2]

LEMMA FurtherIsBounded ==
  ASSUME IInv, OptimalInv, pc = "walk", NEW reached \in Reached, Bounded(reached)
  PROVE  Bounded(Further(reached))
  <1> SUFFICES ASSUME NEW w \in Further(reached), w \notin reached PROVE Least(w[1]) <= w[2]
    BY DEF Bounded
  <1>1. PICK v \in reached, d \in Cell : Drivable(v[1], d) /\ w = <<d, v[2] + Step(v[1], d)>>
    BY DEF Further
  <1>2. v[1] \in Cell /\ v[2] \in Nat
    BY DEF Reached
  <1>3. Least(v[1]) <= v[2] /\ Least(d) <= Least(v[1]) + Step(v[1], d)
    BY <1>1, <1>2, LeastGrows DEF Bounded
  <1>4. Least(v[1]) \in Int /\ Least(d) \in Int /\ Step(v[1], d) \in Nat
    BY <1>1, <1>2, LeastFacts, StepFacts
  <1>5. w[1] = d /\ w[2] = v[2] + Step(v[1], d)
    BY <1>1
  <1>. QED  BY <1>2, <1>3, <1>4, <1>5

(* So do all, and those that meet it are the shortest of their cell.         *)
LEMMA WaysAreBounded ==
  ASSUME IInv, OptimalInv, pc = "walk"
  PROVE  \A n \in 0..Cardinality(Cell) : Bounded(Ways[n])
  <1>. DEFINE N == Cardinality(Cell)
              S == {n \in 0..N : Bounded(Ways[n])}
  <1>0. start_cell \in Cell /\ cost[start_cell] = 0 /\ N \in Nat /\ 0 \in 0..N
    BY SearchFacts, CellIsFinite
  <1>1. 0 \in S
    <2>1. Ways[0] = {<<start_cell, 0>>}
      BY <1>0, WaysUnfold
    <2>2. Heuristic(start_cell) \in Nat /\ cost[goal_cell] \in Int
      BY SearchFacts, HeuristicFacts DEF Unseen
    <2>3. Least(start_cell) <= 0
      BY <2>2, <1>0 DEF Least, Seen, Unseen
    <2>. QED  BY <2>1, <2>3, <1>0 DEF Bounded
  <1>2. ASSUME NEW n \in 0..(N - 1), n \in S PROVE n + 1 \in S
    <2>1. n \in 0..N /\ n + 1 \in 0..N /\ n + 1 # 0 /\ (n + 1) - 1 = n
      BY <1>0
    <2>2. Ways[n] \in Reached /\ Ways[n + 1] = Shortest(Further(Ways[n]))
      BY <2>1, <1>0, WaysUnfold
    <2>3. Bounded(Further(Ways[n]))
      BY <2>2, <1>2, FurtherIsBounded
    <2>. QED  BY <2>1, <2>2, <2>3 DEF Shortest, Bounded
  <1>3. 0..N \subseteq S
    <2>1. 0 \in Int /\ N \in Int
      BY <1>0
    <2>. HIDE DEF S, N
    <2>. QED  BY <1>1, <1>2, <2>1, IntervalInduction
  <1>. QED  BY <1>3

(* The path walked back is among the ways, cell by cell, with the costs the  *)
(* search has given its cells.                                               *)
LEMMA PathIsFound ==
  ASSUME IInv, OptimalInv, pc = "walk", points[1] = start_cell
  PROVE  \A n \in 0..Cardinality(Cell), i \in 1..Len(points) :
           i <= n + 1 => <<points[i], cost[points[i]]>> \in Ways[n]
  <1>. DEFINE N == Cardinality(Cell)
              way(i) == <<points[i], cost[points[i]]>>
              S == {n \in 0..N : \A i \in 1..Len(points) : i <= n + 1 => way(i) \in Ways[n]}
  <1>0. start_cell \in Cell /\ cost[start_cell] = 0 /\ N \in Nat /\ 0 \in 0..N
    BY SearchFacts, CellIsFinite
  <1>p. /\ Len(points) \in Nat /\ \A i \in 1..Len(points) : points[i] \in Cell
        /\ \A i \in 1..(Len(points) - 1) : Drivable(points[i], points[i + 1])
        /\ \A i \in 1..Len(points) :
             Seen(points[i]) /\ cost[points[i]] + Heuristic(points[i]) <= cost[goal_cell]
        /\ \A i \in 1..(Len(points) - 1) :
             cost[points[i + 1]] = cost[points[i]] + Step(points[i], points[i + 1])
    BY SearchFacts DEF IInv, WalkInv, OptimalInv, TightInv
  <1>t. \A i \in 1..Len(points) : Least(points[i]) = cost[points[i]]
    <2> TAKE i \in 1..Len(points)
    <2>1. Heuristic(points[i]) \in Nat /\ cost[points[i]] \in Nat /\ cost[goal_cell] \in Int
      BY <1>p, SearchFacts, HeuristicFacts DEF Unseen
    <2>. QED  BY <2>1, <1>p DEF Least
  <1>1. 0 \in S
    <2>1. Ways[0] = {<<start_cell, 0>>}
      BY <1>0, WaysUnfold
    <2>. QED  BY <2>1, <1>0, <1>p
  <1>2. ASSUME NEW n \in 0..(N - 1), n \in S PROVE n + 1 \in S
    <2>1. n \in 0..N /\ n + 1 \in 0..N /\ n + 1 # 0 /\ (n + 1) - 1 = n
      BY <1>0
    <2>2. Ways[n] \in Reached /\ Ways[n + 1] = Shortest(Further(Ways[n]))
      BY <2>1, <1>0, WaysUnfold
    <2>3. Bounded(Further(Ways[n]))
      BY <2>1, <2>2, WaysAreBounded, FurtherIsBounded
    <2>4. ASSUME NEW i \in 1..Len(points), i <= (n + 1) + 1 PROVE way(i) \in Further(Ways[n])
      <3>1. CASE i <= n + 1
        BY <3>1, <1>2 DEF Further
      <3>2. CASE i = n + 2
        <4>1. /\ i - 1 \in 1..(Len(points) - 1) /\ i - 1 \in 1..Len(points) /\ i - 1 <= n + 1
              /\ (i - 1) + 1 = i
          BY <3>2, <2>1, <1>p
        <4>2. way(i - 1) \in Ways[n]
          BY <4>1, <1>2
        <4>3. Drivable(points[i - 1], points[i]) /\ points[i] \in Cell
          BY <4>1, <1>p
        <4>4. way(i) = <<points[i], cost[points[i - 1]] + Step(points[i - 1], points[i])>>
          BY <4>1, <1>p
        <4>5. way(i - 1)[1] = points[i - 1] /\ way(i - 1)[2] = cost[points[i - 1]]
          OBVIOUS
        <4>. HIDE DEF way
        <4>. QED  BY <4>2, <4>3, <4>4, <4>5 DEF Further
      <3>. QED  BY <3>1, <3>2, <2>1, <2>4
    <2>5. ASSUME NEW i \in 1..Len(points), i <= (n + 1) + 1 PROVE way(i) \in Ways[n + 1]
      <3>1. way(i) \in Further(Ways[n])
        BY <2>4, <2>5
      <3>2. way(i)[1] = points[i] /\ way(i)[2] = Least(points[i])
        BY <1>t
      <3>. HIDE DEF way
      <3>3. \A v \in Further(Ways[n]) : v[1] = way(i)[1] => way(i)[2] <= v[2]
        BY <3>2, <2>3 DEF Bounded
      <3>. QED  BY <3>1, <3>3, <2>2 DEF Shortest
    <2>. QED  BY <2>1, <2>5
  <1>3. 0..N \subseteq S
    <2>1. 0 \in Int /\ N \in Int
      BY <1>0
    <2>. HIDE DEF S, N
    <2>. QED  BY <1>1, <1>2, <2>1, IntervalInduction
  <1>. QED  BY <1>3

(* The path grows dearer cell by cell, so no cell is on it twice.            *)
LEMMA PathIsShort ==
  ASSUME IInv, OptimalInv, pc = "walk"
  PROVE  Len(points) \in Nat \ {0} /\ Len(points) <= Cardinality(Cell)
  <1>1. /\ points \in [1..Len(points) -> Cell] /\ Len(points) \in Nat \ {0}
        /\ \A i \in 1..Len(points) : cost[points[i]] \in Nat
        /\ \A i \in 1..Len(points), k \in 1..Len(points) : i < k => cost[points[i]] < cost[points[k]]
    BY SearchFacts DEF IInv, WalkInv, OptimalInv, TightInv
  <1>2. ASSUME NEW i \in 1..Len(points), NEW k \in 1..Len(points), points[i] = points[k] PROVE i = k
    <2>1. ~(i < k) /\ ~(k < i)
      BY <1>1, <1>2
    <2>. QED  BY <2>1
  <1>3. points \in Injection(1..Len(points), Cell)
    BY <1>1, <1>2 DEF Injection, IsInjective
  <1>4. Cardinality(1..Len(points)) <= Cardinality(Cell)
    BY <1>3, CellIsFinite, FS_Injection
  <1>5. Cardinality(1..Len(points)) = Len(points)
    BY <1>1, FS_Interval
  <1>. QED  BY <1>1, <1>4, <1>5

(* The length of the path, move by move, is what the search says it costs.   *)
LEMMA PathLength ==
  ASSUME IInv, OptimalInv, pc = "walk", points[1] = start_cell
  PROVE  LET length[i \in 1..Len(points)] ==
               IF i = 1 THEN 0 ELSE length[i - 1] + Step(points[i - 1], points[i])
         IN  length[Len(points)] = cost[goal_cell]
  <1>. DEFINE n == Len(points)
              step == [p \in Nat \X Int |-> p[1] + Step(points[p[2] - 1], points[p[2]])]
              length[i \in 1..n] == IF i = 1 THEN 0 ELSE length[i - 1] + Step(points[i - 1], points[i])
              S == {i \in 1..n : length[i] = cost[points[i]]}
  <1>0. n \in Nat \ {0} /\ n \in Int /\ 1 \in 1..n
    BY PathIsShort
  <1>1. step \in [Nat \X Int -> Nat]
    BY StepFacts
  <1>2. PICK f : Follows(f, 1, n, Nat, 0, step)
    <2>1. 1 \in Int /\ 0 \in Nat
      OBVIOUS
    <2>. HIDE DEF step, n
    <2>. QED  BY <1>0, <1>1, <2>1, RecursionExists
  <1>3. \A i \in 1..n : i # 1 => f[i - 1] \in Nat /\ step[<<f[i - 1], i>>] = f[i - 1] + Step(points[i - 1], points[i])
    BY <1>0, <1>2 DEF Follows
  <1>4. f = [i \in 1..n |-> IF i = 1 THEN 0 ELSE f[i - 1] + Step(points[i - 1], points[i])]
    <2>. HIDE DEF step, n
    <2>. QED  BY <1>2, <1>3 DEF Follows
  <1>5. length = [i \in 1..n |-> IF i = 1 THEN 0 ELSE length[i - 1] + Step(points[i - 1], points[i])]
    <2>. HIDE DEF step, n
    <2>. QED  BY <1>4, Zenon DEF length
  <1>. HIDE DEF length
  <1>6. /\ points[n] = goal_cell /\ cost[start_cell] = 0
        /\ \A i \in 1..(n - 1) : cost[points[i + 1]] = cost[points[i]] + Step(points[i], points[i + 1])
    BY SearchFacts DEF IInv, WalkInv, OptimalInv, TightInv
  <1>7. 1 \in S
    <2>. HIDE DEF n
    <2>. QED  BY <1>0, <1>5, <1>6
  <1>8. ASSUME NEW i \in 1..(n - 1), i \in S PROVE i + 1 \in S
    <2>1. i + 1 \in 1..n /\ i + 1 # 1 /\ (i + 1) - 1 = i
      BY <1>0
    <2>2. length[i + 1] = length[i] + Step(points[i], points[i + 1])
      <3>. HIDE DEF n
      <3>. QED  BY <2>1, <1>5
    <2>. QED  BY <2>1, <2>2, <1>6, <1>8
  <1>9. 1..n \subseteq S
    <2>1. 1 \in Int
      OBVIOUS
    <2>. HIDE DEF S, n
    <2>. QED  BY <1>0, <1>7, <1>8, <2>1, IntervalInduction
  <1>10. length[Len(points)] = cost[goal_cell]
    BY <1>0, <1>6, <1>9
  <1>. QED  BY <1>10 DEF length

(* The search's costs and the route are as the definition of a shortest way  *)
(* has them.                                                                 *)
LEMMA OptimalRoute == IInv /\ OptimalInv => RouteIsShortest
  <1> SUFFICES ASSUME IInv, OptimalInv, pc = "walk", Head(points) = start_cell
               PROVE  LET length[i \in 1..Len(points)] ==
                            IF i = 1 THEN 0 ELSE length[i - 1] + Step(points[i - 1], points[i])
                      IN  /\ <<goal_cell, cost[goal_cell]>> \in Ways[Cardinality(Cell)]
                          /\ length[Len(points)] = cost[goal_cell]
    BY DEF RouteIsShortest
  <1>1. points[1] = start_cell /\ points[Len(points)] = goal_cell
    BY DEF IInv, TypeOK, WalkInv
  <1>2. /\ Len(points) \in 1..Len(points) /\ Cardinality(Cell) \in 0..Cardinality(Cell)
        /\ Len(points) <= Cardinality(Cell) + 1
    BY PathIsShort, CellIsFinite
  <1>3. <<goal_cell, cost[goal_cell]>> \in Ways[Cardinality(Cell)]
    BY <1>1, <1>2, PathIsFound
  <1>. QED  BY <1>1, <1>3, PathLength

(* Initially nothing is searched.                                            *)
LEMMA InitOptimal == Init => OptimalInv
  BY DEF Init, OptimalInv, HeapInv, LinkCostInv, GoalInv, TightInv

(* On every map the path of plan() is the shortest there is: no way that can *)
(* be driven from the start to the goal is shorter than what the search has  *)
(* found, and the path walked back is as long as that.                       *)
THEOREM RoutesAreShortest == Spec => []RouteIsShortest
  <1>1. Init => IInv /\ OptimalInv
    BY InitInv, InitOptimal
  <1>2. (IInv /\ OptimalInv) /\ [Next]_vars => (IInv /\ OptimalInv)'
    BY NextInv, NextOptimal
  <1>. QED  BY <1>1, <1>2, OptimalRoute, PTL DEF Spec

-----------------------------------------------------------------------------
(* The drives along such routes (IsaacHospital).                             *)

Points == Int \X Int

(* p and q lie within n of each other along both axes.                       *)
Near(p, q, n) ==
  /\ p[1] - q[1] <= n /\ q[1] - p[1] <= n
  /\ p[2] - q[2] <= n /\ q[2] - p[2] <= n
Between(n, a, b) == (a <= n /\ n <= b) \/ (b <= n /\ n <= a)
OnTheWay(p, from, to) == Between(p[1], from[1], to[1]) /\ Between(p[2], from[2], to[2])

(* Where the process stands: nothing moves before it is ready, and then the  *)
(* matrix is the asset's and the drives' command near the joints.            *)
ProcessInv ==
  /\ doing \in {"off", "calibrate", "map", "ready"}
  /\ joint \in Points /\ target \in Points /\ command \in Points
  /\ doing # "off" => run \in Runs
  /\ doing # "ready" => drive = None /\ joint = Origin /\ command = Origin
  /\ doing \in {"calibrate", "map"} => rest = run.spawn
  /\ doing = "ready" \/ (doing = "map" /\ ~run.flat) => matrix = run.axes
  /\ doing = "ready" => Near(command, joint, MaxTargetLead)

(* A drive's target has moved from the joints by no more than its ticks, nor *)
(* than the leash; once it has begun the drives are told nothing else.       *)
DriveInv ==
  drive # None =>
    /\ drive = <<drive[1]>> /\ "steps" \in DOMAIN drive[1] /\ drive[1].steps \in Nat
    /\ Near(target, joint, MaxTargetLead) /\ Near(target, joint, drive[1].steps)
    /\ drive[1].steps > 0 => command = target

(* Between calls the joints are on their way from where the result says to   *)
(* the command, which is no further off than the leash.                      *)
RestInv ==
  doing = "ready" /\ drive = None =>
    \E p \in Points :
      rest = Base(p) /\ OnTheWay(joint, p, command) /\ Near(command, p, MaxTargetLead)

IsaacInv == ProcessInv /\ DriveInv /\ RestInv

-----------------------------------------------------------------------------
(* The plane.                                                                *)

(* An orientation is one of eight.                                           *)
LEMMA EightTurns ==
  ASSUME NEW m \in QuarterTurns
  PROVE  \/ m = <<1, 0, 0, 1>> \/ m = <<1, 0, 0, -1>> \/ m = <<-1, 0, 0, 1>> \/ m = <<-1, 0, 0, -1>>
         \/ m = <<0, 1, 1, 0>> \/ m = <<0, 1, -1, 0>> \/ m = <<0, -1, 1, 0>> \/ m = <<0, -1, -1, 0>>
  <1>1. \/ \E a, d \in {-1, 1} : m = <<a, 0, 0, d>>
        \/ \E b, c \in {-1, 1} : m = <<0, b, c, 0>>
    BY DEF QuarterTurns
  <1>. QED  BY <1>1

(* A tick steps by -1, 0 or 1 along each axis.                               *)
Steps == {-1, 0, 1} \X {-1, 0, 1}

LEMMA SignsAreSteps == \A p : Signs(p) \in Steps
  BY DEF Signs, Sign, Steps

(* The inverse of an orientation takes points to points, steps to steps.     *)
LEMMA TurnedBack ==
  ASSUME NEW m \in QuarterTurns, NEW v \in Points
  PROVE  /\ Apply(Inverted(m), v) \in Points
         /\ v \in Steps => Apply(Inverted(m), v) \in Steps
  <1>1. /\ m = <<1, 0, 0, 1>> => Inverted(m) = <<1, 0, 0, 1>>
        /\ m = <<1, 0, 0, -1>> => Inverted(m) = <<1, 0, 0, -1>>
        /\ m = <<-1, 0, 0, 1>> => Inverted(m) = <<-1, 0, 0, 1>>
        /\ m = <<-1, 0, 0, -1>> => Inverted(m) = <<-1, 0, 0, -1>>
        /\ m = <<0, 1, 1, 0>> => Inverted(m) = <<0, 1, 1, 0>>
        /\ m = <<0, 1, -1, 0>> => Inverted(m) = <<0, -1, 1, 0>>
        /\ m = <<0, -1, 1, 0>> => Inverted(m) = <<0, 1, -1, 0>>
        /\ m = <<0, -1, -1, 0>> => Inverted(m) = <<0, -1, -1, 0>>
    BY DEF Inverted, Det
  <1>2. Inverted(m) \in QuarterTurns
    BY <1>1, EightTurns DEF QuarterTurns
  <1>3. ASSUME NEW w \in QuarterTurns PROVE Apply(w, v) \in Points /\ (v \in Steps => Apply(w, v) \in Steps)
    <2>1. v[1] \in Int /\ v[2] \in Int /\ v = <<v[1], v[2]>>
      BY DEF Points
    <2>2. /\ w = <<1, 0, 0, 1>> => Apply(w, v) = <<v[1], v[2]>>
          /\ w = <<1, 0, 0, -1>> => Apply(w, v) = <<v[1], -v[2]>>
          /\ w = <<-1, 0, 0, 1>> => Apply(w, v) = <<-v[1], v[2]>>
          /\ w = <<-1, 0, 0, -1>> => Apply(w, v) = <<-v[1], -v[2]>>
      BY <2>1 DEF Apply
    <2>3. /\ w = <<0, 1, 1, 0>> => Apply(w, v) = <<v[2], v[1]>>
          /\ w = <<0, 1, -1, 0>> => Apply(w, v) = <<v[2], -v[1]>>
          /\ w = <<0, -1, 1, 0>> => Apply(w, v) = <<-v[2], v[1]>>
          /\ w = <<0, -1, -1, 0>> => Apply(w, v) = <<-v[2], -v[1]>>
      BY <2>1 DEF Apply
    <2>4. v \in Steps => v[1] \in {-1, 0, 1} /\ v[2] \in {-1, 0, 1}
      BY DEF Steps
    <2>. QED  BY <2>1, <2>2, <2>3, <2>4, EightTurns DEF Points, Steps
  <1>. QED  BY <1>2, <1>3

(* The base is as far from a place as the joints from where they were there. *)
LEMMA BaseKeepsDistance ==
  ASSUME NEW m \in QuarterTurns, NEW s \in Points, NEW j \in Points, NEW p \in Points,
         NEW n \in Nat, Near(j, p, n)
  PROVE  Dist(Plus(s, Apply(m, j)), Plus(s, Apply(m, p))) <= n
  <1>1. /\ j[1] \in Int /\ j[2] \in Int /\ p[1] \in Int /\ p[2] \in Int
        /\ s[1] \in Int /\ s[2] \in Int
    BY DEF Points
  <1>. DEFINE a == Plus(s, Apply(m, j))
              b == Plus(s, Apply(m, p))
  <1>2. \/ /\ a[1] - b[1] \in {j[1] - p[1], p[1] - j[1]}
           /\ a[2] - b[2] \in {j[2] - p[2], p[2] - j[2]}
        \/ /\ a[1] - b[1] \in {j[2] - p[2], p[2] - j[2]}
           /\ a[2] - b[2] \in {j[1] - p[1], p[1] - j[1]}
    <2>1. CASE m = <<1, 0, 0, 1>>
      BY <1>1, <2>1 DEF Plus, Apply
    <2>2. CASE m = <<1, 0, 0, -1>>
      BY <1>1, <2>2 DEF Plus, Apply
    <2>3. CASE m = <<-1, 0, 0, 1>>
      BY <1>1, <2>3 DEF Plus, Apply
    <2>4. CASE m = <<-1, 0, 0, -1>>
      BY <1>1, <2>4 DEF Plus, Apply
    <2>5. CASE m = <<0, 1, 1, 0>>
      BY <1>1, <2>5 DEF Plus, Apply
    <2>6. CASE m = <<0, 1, -1, 0>>
      BY <1>1, <2>6 DEF Plus, Apply
    <2>7. CASE m = <<0, -1, 1, 0>>
      BY <1>1, <2>7 DEF Plus, Apply
    <2>8. CASE m = <<0, -1, -1, 0>>
      BY <1>1, <2>8 DEF Plus, Apply
    <2>. QED  BY <2>1, <2>2, <2>3, <2>4, <2>5, <2>6, <2>7, <2>8, EightTurns
  <1>. HIDE DEF a, b
  <1>3. Dist(a, b) <= n
    BY <1>1, <1>2 DEF Dist, Abs, Near
  <1>. QED  BY <1>3 DEF a, b

(* A tick of physics moves each joint towards its target or leaves it.       *)
LEMMA MovesOnTheWay ==
  ASSUME NEW j \in Points, NEW t \in Points, NEW k \in Moves(j, t)
  PROVE  k \in Points /\ OnTheWay(k, j, t)
  <1>. DEFINE d == Signs(Minus(t, j))
  <1>1. /\ j[1] \in Int /\ j[2] \in Int /\ t[1] \in Int /\ t[2] \in Int
        /\ j = <<j[1], j[2]>>
    BY DEF Points
  <1>2. d = <<Sign(t[1] - j[1]), Sign(t[2] - j[2])>>
    BY DEF Signs, Minus
  <1>3. k \in {Plus(j, d), Plus(j, <<d[1], 0>>), Plus(j, <<0, d[2]>>), j}
    BY DEF Moves
  <1>4. /\ Sign(t[1] - j[1]) \in {-1, 0, 1} /\ Sign(t[2] - j[2]) \in {-1, 0, 1}
        /\ Between(j[1] + Sign(t[1] - j[1]), j[1], t[1])
        /\ Between(j[2] + Sign(t[2] - j[2]), j[2], t[2])
        /\ Between(j[1], j[1], t[1]) /\ Between(j[2], j[2], t[2])
    BY <1>1 DEF Sign, Between
  <1>5. /\ k[1] \in {j[1] + Sign(t[1] - j[1]), j[1]}
        /\ k[2] \in {j[2] + Sign(t[2] - j[2]), j[2]}
        /\ k = <<k[1], k[2]>>
    BY <1>1, <1>2, <1>3, <1>4 DEF Plus
  <1>. QED  BY <1>1, <1>4, <1>5 DEF Points, OnTheWay

(* What lies on the way is no further from either end than they are apart.   *)
LEMMA WayFacts ==
  ASSUME NEW j \in Points, NEW t \in Points, NEW k \in Points, OnTheWay(k, j, t)
  PROVE  /\ \A n \in Int : Near(t, j, n) => Near(t, k, n) /\ Near(k, j, n)
         /\ \A p \in Points : OnTheWay(j, p, t) => OnTheWay(k, p, t)
  BY DEF Points, Near, OnTheWay, Between

(* The lesser of two numbers.                                                *)
LEMMA MinOfTwo ==
  ASSUME NEW a \in Int, NEW b \in Int
  PROVE  Min({a, b}) = IF a <= b THEN a ELSE b
  BY DEF Min
-----------------------------------------------------------------------------
(* Steps that neither move the robot nor begin or end a drive.               *)

(* What is known of a process' orientation and spawn.                        *)
LEMMA RunFacts ==
  ASSUME NEW r \in Runs
  PROVE  r.axes \in QuarterTurns /\ r.spawn \in Points
  BY AxesAssumption, PlacesAssumption DEF Runs, Points

(* Without a process nothing is known, and nothing needs to be.              *)
LEMMA ClosedIsaac == Closed => IsaacInv'
  <1> SUFFICES ASSUME Closed PROVE IsaacInv'
    OBVIOUS
  <1>1. /\ doing' = "off" /\ joint' = Origin /\ target' = Origin /\ command' = Origin
        /\ drive' = None
    BY DEF Closed, NoProcess
  <1>2. Origin \in Points
    BY DEF Origin, Points
  <1>. QED  BY <1>1, <1>2 DEF IsaacInv, ProcessInv, DriveInv, RestInv

(* A boot: a new process has not moved yet.                                  *)
LEMMA OpenStageIsaac == IsaacInv /\ OpenStage => IsaacInv'
  <1> SUFFICES ASSUME IsaacInv, OpenStage PROVE IsaacInv'
    OBVIOUS
  <1>1. /\ doing = "off" /\ run' \in Runs /\ doing' = IF run'.flat THEN "map" ELSE "calibrate"
        /\ rest' = run'.spawn
        /\ UNCHANGED <<joint, target, command, drive>>
    BY DEF OpenStage
  <1>. QED  BY <1>1 DEF IsaacInv, ProcessInv, DriveInv, RestInv

(* At the origin the robot is where it spawned.                              *)
LEMMA SpawnIsBase ==
  ASSUME NEW m \in QuarterTurns, NEW s \in Points
  PROVE  Plus(s, Apply(m, Origin)) = s
  <1>1. Apply(m, Origin) = <<0, 0>>
    BY EightTurns DEF Apply, Origin
  <1>2. s = <<s[1], s[2]>> /\ s[1] \in Int /\ s[2] \in Int
    BY DEF Points
  <1>. QED  BY <1>1, <1>2 DEF Plus

(* The process becomes ready, at rest where it spawned.                      *)
LEMMA ReadyIsaac ==
  ASSUME IsaacInv, doing \in {"calibrate", "map"}, doing' \in {"calibrate", "map", "ready"},
         doing' = "ready" \/ (doing' = "map" /\ ~run.flat) => matrix' = run.axes,
         UNCHANGED <<run, joint, target, command, drive, rest>>
  PROVE  IsaacInv'
  <1>1. /\ run \in Runs /\ run' = run /\ joint = Origin /\ joint' = Origin
        /\ command = Origin /\ command' = Origin
        /\ drive = None /\ drive' = None /\ rest' = run.spawn
        /\ target' = target /\ target \in Points
    BY DEF IsaacInv, ProcessInv
  <1>2. Origin \in Points /\ Near(Origin, Origin, MaxTargetLead) /\ OnTheWay(Origin, Origin, Origin)
    BY LeadAssumption DEF Origin, Points, Near, OnTheWay, Between
  <1>3. ProcessInv'
    BY <1>1, <1>2 DEF ProcessInv
  <1>4. DriveInv'
    BY <1>1 DEF DriveInv
  <1>5. run'.spawn = Plus(run'.spawn, Apply(run'.axes, Origin))
    BY <1>1, RunFacts, SpawnIsBase
  <1>6. RestInv'
    BY <1>1, <1>2, <1>5 DEF RestInv, Base
  <1>. QED  BY <1>3, <1>4, <1>6 DEF IsaacInv

(* What is measured of each joint is its column, or zeros where it is jammed.*)
LEMMA NudgedOne ==
  ASSUME NEW d \in {<<1, 0>>, <<0, 1>>}
  PROVE  Moves(Origin, d) \in {{d}, {Origin}}
  <1>1. Signs(Minus(d, Origin)) = d
    BY DEF Signs, Sign, Minus, Origin
  <1>2. Plus(Origin, d) = d /\ Plus(Origin, Origin) = Origin
    BY DEF Plus, Origin
  <1>3. {Plus(Origin, <<d[1], 0>>), Plus(Origin, <<0, d[2]>>)} = {d, Origin}
    BY DEF Plus, Origin
  <1>4. d # Origin
    BY DEF Origin
  <1>5. {d, Origin} \ {Origin} = {d}
    BY <1>4
  <1>. QED  BY <1>1, <1>2, <1>3, <1>5 DEF Moves

(* Calibration finds the asset's orientation, or closes the process.         *)
LEMMA CalibrateIsaac == IsaacInv /\ Calibrate => IsaacInv'
  <1> SUFFICES ASSUME IsaacInv, Calibrate PROVE IsaacInv'
    OBVIOUS
  <1>. DEFINE moved(d) == Minus(Base(CHOOSE j \in Moves(joint, d) : TRUE), base)
              x == moved(<<1, 0>>)
              y == moved(<<0, 1>>)
              measured == <<x[1], y[1], x[2], y[2]>>
  <1>1. doing = "calibrate" /\ joint = Origin /\ run \in Runs /\ run.axes \in QuarterTurns /\ run.spawn \in Points
    BY RunFacts DEF Calibrate, IsaacInv, ProcessInv
  <1>2. ASSUME NEW d \in {<<1, 0>>, <<0, 1>>}
        PROVE  moved(d) = Apply(run.axes, d) \/ moved(d) = <<0, 0>>
    <2>1. \A j : {j} # {} /\ (CHOOSE i \in {j} : TRUE) = j
      OBVIOUS
    <2>2. (CHOOSE j \in Moves(Origin, d) : TRUE) \in {d, Origin}
      BY <2>1, NudgedOne
    <2>3. base = run.spawn
      BY <1>1, SpawnIsBase DEF base, Base
    <2>4. Base(Origin) = run.spawn
      BY <1>1, SpawnIsBase DEF Base
    <2>5. /\ run.spawn[1] \in Int /\ run.spawn[2] \in Int
          /\ Apply(run.axes, d)[1] \in Int /\ Apply(run.axes, d)[2] \in Int
          /\ Apply(run.axes, d) = <<Apply(run.axes, d)[1], Apply(run.axes, d)[2]>>
      BY <1>1, EightTurns DEF Points, Apply
    <2>6. Minus(Base(Origin), base) = <<0, 0>>
      BY <2>3, <2>4, <2>5 DEF Minus
    <2>7. Minus(Base(d), base) = Apply(run.axes, d)
      BY <2>3, <2>5 DEF Minus, Base, Plus
    <2>. QED  BY <1>1, <2>2, <2>6, <2>7
  <1>3. /\ x = <<0, 0>> => measured[1] = 0 /\ measured[3] = 0
        /\ y = <<0, 0>> => measured[2] = 0 /\ measured[4] = 0
    OBVIOUS
  <1>4. \/ Det(measured) = 0
        \/ x = Apply(run.axes, <<1, 0>>) /\ y = Apply(run.axes, <<0, 1>>)
    <2>0. /\ x = Apply(run.axes, <<1, 0>>) \/ x = <<0, 0>>
          /\ y = Apply(run.axes, <<0, 1>>) \/ y = <<0, 0>>
      BY <1>2
    <2>1. x[1] \in Int /\ x[2] \in Int /\ y[1] \in Int /\ y[2] \in Int
      <3>1. \A d \in {<<1, 0>>, <<0, 1>>} : Apply(run.axes, d)[1] \in Int /\ Apply(run.axes, d)[2] \in Int
        BY SMTT(30), <1>1, EightTurns DEF Apply
      <3>. HIDE DEF x, y
      <3>. QED  BY <2>0, <3>1
    <2>. HIDE DEF x, y
    <2>2. x = <<0, 0>> \/ y = <<0, 0>> => Det(measured) = 0
      BY <2>1 DEF Det
    <2>. QED  BY <2>0, <2>2
  <1>5. ASSUME x = Apply(run.axes, <<1, 0>>), y = Apply(run.axes, <<0, 1>>)
        PROVE  measured = run.axes
    <2>. HIDE DEF x, y
    <2>. QED  BY <1>1, <1>5, EightTurns DEF Apply
  <1>6. \/ Closed
        \/ /\ matrix' = measured /\ Det(measured) # 0
           /\ doing' \in {"map", "ready"}
           /\ UNCHANGED <<run, joint, target, command, drive, rest>>
    BY DEF Calibrate
  <1>. HIDE DEF measured, x, y
  <1>7. Closed \/ (matrix' = run.axes /\ doing' \in {"map", "ready"}
                     /\ UNCHANGED <<run, joint, target, command, drive, rest>>)
    BY <1>4, <1>5, <1>6
  <1>. QED  BY <1>1, <1>7, ClosedIsaac, ReadyIsaac

(* Loading or building the grid moves nothing.                               *)
LEMMA MapIsaac == IsaacInv /\ (LoadMap \/ BuildMap) => IsaacInv'
  <1> SUFFICES ASSUME IsaacInv, LoadMap \/ BuildMap PROVE IsaacInv'
    OBVIOUS
  <1>1. doing = "map" /\ (run.flat \/ matrix = run.axes)
    BY DEF LoadMap, BuildMap, IsaacInv, ProcessInv
  <1>2. \/ Closed
        \/ \E of : Loaded(of)
    BY DEF LoadMap, BuildMap
  <1>3. ASSUME NEW of, Loaded(of) PROVE IsaacInv'
    <2>1. /\ doing' = IF run.flat THEN "calibrate" ELSE "ready"
          /\ UNCHANGED <<run, matrix, joint, target, command, drive, rest>>
      BY <1>3 DEF Loaded
    <2>. QED  BY <1>1, <2>1, ReadyIsaac
  <1>. QED  BY <1>2, <1>3, ClosedIsaac
-----------------------------------------------------------------------------
(* What a ready process knows.                                               *)
LEMMA ReadyFacts ==
  ASSUME IsaacInv, doing = "ready" \/ drive # None
  PROVE  /\ doing = "ready" /\ run \in Runs /\ matrix = run.axes /\ matrix \in QuarterTurns
         /\ run.spawn \in Points
         /\ joint \in Points /\ target \in Points /\ command \in Points
         /\ Near(command, joint, MaxTargetLead) /\ MaxTargetLead \in Nat \ {0}
  BY RunFacts, LeadAssumption DEF IsaacInv, ProcessInv

(* A drive sets out from where the joints are; without a way there is none.  *)
LEMMA NavigateIsaac ==
  ASSUME IsaacInv, NEW place \in Locations, NavigateTo(place)
  PROVE  IsaacInv'
  <1>1. /\ doing = "ready" /\ drive = None
        /\ UNCHANGED <<run, doing, matrix, joint, command>>
    BY DEF NavigateTo
  <1>2. \/ /\ rest' = base /\ drive' = None /\ target' = target
        \/ /\ \E path : drive' = <<[goal |-> place, path |-> path, index |-> 1, steps |-> 0, recent |-> <<>>]>>
           /\ target' = joint
    BY DEF NavigateTo, Returns, ResetDriveTarget
  <1>3. /\ run \in Runs /\ matrix = run.axes /\ joint \in Points /\ target \in Points /\ command \in Points
        /\ Near(command, joint, MaxTargetLead) /\ MaxTargetLead \in Nat
    BY <1>1, ReadyFacts
  <1>4. ProcessInv'
    BY <1>1, <1>2, <1>3 DEF ProcessInv
  <1>5. CASE rest' = base /\ drive' = None
    <2>1. rest' = Base(joint)'
      BY <1>1, <1>5 DEF base, Base
    <2>2. OnTheWay(joint, joint, command)
      BY <1>3 DEF OnTheWay, Between, Points
    <2>3. RestInv'
      BY <1>1, <1>3, <2>1, <2>2 DEF RestInv
    <2>. QED  BY <1>4, <1>5, <2>3 DEF IsaacInv, DriveInv
  <1>6. ASSUME NEW path,
               drive' = <<[goal |-> place, path |-> path, index |-> 1, steps |-> 0, recent |-> <<>>]>>,
               target' = joint
        PROVE  IsaacInv'
    <2>1. drive'[1] = [goal |-> place, path |-> path, index |-> 1, steps |-> 0, recent |-> <<>>]
      BY <1>6
    <2>2. drive' = <<drive'[1]>> /\ "steps" \in DOMAIN drive'[1] /\ drive'[1].steps = 0 /\ drive' # None
      BY <1>6, <2>1 DEF None
    <2>3. Near(joint, joint, 0) /\ Near(joint, joint, MaxTargetLead)
      BY <1>3 DEF Near, Points
    <2>4. DriveInv'
      BY <1>1, <1>6, <2>2, <2>3 DEF DriveInv
    <2>5. RestInv'
      BY <2>2 DEF RestInv
    <2>. QED  BY <1>4, <2>4, <2>5 DEF IsaacInv
  <1>. QED  BY <1>2, <1>5, <1>6

(* A call is over and the joints are where its result says.                  *)
LEMMA RestsHere ==
  ASSUME ProcessInv', doing' = "ready", drive' = None, rest' = Base(joint)'
  PROVE  IsaacInv'
  <1>1. joint' \in Points /\ command' \in Points /\ Near(command', joint', MaxTargetLead)
    BY DEF ProcessInv
  <1>2. OnTheWay(joint', joint', command')
    BY <1>1 DEF OnTheWay, Between, Points
  <1>3. RestInv'
    BY <1>1, <1>2 DEF RestInv
  <1>. QED  BY <1>3 DEF IsaacInv, DriveInv

LEMMA ArriveIsaac == IsaacInv /\ Arrive => IsaacInv'
  <1> SUFFICES ASSUME IsaacInv, Arrive PROVE IsaacInv'
    OBVIOUS
  <1>1. /\ drive # None /\ drive' = None /\ rest' = base
        /\ UNCHANGED <<run, doing, matrix, joint, target, command>>
    BY DEF Arrive, Returns
  <1>2. ProcessInv' /\ doing' = "ready"
    BY <1>1, ReadyFacts DEF ProcessInv, IsaacInv
  <1>3. rest' = Base(joint)'
    BY <1>1 DEF base, Base
  <1>. QED  BY <1>1, <1>2, <1>3, RestsHere

(* The leash: what the drives are told is near the joints, however fast the  *)
(* controller asks to go, and nearer than one step more than before.         *)
LEMMA LeashFacts ==
  ASSUME NEW v \in Steps, NEW n \in Nat, joint \in Points, target \in Points,
         matrix \in QuarterTurns, MaxTargetLead \in Nat, Near(target, joint, n)
  PROVE  LET told == ApplyVelocity(v) IN
         /\ told \in Points
         /\ Near(told, joint, MaxTargetLead) /\ Near(told, joint, n + 1)
  <1>. DEFINE push == Apply(Inverted(matrix), v)
              told == ApplyVelocity(v)
  <1>1. v \in Points /\ push \in Steps
    <2>1. v \in Points
      BY DEF Steps, Points
    <2>. QED  BY <2>1, TurnedBack
  <1>2. /\ joint[1] \in Int /\ joint[2] \in Int /\ target[1] \in Int /\ target[2] \in Int
        /\ push[1] \in {-1, 0, 1} /\ push[2] \in {-1, 0, 1}
    <2>. HIDE DEF push
    <2>. QED  BY <1>1 DEF Points, Steps
  <1>3. told = <<Clip(target[1] + push[1], joint[1] - MaxTargetLead, joint[1] + MaxTargetLead),
                 Clip(target[2] + push[2], joint[2] - MaxTargetLead, joint[2] + MaxTargetLead)>>
    BY DEF ApplyVelocity, Plus
  <1>. HIDE DEF push, told
  <1>4. told \in Points /\ Near(told, joint, MaxTargetLead) /\ Near(told, joint, n + 1)
    BY <1>2, <1>3 DEF Clip, Near, Points
  <1>. QED  BY <1>4 DEF told

(* The ticks of a drive are counted in its record.                           *)
LEMMA CountedTick ==
  ASSUME NEW d, NEW i, NEW recent, "steps" \in DOMAIN d, NEW steps, steps = d.steps + 1
  PROVE  LET next == [d EXCEPT !.index = i, !.steps = @ + 1, !.recent = recent] IN
         "steps" \in DOMAIN next /\ next.steps = steps
  OBVIOUS

(* A tick of a drive.                                                        *)
LEMMA TickIsaac == IsaacInv /\ Tick => IsaacInv'
  <1> SUFFICES ASSUME IsaacInv, Tick PROVE IsaacInv'
    OBVIOUS
  <1>1. drive # None /\ UNCHANGED <<files, run, doing, map, matrix, calls>>
    BY DEF Tick
  <1>2. /\ doing = "ready" /\ run \in Runs /\ matrix = run.axes /\ matrix \in QuarterTurns
        /\ joint \in Points /\ target \in Points /\ MaxTargetLead \in Nat \ {0}
    BY <1>1, ReadyFacts
  <1>3. drive = <<drive[1]>> /\ "steps" \in DOMAIN drive[1] /\ drive[1].steps \in Nat
        /\ Near(target, joint, drive[1].steps)
    BY <1>1 DEF IsaacInv, DriveInv
  <1>4. PICK v \in Steps : target' = ApplyVelocity(v)
    <2>1. \A p : NearestStep(p) \in Steps
      BY DEF NearestStep, Sign, Steps
    <2>. QED  BY <2>1 DEF Tick, Blend
  <1>5. /\ target' \in Points
        /\ Near(target', joint, MaxTargetLead) /\ Near(target', joint, drive[1].steps + 1)
    BY <1>2, <1>3, <1>4, LeashFacts
  <1>6. command' = target' /\ joint' \in Moves(joint, command')
    BY DEF Tick
  <1>7. /\ joint' \in Points
        /\ Near(target', joint', MaxTargetLead) /\ Near(target', joint', drive[1].steps + 1)
    <2>1. \A t \in Points : joint' \in Moves(joint, t) => joint' \in Points /\ OnTheWay(joint', joint, t)
      BY <1>2, MovesOnTheWay
    <2>2. joint' \in Points /\ OnTheWay(joint', joint, target')
      BY <1>5, <1>6, <2>1
    <2>3. MaxTargetLead \in Int /\ drive[1].steps + 1 \in Int
      BY <1>2, <1>3
    <2>. QED  BY <1>2, <1>5, <2>2, <2>3, WayFacts
  <1>8. ProcessInv'
    BY <1>1, <1>2, <1>5, <1>6, <1>7 DEF ProcessInv
  <1>9. \/ drive' = None /\ rest' = Base(joint')
        \/ \E i, recent :
             drive' = <<[drive[1] EXCEPT !.index = i, !.steps = @ + 1, !.recent = recent]>>
    BY DEF Tick, Returns
  <1>10. CASE drive' = None /\ rest' = Base(joint')
    <2>1. rest' = Base(joint)'
      BY <1>1, <1>10 DEF Base
    <2>. QED  BY <1>1, <1>2, <1>8, <1>10, <2>1, RestsHere
  <1>11. ASSUME NEW i, NEW recent,
                drive' = <<[drive[1] EXCEPT !.index = i, !.steps = @ + 1, !.recent = recent]>>
         PROVE  IsaacInv'
    <2>. DEFINE d == [drive[1] EXCEPT !.index = i, !.steps = @ + 1, !.recent = recent]
    <2>1. "steps" \in DOMAIN d /\ d.steps = drive[1].steps + 1
      BY <1>3, CountedTick
    <2>. HIDE DEF d
    <2>2. drive' = <<d>>
      BY <1>11 DEF d
    <2>3. /\ drive' # None /\ drive' = <<drive'[1]>> /\ "steps" \in DOMAIN drive'[1]
          /\ drive'[1].steps = drive[1].steps + 1 /\ drive'[1].steps \in Nat
      BY <1>3, <2>1, <2>2 DEF None
    <2>4. DriveInv'
      BY <1>6, <1>7, <2>3 DEF DriveInv
    <2>5. RestInv'
      BY <2>3 DEF RestInv
    <2>. QED  BY <1>8, <2>4, <2>5 DEF IsaacInv
  <1>. QED  BY <1>9, <1>10, <1>11

(* Physics goes on between two calls, towards the last command.              *)
LEMMA SpinIsaac == IsaacInv /\ Spin => IsaacInv'
  <1> SUFFICES ASSUME IsaacInv, Spin PROVE IsaacInv'
    OBVIOUS
  <1>1. /\ doing = "ready" /\ drive = None /\ joint' \in Moves(joint, command)
        /\ UNCHANGED <<run, doing, matrix, target, command, drive, rest>>
    BY DEF Spin
  <1>2. /\ run \in Runs /\ matrix = run.axes
        /\ joint \in Points /\ target \in Points /\ command \in Points
        /\ Near(command, joint, MaxTargetLead) /\ MaxTargetLead \in Nat
    BY <1>1, ReadyFacts
  <1>3. joint' \in Points /\ OnTheWay(joint', joint, command)
    BY <1>1, <1>2, MovesOnTheWay
  <1>4. Near(command, joint', MaxTargetLead)
    BY <1>2, <1>3, WayFacts
  <1>5. ProcessInv'
    BY <1>1, <1>2, <1>3, <1>4 DEF ProcessInv
  <1>6. PICK p \in Points : /\ rest = Base(p) /\ OnTheWay(joint, p, command)
                            /\ Near(command, p, MaxTargetLead)
    BY <1>1 DEF IsaacInv, RestInv
  <1>7. OnTheWay(joint', p, command)
    BY <1>2, <1>3, <1>6, WayFacts
  <1>8. rest' = Base(p)'
    BY <1>1, <1>6 DEF Base
  <1>9. RestInv'
    BY <1>1, <1>6, <1>7, <1>8 DEF RestInv
  <1>. QED  BY <1>1, <1>5, <1>9 DEF IsaacInv, DriveInv

(* A teleport puts the joints where its result says, at most a cell from     *)
(* where the drives are told to go.                                          *)
LEMMA TeleportIsaac ==
  ASSUME IsaacInv, NEW xy \in Locations, Teleport(xy)
  PROVE  IsaacInv'
  <1>. DEFINE wanted == Plus(joint, Apply(Inverted(matrix), Minus(xy, base)))
  <1>1. /\ doing = "ready" /\ drive = None
        /\ UNCHANGED <<run, doing, matrix, drive>>
    BY DEF Teleport
  <1>2. /\ run \in Runs /\ matrix = run.axes /\ matrix \in QuarterTurns /\ run.spawn \in Points
        /\ joint \in Points /\ MaxTargetLead \in Nat \ {0}
    BY <1>1, ReadyFacts
  <1>3. wanted \in Points
    <2>1. Apply(matrix, joint) \in Points
      <3>1. joint[1] \in Int /\ joint[2] \in Int
        BY <1>2 DEF Points
      <3>. QED  BY <1>2, <3>1, EightTurns DEF Apply, Points
    <2>2. base \in Points
      BY <1>2, <2>1 DEF base, Base, Plus, Points
    <2>3. Minus(xy, base) \in Points
      BY <2>2, PlacesAssumption DEF Minus, Points
    <2>4. Apply(Inverted(matrix), Minus(xy, base)) \in Points
      BY <1>2, <2>3, TurnedBack
    <2>. QED  BY <1>2, <2>4 DEF Plus, Points
  <1>. HIDE DEF wanted
  <1>4. \E landed \in {wanted} \cup {Plus(wanted, d) : d \in (-1..1) \X (-1..1)} :
          joint' = landed /\ target' = landed /\ command' = wanted /\ rest' = Base(landed)
    BY DEF Teleport, wanted
  <1>5. PICK landed \in {wanted} \cup {Plus(wanted, d) : d \in (-1..1) \X (-1..1)} :
          joint' = landed /\ target' = landed /\ command' = wanted /\ rest' = Base(landed)
    BY <1>4
  <1>6. landed \in Points /\ Near(wanted, landed, MaxTargetLead)
    BY <1>2, <1>3 DEF Plus, Points, Near
  <1>7. ProcessInv'
    BY <1>1, <1>2, <1>3, <1>5, <1>6 DEF ProcessInv
  <1>8. rest' = Base(joint)'
    BY <1>1, <1>5 DEF Base
  <1>. QED  BY <1>1, <1>7, <1>8, RestsHere

(* Every step of the process.                                                *)
LEMMA IsaacStep == IsaacInv /\ [IsaacNext]_isaacVars => IsaacInv'
  <1> SUFFICES ASSUME IsaacInv, [IsaacNext]_isaacVars PROVE IsaacInv'
    OBVIOUS
  <1>1. CASE Rearrange \/ UNCHANGED isaacVars
    <2>1. UNCHANGED <<run, doing, matrix, joint, target, command, drive, rest>>
      BY <1>1 DEF Rearrange, isaacVars, files
    <2>2. ProcessInv' /\ DriveInv'
      BY <2>1 DEF IsaacInv, ProcessInv, DriveInv
    <2>3. RestInv'
      BY <2>1 DEF IsaacInv, RestInv, Base
    <2>. QED  BY <2>2, <2>3 DEF IsaacInv
  <1>2. CASE Kill \/ Close
    BY <1>2, ClosedIsaac DEF Kill, Close
  <1>. QED
    BY <1>1, <1>2, OpenStageIsaac, CalibrateIsaac, MapIsaac, NavigateIsaac, TeleportIsaac,
       ArriveIsaac, TickIsaac, SpinIsaac DEF IsaacNext

(* The robot's joints, drive and rest, for every building, every orientation *)
(* of the asset and every leash, however often it is booted and killed.      *)
THEOREM IsaacInvariance == IsaacSpec => []IsaacInv
  <1>1. IsaacInit => IsaacInv
    <2>1. Origin \in Points
      BY DEF Origin, Points
    <2>. QED  BY <2>1 DEF IsaacInit, NoProcess, IsaacInv, ProcessInv, DriveInv, RestInv
  <1>. QED  BY <1>1, IsaacStep, PTL DEF IsaacSpec

(* _reset_drive_target and the clamp: a drive pushes by its own ticks only,  *)
(* and never by more than the leash.                                         *)
THEOREM DrivesEarnTheirLead == IsaacSpec => []LeadIsEarned
  <1>1. ASSUME IsaacInv, drive # None, drive[1].steps > 0
        PROVE  Dist(command, joint) <= Min({drive[1].steps, MaxTargetLead})
    <2>1. /\ joint \in Points /\ command \in Points /\ MaxTargetLead \in Nat
          /\ Near(command, joint, MaxTargetLead) /\ Near(command, joint, drive[1].steps)
          /\ drive[1].steps \in Nat
      BY <1>1, ReadyFacts DEF IsaacInv, DriveInv
    <2>2. \A n \in Nat : Near(command, joint, n) => Dist(command, joint) <= n
      BY <2>1 DEF Near, Dist, Abs, Points
    <2>. QED  BY <2>1, <2>2, MinOfTwo
  <1>2. IsaacInv => LeadIsEarned
    BY <1>1 DEF LeadIsEarned
  <1>. QED  BY <1>2, IsaacInvariance, PTL

(* What navigate_to and teleport return of the robot's place stays true to   *)
(* within the leash, for as long as nothing else is asked of it.             *)
THEOREM ResultsStayTrue == IsaacSpec => []RestsWithinLead
  <1>1. ASSUME IsaacInv, doing = "ready", drive = None
        PROVE  Dist(base, rest) <= MaxTargetLead
    <2>1. /\ run.axes \in QuarterTurns /\ run.spawn \in Points
          /\ joint \in Points /\ command \in Points /\ MaxTargetLead \in Nat
      BY <1>1, ReadyFacts
    <2>2. PICK p \in Points : /\ rest = Base(p) /\ OnTheWay(joint, p, command)
                              /\ Near(command, p, MaxTargetLead)
      BY <1>1 DEF IsaacInv, RestInv
    <2>3. Near(joint, p, MaxTargetLead)
      BY <2>1, <2>2, WayFacts
    <2>4. Dist(Base(joint), Base(p)) <= MaxTargetLead
      BY <2>1, <2>3, BaseKeepsDistance DEF Base
    <2>. QED  BY <2>2, <2>4 DEF base
  <1>2. IsaacInv => RestsWithinLead
    BY <1>1 DEF RestsWithinLead
  <1>. QED  BY <1>2, IsaacInvariance, PTL

-----------------------------------------------------------------------------
(* Folds over sequences, and the largest of finitely many numbers.           *)

(* A finite set of numbers has a largest one, and Max is it.                 *)
LEMMA MaxIs ==
  ASSUME NEW S \in SUBSET Int, IsFiniteSet(S), S # {}
  PROVE  Max(S) \in S /\ \A y \in S : Max(S) >= y
  <1>. DEFINE n == Cardinality(S)
  <1>1. n \in Nat /\ n # 0
    BY FS_CardinalityType, FS_EmptySet
  <1>2. PICK b : b \in Bijection(1..n, S)
    BY FS_CardinalityType DEF ExistsBijection
  <1>3. b \in [1..n -> S] /\ \A y \in S : \E i \in 1..n : b[i] = y
    BY <1>2 DEF Bijection, Surjection
  <1>. HIDE DEF n
  <1>i. \A i \in 1..n : b[i] \in Int
    <2>1. \A i \in 1..n : b[i] \in S
      BY <1>3
    <2>. QED  BY <2>1
  <1>. DEFINE T == {k \in Nat : \E i \in 1..(k + 1) : \A j \in 1..(k + 1) : b[i] >= b[j]}
  <1>4. 0 \in T
    <2>1. 1..(0 + 1) = {1} /\ b[1] \in Int
      BY <1>1, <1>i
    <2>2. b[1] >= b[1] /\ \A j \in 1..(0 + 1) : j = 1
      BY <2>1
    <2>3. \E i \in 1..(0 + 1) : \A j \in 1..(0 + 1) : b[i] >= b[j]
      BY <2>1, <2>2, Zenon
    <2>. QED  BY <2>3
  <1>5. ASSUME NEW k \in 0..(n - 2), k \in T PROVE k + 1 \in T
    <2>1. PICK i \in 1..(k + 1) : \A j \in 1..(k + 1) : b[i] >= b[j]
      BY <1>5
    <2>2. \A j \in 1..(k + 2) : b[j] \in Int
      <3>1. \A j \in 1..(k + 2) : j \in 1..n
        BY <1>1
      <3>. QED  BY <1>i, <3>1
    <2>3. k + 2 \in 1..(k + 2) /\ i \in 1..(k + 2) /\ \A j \in 1..(k + 2) : j # k + 2 => j \in 1..(k + 1)
      OBVIOUS
    <2>4. ASSUME b[i] >= b[k + 2] PROVE \E x \in 1..(k + 2) : \A j \in 1..(k + 2) : b[x] >= b[j]
      <3>1. \A j \in 1..(k + 2) : b[i] >= b[j]
        BY <2>1, <2>2, <2>3, <2>4
      <3>. QED  BY <2>3, <3>1
    <2>5. ASSUME b[k + 2] > b[i] PROVE \E x \in 1..(k + 2) : \A j \in 1..(k + 2) : b[x] >= b[j]
      <3>1. \A j \in 1..(k + 2) : b[k + 2] >= b[j]
        BY <2>1, <2>2, <2>3, <2>5
      <3>. QED  BY <2>3, <3>1
    <2>6. b[i] >= b[k + 2] \/ b[k + 2] > b[i]
      BY <2>2, <2>3
    <2>7. k + 1 \in Nat /\ (k + 1) + 1 = k + 2
      OBVIOUS
    <2>8. \E x \in 1..((k + 1) + 1) : \A j \in 1..((k + 1) + 1) : b[x] >= b[j]
      BY <2>4, <2>5, <2>6, <2>7
    <2>. QED  BY <2>7, <2>8
  <1>6. n - 1 \in T
    <2>1. 0 \in Int /\ n - 1 \in Int /\ n - 1 \in 0..(n - 1) /\ (n - 1) - 1 = n - 2
      BY <1>1
    <2>. HIDE DEF T
    <2>2. 0..(n - 1) \subseteq T
      BY <1>4, <1>5, <2>1, IntervalInduction
    <2>. QED  BY <2>1, <2>2
  <1>7. PICK i \in 1..n : \A j \in 1..n : b[i] >= b[j]
    <2>1. (n - 1) + 1 = n
      BY <1>1
    <2>. QED  BY <1>6, <2>1
  <1>8. b[i] \in S /\ \A y \in S : b[i] >= y
    BY <1>3, <1>7
  <1>. QED  BY <1>8 DEF Max

(* The largest of some of the numbers up to n is one of them.                *)
LEMMA MaxOfPart ==
  ASSUME NEW n \in Nat, NEW t \in SUBSET (1..n), t # {}
  PROVE  Max(t) \in 1..n
  <1>1. IsFiniteSet(1..n) /\ 1..n \in SUBSET Int
    BY FS_Interval
  <1>2. t \in SUBSET Int /\ IsFiniteSet(t)
    BY <1>1, FS_Subset
  <1>3. Max(t) \in t
    BY <1>2, MaxIs
  <1>. QED  BY <1>3

(* f is what FoldLeft is defined by, of the numbers up to n.                 *)
Folds(f, n, A, first, step) ==
  /\ f \in [SUBSET (1..n) -> A]
  /\ \A t \in SUBSET (1..n) : f[t] = IF t = {} THEN first ELSE step[<<f[t \ {Max(t)}], Max(t)>>]

(* There is such a function, for any step.                                   *)
LEMMA FoldExists ==
  ASSUME NEW n \in Nat, NEW A, NEW first \in A, NEW step \in [A \X Nat -> A]
  PROVE  \E f : Folds(f, n, A, first, step)
  <1>. DEFINE Fits(f, k) ==
                \A t \in SUBSET (1..k) : f[t] = IF t = {} THEN first ELSE step[<<f[t \ {Max(t)}], Max(t)>>]
              S == {k \in Nat : \E f \in [SUBSET (1..k) -> A] : Fits(f, k)}
  <1>1. 0 \in S
    <2>1. SUBSET (1..0) = {{}}
      OBVIOUS
    <2>2. [t \in SUBSET (1..0) |-> first] \in [SUBSET (1..0) -> A] /\ Fits([t \in SUBSET (1..0) |-> first], 0)
      BY <2>1
    <2>. QED  BY <2>2
  <1>2. ASSUME NEW k \in 0..(n - 1), k \in S PROVE k + 1 \in S
    <2>1. PICK f \in [SUBSET (1..k) -> A] : Fits(f, k)
      BY <1>2
    <2>. DEFINE g == [t \in SUBSET (1..(k + 1)) |->
                        IF k + 1 \in t THEN step[<<f[t \ {k + 1}], k + 1>>] ELSE f[t]]
    <2>2. \A t \in SUBSET (1..(k + 1)) : t \ {k + 1} \in SUBSET (1..k) /\ (k + 1 \notin t => t \in SUBSET (1..k))
      OBVIOUS
    <2>3. g \in [SUBSET (1..(k + 1)) -> A]
      <3>1. \A t \in SUBSET (1..k) : <<f[t], k + 1>> \in A \X Nat
        OBVIOUS
      <3>2. ASSUME NEW t \in SUBSET (1..(k + 1)) PROVE (IF k + 1 \in t THEN step[<<f[t \ {k + 1}], k + 1>>] ELSE f[t]) \in A
        BY <2>1, <2>2, <3>1
      <3>. QED  BY <3>2
    <2>4. ASSUME NEW t \in SUBSET (1..(k + 1))
          PROVE  g[t] = IF t = {} THEN first ELSE step[<<g[t \ {Max(t)}], Max(t)>>]
      <3>1. CASE k + 1 \in t
        <4>1. Max(t) = k + 1
          <5>1. k + 1 \in t /\ \A y \in t : k + 1 >= y
            BY <3>1
          <5>2. \A x \in t : (\A y \in t : x >= y) => x = k + 1
            BY <3>1
          <5>. QED  BY <5>1, <5>2, Zenon DEF Max
        <4>2. g[t \ {k + 1}] = f[t \ {k + 1}] /\ t # {}
          BY <2>2, <3>1
        <4>3. g[t] = step[<<f[t \ {k + 1}], k + 1>>]
          BY <3>1
        <4>. HIDE DEF g
        <4>. QED  BY <4>1, <4>2, <4>3
      <3>2. CASE k + 1 \notin t
        <4>1. t \in SUBSET (1..k) /\ g[t] = f[t] /\ g[t \ {Max(t)}] = f[t \ {Max(t)}]
          BY <2>2, <3>2
        <4>. HIDE DEF g
        <4>. QED  BY <4>1, <2>1
      <3>. QED  BY <3>1, <3>2
    <2>. HIDE DEF g
    <2>5. \E e \in [SUBSET (1..(k + 1)) -> A] : Fits(e, k + 1)
      BY <2>3, <2>4
    <2>6. k + 1 \in Nat
      OBVIOUS
    <2>. QED  BY <2>5, <2>6, Zenon
  <1>. HIDE DEF S
  <1>3. n \in S
    <2>1. 0 \in Int /\ n \in Int /\ n \in 0..n
      OBVIOUS
    <2>2. 0..n \subseteq S
      BY <1>1, <1>2, <2>1, IntervalInduction
    <2>. QED  BY <2>1, <2>2
  <1>. QED  BY <1>3 DEF S, Folds

(* The largest number up to k is k.                                          *)
LEMMA MaxUpTo ==
  ASSUME NEW k \in Nat, k # 0
  PROVE  Max(1..k) = k /\ (1..k) \ {Max(1..k)} = 1..(k - 1) /\ 1..k # {}
  <1>1. k \in 1..k /\ \A y \in 1..k : k >= y
    OBVIOUS
  <1>2. \A x \in 1..k : (\A y \in 1..k : x >= y) => x = k
    OBVIOUS
  <1>3. Max(1..k) = k
    BY <1>1, <1>2, Zenon DEF Max
  <1>4. (1..k) \ {k} = 1..(k - 1) /\ 1..k # {}
    OBVIOUS
  <1>. QED  BY <1>3, <1>4, Zenon

-----------------------------------------------------------------------------
(* The distance transform (edt_1d).                                          *)

(* The parabola that stands at p with the height f[p], at x.                 *)
Bowl(f, p, x) == (x - p) * (x - p) + f[p]

(* Fractions with a positive denominator, against a number x: what lies      *)
(* above the larger of two lies above the smaller, and what lies below the   *)
(* smaller below the larger.                                                 *)
LEMMA FractionAbove ==
  ASSUME NEW n1 \in Int, NEW d1 \in Nat, NEW n2 \in Int, NEW d2 \in Nat, NEW x \in Int, d1 > 0, d2 > 0,
         n2 * d1 <= n1 * d2, x * d1 > n1
  PROVE  x * d2 > n2
  <1>. SUFFICES ASSUME x * d2 <= n2 PROVE FALSE
    OBVIOUS
  <1>1. (x * d2) * d1 <= n2 * d1
    OBVIOUS
  <1>2. n1 * d2 < (x * d1) * d2
    OBVIOUS
  <1>3. (x * d2) * d1 = (x * d1) * d2
    OBVIOUS
  <1>. QED  BY <1>1, <1>2, <1>3

(* The same from below.                                                      *)
LEMMA FractionBelow ==
  ASSUME NEW n1 \in Int, NEW d1 \in Nat, NEW n2 \in Int, NEW d2 \in Nat, NEW x \in Int, d1 > 0, d2 > 0,
         n1 * d2 < n2 * d1, x * d1 <= n1
  PROVE  x * d2 <= n2
  <1>. SUFFICES ASSUME x * d2 > n2 PROVE FALSE
    OBVIOUS
  <1>1. n2 * d1 < (x * d2) * d1
    OBVIOUS
  <1>2. (x * d1) * d2 <= n1 * d2
    OBVIOUS
  <1>3. (x * d2) * d1 = (x * d1) * d2
    OBVIOUS
  <1>. QED  BY <1>1, <1>2, <1>3

(* Left of where the parabola of b overtakes that of a, a's is the lower.    *)
LEMMA OvertakesAt ==
  ASSUME NEW D \in SUBSET Int, NEW f \in [D -> Int], NEW a \in D, NEW b \in D, a < b, NEW x \in Int
  PROVE  /\ Bowl(f, a, x) \in Int /\ Bowl(f, b, x) \in Int
         /\ Overtakes(f, a, b)[1] \in Int /\ Overtakes(f, a, b)[2] \in Nat /\ Overtakes(f, a, b)[2] > 0
         /\ x * Overtakes(f, a, b)[2] <= Overtakes(f, a, b)[1] <=> Bowl(f, a, x) <= Bowl(f, b, x)
         /\ Before(Overtakes(f, a, b), <<x, 1>>) <=> Bowl(f, b, x) < Bowl(f, a, x)
  <1>. DEFINE n == (f[b] + b * b) - (f[a] + a * a)
              d == 2 * (b - a)
  <1>1. Overtakes(f, a, b) = <<n, d>>
    BY DEF Overtakes
  <1>2. f[a] \in Int /\ f[b] \in Int /\ a \in Int /\ b \in Int
    OBVIOUS
  <1>3. n \in Int /\ d \in Nat /\ d > 0
    BY <1>2
  <1>4. Bowl(f, a, x) \in Int /\ Bowl(f, b, x) \in Int
    BY <1>2 DEF Bowl
  <1>5. Bowl(f, a, x) - Bowl(f, b, x) = x * d - n
    BY <1>2 DEF Bowl
  <1>6. Before(<<n, d>>, <<x, 1>>) <=> n * 1 < x * d
    BY DEF Before
  <1>. HIDE DEF n, d
  <1>7. x * d \in Int
    BY <1>3
  <1>8. (x * d <= n <=> Bowl(f, a, x) <= Bowl(f, b, x)) /\ (n < x * d <=> Bowl(f, b, x) < Bowl(f, a, x))
    BY <1>3, <1>4, <1>5, <1>7
  <1>. QED  BY <1>1, <1>3, <1>4, <1>6, <1>8

(* A parabola between two others that is overtaken before it overtakes is    *)
(* nowhere below both; otherwise, where it is above the first, the third is  *)
(* not below it.                                                             *)
LEMMA ThreeBowls ==
  ASSUME NEW D \in SUBSET Int, NEW f \in [D -> Int], NEW a \in D, NEW b \in D, NEW c \in D, a < b, b < c, NEW x \in Int
  PROVE  /\ ~Before(Overtakes(f, a, b), Overtakes(f, b, c)) =>
              Bowl(f, a, x) <= Bowl(f, b, x) \/ Bowl(f, c, x) <= Bowl(f, b, x)
         /\ Before(Overtakes(f, a, b), Overtakes(f, b, c)) /\ Bowl(f, a, x) <= Bowl(f, b, x) =>
              Bowl(f, b, x) <= Bowl(f, c, x)
  <1>. DEFINE n1 == Overtakes(f, a, b)[1]   d1 == Overtakes(f, a, b)[2]
              n2 == Overtakes(f, b, c)[1]   d2 == Overtakes(f, b, c)[2]
              A == Bowl(f, a, x)   B == Bowl(f, b, x)   C == Bowl(f, c, x)
  <1>1. /\ A \in Int /\ B \in Int /\ n1 \in Int /\ d1 \in Nat /\ d1 > 0
        /\ x * d1 <= n1 <=> A <= B
    BY OvertakesAt
  <1>2. /\ C \in Int /\ n2 \in Int /\ d2 \in Nat /\ d2 > 0
        /\ x * d2 <= n2 <=> B <= C
    BY OvertakesAt
  <1>3. Before(Overtakes(f, a, b), Overtakes(f, b, c)) <=> n1 * d2 < n2 * d1
    BY DEF Before
  <1>. HIDE DEF n1, d1, n2, d2, A, B, C
  <1>4. x * d1 \in Int /\ x * d2 \in Int /\ n1 * d2 \in Int /\ n2 * d1 \in Int
    BY <1>1, <1>2
  <1>5. ASSUME ~(n1 * d2 < n2 * d1), ~(A <= B) PROVE C <= B
    <2>1. n2 * d1 <= n1 * d2 /\ x * d1 > n1
      BY <1>1, <1>4, <1>5
    <2>2. x * d2 > n2
      BY <1>1, <1>2, <2>1, FractionAbove
    <2>. QED  BY <1>1, <1>2, <1>4, <2>2
  <1>6. ASSUME n1 * d2 < n2 * d1, A <= B PROVE B <= C
    <2>1. x * d1 <= n1
      BY <1>1, <1>6
    <2>2. x * d2 <= n2
      BY <1>1, <1>2, <1>6, <2>1, FractionBelow
    <2>. QED  BY <1>2, <2>2
  <1>. QED  BY <1>3, <1>5, <1>6 DEF A, B, C

(* The parabolas v of the columns lo .. m that are kept: from left to right, *)
(* each overtaking the one before it before the next does, and at every x    *)
(* one of them is as low as any.                                             *)
IsEnvelope(v, f, lo, m) ==
  /\ v \in Seq(lo..m) /\ Len(v) >= 1 /\ v[Len(v)] = m
  /\ \A i \in 1..(Len(v) - 1) : v[i] < v[i + 1]
  /\ \A i \in 2..(Len(v) - 1) : Before(Overtakes(f, v[i - 1], v[i]), Overtakes(f, v[i], v[i + 1]))
  /\ \A p \in lo..m : \A x \in Int : \E k \in 1..Len(v) : Bowl(f, v[k], x) <= Bowl(f, p, x)

(* The parabolas that count after q's is added.                              *)
Counting(f, v, q) == {k \in DOMAIN v : k = 1 \/ Before(Overtakes(f, v[k - 1], v[k]), Overtakes(f, v[k], q))}

LastCounting(f, v, q) == Max(Counting(f, v, q))

(* The last of them is one of the sequence.                                  *)
LEMMA LastThatCounts ==
  ASSUME NEW T, NEW v \in Seq(T), Len(v) >= 1, NEW f, NEW q
  PROVE  LET K == LastCounting(f, v, q)
         IN  /\ K \in 1..Len(v) /\ K \in Counting(f, v, q) /\ \A k \in Counting(f, v, q) : k <= K
             /\ SubSeq(v, 1, K) \in Seq(T) /\ Len(SubSeq(v, 1, K)) = K
             /\ \A i \in 1..K : SubSeq(v, 1, K)[i] = v[i]
             /\ Envelope(f, v, q) = Append(SubSeq(v, 1, K), q)
  <1>. DEFINE counts == Counting(f, v, q)
              K == Max(counts)
  <1>1. Len(v) \in Nat /\ DOMAIN v = 1..Len(v)
    OBVIOUS
  <1>2. IsFiniteSet(1..Len(v)) /\ counts \subseteq 1..Len(v) /\ 1 \in counts
    BY <1>1, FS_Interval DEF Counting
  <1>3. Envelope(f, v, q) = Append(SubSeq(v, 1, K), q)
    BY DEF Envelope, Counting
  <1>. HIDE DEF counts
  <1>4. IsFiniteSet(counts) /\ counts \in SUBSET Int /\ counts # {}
    <2>1. IsFiniteSet(counts)
      BY <1>2, FS_Subset
    <2>2. 1..Len(v) \subseteq Int
      BY <1>1
    <2>. QED  BY <1>2, <2>1, <2>2
  <1>5. K \in counts /\ \A k \in counts : K >= k
    BY <1>4, MaxIs
  <1>. HIDE DEF K
  <1>6. K \in 1..Len(v) /\ \A k \in counts : k <= K
    BY <1>2, <1>5
  <1>7. \A i \in 1..K : v[i] \in T
    <2>1. \A i \in 1..K : i \in 1..Len(v)
      BY <1>6
    <2>. QED  BY <2>1, ElementOfSeq
  <1>8. /\ SubSeq(v, 1, K) \in Seq(T)
        /\ Len(SubSeq(v, 1, K)) = IF 1 <= K THEN K - 1 + 1 ELSE 0
        /\ \A i \in 1 .. K - 1 + 1 : SubSeq(v, 1, K)[i] = v[1 + i - 1]
    <2>1. 1 \in Int /\ K \in Int
      BY <1>6
    <2>. QED  BY <1>7, <2>1, SubSeqProperties
  <1>9. 1 <= K /\ K - 1 + 1 = K /\ \A i \in 1..K : 1 + i - 1 = i
    BY <1>6
  <1>10. /\ SubSeq(v, 1, K) \in Seq(T) /\ Len(SubSeq(v, 1, K)) = K
         /\ \A i \in 1..K : SubSeq(v, 1, K)[i] = v[i]
    BY <1>8, <1>9
  <1>. QED  BY <1>3, <1>5, <1>6, <1>10 DEF counts, K, LastCounting

(* The next parabola takes those off that it leaves nowhere lowest.          *)
LEMMA EnvelopeGrows ==
  ASSUME NEW lo \in Int, NEW hi \in Int, NEW f \in [lo..hi -> Int], NEW m \in lo..(hi - 1),
         NEW v, IsEnvelope(v, f, lo, m)
  PROVE  IsEnvelope(Envelope(f, v, m + 1), f, lo, m + 1)
  <1>. DEFINE q == m + 1
              counts == Counting(f, v, q)
              K == LastCounting(f, v, q)
              w == Append(SubSeq(v, 1, K), q)
  <1>1. /\ v \in Seq(lo..m) /\ Len(v) \in Nat /\ Len(v) >= 1 /\ v[Len(v)] = m /\ DOMAIN v = 1..Len(v)
        /\ \A i \in 1..(Len(v) - 1) : v[i] < v[i + 1]
        /\ \A i \in 2..(Len(v) - 1) : Before(Overtakes(f, v[i - 1], v[i]), Overtakes(f, v[i], v[i + 1]))
        /\ \A p \in lo..m : \A x \in Int : \E k \in 1..Len(v) : Bowl(f, v[k], x) <= Bowl(f, p, x)
    BY DEF IsEnvelope
  <1>v. v \in Seq(lo..m)
    BY <1>1
  <1>l. Len(v) \in Nat /\ Len(v) >= 1 /\ DOMAIN v = 1..Len(v)
    BY <1>1
  <1>2. \A i \in 1..Len(v) : v[i] \in lo..m /\ v[i] \in Int /\ v[i] < q
    <2>. TAKE i \in 1..Len(v)
    <2>1. v[i] \in lo..m
      BY <1>v, ElementOfSeq
    <2>. QED  BY <2>1
  <1>4. /\ K \in 1..Len(v) /\ K \in counts /\ \A k \in counts : k <= K
        /\ SubSeq(v, 1, K) \in Seq(lo..m) /\ Len(SubSeq(v, 1, K)) = K
        /\ \A i \in 1..K : SubSeq(v, 1, K)[i] = v[i]
        /\ Envelope(f, v, q) = w
    <2>. DEFINE T == lo..m
    <2>1. v \in Seq(T) /\ Len(v) >= 1
      BY <1>v, <1>l
    <2>. HIDE DEF q, T
    <2>2. /\ K \in 1..Len(v) /\ K \in counts /\ \A k \in counts : k <= K
          /\ SubSeq(v, 1, K) \in Seq(T) /\ Len(SubSeq(v, 1, K)) = K
          /\ \A i \in 1..K : SubSeq(v, 1, K)[i] = v[i]
          /\ Envelope(f, v, q) = w
      BY <2>1, LastThatCounts
    <2>. QED  BY <2>2 DEF T
  <1>k. K \in 1..Len(v)
    BY <1>4
  <1>5. /\ w \in Seq(lo..q) /\ Len(w) = K + 1 /\ w[K + 1] = q
        /\ \A i \in 1..K : w[i] = v[i]
    <2>. HIDE DEF K
    <2>1. SubSeq(v, 1, K) \in Seq(lo..m) /\ Len(SubSeq(v, 1, K)) = K /\ \A i \in 1..K : SubSeq(v, 1, K)[i] = v[i]
      BY <1>4
    <2>2. SubSeq(v, 1, K) \in Seq(lo..q) /\ q \in lo..q
      <3>1. \A n \in lo..m : n \in lo..q
        OBVIOUS
      <3>2. lo..m \subseteq lo..q /\ q \in lo..q
        BY <3>1
      <3>. HIDE DEF q
      <3>. QED  BY <2>1, <3>2, SeqMonotonic
    <2>. HIDE DEF q
    <2>. QED  BY <1>4, <2>1, <2>2, AppendProperties
  <1>6. \A k \in (K + 1)..Len(v) :
          ~Before(Overtakes(f, v[k - 1], v[k]), Overtakes(f, v[k], q))
    <2>. TAKE k \in (K + 1)..Len(v)
    <2>. HIDE DEF K
    <2>1. k \in DOMAIN v /\ k # 1 /\ ~(k <= K)
      BY <1>l, <1>k
    <2>2. k \notin counts
      BY <1>4, <2>1
    <2>. QED  BY <2>1, <2>2 DEF Counting
  <1>7. K # 1 => Before(Overtakes(f, v[K - 1], v[K]), Overtakes(f, v[K], q))
    <2>1. \A k \in counts : k # 1 => Before(Overtakes(f, v[k - 1], v[k]), Overtakes(f, v[k], q))
      BY DEF Counting
    <2>. QED  BY <1>4, <2>1
  <1>. HIDE DEF w, K, counts
  <1>8. \A i \in 1..(Len(w) - 1) : w[i] < w[i + 1]
    <2>. TAKE i \in 1..(Len(w) - 1)
    <2>1. CASE i = K
      BY <1>2, <1>4, <1>5, <2>1
    <2>2. CASE i < K
      <3>1. i \in 1..(Len(v) - 1) /\ i \in 1..K /\ i + 1 \in 1..K
        BY <1>1, <1>4, <1>5, <2>2
      <3>. QED  BY <1>1, <1>5, <3>1
    <2>. QED  BY <1>4, <1>5, <2>1, <2>2
  <1>9. \A i \in 2..(Len(w) - 1) : Before(Overtakes(f, w[i - 1], w[i]), Overtakes(f, w[i], w[i + 1]))
    <2>. TAKE i \in 2..(Len(w) - 1)
    <2>0. i - 1 \in 1..K /\ i \in 1..K
      BY <1>4, <1>5
    <2>1. CASE i = K
      <3>1. w[i - 1] = v[K - 1] /\ w[i] = v[K] /\ w[i + 1] = q /\ K # 1
        BY <1>5, <2>0, <2>1
      <3>. QED  BY <1>7, <3>1
    <2>2. CASE i < K
      <3>1. i \in 2..(Len(v) - 1) /\ i + 1 \in 1..K
        BY <1>1, <1>4, <1>5, <2>2
      <3>2. w[i - 1] = v[i - 1] /\ w[i] = v[i] /\ w[i + 1] = v[i + 1]
        BY <1>5, <2>0, <3>1
      <3>. QED  BY <1>1, <3>1, <3>2
    <2>. QED  BY <1>4, <2>0, <2>1, <2>2
  <1>10. ASSUME NEW x \in Int, NEW j \in 1..Len(v)
         PROVE  \E k \in 1..Len(w) : Bowl(f, w[k], x) <= Bowl(f, v[j], x)
    <2>. DEFINE h(k) == Bowl(f, v[k], x)
                Low(i) == (\E k \in 1..K : h(k) <= h(i)) \/ Bowl(f, q, x) <= h(i)
                S == {i \in Int : Low(i)}
    <2>h. ASSUME NEW k \in 1..Len(v) PROVE h(k) \in Int
      <3>1. v[k] \in lo..hi /\ f[v[k]] \in Int
        BY <1>2
      <3>. QED  BY <3>1 DEF Bowl
    <2>q. Bowl(f, q, x) \in Int
      <3>1. q \in lo..hi /\ f[q] \in Int
        OBVIOUS
      <3>. QED  BY <3>1 DEF Bowl
    <2>1. ASSUME NEW i \in 1..K PROVE i \in S
      <3>1. i \in 1..Len(v) /\ h(i) <= h(i)
        BY <1>4, <2>h
      <3>. QED  BY <3>1
    <2>2. ASSUME NEW i \in K..(Len(v) - 1), i \in S PROVE i + 1 \in S
      <3>1. /\ i \in 1..Len(v) /\ i + 1 \in 1..Len(v) /\ i + 1 \in (K + 1)..Len(v) /\ (i + 1) - 1 = i
            /\ i \in 1..(Len(v) - 1)
        BY <1>1, <1>4
      <3>2. v[i] \in lo..hi /\ v[i + 1] \in lo..hi /\ q \in lo..hi /\ v[i] < v[i + 1] /\ v[i + 1] < q
        <4>1. v[i] \in lo..m /\ v[i + 1] \in lo..m /\ v[i + 1] < q
          BY <1>2, <3>1
        <4>2. v[i] < v[i + 1]
          BY <1>1, <3>1
        <4>3. \A n \in lo..m : n \in lo..hi
          OBVIOUS
        <4>4. q \in lo..hi
          OBVIOUS
        <4>. HIDE DEF q
        <4>. QED  BY <4>1, <4>2, <4>3, <4>4
      <3>3. ~Before(Overtakes(f, v[i], v[i + 1]), Overtakes(f, v[i + 1], q))
        BY <1>6, <3>1
      <3>4. h(i) <= h(i + 1) \/ Bowl(f, q, x) <= h(i + 1)
        <4>. DEFINE a == v[i]   b == v[i + 1]
        <4>1. lo..hi \in SUBSET Int
          OBVIOUS
        <4>2. a \in lo..hi /\ b \in lo..hi /\ q \in lo..hi /\ a < b /\ b < q
          BY <3>2
        <4>3. ~Before(Overtakes(f, a, b), Overtakes(f, b, q))
          BY <3>3
        <4>. HIDE DEF q, a, b
        <4>4. Bowl(f, a, x) <= Bowl(f, b, x) \/ Bowl(f, q, x) <= Bowl(f, b, x)
          BY <4>1, <4>2, <4>3, ThreeBowls
        <4>. QED  BY <4>4 DEF a, b
      <3>5. h(i) \in Int /\ h(i + 1) \in Int /\ \A k \in 1..K : h(k) \in Int
        <4>1. \A k \in 1..K : k \in 1..Len(v)
          BY <1>k, <1>l
        <4>. HIDE DEF h
        <4>. QED  BY <2>h, <3>1, <4>1
      <3>6. Low(i)
        BY <2>2
      <3>. HIDE DEF h
      <3>7. Low(i + 1)
        BY <2>q, <3>4, <3>5, <3>6
      <3>. QED  BY <3>7
    <2>3. j \in S
      <3>1. CASE j <= K
        BY <1>4, <2>1, <3>1
      <3>2. CASE K < j
        <4>a. K \in 1..K /\ K \in Int /\ Len(v) \in Int /\ j \in K..Len(v)
          BY <1>l, <1>k, <3>2
        <4>b. K \in S
          BY <2>1, <4>a
        <4>1. K \in S /\ K \in Int /\ Len(v) \in Int /\ j \in K..Len(v)
          BY <4>a, <4>b
        <4>. HIDE DEF S
        <4>2. K..Len(v) \subseteq S
          BY <2>2, <4>1, IntervalInduction
        <4>. QED  BY <4>1, <4>2
      <3>. QED  BY <1>4, <3>1, <3>2
    <2>4. CASE \E k \in 1..K : h(k) <= h(j)
      <3>1. PICK k \in 1..K : h(k) <= h(j)
        BY <2>4
      <3>2. k \in 1..Len(w) /\ w[k] = v[k]
        BY <1>4, <1>5
      <3>. QED  BY <3>1, <3>2
    <2>5. CASE Bowl(f, q, x) <= h(j)
      <3>1. K + 1 \in 1..Len(w) /\ w[K + 1] = q
        BY <1>4, <1>5
      <3>. QED  BY <2>5, <3>1
    <2>. QED  BY <2>3, <2>4, <2>5
  <1>11. ASSUME NEW p \in lo..q, NEW x \in Int
         PROVE  \E k \in 1..Len(w) : Bowl(f, w[k], x) <= Bowl(f, p, x)
    <2>h. \A n \in lo..hi : Bowl(f, n, x) \in Int
      BY DEF Bowl
    <2>1. CASE p = q
      <3>1. K + 1 \in 1..Len(w) /\ w[K + 1] = q /\ q \in lo..hi
        BY <1>4, <1>5
      <3>. QED  BY <2>1, <2>h, <3>1
    <2>2. CASE p # q
      <3>1. p \in lo..m /\ p \in lo..hi
        BY <2>2
      <3>2. PICK j \in 1..Len(v) : Bowl(f, v[j], x) <= Bowl(f, p, x)
        BY <1>1, <3>1
      <3>3. PICK k \in 1..Len(w) : Bowl(f, w[k], x) <= Bowl(f, v[j], x)
        BY <1>10
      <3>4. w[k] \in lo..hi /\ v[j] \in lo..hi
        <4>1. w \in Seq(lo..q) /\ v[j] \in lo..m
          BY <1>2, <1>5
        <4>2. w[k] \in lo..q
          BY <4>1, ElementOfSeq
        <4>3. \A n \in Int : n \in lo..q \/ n \in lo..m => n \in lo..hi
          OBVIOUS
        <4>4. lo..q \subseteq Int /\ lo..m \subseteq Int
          OBVIOUS
        <4>. HIDE DEF q
        <4>. QED  BY <4>1, <4>2, <4>3, <4>4
      <3>5. Bowl(f, w[k], x) \in Int /\ Bowl(f, v[j], x) \in Int /\ Bowl(f, p, x) \in Int
        BY <2>h, <3>1, <3>4
      <3>. HIDE DEF w
      <3>6. Bowl(f, w[k], x) <= Bowl(f, p, x)
        BY <3>2, <3>3, <3>5
      <3>. QED  BY <3>6
    <2>. QED  BY <2>1, <2>2
  <1>12. Len(w) >= 1 /\ w[Len(w)] = q
    BY <1>4, <1>5
  <1>. HIDE DEF q
  <1>13. IsEnvelope(w, f, lo, q)
    BY <1>5, <1>8, <1>9, <1>11, <1>12 DEF IsEnvelope
  <1>. QED  BY <1>4, <1>13 DEF q

(* The parabolas left at the end are an envelope of all of them.             *)
LEMMA EnvelopeOfAll ==
  ASSUME NEW lo \in Int, NEW hi \in Int, lo <= hi, NEW f \in [lo..hi -> Int]
  PROVE  IsEnvelope(FoldLeft(LAMBDA env, q : Envelope(f, env, q), <<lo>>, [i \in 1..(hi - lo) |-> lo + i]), f, lo, hi)
  <1>. DEFINE n == hi - lo
              s == [i \in 1..(hi - lo) |-> lo + i]
              A == {v \in Seq(lo..hi) : Len(v) >= 1}
              next(v, k) == Envelope(f, v, s[k])
              rec(iter) == [t \in SUBSET (DOMAIN s) |-> IF t = {} THEN <<lo>> ELSE next(iter[t \ {Max(t)}], Max(t))]
              it == CHOOSE iter : iter = rec(iter)
              step == [p \in A \X Nat |-> IF p[2] \in 1..n THEN next(p[1], p[2]) ELSE p[1]]
  <1>1. FoldLeft(LAMBDA env, q : Envelope(f, env, q), <<lo>>, [i \in 1..(hi - lo) |-> lo + i]) = it[DOMAIN s]
    BY DEF FoldLeft, MapThenFoldSet
  <1>2. n \in Nat /\ DOMAIN s = 1..n /\ \A k \in 1..n : s[k] = lo + k /\ s[k] \in lo..hi
    OBVIOUS
  <1>. HIDE DEF s, n
  <1>3. \A v \in A, k \in 1..n : next(v, k) \in A
    <2>. TAKE v \in A
    <2>. TAKE k \in 1..n
    <2>1. s[k] \in lo..hi
      BY <1>2
    <2>. DEFINE sub == SubSeq(v, 1, LastCounting(f, v, s[k]))
    <2>2. next(v, k) = Append(sub, s[k]) /\ sub \in Seq(lo..hi)
      <3>. DEFINE T == lo..hi   q == s[k]
      <3>1. v \in Seq(T) /\ Len(v) >= 1
        OBVIOUS
      <3>. HIDE DEF T, q, A
      <3>2. /\ Envelope(f, v, q) = Append(SubSeq(v, 1, LastCounting(f, v, q)), q)
            /\ SubSeq(v, 1, LastCounting(f, v, q)) \in Seq(T)
        BY <3>1, LastThatCounts
      <3>. QED  BY <3>2 DEF T, q
    <2>. HIDE DEF next, sub
    <2>3. Append(sub, s[k]) \in Seq(lo..hi) /\ Len(Append(sub, s[k])) >= 1
      BY <2>1, <2>2, AppendProperties
    <2>. QED  BY <2>2, <2>3
  <1>4. step \in [A \X Nat -> A]
    <2>. HIDE DEF next, A
    <2>. QED  BY <1>3
  <1>5. <<lo>> \in A
    OBVIOUS
  <1>. HIDE DEF A, next
  <1>h. PICK e : Folds(e, n, A, <<lo>>, step)
    <2>. HIDE DEF step
    <2>. QED  BY <1>2, <1>4, <1>5, FoldExists
  <1>6. /\ e \in [SUBSET (1..n) -> A]
        /\ \A t \in SUBSET (1..n) : e[t] = IF t = {} THEN <<lo>> ELSE step[<<e[t \ {Max(t)}], Max(t)>>]
    BY <1>h DEF Folds
  <1>7. ASSUME NEW t \in SUBSET (1..n), t # {}
        PROVE  step[<<e[t \ {Max(t)}], Max(t)>>] = next(e[t \ {Max(t)}], Max(t))
    <2>1. Max(t) \in 1..n
      BY <1>2, <1>7, MaxOfPart
    <2>2. e[t \ {Max(t)}] \in A
      BY <1>6
    <2>. QED  BY <2>1, <2>2
  <1>8. e = rec(e)
    <2>1. \A t \in SUBSET (1..n) : e[t] = IF t = {} THEN <<lo>> ELSE next(e[t \ {Max(t)}], Max(t))
      BY <1>6, <1>7, Zenon
    <2>. QED  BY <1>2, <1>6, <2>1
  <1>9. it = rec(it)
    <2>. HIDE DEF rec
    <2>. QED  BY <1>8, Zenon
  <1>. HIDE DEF it
  <1>10. it[1..0] = <<lo>>
    BY <1>2, <1>9
  <1>11. \A k \in 1..n : it[1..k] = next(it[1..(k - 1)], k)
    <2>. TAKE k \in 1..n
    <2>1. 1..k \in SUBSET (DOMAIN s)
      BY <1>2
    <2>2. k \in Nat /\ k # 0
      OBVIOUS
    <2>. QED  BY <1>9, <2>1, <2>2, MaxUpTo, Zenon
  <1>. DEFINE S == {k \in Nat : IsEnvelope(it[1..k], f, lo, lo + k)}
  <1>12. 0 \in S
    <2>1. lo + 0 = lo /\ lo..lo = {lo} /\ f[lo] \in Int
      OBVIOUS
    <2>2. <<lo>> \in Seq(lo..lo) /\ Len(<<lo>>) = 1 /\ <<lo>>[1] = lo
      BY <2>1
    <2>3. \A x \in Int : Bowl(f, lo, x) <= Bowl(f, lo, x)
      BY <2>1 DEF Bowl
    <2>4. \A p \in lo..lo : \A x \in Int : \E k \in 1..Len(<<lo>>) : Bowl(f, <<lo>>[k], x) <= Bowl(f, p, x)
      <3>1. 1 \in 1..Len(<<lo>>)
        OBVIOUS
      <3>. QED  BY <2>1, <2>2, <2>3, <3>1, Zenon
    <2>5. 1..(Len(<<lo>>) - 1) = {} /\ 2..(Len(<<lo>>) - 1) = {} /\ Len(<<lo>>) >= 1 /\ <<lo>>[Len(<<lo>>)] = lo
      BY <2>2
    <2>6. IsEnvelope(<<lo>>, f, lo, lo)
      BY <2>2, <2>4, <2>5 DEF IsEnvelope
    <2>. QED  BY <1>10, <2>1, <2>6
  <1>13. ASSUME NEW k \in 0..(n - 1), k \in S PROVE k + 1 \in S
    <2>1. k + 1 \in 1..n /\ (k + 1) - 1 = k /\ IsEnvelope(it[1..k], f, lo, lo + k) /\ k + 1 \in Nat
      BY <1>2, <1>13
    <2>2. it[1..(k + 1)] = next(it[1..k], k + 1)
      BY <1>11, <2>1
    <2>3. s[k + 1] = (lo + k) + 1 /\ (lo + k) + 1 = lo + (k + 1)
      BY <1>2, <2>1
    <2>4. lo + k \in lo..(hi - 1)
      BY <2>1 DEF n
    <2>5. IsEnvelope(Envelope(f, it[1..k], (lo + k) + 1), f, lo, (lo + k) + 1)
      BY <2>1, <2>4, EnvelopeGrows
    <2>6. IsEnvelope(it[1..(k + 1)], f, lo, lo + (k + 1))
      BY <2>2, <2>3, <2>5 DEF next
    <2>. QED  BY <2>1, <2>6
  <1>14. n \in S
    <2>. HIDE DEF S
    <2>0. 0 \in Int /\ n \in Int /\ n \in 0..n
      BY <1>2
    <2>1. 0..n \subseteq S
      BY <1>12, <1>13, <2>0, IntervalInduction
    <2>. QED  BY <2>0, <2>1
  <1>15. lo + n = hi
    BY DEF n
  <1>. QED  BY <1>1, <1>2, <1>14, <1>15

(* Min is the least of finitely many numbers.                                *)
LEMMA MinIs ==
  ASSUME NEW S \in SUBSET Int, IsFiniteSet(S), S # {}
  PROVE  Min(S) \in S /\ \A y \in S : Min(S) <= y
  <1>. DEFINE T == {-x : x \in S}
              g == [x \in S |-> -x]
  <1>1. g \in Surjection(S, T)
    BY DEF Surjection
  <1>2. T \in SUBSET Int /\ T # {}
    <2>1. \A x \in S : x \in Int /\ -x \in Int
      OBVIOUS
    <2>2. \A y \in T : y \in Int
      BY <2>1
    <2>3. PICK x \in S : TRUE
      OBVIOUS
    <2>4. -x \in T
      OBVIOUS
    <2>. HIDE DEF T
    <2>. QED  BY <2>2, <2>4
  <1>3. IsFiniteSet(T)
    <2>. HIDE DEF g, T
    <2>. QED  BY <1>1, FS_Surjection
  <1>4. Max(T) \in T /\ \A y \in T : Max(T) >= y
    <2>. HIDE DEF T
    <2>. QED  BY <1>2, <1>3, MaxIs
  <1>5. PICK x \in S : Max(T) = -x
    BY <1>4
  <1>6. \A y \in S : x <= y
    <2>. TAKE y \in S
    <2>1. -y \in T /\ x \in Int /\ y \in Int
      OBVIOUS
    <2>. HIDE DEF T
    <2>2. -x >= -y
      BY <1>4, <1>5, <2>1
    <2>. QED  BY <2>1, <2>2
  <1>. QED  BY <1>6 DEF Min

(* Of the envelope's parabolas the first one not yet overtaken is lowest.    *)
LEMMA FirstIsLowest ==
  ASSUME NEW lo \in Int, NEW hi \in Int, NEW f \in [lo..hi -> Int], NEW v, IsEnvelope(v, f, lo, hi), NEW x \in Int
  PROVE  LET L == Min({k \in DOMAIN v : k = Len(v) \/ ~Before(Overtakes(f, v[k], v[k + 1]), <<x, 1>>)})
         IN  L \in 1..Len(v) /\ \A k \in 1..Len(v) : Bowl(f, v[L], x) <= Bowl(f, v[k], x)
  <1>. DEFINE stays == {k \in DOMAIN v : k = Len(v) \/ ~Before(Overtakes(f, v[k], v[k + 1]), <<x, 1>>)}
              L == Min(stays)
              h(k) == Bowl(f, v[k], x)
  <1>1. /\ v \in Seq(lo..hi) /\ Len(v) >= 1
        /\ \A i \in 1..(Len(v) - 1) : v[i] < v[i + 1]
        /\ \A i \in 2..(Len(v) - 1) : Before(Overtakes(f, v[i - 1], v[i]), Overtakes(f, v[i], v[i + 1]))
    BY DEF IsEnvelope
  <1>v. v \in Seq(lo..hi)
    BY <1>1
  <1>2. Len(v) \in Nat /\ Len(v) >= 1 /\ DOMAIN v = 1..Len(v)
    BY <1>1
  <1>l. Len(v) \in Int
    BY <1>2
  <1>3. \A i \in 1..Len(v) : v[i] \in lo..hi
    BY <1>v, ElementOfSeq
  <1>d. lo..hi \in SUBSET Int
    OBVIOUS
  <1>4. L \in stays /\ \A k \in stays : L <= k
    <2>1. IsFiniteSet(1..Len(v)) /\ stays \subseteq 1..Len(v) /\ Len(v) \in stays
      BY <1>2, FS_Interval
    <2>2. 1..Len(v) \subseteq Int
      BY <1>2
    <2>. HIDE DEF stays
    <2>3. IsFiniteSet(stays) /\ stays \in SUBSET Int /\ stays # {}
      <3>1. IsFiniteSet(stays)
        BY <2>1, FS_Subset
      <3>. QED  BY <2>1, <2>2, <3>1
    <2>. QED  BY <2>3, MinIs
  <1>5. L \in 1..Len(v) /\ (L = Len(v) \/ ~Before(Overtakes(f, v[L], v[L + 1]), <<x, 1>>))
    BY <1>2, <1>4
  <1>i. L \in 1..Len(v) /\ L \in Int
    <2>1. L \in 1..Len(v)
      BY <1>5
    <2>. HIDE DEF L
    <2>. QED  BY <2>1
  <1>6. \A k \in 1..(Len(v) - 1) : k < L => Before(Overtakes(f, v[k], v[k + 1]), <<x, 1>>)
    <2>. TAKE k \in 1..(Len(v) - 1)
    <2>. HIDE DEF L, stays
    <2>1. k \in 1..Len(v) /\ k # Len(v) /\ (k < L => ~(L <= k))
      BY <1>l, <1>i
    <2>2. k \in DOMAIN v /\ k # Len(v) /\ (k < L => ~(L <= k))
      BY <1>2, <2>1
    <2>3. k \in stays => L <= k
      BY <1>4
    <2>. QED  BY <2>2, <2>3 DEF stays
  <1>. HIDE DEF stays, L
  <1>n. \A i \in 1..(Len(v) - 1) : i \in 1..Len(v) /\ i + 1 \in 1..Len(v)
    BY <1>2
  <1>7. \A i \in 1..Len(v) : h(i) \in Int
    <2>. TAKE i \in 1..Len(v)
    <2>1. v[i] \in lo..hi /\ f[v[i]] \in Int /\ v[i] \in Int
      BY <1>3
    <2>. QED  BY <2>1 DEF Bowl
  <1>8. \A i \in 1..(Len(v) - 1) :
          /\ v[i] \in lo..hi /\ v[i + 1] \in lo..hi /\ v[i] < v[i + 1]
          /\ Before(Overtakes(f, v[i], v[i + 1]), <<x, 1>>) <=> h(i + 1) < h(i)
    <2>. TAKE i \in 1..(Len(v) - 1)
    <2>1. v[i] \in lo..hi /\ v[i + 1] \in lo..hi /\ v[i] < v[i + 1]
      BY <1>1, <1>3, <1>n
    <2>. QED  BY <1>d, <2>1, OvertakesAt
  <1>9. ASSUME NEW k \in 1..Len(v), k < L PROVE h(L) <= h(k)
    <2>. DEFINE S == {i \in Int : h(i) <= h(k)}
    <2>1. k \in S
      BY <1>7
    <2>2. ASSUME NEW i \in k..(L - 1), i \in S PROVE i + 1 \in S
      <3>1. i \in 1..(Len(v) - 1) /\ i < L /\ i + 1 \in Int
        BY <1>l, <1>i
      <3>2. h(i) \in Int /\ h(i + 1) \in Int /\ h(k) \in Int
        BY <1>7, <1>n, <3>1
      <3>3. h(i + 1) < h(i)
        BY <1>6, <1>8, <3>1
      <3>4. h(i) <= h(k)
        BY <2>2
      <3>. HIDE DEF h
      <3>. QED  BY <3>1, <3>2, <3>3, <3>4
    <2>3. k \in Int /\ L \in Int /\ L \in k..L
      BY <1>5, <1>9
    <2>. HIDE DEF S
    <2>4. k..L \subseteq S
      BY <2>1, <2>2, <2>3, IntervalInduction
    <2>. QED  BY <2>3, <2>4 DEF S
  <1>10. ASSUME NEW k \in 1..Len(v), L < k PROVE h(L) <= h(k)
    <2>. DEFINE S == {i \in Int : h(i) <= h(i + 1) /\ h(L) <= h(i + 1)}
    <2>1. L \in S
      <3>1. L \in 1..(Len(v) - 1) /\ L # Len(v) /\ L \in Int
        BY <1>l, <1>i, <1>10
      <3>2. ~(h(L + 1) < h(L)) /\ h(L) \in Int /\ h(L + 1) \in Int
        BY <1>5, <1>7, <1>8, <1>n, <3>1
      <3>. HIDE DEF h
      <3>. QED  BY <3>1, <3>2
    <2>2. ASSUME NEW i \in L..((k - 1) - 1), i \in S PROVE i + 1 \in S
      <3>1. /\ i \in 1..(Len(v) - 1) /\ i + 1 \in 1..(Len(v) - 1) /\ i + 1 \in 2..(Len(v) - 1)
            /\ (i + 1) - 1 = i /\ i + 1 \in Int
        BY <1>l, <1>i
      <3>2. Before(Overtakes(f, v[i], v[i + 1]), Overtakes(f, v[i + 1], v[(i + 1) + 1]))
        <4>1. Before(Overtakes(f, v[(i + 1) - 1], v[i + 1]), Overtakes(f, v[i + 1], v[(i + 1) + 1]))
          BY <1>1, <3>1
        <4>. QED  BY <3>1, <4>1
      <3>3. h(i) <= h(i + 1) /\ h(L) <= h(i + 1)
        BY <2>2
      <3>4. /\ v[i] \in lo..hi /\ v[i + 1] \in lo..hi /\ v[(i + 1) + 1] \in lo..hi
            /\ v[i] < v[i + 1] /\ v[i + 1] < v[(i + 1) + 1]
        BY <1>8, <3>1
      <3>5. h(i + 1) <= h((i + 1) + 1)
        <4>. DEFINE a == v[i]   b == v[i + 1]   c == v[(i + 1) + 1]
        <4>1. a \in lo..hi /\ b \in lo..hi /\ c \in lo..hi /\ a < b /\ b < c
          BY <3>4
        <4>2. Before(Overtakes(f, a, b), Overtakes(f, b, c)) /\ Bowl(f, a, x) <= Bowl(f, b, x)
          BY <3>2, <3>3
        <4>. HIDE DEF a, b, c
        <4>3. Bowl(f, b, x) <= Bowl(f, c, x)
          BY <1>d, <4>1, <4>2, ThreeBowls
        <4>. QED  BY <4>3 DEF b, c
      <3>6. h(L) \in Int /\ h(i + 1) \in Int /\ h((i + 1) + 1) \in Int
        BY <1>5, <1>7, <1>n, <3>1
      <3>. HIDE DEF h
      <3>. QED  BY <3>1, <3>3, <3>5, <3>6
    <2>3. L \in Int /\ k - 1 \in Int /\ k - 1 \in L..(k - 1) /\ (k - 1) + 1 = k
      BY <1>5, <1>10
    <2>. HIDE DEF S
    <2>4. L..(k - 1) \subseteq S
      BY <2>1, <2>2, <2>3, IntervalInduction
    <2>5. k - 1 \in S
      BY <2>3, <2>4
    <2>6. h(L) <= h((k - 1) + 1)
      BY <2>5 DEF S
    <2>. QED  BY <2>3, <2>6
  <1>11. \A k \in 1..Len(v) : k < L \/ k = L \/ L < k
    BY <1>i
  <1>12. h(L) <= h(L)
    BY <1>5, <1>7
  <1>13. \A k \in 1..Len(v) : h(L) <= h(k)
    <2>. HIDE DEF h
    <2>. QED  BY <1>9, <1>10, <1>11, <1>12
  <1>. QED  BY <1>5, <1>13 DEF L, stays

(* Edt1 is the least height over each column: exact, as its source says.     *)
LEMMA EdtIsExact ==
  ASSUME NEW lo \in Int, NEW hi \in Int, lo <= hi, NEW f \in [lo..hi -> Int], NEW x \in lo..hi
  PROVE  /\ Edt1(f, lo, hi)[x] \in Int
         /\ \E p \in lo..hi : Edt1(f, lo, hi)[x] = Bowl(f, p, x)
         /\ \A p \in lo..hi : Edt1(f, lo, hi)[x] <= Bowl(f, p, x)
  <1>. DEFINE v == FoldLeft(LAMBDA env, q : Envelope(f, env, q), <<lo>>, [i \in 1..(hi - lo) |-> lo + i])
              low(q) == Min({k \in DOMAIN v : k = Len(v) \/ ~Before(Overtakes(f, v[k], v[k + 1]), <<q, 1>>)})
              L == low(x)
  <1>1. Edt1(f, lo, hi) = [q \in lo..hi |-> (q - v[low(q)]) * (q - v[low(q)]) + f[v[low(q)]]]
    BY DEF Edt1
  <1>2. Edt1(f, lo, hi)[x] = (x - v[L]) * (x - v[L]) + f[v[L]]
    <2>. HIDE DEF low
    <2>. QED  BY <1>1
  <1>3. Edt1(f, lo, hi)[x] = Bowl(f, v[L], x)
    <2>. HIDE DEF L
    <2>. QED  BY <1>2 DEF Bowl
  <1>4. IsEnvelope(v, f, lo, hi)
    BY EnvelopeOfAll
  <1>. HIDE DEF v
  <1>5. L \in 1..Len(v) /\ \A k \in 1..Len(v) : Bowl(f, v[L], x) <= Bowl(f, v[k], x)
    <2>1. x \in Int
      OBVIOUS
    <2>. QED  BY <1>4, <2>1, FirstIsLowest
  <1>. HIDE DEF L
  <1>6. \A n \in lo..hi : Bowl(f, n, x) \in Int
    BY DEF Bowl
  <1>7. \A i \in 1..Len(v) : v[i] \in lo..hi
    <2>1. v \in Seq(lo..hi)
      BY <1>4 DEF IsEnvelope
    <2>. QED  BY <2>1, ElementOfSeq
  <1>8. ASSUME NEW p \in lo..hi PROVE Bowl(f, v[L], x) <= Bowl(f, p, x)
    <2>1. PICK k \in 1..Len(v) : Bowl(f, v[k], x) <= Bowl(f, p, x)
      <3>1. \A n \in lo..hi : \A y \in Int : \E k \in 1..Len(v) : Bowl(f, v[k], y) <= Bowl(f, n, y)
        BY <1>4 DEF IsEnvelope
      <3>2. x \in Int
        OBVIOUS
      <3>. QED  BY <3>1, <3>2
    <2>2. Bowl(f, v[L], x) \in Int /\ Bowl(f, v[k], x) \in Int /\ Bowl(f, p, x) \in Int
      BY <1>5, <1>6, <1>7
    <2>3. Bowl(f, v[L], x) <= Bowl(f, v[k], x)
      BY <1>5
    <2>. QED  BY <2>1, <2>2, <2>3
  <1>. QED  BY <1>3, <1>5, <1>6, <1>7, <1>8

-----------------------------------------------------------------------------
(* Squares: they are not negative, grow with the number, and a product of    *)
(* two numbers is not below the square of a number that is below both.       *)
LEMMA SquareFacts ==
  ASSUME NEW n \in Int
  PROVE  n * n \in Nat /\ (n * n = 0 => n = 0)
  <1>1. CASE n >= 0
    BY <1>1
  <1>2. CASE n < 0
    <2>1. (-n) * (-n) = n * n /\ -n > 0
      BY <1>2
    <2>. QED  BY <1>2, <2>1
  <1>. QED  BY <1>1, <1>2

LEMMA SquareGrows ==
  ASSUME NEW n \in Int, NEW r \in Nat, n <= r, -r <= n
  PROVE  n * n <= r * r
  <1>1. ASSUME NEW k \in Nat, k <= r PROVE k * k <= r * r
    <2>1. k * k <= k * r
      BY <1>1
    <2>2. k * r <= r * r
      BY <1>1
    <2>. QED  BY <2>1, <2>2
  <1>2. CASE n >= 0
    BY <1>1, <1>2
  <1>3. CASE n < 0
    <2>1. -n \in Nat /\ -n <= r /\ (-n) * (-n) = n * n
      BY <1>3
    <2>. QED  BY <1>1, <2>1
  <1>. QED  BY <1>2, <1>3

LEMMA ProductGrows ==
  ASSUME NEW r \in Nat, NEW n \in Nat, NEW m \in Nat, r <= n, r <= m
  PROVE  r * r <= n * m
  <1>1. r * r <= r * m
    OBVIOUS
  <1>2. r * m <= n * m
    OBVIOUS
  <1>. QED  BY <1>1, <1>2

LEMMA DistFacts ==
  ASSUME NEW c \in Int \X Int, NEW d \in Int \X Int
  PROVE  /\ SquaredDist(c, d) = (c[1] - d[1]) * (c[1] - d[1]) + (c[2] - d[2]) * (c[2] - d[2])
         /\ SquaredDist(c, d) \in Nat
         /\ SquaredDist(c, d) = 0 <=> c = d
  <1>. DEFINE a == c[1] - d[1]   b == c[2] - d[2]
  <1>1. c[1] \in Int /\ c[2] \in Int /\ d[1] \in Int /\ d[2] \in Int /\ c = <<c[1], c[2]>> /\ d = <<d[1], d[2]>>
    OBVIOUS
  <1>2. a \in Int /\ b \in Int
    BY <1>1
  <1>3. SquaredDist(c, d) = a * a + b * b
    BY DEF SquaredDist, Square
  <1>4. a = 0 /\ b = 0 <=> c = d
    <2>1. a = 0 <=> c[1] = d[1]
      BY <1>1
    <2>2. b = 0 <=> c[2] = d[2]
      BY <1>1
    <2>. QED  BY <1>1, <2>1, <2>2
  <1>. HIDE DEF a, b
  <1>5. a * a \in Nat /\ b * b \in Nat /\ (a * a = 0 => a = 0) /\ (b * b = 0 => b = 0)
    BY <1>2, SquareFacts
  <1>6. (a = 0 => a * a = 0) /\ (b = 0 => b * b = 0)
    OBVIOUS
  <1>7. a * a + b * b \in Nat /\ (a * a + b * b = 0 <=> a = 0 /\ b = 0)
    BY <1>5, <1>6
  <1>. QED  BY <1>3, <1>4, <1>7 DEF a, b

(* What is left in a cell by one pass over the rows and one over the columns *)
(* of the numbers g.                                                         *)
Passes(g, lx, hx, ly, hy, x, y) ==
  LET rows == [n \in lx..hx |-> Edt1([k \in ly..hy |-> g[<<n, k>>]], ly, hy)]
  IN  Edt1([n \in lx..hx |-> rows[n][y]], lx, hx)[x]

(* One pass over the rows and one over the columns give the least of the     *)
(* cells' values, with the squared distance added, over all cells.           *)
LEMMA TwoPasses ==
  ASSUME NEW lx \in Int, NEW hx \in Int, lx <= hx, NEW ly \in Int, NEW hy \in Int, ly <= hy,
         NEW g \in [(lx..hx) \X (ly..hy) -> Int], NEW x \in lx..hx, NEW y \in ly..hy
  PROVE  LET value == Passes(g, lx, hx, ly, hy, x, y)
         IN  /\ \E o \in (lx..hx) \X (ly..hy) : value = g[o] + SquaredDist(<<x, y>>, o)
             /\ \A o \in (lx..hx) \X (ly..hy) : value <= g[o] + SquaredDist(<<x, y>>, o)
             /\ value \in Int
  <1>. DEFINE row(n) == [k \in ly..hy |-> g[<<n, k>>]]
              rows == [n \in lx..hx |-> Edt1(row(n), ly, hy)]
              f == [n \in lx..hx |-> rows[n][y]]
              value == Edt1(f, lx, hx)[x]
              X == lx..hx   Y == ly..hy
  <1>1. \A n \in X, k \in Y : g[<<n, k>>] \in Int /\ n \in Int /\ k \in Int
    <2>. TAKE n \in X
    <2>. TAKE k \in Y
    <2>1. <<n, k>> \in X \X Y
      OBVIOUS
    <2>. QED  BY <2>1
  <1>2. \A n \in X : /\ row(n) \in [ly..hy -> Int]
                     /\ \A k \in Y : Bowl(row(n), k, y) = (y - k) * (y - k) + g[<<n, k>>]
    <2>. TAKE n \in X
    <2>1. row(n) \in [ly..hy -> Int]
      BY <1>1
    <2>2. \A k \in Y : row(n)[k] = g[<<n, k>>]
      OBVIOUS
    <2>. HIDE DEF row
    <2>. QED  BY <2>1, <2>2 DEF Bowl
  <1>. HIDE DEF row
  <1>3. \A n \in X : /\ f[n] = Edt1(row(n), ly, hy)[y] /\ f[n] \in Int
                     /\ \E k \in Y : f[n] = (y - k) * (y - k) + g[<<n, k>>]
                     /\ \A k \in Y : f[n] <= (y - k) * (y - k) + g[<<n, k>>]
    <2>. TAKE n \in X
    <2>1. f[n] = Edt1(row(n), ly, hy)[y]
      OBVIOUS
    <2>2. row(n) \in [ly..hy -> Int] /\ \A k \in Y : Bowl(row(n), k, y) = (y - k) * (y - k) + g[<<n, k>>]
      BY <1>2
    <2>. HIDE DEF f
    <2>3. /\ Edt1(row(n), ly, hy)[y] \in Int
          /\ \E k \in Y : Edt1(row(n), ly, hy)[y] = Bowl(row(n), k, y)
          /\ \A k \in Y : Edt1(row(n), ly, hy)[y] <= Bowl(row(n), k, y)
      BY <2>2, EdtIsExact
    <2>. QED  BY <2>1, <2>2, <2>3
  <1>4. f \in [lx..hx -> Int] /\ \A n \in X : Bowl(f, n, x) = (x - n) * (x - n) + f[n]
    <2>1. DOMAIN f = X /\ f = [n \in X |-> f[n]]
      OBVIOUS
    <2>. HIDE DEF f
    <2>2. f \in [lx..hx -> Int]
      BY <1>3, <2>1
    <2>. QED  BY <2>2 DEF Bowl
  <1>. HIDE DEF f
  <1>5. /\ value \in Int
        /\ \E n \in X : value = Bowl(f, n, x)
        /\ \A n \in X : value <= Bowl(f, n, x)
    BY <1>4, EdtIsExact
  <1>. HIDE DEF value
  <1>6. \A n \in X, k \in Y : /\ <<n, k>> \in X \X Y
                              /\ SquaredDist(<<x, y>>, <<n, k>>) = (x - n) * (x - n) + (y - k) * (y - k)
                              /\ (x - n) * (x - n) \in Int /\ (y - k) * (y - k) \in Int
    <2>. TAKE n \in X
    <2>. TAKE k \in Y
    <2>1. n \in Int /\ k \in Int /\ x \in Int /\ y \in Int
      OBVIOUS
    <2>. HIDE DEF X, Y
    <2>2. (x - n) * (x - n) \in Int /\ (y - k) * (y - k) \in Int
      BY <2>1
    <2>. QED  BY <2>2 DEF SquaredDist, Square, X, Y
  <1>7. \E o \in X \X Y : value = g[o] + SquaredDist(<<x, y>>, o)
    <2>1. PICK n \in X : value = (x - n) * (x - n) + f[n]
      BY <1>4, <1>5
    <2>2. PICK k \in Y : f[n] = (y - k) * (y - k) + g[<<n, k>>]
      BY <1>3
    <2>. HIDE DEF X, Y
    <2>3. /\ g[<<n, k>>] \in Int /\ (x - n) * (x - n) \in Int /\ (y - k) * (y - k) \in Int
          /\ <<n, k>> \in X \X Y
          /\ SquaredDist(<<x, y>>, <<n, k>>) = (x - n) * (x - n) + (y - k) * (y - k)
      BY <1>1, <1>6
    <2>. DEFINE u == (x - n) * (x - n)   w == (y - k) * (y - k)   e == g[<<n, k>>]
    <2>4. value = u + (w + e) /\ u \in Int /\ w \in Int /\ e \in Int /\ SquaredDist(<<x, y>>, <<n, k>>) = u + w
      BY <2>1, <2>2, <2>3
    <2>. HIDE DEF u, w
    <2>5. value = e + SquaredDist(<<x, y>>, <<n, k>>)
      <3>. HIDE DEF e
      <3>. QED  BY <2>4
    <2>. QED  BY <2>3, <2>5
  <1>8. ASSUME NEW o \in X \X Y PROVE value <= g[o] + SquaredDist(<<x, y>>, o)
    <2>1. PICK n \in X, k \in Y : o = <<n, k>>
      OBVIOUS
    <2>2. value <= (x - n) * (x - n) + f[n] /\ f[n] <= (y - k) * (y - k) + g[<<n, k>>] /\ f[n] \in Int
      BY <1>3, <1>4, <1>5
    <2>. HIDE DEF X, Y
    <2>3. /\ g[<<n, k>>] \in Int /\ (x - n) * (x - n) \in Int /\ (y - k) * (y - k) \in Int
          /\ SquaredDist(<<x, y>>, <<n, k>>) = (x - n) * (x - n) + (y - k) * (y - k)
      BY <1>1, <1>6
    <2>. DEFINE u == (x - n) * (x - n)   w == (y - k) * (y - k)   e == g[<<n, k>>]
    <2>4. /\ value <= u + f[n] /\ f[n] <= w + e /\ u \in Int /\ w \in Int /\ e \in Int
          /\ f[n] \in Int /\ value \in Int /\ SquaredDist(<<x, y>>, <<n, k>>) = u + w
      BY <1>5, <2>2, <2>3
    <2>. HIDE DEF u, w
    <2>5. value <= e + SquaredDist(<<x, y>>, <<n, k>>)
      <3>. HIDE DEF e
      <3>. QED  BY <2>4
    <2>. QED  BY <2>1, <2>5
  <1>. QED  BY <1>5, <1>7, <1>8 DEF value, f, row, Passes

(* The ends of an interval.                                                  *)
LEMMA IntervalEnds ==
  ASSUME NEW lo \in Int, NEW hi \in Int, lo <= hi
  PROVE  Min(lo..hi) = lo /\ Max(lo..hi) = hi
  <1>1. IsFiniteSet(lo..hi) /\ lo..hi \in SUBSET Int /\ lo..hi # {} /\ lo \in lo..hi /\ hi \in lo..hi
    <2>1. IsFiniteSet(lo..hi)
      BY FS_Interval
    <2>2. lo \in lo..hi /\ hi \in lo..hi /\ lo..hi \in SUBSET Int
      OBVIOUS
    <2>. QED  BY <2>1, <2>2
  <1>2. Min(lo..hi) \in lo..hi /\ Min(lo..hi) <= lo
    BY <1>1, MinIs
  <1>3. Max(lo..hi) \in lo..hi /\ Max(lo..hi) >= hi
    BY <1>1, MaxIs
  <1>. QED  BY <1>2, <1>3

(* Where the number that stands for "no obstacle" (one more than there are   *)
(* cells) is within the radius, the grid is so small that a cell of its      *)
(* border, which is occupied, is within the radius of any cell.              *)
LEMMA BorderIsNear ==
  ASSUME NEW box, IsBox(box), NEW r \in Nat, Cardinality(Grid(box)) < r * r, NEW c \in Grid(box)
  PROVE  \E o \in Grid(box) \ Boxed(box) : SquaredDist(c, o) <= r * r
  <1>. DEFINE lx == box.x0 - Pad   hx == box.x1 + Pad   ly == box.y0 - Pad   hy == box.y1 + Pad
              W == hx - lx + 1   H == hy - ly + 1
  <1>1. /\ lx \in Int /\ hx \in Int /\ ly \in Int /\ hy \in Int /\ lx <= hx /\ ly <= hy
        /\ lx < box.x0 /\ ly < box.y0
    BY PadAssumption DEF IsBox
  <1>b. box.x0 \in Int /\ box.x1 \in Int /\ box.y0 \in Int /\ box.y1 \in Int
    BY DEF IsBox
  <1>2. Grid(box) = (lx..hx) \X (ly..hy)
    BY DEF Grid
  <1>3. Boxed(box) = (box.x0 .. box.x1) \X (box.y0 .. box.y1)
    BY DEF Boxed
  <1>. HIDE DEF lx, hx, ly, hy
  <1>4. Cardinality(Grid(box)) = W * H /\ W \in Nat /\ H \in Nat
    <2>1. IsFiniteSet(lx..hx) /\ Cardinality(lx..hx) = W
      BY <1>1, FS_Interval
    <2>2. IsFiniteSet(ly..hy) /\ Cardinality(ly..hy) = H
      BY <1>1, FS_Interval
    <2>3. W \in Nat /\ H \in Nat
      BY <1>1
    <2>. HIDE DEF W, H
    <2>. QED  BY <1>2, <2>1, <2>2, <2>3, FS_Product
  <1>5. PICK x \in lx..hx, y \in ly..hy : c = <<x, y>>
    BY <1>2
  <1>6. W < r \/ H < r
    <2>. HIDE DEF W, H
    <2>1. W * H \in Nat /\ r * r \in Nat
      BY <1>4
    <2>2. ~(r <= W /\ r <= H)
      BY <1>4, <2>1, ProductGrows
    <2>. QED  BY <1>4, <2>2
  <1>7. x \in Int /\ y \in Int /\ x - x = 0 /\ y - y = 0
    BY <1>1
  <1>8. CASE W < r
    <2>1. <<lx, y>> \in Grid(box) /\ <<lx, y>> \notin Boxed(box)
      BY <1>1, <1>b, <1>2, <1>3
    <2>2. x - lx \in Int /\ x - lx <= r /\ -r <= x - lx
      BY <1>1, <1>8
    <2>3. (x - lx) * (x - lx) <= r * r
      BY <2>2, SquareGrows
    <2>4. SquaredDist(c, <<lx, y>>) = (x - lx) * (x - lx) + 0
      BY <1>5, <1>7 DEF SquaredDist, Square
    <2>5. (x - lx) * (x - lx) \in Int
      BY <1>1, <1>7
    <2>6. SquaredDist(c, <<lx, y>>) <= r * r
      BY <2>3, <2>4, <2>5
    <2>. QED  BY <2>1, <2>6
  <1>9. CASE H < r
    <2>1. <<x, ly>> \in Grid(box) /\ <<x, ly>> \notin Boxed(box)
      BY <1>1, <1>b, <1>2, <1>3
    <2>2. y - ly \in Int /\ y - ly <= r /\ -r <= y - ly
      BY <1>1, <1>9
    <2>3. (y - ly) * (y - ly) <= r * r
      BY <2>2, SquareGrows
    <2>4. SquaredDist(c, <<x, ly>>) = 0 + (y - ly) * (y - ly)
      BY <1>5, <1>7 DEF SquaredDist, Square
    <2>5. (y - ly) * (y - ly) \in Int
      BY <1>1, <1>7
    <2>6. SquaredDist(c, <<x, ly>>) <= r * r
      BY <2>3, <2>4, <2>5
    <2>. QED  BY <2>1, <2>6
  <1>. QED  BY <1>6, <1>8, <1>9

(* The inflation is exact, for every box and radius: it blocks the cells     *)
(* within the radius of an occupied one.                                     *)
LEMMA InflateIsGrown ==
  ASSUME NEW box, IsBox(box), NEW occupied \in SUBSET Grid(box), Grid(box) \ Boxed(box) \subseteq occupied,
         NEW r \in Nat
  PROVE  Inflate(occupied, box, r) = Grown(occupied, Grid(box), r)
  <1>. DEFINE lx == box.x0 - Pad   hx == box.x1 + Pad   ly == box.y0 - Pad   hy == box.y1 + Pad
              X == lx..hx   Y == ly..hy
              grid == Grid(box)
              far == Cardinality(grid) + 1
              g == [o \in X \X Y |-> IF o \in occupied THEN 0 ELSE far]
  <1>1. lx \in Int /\ hx \in Int /\ ly \in Int /\ hy \in Int /\ lx <= hx /\ ly <= hy
    BY PadAssumption DEF IsBox
  <1>2. grid = X \X Y
    BY DEF Grid
  <1>. HIDE DEF lx, hx, ly, hy
  <1>3. /\ {c[1] : c \in grid} = X /\ {c[2] : c \in grid} = Y
        /\ Min(X) = lx /\ Max(X) = hx /\ Min(Y) = ly /\ Max(Y) = hy
    <2>1. lx \in X /\ ly \in Y
      BY <1>1
    <2>2. Min(X) = lx /\ Max(X) = hx /\ Min(Y) = ly /\ Max(Y) = hy
      BY <1>1, IntervalEnds
    <2>. HIDE DEF X, Y, grid
    <2>3. {c[1] : c \in grid} = X /\ {c[2] : c \in grid} = Y
      <3>1. \A x \in X : <<x, ly>> \in grid
        BY <1>2, <2>1
      <3>2. \A y \in Y : <<lx, y>> \in grid
        BY <1>2, <2>1
      <3>3. \A c \in grid : c[1] \in X /\ c[2] \in Y
        BY <1>2
      <3>4. \A x \in X : \E c \in grid : x = c[1]
        BY <3>1
      <3>5. \A y \in Y : \E c \in grid : y = c[2]
        BY <3>2
      <3>. QED  BY <3>3, <3>4, <3>5
    <2>. QED  BY <2>2, <2>3
  <1>4. far \in Nat /\ far = Cardinality(grid) + 1 /\ Cardinality(grid) \in Nat
    <2>1. IsFiniteSet(X) /\ IsFiniteSet(Y)
      BY <1>1, FS_Interval
    <2>. HIDE DEF X, Y, grid
    <2>2. IsFiniteSet(grid)
      BY <1>2, <2>1, FS_Product
    <2>. QED  BY <2>2, FS_CardinalityType
  <1>5. grid \subseteq Int \X Int
    BY <1>1, <1>2
  <1>. DEFINE inRow(n) == [k \in Y |-> g[<<n, k>>]]
              rows == [n \in X |-> Edt1(inRow(n), ly, hy)]
              value(x, y) == Edt1([n \in X |-> rows[n][y]], lx, hx)[x]
  <1>g. g \in [X \X Y -> Int] /\ \A o \in grid : g[o] = IF o \in occupied THEN 0 ELSE far
    <2>. HIDE DEF X, Y, grid, far
    <2>. QED  BY <1>2, <1>4
  <1>6. Inflate(occupied, box, r) = IF r <= 0 THEN occupied ELSE {c \in grid : value(c[1], c[2]) <= r * r}
    <2>. DEFINE orig(n) == [k \in Y |-> IF <<n, k>> \in occupied THEN 0 ELSE far]
    <2>1. \A n \in X : inRow(n) = orig(n)
      <3>. HIDE DEF X, Y, far
      <3>. QED  OBVIOUS
    <2>. DEFINE origs == [n \in X |-> Edt1(orig(n), ly, hy)]
                columns == [y \in Y |-> Edt1([n \in X |-> origs[n][y]], lx, hx)]
    <2>2. Inflate(occupied, box, r) = IF r <= 0 THEN occupied ELSE {c \in grid : columns[c[2]][c[1]] <= r * r}
      <3>. HIDE DEF X, Y
      <3>. QED  BY <1>3 DEF Inflate
    <2>3. origs = rows
      <3>. HIDE DEF X, inRow, orig
      <3>. QED  BY <2>1
    <2>. HIDE DEF origs, rows
    <2>4. \A y \in Y : columns[y] = Edt1([n \in X |-> rows[n][y]], lx, hx)
      <3>. HIDE DEF X, Y
      <3>. QED  BY <2>3
    <2>5. \A c \in grid : c[2] \in Y
      BY <1>2
    <2>. HIDE DEF columns, grid
    <2>6. \A c \in grid : columns[c[2]][c[1]] = value(c[1], c[2])
      BY <2>4, <2>5
    <2>. HIDE DEF value
    <2>. QED  BY <2>2, <2>6
  <1>7. \A x \in X, y \in Y :
          /\ \E o \in grid : value(x, y) = g[o] + SquaredDist(<<x, y>>, o)
          /\ \A o \in grid : value(x, y) <= g[o] + SquaredDist(<<x, y>>, o)
          /\ value(x, y) \in Int
    <2>. TAKE x \in X
    <2>. TAKE y \in Y
    <2>. HIDE DEF g, grid
    <2>1. g \in [(lx..hx) \X (ly..hy) -> Int] /\ x \in lx..hx /\ y \in ly..hy
      BY <1>g
    <2>2. /\ \E o \in (lx..hx) \X (ly..hy) : value(x, y) = g[o] + SquaredDist(<<x, y>>, o)
          /\ \A o \in (lx..hx) \X (ly..hy) : value(x, y) <= g[o] + SquaredDist(<<x, y>>, o)
          /\ value(x, y) \in Int
      <3>1. value(x, y) = Passes(g, lx, hx, ly, hy, x, y)
        <4>. DEFINE r1 == [n \in lx..hx |-> Edt1([k \in ly..hy |-> g[<<n, k>>]], ly, hy)]
        <4>1. Passes(g, lx, hx, ly, hy, x, y) = Edt1([n \in lx..hx |-> r1[n][y]], lx, hx)[x]
          BY DEF Passes
        <4>2. r1 = rows
          OBVIOUS
        <4>. HIDE DEF r1, rows
        <4>. QED  BY <4>1, <4>2
      <3>2. /\ \E o \in (lx..hx) \X (ly..hy) : Passes(g, lx, hx, ly, hy, x, y) = g[o] + SquaredDist(<<x, y>>, o)
            /\ \A o \in (lx..hx) \X (ly..hy) : Passes(g, lx, hx, ly, hy, x, y) <= g[o] + SquaredDist(<<x, y>>, o)
            /\ Passes(g, lx, hx, ly, hy, x, y) \in Int
        <4>1. lx \in Int /\ hx \in Int /\ ly \in Int /\ hy \in Int /\ lx <= hx /\ ly <= hy
          BY <1>1
        <4>. HIDE DEF X, Y, value
        <4>. QED  BY <4>1, <2>1, TwoPasses
      <3>. HIDE DEF value
      <3>. QED  BY <3>1, <3>2
    <2>. HIDE DEF value
    <2>. QED  BY <1>2, <2>2
  <1>. HIDE DEF value, g
  <1>8. ASSUME NEW c \in grid
        PROVE  c \in Inflate(occupied, box, r) <=> \E o \in occupied : SquaredDist(c, o) <= r * r
    <2>1. PICK x \in X, y \in Y : c = <<x, y>>
      BY <1>2
    <2>2. c \in Int \X Int /\ occupied \subseteq grid
      BY <1>5
    <2>3. \A o \in grid : SquaredDist(c, o) \in Nat /\ (SquaredDist(c, o) = 0 <=> c = o)
      BY <1>5, <2>2, DistFacts
    <2>4. r * r \in Nat /\ (r = 0 => r * r = 0)
      OBVIOUS
    <2>. HIDE DEF grid, X, Y
    <2>5. CASE r = 0
      <3>1. Inflate(occupied, box, r) = occupied /\ r * r = 0
        BY <1>6, <2>4, <2>5
      <3>2. ASSUME NEW o \in occupied, SquaredDist(c, o) <= r * r PROVE c = o
        <4>1. SquaredDist(c, o) = 0
          BY <2>2, <2>3, <3>1, <3>2
        <4>. QED  BY <2>2, <2>3, <4>1
      <3>3. c \in occupied => SquaredDist(c, c) <= r * r
        BY <2>3, <3>1
      <3>. QED  BY <3>1, <3>2, <3>3
    <2>6. CASE r # 0
      <3>1. c \in Inflate(occupied, box, r) <=> value(x, y) <= r * r
        BY <1>6, <2>1, <2>6
      <3>v. value(x, y) \in Int
        BY <1>7
      <3>2. ASSUME NEW o \in occupied, SquaredDist(c, o) <= r * r PROVE value(x, y) <= r * r
        <4>1. g[o] = 0 /\ value(x, y) <= g[o] + SquaredDist(c, o) /\ SquaredDist(c, o) \in Nat
          BY <1>g, <1>7, <2>1, <2>2, <2>3
        <4>. QED  BY <2>4, <3>2, <3>v, <4>1
      <3>3. ASSUME value(x, y) <= r * r PROVE \E o \in occupied : SquaredDist(c, o) <= r * r
        <4>1. PICK o \in grid : value(x, y) = g[o] + SquaredDist(c, o)
          BY <1>7, <2>1
        <4>2. CASE o \in occupied
          <5>1. g[o] = 0 /\ SquaredDist(c, o) \in Nat
            BY <1>g, <2>3, <4>2
          <5>2. SquaredDist(c, o) <= r * r
            BY <3>3, <4>1, <5>1
          <5>. QED  BY <4>2, <5>2
        <4>3. CASE o \notin occupied
          <5>1. g[o] = far /\ SquaredDist(c, o) \in Nat
            BY <1>g, <2>3, <4>3
          <5>2. Cardinality(Grid(box)) < r * r
            <6>1. Cardinality(Grid(box)) \in Int /\ far = Cardinality(Grid(box)) + 1
              BY <1>4 DEF grid
            <6>. HIDE DEF far
            <6>. QED  BY <1>4, <2>4, <3>3, <4>1, <5>1, <6>1
          <5>. QED  BY <5>2, BorderIsNear DEF grid
        <4>. QED  BY <4>2, <4>3
      <3>. QED  BY <3>1, <3>2, <3>3
    <2>. QED  BY <2>5, <2>6
  <1>9. Inflate(occupied, box, r) \subseteq grid
    <2>. HIDE DEF X, Y
    <2>. QED  BY <1>6
  <1>10. Grown(occupied, Grid(box), r) = {c \in grid : \E o \in occupied : SquaredDist(c, o) <= r * r}
    BY DEF Grown
  <1>. HIDE DEF grid
  <1>. QED  BY <1>8, <1>9, <1>10

-----------------------------------------------------------------------------
(* The grid a process plans on.                                              *)

(* The box around the floors is one, and around every one of them.           *)
LEMMA FloorBoxIs ==
  ASSUME NEW prims, IsFiniteSet(prims), \A p \in prims : IsBox(p), Floors(prims) # {}
  PROVE  IsBox(FloorBox(prims))
  <1>. DEFINE floors == Floors(prims)
              X0 == {p.x0 : p \in floors}   X1 == {p.x1 : p \in floors}
              Y0 == {p.y0 : p \in floors}   Y1 == {p.y1 : p \in floors}
  <1>1. IsFiniteSet(floors) /\ \A p \in floors : IsBox(p)
    <2>1. floors \subseteq prims
      BY DEF Floors
    <2>. HIDE DEF floors
    <2>. QED  BY <2>1, FS_Subset
  <1>2. PICK p \in floors : TRUE
    OBVIOUS
  <1>3. FloorBox(prims) = [x0 |-> Min(X0), y0 |-> Min(Y0), x1 |-> Max(X1), y1 |-> Max(Y1)]
    BY DEF FloorBox
  <1>. HIDE DEF floors
  <1>4. /\ IsFiniteSet(X0) /\ IsFiniteSet(X1) /\ IsFiniteSet(Y0) /\ IsFiniteSet(Y1)
    <2>1. [q \in floors |-> q.x0] \in Surjection(floors, X0)
      BY DEF Surjection
    <2>2. [q \in floors |-> q.x1] \in Surjection(floors, X1)
      BY DEF Surjection
    <2>3. [q \in floors |-> q.y0] \in Surjection(floors, Y0)
      BY DEF Surjection
    <2>4. [q \in floors |-> q.y1] \in Surjection(floors, Y1)
      BY DEF Surjection
    <2>. HIDE DEF X0, X1, Y0, Y1
    <2>. QED  BY <1>1, <2>1, <2>2, <2>3, <2>4, FS_Surjection
  <1>5. /\ X0 \in SUBSET Int /\ X1 \in SUBSET Int /\ Y0 \in SUBSET Int /\ Y1 \in SUBSET Int
        /\ p.x0 \in X0 /\ p.x1 \in X1 /\ p.y0 \in Y0 /\ p.y1 \in Y1
    BY <1>1, <1>2 DEF IsBox
  <1>6. p.x0 \in Int /\ p.x1 \in Int /\ p.x0 <= p.x1 /\ p.y0 \in Int /\ p.y1 \in Int /\ p.y0 <= p.y1
    BY <1>1, <1>2 DEF IsBox
  <1>. HIDE DEF X0, X1, Y0, Y1
  <1>7. Min(X0) \in Int /\ Min(X0) <= p.x0 /\ Min(Y0) \in Int /\ Min(Y0) <= p.y0
    <2>1. Min(X0) \in X0 /\ Min(X0) <= p.x0
      BY <1>4, <1>5, MinIs
    <2>2. Min(Y0) \in Y0 /\ Min(Y0) <= p.y0
      BY <1>4, <1>5, MinIs
    <2>. QED  BY <1>5, <2>1, <2>2
  <1>8. Max(X1) \in Int /\ Max(X1) >= p.x1 /\ Max(Y1) \in Int /\ Max(Y1) >= p.y1
    <2>1. Max(X1) \in X1 /\ Max(X1) >= p.x1
      BY <1>4, <1>5, MaxIs
    <2>2. Max(Y1) \in Y1 /\ Max(Y1) >= p.y1
      BY <1>4, <1>5, MaxIs
    <2>. QED  BY <1>5, <2>1, <2>2
  <1>9. Min(X0) <= Max(X1) /\ Min(Y0) <= Max(Y1)
    BY <1>6, <1>7, <1>8
  <1>. QED  BY <1>3, <1>7, <1>8, <1>9 DEF IsBox

(* The free cells of a scene are those that are not within the radius of an  *)
(* obstacle.                                                                 *)
LEMMA FreeFits ==
  ASSUME NEW s \in Scenes, Floors(s) # {}, NEW r \in Radii
  PROVE  Free[s][r] = Outside[s][r]
  <1>. DEFINE box == FloorBox(s)
  <1>1. IsBox(box) /\ r \in Nat
    BY ScenesAssumption, RadiiAssumption, FloorBoxIs
  <1>2. Occupied(s) \in SUBSET Grid(box) /\ Grid(box) \ Boxed(box) \subseteq Occupied(s)
    BY DEF Occupied
  <1>3. Free[s][r] = Grid(box) \ Inflate(Occupied(s), box, r)
    BY DEF Free
  <1>4. Outside[s][r] = Grid(box) \ Grown(Occupied(s), Grid(box), r)
    <2>1. s \in DOMAIN Free
      BY DEF Free
    <2>. QED  BY <2>1 DEF Outside
  <1>. HIDE DEF box
  <1>5. Inflate(Occupied(s), box, r) = Grown(Occupied(s), Grid(box), r)
    BY <1>1, <1>2, InflateIsGrown
  <1>. QED  BY <1>3, <1>4, <1>5

(* The grid of a process is its radius' of a scene with a floor, and so is   *)
(* the one a complete file holds; it is ready only with a grid.              *)
GridInv ==
  /\ scene \in Scenes
  /\ cache \in {NoGrid, Torn} \/ (cache.of \in Scenes /\ Floors(cache.of) # {})
  /\ map = NoMap \/ (doing # "off" /\ map.of \in Scenes /\ Floors(map.of) # {} /\ map.free = Free[map.of][run.radius])
  /\ doing = "ready" => map # NoMap

(* What a kill, a raise or a close leaves behind.                            *)
LEMMA ClosedGrid ==
  ASSUME GridInv, Closed, cache' = cache \/ cache' = Torn
  PROVE  GridInv'
  <1>1. scene' = scene /\ doing' = "off" /\ map' = NoMap
    BY DEF Closed, NoProcess
  <1>. QED  BY <1>1 DEF GridInv

(* Another of the scenes is loaded or built.                                 *)
LEMMA LoadedGrid ==
  ASSUME GridInv, run \in Runs, NEW of \in Scenes, Floors(of) # {}, Loaded(of), scene' = scene,
         cache' = cache \/ cache' = [radius |-> run.radius, of |-> of]
  PROVE  GridInv'
  <1>1. run.radius \in Nat
    BY RadiiAssumption DEF Runs
  <1>2. /\ map' = [free |-> Free[of][run.radius], radius |-> run.radius, of |-> of]
        /\ run' = run /\ doing' \in {"calibrate", "ready"}
    BY DEF Loaded
  <1>3. map' # NoMap
    <2>1. map'.radius = run.radius /\ NoMap.radius = -1
      BY <1>2 DEF NoMap
    <2>2. run.radius # -1
      BY <1>1
    <2>. QED  BY <2>1, <2>2
  <1>. QED  BY <1>2, <1>3 DEF GridInv

(* Every step of the process.                                                *)
LEMMA GridStep == IsaacInv /\ GridInv /\ [IsaacNext]_isaacVars => GridInv'
  <1> SUFFICES ASSUME IsaacInv, GridInv, [IsaacNext]_isaacVars PROVE GridInv'
    OBVIOUS
  <1>1. doing \in {"off", "calibrate", "map", "ready"} /\ (doing # "off" => run \in Runs)
    BY DEF IsaacInv, ProcessInv
  <1>2. CASE Rearrange
    <2>1. scene' \in Scenes /\ UNCHANGED <<cache, doing, map, run>>
      BY <1>2 DEF Rearrange
    <2>. QED  BY <2>1 DEF GridInv
  <1>3. CASE OpenStage
    <2>1. UNCHANGED <<scene, cache, map>> /\ doing = "off" /\ doing' # "ready"
      BY <1>3 DEF OpenStage
    <2>. QED  BY <2>1 DEF GridInv
  <1>4. CASE Calibrate
    <2>1. CASE Closed /\ UNCHANGED cache
      BY <2>1, ClosedGrid
    <2>2. CASE doing' = (IF map = NoMap THEN "map" ELSE "ready") /\ UNCHANGED <<files, run, map>>
      BY <2>2 DEF GridInv, files
    <2>. QED  BY <1>4, <2>1, <2>2 DEF Calibrate
  <1>5. CASE LoadMap
    <2>1. CASE Closed /\ UNCHANGED cache
      BY <2>1, ClosedGrid
    <2>2. CASE cache # Torn /\ IsUsable(cache) /\ Loaded(cache.of) /\ UNCHANGED files
      <3>1. cache.of \in Scenes /\ Floors(cache.of) # {}
        BY <2>2 DEF GridInv, IsUsable
      <3>2. run \in Runs
        BY <1>1, <1>5 DEF LoadMap
      <3>3. scene' = scene /\ cache' = cache
        BY <2>2 DEF files
      <3>. QED  BY <2>2, <3>1, <3>2, <3>3, LoadedGrid
    <2>. QED  BY <1>5, <2>1, <2>2 DEF LoadMap
  <1>6. CASE BuildMap
    <2>1. CASE Closed /\ UNCHANGED cache
      BY <2>1, ClosedGrid
    <2>2. CASE Floors(scene) # {} /\ cache' = [radius |-> run.radius, of |-> scene] /\ Loaded(scene) /\ scene' = scene
      <3>1. scene \in Scenes /\ run \in Runs
        BY <1>1, <1>6 DEF GridInv, BuildMap
      <3>. QED  BY <2>2, <3>1, LoadedGrid
    <2>. QED  BY <1>6, <2>1, <2>2 DEF BuildMap
  <1>7. CASE Kill \/ Close
    <2>1. Closed /\ (cache' = cache \/ cache' = Torn)
      BY <1>7 DEF Kill, Close
    <2>. QED  BY <2>1, ClosedGrid
  <1>8. CASE \/ \E place \in Locations : NavigateTo(place) \/ Teleport(place)
             \/ Arrive \/ Tick \/ Spin \/ UNCHANGED isaacVars
    <2>1. UNCHANGED <<scene, cache, map, run, doing>>
      BY <1>8 DEF NavigateTo, Teleport, Arrive, Tick, Spin, isaacVars, files
    <2>. QED  BY <2>1 DEF GridInv
  <1>. QED  BY <1>2, <1>3, <1>4, <1>5, <1>6, <1>7, <1>8 DEF IsaacNext

(* _inflate, load_or_build: whatever was built, cached, rearranged, killed   *)
(* and loaded before, the grid a process plans on blocks exactly what lies   *)
(* within its own radius of the obstacles of the scene that was scanned, for *)
(* every building, padding and radius.                                       *)
THEOREM GridsFit == IsaacSpec => []MapFits
  <1>1. IsaacInit => GridInv
    BY DEF IsaacInit, NoProcess, GridInv
  <1>2. IsaacInv /\ GridInv => MapFits
    <2> SUFFICES ASSUME IsaacInv, GridInv, doing = "ready"
                 PROVE  map.free = Outside[map.of][run.radius]
      BY DEF MapFits
    <2>1. map.of \in Scenes /\ Floors(map.of) # {} /\ map.free = Free[map.of][run.radius]
      BY DEF GridInv
    <2>2. run.radius \in Radii
      BY DEF IsaacInv, ProcessInv, Runs
    <2>. QED  BY <2>1, <2>2, FreeFits
  <1>. QED  BY <1>1, <1>2, GridStep, IsaacInvariance, PTL DEF IsaacSpec
=============================================================================
