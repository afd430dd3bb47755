-------------------------- MODULE IsaacHospital --------------------------
(***************************************************************************)
(* IsaacHospital (simbiote/sim_env/isaac_nav.py): a process boots the      *)
(* simulator, measures how the base's joints lie in the world, loads or    *)
(* builds the occupancy grid (whose file outlives the process), and then   *)
(* drives to locations or is teleported, until it is closed or killed.     *)
(*                                                                         *)
(* Positions are cells, distances the larger of the two differences, and a *)
(* control tick moves the base by at most a cell along each joint.  The    *)
(* base is its centre, stopped by what the scene really holds.  Its yaw    *)
(* does not act on where it goes and is left out, and so are rendering and *)
(* the arm.                                                                *)
(***************************************************************************)
EXTENDS GridRoutes

CONSTANTS
  Scenes,                           \* what hospital.usd may hold
  Spawns, Locations, Radii,         \* Radii: robot_radius, as the code of a run has it
  Axes,                             \* how the asset may be oriented: matrices <<a, b, c, d>>
  Lookahead, WaypointThreshold, GoalThreshold,
  MaxTargetLead, StallWindow, StallProgress,
  Answers,                          \* the velocities the policy may answer with, at any time
  MaxSteps,                         \* timeout_s, in control ticks
  MaxBoots, MaxCalls                \* bound the processes and the calls

(* The base's joints lie along the axes of the world, either way round.      *)
QuarterTurns == {<<a, 0, 0, d>> : a, d \in {-1, 1}} \cup {<<0, b, c, 0>> : b, c \in {-1, 1}}

ASSUME AxesAssumption == Axes \subseteq QuarterTurns
ASSUME ScenesAssumption == \A s \in Scenes : IsFiniteSet(s) /\ \A p \in s : IsBox(p)
ASSUME RadiiAssumption == Radii \subseteq Nat
ASSUME PlacesAssumption == Spawns \cup Locations \subseteq Int \X Int
ASSUME LeadAssumption == MaxTargetLead \in Nat \ {0}

VARIABLES
  scene, cache,    \* the file of the scene, and the file of the grid
  boots,           \* the processes so far
  run,             \* how the process was started: its spawn, radius, controller, flat, and the asset's axes
  doing,           \* what it is doing
  map,             \* its grid
  matrix,          \* world_from_joint, as measured
  joint,           \* the base's joints
  target,          \* self._target
  command,         \* what the drives were last told
  drive,           \* the navigate_to under way: none, or a sequence of one
  result,          \* what the last one returned
  rest,            \* where it, or a teleport, said the base is
  calls

files == <<scene, cache, boots>>
isaacVars == <<files, run, doing, map, matrix, joint, target, command, drive, result, rest, calls>>

Sign(n) == IF n > 0 THEN 1 ELSE IF n < 0 THEN -1 ELSE 0
Plus(p, q) == <<p[1] + q[1], p[2] + q[2]>>
Minus(p, q) == <<p[1] - q[1], p[2] - q[2]>>
Signs(p) == <<Sign(p[1]), Sign(p[2])>>
Dist(p, q) == IF Abs(p[1] - q[1]) > Abs(p[2] - q[2]) THEN Abs(p[1] - q[1]) ELSE Abs(p[2] - q[2])
Apply(m, p) == <<m[1] * p[1] + m[2] * p[2], m[3] * p[1] + m[4] * p[2]>>
Det(m) == m[1] * m[4] - m[2] * m[3]

Inverted(m) == <<Det(m) * m[4], -(Det(m) * m[2]), -(Det(m) * m[3]), Det(m) * m[1]>>

Identity == <<1, 0, 0, 1>>
Origin == <<0, 0>>

None == <<>>
NoGrid == [radius |-> -1, of |-> {}]
NoMap == [free |-> {}, radius |-> -1, of |-> {}]
Torn == [radius |-> -2, of |-> {}]
NoResult == [goal |-> Origin, success |-> FALSE, reason |-> "none", final |-> Origin, end |-> Origin]

Runs == [spawn : Spawns, radius : Radii, controller : {"policy", "pursuit"}, flat : BOOLEAN, axes : Axes]

(* No process: its memory is gone.                                           *)
NoProcess(p, m, a, j, t, c, d, r, o, n) ==
  /\ p = "off" /\ m = NoMap /\ a = Identity /\ j = Origin /\ t = Origin /\ c = Origin
  /\ d = None /\ r = NoResult /\ o = Origin /\ n = 0

IsaacInit ==
  /\ scene \in Scenes /\ cache = NoGrid /\ boots = 0
  /\ run = CHOOSE r \in Runs : TRUE
  /\ NoProcess(doing, map, matrix, joint, target, command, drive, result, rest, calls)

-----------------------------------------------------------------------------
(* The simulator.                                                            *)

Base(j) == Plus(run.spawn, Apply(run.axes, j))
base == Base(joint)

Solid == [s \in Scenes |-> IF Floors(s) = {} THEN {} ELSE Occupied(s)]

Enters(c) == run.flat \/ c \notin Solid[scene]

(* Where one tick of physics takes the joints: a step towards the target, or *)
(* along the one joint that is not blocked.                                  *)
Moves(j, t) ==
  LET d == Signs(Minus(t, j))
      full == Plus(j, d)
      alone == {Plus(j, <<d[1], 0>>), Plus(j, <<0, d[2]>>)}
  IN  IF Enters(Base(full)) THEN {full}
      ELSE IF \E k \in alone \ {j} : Enters(Base(k)) THEN {k \in alone \ {j} : Enters(Base(k))}
      ELSE {j}

(* Another layout of the building, between two processes.                    *)
Rearrange ==
  /\ doing = "off" /\ boots > 0 /\ boots < MaxBoots
  /\ scene' \in Scenes \ {scene}
  /\ UNCHANGED <<cache, boots, run, doing, map, matrix, joint, target, command, drive, result, rest, calls>>

-----------------------------------------------------------------------------
(* __init__ and _boot.                                                       *)

OpenStage ==
  /\ doing = "off" /\ boots < MaxBoots
  /\ run' \in Runs
  /\ boots' = boots + 1
  /\ doing' = IF run'.flat THEN "map" ELSE "calibrate"
  /\ rest' = run'.spawn
  /\ UNCHANGED <<scene, cache, map, matrix, joint, target, command, drive, result, calls>>

Closed ==
  /\ NoProcess(doing', map', matrix', joint', target', command', drive', result', rest', calls')
  /\ run' = (CHOOSE r \in Runs : TRUE) /\ UNCHANGED <<scene, boots>>

(* _calibrate_base_axes: each joint is nudged and taken back; a joint that   *)
(* is jammed leaves a column of zeros, and the constructor raises.           *)
Calibrate ==
  /\ doing = "calibrate"
  /\ LET moved(d) == Minus(Base(CHOOSE j \in Moves(joint, d) : TRUE), base)
         x == moved(<<1, 0>>)   y == moved(<<0, 1>>)
         measured == <<x[1], y[1], x[2], y[2]>>
     IN  IF Det(measured) = 0 THEN Closed /\ UNCHANGED cache
         ELSE /\ matrix' = measured
              /\ doing' = IF map = NoMap THEN "map" ELSE "ready"
              /\ UNCHANGED <<files, run, map, joint, target, command, drive, result, rest, calls>>

(* The grid of a scene, as it is inflated for a radius.                      *)
Free == [s \in {t \in Scenes : Floors(t) # {}} |-> [r \in Radii |->
          {c : c \in Grid(FloorBox(s)) \ Inflate(Occupied(s), FloorBox(s), r)}]]

(* The file holds the cells as they were scanned; they are inflated again,   *)
(* for the radius of this process.                                           *)
Loaded(of) ==
  /\ map' = [free |-> Free[of][run.radius], radius |-> run.radius, of |-> of]
  /\ doing' = IF run.flat THEN "calibrate" ELSE "ready"
  /\ UNCHANGED <<run, matrix, joint, target, command, drive, result, rest, calls>>

(* The cached grid is for this radius; nothing is asked about the scene.     *)
IsUsable(file) == file # NoGrid /\ file.radius = run.radius

(* load_or_build, with a file: a torn one raises.                            *)
LoadMap ==
  /\ doing = "map" /\ (cache = Torn \/ IsUsable(cache))
  /\ IF cache = Torn THEN Closed /\ UNCHANGED cache
     ELSE Loaded(cache.of) /\ UNCHANGED files

(* Without: it is built, which raises where there is no floor, and written.  *)
BuildMap ==
  /\ doing = "map" /\ cache # Torn /\ ~IsUsable(cache)
  /\ IF Floors(scene) = {} THEN Closed /\ UNCHANGED cache
     ELSE /\ cache' = [radius |-> run.radius, of |-> scene]
          /\ Loaded(scene)
          /\ UNCHANGED <<scene, boots>>

(* A kill, also while the file is written.                                   *)
Kill ==
  /\ doing # "off"
  /\ cache' \in {cache} \cup (IF doing = "map" /\ cache # Torn /\ ~IsUsable(cache) THEN {Torn} ELSE {})
  /\ Closed

-----------------------------------------------------------------------------
(* HospitalMap.plan, which is the subject of HospitalMap.                    *)

(* Between any two cells of a grid, one of them near a location.             *)
Routes == [s \in DOMAIN Free |-> [r \in Radii |->
            LET free == Free[s][r]
                ends == UNION {FreeNear(free, l) : l \in Locations}
            IN  [c \in free \X ends |-> RoutesBetween(free, c[1], c[2])]]]

(* Any route plan may return, None among them.                               *)
Plan(start, goal) ==
  LET ends == FreeNear(map.free, start) \X FreeNear(map.free, goal)
  IN  IF ends = {} THEN {None} ELSE UNION {Routes[map.of][map.radius][c] : c \in ends}

-----------------------------------------------------------------------------
(* _carrot: the waypoints already near are skipped, and the point lies       *)
(* Lookahead further along the rest of the path.                             *)

NextIndex(path, index, xy) ==
  Min({k \in index..Len(path) : k = Len(path) \/ Dist(xy, path[k]) >= WaypointThreshold})

Carrot(path, index, xy) ==
  LET from(i) == IF i = index THEN xy ELSE path[i - 1]
      along[i \in index..Len(path)] ==
        (IF i = index THEN 0 ELSE along[i - 1]) + Dist(from(i), path[i])
      past == {i \in index..Len(path) : along[i] >= Lookahead}
      last == Min(past)
      left == along[last] - Lookahead
      segment == Dist(from(last), path[last])
      back(n) == IF segment = 0 THEN 0 ELSE (2 * n * left + segment) \div (2 * segment)
  IN  IF past = {} THEN path[Len(path)]
      ELSE <<path[last][1] - back(path[last][1] - from(last)[1]),
             path[last][2] - back(path[last][2] - from(last)[2])>>

(* A vector of that direction and size; a hundred is the speed limit.        *)
Sized(p, size) ==
  IF p = Origin THEN Origin
  ELSE <<Sign(p[1]) * ((size * Abs(p[1])) \div Dist(p, Origin)),
         Sign(p[2]) * ((size * Abs(p[2])) \div Dist(p, Origin))>>

(* _cross_track: perpendicular to the segment that is driven, back to it, by *)
(* the offset or its limit, a cell, and with cross_track_gain the weaker one.*)
CrossTrack(path, index, xy) ==
  LET start == path[IF index = 1 THEN 1 ELSE index - 1]
      along == Sized(Minus(path[index], start), 100)
      left == <<-along[2], along[1]>>
      offset == Minus(xy, start)[1] * left[1] + Minus(xy, start)[2] * left[2]
  IN  Sized(<<-offset * left[1], -offset * left[2]>>, (7 * Min({Abs(offset), 100})) \div 10)

(* A tick goes along the joint axes, or in between.                          *)
NearestStep(p) == <<IF 5 * Abs(p[1]) <= 2 * Abs(p[2]) THEN 0 ELSE Sign(p[1]),
                    IF 5 * Abs(p[2]) <= 2 * Abs(p[1]) THEN 0 ELSE Sign(p[2])>>

Blend(v, correction) == NearestStep(Plus(Sized(v, 100), correction))

Velocities(point, xy) ==
  IF run.controller = "pursuit" THEN {Minus(point, xy)} ELSE Answers

Clip(n, lo, hi) == IF n < lo THEN lo ELSE IF n > hi THEN hi ELSE n

(* Mutant: the lead is not clamped.                                          *)
ApplyVelocityUnclamped(v) == Plus(target, Apply(Inverted(matrix), v))

(* _apply_velocity: the target is integrated, and clamped around the joints. *)
ApplyVelocity(v) ==
  LET wanted == Plus(target, Apply(Inverted(matrix), v))
  IN  <<Clip(wanted[1], joint[1] - MaxTargetLead, joint[1] + MaxTargetLead),
        Clip(wanted[2], joint[2] - MaxTargetLead, joint[2] + MaxTargetLead)>>

-----------------------------------------------------------------------------
(* navigate_to.                                                              *)

Returns(goal, success, reason, end, final) ==
  /\ result' = [goal |-> goal, success |-> success, reason |-> reason, final |-> final, end |-> end]
  /\ drive' = None /\ rest' = final

(* Mutant: the target is where the drive before left it.                     *)
KeptDriveTarget == target

ResetDriveTarget == joint

NavigateTo(goal) ==
  /\ doing = "ready" /\ drive = None /\ calls < MaxCalls
  /\ calls' = calls + 1
  /\ \E path \in Plan(base, goal) :
       IF path = None THEN Returns(goal, FALSE, "no path found", base, base) /\ UNCHANGED target
       ELSE /\ drive' = <<[goal |-> goal, path |-> path, index |-> 1, steps |-> 0, recent |-> <<>>]>>
            /\ target' = ResetDriveTarget
            /\ UNCHANGED <<result, rest>>
  /\ UNCHANGED <<files, run, doing, map, matrix, joint, command>>

Arrives(d) == Dist(base, d.goal) < GoalThreshold

Arrive ==
  /\ drive # None /\ Arrives(drive[1])
  /\ Returns(drive[1].goal, TRUE, "reached goal", Last(drive[1].path), base)
  /\ UNCHANGED <<files, run, doing, map, matrix, joint, target, command, calls>>

(* One tick of the loop, which ends the drive when its window shows no       *)
(* progress or the ticks are used up.                                        *)
Tick ==
  /\ drive # None /\ ~Arrives(drive[1])
  /\ LET d == drive[1]
         index == NextIndex(d.path, d.index, base)
         seen == Append(d.recent, base)
         recent == IF Len(seen) > StallWindow THEN Tail(seen) ELSE seen
         stalled == Len(seen) > StallWindow /\ Dist(recent[1], base) < StallProgress
     IN  /\ \E v \in Velocities(Carrot(d.path, index, base), base) :
              target' = ApplyVelocity(Blend(v, CrossTrack(d.path, index, base)))
         /\ command' = target' /\ joint' \in Moves(joint, command')
         /\ IF stalled \/ d.steps + 1 = MaxSteps
            THEN Returns(d.goal, FALSE, IF stalled THEN "stalled" ELSE "timeout", Last(d.path), Base(joint'))
            ELSE /\ drive' = <<[d EXCEPT !.index = index, !.steps = @ + 1, !.recent = recent]>>
                 /\ UNCHANGED <<result, rest>>
  /\ UNCHANGED <<files, run, doing, map, matrix, calls>>

(* spin, or the next drive's set-up: physics goes on, with the last command. *)
Spin ==
  /\ doing = "ready" /\ drive = None /\ joint # command
  /\ joint' \in Moves(joint, command) \ {joint}
  /\ UNCHANGED <<files, run, doing, map, matrix, target, command, drive, result, rest, calls>>

(* teleport: the joints are set, the drives with them.  A place that is      *)
(* taken throws the base out of it, and raises when that is too far.         *)
Teleport(xy) ==
  /\ doing = "ready" /\ drive = None /\ calls < MaxCalls
  /\ calls' = calls + 1
  /\ LET wanted == Plus(joint, Apply(Inverted(matrix), Minus(xy, base)))
         around == {Plus(wanted, d) : d \in (-1..1) \X (-1..1)}
     IN  \E landed \in IF Enters(xy) THEN {wanted} ELSE {j \in around : Enters(Base(j))} :
           /\ joint' = landed /\ target' = landed /\ command' = wanted /\ rest' = Base(landed)
  /\ UNCHANGED <<files, run, doing, map, matrix, drive, result>>

Close == doing = "ready" /\ drive = None /\ Closed /\ UNCHANGED cache

IsaacNext ==
  \/ Rearrange \/ OpenStage \/ Calibrate \/ LoadMap \/ BuildMap \/ Kill \/ Close
  \/ \E goal \in Locations : NavigateTo(goal) \/ Teleport(goal)
  \/ Arrive \/ Tick \/ Spin

IsaacSpec == IsaacInit /\ [][IsaacNext]_isaacVars

-----------------------------------------------------------------------------
Outside == [s \in DOMAIN Free |-> [r \in Radii |->
             {c : c \in Grid(FloorBox(s)) \ Grown(Occupied(s), Grid(FloorBox(s)), r)}]]

(* The grid that is planned on blocks exactly the cells within the robot's   *)
(* radius of an obstacle of the scene it was scanned from.                   *)
MapFits == doing = "ready" => map.free = Outside[map.of][run.radius]

(* A drive pushes by what it was itself told so far, and never by more than  *)
(* MaxTargetLead: no lead of an earlier drive launches it.                   *)
LeadIsEarned ==
  drive # None /\ drive[1].steps > 0 =>
    Dist(command, joint) <= Min({drive[1].steps, MaxTargetLead})

(* Between the calls the base stays as near as the lead to where the last    *)
(* result, or teleport, said it is.                                          *)
RestsWithinLead ==
  doing = "ready" /\ drive = None => Dist(base, rest) <= MaxTargetLead

=============================================================================
