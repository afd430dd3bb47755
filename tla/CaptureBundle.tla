--------------------------- MODULE CaptureBundle ---------------------------
(***************************************************************************)
(* What the mapper reads: load_capture_bundle (simbiote/mapper/ingest.py)  *)
(* and the two SAM 3 adapters that label a capture                         *)
(* (scripts/gb10/adapters/sam3_detect.py and sam3_labels.py), as functions *)
(* of the capture and of what the model sees in it.                        *)
(*                                                                         *)
(* A capture is a record: whether its metadata and its media are there,    *)
(* the rows of odometry.csv and how many frames rgb.mp4 encodes.  A row    *)
(* has the frame's number and time, whether every number in it is finite,  *)
(* whether its depth and confidence images are both there and of one size, *)
(* how many of their pixels are near and sure enough, and whether its      *)
(* quaternion is one.                                                      *)
(***************************************************************************)
EXTENDS Integers, Sequences, FiniteSets, SequencesExt

CONSTANTS
  Frames,          \* sam3_detect's --frames
  PreviewMax,      \* PREVIEW_MAX_FRAMES
  MinScore, MinPoints, MaxSize, MergeRadius,
  Detections       \* what SAM 3 may find, all frames and prompts together

Rejected == <<>>   \* no capture that is accepted has no frames

(* A frame whose depth and confidence images are not both there is dropped;  *)
(* its numbers are never read.                                               *)
Kept(c) == SelectSeq(c.rows, LAMBDA row : c.media => row.pair)

(* load_capture_bundle: the frames in the order of their times, or Rejected  *)
(* for each of the CaptureValidationErrors.                                  *)
LoadCapture(c, metadata_only) ==
  IF \/ ~c.metadata
     \/ ~c.media /\ ~metadata_only
     \/ \E i, j \in DOMAIN c.rows : i # j /\ c.rows[i].id = c.rows[j].id
     \/ \E i \in DOMAIN Kept(c) : ~Kept(c)[i].finite
  THEN Rejected
  ELSE SortSeq(Kept(c), LAMBDA f, g : f.time < g.time)

(* unproject_frame: how many points a frame has in the world, or an error.   *)
Broken == -1

Unproject(f) ==
  IF ~f.sized \/ (f.pixels > 0 /\ ~f.turned) THEN Broken ELSE f.pixels

(* _preview_points: every stride-th frame is unprojected, and there must be  *)
(* a point in one of them.                                                   *)
HasPreview(frames) ==
  LET stride == (Len(frames) + PreviewMax - 1) \div PreviewMax
      counts == {Unproject(frames[i]) : i \in {k \in DOMAIN frames : (k - 1) % stride = 0}}
  IN  Broken \notin counts /\ counts # {0}

-----------------------------------------------------------------------------
(* sam3_detect.py.                                                           *)

Least(m, n) == IF m < n THEN m ELSE n

(* usable_frame_count: the frames paired with the video, by position.        *)
Usable(c, frames) == Least(c.video, Len(frames))

(* The frames sampled evenly among the first usable ones.                    *)
Sampled(c, frames) ==
  LET usable == Usable(c, frames)
      count == Least(Frames, usable)
  IN  {frames[1 + (IF count = 1 THEN 0 ELSE (k * (usable - 1)) \div (count - 1))] :
         k \in 0..(count - 1)}

(* stills[frame.frame_id]: the frame's number, not its position, picks the   *)
(* image, and is past the end of the video.                                  *)
BeyondVideo(c, frames) == \E f \in Sampled(c, frames) : f.id >= c.video

(* The frames' numbers have a hole, and every frame after it is out of step  *)
(* with the video: seen as a shift that stays, when the capture is long      *)
(* enough to tell.                                                           *)
Shifted(frames) == \E i \in DOMAIN frames : frames[i].id # frames[1].id + i - 1

(* What the score, the number of LiDAR points and the size let pass.         *)
Passes(d) ==
  /\ d.score >= MinScore /\ d.points >= MinPoints
  /\ d.kind = "object" => d.hi - d.lo <= MaxSize

Gap2(d, e) == LET g == (d.lo + d.hi) - (e.lo + e.hi) IN IF g < 0 THEN -g ELSE g

(* Two detections of one label close enough together; a centre is half of    *)
(* lo + hi.                                                                  *)
SameObject(d, e) == d.label = e.label /\ Gap2(d, e) <= 2 * MergeRadius

(* One round of merge_detections: the first node it fits takes the detection *)
(* in, with its points, its score and its frames, or it is a node of its own.*)
MergeOne(merged, d) ==
  LET fits == {i \in DOMAIN merged : SameObject(merged[i], d)}
  IN  IF fits = {} THEN Append(merged, d)
      ELSE [merged EXCEPT ![CHOOSE i \in fits : \A j \in fits : i <= j] =
              [@ EXCEPT !.lo = Least(@, d.lo),
                        !.hi = IF @ < d.hi THEN d.hi ELSE @,
                        !.frames = @ \cup d.frames]]

MergeDetections(raw) ==
  FoldLeft(MergeOne, <<>>, SetToSortSeq(raw, LAMBDA d, e : d.score > e.score))

(* The nodes of detections.json: one floor of all floors, and the objects    *)
(* numbered within their label, as id says.                                  *)
DetectedNodes(raw) ==
  LET merged == MergeDetections(raw)
      floors == SelectSeq(merged, LAMBDA d : d.kind = "floor")
      objects == SelectSeq(merged, LAMBDA d : d.kind = "object")
      nth(i) == Cardinality({j \in 1..i : objects[j].label = objects[i].label})
  IN  (IF floors = <<>> THEN {}
       ELSE {[id |-> <<"navigable_floor", 1>>, kind |-> "floor",
              frames |-> UNION {floors[i].frames : i \in DOMAIN floors}]})
      \cup {[id |-> <<objects[i].label, nth(i)>>, kind |-> "object", frames |-> objects[i].frames] :
              i \in DOMAIN objects}

(* What the two adapters return: how they end and the nodes they wrote.      *)
Failed(cause) == [cause |-> cause, nodes |-> {}]
Labelled(nodes) == [cause |-> "", nodes |-> nodes]

(* Mutant: nobody looks whether there is an object.                          *)
VerdictFloorOnly(nodes) ==
  IF "floor" \in {n.kind : n \in nodes} THEN Labelled(nodes) ELSE Failed("adapter")

(* It writes what it has and then fails without a floor or an object.        *)
Verdict(nodes) ==
  IF {n.kind : n \in nodes} = {"floor", "object"} THEN Labelled(nodes) ELSE Failed("adapter")

(* sam3_detect.main, for each set of detections SAM 3 may come up with.      *)
Detect(c) ==
  LET frames == LoadCapture(c, FALSE)
  IN  IF frames = Rejected \/ c.video = 0 THEN {Failed("adapter")}
      ELSE (IF Shifted(frames) THEN {Failed("adapter")} ELSE {})
           \cup (IF BeyondVideo(c, frames) THEN {Failed("index")}
                 ELSE LET sampled == Sampled(c, frames)
                          sound == {f.id : f \in {g \in sampled : Unproject(g) # Broken}}
                          seen == {d \in Detections : Passes(d) /\ d.frames \subseteq sound}
                      IN  {Verdict(DetectedNodes(raw)) : raw \in SUBSET seen}
                          \cup {Failed("adapter") : f \in {g \in sampled : Unproject(g) = Broken}})

(* sam3_labels.main, behind run_sam3.sh: the first frame of the video, a     *)
(* floor that is assumed, every object with a high enough score.             *)
Labels(c, layer_exists) ==
  IF ~c.metadata \/ c.rows = <<>> \/ c.video = 0 \/ ~layer_exists THEN {Failed("adapter")}
  ELSE LET first == {c.rows[1].id}
           seen == {d \in Detections : d.kind = "object" /\ d.score >= MinScore /\ d.frames = first}
       IN  {IF raw = {} THEN Failed("adapter")
            ELSE Labelled({[id |-> <<"navigable_floor", 1>>, kind |-> "floor", frames |-> first]}
                          \cup {[id |-> <<d.label, d.score>>, kind |-> "object", frames |-> first] : d \in raw}) :
              raw \in SUBSET seen}
=============================================================================
