------------------------ MODULE MapperPipelineProofs ------------------------
(***************************************************************************)
(* Proofs about MapperPipeline, for any number of runs of one --out, any   *)
(* captures, detections and layer suffixes: what a run leaves at --out     *)
(* however it ends, which verdicts and causes it may end with, and how far *)
(* the doctor and the validators may be trusted.                           *)
(***************************************************************************)
EXTENDS MapperPipeline, WatchLoop, FiniteSetTheorems, WellFoundedInduction, TLAPS

(* What a map or a run holds.                                                *)
BothKinds == {"floor", "object"}
Layers == Formats \cup {NoLayer}
Before == {"idle", "colmap", "depth", "recon", "label", "graph", "export layer"}
RunPC == Before \cup Publishing \cup {"returned", "failed", "killed"}
Causes == {"", "capture", "unset", "adapter", "artifact", "points", "index", "os", "invalid"}
RunState == [pc : RunPC, allow : BOOLEAN, cause : Causes, dirs : SUBSET Stages, layer : Layers,
             kinds : {{}, BothKinds}, valid : BOOLEAN, manifest : {"none", "valid", "invalid"}]
Maps == [run : Runs \cup {0}, layer : Layers, kinds : {{}, BothKinds}, whole : BOOLEAN]
Files == [run : Runs \cup {0}, whole : BOOLEAN]

(* Every variable keeps its type; the upload is one capture, or none.        *)
TypeOK ==
  /\ scan \in Captures
  /\ upload = <<>> \/ \E c \in Captures \cup {Cut(scan, n) : n \in 0..(Len(scan.rows) - 1)} : upload = <<c>>
  /\ mode \in Modes /\ commands \subseteq Adapters /\ sam3 \in {"labels", "detect", "none"}
  /\ doctor \in {"not asked", "ready", "not ready"}
  /\ runs \in [Runs -> RunState]
  /\ pxr \in BOOLEAN
  /\ usd \in Maps /\ graph \in Files /\ layers \in [Formats -> Files]
  /\ shared \subseteq Runs

(* What a run in state s has: its stages' directories, its layer, its labels.*)
Exporting == Publishing \cup {"export layer"}
Progress(s) ==
  /\ s.pc # "failed" => s.cause = ""
  /\ s.pc \notin {"returned", "failed"} => s.manifest = "none"
  /\ s.pc \in {"depth", "recon", "label", "graph"} \cup Exporting => "colmap" \in s.dirs
  /\ s.pc \in {"recon", "label", "graph"} \cup Exporting => "depth" \in s.dirs
  /\ s.pc \in {"label", "graph"} \cup Exporting =>
       "recon" \in s.dirs /\ (s.layer = NoLayer => mode = "proxy")
  /\ s.pc \in {"graph"} \cup Exporting => "label" \in s.dirs /\ s.kinds = BothKinds
  /\ s.pc \in Exporting => "graph" \in s.dirs
  /\ s.pc = "export layer" => s.layer # NoLayer

(* What a run has not begun to export is not in --out.                       *)
Hidden(r) ==
  /\ runs[r].pc \in Before => \A s \in Formats : layers[s].run # r
  /\ runs[r].pc \in Before \cup {"export usd"} => usd.run # r
  /\ runs[r].pc \in Before \cup {"export usd", "export graph"} => graph.run # r

(* What it has exported so far is there, unless another run was exporting.   *)
Held(r) ==
  LET s == runs[r] IN
  r \notin shared =>
    /\ s.pc \in Publishing /\ s.layer # NoLayer => layers[s.layer] = Mine(r)
    /\ s.pc \in Publishing \ {"export usd"} => usd = MapOf(r, s.kinds, TRUE)
    /\ s.pc \in {"validate", "manifest"} => graph = Mine(r)
    /\ s.pc = "manifest" => (s.valid <=> (s.layer = NoLayer => s.allow))

(* Why a run failed: an adapter is unset only where the configuration lacks  *)
(* one, and the labels are never what makes a map of one run invalid.        *)
Excused(r) ==
  /\ runs[r].cause = "unset" => ~Configured
  /\ runs[r].cause = "invalid" /\ r \notin shared => mode = "proxy" /\ ~runs[r].allow

RunsInv == \A r \in Runs : Progress(runs[r]) /\ Hidden(r) /\ Held(r) /\ Excused(r)
DoctorInv == doctor = "ready" => Configured

(* The map at --out: one that is cut short is of a run that died, and one    *)
(* whose geometry is another run's was overtaken by a run that has not got   *)
(* to its own map, or died on the way.                                       *)
Died(r) == runs[r].pc \in {"failed", "killed"} /\ runs[r].manifest = "none"
MapInv ==
  /\ usd.run = 0 => usd.kinds = {}
  /\ usd.run # 0 /\ ~usd.whole => Died(usd.run)
  /\ usd.run # 0 /\ usd.layer # NoLayer =>
       LET r == layers[usd.layer].run
       IN  \/ r = usd.run \/ r \in shared \/ usd.run \in shared
           \/ r \in Runs /\ (runs[r].pc = "export usd" \/ Died(r))

IInv == TypeOK /\ RunsInv /\ DoctorInv /\ MapInv

-----------------------------------------------------------------------------
(* What the adapters leave.                                                  *)

(* SAM 3's adapters end with a floor and an object, or with an error of      *)
(* their own, whatever is detected in whatever capture.                      *)
LEMMA LabelsAreComplete ==
  ASSUME NEW c, NEW layer \in BOOLEAN, NEW result \in Detect(c) \cup Labels(c, layer)
  PROVE  \/ result.cause \in {"adapter", "index"}
         \/ result.cause = "" /\ {n.kind : n \in result.nodes} = BothKinds
  <1>1. \A nodes : LET v == Verdict(nodes) IN
          \/ v.cause = "adapter"
          \/ v.cause = "" /\ {n.kind : n \in v.nodes} = BothKinds
    BY DEF Verdict, Failed, Labelled, BothKinds
  <1>2. Failed("adapter").cause = "adapter" /\ Failed("index").cause = "index"
    BY DEF Failed
  <1>3. CASE result \in Detect(c)
    <2>1. \/ result \in {Failed("adapter"), Failed("index")}
          \/ \E nodes : result = Verdict(nodes)
      BY <1>3, Zenon DEF Detect
    <2>. QED  BY <2>1, <1>1, <1>2
  <1>4. CASE result \in Labels(c, layer)
    <2>. DEFINE first == {c.rows[1].id}
                floor == [id |-> <<"navigable_floor", 1>>, kind |-> "floor", frames |-> first]
                object(d) == [id |-> <<d.label, d.score>>, kind |-> "object", frames |-> first]
                Nodes(raw) == {floor} \cup {object(d) : d \in raw}
    <2>1. \/ result = Failed("adapter")
          \/ \E raw : raw # {} /\ result = Labelled(Nodes(raw))
      BY <1>4, Zenon DEF Labels
    <2>2. ASSUME NEW raw, raw # {} PROVE {n.kind : n \in Nodes(raw)} = BothKinds
      <3>1. floor.kind = "floor" /\ \A d : object(d).kind = "object"
        OBVIOUS
      <3>2. PICK d \in raw : TRUE
        BY <2>2
      <3>. HIDE DEF floor, object
      <3>3. floor \in Nodes(raw) /\ object(d) \in Nodes(raw)
        BY <3>2
      <3>4. \A n \in Nodes(raw) : n.kind \in {"floor", "object"}
        BY <3>1
      <3>. HIDE DEF Nodes
      <3>5. "floor" \in {n.kind : n \in Nodes(raw)} /\ "object" \in {n.kind : n \in Nodes(raw)}
        BY <3>1, <3>3, Zenon
      <3>. QED  BY <3>4, <3>5 DEF BothKinds
    <2>3. \A nodes : Labelled(nodes).cause = "" /\ Labelled(nodes).nodes = nodes
      BY DEF Labelled
    <2>. HIDE DEF Nodes
    <2>4. CASE result = Failed("adapter")
      BY <2>4, <1>2
    <2>5. CASE \E raw : raw # {} /\ result = Labelled(Nodes(raw))
      <3>1. PICK raw : raw # {} /\ result = Labelled(Nodes(raw))
        BY <2>5
      <3>2. result.cause = "" /\ result.nodes = Nodes(raw)
        BY <3>1, <2>3, Zenon
      <3>. QED  BY <3>1, <3>2, <2>2, Zenon
    <2>. QED  BY <2>1, <2>4, <2>5
  <1>. QED  BY <1>3, <1>4

(* A set of natural numbers has a least one.                                 *)
LEMMA LeastExists ==
  ASSUME NEW S \in SUBSET Nat, S # {}
  PROVE  \E x \in S : \A y \in S : x <= y
  <1>. DEFINE T == {1..n : n \in S}
              R == StrictSubsetOrdering(Nat)
  <1>1. T \subseteq FiniteSubsetsOf(Nat) /\ T # {}
    <2>1. \A n \in Nat : 1..n \in SUBSET Nat /\ IsFiniteSet(1..n)
      BY FS_Interval
    <2>2. \A n \in S : 1..n \in FiniteSubsetsOf(Nat)
      BY <2>1 DEF FiniteSubsetsOf
    <2>. QED  BY <2>2
  <1>2. IsWellFoundedOn(R, FiniteSubsetsOf(Nat))
    BY FS_StrictSubsetOrderingWellFounded
  <1>3. PICK i \in T : \A j \in T : ~ (<<j, i>> \in R)
    <2>. HIDE DEF T, R
    <2>. QED  BY <1>1, <1>2, WFMin
  <1>4. PICK x \in S : i = 1..x
    OBVIOUS
  <1>5. ASSUME NEW y \in S PROVE x <= y
    <2> SUFFICES ASSUME y < x PROVE FALSE
      OBVIOUS
    <2>1. 1..y \subseteq 1..x /\ 1..y # 1..x
      <3>1. x \in 1..x /\ x \notin 1..y
        OBVIOUS
      <3>. QED  BY <3>1
    <2>2. <<1..y, i>> \in R
      BY <1>4, <2>1 DEF StrictSubsetOrdering
    <2>. QED  BY <1>3, <2>2
  <1>. QED  BY <1>5

(* The layer of the suffixes 3DGRUT exported that sorts first is one of them.*)
LEMMA FirstLayer ==
  ASSUME NEW exported \in SUBSET Formats, exported # {}
  PROVE  (CHOOSE s \in exported : \A t \in exported : s <= t) \in exported
  <1>1. exported \in SUBSET Nat
    BY FormatsAssumption
  <1>. QED  BY <1>1, LeastExists
-----------------------------------------------------------------------------
(* The stages of a run, up to where it begins to export.                     *)
StageStep(r) ==
  \/ Start(r) \/ RefinePoses(r) \/ CompleteDepth(r) \/ Reconstruct(r) \/ LabelScene(r)
  \/ BuildSceneGraph(r)
  \/ Breaks(r) /\ runs[r].pc \in Before

(* Run r gets to state s, with nothing published yet.                        *)
Reaches(r, s) ==
  /\ runs' = [runs EXCEPT ![r] = s] /\ StageOnly
  /\ runs[r].pc \in Before
  /\ s.pc \in (Before \ {"idle"}) \cup {"export usd", "failed"}
  /\ Progress(s) /\ s.manifest = "none"
  /\ s.pc = "export usd" => s.layer = NoLayer
  /\ s.cause # "invalid" /\ (s.cause = "unset" => ~Configured)

(* A stage that fails.                                                       *)
LEMMA StageFailure ==
  ASSUME TypeOK, NEW r \in Runs, NEW cause \in Causes \ {"", "invalid"},
         runs[r].pc \in Stages, StageFails(r, cause), StageOnly, Progress(runs[r]),
         cause = "unset" => ~Configured
  PROVE  \E s \in RunState : Reaches(r, s)
  <1>. DEFINE s == [runs[r] EXCEPT !.pc = "failed", !.cause = cause, !.dirs = @ \cup {runs[r].pc}]
  <1>1. runs \in [Runs -> RunState]
    BY DEF TypeOK
  <1>2. s \in RunState
    BY <1>1 DEF RunState, RunPC
  <1>3. runs' = [runs EXCEPT ![r] = s]
    BY <1>1 DEF StageFails, RunState
  <1>4. s.pc = "failed" /\ s.cause = cause /\ s.manifest = runs[r].manifest
    BY <1>1 DEF RunState
  <1>5. Progress(s)
    BY <1>4 DEF Progress, Exporting, Publishing
  <1>6. runs[r].pc \in Before /\ s.manifest = "none"
    BY <1>4 DEF Stages, Before, Progress
  <1>. HIDE DEF s
  <1>. QED  BY <1>2, <1>3, <1>4, <1>5, <1>6 DEF Reaches

(* A stage that is done.                                                     *)
LEMMA StageSuccess ==
  ASSUME TypeOK, NEW r \in Runs, Progress(runs[r]), StageOnly,
         NEW next \in {"depth", "recon", "export usd", "export layer"}, StageDone(r, next),
         \/ runs[r].pc = "colmap" /\ next = "depth"
         \/ runs[r].pc = "depth" /\ next = "recon"
         \/ runs[r].pc = "graph" /\ next = IF runs[r].layer = NoLayer THEN "export usd" ELSE "export layer"
  PROVE  \E s \in RunState : Reaches(r, s)
  <1>. DEFINE s == [runs[r] EXCEPT !.pc = next, !.dirs = @ \cup {runs[r].pc}]
  <1>1. runs \in [Runs -> RunState]
    BY DEF TypeOK
  <1>2. s \in RunState
    BY ZenonT(60), <1>1 DEF RunState, RunPC, Before, Publishing, Stages
  <1>3. runs' = [runs EXCEPT ![r] = s]
    BY <1>1 DEF StageDone, RunState
  <1>4. /\ s.pc = next /\ s.cause = runs[r].cause /\ s.layer = runs[r].layer /\ s.kinds = runs[r].kinds
        /\ s.dirs = runs[r].dirs \cup {runs[r].pc} /\ s.manifest = runs[r].manifest
    BY <1>1 DEF RunState
  <1>. HIDE DEF s
  <1>5. Progress(s) /\ s.manifest = "none"
    BY <1>4 DEF Progress, Exporting, Publishing
  <1>. QED  BY <1>2, <1>3, <1>4, <1>5 DEF Reaches, Progress, Before

(* Every step of a stage is one or the other, or leaves a layer or labels.   *)
LEMMA StageStepReaches ==
  ASSUME TypeOK, NEW r \in Runs, Progress(runs[r]), StageStep(r)
  PROVE  \E s \in RunState : Reaches(r, s)
  <1>1. runs \in [Runs -> RunState] /\ commands \subseteq Adapters /\ mode \in Modes
    BY DEF TypeOK
  <1>2. ASSUME NEW adapter \in Adapters, mode = "production", runs[r].pc \in Stages,
               AdapterMissing(r, adapter) \/ AdapterFails(r, adapter), StageOnly
        PROVE  \E s \in RunState : Reaches(r, s)
    <2>1. CASE AdapterMissing(r, adapter)
      <3>1. ~Configured
        BY <1>2, <2>1 DEF AdapterMissing, Configured
      <3>. QED  BY <1>2, <2>1, <3>1, StageFailure DEF AdapterMissing, Causes
    <2>2. CASE AdapterFails(r, adapter)
      BY <1>2, <2>2, StageFailure DEF AdapterFails, Causes
    <2>. QED  BY <1>2, <2>1, <2>2
  <1>3. CASE Start(r)
    <2>. DEFINE Failing == [runs[r] EXCEPT !.pc = "failed", !.cause = "capture"]
                Going(allow) == [runs[r] EXCEPT !.pc = "colmap", !.allow = allow]
    <2>1. CASE Fails(r, "capture")
      <3>1. Failing \in RunState /\ runs' = [runs EXCEPT ![r] = Failing]
        BY <1>1, <2>1 DEF Fails, RunState, RunPC, Causes
      <3>2. Failing.pc = "failed" /\ Failing.cause = "capture" /\ Failing.manifest = runs[r].manifest
        BY <1>1 DEF RunState
      <3>. HIDE DEF Failing
      <3>. QED  BY <1>3, <3>1, <3>2 DEF Reaches, Progress, Exporting, Publishing, Start, Does, Before
    <2>2. ASSUME NEW allow \in BOOLEAN, runs' = [runs EXCEPT ![r].pc = "colmap", ![r].allow = allow]
          PROVE  \E s \in RunState : Reaches(r, s)
      <3>1. Going(allow) \in RunState /\ runs' = [runs EXCEPT ![r] = Going(allow)]
        BY <1>1, <2>2 DEF RunState, RunPC, Before
      <3>2. /\ Going(allow).pc = "colmap" /\ Going(allow).cause = runs[r].cause
            /\ Going(allow).manifest = runs[r].manifest
        BY <1>1 DEF RunState
      <3>. HIDE DEF Going
      <3>. QED  BY <1>3, <3>1, <3>2 DEF Reaches, Progress, Exporting, Publishing, Start, Does, Before
    <2>. QED  BY <1>3, <2>1, <2>2 DEF Start
  <1>4. CASE RefinePoses(r)
    <2>1. runs[r].pc = "colmap" /\ StageOnly
      BY <1>4 DEF RefinePoses, Does
    <2>. QED  BY <1>2, <1>4, <2>1, StageSuccess DEF RefinePoses, Stages, Adapters
  <1>5. CASE CompleteDepth(r)
    <2>1. runs[r].pc = "depth" /\ StageOnly
      BY <1>5 DEF CompleteDepth, Does
    <2>. QED  BY <1>2, <1>5, <2>1, StageSuccess DEF CompleteDepth, Stages, Adapters
  <1>6. CASE Reconstruct(r)
    <2>1. runs[r].pc = "recon" /\ StageOnly
      BY <1>6 DEF Reconstruct, Does
    <2>2. ASSUME NEW layer \in Layers, Reconstructed(r, layer), layer = NoLayer => mode = "proxy"
          PROVE  \E s \in RunState : Reaches(r, s)
      <3>. DEFINE s == [runs[r] EXCEPT !.pc = "label", !.dirs = @ \cup {"recon"}, !.layer = layer]
      <3>1. s \in RunState /\ runs' = [runs EXCEPT ![r] = s]
        BY <1>1, <2>2 DEF Reconstructed, RunState, RunPC, Before, Stages
      <3>2. /\ s.pc = "label" /\ s.layer = layer /\ s.cause = runs[r].cause
            /\ s.dirs = runs[r].dirs \cup {"recon"} /\ s.manifest = runs[r].manifest
        BY <1>1 DEF RunState
      <3>. HIDE DEF s
      <3>. QED  BY <2>1, <2>2, <3>1, <3>2 DEF Reaches, Progress, Exporting, Publishing, Before
    <2>3. CASE mode = "production"
      <3>1. ASSUME NEW exported \in SUBSET Formats, exported # {},
                   Reconstructed(r, CHOOSE s \in exported : \A t \in exported : s <= t)
            PROVE  \E s \in RunState : Reaches(r, s)
        BY <3>1, <2>2, FirstLayer, FormatsAssumption DEF Layers, NoLayer
      <3>2. CASE StageFails(r, "artifact")
        BY <2>1, <3>2, StageFailure DEF Stages, Causes
      <3>. QED  BY <1>2, <1>6, <2>1, <2>3, <3>1, <3>2 DEF Reconstruct, Stages, Adapters
    <2>4. CASE mode = "preview"
      <3>1. CASE Reconstructed(r, PreviewFormat)
        BY <2>2, <3>1, FormatsAssumption DEF Layers, NoLayer
      <3>2. CASE StageFails(r, "points")
        BY <2>1, <3>2, StageFailure DEF Stages, Causes
      <3>. QED  BY <1>6, <2>4, <3>1, <3>2 DEF Reconstruct
    <2>5. CASE mode = "proxy"
      BY <1>6, <2>2, <2>5 DEF Reconstruct, Layers
    <2>. QED  BY <1>1, <2>3, <2>4, <2>5 DEF Modes
  <1>7. CASE LabelScene(r)
    <2>1. runs[r].pc = "label" /\ StageOnly
      BY <1>7 DEF LabelScene, Does
    <2>2. ASSUME runs' = [runs EXCEPT ![r].pc = "graph", ![r].dirs = @ \cup {"label"}, ![r].kinds = BothKinds]
          PROVE  \E s \in RunState : Reaches(r, s)
      <3>. DEFINE s == [runs[r] EXCEPT !.pc = "graph", !.dirs = @ \cup {"label"}, !.kinds = BothKinds]
      <3>1. s \in RunState /\ runs' = [runs EXCEPT ![r] = s]
        BY <1>1, <2>2 DEF RunState, RunPC, Before, Stages
      <3>2. /\ s.pc = "graph" /\ s.layer = runs[r].layer /\ s.cause = runs[r].cause
            /\ s.dirs = runs[r].dirs \cup {"label"} /\ s.kinds = BothKinds
            /\ s.manifest = runs[r].manifest
        BY <1>1 DEF RunState
      <3>. HIDE DEF s
      <3>. QED  BY <2>1, <3>1, <3>2 DEF Reaches, Progress, Exporting, Publishing, Before
    <2>3. ASSUME NEW result \in Sam3(r),
                 IF result.cause # "" THEN StageFails(r, result.cause)
                 ELSE runs' = [runs EXCEPT ![r].pc = "graph", ![r].dirs = @ \cup {"label"},
                                           ![r].kinds = {n.kind : n \in result.nodes}]
          PROVE  \E s \in RunState : Reaches(r, s)
      <3>. DEFINE layer == runs[r].layer # NoLayer
      <3>1. layer \in BOOLEAN /\ result \in Detect(upload[1]) \cup Labels(upload[1], layer)
        BY <2>3, Zenon DEF Sam3
      <3>. HIDE DEF layer
      <3>2. \/ result.cause \in {"adapter", "index"}
            \/ result.cause = "" /\ {n.kind : n \in result.nodes} = BothKinds
        BY <3>1, LabelsAreComplete
      <3>3. CASE result.cause \in {"adapter", "index"}
        BY <2>1, <2>3, <3>3, StageFailure DEF Stages, Causes
      <3>4. CASE result.cause = "" /\ {n.kind : n \in result.nodes} = BothKinds
        BY <2>2, <2>3, <3>4
      <3>. QED  BY <3>2, <3>3, <3>4
    <2>4. {n.kind : n \in ProxyNodes} = BothKinds
      BY DEF ProxyNodes, BothKinds
    <2>. QED  BY <1>2, <1>7, <2>1, <2>2, <2>3, <2>4 DEF LabelScene, Stages, Adapters
  <1>8. CASE BuildSceneGraph(r)
    <2>1. runs[r].pc = "graph" /\ StageOnly
      BY <1>8 DEF BuildSceneGraph, Does
    <2>. QED  BY <1>8, <2>1, StageSuccess DEF BuildSceneGraph
  <1>9. CASE Breaks(r) /\ runs[r].pc \in Before
    <2>. DEFINE s == [runs[r] EXCEPT !.pc = "failed", !.cause = "os"]
    <2>1. CASE StageFails(r, "os") /\ runs[r].pc \in Stages
      BY <1>9, <2>1, StageFailure DEF Breaks, Causes
    <2>2. CASE Fails(r, "os")
      <3>1. s \in RunState /\ runs' = [runs EXCEPT ![r] = s]
        BY <1>1, <2>2 DEF Fails, RunState, RunPC, Causes
      <3>2. s.pc = "failed" /\ s.cause = "os" /\ s.manifest = runs[r].manifest
        BY <1>1 DEF RunState
      <3>. HIDE DEF s
      <3>. QED  BY <1>9, <3>1, <3>2 DEF Reaches, Progress, Exporting, Publishing, Breaks, Before
    <2>. QED  BY <1>9, <2>1, <2>2 DEF Breaks
  <1>. QED  BY <1>3, <1>4, <1>5, <1>6, <1>7, <1>8, <1>9 DEF StageStep
-----------------------------------------------------------------------------
(* The export of a run.                                                      *)

(* What a step that moves a run on keeps of it.                              *)
Keeps(r) ==
  /\ runs' \in [Runs -> RunState]
  /\ \A q \in Runs \ {r} : runs'[q] = runs[q]
  /\ runs'[r].allow = runs[r].allow /\ runs'[r].dirs = runs[r].dirs
  /\ runs'[r].layer = runs[r].layer /\ runs'[r].kinds = runs[r].kinds

(* A step that only moves a run on.                                          *)
LEMMA MovesOn ==
  ASSUME TypeOK, NEW r \in Runs, NEW pc \in RunPC, MovesTo(r, pc)
  PROVE  /\ Keeps(r) /\ runs'[r].pc = pc
         /\ runs'[r].cause = runs[r].cause /\ runs'[r].valid = runs[r].valid
         /\ runs'[r].manifest = runs[r].manifest
  BY ZenonT(60) DEF TypeOK, RunState, MovesTo, Keeps

(* A run that dies, by an OSError or killed.                                 *)
LEMMA DiesFacts ==
  ASSUME TypeOK, NEW r \in Runs, DiesWriting(r)
  PROVE  /\ Keeps(r) /\ runs'[r].manifest = runs[r].manifest
         /\ \/ runs'[r].pc = "failed" /\ runs'[r].cause = "os"
            \/ runs'[r].pc = "killed" /\ runs'[r].cause = runs[r].cause
  <1>1. CASE Fails(r, "os")
    <2>1. runs \in [Runs -> RunState] /\ runs' = [runs EXCEPT ![r].pc = "failed", ![r].cause = "os"]
      BY <1>1 DEF TypeOK, Fails
    <2>. QED  BY ZenonT(60), <2>1 DEF RunState, RunPC, Causes, Keeps
  <1>2. CASE MovesTo(r, "killed")
    BY <1>2, MovesOn DEF RunPC
  <1>. QED  BY <1>1, <1>2 DEF DiesWriting

(* Validate, with its verdict.                                               *)
LEMMA ValidateGoes ==
  ASSUME TypeOK, NEW r \in Runs, Validate(r)
  PROVE  /\ Keeps(r) /\ runs[r].pc = "validate" /\ runs'[r].pc = "manifest"
         /\ runs'[r].cause = runs[r].cause /\ runs'[r].manifest = runs[r].manifest
         /\ runs'[r].valid <=> Accepts(usd, runs[r].allow)
  <1>. DEFINE verdict == Accepts(usd, runs[r].allow)
  <1>1. verdict \in BOOLEAN
    BY Zenon DEF Accepts
  <1>2. runs' = [runs EXCEPT ![r].pc = "manifest", ![r].valid = verdict] /\ runs[r].pc = "validate"
    BY Zenon DEF Validate, Does
  <1>. HIDE DEF verdict
  <1>3. /\ Keeps(r) /\ runs'[r].pc = "manifest"
        /\ runs'[r].cause = runs[r].cause /\ runs'[r].manifest = runs[r].manifest
        /\ runs'[r].valid = verdict
    BY ZenonT(60), <1>1, <1>2 DEF TypeOK, RunState, RunPC, Publishing, Keeps
  <1>. QED  BY <1>2, <1>3 DEF verdict

(* WriteManifest, which ends the run one way or the other.                   *)
LEMMA WriteManifestGoes ==
  ASSUME TypeOK, NEW r \in Runs, WriteManifest(r)
  PROVE  /\ Keeps(r) /\ runs[r].pc = "manifest"
         /\ \/ /\ runs[r].valid /\ runs'[r].pc = "returned" /\ runs'[r].cause = runs[r].cause
               /\ runs'[r].manifest = "valid"
            \/ /\ ~runs[r].valid /\ runs'[r].pc = "failed" /\ runs'[r].cause = "invalid"
               /\ runs'[r].manifest = "invalid"
  <1>1. runs \in [Runs -> RunState] /\ runs[r].pc = "manifest"
    BY DEF TypeOK, WriteManifest, Does
  <1>2. CASE runs[r].valid
    <2>1. runs' = [runs EXCEPT ![r].pc = "returned", ![r].manifest = "valid"]
      BY <1>2 DEF WriteManifest
    <2>. QED  BY ZenonT(60), <1>1, <1>2, <2>1 DEF RunState, RunPC, Keeps
  <1>3. CASE ~runs[r].valid
    <2>1. runs' = [runs EXCEPT ![r].pc = "failed", ![r].cause = "invalid", ![r].manifest = "invalid"]
      BY <1>3 DEF WriteManifest
    <2>. QED  BY ZenonT(60), <1>1, <1>3, <2>1 DEF RunState, RunPC, Causes, Keeps
  <1>. QED  BY <1>2, <1>3

(* A run whose export, validation or manifest is stopped, or that is killed  *)
(* between two steps.                                                        *)
Stops(r) == Kill(r) \/ (Breaks(r) /\ runs[r].pc \in Publishing)

(* It was under way, and it touches nothing any more.                        *)
LEMMA StopsFacts ==
  ASSUME TypeOK, NEW r \in Runs, Stops(r)
  PROVE  /\ DiesWriting(r) /\ StageOnly
         /\ runs[r].pc \notin {"idle", "returned", "failed", "killed"}
  BY DEF Stops, Kill, Breaks, DiesWriting, Ended, Stages, Publishing

(* The steps of the export: a file is written, whole or not.                 *)
WritesLayer(r, whole) ==
  /\ runs[r].pc = "export layer"
  /\ layers' = [layers EXCEPT ![runs[r].layer] = [run |-> r, whole |-> whole]]
  /\ UNCHANGED <<usd, graph>>
WritesUsd(r, kinds, whole) ==
  /\ runs[r].pc = "export usd" /\ usd' = MapOf(r, kinds, whole) /\ UNCHANGED <<graph, layers>>
WritesGraph(r, whole) ==
  /\ runs[r].pc = "export graph" /\ graph' = [run |-> r, whole |-> whole] /\ UNCHANGED <<usd, layers>>

ExportStep(r) == ExportLayer(r) \/ ExportUsd(r) \/ ExportGraph(r)

(* A step of the export is a file that is whole, or the run dies over it.    *)
LEMMA ExportGoes ==
  ASSUME TypeOK, NEW r \in Runs, ExportStep(r)
  PROVE  /\ Publishes(r)
         /\ \/ WritesLayer(r, TRUE) /\ MovesTo(r, "export usd")
            \/ WritesUsd(r, runs[r].kinds, TRUE) /\ MovesTo(r, "export graph")
            \/ WritesGraph(r, TRUE) /\ MovesTo(r, "validate")
            \/ /\ DiesWriting(r)
               /\ \/ WritesLayer(r, FALSE) \/ WritesGraph(r, FALSE)
                  \/ \E kinds \in {{}, runs[r].kinds} : WritesUsd(r, kinds, FALSE)
  <1>1. CASE ExportLayer(r)
    <2>1. PICK whole \in BOOLEAN : WritesLayer(r, whole) /\ IF whole THEN MovesTo(r, "export usd") ELSE DiesWriting(r)
      BY <1>1 DEF ExportLayer, WritesLayer, Does
    <2>2. CASE whole = TRUE
      BY <1>1, <2>1, <2>2 DEF ExportLayer
    <2>3. CASE whole = FALSE
      BY <1>1, <2>1, <2>3 DEF ExportLayer
    <2>. QED  BY <2>2, <2>3
  <1>2. CASE ExportUsd(r)
    <2>1. UNCHANGED <<graph, layers>> /\ Publishes(r) /\ runs[r].pc = "export usd"
      BY <1>2 DEF ExportUsd, Does
    <2>2. \/ usd' = MapOf(r, runs[r].kinds, TRUE) /\ MovesTo(r, "export graph")
          \/ (\E kinds \in {{}, runs[r].kinds} : usd' = MapOf(r, kinds, FALSE)) /\ DiesWriting(r)
      BY <1>2 DEF ExportUsd
    <2>. QED  BY <2>1, <2>2 DEF WritesUsd
  <1>3. CASE ExportGraph(r)
    <2>1. PICK whole \in BOOLEAN : WritesGraph(r, whole) /\ IF whole THEN MovesTo(r, "validate") ELSE DiesWriting(r)
      BY <1>3 DEF ExportGraph, WritesGraph, Does
    <2>2. CASE whole = TRUE
      BY <1>3, <2>1, <2>2 DEF ExportGraph
    <2>3. CASE whole = FALSE
      BY <1>3, <2>1, <2>3 DEF ExportGraph
    <2>. QED  BY <2>2, <2>3
  <1>. QED  BY <1>1, <1>2, <1>3 DEF ExportStep

(* What they leave is of the types, and of the run.                          *)
LEMMA ExportWrites ==
  ASSUME TypeOK, NEW r \in Runs, Progress(runs[r]), ExportStep(r)
  PROVE  /\ usd' \in Maps /\ graph' \in Files /\ layers' \in [Formats -> Files]
         /\ usd' = usd \/ usd'.run = r
         /\ graph' = graph \/ graph'.run = r
         /\ \A f \in Formats : layers'[f] = layers[f] \/ layers'[f].run = r
         /\ shared' \subseteq Runs /\ shared \subseteq shared'
  <1>1. /\ runs[r] \in RunState /\ usd \in Maps /\ graph \in Files /\ layers \in [Formats -> Files]
        /\ shared \subseteq Runs
    BY DEF TypeOK
  <1>2. /\ runs[r].kinds \in {{}, BothKinds} /\ runs[r].layer \in Layers
    BY <1>1 DEF RunState
  <1>3. ASSUME NEW whole \in BOOLEAN
        PROVE  /\ [run |-> r, whole |-> whole] \in Files
               /\ \A kinds \in {{}, runs[r].kinds} :
                    MapOf(r, kinds, whole) \in Maps /\ MapOf(r, kinds, whole).run = r
    BY <1>2 DEF Files, Maps, MapOf
  <1>4. shared' \subseteq Runs /\ shared \subseteq shared'
    <2>1. Shares(r)
      BY ExportGoes DEF Publishes
    <2>. QED  BY <1>1, <2>1 DEF Shares
  <1>5. ASSUME NEW whole \in BOOLEAN, WritesLayer(r, whole)
        PROVE  /\ layers' \in [Formats -> Files]
               /\ \A f \in Formats : layers'[f] = layers[f] \/ layers'[f].run = r
    <2>1. layers' = [layers EXCEPT ![runs[r].layer] = [run |-> r, whole |-> whole]]
      BY <1>5 DEF WritesLayer
    <2>. QED  BY <1>1, <1>3, <2>1
  <1>6. PICK whole \in BOOLEAN, kinds \in {{}, runs[r].kinds} :
          WritesLayer(r, whole) \/ WritesUsd(r, kinds, whole) \/ WritesGraph(r, whole)
    BY ExportGoes
  <1>7. CASE WritesLayer(r, whole)
    BY <1>1, <1>4, <1>5, <1>7 DEF WritesLayer
  <1>8. CASE WritesUsd(r, kinds, whole)
    BY <1>1, <1>3, <1>4, <1>8 DEF WritesUsd
  <1>9. CASE WritesGraph(r, whole)
    BY <1>1, <1>3, <1>4, <1>9 DEF WritesGraph
  <1>. QED  BY <1>6, <1>7, <1>8, <1>9

(* A run that steps spoils nothing of another: one that was exporting is in  *)
(* shared from then on.                                                      *)
LEMMA OthersKeep ==
  ASSUME TypeOK, RunsInv, NEW r \in Runs, NEW q \in Runs \ {r},
         runs'[q] = runs[q], mode' = mode, commands' = commands,
         \/ UNCHANGED <<usd, graph, layers, shared>>
         \/ /\ Shares(r)
            /\ usd' = usd \/ usd'.run = r
            /\ graph' = graph \/ graph'.run = r
            /\ \A f \in Formats : layers'[f] = layers[f] \/ layers'[f].run = r
  PROVE  Progress(runs[q])' /\ Hidden(q)' /\ Held(q)' /\ Excused(q)'
  <1>1. Progress(runs[q]) /\ Hidden(q) /\ Held(q) /\ Excused(q)
    BY DEF RunsInv
  <1>2. Progress(runs[q])'
    BY <1>1 DEF Progress
  <1>3. Hidden(q)'
    BY <1>1 DEF Hidden
  <1>4. q \notin shared' => q \notin shared /\ (runs[q].pc \in Publishing => UNCHANGED <<usd, graph, layers>>)
    <2>1. CASE Shares(r)
      <3>. DEFINE others == {p \in Runs \ {r} : runs[p].pc \in Publishing}
      <3>1. shared' = shared \cup (others \cup (IF others = {} THEN {} ELSE {r}))
        BY <2>1, Zenon DEF Shares
      <3>2. runs[q].pc \in Publishing => q \in others
        OBVIOUS
      <3>. QED  BY <3>1, <3>2
    <2>. QED  BY <2>1
  <1>5. Held(q)'
    <2>1. CASE q \in shared' \/ runs[q].pc \notin Publishing
      BY <2>1 DEF Held, Publishing
    <2>2. CASE q \notin shared' /\ runs[q].pc \in Publishing
      BY <1>1, <1>4, <2>2, Zenon DEF Held, MapOf
    <2>. QED  BY <2>1, <2>2
  <1>6. Excused(q)'
    BY <1>1, <1>4 DEF Excused, Configured
  <1>. QED  BY <1>2, <1>3, <1>5, <1>6
-----------------------------------------------------------------------------
(* The steps that are no run's keep what the runs rely on.                   *)
LEMMA RunsKeep ==
  ASSUME RunsInv, UNCHANGED <<environment, runs, out, shared>>
  PROVE  RunsInv'
  <1>1. UNCHANGED <<mode, commands, runs, usd, graph, layers, shared>>
    BY DEF environment, out
  <1>2. ASSUME NEW r \in Runs, Held(r) PROVE Held(r)'
    BY <1>1, <1>2, Zenon DEF Held, MapOf
  <1>3. ASSUME NEW r \in Runs, Progress(runs[r]), Hidden(r), Excused(r)
        PROVE  Progress(runs[r])' /\ Hidden(r)' /\ Excused(r)'
    <2>1. Progress(runs[r])'
      BY <1>1, <1>3, Zenon DEF Progress
    <2>2. Hidden(r)' /\ Excused(r)'
      BY <1>1, <1>3, Zenon DEF Hidden, Excused, Configured
    <2>. QED  BY <2>1, <2>2
  <1>. QED  BY <1>2, <1>3 DEF RunsInv

(* A step that leaves a run over, one way or the other, shows nothing new of *)
(* it and asks nothing of --out.                                             *)
LEMMA OverKeeps ==
  ASSUME NEW r \in Runs, runs'[r].pc \in {"failed", "killed", "returned"}
  PROVE  Hidden(r)' /\ Held(r)'
  BY DEF Hidden, Held, Before, Publishing

(* A step of a stage shows nothing of the run in --out.                      *)
LEMMA StageStepKeeps ==
  ASSUME TypeOK, RunsInv, NEW r \in Runs, StageStep(r)
  PROVE  TypeOK' /\ RunsInv'
  <1>1. Progress(runs[r]) /\ Hidden(r)
    BY DEF RunsInv
  <1>2. PICK s \in RunState : Reaches(r, s)
    BY <1>1, StageStepReaches
  <1>3. /\ runs' = [runs EXCEPT ![r] = s] /\ runs \in [Runs -> RunState]
        /\ UNCHANGED <<environment, upload, doctor, out, shared>>
    BY <1>2 DEF Reaches, StageOnly, TypeOK
  <1>4. TypeOK'
    <2>1. /\ UNCHANGED <<scan, mode, commands, sam3, pxr, upload, doctor, usd, graph, layers, shared>>
          /\ runs' \in [Runs -> RunState]
      BY <1>3 DEF environment, out
    <2>. QED  BY <2>1, Zenon DEF TypeOK
  <1>5. runs'[r] = s /\ \A q \in Runs \ {r} : runs'[q] = runs[q]
    BY <1>3
  <1>6. ASSUME NEW q \in Runs \ {r} PROVE Progress(runs[q])' /\ Hidden(q)' /\ Held(q)' /\ Excused(q)'
    BY <1>3, <1>5, OthersKeep DEF environment, out
  <1>7. Progress(runs[r])'
    BY <1>2, <1>3, <1>5 DEF Reaches, Progress, environment
  <1>8. Hidden(r)'
    BY <1>1, <1>2, <1>3 DEF Hidden, Reaches, out
  <1>9. Held(r)'
    BY <1>2, <1>3, <1>5 DEF Held, Reaches, Before, Publishing
  <1>10. Excused(r)'
    BY <1>2, <1>3, <1>5 DEF Excused, Reaches, Configured, environment
  <1>. QED  BY <1>4, <1>6, <1>7, <1>8, <1>9, <1>10 DEF RunsInv

(* A step of the export leaves in --out what Held says of it.                *)
LEMMA ExportKeeps ==
  ASSUME TypeOK, RunsInv, NEW r \in Runs, ExportStep(r)
  PROVE  TypeOK' /\ RunsInv'
  <1>1. /\ runs \in [Runs -> RunState] /\ runs[r] \in RunState
        /\ layers \in [Formats -> Files]
        /\ Progress(runs[r]) /\ Hidden(r) /\ Held(r) /\ Excused(r)
    BY DEF TypeOK, RunsInv
  <1>2. /\ UNCHANGED <<environment, upload, doctor>> /\ Shares(r)
        /\ runs[r].pc \in {"export layer", "export usd", "export graph"}
    BY ExportGoes DEF Publishes, WritesLayer, WritesUsd, WritesGraph
  <1>3. /\ usd' \in Maps /\ graph' \in Files /\ layers' \in [Formats -> Files]
        /\ usd' = usd \/ usd'.run = r
        /\ graph' = graph \/ graph'.run = r
        /\ \A f \in Formats : layers'[f] = layers[f] \/ layers'[f].run = r
        /\ shared' \subseteq Runs /\ shared \subseteq shared'
    BY <1>1, ExportWrites
  <1>4. /\ Keeps(r) /\ runs'[r].manifest = runs[r].manifest
        /\ \/ /\ runs'[r].cause = runs[r].cause
              /\ \/ WritesLayer(r, TRUE) /\ runs'[r].pc = "export usd"
                 \/ WritesUsd(r, runs[r].kinds, TRUE) /\ runs'[r].pc = "export graph"
                 \/ WritesGraph(r, TRUE) /\ runs'[r].pc = "validate"
           \/ runs'[r].pc = "failed" /\ runs'[r].cause = "os"
           \/ runs'[r].pc = "killed" /\ runs'[r].cause = runs[r].cause
    <2>1. {"export usd", "export graph", "validate"} \subseteq RunPC
      BY DEF RunPC, Publishing
    <2>. QED  BY <2>1, ExportGoes, MovesOn, DiesFacts
  <1>5. TypeOK'
    <2>1. runs' \in [Runs -> RunState]
      BY <1>4 DEF Keeps
    <2>2. UNCHANGED <<scan, mode, commands, sam3, pxr, upload, doctor>>
      BY <1>2 DEF environment
    <2>. QED  BY <1>3, <2>1, <2>2, Zenon DEF TypeOK
  <1>6. ASSUME NEW q \in Runs \ {r} PROVE Progress(runs[q])' /\ Hidden(q)' /\ Held(q)' /\ Excused(q)'
    <2>1. runs'[q] = runs[q] /\ mode' = mode /\ commands' = commands
      BY <1>2, <1>4 DEF Keeps, environment
    <2>. QED  BY <1>2, <1>3, <2>1, OthersKeep
  <1>7. mode' = mode /\ commands' = commands
    BY <1>2 DEF environment
  <1>8. Progress(runs[r])'
    BY <1>1, <1>2, <1>4, <1>7 DEF Keeps, Progress, Exporting, Publishing
  <1>9. Excused(r)'
    BY <1>1, <1>2, <1>3, <1>4, <1>7 DEF Keeps, Progress, Exporting, Publishing, Excused, Configured
  <1>10. CASE runs'[r].pc \in {"failed", "killed"}
    BY <1>5, <1>6, <1>8, <1>9, <1>10, OverKeeps DEF RunsInv
  <1>11. CASE WritesLayer(r, TRUE) /\ runs'[r].pc = "export usd"
    <2>1. /\ layers' = [layers EXCEPT ![runs[r].layer] = Mine(r)] /\ usd' = usd /\ graph' = graph
          /\ runs[r].pc = "export layer"
      BY <1>11 DEF WritesLayer, Mine
    <2>2. runs[r].layer \in Formats
      BY <1>1, <2>1 DEF Progress, RunState, Layers
    <2>3. layers'[runs'[r].layer] = Mine(r)
      BY <1>1, <1>4, <2>1, <2>2 DEF Keeps
    <2>4. Held(r)'
      BY <1>11, <2>3 DEF Held
    <2>5. Hidden(r)'
      BY <1>1, <1>11, <2>1 DEF Hidden, Before
    <2>. QED  BY <1>5, <1>6, <1>8, <1>9, <2>4, <2>5 DEF RunsInv
  <1>12. CASE WritesUsd(r, runs[r].kinds, TRUE) /\ runs'[r].pc = "export graph"
    <2>1. /\ usd' = MapOf(r, runs[r].kinds, TRUE) /\ layers' = layers /\ graph' = graph
          /\ runs[r].pc = "export usd"
      BY <1>12 DEF WritesUsd
    <2>2. runs'[r].layer = runs[r].layer /\ runs'[r].kinds = runs[r].kinds
      BY <1>4 DEF Keeps
    <2>3. Held(r)'
      <3>1. r \notin shared' => (runs[r].layer # NoLayer => layers[runs[r].layer] = Mine(r))
        BY <1>1, <1>3, <2>1 DEF Held, Publishing
      <3>2. usd' = MapOf(r, runs[r].kinds, TRUE)'
        BY <2>1, <2>2 DEF MapOf
      <3>. QED  BY <1>12, <2>1, <2>2, <3>1, <3>2 DEF Held
    <2>4. Hidden(r)'
      BY <1>1, <1>12, <2>1 DEF Hidden, Before
    <2>. QED  BY <1>5, <1>6, <1>8, <1>9, <2>3, <2>4 DEF RunsInv
  <1>13. CASE WritesGraph(r, TRUE) /\ runs'[r].pc = "validate"
    <2>1. /\ graph' = Mine(r) /\ layers' = layers /\ usd' = usd
          /\ runs[r].pc = "export graph"
      BY <1>13 DEF WritesGraph, Mine
    <2>2. runs'[r].layer = runs[r].layer /\ runs'[r].kinds = runs[r].kinds
      BY <1>4 DEF Keeps
    <2>3. Held(r)'
      <3>1. r \notin shared' => /\ runs[r].layer # NoLayer => layers[runs[r].layer] = Mine(r)
                                /\ usd = MapOf(r, runs[r].kinds, TRUE)
        BY <1>1, <1>3, <2>1 DEF Held, Publishing
      <3>2. MapOf(r, runs[r].kinds, TRUE) = MapOf(r, runs[r].kinds, TRUE)'
        BY <2>2 DEF MapOf
      <3>. QED  BY <1>13, <2>1, <2>2, <3>1, <3>2 DEF Held
    <2>4. Hidden(r)'
      BY <1>13 DEF Hidden, Before
    <2>. QED  BY <1>5, <1>6, <1>8, <1>9, <2>3, <2>4 DEF RunsInv
  <1>. QED  BY <1>4, <1>10, <1>11, <1>12, <1>13

(* The verdict is about the run's own map, and so is the end it comes to.    *)
Verdicts(r) == Validate(r) \/ WriteManifest(r) \/ Stops(r)

LEMMA VerdictKeeps ==
  ASSUME TypeOK, RunsInv, NEW r \in Runs, Verdicts(r)
  PROVE  TypeOK' /\ RunsInv'
  <1>1. /\ runs \in [Runs -> RunState] /\ runs[r] \in RunState
        /\ Progress(runs[r]) /\ Hidden(r) /\ Held(r) /\ Excused(r)
    BY DEF TypeOK, RunsInv
  <1>2. UNCHANGED <<environment, upload, doctor, out, shared>>
    BY StopsFacts DEF Verdicts, Validate, WriteManifest, StageOnly
  <1>3. UNCHANGED <<scan, mode, commands, sam3, pxr, upload, doctor, usd, graph, layers, shared>>
    BY <1>2 DEF environment, out
  <1>4. /\ Keeps(r)
        /\ \/ /\ Validate(r) /\ runs[r].pc = "validate" /\ runs'[r].pc = "manifest"
              /\ runs'[r].cause = runs[r].cause /\ runs'[r].manifest = runs[r].manifest
              /\ runs'[r].valid <=> Accepts(usd, runs[r].allow)
           \/ /\ runs[r].pc = "manifest"
              /\ \/ runs'[r].pc = "returned" /\ runs'[r].cause = runs[r].cause
                 \/ runs'[r].pc = "failed" /\ runs'[r].cause = "invalid" /\ ~runs[r].valid
           \/ /\ runs'[r].manifest = runs[r].manifest
              /\ runs[r].pc \notin {"idle", "returned", "failed", "killed"}
              /\ \/ runs'[r].pc = "failed" /\ runs'[r].cause = "os"
                 \/ runs'[r].pc = "killed" /\ runs'[r].cause = runs[r].cause
    BY ValidateGoes, WriteManifestGoes, StopsFacts, DiesFacts DEF Verdicts
  <1>5. TypeOK'
    <2>1. runs' \in [Runs -> RunState]
      BY <1>4 DEF Keeps
    <2>. QED  BY <1>3, <2>1, Zenon DEF TypeOK
  <1>6. ASSUME NEW q \in Runs \ {r} PROVE Progress(runs[q])' /\ Hidden(q)' /\ Held(q)' /\ Excused(q)'
    BY <1>3, <1>4, OthersKeep DEF Keeps
  <1>7. CASE runs'[r].pc = "manifest" /\ Validate(r)
    <2>1. /\ runs[r].pc = "validate" /\ runs'[r].cause = runs[r].cause
          /\ runs'[r].manifest = runs[r].manifest /\ (runs'[r].valid <=> Accepts(usd, runs[r].allow))
          /\ runs'[r].layer = runs[r].layer /\ runs'[r].kinds = runs[r].kinds
          /\ runs'[r].dirs = runs[r].dirs /\ runs'[r].allow = runs[r].allow
      BY <1>4, <1>7 DEF Keeps
    <2>2. Progress(runs[r])'
      BY <1>1, <1>3, <1>7, <2>1 DEF Progress, Exporting, Publishing
    <2>3. Hidden(r)'
      BY <1>7 DEF Hidden, Before
    <2>4. Excused(r)'
      BY <1>1, <1>3, <2>1 DEF Progress, Excused, Configured
    <2>5. Held(r)'
      <3>1. CASE r \notin shared
        <4>1. /\ runs[r].layer # NoLayer => layers[runs[r].layer] = Mine(r)
              /\ usd = MapOf(r, runs[r].kinds, TRUE) /\ graph = Mine(r)
          BY <1>1, <2>1, <3>1 DEF Held, Publishing
        <4>2. runs[r].kinds = BothKinds
          BY <1>1, <2>1 DEF Publishing, Progress, Exporting
        <4>3. usd.kinds = BothKinds /\ usd.layer = runs[r].layer /\ usd.whole
          BY <4>1, <4>2 DEF MapOf
        <4>4. runs'[r].valid <=> (runs'[r].layer = NoLayer => runs'[r].allow)
          BY <2>1, <4>3 DEF Accepts, BothKinds
        <4>5. usd' = MapOf(r, runs[r].kinds, TRUE)'
          BY <1>3, <2>1, <4>1 DEF MapOf
        <4>. QED  BY <1>3, <1>7, <2>1, <4>1, <4>4, <4>5 DEF Held
      <3>2. CASE r \in shared
        BY <1>3, <3>2 DEF Held
      <3>. QED  BY <3>1, <3>2
    <2>. QED  BY <1>5, <1>6, <2>2, <2>3, <2>4, <2>5 DEF RunsInv
  <1>8. CASE runs'[r].pc \in {"returned", "failed", "killed"}
    <2>1. Hidden(r)' /\ Held(r)'
      BY <1>8, OverKeeps
    <2>2. Progress(runs[r])'
      BY <1>1, <1>3, <1>4, <1>8 DEF Keeps, Progress, Exporting, Publishing
    <2>3. Excused(r)'
      <3>1. CASE runs'[r].cause = "invalid" /\ runs[r].pc = "manifest" /\ ~runs[r].valid
        <4>1. runs[r].layer = NoLayer => mode = "proxy"
          BY <1>1, <3>1 DEF Progress, Exporting, Publishing
        <4>2. r \notin shared => runs[r].layer = NoLayer /\ ~runs[r].allow
          BY <1>1, <3>1 DEF Held, Publishing
        <4>3. runs'[r].allow = runs[r].allow
          BY <1>4 DEF Keeps
        <4>. QED  BY <1>3, <3>1, <4>1, <4>2, <4>3 DEF Excused
      <3>2. CASE runs'[r].cause = "os"
        BY <3>2 DEF Excused
      <3>3. CASE runs'[r].cause = runs[r].cause /\ runs[r].pc # "failed"
        BY <1>1, <1>3, <3>3 DEF Excused, Progress
      <3>. QED  BY <1>4, <1>8, <3>1, <3>2, <3>3
    <2>. QED  BY <1>5, <1>6, <2>1, <2>2, <2>3 DEF RunsInv
  <1>. QED  BY <1>4, <1>7, <1>8
-----------------------------------------------------------------------------
(* The steps of the operator.                                                *)
LEMMA OperatorKeeps ==
  ASSUME TypeOK, RunsInv, Import \/ Doctor \/ UNCHANGED vars
  PROVE  TypeOK' /\ RunsInv'
  <1>1. UNCHANGED <<environment, runs, out, shared>>
    BY DEF Import, Doctor, vars
  <1>2. RunsInv'
    BY <1>1, RunsKeep
  <1>3. /\ upload' = <<>> \/ \E c \in Captures \cup {Cut(scan, n) : n \in 0..(Len(scan.rows) - 1)} : upload' = <<c>>
        /\ doctor' \in {"not asked", "ready", "not ready"}
    <2>1. CASE Import
      <3>1. PICK c \in {scan} \cup (IF scan.media THEN {Cut(scan, n) : n \in 0..(Len(scan.rows) - 1)} ELSE {}) :
              upload' = <<c>>
        BY <2>1, Zenon DEF Import
      <3>2. c \in Captures \cup {Cut(scan, n) : n \in 0..(Len(scan.rows) - 1)}
        BY <3>1, Zenon DEF TypeOK
      <3>3. doctor' = doctor
        BY <2>1 DEF Import
      <3>. QED  BY <3>1, <3>2, <3>3, Zenon DEF TypeOK
    <2>2. CASE Doctor \/ UNCHANGED vars
      <3>1. upload' = upload /\ doctor' \in {doctor, "ready", "not ready"}
        BY <2>2 DEF Doctor, vars
      <3>. QED  BY <3>1 DEF TypeOK
    <2>. QED  BY <2>1, <2>2
  <1>4. UNCHANGED <<scan, mode, commands, sam3, pxr, runs, usd, graph, layers, shared>>
    BY <1>1 DEF environment, out
  <1>5. TypeOK'
    <2>1. upload' = <<>> \/ \E c \in Captures \cup {Cut(scan', n) : n \in 0..(Len(scan'.rows) - 1)} : upload' = <<c>>
      BY <1>3, <1>4, Zenon
    <2>. QED  BY <1>3, <1>4, <2>1, Zenon DEF TypeOK
  <1>. QED  BY <1>2, <1>5

(* Every step is the operator's, or a run's: of a stage, of the export, or   *)
(* of what comes after it.                                                   *)
LEMMA RunSteps ==
  ASSUME [Next]_vars
  PROVE  \/ Import \/ Doctor \/ UNCHANGED vars
         \/ \E r \in Runs : StageStep(r) \/ ExportStep(r) \/ Verdicts(r)
  <1>1. ASSUME NEW r \in Runs, Breaks(r) PROVE StageStep(r) \/ Stops(r)
    BY <1>1 DEF Breaks, StageStep, Stops, Stages, Before
  <1>2. \A r \in Runs : Kill(r) => Stops(r)
    BY DEF Stops
  <1>. QED  BY <1>1, <1>2 DEF Next, Run, StageStep, ExportStep, Verdicts

(* What the doctor says holds for good.                                      *)
LEMMA DoctorNext == DoctorInv /\ [Next]_vars => DoctorInv'
  <1> SUFFICES ASSUME DoctorInv, [Next]_vars PROVE DoctorInv'
    OBVIOUS
  <1>1. CASE Doctor
    <2>1. UNCHANGED environment /\ (doctor' = "ready" => Configured)
      BY <1>1 DEF Doctor
    <2>. QED  BY <2>1 DEF DoctorInv, Configured, environment
  <1>2. CASE ~Doctor
    <2>1. UNCHANGED <<environment, doctor>>
      BY <1>2 DEF Next, Import, Run, Kill, Start, RefinePoses, CompleteDepth, Reconstruct, LabelScene,
                  BuildSceneGraph, ExportLayer, ExportUsd, ExportGraph, Publishes, Validate,
                  WriteManifest, Breaks, StageOnly, vars
    <2>. QED  BY <2>1 DEF DoctorInv, Configured, environment
  <1>. QED  BY <1>1, <1>2

(* A step that writes neither the map nor geometry keeps what is known of    *)
(* the map: a run that is over takes no step, and one that stops before its  *)
(* map has died.                                                             *)
LEMMA MapKeeps ==
  ASSUME TypeOK, MapInv, NEW r \in Runs, UNCHANGED <<usd, layers>>, shared \subseteq shared',
         \A q \in Runs \ {r} : runs'[q] = runs[q],
         runs[r].pc \notin {"failed", "killed"}, runs[r].pc = "export usd" => Died(r)'
  PROVE  MapInv'
  <1>1. \A q \in Runs : Died(q) => Died(q)'
    BY DEF Died
  <1>2. \A q \in Runs : runs[q].pc = "export usd" => runs'[q].pc = "export usd" \/ Died(q)'
    BY DEF Died
  <1>3. usd \in Maps
    BY DEF TypeOK
  <1>4. usd.run # 0 => usd.run \in Runs
    BY <1>3 DEF Maps
  <1>. QED  BY <1>1, <1>2, <1>4 DEF MapInv

(* No step leaves a map behind that is not what MapInv says.                 *)
LEMMA MapNext ==
  ASSUME TypeOK, RunsInv, MapInv, [Next]_vars
  PROVE  MapInv'
  <1>1. CASE Import \/ Doctor \/ UNCHANGED vars
    BY <1>1 DEF Import, Doctor, vars, out, MapInv, Died
  <1>2. ASSUME NEW r \in Runs, StageStep(r) PROVE MapInv'
    <2>1. PICK s \in RunState : Reaches(r, s)
      BY <1>2, StageStepReaches DEF RunsInv
    <2>2. /\ runs' = [runs EXCEPT ![r] = s] /\ runs \in [Runs -> RunState]
          /\ UNCHANGED <<usd, layers, shared>> /\ runs[r].pc \in Before
      BY <2>1 DEF Reaches, StageOnly, out, TypeOK
    <2>. QED  BY <2>2, MapKeeps DEF Before
  <1>3. ASSUME NEW r \in Runs, Verdicts(r) PROVE MapInv'
    <2>1. /\ UNCHANGED <<usd, layers, shared>> /\ runs[r].pc \notin {"failed", "killed"} /\ Keeps(r)
          /\ runs[r].pc = "export usd" => Died(r)'
      <3>1. CASE Validate(r) \/ WriteManifest(r)
        BY <3>1, ValidateGoes, WriteManifestGoes DEF Validate, WriteManifest, StageOnly, out
      <3>2. CASE Stops(r)
        <4>1. StageOnly /\ Keeps(r) /\ runs'[r].manifest = runs[r].manifest
              /\ runs'[r].pc \in {"failed", "killed"} /\ runs[r].pc \notin {"failed", "killed", "returned"}
          BY <3>2, StopsFacts, DiesFacts
        <4>2. runs[r].manifest = "none"
          BY <4>1 DEF RunsInv, Progress
        <4>. QED  BY <4>1, <4>2 DEF StageOnly, out, Died
      <3>. QED  BY <1>3, <3>1, <3>2 DEF Verdicts
    <2>. QED  BY <2>1, MapKeeps DEF Keeps
  <1>4. ASSUME NEW r \in Runs, ExportStep(r) PROVE MapInv'
    <2>1. /\ runs \in [Runs -> RunState] /\ layers \in [Formats -> Files] /\ usd \in Maps
          /\ Progress(runs[r]) /\ Hidden(r) /\ Held(r) /\ runs[r] \in RunState
      BY DEF TypeOK, RunsInv
    <2>2. shared \subseteq shared'
      BY <1>4, <2>1, ExportWrites
    <2>3. /\ Keeps(r) /\ runs'[r].manifest = "none"
          /\ runs[r].pc \in {"export layer", "export usd", "export graph"}
          /\ \/ WritesLayer(r, TRUE) /\ runs'[r].pc = "export usd"
             \/ WritesUsd(r, runs[r].kinds, TRUE) /\ runs'[r].pc = "export graph"
             \/ WritesGraph(r, TRUE)
             \/ /\ runs'[r].pc \in {"failed", "killed"}
                /\ \/ WritesLayer(r, FALSE) \/ WritesGraph(r, FALSE)
                   \/ \E kinds \in {{}, runs[r].kinds} : WritesUsd(r, kinds, FALSE)
      <3>1. {"export usd", "export graph", "validate"} \subseteq RunPC
        BY DEF RunPC, Publishing
      <3>2. runs[r].pc \in {"export layer", "export usd", "export graph"}
        BY <1>4, ExportGoes DEF WritesLayer, WritesUsd, WritesGraph
      <3>3. runs[r].manifest = "none"
        BY <2>1, <3>2 DEF Progress
      <3>. QED  BY <1>4, <3>1, <3>2, <3>3, ExportGoes, MovesOn, DiesFacts
    <2>4. ASSUME NEW whole \in BOOLEAN, WritesGraph(r, whole) PROVE MapInv'
      BY <2>2, <2>3, <2>4, MapKeeps DEF WritesGraph, Keeps
    <2>5. ASSUME NEW whole \in BOOLEAN, WritesLayer(r, whole),
                 runs'[r].pc = "export usd" \/ Died(r)'
          PROVE  MapInv'
      <3>1. /\ runs[r].pc = "export layer" /\ usd' = usd
            /\ layers' = [layers EXCEPT ![runs[r].layer] = [run |-> r, whole |-> whole]]
        BY <2>5 DEF WritesLayer
      <3>2. \A q \in Runs \ {r} : runs'[q] = runs[q]
        BY <2>3 DEF Keeps
      <3>3. \A q \in Runs : Died(q) => q # r /\ Died(q)'
        BY <3>1, <3>2 DEF Died
      <3>4. \A f \in Formats : layers'[f].run = r \/ layers'[f] = layers[f]
        BY <2>1, <3>1
      <3>5. usd.run # 0 => usd.run \in Runs
        BY <2>1 DEF Maps
      <3>6. usd.layer # NoLayer => usd.layer \in Formats
        BY <2>1 DEF Maps, Layers
      <3>7. ASSUME usd.run # 0, usd.layer # NoLayer, NEW g, g = layers'[usd.layer].run
            PROVE  \/ g = usd.run \/ g \in shared' \/ usd.run \in shared'
                   \/ g \in Runs /\ (runs'[g].pc = "export usd" \/ Died(g)')
        <4>1. CASE g = r
          BY <2>5, <4>1
        <4>2. CASE g = layers[usd.layer].run
          <5>1. \/ g = usd.run \/ g \in shared \/ usd.run \in shared
                \/ g \in Runs /\ (runs[g].pc = "export usd" \/ Died(g))
            BY <3>7, <4>2 DEF MapInv
          <5>2. g \in Runs /\ runs[g].pc = "export usd" => runs'[g].pc = "export usd"
            BY <3>1, <3>2
          <5>. QED  BY <2>2, <3>3, <5>1, <5>2
        <4>. QED  BY <3>4, <3>6, <3>7, <4>1, <4>2
      <3>. QED  BY <3>1, <3>3, <3>5, <3>7 DEF MapInv
    <2>6. ASSUME NEW whole \in BOOLEAN, NEW kinds \in {{}, runs[r].kinds}, WritesUsd(r, kinds, whole),
                 whole \/ Died(r)'
          PROVE  MapInv'
      <3>1. /\ usd'.run = r /\ usd'.layer = runs[r].layer /\ usd'.whole = whole
            /\ layers' = layers /\ runs[r].pc = "export usd"
        BY <2>6 DEF WritesUsd, MapOf
      <3>2. r # 0
        BY RunsAssumption DEF Runs
      <3>3. r \notin shared' /\ runs[r].layer # NoLayer => layers[runs[r].layer].run = r
        <4>1. r \notin shared /\ runs[r].layer # NoLayer => layers[runs[r].layer] = Mine(r)
          BY <2>1, <3>1, Zenon DEF Held, Publishing
        <4>2. Mine(r).run = r
          BY DEF Mine
        <4>. QED  BY <2>2, <4>1, <4>2
      <3>4. usd'.run # 0 /\ ~usd'.whole => Died(usd.run)'
        BY <2>6, <3>1 DEF Died
      <3>5. usd'.run # 0 /\ usd'.layer # NoLayer =>
              layers'[usd'.layer].run = usd'.run \/ usd'.run \in shared'
        BY <3>1, <3>3
      <3>. QED  BY <3>1, <3>2, <3>4, <3>5 DEF MapInv
    <2>. QED  BY <2>3, <2>4, <2>5, <2>6 DEF Died
  <1>5. \/ Import \/ Doctor \/ UNCHANGED vars
        \/ \E r \in Runs : StageStep(r) \/ ExportStep(r) \/ Verdicts(r)
    BY RunSteps
  <1>. QED  BY <1>1, <1>2, <1>3, <1>4, <1>5

(* The inductive invariant of doctor, import and runs: the whole of          *)
(* run_pipeline, export_usd and validate_map, failing, killed or not,        *)
(* however the runs of one --out interleave.                                 *)
THEOREM Invariance == Spec => []IInv
  <1>1. Init => IInv
    <2> SUFFICES ASSUME Init PROVE IInv
      OBVIOUS
    <2>. DEFINE s0 == [pc |-> "idle", allow |-> FALSE, cause |-> "", dirs |-> {},
                       layer |-> NoLayer, kinds |-> {}, valid |-> FALSE, manifest |-> "none"]
    <2>1. /\ runs = [r \in Runs |-> s0] /\ doctor = "not asked" /\ upload = <<>>
          /\ scan \in Captures /\ mode \in Modes /\ pxr \in BOOLEAN
          /\ usd = NoMap /\ graph = NoFile /\ layers = [s \in Formats |-> NoFile] /\ shared = {}
      BY Zenon DEF Init
    <2>2. s0 \in RunState /\ s0.pc = "idle" /\ s0.cause = "" /\ s0.manifest = "none"
      BY DEF RunState, RunPC, Before, Causes, Layers
    <2>. HIDE DEF s0
    <2>3. commands \subseteq Adapters
      BY DEF Init, Adapters
    <2>4. sam3 \in {"labels", "detect", "none"}
      BY Zenon DEF Init
    <2>5. NoMap \in Maps /\ NoFile \in Files
      BY DEF NoMap, NoFile, Maps, Files, Layers
    <2>6. TypeOK
      <3>1. runs \in [Runs -> RunState] /\ layers \in [Formats -> Files]
        BY <2>1, <2>2, <2>5
      <3>. QED  BY <2>1, <2>3, <2>4, <2>5, <3>1 DEF TypeOK
    <2>7. ASSUME NEW r \in Runs PROVE Progress(runs[r]) /\ Hidden(r) /\ Held(r) /\ Excused(r)
      <3>1. runs[r] = s0 /\ r # 0
        <4>1. runs[r] = s0
          BY <2>1
        <4>2. r # 0
          BY RunsAssumption DEF Runs
        <4>. QED  BY <4>1, <4>2
      <3>2. Hidden(r)
        BY <2>1, <3>1 DEF Hidden, NoMap, NoFile
      <3>. QED  BY <2>2, <3>1, <3>2 DEF Progress, Exporting, Publishing, Held, Excused
    <2>8. DoctorInv /\ MapInv
      BY <2>1 DEF DoctorInv, MapInv, NoMap
    <2>. QED  BY <2>6, <2>7, <2>8 DEF IInv, RunsInv
  <1>2. IInv /\ [Next]_vars => IInv'
    <2> SUFFICES ASSUME IInv, [Next]_vars PROVE IInv'
      OBVIOUS
    <2>1. \/ Import \/ Doctor \/ UNCHANGED vars
          \/ \E r \in Runs : StageStep(r) \/ ExportStep(r) \/ Verdicts(r)
      BY RunSteps
    <2>2. TypeOK' /\ RunsInv'
      BY <2>1, OperatorKeeps, StageStepKeeps, ExportKeeps, VerdictKeeps DEF IInv
    <2>. QED  BY <2>2, DoctorNext, MapNext DEF IInv
  <1>. QED  BY <1>1, <1>2, PTL DEF Spec

(* Every variable of the pipeline keeps its type.                            *)
THEOREM TypeCorrect == Spec => []TypeOK
  <1>1. IInv => TypeOK
    BY DEF IInv
  <1>. QED  BY <1>1, Invariance, PTL

(* validate_map turns down what a run labelled only for being a proxy nobody *)
(* asked for, whatever SAM 3 found (MapValidationError in export_usd).       *)
THEOREM LabelsSatisfyTheContract == Spec => []OnlyProxiesAreInvalid
  <1>1. IInv => OnlyProxiesAreInvalid
    BY DEF IInv, RunsInv, Excused, OnlyProxiesAreInvalid
  <1>. QED  BY <1>1, Invariance, PTL

(* Where run_doctor found all adapters, _run_adapter misses none.            *)
THEOREM DoctorIsRight == Spec => []DoctorForecasts
  <1>1. IInv => DoctorForecasts
    BY DEF IInv, RunsInv, Excused, DoctorInv, DoctorForecasts
  <1>. QED  BY <1>1, Invariance, PTL

(* A map that validate_map accepts and Isaac Sim cannot open was left by a   *)
(* run that died over it, where usd-core is missing; a map that may pass     *)
(* check_mapper_usd with geometry it was not made with was overtaken.        *)
THEOREM PassedMapsAreSound == Spec => []PassedMapIsSound
  <1>1. IInv => PassedMapIsSound
    <2> SUFFICES ASSUME IInv PROVE PassedMapIsSound
      OBVIOUS
    <2>1. usd.kinds = {"floor", "object"} => usd.run # 0
      BY DEF IInv, MapInv
    <2>2. Accepts(usd, TRUE) /\ ~LoadsInIsaac(usd) => ~pxr /\ Died(usd.run)
      BY <2>1 DEF IInv, MapInv, Accepts, LoadsInIsaac
    <2>3. MayPassStepTwo(usd) =>
            LET r == layers[usd.layer].run
            IN  \/ r = usd.run \/ {r, usd.run} \cap shared # {}
                \/ runs[r].pc = "export usd" \/ Died(r)
      BY <2>1 DEF IInv, MapInv, MayPassStepTwo, LoadsInIsaac
    <2>. QED  BY <2>2, <2>3 DEF PassedMapIsSound, Died
  <1>. QED  BY <1>1, Invariance, PTL

(* A run ends with a manifest, its own map and graph, whole, and the         *)
(* geometry they were made with; or it ends without, by an OSError or killed *)
(* on the way there, or failed before it touched --out.                      *)
THEOREM HandedOffWhole == Spec => PublishedWhole
  <1>1. IInv /\ [Next]_vars => [\A r \in Runs : Ends(r) => LeavesInOrder(r)']_vars
    <2> SUFFICES ASSUME IInv, [Next]_vars, NEW r \in Runs, Ends(r) PROVE LeavesInOrder(r)'
      BY Zenon
    <2>0. /\ TypeOK /\ RunsInv /\ Progress(runs[r]) /\ Hidden(r) /\ Held(r)
          /\ runs[r] \in RunState /\ runs \in [Runs -> RunState] /\ layers \in [Formats -> Files]
      BY DEF IInv, RunsInv, TypeOK
    <2>1. /\ runs'[r] # runs[r] /\ r \notin shared'
          /\ runs'[r].pc \in {"returned", "failed", "killed"}
      BY DEF Ends, Ended
    <2>2. PICK q \in Runs : StageStep(q) \/ ExportStep(q) \/ Verdicts(q)
      <3>1. ~(Import \/ Doctor \/ UNCHANGED vars)
        BY <2>1 DEF Import, Doctor, vars
      <3>. QED  BY <3>1, RunSteps
    <2>3. CASE StageStep(q)
      <3>1. PICK s \in RunState : Reaches(q, s)
        BY <2>0, <2>3, StageStepReaches DEF RunsInv
      <3>2. runs' = [runs EXCEPT ![q] = s] /\ UNCHANGED <<usd, graph, layers>>
        BY <3>1 DEF Reaches, StageOnly, out
      <3>3. q = r
        BY <2>0, <2>1, <3>2
      <3>4. runs'[r].pc = "failed" /\ runs'[r].manifest = "none" /\ runs[r].pc \in Before
        BY <2>0, <2>1, <3>1, <3>2, <3>3 DEF Reaches, Before
      <3>5. ~HasPublished(r)'
        BY <2>0, <3>2, <3>4 DEF Hidden, HasPublished
      <3>. QED  BY <3>4, <3>5 DEF LeavesInOrder, HasPublished
    <2>4. CASE ExportStep(q)
      <3>1. /\ Publishes(q)
            /\ \/ MovesTo(q, "export usd") \/ MovesTo(q, "export graph") \/ MovesTo(q, "validate")
               \/ /\ DiesWriting(q)
                  /\ \/ WritesLayer(q, FALSE) \/ WritesGraph(q, FALSE)
                     \/ \E kinds \in {{}, runs[q].kinds} : WritesUsd(q, kinds, FALSE)
        BY <2>0, <2>4, ExportGoes
      <3>2. {"export usd", "export graph", "validate"} \subseteq RunPC
        BY DEF RunPC, Publishing
      <3>3. Keeps(q) /\ runs'[q].manifest = runs[q].manifest
            /\ \/ runs'[q].pc \in {"export usd", "export graph", "validate"}
               \/ /\ runs'[q].pc = "killed" \/ (runs'[q].pc = "failed" /\ runs'[q].cause = "os")
                  /\ \/ WritesLayer(q, FALSE) \/ WritesGraph(q, FALSE)
                     \/ \E kinds \in {{}, runs[q].kinds} : WritesUsd(q, kinds, FALSE)
        BY <2>0, <3>1, <3>2, MovesOn, DiesFacts
      <3>4. q = r
        BY <2>1, <3>3 DEF Keeps
      <3>5. /\ runs'[r].pc = "killed" \/ (runs'[r].pc = "failed" /\ runs'[r].cause = "os")
            /\ \/ WritesLayer(r, FALSE) \/ WritesGraph(r, FALSE)
               \/ \E kinds \in {{}, runs[r].kinds} : WritesUsd(r, kinds, FALSE)
        BY <2>1, <3>3, <3>4
      <3>6. shared \subseteq shared'
        BY <2>0, <2>4, <3>4, ExportWrites
      <3>7. runs'[r].manifest = "none"
        BY <2>0, <3>3, <3>4, <3>5 DEF Progress, WritesLayer, WritesUsd, WritesGraph
      <3>8. /\ usd'.run = r /\ usd'.layer # NoLayer => layers'[usd'.layer] = Mine(r)
            /\ graph'.run = r => usd'.run = r /\ usd'.whole
        <4>1. CASE WritesLayer(r, FALSE)
          <5>1. runs[r].pc = "export layer" /\ usd' = usd /\ graph' = graph
            BY <4>1 DEF WritesLayer
          <5>2. usd.run # r /\ graph.run # r
            BY <2>0, <5>1 DEF Hidden, Before
          <5>. QED  BY <5>1, <5>2
        <4>2. CASE \E kinds \in {{}, runs[r].kinds} : WritesUsd(r, kinds, FALSE)
          <5>0. PICK kinds \in {{}, runs[r].kinds} : WritesUsd(r, kinds, FALSE)
            BY <4>2
          <5>1. /\ runs[r].pc = "export usd" /\ usd'.layer = runs[r].layer
                /\ graph' = graph /\ layers' = layers
            BY <5>0 DEF WritesUsd, MapOf
          <5>2. graph.run # r
            BY <2>0, <5>1 DEF Hidden
          <5>3. runs[r].layer # NoLayer => layers[runs[r].layer] = Mine(r)
            BY <2>0, <2>1, <3>6, <5>1 DEF Held, Publishing
          <5>. QED  BY <5>1, <5>2, <5>3
        <4>3. CASE WritesGraph(r, FALSE)
          <5>1. /\ runs[r].pc = "export graph" /\ usd' = usd /\ layers' = layers
            BY <4>3 DEF WritesGraph
          <5>2. /\ usd = MapOf(r, runs[r].kinds, TRUE)
                /\ runs[r].layer # NoLayer => layers[runs[r].layer] = Mine(r)
            BY <2>0, <2>1, <3>6, <5>1 DEF Held, Publishing
          <5>. QED  BY <5>1, <5>2 DEF MapOf
        <4>. QED  BY <3>5, <4>1, <4>2, <4>3
      <3>. QED  BY <3>5, <3>7, <3>8 DEF LeavesInOrder, Mine
    <2>5. CASE Verdicts(q)
      <3>1. UNCHANGED <<mode, usd, graph, layers, shared>>
        BY <2>0, <2>5, StopsFacts DEF Verdicts, Validate, WriteManifest, StageOnly, environment, out
      <3>2. Keeps(q)
        BY <2>0, <2>5, ValidateGoes, WriteManifestGoes, StopsFacts, DiesFacts DEF Verdicts
      <3>3. q = r /\ ~Validate(r)
        BY <2>0, <2>1, <3>2, ValidateGoes DEF Keeps
      <3>4. runs'[r].allow = runs[r].allow /\ runs'[r].dirs = runs[r].dirs
        BY <3>2, <3>3 DEF Keeps
      <3>5. CASE WriteManifest(r)
        <4>1. /\ runs[r].pc = "manifest"
              /\ \/ runs[r].valid /\ runs'[r].pc = "returned" /\ runs'[r].manifest = "valid"
                 \/ /\ ~runs[r].valid /\ runs'[r].pc = "failed" /\ runs'[r].cause = "invalid"
                    /\ runs'[r].manifest = "invalid"
          BY <2>0, <3>5, WriteManifestGoes
        <4>2. /\ runs[r].layer # NoLayer => layers[runs[r].layer] = Mine(r)
              /\ usd = MapOf(r, runs[r].kinds, TRUE) /\ graph = Mine(r)
              /\ runs[r].valid <=> (runs[r].layer = NoLayer => runs[r].allow)
          BY <2>0, <2>1, <3>1, <4>1 DEF Held, Publishing
        <4>3. usd.run = r /\ usd.layer = runs[r].layer /\ usd.whole
          BY <4>2 DEF MapOf
        <4>4. runs[r].dirs = Stages /\ (runs[r].layer = NoLayer => mode = "proxy")
          <5>1. runs[r].dirs \subseteq Stages
            BY <2>0 DEF RunState
          <5>. QED  BY <2>0, <4>1, <5>1 DEF Progress, Exporting, Publishing, Stages
        <4>5. IsHandedOff(r)'
          BY <3>1, <3>4, <4>2, <4>3, <4>4 DEF IsHandedOff, Mine
        <4>. QED  BY <3>1, <3>4, <4>1, <4>2, <4>3, <4>4, <4>5 DEF LeavesInOrder, Mine
      <3>6. CASE Stops(r)
        <4>1. /\ runs'[r].manifest = runs[r].manifest
              /\ runs[r].pc \notin {"idle", "returned", "failed", "killed"}
              /\ runs'[r].pc = "killed" \/ (runs'[r].pc = "failed" /\ runs'[r].cause = "os")
          BY <2>0, <3>6, StopsFacts, DiesFacts
        <4>2. runs'[r].manifest = "none"
          BY <2>0, <4>1 DEF Progress
        <4>3. CASE runs[r].pc \in Before \cup {"export usd"}
          BY <2>0, <3>1, <4>1, <4>2, <4>3 DEF Hidden, LeavesInOrder, Mine
        <4>4. CASE runs[r].pc \in {"export graph", "validate", "manifest"}
          <5>1. /\ runs[r].layer # NoLayer => layers[runs[r].layer] = Mine(r)
                /\ usd = MapOf(r, runs[r].kinds, TRUE)
            BY <2>0, <2>1, <3>1, <4>4 DEF Held, Publishing
          <5>2. usd.run = r /\ usd.layer = runs[r].layer /\ usd.whole
            BY <5>1 DEF MapOf
          <5>. QED  BY <3>1, <4>1, <4>2, <5>1, <5>2 DEF LeavesInOrder, Mine
        <4>. QED  BY <2>0, <4>1, <4>3, <4>4 DEF RunState, RunPC, Publishing
      <3>. QED  BY <2>5, <3>3, <3>5, <3>6 DEF Verdicts
    <2>. QED  BY <2>2, <2>3, <2>4, <2>5
  <1>. QED  BY <1>1, Invariance, PTL DEF Spec, PublishedWhole

-----------------------------------------------------------------------------
(* WatchLoop: the watch harness.                                             *)
EventKinds == {"manual", "signal", "kill", "shortage"}
WatcherPC == {"off", "top", "cycle", "spawned", "wait", "reaped", "space", "trend",
              "append", "prune", "after", "dozing", "nap"}
Suites == Gens \cup {Hand}
Stamped == {"checks", "write", "link"}

(* Who may be alive, and what a signal or a kill leaves behind.              *)
SuitesInv ==
  /\ watcher.pc # "off" => watcher.gen \in Gens
  /\ watcher.pc \in {"top", "dozing", "nap"} => watcher.left > 0
  /\ \A g \in Gens : Alive(g) \/ g \in checking => g = watcher.gen
  /\ watcher.pc \notin {"off", "spawned", "wait"} => \A g \in Gens : ~Alive(g)
  /\ watcher.pc = "off" /\ (\E g \in Gens : Alive(g)) => used.kill > 0
  /\ signal \/ ~watcher.running => used.signal > 0
  /\ used.manual = 0 => suite[Hand].pc = "none"
  /\ \A g \in Suites : Alive(g) => suite[g].exit # 3
  /\ \A g \in Suites : suite[g].pc \in Stamped => suite[g].stamp \in Stamps
  /\ watcher.pc \in {"spawned", "wait"} => suite[watcher.gen].pc # "none"
  /\ watcher.pc \in {"spawned", "wait"} => suite[watcher.gen].pc # "killed"
  /\ watcher.pc = "reaped" /\ watcher.running => suite[watcher.gen].pc = "done"
  /\ watcher.pc = "trend" => suite[watcher.gen].pc = "done" /\ SuiteExit # 3

(* One more event of a kind.                                                 *)
LEMMA HappensFacts ==
  ASSUME WatchTypeOK, NEW e \in EventKinds, Happens(e)
  PROVE  /\ used' \in [EventKinds -> 0..MaxEvents]
         /\ used'[e] = used[e] + 1
         /\ \A d \in EventKinds \ {e} : used'[d] = used[d]
         /\ Events \in Nat /\ Events' = Events + 1 /\ Events' > 0
<1> USE BoundsAssumption DEF EventKinds
<1>1. used \in [EventKinds -> 0..MaxEvents] /\ Events < MaxEvents /\ used' = [used EXCEPT ![e] = @ + 1]
  BY DEF Happens, WatchTypeOK
<1>2. MaxEvents \in Nat
  BY DEF BoundsAssumption
<1>3. used[e] < MaxEvents
  BY <1>1, <1>2 DEF Events
<1>4. /\ used' \in [EventKinds -> 0..MaxEvents] /\ used'[e] = used[e] + 1
      /\ \A d \in EventKinds \ {e} : used'[d] = used[d]
  BY <1>1, <1>2, <1>3
<1>5. /\ used.manual \in Nat /\ used.signal \in Nat /\ used.kill \in Nat /\ used.shortage \in Nat
  BY <1>1, <1>2
<1>6. Events' = Events + 1
  BY <1>4, <1>5 DEF Events
<1> QED BY <1>4, <1>5, <1>6 DEF Events

(* Events are counted in natural numbers.                                    *)
LEMMA EventsFacts ==
  ASSUME WatchTypeOK
  PROVE  /\ used.manual \in Nat /\ used.signal \in Nat /\ used.kill \in Nat /\ used.shortage \in Nat
         /\ Events \in Nat /\ (Events = 0 => used.manual = 0 /\ used.signal = 0 /\ used.kill = 0 /\ used.shortage = 0)
  BY BoundsAssumption DEF WatchTypeOK, BoundsAssumption, Events

(* The watching shell goes on: nothing else of it changes.                   *)
LEMMA GoesFacts ==
  ASSUME WatchTypeOK, NEW label \in WatcherPC, Goes(label)
  PROVE  /\ watcher' = [pc |-> label, gen |-> watcher.gen, running |-> watcher.running,
                        left |-> watcher.left, spare |-> watcher.spare, last |-> watcher.last,
                        trend |-> watcher.trend]
  BY DEF Goes, WatchTypeOK

(* Where a suite gets to, under which stamp and with which exit code.        *)
Turns(g, label, stamp, exit) ==
  suite'[g].pc = label /\ suite'[g].stamp = stamp /\ suite'[g].exit = exit

(* What a suite keeps.                                                       *)
SuiteState == [pc : {"none", "guard", "checks", "write", "link", "done", "killed"},
               stamp : Stamps \cup {NONE}, result : Report, exit : {0, 1, 3}]
(* A suite goes on: nothing else of it changes, nor of the others.           *)
LEMMA SuiteGoesFacts ==
  ASSUME WatchTypeOK, NEW g \in Suites,
         NEW label \in {"none", "guard", "checks", "write", "link", "done", "killed"},
         SuiteGoes(g, label)
  PROVE  /\ suite' \in [Suites -> SuiteState]
         /\ Turns(g, label, suite[g].stamp, suite[g].exit)
         /\ \A h \in Suites \ {g} : suite'[h] = suite[h]
<1>1. suite \in [Suites -> SuiteState] /\ suite' = [suite EXCEPT ![g].pc = label]
  BY DEF SuiteGoes, WatchTypeOK, Suites, SuiteState
<1>2. suite' = [suite EXCEPT ![g] = [suite[g] EXCEPT !.pc = label]]
  BY <1>1
<1>3. suite[g] \in SuiteState
  BY <1>1
<1>4. [suite[g] EXCEPT !.pc = label] = [pc |-> label, stamp |-> suite[g].stamp, result |-> suite[g].result, exit |-> suite[g].exit]
  BY <1>3 DEF SuiteState
<1>5. [suite[g] EXCEPT !.pc = label] \in SuiteState
  BY <1>3, <1>4 DEF SuiteState
<1> QED BY <1>1, <1>2, <1>4, <1>5 DEF Turns

(* A suite that has nothing to report yet.                                   *)
LEMMA NothingReported == NoReport \in Report /\ NoTrend \in Trend
<1>1. NoReport \in [{} -> Status]
  BY DEF NoReport
<1>2. NoReport \in Report
  BY <1>1 DEF Report
<1> QED BY <1>2 DEF NoTrend, Trend

(* A suite begins anew, or is over.                                          *)
LEMMA SuiteSetFacts ==
  ASSUME WatchTypeOK, NEW g \in Suites, NEW label \in {"none", "guard", "done", "killed"}, NEW exit \in {0, 1, 3},
         suite' = [suite EXCEPT ![g] = [IdleSuite EXCEPT !.pc = label, !.exit = exit]]
  PROVE  /\ suite' \in [Suites -> SuiteState]
         /\ Turns(g, label, NONE, exit)
         /\ \A h \in Suites \ {g} : suite'[h] = suite[h]
<1>1. suite \in [Suites -> SuiteState]
  BY DEF WatchTypeOK, Suites, SuiteState
<1>2. [IdleSuite EXCEPT !.pc = label, !.exit = exit]
        = [pc |-> label, stamp |-> NONE, result |-> NoReport, exit |-> exit]
  <2>1. [IdleSuite EXCEPT !.pc = label] = [pc |-> label, stamp |-> NONE, result |-> NoReport, exit |-> 0]
    BY DEF IdleSuite
  <2>2. [[pc |-> label, stamp |-> NONE, result |-> NoReport, exit |-> 0] EXCEPT !.exit = exit]
          = [pc |-> label, stamp |-> NONE, result |-> NoReport, exit |-> exit]
    OBVIOUS
  <2> QED BY <2>1, <2>2, Zenon
<1>3. [pc |-> label, stamp |-> NONE, result |-> NoReport, exit |-> exit] \in SuiteState
  BY NothingReported DEF SuiteState
<1>4. suite' = [suite EXCEPT ![g] = [pc |-> label, stamp |-> NONE, result |-> NoReport, exit |-> exit]]
  BY <1>2, Zenon
<1>5. /\ suite'[g] = [pc |-> label, stamp |-> NONE, result |-> NoReport, exit |-> exit]
      /\ suite' \in [Suites -> SuiteState] /\ \A h \in Suites \ {g} : suite'[h] = suite[h]
  BY <1>1, <1>3, <1>4
<1>6. Turns(g, label, NONE, exit)
  BY <1>5 DEF Turns
<1> QED BY <1>5, <1>6

WatcherState == [pc : WatcherPC, gen : 0..MaxStarts, running : BOOLEAN, left : 0..MaxCycles,
                 spare : 0..MaxCycles, last : Stamps \cup {NONE}, trend : Trend]

(* The types, in the names used here.                                        *)
LEMMA WatchTypes ==
  WatchTypeOK <=>
    /\ clock \in Stamps /\ watcher \in WatcherState /\ signal \in BOOLEAN
    /\ suite \in [Suites -> SuiteState] /\ checking \subseteq Suites /\ sleeper \in BOOLEAN
    /\ reports \in UNION {[S -> Report] : S \in SUBSET Stamps} /\ latest \in Stamps \cup {NONE}
    /\ rows \in Seq(Row) /\ used \in [EventKinds -> 0..MaxEvents]
    /\ written \subseteq Stamps /\ overwritten \subseteq written
  BY DEF WatchTypeOK, WatcherState, WatcherPC, Suites, SuiteState, EventKinds

(* The same of the state a step leads to.                                    *)
LEMMA WatchTypesNext ==
  WatchTypeOK' <=>
    /\ clock' \in Stamps /\ watcher' \in WatcherState /\ signal' \in BOOLEAN
    /\ suite' \in [Suites -> SuiteState] /\ checking' \subseteq Suites /\ sleeper' \in BOOLEAN
    /\ reports' \in UNION {[S -> Report] : S \in SUBSET Stamps} /\ latest' \in Stamps \cup {NONE}
    /\ rows' \in Seq(Row) /\ used' \in [EventKinds -> 0..MaxEvents]
    /\ written' \subseteq Stamps /\ overwritten' \subseteq written'
  BY DEF WatchTypeOK, WatcherState, WatcherPC, Suites, SuiteState, EventKinds

(* The fields of the watching shell.                                         *)
LEMMA WatcherFields ==
  ASSUME NEW w
  PROVE  w \in WatcherState <=>
    /\ w = [pc |-> w.pc, gen |-> w.gen, running |-> w.running, left |-> w.left,
            spare |-> w.spare, last |-> w.last, trend |-> w.trend]
    /\ w.pc \in WatcherPC /\ w.gen \in 0..MaxStarts /\ w.running \in BOOLEAN
    /\ w.left \in 0..MaxCycles /\ w.spare \in 0..MaxCycles
    /\ w.last \in Stamps \cup {NONE} /\ w.trend \in Trend
  BY DEF WatcherState

(* What the steps change of the watching shell.                              *)
LEMMA ShellFacts ==
  ASSUME WatchTypeOK
  PROVE  /\ \A label \in WatcherPC : Goes(label) =>
              watcher' = [pc |-> label, gen |-> watcher.gen, running |-> watcher.running,
                          left |-> watcher.left, spare |-> watcher.spare,
                          last |-> watcher.last, trend |-> watcher.trend]
         /\ NextCycle =>
              watcher' = [pc |-> "cycle", gen |-> watcher.gen, running |-> watcher.running,
                          left |-> watcher.left - 1, spare |-> watcher.spare,
                          last |-> watcher.last, trend |-> watcher.trend]
         /\ AcceptStamp =>
              watcher' = [pc |-> "trend", gen |-> watcher.gen, running |-> watcher.running,
                          left |-> watcher.left, spare |-> watcher.spare,
                          last |-> LatestStamp, trend |-> watcher.trend]
         /\ Compare =>
              watcher' = [pc |-> "append", gen |-> watcher.gen, running |-> watcher.running,
                          left |-> watcher.left, spare |-> watcher.spare,
                          last |-> watcher.last, trend |-> Comparison]
         /\ RecordCycle =>
              watcher' = [pc |-> "prune", gen |-> watcher.gen, running |-> watcher.running,
                          left |-> watcher.left, spare |-> watcher.spare,
                          last |-> watcher.last, trend |-> NoTrend]
         /\ Trap =>
              watcher' = [pc |-> IF watcher.pc = "wait" THEN "reaped" ELSE watcher.pc,
                          gen |-> watcher.gen, running |-> FALSE,
                          left |-> watcher.left, spare |-> watcher.spare,
                          last |-> watcher.last, trend |-> watcher.trend]
<1> DEFINE w(p, r, l, s, t) == [pc |-> p, gen |-> watcher.gen, running |-> r, left |-> l,
                                spare |-> watcher.spare, last |-> s, trend |-> t]
<1>0. watcher = w(watcher.pc, watcher.running, watcher.left, watcher.last, watcher.trend)
  BY WatchTypes, WatcherFields
<1>1. \A p, r, l, s, t, q : [w(p, r, l, s, t) EXCEPT !.pc = q] = w(q, r, l, s, t)
  OBVIOUS
<1>2. \A p, r, l, s, t, q : [w(p, r, l, s, t) EXCEPT !.left = q] = w(p, r, q, s, t)
  OBVIOUS
<1>3. \A p, r, l, s, t, q : [w(p, r, l, s, t) EXCEPT !.last = q] = w(p, r, l, q, t)
  OBVIOUS
<1>4. \A p, r, l, s, t, q : [w(p, r, l, s, t) EXCEPT !.trend = q] = w(p, r, l, s, q)
  OBVIOUS
<1>5. \A p, r, l, s, t, q : [w(p, r, l, s, t) EXCEPT !.running = q] = w(p, q, l, s, t)
  OBVIOUS
<1>6. \A p, r, l, s, t : w(p, r, l, s, t).pc = p /\ w(p, r, l, s, t).left = l
  OBVIOUS
<1>a. ASSUME NEW label \in WatcherPC, Goes(label)
      PROVE  watcher' = w(label, watcher.running, watcher.left, watcher.last, watcher.trend)
  BY <1>0, <1>1, <1>a, GoesFacts DEF Goes
<1>b. ASSUME NextCycle
      PROVE  watcher' = w("cycle", watcher.running, watcher.left - 1, watcher.last, watcher.trend)
  <2>1. watcher' = [watcher EXCEPT !.pc = "cycle", !.left = @ - 1]
    BY <1>b DEF NextCycle
  <2> QED BY <1>0, <2>1
<1>c. ASSUME AcceptStamp
      PROVE  watcher' = w("trend", watcher.running, watcher.left, LatestStamp, watcher.trend)
  <2>1. watcher' = [watcher EXCEPT !.pc = "trend", !.last = LatestStamp]
    BY <1>c DEF AcceptStamp
  <2> QED BY <1>0, <2>1
<1>d. ASSUME Compare
      PROVE  watcher' = w("append", watcher.running, watcher.left, watcher.last, Comparison)
  <2>1. watcher' = [watcher EXCEPT !.pc = "append", !.trend = Comparison]
    BY <1>d DEF Compare
  <2> QED BY <1>0, <2>1
<1>e. ASSUME RecordCycle
      PROVE  watcher' = w("prune", watcher.running, watcher.left, watcher.last, NoTrend)
  <2>1. watcher' = [watcher EXCEPT !.pc = "prune", !.trend = NoTrend]
    BY <1>e DEF RecordCycle
  <2> QED BY <1>0, <2>1
<1>f. ASSUME Trap
      PROVE  watcher' = w(IF watcher.pc = "wait" THEN "reaped" ELSE watcher.pc, FALSE, watcher.left,
                          watcher.last, watcher.trend)
  <2>1. watcher' = [watcher EXCEPT !.running = FALSE, !.pc = IF @ = "wait" THEN "reaped" ELSE @]
    BY <1>f DEF Trap
  <2> QED BY <1>0, <2>1
<1> QED BY <1>a, <1>b, <1>c, <1>d, <1>e, <1>f

(* The numbers the bounds are.                                               *)
LEMMA BoundsAreNumbers ==
  /\ MaxClock \in Nat \ {0} /\ MaxStarts \in Nat /\ MaxCycles \in Nat /\ MaxEvents \in Nat
  /\ Stamps \subseteq Nat /\ NONE \notin Nat /\ Hand \notin Gens /\ Gens = 1..MaxStarts
  BY BoundsAssumption, NoneAssumption DEF BoundsAssumption, NoneAssumption, Stamps, Gens, Hand

(* Nothing has run yet.                                                      *)
LEMMA WatchInitially == WatchInit => WatchTypeOK /\ SuitesInv
<1> SUFFICES ASSUME WatchInit PROVE WatchTypeOK /\ SuitesInv
  OBVIOUS
<1>1. IdleSuite = [pc |-> "none", stamp |-> NONE, result |-> NoReport, exit |-> 0]
  BY DEF IdleSuite
<1>2. IdleSuite \in SuiteState
  BY <1>1, NothingReported DEF SuiteState
<1>3. reports \in UNION {[S -> Report] : S \in SUBSET Stamps}
  <2>1. reports \in [{} -> Report] /\ {} \in SUBSET Stamps
    BY DEF WatchInit
  <2> QED BY <2>1
<1>4. WatchTypeOK
  <2>1. watcher \in WatcherState
    BY BoundsAreNumbers, NothingReported DEF WatchInit, WatcherState, WatcherPC
  <2>2. suite \in [Suites -> SuiteState]
    BY <1>2 DEF WatchInit, Suites
  <2>3. used \in [EventKinds -> 0..MaxEvents]
    BY BoundsAreNumbers DEF WatchInit, EventKinds
  <2>4. clock \in Stamps /\ rows \in Seq(Row)
    BY BoundsAreNumbers DEF WatchInit, Stamps
  <2> QED BY <1>3, <2>1, <2>2, <2>3, <2>4, WatchTypes DEF WatchInit
<1>5. SuitesInv
  BY <1>1, BoundsAreNumbers DEF WatchInit, SuitesInv, Alive, Stamped, Suites
<1> QED BY <1>4, <1>5

(* The steps of the shell that touch nothing else.                           *)
LEMMA ShellAlone ==
  ASSUME WatchTypeOK, SuitesInv,
         NextCycle \/ NoteChild \/ Reap \/ PartialCycle \/ NoteSleep \/ WakeUp \/ AcceptStamp
  PROVE  WatchTypeOK' /\ SuitesInv'
<1>1. OnlyWatcher
  BY DEF NextCycle, NoteChild, Reap, PartialCycle, NoteSleep, WakeUp, AcceptStamp
<1>2. UNCHANGED <<clock, signal, suite, checking, sleeper, reports, latest, rows, used, written, overwritten>>
  BY <1>1 DEF OnlyWatcher, files, ghosts
<1>3. /\ watcher' = [pc |-> watcher'.pc, gen |-> watcher.gen, running |-> watcher.running,
                      left |-> watcher'.left, spare |-> watcher.spare,
                      last |-> watcher'.last, trend |-> watcher.trend]
      /\ \/ watcher.pc = "top" /\ watcher'.pc = "cycle" /\ watcher'.left = watcher.left - 1 /\ watcher'.last = watcher.last
         \/ watcher.pc = "spawned" /\ watcher'.pc = "wait" /\ watcher'.left = watcher.left /\ watcher'.last = watcher.last
         \/ watcher.pc = "wait" /\ watcher'.pc = "reaped" /\ watcher'.left = watcher.left /\ watcher'.last = watcher.last
              /\ ~Alive(watcher.gen)
         \/ watcher.pc = "reaped" /\ watcher'.pc = "after" /\ watcher'.left = watcher.left /\ watcher'.last = watcher.last
         \/ watcher.pc = "dozing" /\ watcher'.pc = "nap" /\ watcher'.left = watcher.left /\ watcher'.last = watcher.last
         \/ watcher.pc = "nap" /\ watcher'.pc = "top" /\ watcher'.left = watcher.left /\ watcher'.last = watcher.last
         \/ watcher.pc = "reaped" /\ watcher'.pc = "trend" /\ watcher'.left = watcher.left /\ watcher'.last = LatestStamp
              /\ SuiteExit # 3 /\ watcher.running
  BY ShellFacts DEF NextCycle, NoteChild, Reap, PartialCycle, NoteSleep, WakeUp, AcceptStamp, WatcherPC
<1>4. LatestStamp \in Stamps \cup {NONE}
  BY WatchTypes DEF LatestStamp
<1>5. watcher' \in WatcherState
  BY <1>3, <1>4, WatchTypes, WatcherFields, BoundsAreNumbers DEF SuitesInv, WatcherPC
<1>6. WatchTypeOK'
  BY <1>2, <1>5, WatchTypes, WatchTypesNext
<1>7. \A g : Alive(g)' <=> Alive(g)
  BY <1>2 DEF Alive
<1>8. watcher.gen \in Gens => suite[watcher.gen].pc \in {"none", "guard", "checks", "write", "link", "done", "killed"}
  BY WatchTypes DEF Suites, SuiteState
<1>9. watcher'.gen = watcher.gen /\ watcher'.running = watcher.running /\ SuiteExit' = SuiteExit
  BY <1>2, <1>3 DEF SuiteExit
<1>10. watcher.left \in Nat /\ watcher'.left \in Nat
  BY <1>5, WatchTypes, WatcherFields, BoundsAreNumbers
<1>11. SuitesInv'
  <2>1. watcher.pc = "wait" => watcher.gen \in Gens
    BY DEF SuitesInv
  <2>2. watcher'.pc \in {"top", "dozing", "nap"} => watcher'.left > 0
    BY <1>3 DEF SuitesInv
  <2>3. watcher'.pc \notin {"off", "spawned", "wait"} => \A g \in Gens : ~Alive(g)
    BY <1>3 DEF SuitesInv
  <2> QED BY <1>2, <1>3, <1>7, <1>8, <1>9, <2>1, <2>2, <2>3 DEF SuitesInv, Alive
<1> QED BY <1>6, <1>11

(* What the steps of a suite change of it.                                   *)
LEMMA SuiteStepFacts ==
  ASSUME WatchTypeOK, NEW g \in Suites
  PROVE  /\ \A h \in Suites \ {g} : SuiteStep(g) => suite'[h] = suite[h]
         /\ SuiteStep(g) => suite' \in [Suites -> SuiteState]
         /\ Refuse(g) => Turns(g, "done", NONE, 3)
         /\ Stamp(g) => Turns(g, "checks", clock', suite[g].exit)
         /\ ChecksEnd(g) /\ suite[g].pc # "checks" => suite' = suite
         /\ ChecksEnd(g) /\ suite[g].pc = "checks" =>
              \E exit \in {0, 1} : Turns(g, "write", suite[g].stamp, exit)
         /\ WriteReport(g) => Turns(g, "link", suite[g].stamp, suite[g].exit)
         /\ LinkLatest(g) => Turns(g, "done", NONE, suite[g].exit)
<1> DEFINE Others == \A h \in Suites \ {g} : suite'[h] = suite[h]
<1>0. suite \in [Suites -> SuiteState] /\ suite[g] \in SuiteState
      /\ suite[g] = [pc |-> suite[g].pc, stamp |-> suite[g].stamp, result |-> suite[g].result, exit |-> suite[g].exit]
      /\ suite[g].exit \in {0, 1, 3}
  BY WatchTypes DEF SuiteState
<1>1. ASSUME Refuse(g)
      PROVE  suite' \in [Suites -> SuiteState] /\ Others
             /\ Turns(g, "done", NONE, 3)
  <2>1. suite' = [suite EXCEPT ![g] = [IdleSuite EXCEPT !.pc = "done", !.exit = 3]]
    BY <1>1 DEF Refuse, SuiteOver
  <2> QED BY <2>1, SuiteSetFacts
<1>2. ASSUME Stamp(g)
      PROVE  suite' \in [Suites -> SuiteState] /\ Others
             /\ Turns(g, "checks", clock', suite[g].exit)
  <2>1. suite' = [suite EXCEPT ![g].pc = "checks", ![g].stamp = clock'] /\ clock' \in Stamps
    BY <1>2 DEF Stamp
  <2>2. suite' \in [Suites -> SuiteState] /\ Others
    BY <1>0, <2>1 DEF SuiteState
  <2>3. /\ suite'[g].pc = "checks" /\ suite'[g].stamp = clock'
        /\ suite'[g].result = suite[g].result /\ suite'[g].exit = suite[g].exit
    BY <1>0, <2>1 DEF SuiteState
  <2>4. suite'[g] \in SuiteState
    BY <2>2
  <2> QED BY <2>2, <2>3, <2>4 DEF Turns
<1>3. ASSUME ChecksEnd(g), suite[g].pc # "checks" PROVE suite' = suite
  BY <1>3 DEF ChecksEnd
<1>4. ASSUME ChecksEnd(g), suite[g].pc = "checks"
      PROVE  suite' \in [Suites -> SuiteState] /\ Others
             /\ \E exit \in {0, 1} : Turns(g, "write", suite[g].stamp, exit)
  <2>0. PICK S \in SUBSET Checks : \E result \in [S -> Outcomes] :
          suite' = [suite EXCEPT ![g].pc = "write", ![g].result = result,
                      ![g].exit = IF (\E c \in S : result[c] = "FAIL") THEN 1 ELSE 0]
    <3>1. \E S \in (IF g = Hand THEN SUBSET Checks ELSE {Checks}) : \E result \in [S -> Outcomes] :
            suite' = [suite EXCEPT ![g].pc = "write", ![g].result = result,
                        ![g].exit = IF (\E c \in S : result[c] = "FAIL") THEN 1 ELSE 0]
      BY <1>4, Zenon DEF ChecksEnd
    <3>2. (IF g = Hand THEN SUBSET Checks ELSE {Checks}) \subseteq SUBSET Checks
      OBVIOUS
    <3> QED BY <3>1, <3>2, Zenon
  <2>1. PICK result \in [S -> Outcomes] :
          suite' = [suite EXCEPT ![g].pc = "write", ![g].result = result,
                      ![g].exit = IF (\E c \in S : result[c] = "FAIL") THEN 1 ELSE 0]
    BY <2>0
  <2> DEFINE exit == IF (\E c \in S : result[c] = "FAIL") THEN 1 ELSE 0
  <2>2. exit \in {0, 1}
    OBVIOUS
  <2>3. result \in Report
    <3>1. result \in [S -> Status]
      BY OutcomesAssumption DEF OutcomesAssumption
    <3> QED BY <3>1 DEF Report
  <2>4. suite' = [suite EXCEPT ![g].pc = "write", ![g].result = result, ![g].exit = exit]
    BY <2>1
  <2>5. suite' \in [Suites -> SuiteState] /\ Others
    <3> HIDE DEF exit
    <3> QED BY <1>0, <2>2, <2>3, <2>4 DEF SuiteState
  <2>6. /\ suite'[g].pc = "write" /\ suite'[g].stamp = suite[g].stamp
        /\ suite'[g].result = result /\ suite'[g].exit = exit
    <3> HIDE DEF exit
    <3> QED BY <1>0, <2>3, <2>4 DEF SuiteState
  <2>7. Turns(g, "write", suite[g].stamp, exit)
    <3> HIDE DEF exit
    <3> QED BY <2>6 DEF Turns
  <2> QED BY <2>2, <2>5, <2>7
<1>5. ASSUME WriteReport(g)
      PROVE  suite' \in [Suites -> SuiteState] /\ Others
             /\ Turns(g, "link", suite[g].stamp, suite[g].exit)
  <2>1. SuiteGoes(g, "link")
    BY <1>5 DEF WriteReport
  <2> QED BY <2>1, SuiteGoesFacts
<1>6. ASSUME LinkLatest(g)
      PROVE  suite' \in [Suites -> SuiteState] /\ Others
             /\ Turns(g, "done", NONE, suite[g].exit)
  <2>1. suite' = [suite EXCEPT ![g] = [IdleSuite EXCEPT !.pc = "done", !.exit = suite[g].exit]]
    BY <1>6 DEF LinkLatest, SuiteOver
  <2> QED BY <1>0, <2>1, SuiteSetFacts
<1> QED BY <1>0, <1>1, <1>2, <1>3, <1>4, <1>5, <1>6 DEF SuiteStep

(* A step of a suite moves it on, begins no suite and leaves the shell alone.*)
LEMMA SuiteStepGoes ==
  ASSUME WatchTypeOK, NEW g \in Suites, SuiteStep(g)
  PROVE  /\ UNCHANGED <<watcher, signal, sleeper, rows>>
         /\ used'.manual = used.manual /\ used'.kill = used.kill /\ used'.signal = used.signal
         /\ \A h \in Suites : Alive(h)' => Alive(h)
         /\ \A h \in Suites : suite'[h].pc \in {"done", "killed"} /\ suite[h].pc # "done" => suite'[h].pc = "done" \/ suite[h].pc = "killed"
         /\ \A h \in Suites : ~Alive(h) => suite'[h] = suite[h]
         /\ \A h \in Suites : Alive(h)' /\ suite[h].exit # 3 => suite'[h].exit # 3
         /\ \A h \in Suites : suite'[h].pc \in Stamped /\ (suite[h].pc \in Stamped => suite[h].stamp \in Stamps) =>
              suite'[h].stamp \in Stamps
         /\ \A h \in Suites : h \in checking' => h \in checking \/ Alive(h)
         /\ \A h \in Suites : suite'[h].pc = "none" => suite[h].pc = "none"
<1>1. Alive(g) \/ (suite' = suite /\ ChecksEnd(g))
  BY SuiteStepFacts DEF SuiteStep, Alive, Refuse, Stamp, ChecksEnd, WriteReport, LinkLatest
<1>2. /\ UNCHANGED <<watcher, signal, sleeper, rows>>
      /\ used'.manual = used.manual /\ used'.kill = used.kill /\ used'.signal = used.signal
  <2>1. UNCHANGED <<watcher, signal, sleeper, rows>>
    BY DEF SuiteStep, Refuse, Stamp, ChecksEnd, WriteReport, LinkLatest, files
  <2>2. Refuse(g) => used'.manual = used.manual /\ used'.kill = used.kill /\ used'.signal = used.signal
    BY HappensFacts DEF Refuse, EventKinds
  <2>3. ~Refuse(g) => used' = used
    BY DEF SuiteStep, Stamp, ChecksEnd, WriteReport, LinkLatest
  <2> QED BY <2>1, <2>2, <2>3
<1>3. \A h \in Suites \ {g} : suite'[h] = suite[h]
  BY SuiteStepFacts
<1>4. /\ Alive(g)' => Alive(g)
      /\ suite[g].pc # "killed" /\ suite'[g].pc # suite[g].pc => suite'[g].pc \in {"checks", "write", "link", "done"}
      /\ suite[g].pc \in {"none", "done", "killed"} => suite'[g] = suite[g]
      /\ Alive(g)' /\ suite[g].exit # 3 => suite'[g].exit # 3
      /\ suite'[g].pc \in Stamped /\ (suite[g].pc \in Stamped => suite[g].stamp \in Stamps) => suite'[g].stamp \in Stamps
  <2>1. CASE Refuse(g)
    <3>1. suite[g].pc = "guard"
      BY <2>1 DEF Refuse
    <3>2. suite'[g].pc = "done"
      BY <2>1, SuiteStepFacts DEF Turns
    <3> QED BY <3>1, <3>2 DEF Alive, Stamped
  <2>2. CASE Stamp(g)
    <3>1. suite[g].pc = "guard"
      BY <2>2 DEF Stamp
    <3>3. clock' \in Stamps
      BY <2>2 DEF Stamp
    <3>2. suite'[g].pc = "checks" /\ suite'[g].stamp \in Stamps /\ suite'[g].exit = suite[g].exit
      BY <2>2, <3>3, SuiteStepFacts DEF Turns
    <3> QED BY <3>1, <3>2 DEF Alive, Stamped
  <2>3. CASE ChecksEnd(g)
    <3>1. CASE suite[g].pc # "checks"
      <4>1. suite' = suite
        BY <2>3, <3>1, SuiteStepFacts
      <4> QED BY <4>1 DEF Alive
    <3>2. CASE suite[g].pc = "checks"
      <4>1. suite'[g].pc = "write" /\ suite'[g].stamp = suite[g].stamp /\ suite'[g].exit \in {0, 1}
        BY <2>3, <3>2, SuiteStepFacts DEF Turns
      <4> QED BY <3>2, <4>1 DEF Alive, Stamped
    <3> QED BY <3>1, <3>2
  <2>4. CASE WriteReport(g)
    <3>1. suite[g].pc = "write"
      BY <2>4 DEF WriteReport
    <3>2. suite'[g].pc = "link" /\ suite'[g].stamp = suite[g].stamp /\ suite'[g].exit = suite[g].exit
      BY <2>4, SuiteStepFacts DEF Turns
    <3> QED BY <3>1, <3>2 DEF Alive, Stamped
  <2>5. CASE LinkLatest(g)
    <3>1. suite[g].pc = "link"
      BY <2>5 DEF LinkLatest
    <3>2. suite'[g].pc = "done"
      BY <2>5, SuiteStepFacts DEF Turns
    <3> QED BY <3>1, <3>2 DEF Alive, Stamped
  <2> QED BY <2>1, <2>2, <2>3, <2>4, <2>5 DEF SuiteStep
<1>5. \A h \in Suites : suite[h].pc \in {"none", "guard", "checks", "write", "link", "done", "killed"}
  BY WatchTypes DEF SuiteState
<1>6. \A h \in Suites : ~Alive(h) => suite'[h] = suite[h]
  BY <1>3, <1>4, <1>5 DEF Alive
<1>7. \A h \in Suites : h \in checking' => h \in checking \/ Alive(h)
  BY DEF SuiteStep, Refuse, Stamp, ChecksEnd, WriteReport, LinkLatest, Alive
<1>8. \A h \in Suites : Alive(h)' => Alive(h)
  BY <1>3, <1>4 DEF Alive
<1> QED BY <1>2, <1>3, <1>4, <1>5, <1>6, <1>7, <1>8

(* A step of a suite keeps types, and who may be alive.                      *)
LEMMA SuiteStepInv ==
  ASSUME WatchTypeOK, SuitesInv, NEW g \in Suites, SuiteStep(g)
  PROVE  WatchTypeOK' /\ SuitesInv'
<1>1. suite' \in [Suites -> SuiteState]
  BY SuiteStepFacts
<1>2. clock' \in Stamps /\ checking' \subseteq Suites
  BY WatchTypes DEF SuiteStep, Refuse, Stamp, ChecksEnd, WriteReport, LinkLatest
<1>3. used' \in [EventKinds -> 0..MaxEvents]
  <2>1. Refuse(g) => used' \in [EventKinds -> 0..MaxEvents]
    BY HappensFacts DEF Refuse, EventKinds
  <2>2. ~Refuse(g) => used' = used
    BY DEF SuiteStep, Stamp, ChecksEnd, WriteReport, LinkLatest
  <2> QED BY <2>1, <2>2, WatchTypes
<1>4. /\ reports' \in UNION {[S -> Report] : S \in SUBSET Stamps} /\ latest' \in Stamps \cup {NONE}
      /\ written' \subseteq Stamps /\ overwritten' \subseteq written'
  <2>0. /\ reports \in UNION {[S -> Report] : S \in SUBSET Stamps} /\ latest \in Stamps \cup {NONE}
        /\ written \subseteq Stamps /\ overwritten \subseteq written
        /\ suite[g].stamp \in Stamps \cup {NONE} /\ suite[g].result \in Report
    BY WatchTypes DEF SuiteState
  <2>1. CASE WriteReport(g)
    <3> DEFINE s == suite[g].stamp
    <3>1. s \in Stamps
      BY <2>1 DEF SuitesInv, WriteReport, Stamped
    <3>2. PICK S \in SUBSET Stamps : reports \in [S -> Report]
      BY <2>0
    <3>3. reports' = [t \in DOMAIN reports \cup {s} |-> IF t = s THEN suite[g].result ELSE reports[t]]
      BY <2>1 DEF WriteReport
    <3>4. reports' \in [S \cup {s} -> Report]
      BY <2>0, <3>2, <3>3
    <3>5. S \cup {s} \in SUBSET Stamps
      BY <3>1
    <3> QED BY <2>0, <2>1, <3>1, <3>4, <3>5 DEF WriteReport
  <2>2. CASE LinkLatest(g)
    BY <2>0, <2>2 DEF LinkLatest, ghosts
  <2>3. CASE Refuse(g) \/ Stamp(g) \/ ChecksEnd(g)
    BY <2>0, <2>3 DEF Refuse, Stamp, ChecksEnd, files, ghosts
  <2> QED BY <2>1, <2>2, <2>3 DEF SuiteStep
<1>5. WatchTypeOK'
  BY <1>1, <1>2, <1>3, <1>4, SuiteStepGoes, WatchTypes, WatchTypesNext
<1>6. SuitesInv'
  <2>1. \A h \in Gens : h \in Suites
    BY DEF Suites
  <2>2. Hand \in Suites
    BY DEF Suites
  <2> QED BY <2>1, <2>2, SuiteStepGoes DEF SuitesInv, SuiteExit, Alive
<1> QED BY <1>5, <1>6

(* The latest of some stamps.                                                *)
LEMMA LatestOfStamps ==
  ASSUME NEW S \in SUBSET Stamps, S # {}
  PROVE  Max(S) \in S /\ \A t \in S : t <= Max(S)
<1> DEFINE T == {MaxClock - t : t \in S}
<1>0. MaxClock \in Nat /\ \A t \in S : t \in Nat /\ t <= MaxClock
  <2>1. MaxClock \in Nat
    BY BoundsAreNumbers
  <2> QED BY <2>1 DEF Stamps
<1>1. T \in SUBSET Nat /\ T # {}
  <2>1. \A t \in S : MaxClock - t \in Nat
    BY <1>0
  <2> QED BY <2>1
<1>2. PICK x \in T : \A y \in T : x <= y
  <2> HIDE DEF T
  <2> QED BY <1>1, LeastExists
<1>3. PICK top \in S : x = MaxClock - top
  BY <1>2
<1>4. \A t \in S : t \in Int /\ top >= t
  <2>1. \A t \in S : MaxClock - top <= MaxClock - t
    BY <1>2, <1>3
  <2> QED BY <1>0, <2>1
<1>5. \E m \in S : \A t \in S : m >= t
  BY <1>4
<1>6. Max(S) \in S /\ \A t \in S : Max(S) >= t
  BY <1>5 DEF Max
<1> QED BY <1>4, <1>6

(* The reports, as a function.                                               *)
LEMMA ReportsFacts ==
  ASSUME WatchTypeOK
  PROVE  DOMAIN reports \subseteq Stamps /\ \A t \in DOMAIN reports : reports[t] \in Report
<1>1. reports \in UNION {[S -> Report] : S \in SUBSET Stamps}
  BY WatchTypes
<1>2. PICK S \in SUBSET Stamps : reports \in [S -> Report]
  BY <1>1
<1> QED BY <1>2

(* What trend.py compares, and what it makes of it.                          *)
LEMMA ComparisonFacts ==
  ASSUME WatchTypeOK
  PROVE  /\ Comparison \in Trend
         /\ DOMAIN reports # {} =>
              /\ Comparison.current \in DOMAIN reports
              /\ Comparison.result = reports[Comparison.current]
              /\ LatestStamp # NONE => Comparison.current = latest
              /\ LatestStamp = NONE => \A t \in DOMAIN reports : t <= Comparison.current
              /\ Comparison.regressions # {} => Comparison.exit = 1
              /\ \A b \in DOMAIN reports :
                   /\ b < Comparison.current
                   /\ \A t \in DOMAIN reports : ~(b < t /\ t < Comparison.current)
                   => Comparison.regressions = Regressions(reports[b], reports[Comparison.current])
<1> DEFINE current == IF LatestStamp # NONE THEN latest
                      ELSE IF DOMAIN reports = {} THEN NONE ELSE Max(DOMAIN reports)
           earlier == {s \in DOMAIN reports : current # NONE /\ s < current}
           found == IF earlier = {} THEN {} ELSE Regressions(reports[Max(earlier)], reports[current])
           exit == IF earlier = {} THEN 2 ELSE IF found # {} THEN 1 ELSE 0
           result == IF current = NONE THEN NoReport ELSE reports[current]
<1>1. Comparison = [exit |-> exit, current |-> current, result |-> result, regressions |-> found]
  BY Zenon DEF Comparison
<1>2. DOMAIN reports \subseteq Stamps /\ \A t \in DOMAIN reports : reports[t] \in Report
  BY ReportsFacts
<1>3. LatestStamp # NONE => LatestStamp = latest /\ latest \in DOMAIN reports
  BY DEF LatestStamp
<1>4. DOMAIN reports # {} =>
        Max(DOMAIN reports) \in DOMAIN reports /\ \A t \in DOMAIN reports : t <= Max(DOMAIN reports)
  BY <1>2, LatestOfStamps
<1>5. DOMAIN reports # {} =>
        /\ current \in DOMAIN reports
        /\ LatestStamp # NONE => current = latest
        /\ LatestStamp = NONE => \A t \in DOMAIN reports : t <= current
  BY <1>3, <1>4
<1>6. DOMAIN reports = {} => current = NONE
  BY <1>3
<1>7. \A s \in Stamps : s # NONE
  BY BoundsAreNumbers
<1>8. current \in Stamps \cup {NONE} /\ result \in Report
  <2> HIDE DEF current
  <2>1. CASE DOMAIN reports = {}
    BY <1>6, <2>1, NothingReported
  <2>2. CASE DOMAIN reports # {}
    BY <1>2, <1>5, <1>7, <2>2
  <2> QED BY <2>1, <2>2
<1>9. found \in SUBSET Checks /\ exit \in 0..2
  BY DEF Regressions
<1>10. ASSUME NEW b \in DOMAIN reports, b < current, \A t \in DOMAIN reports : ~(b < t /\ t < current),
             current \in DOMAIN reports
       PROVE  found = Regressions(reports[b], reports[current])
  <2> HIDE DEF current
  <2>1. current \in Stamps /\ current # NONE
    BY <1>2, <1>7, <1>10
  <2>2. b \in earlier /\ earlier \in SUBSET Stamps
    BY <1>2, <1>10, <2>1
  <2>3. Max(earlier) \in earlier /\ b <= Max(earlier)
    <3> HIDE DEF earlier
    <3> QED BY <2>2, LatestOfStamps
  <2>4. Max(earlier) \in DOMAIN reports /\ Max(earlier) < current
    BY <2>3
  <2>5. Max(earlier) = b
    <3> DEFINE m == Max(earlier)
    <3>1. m \in Nat /\ b \in Nat /\ b <= m /\ ~(b < m)
      BY <1>2, <1>10, <2>3, <2>4, BoundsAreNumbers
    <3> HIDE DEF m
    <3>2. m = b
      BY <3>1
    <3> QED BY <3>2 DEF m
  <2> QED BY <2>2, <2>5
<1> HIDE DEF current, result
<1>11. found # {} => exit = 1
  OBVIOUS
<1> HIDE DEF found, exit
<1>12. Comparison \in Trend
  BY <1>1, <1>8, <1>9 DEF Trend
<1>13. /\ Comparison.current = current /\ Comparison.result = result
       /\ Comparison.regressions = found /\ Comparison.exit = exit
  BY <1>1
<1>14. DOMAIN reports # {} => result = reports[current]
  <2>1. DOMAIN reports # {} => current # NONE
    BY <1>2, <1>5, <1>7
  <2> QED BY <2>1 DEF result
<1> QED BY <1>5, <1>10, <1>11, <1>12, <1>13, <1>14

(* A row more: the others stay.                                              *)
LEMMA RecordFacts ==
  ASSUME WatchTypeOK, watcher.gen \in Gens, NEW status \in Judged \cup {"skipped", "aborted", "collision"},
         NEW trend \in Trend, Record(status, trend)
  PROVE  /\ rows' \in Seq(Row) /\ Len(rows') = Len(rows) + 1 /\ Len(rows) \in Nat
         /\ DOMAIN rows = 1..Len(rows) /\ DOMAIN rows' = 1..Len(rows')
         /\ \A i \in 1..Len(rows) : rows'[i] = rows[i]
         /\ LET row == rows'[Len(rows) + 1] IN row.status = status /\ row.gen = watcher.gen /\ row.trend = trend
<1> DEFINE row == [status |-> status, gen |-> watcher.gen, report |-> LatestStamp, trend |-> trend]
<1>1. rows \in Seq(Row) /\ latest \in Stamps \cup {NONE}
  BY WatchTypes
<1>2. row \in Row
  BY <1>1 DEF Row, LatestStamp
<1>3. rows' = Append(rows, row)
  BY DEF Record
<1>4. row.status = status /\ row.gen = watcher.gen /\ row.trend = trend
  OBVIOUS
<1> HIDE DEF row
<1>5. /\ rows' \in Seq(Row) /\ Len(rows') = Len(rows) + 1 /\ Len(rows) \in Nat
      /\ DOMAIN rows = 1..Len(rows) /\ DOMAIN rows' = 1..Len(rows')
      /\ \A i \in 1..Len(rows) : rows'[i] = rows[i]
      /\ rows'[Len(rows) + 1] = row
  BY <1>1, <1>2, <1>3
<1> QED BY <1>4, <1>5

(* The steps of the shell that record a row, compare or prune.               *)
LEMMA RowStepInv ==
  ASSUME WatchTypeOK, SuitesInv,
         SkipCycle \/ RecordAbort \/ RecordCollision \/ RecordCycle \/ Compare \/ Prune \/ Space
  PROVE  WatchTypeOK' /\ SuitesInv'
<1>0. watcher \in WatcherState /\ watcher.gen \in Gens /\ NoTrend \in Trend /\ Comparison \in Trend
  BY WatchTypes, NothingReported, ComparisonFacts
     DEF SkipCycle, RecordAbort, RecordCollision, RecordCycle, Compare, Prune, Space, SuitesInv
<1>1. UNCHANGED <<signal, suite, checking, sleeper, latest, written, overwritten>>
  BY DEF SkipCycle, RecordAbort, RecordCollision, RecordCycle, Compare, Prune, Space, OnlyWatcher, files, ghosts
<1>2. /\ watcher' = [pc |-> watcher'.pc, gen |-> watcher.gen, running |-> watcher.running,
                      left |-> watcher.left, spare |-> watcher.spare,
                      last |-> watcher.last, trend |-> watcher'.trend]
      /\ watcher'.trend \in {watcher.trend, Comparison, NoTrend}
      /\ \/ watcher.pc \in {"cycle", "reaped", "space", "prune"} /\ watcher'.pc = "after"
         \/ watcher.pc = "reaped" /\ watcher'.pc = "space"
         \/ watcher.pc = "trend" /\ watcher'.pc = "append"
         \/ watcher.pc = "append" /\ watcher'.pc = "prune"
  BY ShellFacts DEF SkipCycle, RecordAbort, RecordCollision, RecordCycle, Compare, Prune, Space, WatcherPC
<1>3. watcher' \in WatcherState
  BY <1>0, <1>2, WatcherFields DEF WatcherPC
<1>4. rows' \in Seq(Row)
  <2>1. CASE SkipCycle
    BY <1>0, <2>1, RecordFacts DEF SkipCycle
  <2>2. CASE RecordAbort
    BY <1>0, <2>2, RecordFacts DEF RecordAbort
  <2>3. CASE RecordCollision
    BY <1>0, <2>3, RecordFacts DEF RecordCollision
  <2>4. CASE RecordCycle
    <3>1. watcher.trend \in Trend
      BY <1>0, WatcherFields
    <3>2. \E status \in Judged : Record(status, watcher.trend)
      BY <2>4 DEF RecordCycle, Judged
    <3> QED BY <1>0, <3>1, <3>2, RecordFacts
  <2>5. CASE Compare \/ Prune \/ Space
    BY <2>5, WatchTypes DEF Compare, Prune, Space, OnlyWatcher, files
  <2> QED BY <2>1, <2>2, <2>3, <2>4, <2>5
<1>5. used' \in [EventKinds -> 0..MaxEvents] /\ used'.manual = used.manual /\ used'.kill = used.kill /\ used'.signal = used.signal
  <2>1. CASE SkipCycle
    BY <2>1, HappensFacts DEF SkipCycle, EventKinds
  <2>2. CASE ~SkipCycle
    BY <2>2, WatchTypes DEF RecordAbort, RecordCollision, RecordCycle, Compare, Prune, Space, OnlyWatcher
  <2> QED BY <2>1, <2>2
<1>6. reports' \in UNION {[S -> Report] : S \in SUBSET Stamps}
  <2>1. CASE Prune
    <3>1. reports' = [s \in DOMAIN reports \ OldReports |-> reports[s]]
      BY <2>1 DEF Prune
    <3>2. DOMAIN reports \subseteq Stamps /\ \A t \in DOMAIN reports : reports[t] \in Report
      BY ReportsFacts
    <3>3. reports' \in [DOMAIN reports \ OldReports -> Report] /\ DOMAIN reports \ OldReports \in SUBSET Stamps
      BY <3>1, <3>2
    <3> QED BY <3>3
  <2>2. CASE ~Prune
    BY <2>2, WatchTypes DEF SkipCycle, RecordAbort, RecordCollision, RecordCycle, Compare, Space, OnlyWatcher, files
  <2> QED BY <2>1, <2>2
<1>7. clock' \in Stamps
  <2>1. CASE Space
    BY <2>1, WatchTypes, BoundsAreNumbers DEF Space, Stamps
  <2>2. CASE ~Space
    BY <2>2, WatchTypes DEF SkipCycle, RecordAbort, RecordCollision, RecordCycle, Compare, Prune, OnlyWatcher
  <2> QED BY <2>1, <2>2
<1>8. WatchTypeOK'
  BY <1>1, <1>3, <1>4, <1>5, <1>6, <1>7, WatchTypes, WatchTypesNext
<1>9. watcher'.gen = watcher.gen /\ watcher'.running = watcher.running
  BY <1>2
<1>10. SuitesInv'
  <2>1. \A g \in Gens : ~Alive(g)
    BY <1>2 DEF SuitesInv
  <2> QED BY <1>0, <1>1, <1>2, <1>5, <1>9, <2>1 DEF SuitesInv, Alive
<1> QED BY <1>8, <1>10

(* The start of a watcher: nobody holds the lock.                            *)
LEMMA StartWatcherInv ==
  ASSUME WatchTypeOK, SuitesInv, StartWatcher
  PROVE  /\ WatchTypeOK' /\ SuitesInv'
         /\ UNCHANGED <<clock, signal, suite, checking, sleeper, reports, latest, rows, used, written, overwritten>>
         /\ watcher'.pc = "top" /\ watcher'.gen = watcher.gen + 1 /\ watcher.pc = "off"
         /\ \A g \in Gens : ~Alive(g)
<1>1. UNCHANGED <<clock, signal, suite, checking, sleeper, reports, latest, rows, used, written, overwritten>>
  BY DEF StartWatcher, OnlyWatcher, files, ghosts
<1>2. watcher.pc = "off" /\ watcher.gen < MaxStarts /\ ~LockHeld
  BY DEF StartWatcher
<1>3. PICK iterations \in 1..watcher.spare :
        watcher' = [pc |-> "top", gen |-> watcher.gen + 1, running |-> TRUE,
                    left |-> iterations, spare |-> watcher.spare - iterations,
                    last |-> NONE, trend |-> NoTrend]
  BY DEF StartWatcher
<1>4. watcher.gen \in 0..MaxStarts /\ watcher.spare \in 0..MaxCycles
  BY WatchTypes, WatcherFields
<1>5. watcher' \in WatcherState /\ watcher'.gen \in Gens /\ watcher'.left > 0
  BY <1>2, <1>3, <1>4, NothingReported, BoundsAreNumbers DEF WatcherState, WatcherPC
<1>6. WatchTypeOK'
  BY <1>1, <1>5, WatchTypes, WatchTypesNext
<1>7. \A g \in Gens : ~Alive(g) /\ g \notin checking
  BY <1>2 DEF LockHeld
<1>8. watcher'.pc = "top" /\ watcher'.gen = watcher.gen + 1 /\ watcher'.running
  BY <1>3
<1>9. signal => used.signal > 0
  BY DEF SuitesInv
<1>10. SuitesInv'
  BY <1>1, <1>2, <1>5, <1>7, <1>8, <1>9 DEF SuitesInv, Alive
<1> QED BY <1>1, <1>2, <1>6, <1>7, <1>8, <1>10

(* A suite is begun, by the shell or by hand.                                *)
LEMMA BeginSuiteInv ==
  ASSUME WatchTypeOK, SuitesInv, StartByHand \/ Spawn
  PROVE  /\ WatchTypeOK' /\ SuitesInv'
         /\ UNCHANGED <<clock, signal, checking, sleeper, reports, latest, rows, written, overwritten>>
         /\ StartByHand => /\ Turns(Hand, "guard", NONE, 0) /\ watcher' = watcher /\ used'.manual = used.manual + 1
                           /\ Events' = Events + 1 /\ \A h \in Suites \ {Hand} : suite'[h] = suite[h]
         /\ Spawn => /\ Turns(watcher.gen, "guard", NONE, 0) /\ used' = used /\ watcher.gen \in Gens
                     /\ watcher.pc = "cycle" /\ watcher'.pc = "spawned" /\ watcher'.gen = watcher.gen
                     /\ watcher'.last = watcher.last /\ watcher'.trend = watcher.trend
                     /\ \A h \in Suites \ {watcher.gen} : suite'[h] = suite[h]
<1>1. UNCHANGED <<clock, signal, checking, sleeper, reports, latest, rows, written, overwritten>>
  BY DEF StartByHand, Spawn, files, ghosts
<1>2. Hand \in Suites /\ Gens \subseteq Suites /\ Hand \notin Gens
  BY BoundsAreNumbers DEF Suites
<1>i. \A g \in Suites : suite' = [suite EXCEPT ![g] = [IdleSuite EXCEPT !.pc = "guard"]] =>
        /\ suite' \in [Suites -> SuiteState] /\ Turns(g, "guard", NONE, 0)
        /\ \A h \in Suites \ {g} : suite'[h] = suite[h]
  <2> SUFFICES ASSUME NEW g \in Suites, suite' = [suite EXCEPT ![g] = [IdleSuite EXCEPT !.pc = "guard"]]
               PROVE  /\ suite' \in [Suites -> SuiteState] /\ Turns(g, "guard", NONE, 0)
                      /\ \A h \in Suites \ {g} : suite'[h] = suite[h]
    OBVIOUS
  <2>1. [IdleSuite EXCEPT !.pc = "guard"] = [pc |-> "guard", stamp |-> NONE, result |-> NoReport, exit |-> 0]
    BY DEF IdleSuite
  <2>2. suite' = [suite EXCEPT ![g] = [pc |-> "guard", stamp |-> NONE, result |-> NoReport, exit |-> 0]]
    BY <2>1, Zenon
  <2>3. [pc |-> "guard", stamp |-> NONE, result |-> NoReport, exit |-> 0] \in SuiteState
    BY NothingReported DEF SuiteState
  <2>4. suite \in [Suites -> SuiteState]
    BY WatchTypes
  <2>5. /\ suite' \in [Suites -> SuiteState] /\ \A h \in Suites \ {g} : suite'[h] = suite[h]
        /\ suite'[g] = [pc |-> "guard", stamp |-> NONE, result |-> NoReport, exit |-> 0]
    BY <2>2, <2>3, <2>4
  <2>6. Turns(g, "guard", NONE, 0)
    BY <2>5 DEF Turns
  <2> QED BY <2>5, <2>6
<1>3. CASE StartByHand
  <2>1. suite' \in [Suites -> SuiteState] /\ Turns(Hand, "guard", NONE, 0) /\ \A h \in Suites \ {Hand} : suite'[h] = suite[h]
    BY <1>2, <1>3, <1>i DEF StartByHand
  <2>2. /\ watcher' = watcher /\ used' \in [EventKinds -> 0..MaxEvents] /\ used'.manual = used.manual + 1
        /\ Events' = Events + 1 /\ used'.kill = used.kill /\ used'.signal = used.signal
    BY <1>3, HappensFacts DEF StartByHand, EventKinds
  <2>3. WatchTypeOK'
    BY <1>1, <2>1, <2>2, WatchTypes, WatchTypesNext
  <2>4. SuitesInv'
    <3>1. \A g \in Gens : suite'[g] = suite[g]
      BY <1>2, <2>1
    <3>2. used'.manual # 0
      BY <2>2, EventsFacts
    <3>3. watcher.pc # "off" => watcher.gen \in Gens
      BY DEF SuitesInv
    <3> QED BY <1>1, <1>2, <2>1, <2>2, <3>1, <3>2, <3>3 DEF SuitesInv, Alive, SuiteExit, Turns, Stamped, Suites
  <2>5. Spawn => FALSE
    <3>1. Spawn => used' = used
      BY DEF Spawn
    <3> QED BY <2>2, <3>1, EventsFacts
  <2> QED BY <1>1, <2>1, <2>2, <2>3, <2>4, <2>5
<1>4. CASE Spawn
  <2>1. watcher.pc = "cycle" /\ watcher.gen \in Gens /\ used' = used
    BY <1>4 DEF Spawn, SuitesInv
  <2>2. /\ suite' \in [Suites -> SuiteState] /\ Turns(watcher.gen, "guard", NONE, 0)
        /\ \A h \in Suites \ {watcher.gen} : suite'[h] = suite[h]
    BY <1>2, <1>4, <1>i, <2>1 DEF Spawn
  <2>3. watcher' = [pc |-> "spawned", gen |-> watcher.gen, running |-> watcher.running,
                    left |-> watcher.left, spare |-> watcher.spare,
                    last |-> watcher.last, trend |-> watcher.trend]
    BY <1>4, ShellFacts DEF Spawn, WatcherPC
  <2>4. watcher' \in WatcherState
    BY <2>3, WatchTypes, WatcherFields DEF WatcherPC
  <2>5. WatchTypeOK'
    BY <1>1, <2>1, <2>2, <2>4, WatchTypes, WatchTypesNext
  <2>6. watcher'.pc = "spawned" /\ watcher'.gen = watcher.gen /\ watcher'.running = watcher.running
        /\ watcher'.last = watcher.last /\ watcher'.trend = watcher.trend
    BY <2>3
  <2>7. \A h \in Gens \ {watcher.gen} : suite'[h] = suite[h]
    BY <1>2, <2>2
  <2>8. suite'[Hand] = suite[Hand]
    BY <1>2, <2>1, <2>2
  <2>9. SuitesInv'
    BY <1>1, <1>2, <2>1, <2>2, <2>6, <2>7, <2>8 DEF SuitesInv, Alive, SuiteExit, Turns, Stamped, Suites
  <2>10. ~StartByHand
    <3>1. StartByHand => used'.manual = used.manual + 1
      BY HappensFacts DEF StartByHand, EventKinds
    <3> QED BY <2>1, <3>1, EventsFacts
  <2> QED BY <1>1, <2>1, <2>2, <2>5, <2>6, <2>9, <2>10
<1> QED BY <1>3, <1>4

(* The shell naps, stops, is signalled, traps or is killed.                  *)
LEMMA SignalsInv ==
  ASSUME WatchTypeOK, SuitesInv,
         Stop \/ StartSleep \/ SleepEnds \/ Signal \/ Trap \/ KillWatcher
  PROVE  WatchTypeOK' /\ SuitesInv'
<1>0. watcher \in WatcherState
  BY WatchTypes
<1>1. UNCHANGED <<clock, checking, reports, latest, rows, written, overwritten>>
  BY DEF Stop, StartSleep, SleepEnds, Signal, Trap, KillWatcher, files, ghosts
<1>2. CASE Trap
  <2>1. /\ watcher.pc \notin {"off", "space"} /\ signal /\ signal' = FALSE /\ used' = used
        /\ sleeper' = (sleeper /\ watcher.pc # "nap")
    BY <1>2 DEF Trap
  <2>2. watcher' = [pc |-> IF watcher.pc = "wait" THEN "reaped" ELSE watcher.pc,
                    gen |-> watcher.gen, running |-> FALSE,
                    left |-> watcher.left, spare |-> watcher.spare,
                    last |-> watcher.last, trend |-> watcher.trend]
    BY <1>2, ShellFacts
  <2>3. watcher' \in WatcherState
    BY <1>0, <2>2, WatcherFields DEF WatcherPC
  <2>4. watcher.gen \in Gens /\ watcher.gen \in Suites /\ Gens \subseteq Suites /\ Hand \notin Gens
    BY <2>1, BoundsAreNumbers DEF SuitesInv, Suites
  <2>5. \/ watcher.pc = "wait" /\ Turns(watcher.gen, "killed", NONE, 0) /\ suite' \in [Suites -> SuiteState]
            /\ \A h \in Suites \ {watcher.gen} : suite'[h] = suite[h]
        \/ suite' = suite /\ (watcher.pc = "wait" => ~Alive(watcher.gen))
    <3>1. CASE watcher.pc = "wait" /\ Alive(watcher.gen)
      <4>1. suite' = [suite EXCEPT ![watcher.gen] = [IdleSuite EXCEPT !.pc = "killed", !.exit = 0]]
        BY <1>2, <3>1 DEF Trap, SuiteOver
      <4> QED BY <2>4, <3>1, <4>1, SuiteSetFacts
    <3>2. CASE ~(watcher.pc = "wait" /\ Alive(watcher.gen))
      BY <1>2, <3>2 DEF Trap
    <3> QED BY <3>1, <3>2
  <2>6. WatchTypeOK'
    BY <1>1, <2>1, <2>3, <2>5, WatchTypes, WatchTypesNext
  <2>7. /\ watcher'.pc = (IF watcher.pc = "wait" THEN "reaped" ELSE watcher.pc)
        /\ watcher'.gen = watcher.gen /\ watcher'.running = FALSE /\ watcher'.left = watcher.left
    BY <2>2
  <2>8. \A g \in Suites : Alive(g)' => Alive(g) /\ suite'[g] = suite[g]
    BY <2>5 DEF Alive, Turns
  <2>9. watcher'.pc \notin {"off", "spawned", "wait"} => \A g \in Gens : ~Alive(g)'
    <3>1. CASE watcher.pc = "wait"
      <4>1. \A g \in Gens : Alive(g) => g = watcher.gen
        BY DEF SuitesInv
      <4>2. \A g \in Gens : g = watcher.gen => ~Alive(g)'
        <5>1. suite'[watcher.gen].pc = "killed" \/ (suite' = suite /\ ~Alive(watcher.gen))
          BY <2>5, <3>1 DEF Turns
        <5> QED BY <5>1 DEF Alive
      <4> QED BY <2>4, <2>8, <4>1, <4>2
    <3>2. CASE watcher.pc # "wait"
      BY <2>4, <2>7, <2>8, <3>2 DEF SuitesInv
    <3> QED BY <3>1, <3>2
  <2>10. suite'[Hand].pc = suite[Hand].pc
    BY <2>4, <2>5 DEF Suites
  <2>11. /\ watcher.pc \in {"spawned", "trend"} => suite'[watcher.gen] = suite[watcher.gen]
         /\ watcher.pc = "wait" => suite[watcher.gen].pc # "none"
    BY <2>5 DEF SuitesInv
  <2>12. \A g \in Suites : suite'[g].pc \in Stamped => Alive(g)'
    BY DEF Alive, Stamped
  <2>13. \A g \in Suites : suite'[g].pc \in Stamped => suite'[g].stamp \in Stamps
    BY <2>8, <2>12 DEF SuitesInv
  <2>14. watcher'.pc # "off" /\ watcher'.gen \in Gens
    BY <2>1, <2>4, <2>7
  <2>15. \A g \in Gens : Alive(g)' \/ g \in checking' => g = watcher'.gen
    BY <1>1, <2>4, <2>7, <2>8 DEF SuitesInv
  <2>16. \A g \in Suites : Alive(g)' => suite'[g].exit # 3
    BY <2>8 DEF SuitesInv
  <2>17. watcher'.pc \in {"top", "dozing", "nap"} => watcher'.left > 0
    BY <2>7 DEF SuitesInv
  <2>18. used'.manual = 0 => suite'[Hand].pc = "none"
    BY <2>1, <2>10 DEF SuitesInv
  <2>19. signal' \/ ~watcher'.running => used'.signal > 0
    BY <2>1 DEF SuitesInv
  <2>20. watcher'.pc \in {"spawned", "wait"} => suite'[watcher'.gen].pc # "none" /\ suite'[watcher'.gen].pc # "killed"
    BY <2>7, <2>11 DEF SuitesInv
  <2>21. watcher'.pc = "trend" => suite'[watcher'.gen].pc = "done" /\ SuiteExit' # 3
    BY <2>7, <2>11 DEF SuitesInv, SuiteExit
  <2>22. SuitesInv'
    BY <2>7, <2>9, <2>13, <2>14, <2>15, <2>16, <2>17, <2>18, <2>19, <2>20, <2>21 DEF SuitesInv
  <2> QED BY <2>6, <2>22
<1>3. CASE Stop \/ StartSleep \/ SleepEnds \/ Signal \/ KillWatcher
  <2>1. suite' = suite /\ signal' \in BOOLEAN /\ sleeper' \in BOOLEAN
    BY <1>3, WatchTypes DEF Stop, StartSleep, SleepEnds, Signal, KillWatcher
  <2>2. used' \in [EventKinds -> 0..MaxEvents] /\ used'.manual = used.manual
        /\ used'.kill >= used.kill /\ used'.signal >= used.signal
    <3>1. CASE Signal
      BY <3>1, HappensFacts, EventsFacts DEF Signal, EventKinds
    <3>2. CASE KillWatcher
      BY <3>2, HappensFacts, EventsFacts DEF KillWatcher, EventKinds
    <3>3. CASE Stop \/ StartSleep \/ SleepEnds
      BY <3>3, WatchTypes, EventsFacts DEF Stop, StartSleep, SleepEnds
    <3> QED BY <1>3, <3>1, <3>2, <3>3
  <2>3. /\ watcher' = [pc |-> watcher'.pc, gen |-> watcher.gen, running |-> watcher.running,
                        left |-> watcher.left, spare |-> watcher.spare,
                        last |-> watcher.last, trend |-> watcher.trend]
        /\ \/ watcher.pc \in {"after", "top"} /\ watcher'.pc = "off"
           \/ watcher'.pc = "off" /\ KillWatcher
           \/ watcher.pc = "after" /\ watcher'.pc = "dozing" /\ watcher.left # 0
           \/ watcher'.pc = watcher.pc
    <3>1. CASE SleepEnds \/ Signal
      BY <1>0, <3>1, WatcherFields DEF SleepEnds, Signal
    <3>2. CASE Stop \/ StartSleep \/ KillWatcher
      BY <3>2, ShellFacts DEF Stop, StartSleep, KillWatcher, WatcherPC, LastCycle
    <3> QED BY <1>3, <3>1, <3>2
  <2>4. watcher' \in WatcherState
    BY <1>0, <2>3, WatcherFields DEF WatcherPC
  <2>5. WatchTypeOK'
    BY <1>1, <2>1, <2>2, <2>4, WatchTypes, WatchTypesNext
  <2>6. watcher'.gen = watcher.gen /\ watcher'.running = watcher.running /\ watcher'.left = watcher.left
    BY <2>3
  <2>7. \A g : Alive(g)' <=> Alive(g)
    BY <2>1 DEF Alive
  <2>8. KillWatcher => used'.kill > 0
    BY HappensFacts, EventsFacts DEF KillWatcher, EventKinds
  <2>9. signal' => signal \/ used'.signal > 0
    <3>1. Signal => used'.signal > 0
      BY HappensFacts, EventsFacts DEF Signal, EventKinds
    <3>2. ~Signal => (signal' => signal)
      BY <1>3 DEF Stop, StartSleep, SleepEnds, KillWatcher
    <3> QED BY <3>1, <3>2
  <2>10. /\ used.kill \in Nat /\ used'.kill \in Nat /\ used.signal \in Nat /\ used'.signal \in Nat
         /\ watcher.left \in Nat
    BY <1>0, <2>2, EventsFacts, WatcherFields, BoundsAreNumbers DEF EventKinds
  <2>11. watcher'.pc = "off" /\ (\E g \in Gens : Alive(g)) => used'.kill > 0
    BY <2>2, <2>3, <2>8, <2>10 DEF SuitesInv
  <2>12. watcher'.pc \in {"top", "dozing", "nap"} => watcher'.left > 0
    BY <2>3, <2>6, <2>10 DEF SuitesInv
  <2>13. signal' \/ ~watcher'.running => used'.signal > 0
    BY <2>2, <2>6, <2>9, <2>10 DEF SuitesInv
  <2>14. watcher'.pc # "off" => watcher.pc # "off"
    BY <2>3
  <2>15. watcher'.pc \in {"spawned", "wait", "reaped", "trend"} => watcher'.pc = watcher.pc
    BY <2>3
  <2>16. watcher'.pc \notin {"off", "spawned", "wait"} => \A g \in Gens : ~Alive(g)
    BY <2>3 DEF SuitesInv
  <2>17. SuiteExit' = SuiteExit
    BY <2>1, <2>6 DEF SuiteExit
  <2>18. SuitesInv'
    BY <1>1, <2>1, <2>2, <2>6, <2>7, <2>11, <2>12, <2>13, <2>14, <2>15, <2>16, <2>17 DEF SuitesInv
  <2> QED BY <2>5, <2>18
<1> QED BY <1>2, <1>3

(* Every step keeps types, and who may be alive.                             *)
LEMMA WatchStepInv ==
  ASSUME WatchTypeOK, SuitesInv, [WatchNext]_watchVars
  PROVE  WatchTypeOK' /\ SuitesInv'
<1>1. CASE UNCHANGED watchVars
  <2>1. UNCHANGED <<clock, watcher, signal, suite, checking, sleeper, reports, latest, rows, used, written, overwritten>>
    BY <1>1 DEF watchVars, files, ghosts
  <2>2. \A g : Alive(g)' <=> Alive(g)
    BY <2>1 DEF Alive
  <2>3. SuiteExit' = SuiteExit
    BY <2>1 DEF SuiteExit
  <2> QED BY <2>1, <2>2, <2>3, WatchTypes, WatchTypesNext DEF SuitesInv
<1>2. CASE \E g \in DOMAIN suite : SuiteStep(g)
  <2>1. DOMAIN suite = Suites
    BY WatchTypes
  <2> QED BY <1>2, <2>1, SuiteStepInv
<1>3. CASE NextCycle \/ NoteChild \/ Reap \/ PartialCycle \/ NoteSleep \/ WakeUp \/ AcceptStamp
  BY <1>3, ShellAlone
<1>4. CASE SkipCycle \/ RecordAbort \/ RecordCollision \/ RecordCycle \/ Compare \/ Prune \/ Space
  BY <1>4, RowStepInv
<1>5. CASE StartWatcher
  BY <1>5, StartWatcherInv
<1>6. CASE StartByHand \/ Spawn
  BY <1>6, BeginSuiteInv
<1>7. CASE Stop \/ StartSleep \/ SleepEnds \/ Signal \/ Trap \/ KillWatcher
  BY <1>7, SignalsInv
<1> QED BY <1>1, <1>2, <1>3, <1>4, <1>5, <1>6, <1>7 DEF WatchNext, WatcherStep, Idle

(* Types are kept; only the last watcher's suite and check are ever alive,   *)
(* and only while it waits for them or was killed.                           *)
THEOREM WatchTypeCorrect == WatchSpec => [](WatchTypeOK /\ SuitesInv)
<1>1. WatchInit => WatchTypeOK /\ SuitesInv
  BY WatchInitially
<1>2. (WatchTypeOK /\ SuitesInv) /\ [WatchNext]_watchVars => (WatchTypeOK /\ SuitesInv)'
  BY WatchStepInv
<1> QED BY <1>1, <1>2, PTL DEF WatchSpec

(* "one watcher, one run at a time", those a killed watcher left behind      *)
(* included: the lock they inherited keeps the next watcher out.             *)
THEOREM OneSuite == WatchSpec => []OneRunAtATime
<1>1. WatchTypeOK /\ SuitesInv => OneRunAtATime
  <2> SUFFICES ASSUME WatchTypeOK, SuitesInv PROVE OneRunAtATime
    OBVIOUS
  <2> DEFINE busy == {g \in Gens : Alive(g) \/ g \in checking}
  <2>1. busy \in SUBSET {watcher.gen}
    BY DEF SuitesInv
  <2>2. IsFiniteSet({watcher.gen}) /\ Cardinality({watcher.gen}) = 1
    BY FS_Singleton
  <2> HIDE DEF busy
  <2>3. Cardinality(busy) <= 1
    BY <2>1, <2>2, FS_Subset
  <2> QED BY <2>3 DEF OneRunAtATime, busy
<1> QED BY <1>1, WatchTypeCorrect, PTL

(* However a signal meets the watcher, the suite it started ends before it,  *)
(* or with it: a trap that comes before CHILD_PID=$! ends nothing, and the  *)
(* shell then waits for that suite.                                          *)
THEOREM NoSuiteIsLeft == WatchSpec => []SuiteEndsWithWatcher
<1>1. SuitesInv => SuiteEndsWithWatcher
  BY DEF SuitesInv, SuiteEndsWithWatcher
<1> QED BY <1>1, WatchTypeCorrect, PTL

-----------------------------------------------------------------------------
(* No regression goes unreported.                                            *)

(* The last cycle's suite has linked its report, and trend.py is to run; or  *)
(* it has run, and its row is to be recorded or was the last thing recorded. *)
Fresh ==
  /\ watcher.pc \in {"spawned", "wait", "reaped", "trend"}
  /\ suite[watcher.gen].pc = "done" /\ SuiteExit # 3
Linked ==
  /\ watcher.pc \in {"spawned", "wait", "reaped", "trend", "append", "prune"}
  /\ suite[watcher.gen].pc = "done" /\ SuiteExit # 3

(* The suite by hand has not linked a report, nor ended.                     *)
HandIsOut == used.manual = 0 \/ (used.manual = 1 /\ suite[Hand].pc # "done")

(* What is known of stamps, files and rows.                                  *)
FilesInv ==
  /\ \A t \in written : t <= clock
  /\ \A g \in Suites : suite[g].pc \in Stamped => suite[g].stamp <= clock
  /\ \A g \in Suites : suite[g].pc = "link" => suite[g].stamp \in written
  /\ \A g \in Gens : suite[g].pc = "link" => suite[g].stamp \in DOMAIN reports
  /\ DOMAIN reports \subseteq written
  /\ \A t \in written : \E s \in DOMAIN reports : t <= s
  /\ latest # NONE => latest \in written
  /\ HandIsOut /\ latest # NONE => latest \in DOMAIN reports
  /\ Linked => latest # NONE
  /\ watcher.pc \in {"append", "prune"} => Linked
  /\ \A i \in DOMAIN rows : rows[i].gen <= watcher.gen

(* As long as only watchers have linked a report, no report is later than    *)
(* latest.json, unless its suite is to link it or was stopped before.        *)
OrderInv ==
  HandIsOut =>
    /\ \A t \in written :
         \/ (latest # NONE /\ t <= latest)
         \/ (suite[Hand].pc = "link" /\ suite[Hand].stamp = t)
         \/ (~Linked /\ \A g \in Gens : suite[g].pc \in Stamped => t <= suite[g].stamp)
    /\ \A g \in Gens : suite[g].pc \in Stamped /\ latest # NONE => latest <= suite[g].stamp

(* The report a row is judged by is there as it was.                         *)
IsThere(b, result) == b \in DOMAIN reports /\ reports[b] = result

(* Report b is the one linked, or the suite by hand has linked another since *)
(* and that is the only one that can be later.                               *)
IsCurrent(b) ==
  \/ b = latest
  \/ (used.manual > 0 /\ suite[Hand].pc = "done" /\ \A t \in written : t <= b \/ t = latest)

CurrentInv ==
  /\ watcher.pc = "append" =>
       /\ watcher.trend.current \in written
       /\ used.manual <= 1 => IsCurrent(watcher.trend.current)
       /\ \/ IsThere(watcher.trend.current, watcher.trend.result)
          \/ (watcher.trend.current \in overwritten /\ Events > 0)
       /\ watcher.trend.regressions # {} => watcher.trend.exit = 1
  /\ watcher.pc = "prune" =>
       /\ Len(rows) > 0 /\ rows[Len(rows)].status \in Judged
       /\ used.manual <= 1 => IsCurrent(rows[Len(rows)].trend.current)

(* What the cycles to come compare is later than t, or t was written again.  *)
After(t) ==
  /\ \A g \in Gens :
       /\ suite[g].pc \in Stamped => t <= suite[g].stamp
       /\ suite[g].pc = "link" /\ suite[g].stamp = t => t \in overwritten
  /\ Fresh => t <= latest /\ (latest = t => t \in overwritten)

LastJudged(i) ==
  /\ i \in DOMAIN rows /\ rows[i].status \in Judged
  /\ \A m \in (i + 1)..Len(rows) : rows[m].status \notin Judged
CollisionSince(i) == \E m \in (i + 1)..Len(rows) : rows[m].status = "collision"

(* With nobody else about, the last report of a watcher is the one its last  *)
(* row was judged by, and the next row is not judged by the same again.      *)
LastInv ==
  Events = 0 =>
    /\ watcher.pc = "trend" => watcher.last = latest
    /\ watcher.pc = "append" => watcher.trend.current = watcher.last
    /\ \A i \in DOMAIN rows : LastJudged(i) /\ rows[i].gen = watcher.gen =>
         IF watcher.pc \in {"trend", "append"} THEN watcher.last # rows[i].trend.current
         ELSE watcher.last = rows[i].trend.current

(* The next cycle has written the same stamp, and it is not recorded yet.    *)
Repeated(b) ==
  /\ Events = 0 /\ b \in overwritten
  /\ \/ (suite[watcher.gen].pc = "link" /\ suite[watcher.gen].stamp = b)
     \/ (Fresh /\ latest = b)
     \/ (watcher.pc = "append" /\ watcher.trend.current = b)

(* Report b was pruned for a later one that is not b's successor.            *)
Outdated(b) ==
  /\ used.manual = 1 /\ suite[Hand].pc = "done"
  /\ \E t \in written : b < t /\ After(t)

(* The report of the last row that was judged is kept, or the row to come is *)
(* disturbed.                                                                *)
Base(i, b, result) ==
  /\ b \in written
  /\ used.manual = 0 => After(b)
  /\ used.manual <= 1 =>
       \/ IsThere(b, result)
       \/ b \in overwritten /\ (Events > 0 \/ CollisionSince(i))
       \/ Repeated(b)
       \/ Outdated(b)

Judges(i, b, result) ==
  LastJudged(i) /\ rows[i].trend.current = b /\ rows[i].trend.result = result

BaseInv ==
  \A i \in DOMAIN rows, b \in Stamps \cup {NONE}, result \in Report :
    Judges(i, b, result) => Base(i, b, result)

(* Disturbed, for a row that is to come.                                     *)
Hides(i, trend, gen) ==
  LET before == rows[i].trend.current after == trend.current IN
  \/ \E s \in written : before < s /\ s < after
  \/ ({before, after} \cap overwritten # {} /\ (Events > 0 \/ CollisionSince(i)))
  \/ (after <= before /\ (used.manual > 0 \/ rows[i].gen # gen))
  \/ used.manual > 1

(* What used to pass and does not any more is among the regressions.         *)
Reported(before, after) ==
  \A c \in DOMAIN before.result \cap DOMAIN after.result :
    before.result[c] = "PASS" /\ after.result[c] # "PASS" => c \in after.regressions

TrendInv ==
  watcher.pc = "append" =>
    \A i \in DOMAIN rows :
      LastJudged(i) /\ ~Hides(i, watcher.trend, watcher.gen) => Reported(rows[i].trend, watcher.trend)

(* What the history is known for.                                            *)
RegressionInv ==
  /\ FilesInv /\ OrderInv /\ CurrentInv /\ LastInv /\ BaseInv /\ TrendInv
  /\ RegressionIsRecorded

(* Most steps leave the files alone, and judge and record nothing: what they *)
(* do to the suites, the shell and the rows.                                 *)
SuitesMove ==
  /\ \A g \in Suites : suite'[g].pc \in Stamped =>
       \/ /\ suite[g].pc \in Stamped /\ suite'[g].stamp = suite[g].stamp
          /\ suite'[g].pc = "link" => suite[g].pc = "link"
       \/ suite'[g].pc # "link" /\ suite'[g].stamp = clock'
  /\ used'.manual = used.manual /\ suite[Hand].pc \in {"link", "done"} =>
       suite'[Hand].pc = suite[Hand].pc /\ suite'[Hand].stamp = suite[Hand].stamp

RowsMove ==
  \/ rows' = rows
  \/ /\ Len(rows') = Len(rows) + 1 /\ DOMAIN rows' = 1..Len(rows')
     /\ \A i \in DOMAIN rows : rows'[i] = rows[i]
     /\ rows'[Len(rows')].status \notin Judged /\ rows'[Len(rows')].gen = watcher.gen
     /\ watcher'.pc # "prune"

(* The row of a collision is added.                                          *)
Collision == Len(rows') = Len(rows) + 1 /\ rows'[Len(rows')].status = "collision"

(* What the shell does while nobody else is about.                           *)
ShellGoesOn ==
  \/ watcher'.gen = watcher.gen + 1 /\ watcher'.pc \notin {"trend", "append"}
  \/ /\ watcher'.gen = watcher.gen /\ watcher'.last = watcher.last
     /\ {watcher.pc, watcher'.pc} \cap {"trend", "append"} # {} => watcher'.pc = watcher.pc
  \/ /\ watcher'.gen = watcher.gen /\ watcher.pc = "reaped" /\ watcher'.pc = "trend"
     /\ watcher'.last = LatestStamp /\ (LatestStamp = NONE \/ LatestStamp # watcher.last)

ShellMoves ==
  /\ watcher.gen <= watcher'.gen
  /\ Fresh' => Fresh
  /\ Linked' => Linked
  /\ watcher'.pc \in {"append", "prune"} =>
       /\ watcher'.pc = watcher.pc /\ watcher'.trend = watcher.trend
       /\ watcher'.gen = watcher.gen /\ (Linked => Linked')
  /\ Events' = 0 =>
       /\ ShellGoesOn
       /\ \A b \in written : Repeated(b) => Repeated(b)' \/ Collision

QuietStep ==
  /\ UNCHANGED <<reports, latest, written, overwritten>>
  /\ clock <= clock' /\ used.manual <= used'.manual /\ Events <= Events'
  /\ SuitesMove /\ RowsMove /\ ShellMoves

(* Numbers, stamps and rows.                                                 *)
LEMMA HistoryTypes ==
  ASSUME WatchTypeOK
  PROVE  /\ clock \in Nat /\ written \subseteq Nat /\ overwritten \subseteq written /\ DOMAIN reports \subseteq Nat
         /\ used.manual \in Nat /\ Events \in Nat /\ (Events = 0 => used.manual = 0) /\ (used.manual > 0 => Events > 0)
         /\ watcher.gen \in Nat /\ NONE \notin Nat
         /\ rows \in Seq(Row) /\ Len(rows) \in Nat /\ DOMAIN rows = 1..Len(rows)
         /\ \A i \in DOMAIN rows : rows[i] \in Row /\ rows[i].gen \in Nat
         /\ Hand \in Suites /\ Gens \subseteq Suites /\ Hand \notin Gens
<1>1. /\ clock \in Stamps /\ written \subseteq Stamps /\ overwritten \subseteq written /\ watcher.gen \in 0..MaxStarts
      /\ rows \in Seq(Row)
  BY WatchTypes, WatcherFields
<1>2. /\ used.manual \in Nat /\ Events \in Nat /\ (Events = 0 => used.manual = 0)
  BY EventsFacts
<1>3. \A r \in Row : r.gen \in Nat
  BY BoundsAreNumbers DEF Row
<1>4. Len(rows) \in Nat /\ DOMAIN rows = 1..Len(rows) /\ \A i \in DOMAIN rows : rows[i] \in Row
  BY <1>1
<1>5. DOMAIN reports \subseteq Stamps
  BY ReportsFacts
<1>6. Hand \in Suites /\ Gens \subseteq Suites /\ Hand \notin Gens
  BY BoundsAreNumbers DEF Suites
<1>7. clock \in Nat /\ written \subseteq Nat /\ DOMAIN reports \subseteq Nat /\ watcher.gen \in Nat /\ NONE \notin Nat
  BY <1>1, <1>5, BoundsAreNumbers
<1>8. used.manual > 0 => Events > 0
  BY <1>2
<1> QED BY <1>1, <1>2, <1>3, <1>4, <1>6, <1>7, <1>8

(* The same of the next state.                                               *)
LEMMA HistoryTypesNext ==
  ASSUME WatchTypeOK'
  PROVE  /\ clock' \in Nat /\ written' \subseteq Nat /\ overwritten' \subseteq written'
         /\ used'.manual \in Nat /\ Events' \in Nat /\ (Events' = 0 => used'.manual = 0) /\ (used'.manual > 0 => Events' > 0)
         /\ watcher'.gen \in Nat
         /\ rows' \in Seq(Row) /\ Len(rows') \in Nat /\ DOMAIN rows' = 1..Len(rows')
<1>1. /\ clock' \in Stamps /\ written' \subseteq Stamps /\ overwritten' \subseteq written' /\ watcher'.gen \in 0..MaxStarts
      /\ rows' \in Seq(Row) /\ used' \in [EventKinds -> 0..MaxEvents]
  BY WatchTypesNext, WatcherFields
<1>2. /\ used'.manual \in Nat /\ used'.signal \in Nat /\ used'.kill \in Nat /\ used'.shortage \in Nat
  BY <1>1, BoundsAreNumbers DEF EventKinds
<1>3. Events' \in Nat /\ (Events' = 0 => used'.manual = 0) /\ (used'.manual > 0 => Events' > 0)
  <2>1. Events' = used'.manual + used'.signal + used'.kill + used'.shortage
    BY DEF Events
  <2>2. Events' \in Nat
    BY <1>2, <2>1
  <2>3. Events' = 0 => used'.manual = 0
    <3>1. \A a, b, c, d \in Nat : a + b + c + d = 0 => a = 0
      OBVIOUS
    <3>2. Events' = 0 => used'.manual + used'.signal + used'.kill + used'.shortage = 0
      BY <2>1, Zenon
    <3> QED BY <1>2, <3>1, <3>2, Zenon
  <2>4. used'.manual > 0 => Events' > 0
    BY <1>2, <2>2, <2>3
  <2> QED BY <2>2, <2>3, <2>4
<1>4. clock' \in Nat /\ written' \subseteq Nat /\ watcher'.gen \in Nat
  BY <1>1, BoundsAreNumbers
<1>5. Len(rows') \in Nat /\ DOMAIN rows' = 1..Len(rows')
  BY <1>1
<1> QED BY <1>1, <1>2, <1>3, <1>4, <1>5

(* Rows that are not judged do not make another row the last one judged.     *)
LEMMA RowsMoveFacts ==
  ASSUME WatchTypeOK, RowsMove
  PROVE  /\ DOMAIN rows \subseteq DOMAIN rows' /\ \A i \in DOMAIN rows : rows'[i] = rows[i]
         /\ \A i \in DOMAIN rows' \ DOMAIN rows : rows'[i].status \notin Judged /\ rows'[i].gen = watcher.gen
         /\ \A i : LastJudged(i)' => LastJudged(i)
         /\ \A i \in DOMAIN rows : CollisionSince(i) => CollisionSince(i)'
         /\ Collision => \A i \in DOMAIN rows : CollisionSince(i)'
<1>1. Len(rows) \in Nat /\ DOMAIN rows = 1..Len(rows)
  BY HistoryTypes
<1>2. CASE rows' = rows
  <2>1. ~Collision
    <3>1. Len(rows') = Len(rows)
      BY <1>2
    <3>2. Len(rows) \in Nat
      BY <1>1
    <3>3. Len(rows') # Len(rows) + 1
      BY <3>1, <3>2
    <3> QED BY <3>3 DEF Collision
  <2>2. \A i : (LastJudged(i)' <=> LastJudged(i)) /\ (CollisionSince(i)' <=> CollisionSince(i))
    BY <1>2 DEF LastJudged, CollisionSince
  <2> QED BY <1>2, <2>1, <2>2
<1>3. CASE rows' # rows
  <2>1. /\ Len(rows') = Len(rows) + 1 /\ DOMAIN rows' = 1..Len(rows')
        /\ \A i \in DOMAIN rows : rows'[i] = rows[i]
        /\ rows'[Len(rows')].status \notin Judged /\ rows'[Len(rows')].gen = watcher.gen
    BY <1>3 DEF RowsMove
  <2>2. DOMAIN rows \subseteq DOMAIN rows' /\ DOMAIN rows' \ DOMAIN rows = {Len(rows')}
    BY <1>1, <2>1
  <2>3. ASSUME NEW i, LastJudged(i)' PROVE LastJudged(i)
    <3>1. i \in 1..Len(rows') /\ rows'[i].status \in Judged
          /\ \A m \in (i + 1)..Len(rows') : rows'[m].status \notin Judged
      BY <2>1, <2>3 DEF LastJudged
    <3>2. i \in 1..Len(rows)
      BY <1>1, <2>1, <3>1
    <3>3. \A m \in (i + 1)..Len(rows) : m \in (i + 1)..Len(rows') /\ m \in DOMAIN rows
      BY <1>1, <2>1, <3>2
    <3> QED BY <1>1, <2>1, <3>1, <3>2, <3>3 DEF LastJudged
  <2>4. ASSUME NEW i \in DOMAIN rows, CollisionSince(i) PROVE CollisionSince(i)'
    <3>1. PICK m \in (i + 1)..Len(rows) : rows[m].status = "collision"
      BY <2>4 DEF CollisionSince
    <3>2. m \in (i + 1)..Len(rows') /\ m \in DOMAIN rows
      BY <1>1, <2>1, <2>4
    <3> QED BY <2>1, <3>1, <3>2 DEF CollisionSince
  <2>5. Collision => \A i \in DOMAIN rows : CollisionSince(i)'
    BY <1>1, <2>1 DEF CollisionSince, Collision
  <2> QED BY <2>1, <2>2, <2>3, <2>4, <2>5
<1> QED BY <1>2, <1>3

(* What may be compared with report t is still the later one.                *)
LEMMA QuietAfter ==
  ASSUME WatchTypeOK, WatchTypeOK', FilesInv, QuietStep, NEW t \in written, After(t)
  PROVE  After(t)'
<1>1. t \in Nat /\ clock \in Nat /\ clock' \in Nat /\ t <= clock /\ clock <= clock' /\ Gens \subseteq Suites
  BY HistoryTypes, HistoryTypesNext DEF FilesInv, QuietStep
<1>2. ASSUME NEW g \in Gens, suite'[g].pc \in Stamped
      PROVE  t <= suite'[g].stamp /\ (suite'[g].pc = "link" /\ suite'[g].stamp = t => t \in overwritten)
  <2>1. CASE suite[g].pc \in Stamped /\ suite'[g].stamp = suite[g].stamp /\ (suite'[g].pc = "link" => suite[g].pc = "link")
    BY <2>1 DEF After
  <2>2. CASE suite'[g].pc # "link" /\ suite'[g].stamp = clock'
    BY <1>1, <2>2
  <2> QED BY <1>1, <1>2, <2>1, <2>2 DEF QuietStep, SuitesMove
<1>3. Fresh' => t <= latest /\ (latest = t => t \in overwritten)
  BY DEF QuietStep, ShellMoves, After
<1>4. latest' = latest /\ overwritten' = overwritten
  BY DEF QuietStep
<1>5. \A g \in Gens : suite'[g].pc = "link" => suite'[g].pc \in Stamped
  BY DEF Stamped
<1> QED BY <1>2, <1>3, <1>4, <1>5 DEF After

(* The suite by hand is out for longer.                                      *)
LEMMA QuietHand ==
  ASSUME WatchTypeOK, WatchTypeOK', SuitesInv, QuietStep
  PROVE  /\ HandIsOut' => HandIsOut
         /\ used'.manual <= 1 /\ used.manual > 0 => used'.manual = used.manual
         /\ used'.manual <= 1 /\ suite[Hand].pc \in {"link", "done"} =>
              suite'[Hand].pc = suite[Hand].pc /\ suite'[Hand].stamp = suite[Hand].stamp
<1>1. used.manual \in Nat /\ used'.manual \in Nat /\ used.manual <= used'.manual
  BY HistoryTypes, HistoryTypesNext DEF QuietStep
<1>2. used.manual = 0 => suite[Hand].pc = "none"
  BY DEF SuitesInv
<1>3. used'.manual <= 1 /\ used.manual > 0 => used'.manual = used.manual
  BY <1>1
<1>4. used'.manual <= 1 /\ suite[Hand].pc \in {"link", "done"} =>
        suite'[Hand].pc = suite[Hand].pc /\ suite'[Hand].stamp = suite[Hand].stamp
  <2>1. suite[Hand].pc \in {"link", "done"} => used.manual > 0
    BY <1>1, <1>2
  <2> QED BY <1>3, <2>1 DEF QuietStep, SuitesMove
<1>5. HandIsOut' => HandIsOut
  <2>1. HandIsOut' => used'.manual <= 1
    BY <1>1 DEF HandIsOut
  <2>2. used'.manual = 0 => used.manual = 0
    BY <1>1
  <2>3. used'.manual = 1 => used.manual = 0 \/ used.manual = 1
    BY <1>1
  <2> QED BY <1>4, <2>1, <2>2, <2>3 DEF HandIsOut
<1> QED BY <1>3, <1>4, <1>5

(* A quiet step keeps what is known of stamps and files.                     *)
LEMMA QuietFiles ==
  ASSUME WatchTypeOK, WatchTypeOK', SuitesInv, FilesInv, QuietStep
  PROVE  FilesInv'
<1>1. UNCHANGED <<reports, latest, written, overwritten>> /\ Gens \subseteq Suites
  BY HistoryTypes DEF QuietStep
<1>2. \A t \in written : t <= clock'
  <2>1. clock \in Nat /\ clock' \in Nat /\ clock <= clock' /\ written \subseteq Nat
    BY HistoryTypes, HistoryTypesNext DEF QuietStep
  <2> QED BY <2>1 DEF FilesInv
<1>3. ASSUME NEW g \in Suites, suite'[g].pc \in Stamped PROVE suite'[g].stamp <= clock'
  <2>1. CASE suite[g].pc \in Stamped /\ suite'[g].stamp = suite[g].stamp
    <3>1. suite[g].stamp \in Nat /\ suite[g].stamp <= clock
      BY <2>1, BoundsAreNumbers DEF SuitesInv, FilesInv
    <3> QED BY <2>1, <3>1, HistoryTypes, HistoryTypesNext DEF QuietStep
  <2>2. CASE suite'[g].stamp = clock'
    BY <2>2, HistoryTypesNext
  <2> QED BY <1>3, <2>1, <2>2 DEF QuietStep, SuitesMove
<1>4. ASSUME NEW g \in Suites, suite'[g].pc = "link" PROVE suite[g].pc = "link" /\ suite'[g].stamp = suite[g].stamp
  BY <1>4 DEF QuietStep, SuitesMove, Stamped
<1>5. HandIsOut' => HandIsOut
  BY QuietHand
<1>6. /\ Linked' => Linked
      /\ watcher'.pc \in {"append", "prune"} => watcher'.pc = watcher.pc /\ (Linked => Linked')
  BY DEF QuietStep, ShellMoves
<1>7. ASSUME NEW i \in DOMAIN rows' PROVE rows'[i].gen <= watcher'.gen
  <2>1. watcher.gen \in Nat /\ watcher'.gen \in Nat /\ watcher.gen <= watcher'.gen
    BY HistoryTypes, HistoryTypesNext DEF QuietStep, ShellMoves
  <2>2. CASE i \in DOMAIN rows
    <3>1. rows'[i] = rows[i]
      BY <2>2, RowsMoveFacts DEF QuietStep
    <3>2. rows[i].gen \in Nat /\ rows[i].gen <= watcher.gen
      BY <2>2, HistoryTypes DEF FilesInv
    <3> QED BY <2>1, <3>1, <3>2
  <2>3. CASE i \notin DOMAIN rows
    <3>1. rows'[i].gen = watcher.gen
      BY <1>7, <2>3, RowsMoveFacts DEF QuietStep
    <3> QED BY <2>1, <3>1
  <2> QED BY <2>2, <2>3
<1> QED BY <1>1, <1>2, <1>3, <1>4, <1>5, <1>6, <1>7 DEF FilesInv

(* A quiet step keeps the order of the reports.                              *)
LEMMA QuietOrder ==
  ASSUME WatchTypeOK, WatchTypeOK', SuitesInv, FilesInv, OrderInv, QuietStep
  PROVE  OrderInv'
<1> SUFFICES ASSUME HandIsOut' PROVE OrderInv'
  BY DEF OrderInv
<1>1. HandIsOut /\ used'.manual <= 1
  <2>1. HandIsOut' => used'.manual <= 1
    BY HistoryTypesNext DEF HandIsOut
  <2> QED BY <2>1, QuietHand
<1>2. /\ latest' = latest /\ written' = written /\ Gens \subseteq Suites
      /\ clock \in Nat /\ clock' \in Nat /\ clock <= clock' /\ written \subseteq Nat
  BY HistoryTypes, HistoryTypesNext DEF QuietStep
<1>3. \A t \in written : t <= clock /\ t <= clock'
  BY <1>2 DEF FilesInv
<1>4. ASSUME NEW g \in Gens, suite'[g].pc \in Stamped
      PROVE  (suite[g].pc \in Stamped /\ suite'[g].stamp = suite[g].stamp) \/ suite'[g].stamp = clock'
  BY <1>2, <1>4 DEF QuietStep, SuitesMove
<1>5. ASSUME NEW t \in written
      PROVE  \/ (latest # NONE /\ t <= latest)
             \/ (suite'[Hand].pc = "link" /\ suite'[Hand].stamp = t)
             \/ (~Linked' /\ \A g \in Gens : suite'[g].pc \in Stamped => t <= suite'[g].stamp)
  <2>1. CASE suite[Hand].pc = "link" /\ suite[Hand].stamp = t
    BY <1>1, <2>1, QuietHand
  <2>2. CASE ~Linked /\ \A g \in Gens : suite[g].pc \in Stamped => t <= suite[g].stamp
    BY <1>3, <1>4, <2>2 DEF QuietStep, ShellMoves
  <2> QED BY <1>1, <2>1, <2>2 DEF OrderInv
<1>6. ASSUME NEW g \in Gens, suite'[g].pc \in Stamped, latest # NONE PROVE latest <= suite'[g].stamp
  <2>1. latest <= clock'
    BY <1>3, <1>6 DEF FilesInv
  <2> QED BY <1>1, <1>4, <1>6, <2>1 DEF OrderInv
<1> QED BY <1>2, <1>5, <1>6 DEF OrderInv

(* A quiet step keeps what the shell is about to record or to prune.         *)
LEMMA QuietCurrent ==
  ASSUME WatchTypeOK, WatchTypeOK', SuitesInv, CurrentInv, QuietStep
  PROVE  CurrentInv'
<1>1. UNCHANGED <<reports, latest, written, overwritten>>
  BY DEF QuietStep
<1>2. /\ Events > 0 => Events' > 0
      /\ used'.manual <= 1 => used.manual <= 1
      /\ used'.manual <= 1 /\ used.manual > 0 => used'.manual > 0
  <2>1. used'.manual <= 1 /\ used.manual > 0 => used'.manual > 0
    BY HistoryTypes, QuietHand
  <2> QED BY <2>1, HistoryTypes, HistoryTypesNext DEF QuietStep
<1>3. used'.manual <= 1 /\ suite[Hand].pc = "done" => suite'[Hand].pc = "done"
  BY QuietHand
<1>4. watcher'.pc \in {"append", "prune"} => watcher'.pc = watcher.pc /\ watcher'.trend = watcher.trend
  BY DEF QuietStep, ShellMoves
<1>5. CASE watcher'.pc = "append"
  <2>1. watcher.pc = "append" /\ watcher'.trend = watcher.trend
    BY <1>4, <1>5
  <2> QED BY <1>1, <1>2, <1>3, <1>5, <2>1 DEF CurrentInv, IsCurrent, IsThere
<1>6. CASE watcher'.pc = "prune"
  <2>1. watcher.pc = "prune"
    BY <1>4, <1>6
  <2>2. rows' = rows
    BY <1>6 DEF QuietStep, RowsMove
  <2> QED BY <1>1, <1>2, <1>3, <1>6, <2>1, <2>2 DEF CurrentInv, IsCurrent
<1> QED BY <1>5, <1>6 DEF CurrentInv

(* A quiet step keeps LAST_STAMP and the row it goes with.                   *)
LEMMA QuietLast ==
  ASSUME WatchTypeOK, WatchTypeOK', SuitesInv, SuitesInv', FilesInv, LastInv, QuietStep
  PROVE  LastInv'
<1> SUFFICES ASSUME Events' = 0 PROVE LastInv'
  BY DEF LastInv
<1>1. Events = 0 /\ used.manual = 0 /\ latest' = latest
  <2>1. Events \in Nat /\ Events <= 0
    BY HistoryTypes DEF QuietStep
  <2>2. Events = 0
    BY <2>1
  <2> QED BY <2>2, HistoryTypes DEF QuietStep
<1>2. ASSUME NEW i, LastJudged(i)'
      PROVE  i \in DOMAIN rows /\ LastJudged(i) /\ rows'[i] = rows[i] /\ rows[i].gen <= watcher.gen
             /\ rows[i].gen \in Nat
  <2>1. LastJudged(i) /\ i \in DOMAIN rows
    BY <1>2, RowsMoveFacts DEF QuietStep, LastJudged
  <2> QED BY <2>1, RowsMoveFacts, HistoryTypes DEF QuietStep, FilesInv
<1>3. watcher.gen \in Nat
  BY HistoryTypes
<1>4. CASE watcher'.gen = watcher.gen + 1 /\ watcher'.pc \notin {"trend", "append"}
  <2>1. \A i : LastJudged(i)' => rows'[i].gen # watcher'.gen
    BY <1>2, <1>3, <1>4
  <2> QED BY <1>4, <2>1 DEF LastInv
<1>5. CASE /\ watcher'.gen = watcher.gen /\ watcher'.last = watcher.last
           /\ {watcher.pc, watcher'.pc} \cap {"trend", "append"} # {} => watcher'.pc = watcher.pc
  <2>1. /\ watcher'.pc = "trend" => watcher'.last = latest'
        /\ watcher.pc \in {"trend", "append"} <=> watcher'.pc \in {"trend", "append"}
    BY <1>1, <1>5 DEF LastInv
  <2>2. watcher'.pc = "append" => watcher'.trend.current = watcher'.last
    BY <1>1, <1>5 DEF LastInv, QuietStep, ShellMoves
  <2>3. ASSUME NEW i, LastJudged(i)', rows'[i].gen = watcher'.gen
        PROVE  IF watcher'.pc \in {"trend", "append"} THEN watcher'.last # rows'[i].trend.current
               ELSE watcher'.last = rows'[i].trend.current
    BY <1>1, <1>2, <1>5, <2>1, <2>3 DEF LastInv
  <2> QED BY <2>1, <2>2, <2>3 DEF LastInv
<1>6. CASE /\ watcher'.gen = watcher.gen /\ watcher.pc = "reaped" /\ watcher'.pc = "trend"
           /\ watcher'.last = LatestStamp /\ (LatestStamp = NONE \/ LatestStamp # watcher.last)
  <2>1. Linked
    <3>1. Fresh'
      BY <1>6 DEF SuitesInv, Fresh
    <3> QED BY <3>1 DEF QuietStep, ShellMoves, Fresh, Linked
  <2>2. LatestStamp = latest /\ latest # NONE
    BY <1>1, <2>1 DEF FilesInv, HandIsOut, LatestStamp
  <2>3. ASSUME NEW i, LastJudged(i)', rows'[i].gen = watcher'.gen
        PROVE  watcher'.last # rows'[i].trend.current
    BY <1>1, <1>2, <1>6, <2>2, <2>3 DEF LastInv
  <2> QED BY <1>1, <1>6, <2>2, <2>3 DEF LastInv
<1> QED BY <1>4, <1>5, <1>6 DEF QuietStep, ShellMoves, ShellGoesOn

(* A quiet step keeps the report of the last row.                            *)
LEMMA QuietBase ==
  ASSUME WatchTypeOK, WatchTypeOK', SuitesInv, FilesInv, BaseInv, QuietStep
  PROVE  BaseInv'
<1> SUFFICES ASSUME NEW i \in DOMAIN rows', NEW b \in Stamps \cup {NONE}, NEW result \in Report,
                    Judges(i, b, result)'
             PROVE  Base(i, b, result)'
  BY DEF BaseInv
<1>1. i \in DOMAIN rows /\ Judges(i, b, result)
  <2>1. LastJudged(i)
    BY RowsMoveFacts DEF QuietStep, Judges
  <2>2. i \in DOMAIN rows
    BY <2>1 DEF LastJudged
  <2>3. rows'[i] = rows[i]
    BY <2>2, RowsMoveFacts DEF QuietStep
  <2> QED BY <2>1, <2>2, <2>3 DEF Judges
<1>2. Base(i, b, result)
  BY <1>1 DEF BaseInv
<1>3. UNCHANGED <<reports, latest, written, overwritten>>
  BY DEF QuietStep
<1>4. /\ used.manual \in Nat /\ used'.manual \in Nat /\ used.manual <= used'.manual
      /\ Events \in Nat /\ Events' \in Nat /\ Events <= Events' /\ (used'.manual > 0 => Events' > 0)
  BY HistoryTypes, HistoryTypesNext DEF QuietStep
<1>5. b \in written /\ (used'.manual = 0 => After(b)')
  <2>1. used'.manual = 0 => used.manual = 0
    BY <1>4
  <2> QED BY <1>2, <2>1, QuietAfter DEF Base
<1>6. CASE IsThere(b, result)
  <2>1. IsThere(b, result)'
    BY <1>3, <1>6 DEF IsThere
  <2> QED BY <1>3, <1>5, <2>1 DEF Base
<1>7. CASE b \in overwritten /\ (Events > 0 \/ CollisionSince(i))
  <2>1. Events' > 0 \/ CollisionSince(i)'
    BY <1>1, <1>4, <1>7, RowsMoveFacts DEF QuietStep
  <2> QED BY <1>3, <1>5, <1>7, <2>1 DEF Base
<1>8. CASE Repeated(b)
  <2>1. b \in overwritten
    BY <1>8 DEF Repeated
  <2>2. Events' > 0 \/ CollisionSince(i)' \/ Repeated(b)'
    <3>1. CASE Events' > 0
      BY <3>1
    <3>2. CASE Events' = 0
      <4>1. Repeated(b)' \/ Collision
        BY <1>5, <1>8, <3>2 DEF QuietStep, ShellMoves
      <4> QED BY <1>1, <4>1, RowsMoveFacts DEF QuietStep
    <3> QED BY <1>4, <3>1, <3>2
  <2> QED BY <1>3, <1>5, <2>1, <2>2 DEF Base
<1>9. CASE Outdated(b)
  <2>1. used'.manual <= 1 => Outdated(b)'
    <3> SUFFICES ASSUME used'.manual <= 1 PROVE Outdated(b)'
      OBVIOUS
    <3>1. used.manual = 1 /\ used'.manual = 1 /\ suite'[Hand].pc = "done"
      BY <1>4, <1>9, QuietHand DEF Outdated
    <3>2. PICK t \in written : b < t /\ After(t)
      BY <1>9 DEF Outdated
    <3>3. After(t)'
      BY <3>2, QuietAfter
    <3> QED BY <1>3, <3>1, <3>2, <3>3 DEF Outdated
  <2> QED BY <1>3, <1>5, <2>1 DEF Base
<1>10. CASE used.manual > 1
  <2>1. ~(used'.manual <= 1)
    BY <1>4, <1>10
  <2> QED BY <1>3, <1>5, <2>1 DEF Base
<1>11. used.manual <= 1 \/ used.manual > 1
  BY <1>4
<1> QED BY <1>2, <1>6, <1>7, <1>8, <1>9, <1>10, <1>11 DEF Base

(* A quiet step keeps what trend.py has found.                               *)
LEMMA QuietTrend ==
  ASSUME WatchTypeOK, WatchTypeOK', TrendInv, QuietStep
  PROVE  TrendInv'
<1> SUFFICES ASSUME watcher'.pc = "append", NEW i \in DOMAIN rows', LastJudged(i)',
                    ~Hides(i, watcher.trend, watcher.gen)'
             PROVE  Reported(rows'[i].trend, watcher'.trend)
  BY DEF TrendInv, Reported
<1>1. /\ i \in DOMAIN rows /\ LastJudged(i) /\ rows'[i] = rows[i]
      /\ CollisionSince(i) => CollisionSince(i)'
  <2>1. LastJudged(i)
    BY RowsMoveFacts DEF QuietStep
  <2>2. i \in DOMAIN rows
    BY <2>1 DEF LastJudged
  <2> QED BY <2>1, <2>2, RowsMoveFacts DEF QuietStep
<1>2. watcher.pc = "append" /\ watcher'.trend = watcher.trend /\ watcher'.gen = watcher.gen
  BY DEF QuietStep, ShellMoves
<1>3. /\ written' = written /\ overwritten' = overwritten
      /\ Events > 0 => Events' > 0
      /\ used.manual > 0 => used'.manual > 0
      /\ used.manual > 1 => used'.manual > 1
  BY HistoryTypes, HistoryTypesNext DEF QuietStep
<1>4. ~Hides(i, watcher.trend, watcher.gen)
  BY <1>1, <1>2, <1>3 DEF Hides
<1> QED BY <1>1, <1>2, <1>4 DEF TrendInv

(* What hid a regression from a row goes on to hide it.                      *)
LEMMA DisturbedForGood ==
  ASSUME WatchTypeOK, WatchTypeOK', NEW i \in DOMAIN rows, NEW j \in DOMAIN rows,
         \A k \in DOMAIN rows : rows'[k] = rows[k],
         written \subseteq written', overwritten \subseteq overwritten',
         used.manual <= used'.manual, Events <= Events',
         Disturbed(i, j)
  PROVE  Disturbed(i, j)'
<1>1. rows'[i] = rows[i] /\ rows'[j] = rows[j]
  OBVIOUS
<1>2. /\ Events > 0 => Events' > 0
      /\ used.manual > 0 => used'.manual > 0
      /\ used.manual > 1 => used'.manual > 1
  BY HistoryTypes, HistoryTypesNext
<1>3. \A m \in (i + 1)..(j - 1) : rows'[m] = rows[m]
  <2>1. Len(rows) \in Nat /\ DOMAIN rows = 1..Len(rows)
    BY HistoryTypes
  <2>2. \A m \in (i + 1)..(j - 1) : m \in DOMAIN rows
    BY <2>1
  <2> QED BY <2>2
<1> QED BY <1>1, <1>2, <1>3 DEF Disturbed

(* The rows that were there stay as reported as they were.                   *)
LEMMA RecordedRowsStay ==
  ASSUME WatchTypeOK, WatchTypeOK', RegressionIsRecorded,
         DOMAIN rows \subseteq DOMAIN rows', \A k \in DOMAIN rows : rows'[k] = rows[k],
         written \subseteq written', overwritten \subseteq overwritten',
         used.manual <= used'.manual, Events <= Events',
         NEW i \in DOMAIN rows, NEW j \in DOMAIN rows, i \in 1..(j - 1),
         rows'[i].status \in Judged, rows'[j].status \in Judged,
         \A m \in (i + 1)..(j - 1) : rows'[m].status \notin Judged,
         ~Disturbed(i, j)'
  PROVE  /\ Reported(rows'[i].trend, rows'[j].trend)
         /\ \A c \in DOMAIN rows'[i].trend.result \cap DOMAIN rows'[j].trend.result :
              rows'[i].trend.result[c] = "PASS" /\ rows'[j].trend.result[c] # "PASS" =>
                rows'[j].status = "regression"
<1>1. rows'[i] = rows[i] /\ rows'[j] = rows[j]
  OBVIOUS
<1>2. Len(rows) \in Nat /\ DOMAIN rows = 1..Len(rows)
  BY HistoryTypes
<1>3. \A m \in (i + 1)..(j - 1) : m \in DOMAIN rows
  BY <1>2
<1>4. \A m \in (i + 1)..(j - 1) : rows[m].status \notin Judged
  BY <1>3
<1>5. ~Disturbed(i, j)
  BY DisturbedForGood
<1>6. j \in 1..Len(rows)
  BY <1>2
<1> QED BY <1>1, <1>4, <1>5, <1>6 DEF RegressionIsRecorded, Reported

(* A row that is not judged leaves the history as it is.                     *)
LEMMA RecordedWithoutRow ==
  ASSUME WatchTypeOK, WatchTypeOK', RegressionIsRecorded,
         DOMAIN rows \subseteq DOMAIN rows', \A k \in DOMAIN rows : rows'[k] = rows[k],
         \A k \in DOMAIN rows' \ DOMAIN rows : rows'[k].status \notin Judged,
         written \subseteq written', overwritten \subseteq overwritten',
         used.manual <= used'.manual, Events <= Events'
  PROVE  RegressionIsRecorded'
<1> SUFFICES ASSUME NEW j \in 1..Len(rows'), NEW i \in 1..(j - 1),
                    rows'[i].status \in Judged, rows'[j].status \in Judged,
                    \A m \in (i + 1)..(j - 1) : rows'[m].status \notin Judged,
                    ~Disturbed(i, j)'
             PROVE  \A c \in DOMAIN rows'[i].trend.result \cap DOMAIN rows'[j].trend.result :
                      rows'[i].trend.result[c] = "PASS" /\ rows'[j].trend.result[c] # "PASS" =>
                        c \in rows'[j].trend.regressions /\ rows'[j].status = "regression"
  BY DEF RegressionIsRecorded
<1>1. Len(rows) \in Nat /\ DOMAIN rows = 1..Len(rows) /\ Len(rows') \in Nat /\ DOMAIN rows' = 1..Len(rows')
  BY HistoryTypes, HistoryTypesNext
<1>2. j \in DOMAIN rows' /\ i \in DOMAIN rows'
  BY <1>1
<1>3. j \in DOMAIN rows /\ i \in DOMAIN rows
  BY <1>2
<1> QED BY <1>3, RecordedRowsStay DEF Reported

(* The steps that leave the files alone, and judge and record nothing.       *)
LEMMA QuietKeeps ==
  ASSUME WatchTypeOK, WatchTypeOK', SuitesInv, SuitesInv', RegressionInv, QuietStep
  PROVE  RegressionInv'
<1>1. FilesInv' /\ OrderInv' /\ CurrentInv' /\ LastInv' /\ BaseInv' /\ TrendInv'
  BY QuietFiles, QuietOrder, QuietCurrent, QuietLast, QuietBase, QuietTrend DEF RegressionInv
<1>2. /\ DOMAIN rows \subseteq DOMAIN rows' /\ \A k \in DOMAIN rows : rows'[k] = rows[k]
      /\ \A k \in DOMAIN rows' \ DOMAIN rows : rows'[k].status \notin Judged
  BY RowsMoveFacts DEF QuietStep
<1>3. RegressionIsRecorded'
  BY <1>2, RecordedWithoutRow DEF QuietStep, RegressionInv
<1> QED BY <1>1, <1>3 DEF RegressionInv

(* The watching shell is at one of its suites.                               *)
LEMMA WatcherIsAtSuite ==
  ASSUME WatchTypeOK, SuitesInv
  PROVE  /\ watcher.gen \in Suites
         /\ watcher.gen \notin Gens => suite[watcher.gen].pc = "none" \/ Events > 0
<1>1. watcher.gen \in 0..MaxStarts
  BY WatchTypes, WatcherFields
<1>2. watcher.gen \in Suites /\ (watcher.gen \notin Gens => watcher.gen = Hand)
  BY <1>1, BoundsAreNumbers DEF Suites, Hand, Gens
<1>3. Events = 0 => suite[Hand].pc = "none"
  BY HistoryTypes DEF SuitesInv
<1> QED BY <1>2, <1>3, HistoryTypes

(* The steps of the shell alone.                                             *)
ShellTurn(from, to) == watcher.pc = from /\ watcher'.pc = to

(* A step of the shell alone that judges and records nothing is quiet.       *)
LEMMA ShellQuiet ==
  ASSUME WatchTypeOK, WatchTypeOK', SuitesInv,
         UNCHANGED <<suite, reports, latest, rows, written, overwritten>>,
         clock <= clock', used'.manual = used.manual, Events <= Events',
         watcher'.gen = watcher.gen, watcher'.trend = watcher.trend,
         \/ /\ watcher'.last = watcher.last
            /\ \/ watcher'.pc = watcher.pc
               \/ ShellTurn("top", "cycle") \/ ShellTurn("spawned", "wait") \/ ShellTurn("wait", "reaped")
               \/ ShellTurn("dozing", "nap") \/ ShellTurn("nap", "top") \/ ShellTurn("after", "dozing")
               \/ ShellTurn("after", "off") \/ ShellTurn("top", "off") \/ ShellTurn("space", "after")
               \/ watcher'.pc \in {"off", "after"} /\ Events' > 0
         \/ /\ ShellTurn("reaped", "trend") /\ watcher'.last = LatestStamp
            /\ (LatestStamp = NONE \/ LatestStamp # watcher.last)
  PROVE  QuietStep
<1>1. SuitesMove
  BY DEF SuitesMove
<1>2. RowsMove
  BY DEF RowsMove
<1>3. SuiteExit' = SuiteExit
  BY DEF SuiteExit
<1>4. /\ Fresh' => Fresh
      /\ Linked' => Linked
  BY <1>3 DEF Fresh, Linked, ShellTurn
<1>5. watcher'.pc \in {"append", "prune"} => watcher'.pc = watcher.pc /\ (Linked => Linked')
  BY <1>3 DEF Linked, ShellTurn
<1>6. ASSUME Events' = 0
      PROVE  /\ ShellGoesOn
             /\ \A b \in written : Repeated(b) => Repeated(b)' \/ Collision
  <2>1. ShellGoesOn
    BY <1>6 DEF ShellGoesOn, ShellTurn
  <2>2. Fresh => Fresh'
    BY <1>3, <1>6 DEF Fresh, ShellTurn
  <2>3. watcher.pc = "append" => watcher'.pc = "append"
    BY <1>6 DEF ShellTurn
  <2>4. \A b : Repeated(b) => Repeated(b)'
    BY <1>6, <2>2, <2>3 DEF Repeated
  <2> QED BY <2>1, <2>4
<1>7. ShellMoves
  <2>1. watcher.gen <= watcher'.gen
    BY HistoryTypes
  <2> QED BY <1>4, <1>5, <1>6, <2>1 DEF ShellMoves
<1>8. used.manual <= used'.manual
  BY HistoryTypes
<1> QED BY <1>1, <1>2, <1>7, <1>8 DEF QuietStep

(* The steps of the shell that judge and record nothing.                     *)
LEMMA ShellStepsAreQuiet ==
  ASSUME WatchTypeOK, WatchTypeOK', SuitesInv,
         \/ NextCycle \/ NoteChild \/ Reap \/ PartialCycle \/ NoteSleep \/ WakeUp \/ AcceptStamp
         \/ Space \/ StartSleep \/ SleepEnds \/ Stop \/ Signal \/ KillWatcher
  PROVE  QuietStep
<1>1. UNCHANGED <<suite, reports, latest, rows, written, overwritten>>
  BY DEF NextCycle, NoteChild, Reap, PartialCycle, NoteSleep, WakeUp, AcceptStamp,
         Space, StartSleep, SleepEnds, Stop, Signal, KillWatcher, OnlyWatcher, files, ghosts
<1>2. clock <= clock'
  <2>1. CASE Space
    BY <2>1, HistoryTypes, BoundsAreNumbers DEF Space
  <2>2. CASE ~Space
    <3>1. clock' = clock
      BY <2>2 DEF NextCycle, NoteChild, Reap, PartialCycle, NoteSleep, WakeUp, AcceptStamp,
         StartSleep, SleepEnds, Stop, Signal, KillWatcher, OnlyWatcher
    <3> QED BY <3>1, HistoryTypes
  <2> QED BY <2>1, <2>2
<1>3. used'.manual = used.manual /\ Events <= Events' /\ (KillWatcher => Events' > 0)
  <2>1. CASE Signal \/ KillWatcher
    BY <2>1, HappensFacts DEF Signal, KillWatcher, EventKinds
  <2>2. CASE ~(Signal \/ KillWatcher)
    <3>1. used' = used
      BY <2>2 DEF NextCycle, NoteChild, Reap, PartialCycle, NoteSleep, WakeUp, AcceptStamp,
         Space, StartSleep, SleepEnds, Stop, OnlyWatcher
    <3>2. Events' = Events
      BY <3>1 DEF Events
    <3> QED BY <2>2, <3>1, <3>2, HistoryTypes
  <2> QED BY <2>1, <2>2
<1>4. PartialCycle => Events' > 0
  <2>1. PartialCycle => used.signal > 0
    BY DEF PartialCycle, SuitesInv
  <2>2. used.signal > 0 => Events > 0
    BY EventsFacts
  <2>3. Events > 0 => Events' > 0
    BY <1>3, HistoryTypes, HistoryTypesNext
  <2> QED BY <2>1, <2>2, <2>3
<1>5. watcher'.gen = watcher.gen /\ watcher'.trend = watcher.trend
  <2>1. CASE SleepEnds \/ Signal
    BY <2>1 DEF SleepEnds, Signal
  <2>2. CASE ~(SleepEnds \/ Signal)
    BY <2>2, ShellFacts DEF NoteChild, Reap, PartialCycle, NoteSleep, WakeUp,
         Space, StartSleep, Stop, KillWatcher, WatcherPC
  <2> QED BY <2>1, <2>2
<1>6. \/ /\ watcher'.last = watcher.last
         /\ \/ watcher'.pc = watcher.pc
            \/ ShellTurn("top", "cycle") \/ ShellTurn("spawned", "wait") \/ ShellTurn("wait", "reaped")
            \/ ShellTurn("dozing", "nap") \/ ShellTurn("nap", "top") \/ ShellTurn("after", "dozing")
            \/ ShellTurn("after", "off") \/ ShellTurn("top", "off") \/ ShellTurn("space", "after")
            \/ watcher'.pc \in {"off", "after"} /\ Events' > 0
      \/ /\ ShellTurn("reaped", "trend") /\ watcher'.last = LatestStamp
         /\ (LatestStamp = NONE \/ LatestStamp # watcher.last)
  <2>1. CASE SleepEnds \/ Signal
    BY <2>1 DEF SleepEnds, Signal
  <2>2. CASE NextCycle
    BY <2>2, ShellFacts DEF NextCycle, ShellTurn
  <2>3. CASE AcceptStamp
    BY <2>3, ShellFacts DEF AcceptStamp, ShellTurn, Collided
  <2>4. CASE NoteChild \/ Reap \/ NoteSleep \/ WakeUp \/ Space \/ StartSleep \/ Stop
    BY <2>4, ShellFacts DEF NoteChild, Reap, NoteSleep, WakeUp, Space, StartSleep, Stop, WatcherPC, ShellTurn
  <2>5. CASE PartialCycle \/ KillWatcher
    BY <1>3, <1>4, <2>5, ShellFacts DEF PartialCycle, KillWatcher, WatcherPC
  <2> QED BY <2>1, <2>2, <2>3, <2>4, <2>5
<1> QED BY <1>1, <1>2, <1>3, <1>5, <1>6, ShellQuiet

(* A watcher is started when nothing of the one before is left.              *)
LEMMA StartWatcherIsQuiet ==
  ASSUME WatchTypeOK, WatchTypeOK', SuitesInv, StartWatcher
  PROVE  QuietStep
<1>1. /\ UNCHANGED <<clock, suite, reports, latest, rows, used, written, overwritten>>
      /\ watcher'.pc = "top" /\ watcher'.gen = watcher.gen + 1 /\ watcher.pc = "off"
      /\ \A g \in Gens : ~Alive(g)
  BY StartWatcherInv
<1>2. SuitesMove /\ RowsMove
  BY <1>1 DEF SuitesMove, RowsMove
<1>3. ~Fresh' /\ ~Linked'
  BY <1>1 DEF Fresh, Linked
<1>4. Events' = Events /\ clock \in Nat /\ used.manual \in Nat /\ Events \in Nat /\ watcher.gen \in Nat
  BY <1>1, HistoryTypes DEF Events
<1>5. \A b : Events' = 0 => ~Repeated(b)
  <2>1. suite[watcher.gen].pc = "link" => Events > 0
    BY <1>1, WatcherIsAtSuite DEF Alive
  <2> QED BY <1>1, <1>4, <2>1 DEF Repeated, Fresh
<1>6. ShellMoves
  <2>1. watcher.gen <= watcher'.gen
    BY <1>1, <1>4
  <2> QED BY <1>1, <1>3, <1>5, <2>1 DEF ShellMoves, ShellGoesOn
<1>7. clock <= clock' /\ used.manual <= used'.manual /\ Events <= Events'
  BY <1>1, <1>4
<1> QED BY <1>1, <1>2, <1>6, <1>7 DEF QuietStep

(* A suite refuses, takes its stamp, or ends its checks.                     *)
LEMMA SuiteStepsAreQuiet ==
  ASSUME WatchTypeOK, WatchTypeOK', SuitesInv, NEW g \in Suites, Refuse(g) \/ Stamp(g) \/ ChecksEnd(g)
  PROVE  QuietStep
<1>1. SuiteStep(g)
  BY DEF SuiteStep
<1>2. /\ UNCHANGED <<watcher, rows>> /\ used'.manual = used.manual
      /\ \A h \in Suites : ~Alive(h) => suite'[h] = suite[h]
  BY <1>1, SuiteStepGoes
<1>3. UNCHANGED <<reports, latest, written, overwritten>>
  BY DEF Refuse, Stamp, ChecksEnd, files, ghosts
<1>4. clock <= clock'
  <2>1. CASE Stamp(g)
    BY <2>1, HistoryTypes DEF Stamp
  <2>2. CASE ~Stamp(g)
    <3>1. clock' = clock
      BY <2>2 DEF Refuse, ChecksEnd
    <3> QED BY <3>1, HistoryTypes
  <2> QED BY <2>1, <2>2
<1>5. Events <= Events'
  <2>1. CASE Refuse(g)
    BY <2>1, HappensFacts DEF Refuse, EventKinds
  <2>2. CASE ~Refuse(g)
    <3>1. used' = used
      BY <2>2 DEF Stamp, ChecksEnd
    <3>2. Events' = Events
      BY <3>1 DEF Events
    <3> QED BY <3>2, HistoryTypes
  <2> QED BY <2>1, <2>2
<1>6. ASSUME NEW h \in Suites
      PROVE  \/ suite'[h] = suite[h]
             \/ suite[h].pc \notin {"link", "done"} /\ suite'[h].pc = "done" /\ suite'[h].exit = 3
             \/ suite[h].pc \notin {"link", "done"} /\ suite'[h].pc = "checks" /\ suite'[h].stamp = clock'
             \/ suite[h].pc = "checks" /\ suite'[h].pc = "write" /\ suite'[h].stamp = suite[h].stamp
  <2>1. CASE h # g
    BY <1>1, <2>1, SuiteStepFacts
  <2>2. CASE h = g /\ Refuse(g)
    BY <2>2, SuiteStepFacts DEF Refuse, Turns
  <2>3. CASE h = g /\ Stamp(g)
    BY <2>3, SuiteStepFacts DEF Stamp, Turns
  <2>4. CASE h = g /\ ChecksEnd(g)
    BY <2>4, SuiteStepFacts DEF Turns
  <2> QED BY <2>1, <2>2, <2>3, <2>4
<1>7. SuitesMove
  <2>1. Hand \in Suites
    BY HistoryTypes
  <2> QED BY <1>6, <2>1 DEF SuitesMove, Stamped
<1>8. watcher.gen \in Suites
  BY WatcherIsAtSuite
<1>9. /\ Fresh' <=> Fresh
      /\ Linked' <=> Linked
  BY <1>2, <1>6, <1>8 DEF Fresh, Linked, SuiteExit
<1>10. \A b : Events' = 0 => (Repeated(b) => Repeated(b)')
  BY <1>2, <1>3, <1>6, <1>8, <1>9 DEF Repeated
<1>11. ShellMoves
  <2>1. watcher.gen <= watcher'.gen
    BY <1>2, HistoryTypes
  <2> QED BY <1>2, <1>9, <1>10, <2>1 DEF ShellMoves, ShellGoesOn
<1>12. RowsMove /\ used.manual <= used'.manual
  BY <1>2, HistoryTypes DEF RowsMove
<1> QED BY <1>3, <1>4, <1>5, <1>7, <1>11, <1>12 DEF QuietStep

(* A cycle starts its suite.                                                 *)
LEMMA SpawnIsQuiet ==
  ASSUME WatchTypeOK, WatchTypeOK', SuitesInv, Spawn
  PROVE  QuietStep
<1>1. /\ UNCHANGED <<clock, reports, latest, rows, used, written, overwritten>>
      /\ watcher.gen \in Gens /\ watcher.pc = "cycle" /\ watcher'.pc = "spawned"
      /\ watcher'.gen = watcher.gen /\ watcher'.last = watcher.last
      /\ suite'[watcher.gen].pc = "guard"
      /\ \A h \in Suites \ {watcher.gen} : suite'[h] = suite[h]
  BY BeginSuiteInv DEF Turns
<1>2. watcher.gen \in Suites /\ Hand # watcher.gen /\ Hand \in Suites
  BY <1>1, HistoryTypes
<1>3. SuitesMove
  BY <1>1, <1>2 DEF SuitesMove, Stamped
<1>4. RowsMove
  BY <1>1 DEF RowsMove
<1>5. ~Fresh' /\ ~Linked'
  BY <1>1 DEF Fresh, Linked
<1>6. \A b : ~Repeated(b)
  <2>1. suite[watcher.gen].pc # "link"
    BY <1>1 DEF SuitesInv, Alive
  <2> QED BY <1>1, <2>1 DEF Repeated, Fresh
<1>7. ShellMoves
  <2>1. watcher.gen <= watcher'.gen
    BY <1>1, HistoryTypes
  <2> QED BY <1>1, <1>5, <1>6, <2>1 DEF ShellMoves, ShellGoesOn
<1>8. clock <= clock' /\ used.manual <= used'.manual /\ Events <= Events'
  <2>1. Events' = Events
    BY <1>1 DEF Events
  <2> QED BY <1>1, <2>1, HistoryTypes
<1> QED BY <1>1, <1>3, <1>4, <1>7, <1>8 DEF QuietStep

(* A suite is started by hand.                                               *)
LEMMA StartByHandIsQuiet ==
  ASSUME WatchTypeOK, WatchTypeOK', SuitesInv, StartByHand
  PROVE  QuietStep
<1>1. /\ UNCHANGED <<watcher, clock, reports, latest, rows, written, overwritten>>
      /\ used'.manual = used.manual + 1 /\ Events' = Events + 1
      /\ suite'[Hand].pc = "guard" /\ \A h \in Suites \ {Hand} : suite'[h] = suite[h]
  BY BeginSuiteInv DEF Turns
<1>2. /\ used.manual \in Nat /\ Events \in Nat /\ clock \in Nat /\ watcher.gen \in Nat
  BY HistoryTypes
<1>3. /\ clock <= clock' /\ used.manual <= used'.manual /\ Events <= Events' /\ watcher.gen <= watcher'.gen
      /\ Events' # 0 /\ used'.manual # used.manual
  BY <1>1, <1>2
<1>4. SuitesMove
  BY <1>1, <1>3 DEF SuitesMove, Stamped
<1>5. RowsMove
  BY <1>1 DEF RowsMove
<1>6. watcher.gen \in Suites /\ (watcher.pc # "off" => watcher.gen # Hand)
  BY WatcherIsAtSuite, HistoryTypes DEF SuitesInv
<1>7. /\ Fresh' <=> Fresh
      /\ Linked' <=> Linked
  BY <1>1, <1>6 DEF Fresh, Linked, SuiteExit
<1>8. ShellMoves
  BY <1>1, <1>3, <1>7 DEF ShellMoves
<1> QED BY <1>1, <1>3, <1>4, <1>5, <1>8 DEF QuietStep

(* A trap ends a suite that is waited for.                                   *)
LEMMA TrapIsQuiet ==
  ASSUME WatchTypeOK, WatchTypeOK', SuitesInv, Trap
  PROVE  QuietStep
<1>1. /\ UNCHANGED <<clock, reports, latest, rows, used, written, overwritten>>
      /\ signal /\ watcher.pc # "off"
  BY DEF Trap, files, ghosts
<1>2. watcher' = [pc |-> IF watcher.pc = "wait" THEN "reaped" ELSE watcher.pc,
                  gen |-> watcher.gen, running |-> FALSE,
                  left |-> watcher.left, spare |-> watcher.spare,
                  last |-> watcher.last, trend |-> watcher.trend]
  BY ShellFacts
<1>3. /\ watcher'.pc = (IF watcher.pc = "wait" THEN "reaped" ELSE watcher.pc)
      /\ watcher'.gen = watcher.gen /\ watcher'.trend = watcher.trend
  BY <1>2
<1>4. watcher.gen \in Gens /\ watcher.gen \in Suites /\ watcher.gen # Hand /\ Hand \in Suites
  BY <1>1, HistoryTypes DEF SuitesInv
<1>5. \/ suite' = suite
      \/ /\ watcher.pc = "wait" /\ suite'[watcher.gen].pc = "killed"
         /\ \A h \in Suites \ {watcher.gen} : suite'[h] = suite[h]
  <2>1. CASE watcher.pc = "wait" /\ Alive(watcher.gen)
    <3>1. suite' = [suite EXCEPT ![watcher.gen] = [IdleSuite EXCEPT !.pc = "killed", !.exit = 0]]
      BY <2>1 DEF Trap, SuiteOver
    <3> QED BY <1>4, <2>1, <3>1, SuiteSetFacts DEF Turns
  <2>2. CASE ~(watcher.pc = "wait" /\ Alive(watcher.gen))
    BY <2>2 DEF Trap
  <2> QED BY <2>1, <2>2
<1>6. SuitesMove
  BY <1>4, <1>5 DEF SuitesMove, Stamped
<1>7. Events' = Events /\ Events # 0
  <2>1. used.signal > 0
    BY <1>1 DEF SuitesInv
  <2> QED BY <1>1, <2>1, EventsFacts DEF Events
<1>8. /\ Fresh' => Fresh
      /\ Linked' => Linked
      /\ watcher'.pc \in {"append", "prune"} => (Linked => Linked')
  BY <1>3, <1>5 DEF Fresh, Linked, SuiteExit
<1>9. ShellMoves
  <2>1. watcher.gen <= watcher'.gen
    BY <1>3, HistoryTypes
  <2> QED BY <1>3, <1>7, <1>8, <2>1 DEF ShellMoves
<1>10. RowsMove /\ clock <= clock' /\ used.manual <= used'.manual /\ Events <= Events'
  BY <1>1, <1>7, HistoryTypes DEF RowsMove
<1> QED BY <1>1, <1>6, <1>9, <1>10 DEF QuietStep

(* A cycle is recorded as skipped, aborted or collided.                      *)
LEMMA UnjudgedIsQuiet ==
  ASSUME WatchTypeOK, WatchTypeOK', SuitesInv, SkipCycle \/ RecordAbort \/ RecordCollision
  PROVE  QuietStep
<1>1. UNCHANGED <<clock, suite, reports, latest, written, overwritten>>
  BY DEF SkipCycle, RecordAbort, RecordCollision, ghosts
<1>2. /\ watcher.pc \in {"cycle", "reaped"} /\ watcher.gen \in Gens /\ NoTrend \in Trend
      /\ watcher'.pc \in {"after", "space"} /\ watcher'.gen = watcher.gen /\ watcher'.last = watcher.last
  BY ShellFacts, NothingReported DEF SkipCycle, RecordAbort, RecordCollision, WatcherPC, SuitesInv
<1>3. PICK status \in {"skipped", "aborted", "collision"} :
        /\ Record(status, NoTrend)
        /\ SkipCycle \/ (RecordAbort /\ status = "aborted") \/ (RecordCollision /\ status = "collision")
  BY DEF SkipCycle, RecordAbort, RecordCollision
<1>4. /\ Len(rows') = Len(rows) + 1 /\ Len(rows) \in Nat /\ DOMAIN rows' = 1..Len(rows')
      /\ DOMAIN rows = 1..Len(rows)
      /\ \A i \in 1..Len(rows) : rows'[i] = rows[i]
      /\ rows'[Len(rows) + 1].status = status /\ rows'[Len(rows) + 1].gen = watcher.gen
  BY <1>2, <1>3, RecordFacts
<1>5. RowsMove
  BY <1>2, <1>4 DEF RowsMove, Judged
<1>6. SuitesMove
  BY <1>1 DEF SuitesMove
<1>7. /\ used'.manual = used.manual /\ Events <= Events' /\ (SkipCycle => Events' # 0)
  <2>1. CASE SkipCycle
    BY <2>1, HappensFacts DEF SkipCycle, EventKinds
  <2>2. CASE ~SkipCycle
    <3>1. used' = used
      BY <2>2 DEF RecordAbort, RecordCollision
    <3>2. Events' = Events
      BY <3>1 DEF Events
    <3> QED BY <2>2, <3>1, <3>2, HistoryTypes
  <2> QED BY <2>1, <2>2
<1>8. ~Fresh' /\ ~Linked'
  BY <1>2 DEF Fresh, Linked
<1>9. ASSUME NEW b, Events' = 0, Repeated(b) PROVE Collision
  <2>1. CASE RecordAbort
    BY <1>9, <2>1 DEF RecordAbort, Repeated, Fresh, SuitesInv
  <2>2. CASE status = "collision"
    BY <1>4, <2>2 DEF Collision
  <2> QED BY <1>3, <1>7, <1>9, <2>1, <2>2
<1>10. ShellMoves
  <2>1. watcher.gen <= watcher'.gen
    BY <1>2, HistoryTypes
  <2> QED BY <1>2, <1>8, <1>9, <2>1 DEF ShellMoves, ShellGoesOn
<1>11. clock <= clock' /\ used.manual <= used'.manual
  BY <1>1, <1>7, HistoryTypes
<1> QED BY <1>1, <1>5, <1>6, <1>7, <1>10, <1>11 DEF QuietStep

(* So is a step that changes nothing.                                        *)
LEMMA StutterIsQuiet ==
  ASSUME WatchTypeOK, UNCHANGED watchVars
  PROVE  QuietStep
<1>1. UNCHANGED <<clock, watcher, suite, reports, latest, rows, used, written, overwritten>>
  BY DEF watchVars, files, ghosts
<1>2. SuitesMove /\ RowsMove
  BY <1>1 DEF SuitesMove, RowsMove
<1>3. Events' = Events /\ SuiteExit' = SuiteExit
  BY <1>1 DEF Events, SuiteExit
<1>4. (Fresh' <=> Fresh) /\ (Linked' <=> Linked)
  BY <1>1, <1>3 DEF Fresh, Linked
<1>5. \A b : Repeated(b) => Repeated(b)'
  BY <1>1, <1>3, <1>4 DEF Repeated
<1>6. ShellMoves
  <2>1. watcher.gen <= watcher'.gen
    BY <1>1, HistoryTypes
  <2> QED BY <1>1, <1>4, <1>5, <2>1 DEF ShellMoves, ShellGoesOn
<1>7. clock <= clock' /\ used.manual <= used'.manual /\ Events <= Events'
  BY <1>1, <1>3, HistoryTypes
<1> QED BY <1>1, <1>2, <1>6, <1>7 DEF QuietStep

(* trend.py's category of a check that used to pass and does not any more.   *)
LEMMA RegressionsReport ==
  ASSUME NEW previous \in Report, NEW current \in Report,
         NEW c \in DOMAIN previous \cap DOMAIN current, previous[c] = "PASS", current[c] # "PASS"
  PROVE  c \in Regressions(previous, current)
<1>1. /\ \E S \in SUBSET Checks : previous \in [S -> Status]
      /\ \E S \in SUBSET Checks : current \in [S -> Status]
  BY DEF Report
<1>2. c \in Checks /\ previous[c] \in Status /\ current[c] \in Status
  BY <1>1
<1>3. NONE \notin Status
  BY NoneAssumption DEF NoneAssumption
<1>4. StatusIn(previous, c) = "PASS" /\ StatusIn(current, c) = current[c]
  BY DEF StatusIn
<1>5. "PASS" # NONE /\ current[c] # NONE
  BY <1>2, <1>3 DEF Status
<1>6. Category("PASS", current[c]) = "REGRESSION"
  BY <1>5 DEF Category
<1> QED BY <1>2, <1>4, <1>5, <1>6 DEF Regressions

(* trend.py is run on the report the last suite has linked.                  *)
LEMMA CompareFacts ==
  ASSUME WatchTypeOK, WatchTypeOK', SuitesInv, SuitesInv', FilesInv, Compare
  PROVE  /\ UNCHANGED <<clock, suite, reports, latest, rows, used, written, overwritten>>
         /\ watcher.pc = "trend" /\ watcher'.pc = "append"
         /\ watcher'.gen = watcher.gen /\ watcher'.last = watcher.last
         /\ Fresh /\ Linked /\ Linked' /\ ~Fresh' /\ latest # NONE /\ latest \in written
         /\ LET a == watcher'.trend.current IN
            /\ a \in DOMAIN reports /\ a \in written /\ watcher'.trend.result = reports[a]
            /\ watcher'.trend.regressions # {} => watcher'.trend.exit = 1
            /\ HandIsOut => a = latest
            /\ a = latest \/ (latest \notin DOMAIN reports /\ \A t \in DOMAIN reports : t <= a)
            /\ \A b \in DOMAIN reports :
                 b < a /\ (\A t \in DOMAIN reports : ~(b < t /\ t < a)) =>
                   watcher'.trend.regressions = Regressions(reports[b], reports[a])
<1>1. /\ UNCHANGED <<clock, suite, reports, latest, rows, used, written, overwritten>>
      /\ watcher.pc = "trend"
  BY DEF Compare, OnlyWatcher, files, ghosts
<1>2. /\ watcher'.pc = "append" /\ watcher'.gen = watcher.gen /\ watcher'.last = watcher.last
      /\ watcher'.trend = Comparison
  BY ShellFacts
<1>3. suite[watcher.gen].pc = "done" /\ SuiteExit # 3 /\ SuiteExit' = SuiteExit
  BY <1>1, <1>2 DEF SuitesInv, SuiteExit
<1>4. Fresh /\ Linked /\ Linked' /\ ~Fresh'
  BY <1>1, <1>2, <1>3 DEF Fresh, Linked
<1>5. latest # NONE /\ latest \in written
  BY <1>4 DEF FilesInv
<1>6. DOMAIN reports # {} /\ DOMAIN reports \subseteq written
  BY <1>5 DEF FilesInv
<1>7. \A t \in DOMAIN reports : t # NONE
  BY HistoryTypes
<1>8. (LatestStamp # NONE => latest \in DOMAIN reports) /\ (latest \in DOMAIN reports => LatestStamp # NONE)
  BY <1>7 DEF LatestStamp
<1>9. HandIsOut => latest \in DOMAIN reports
  BY <1>5 DEF FilesInv
<1> QED BY <1>1, <1>2, <1>4, <1>5, <1>6, <1>8, <1>9, ComparisonFacts

(* The comparison finds the regression, unless something hides it.           *)
LEMMA ComparisonReports ==
  ASSUME WatchTypeOK, WatchTypeOK', SuitesInv, SuitesInv', RegressionInv, Compare,
         NEW i \in DOMAIN rows, LastJudged(i), ~Hides(i, watcher.trend, watcher.gen)'
  PROVE  Reported(rows[i].trend, watcher'.trend)
<1> DEFINE b == rows[i].trend.current
           a == watcher'.trend.current
<1>1. /\ UNCHANGED <<clock, suite, reports, latest, rows, used, written, overwritten>>
      /\ watcher.pc = "trend" /\ watcher'.gen = watcher.gen
      /\ Fresh /\ latest # NONE /\ latest \in written
      /\ a \in DOMAIN reports /\ a \in written /\ watcher'.trend.result = reports[a]
      /\ HandIsOut => a = latest
      /\ a = latest \/ (latest \notin DOMAIN reports /\ \A t \in DOMAIN reports : t <= a)
      /\ b \in DOMAIN reports /\ b < a /\ (\A t \in DOMAIN reports : ~(b < t /\ t < a)) =>
           watcher'.trend.regressions = Regressions(reports[b], reports[a])
  BY CompareFacts DEF RegressionInv
<1>2. Events' = Events /\ (CollisionSince(i)' <=> CollisionSince(i))
  BY <1>1 DEF Events, CollisionSince
<1>3. /\ ~ \E s \in written : b < s /\ s < a
      /\ a \in overwritten \/ b \in overwritten => ~(Events > 0) /\ ~CollisionSince(i)
      /\ a <= b => ~(used.manual > 0) /\ rows[i].gen = watcher.gen
      /\ ~(used.manual > 1)
  BY <1>1, <1>2 DEF Hides
<1>4. /\ used.manual \in Nat /\ Events \in Nat /\ (Events = 0 => used.manual = 0) /\ (used.manual > 0 => Events > 0)
      /\ written \subseteq Nat /\ DOMAIN reports \subseteq written
  BY HistoryTypes DEF RegressionInv, FilesInv
<1>5. rows[i].trend.result \in Report /\ b \in Stamps \cup {NONE}
  <2>1. rows[i] \in Row
    BY HistoryTypes
  <2> QED BY <2>1 DEF Row, Trend
<1>6. Base(i, b, rows[i].trend.result)
  BY <1>5 DEF RegressionInv, BaseInv, Judges
<1>7. b \in Nat /\ a \in Nat /\ latest \in Nat /\ b \in written
  BY <1>1, <1>4, <1>6 DEF Base
<1>8. Events = 0 => a = latest /\ watcher.last = latest /\ (rows[i].gen = watcher.gen => watcher.last # b)
  <2>1. Events = 0 => HandIsOut
    BY <1>4 DEF HandIsOut
  <2> QED BY <1>1, <2>1 DEF RegressionInv, LastInv
<1>9. b < a
  <2> SUFFICES ASSUME a <= b PROVE FALSE
    BY <1>7
  <2>1. used.manual = 0 /\ rows[i].gen = watcher.gen
    BY <1>3, <1>4
  <2>2. a = latest /\ b <= latest /\ (latest = b => b \in overwritten)
    BY <1>1, <1>6, <2>1 DEF Base, After, HandIsOut
  <2>3. a = b /\ b \in overwritten
    BY <1>7, <2>2
  <2>4. Events = 0
    BY <1>3, <1>4, <2>3
  <2> QED BY <1>8, <2>1, <2>2, <2>3, <2>4
<1>10. IsThere(b, rows[i].trend.result)
  <2>1. used.manual <= 1
    BY <1>3, <1>4
  <2>2. CASE b \in overwritten /\ (Events > 0 \/ CollisionSince(i))
    BY <1>3, <2>2
  <2>3. CASE Repeated(b)
    <3>1. suite[watcher.gen].pc = "done"
      BY <1>1 DEF Fresh
    <3>2. Events = 0 /\ latest = b
      BY <1>1, <2>3, <3>1 DEF Repeated
    <3> QED BY <1>7, <1>8, <1>9, <3>2
  <2>4. CASE Outdated(b)
    <3>1. used.manual = 1 /\ suite[Hand].pc = "done"
      BY <2>4 DEF Outdated
    <3>2. PICK t \in written : b < t /\ After(t)
      BY <2>4 DEF Outdated
    <3>3. t <= latest /\ (latest = t => t \in overwritten)
      BY <1>1, <3>2 DEF After
    <3>4. t \in Nat /\ ~(t < a) /\ Events > 0
      BY <1>3, <1>4, <3>1, <3>2
    <3>5. CASE a = latest
      <4>1. t = a
        BY <1>7, <3>3, <3>4, <3>5
      <4> QED BY <1>3, <3>3, <3>4, <3>5, <4>1
    <3>6. CASE latest \notin DOMAIN reports /\ \A s \in DOMAIN reports : s <= a
      <4>1. PICK s \in DOMAIN reports : latest <= s
        BY <1>1 DEF RegressionInv, FilesInv
      <4>2. s \in Nat /\ s <= a
        BY <1>4, <3>6, <4>1
      <4>3. a <= t /\ t <= latest /\ latest <= s
        BY <1>7, <3>3, <3>4, <4>1
      <4>4. latest = s
        BY <1>7, <3>4, <4>2, <4>3
      <4> QED BY <3>6, <4>1, <4>4
    <3> QED BY <1>1, <3>5, <3>6
  <2> QED BY <1>6, <2>1, <2>2, <2>3, <2>4 DEF Base
<1>11. b \in DOMAIN reports /\ reports[b] = rows[i].trend.result
  BY <1>10 DEF IsThere
<1>12. \A t \in DOMAIN reports : ~(b < t /\ t < a)
  BY <1>3, <1>4
<1>13. watcher'.trend.regressions = Regressions(reports[b], reports[a])
  BY <1>1, <1>9, <1>11, <1>12
<1>14. reports[a] \in Report
  BY <1>1, ReportsFacts
<1> QED BY <1>1, <1>5, <1>11, <1>13, <1>14, RegressionsReport DEF Reported

(* After the comparison the regressions found are the ones to be reported.   *)
LEMMA CompareKeeps ==
  ASSUME WatchTypeOK, WatchTypeOK', SuitesInv, SuitesInv', RegressionInv, Compare
  PROVE  RegressionInv'
<1> DEFINE a == watcher'.trend.current
<1>1. /\ UNCHANGED <<clock, suite, reports, latest, rows, used, written, overwritten>>
      /\ watcher.pc = "trend" /\ watcher'.pc = "append"
      /\ watcher'.gen = watcher.gen /\ watcher'.last = watcher.last
      /\ Fresh /\ Linked /\ Linked' /\ ~Fresh' /\ latest # NONE /\ latest \in written
      /\ a \in DOMAIN reports /\ a \in written /\ watcher'.trend.result = reports[a]
      /\ watcher'.trend.regressions # {} => watcher'.trend.exit = 1
      /\ HandIsOut => a = latest
      /\ a = latest \/ (latest \notin DOMAIN reports /\ \A t \in DOMAIN reports : t <= a)
  BY CompareFacts DEF RegressionInv
<1>2. /\ used.manual \in Nat /\ Events \in Nat /\ (Events = 0 => used.manual = 0) /\ (used.manual > 0 => Events > 0)
      /\ written \subseteq Nat /\ DOMAIN reports \subseteq written
  BY HistoryTypes DEF RegressionInv, FilesInv
<1>3. Events' = Events /\ (HandIsOut' <=> HandIsOut)
  BY <1>1 DEF Events, HandIsOut
<1>4. /\ \A i : LastJudged(i)' <=> LastJudged(i)
      /\ \A i : CollisionSince(i)' <=> CollisionSince(i)
  BY <1>1 DEF LastJudged, CollisionSince
<1>5. FilesInv'
  BY <1>1, <1>3 DEF RegressionInv, FilesInv
<1>6. OrderInv'
  BY <1>1, <1>3 DEF RegressionInv, OrderInv
<1>7. CurrentInv'
  <2>1. used.manual <= 1 => a = latest \/ (used.manual > 0 /\ suite[Hand].pc = "done" /\ \A t \in written : t <= a \/ t = latest)
    <3> SUFFICES ASSUME used.manual <= 1, a # latest
                 PROVE  used.manual > 0 /\ suite[Hand].pc = "done" /\ \A t \in written : t <= a \/ t = latest
      OBVIOUS
    <3>1. ~HandIsOut
      BY <1>1
    <3>2. used.manual > 0 /\ suite[Hand].pc = "done"
      BY <1>2, <3>1 DEF HandIsOut
    <3>3. ASSUME NEW t \in written PROVE t <= a
      <4>1. PICK s \in DOMAIN reports : t <= s
        BY DEF RegressionInv, FilesInv
      <4>2. s <= a /\ s \in Nat /\ a \in Nat /\ t \in Nat
        BY <1>1, <1>2
      <4> QED BY <4>1, <4>2
    <3> QED BY <3>2, <3>3
  <2> QED BY <1>1, <2>1 DEF CurrentInv, IsCurrent, IsThere
<1>8. LastInv'
  <2>1. Events = 0 => a = latest
    BY <1>1, <1>2 DEF HandIsOut
  <2> QED BY <1>1, <1>3, <1>4, <2>1 DEF RegressionInv, LastInv
<1>9. BaseInv'
  <2> SUFFICES ASSUME NEW i \in DOMAIN rows, NEW b \in Stamps \cup {NONE}, NEW result \in Report,
                      Judges(i, b, result)
               PROVE  Base(i, b, result)'
    BY <1>1, <1>4 DEF BaseInv, Judges
  <2>1. Base(i, b, result)
    BY DEF RegressionInv, BaseInv
  <2>2. \A t : After(t) => After(t)'
    BY <1>1 DEF After
  <2>3. IsThere(b, result)' <=> IsThere(b, result)
    BY <1>1 DEF IsThere
  <2>4. Repeated(b) => Repeated(b)'
    <3>1. Events = 0 => a = latest
      BY <1>1, <1>2 DEF HandIsOut
    <3> QED BY <1>1, <1>3, <3>1 DEF Repeated, Fresh
  <2>5. Outdated(b) => Outdated(b)'
    BY <1>1, <2>2 DEF Outdated
  <2> QED BY <1>1, <1>3, <1>4, <2>1, <2>2, <2>3, <2>4, <2>5 DEF Base
<1>10. TrendInv'
  <2> SUFFICES ASSUME NEW i \in DOMAIN rows, LastJudged(i), ~Hides(i, watcher.trend, watcher.gen)'
               PROVE  Reported(rows[i].trend, watcher'.trend)
    BY <1>1, <1>4 DEF TrendInv, Reported
  <2> QED BY ComparisonReports
<1>11. RegressionIsRecorded'
  <2>1. used.manual <= used'.manual /\ Events <= Events'
    BY <1>1, <1>2, <1>3
  <2> QED BY <1>1, <2>1, RecordedWithoutRow DEF RegressionInv
<1> QED BY <1>5, <1>6, <1>7, <1>8, <1>9, <1>10, <1>11 DEF RegressionInv

(* The row of a cycle that was compared.                                     *)
LEMMA RecordFactsOfCycle ==
  ASSUME WatchTypeOK, SuitesInv, CurrentInv, RecordCycle
  PROVE  /\ UNCHANGED <<clock, suite, reports, latest, used, written, overwritten>>
         /\ watcher.pc = "append" /\ watcher'.pc = "prune"
         /\ watcher'.gen = watcher.gen /\ watcher'.last = watcher.last
         /\ Len(rows) \in Nat /\ DOMAIN rows = 1..Len(rows)
         /\ Len(rows') = Len(rows) + 1 /\ DOMAIN rows' = 1..Len(rows')
         /\ \A i \in 1..Len(rows) : rows'[i] = rows[i]
         /\ LET row == rows'[Len(rows) + 1] IN
            /\ row.status \in Judged /\ row.gen = watcher.gen /\ row.trend = watcher.trend
            /\ watcher.trend.regressions # {} => row.status = "regression"
<1>1. /\ UNCHANGED <<clock, suite, reports, latest, used, written, overwritten>>
      /\ watcher.pc = "append"
  BY DEF RecordCycle, ghosts
<1>2. /\ watcher'.pc = "prune" /\ watcher'.gen = watcher.gen /\ watcher'.last = watcher.last
      /\ watcher.gen \in Gens /\ watcher.trend \in Trend
  BY <1>1, ShellFacts, WatchTypes, WatcherFields DEF SuitesInv
<1> DEFINE status == CASE watcher.trend.exit = 1 -> "regression"
                       [] watcher.trend.exit # 1 /\ SuiteExit # 0 -> "failing"
                       [] OTHER -> "ok"
<1>3. Record(status, watcher.trend)
  BY DEF RecordCycle
<1>4. status \in Judged /\ (watcher.trend.exit = 1 => status = "regression")
  BY DEF Judged
<1>5. watcher.trend.regressions # {} => watcher.trend.exit = 1
  BY <1>1 DEF CurrentInv
<1> HIDE DEF status
<1>6. /\ Len(rows') = Len(rows) + 1 /\ Len(rows) \in Nat
      /\ DOMAIN rows = 1..Len(rows) /\ DOMAIN rows' = 1..Len(rows')
      /\ \A i \in 1..Len(rows) : rows'[i] = rows[i]
      /\ rows'[Len(rows) + 1].status = status /\ rows'[Len(rows) + 1].gen = watcher.gen
      /\ rows'[Len(rows) + 1].trend = watcher.trend
  BY <1>2, <1>3, <1>4, RecordFacts
<1> QED BY <1>1, <1>2, <1>4, <1>5, <1>6

(* The new row reports what is to be reported.                               *)
LEMMA NewRowReports ==
  ASSUME WatchTypeOK, WatchTypeOK', SuitesInv, RegressionInv, RecordCycle
  PROVE  RegressionIsRecorded'
<1> DEFINE n == Len(rows) + 1
<1>1. /\ UNCHANGED <<used, written, overwritten>>
      /\ watcher.pc = "append" /\ watcher'.gen = watcher.gen
      /\ Len(rows) \in Nat /\ DOMAIN rows = 1..Len(rows)
      /\ Len(rows') = n /\ DOMAIN rows' = 1..n
      /\ \A i \in 1..Len(rows) : rows'[i] = rows[i]
      /\ rows'[n].gen = watcher.gen /\ rows'[n].trend = watcher.trend
      /\ watcher.trend.regressions # {} => rows'[n].status = "regression"
  BY RecordFactsOfCycle DEF RegressionInv
<1>2. Events' = Events
  BY <1>1 DEF Events
<1> SUFFICES ASSUME NEW j \in 1..Len(rows'), NEW i \in 1..(j - 1),
                    rows'[i].status \in Judged, rows'[j].status \in Judged,
                    \A m \in (i + 1)..(j - 1) : rows'[m].status \notin Judged,
                    ~Disturbed(i, j)'
             PROVE  \A c \in DOMAIN rows'[i].trend.result \cap DOMAIN rows'[j].trend.result :
                      rows'[i].trend.result[c] = "PASS" /\ rows'[j].trend.result[c] # "PASS" =>
                        c \in rows'[j].trend.regressions /\ rows'[j].status = "regression"
  BY DEF RegressionIsRecorded
<1>3. CASE j \in DOMAIN rows
  <2>1. i \in DOMAIN rows
    BY <1>1, <1>3
  <2>2. DOMAIN rows \subseteq DOMAIN rows' /\ used.manual <= used'.manual /\ Events <= Events'
    BY <1>1, <1>2, HistoryTypes
  <2>3. \A k \in DOMAIN rows : rows'[k] = rows[k]
    BY <1>1
  <2> QED BY <1>1, <1>3, <2>1, <2>2, <2>3, RecordedRowsStay DEF RegressionInv, Reported
<1>4. CASE j \notin DOMAIN rows
  <2>1. j = n /\ i \in 1..Len(rows)
    BY <1>1, <1>4
  <2>2. rows'[i] = rows[i] /\ \A m \in (i + 1)..Len(rows) : rows'[m] = rows[m] /\ m \in (i + 1)..(j - 1)
    BY <1>1, <2>1
  <2>3. LastJudged(i)
    BY <1>1, <2>1, <2>2 DEF LastJudged
  <2>4. (i + 1)..(j - 1) = (i + 1)..Len(rows)
    BY <1>1, <2>1
  <2>5. CollisionSince(i) => \E m \in (i + 1)..(j - 1) : rows'[m].status = "collision"
    BY <2>2, <2>4 DEF CollisionSince
  <2>6. ~Hides(i, watcher.trend, watcher.gen)
    <3>1. rows'[j].gen = watcher.gen /\ rows'[j].trend = watcher.trend
      BY <1>1, <2>1
    <3> QED BY <1>1, <1>2, <2>2, <2>5, <3>1 DEF Hides, Disturbed
  <2>7. Reported(rows[i].trend, watcher.trend)
    BY <1>1, <2>1, <2>3, <2>6 DEF RegressionInv, TrendInv
  <2> QED BY <1>1, <2>1, <2>2, <2>7 DEF Reported
<1> QED BY <1>3, <1>4

(* The row that was recorded is the last one judged.                         *)
LEMMA RecordKeeps ==
  ASSUME WatchTypeOK, WatchTypeOK', SuitesInv, SuitesInv', RegressionInv, RecordCycle
  PROVE  RegressionInv'
<1> DEFINE n == Len(rows) + 1
<1>1. /\ UNCHANGED <<clock, suite, reports, latest, used, written, overwritten>>
      /\ watcher.pc = "append" /\ watcher'.pc = "prune"
      /\ watcher'.gen = watcher.gen /\ watcher'.last = watcher.last
      /\ Len(rows) \in Nat /\ DOMAIN rows = 1..Len(rows)
      /\ Len(rows') = n /\ DOMAIN rows' = 1..n
      /\ \A i \in 1..Len(rows) : rows'[i] = rows[i]
      /\ rows'[n].status \in Judged /\ rows'[n].gen = watcher.gen /\ rows'[n].trend = watcher.trend
  BY RecordFactsOfCycle DEF RegressionInv
<1>2. Events' = Events /\ (HandIsOut' <=> HandIsOut) /\ SuiteExit' = SuiteExit
  BY <1>1 DEF Events, HandIsOut, SuiteExit
<1>3. (Linked' <=> Linked) /\ ~Fresh' /\ Linked
  BY <1>1, <1>2 DEF Linked, Fresh, RegressionInv, FilesInv
<1>4. \A i : LastJudged(i)' => i = n
  <2> SUFFICES ASSUME NEW i, LastJudged(i)', i # n PROVE FALSE
    OBVIOUS
  <2>1. i \in 1..n /\ \A m \in (i + 1)..n : rows'[m].status \notin Judged
    BY <1>1 DEF LastJudged
  <2>2. n \in (i + 1)..n
    BY <1>1, <2>1
  <2> QED BY <1>1, <2>1, <2>2
<1>5. /\ watcher.trend.current \in written
      /\ used.manual <= 1 => IsCurrent(watcher.trend.current)
      /\ \/ IsThere(watcher.trend.current, watcher.trend.result)
         \/ (watcher.trend.current \in overwritten /\ Events > 0)
  BY <1>1 DEF RegressionInv, CurrentInv
<1>6. FilesInv'
  <2>1. \A i \in DOMAIN rows' : rows'[i].gen <= watcher'.gen
    <3>1. watcher.gen \in Nat /\ \A i \in DOMAIN rows : rows[i].gen <= watcher.gen
      BY HistoryTypes DEF RegressionInv, FilesInv
    <3>2. ASSUME NEW i \in DOMAIN rows' PROVE i \in 1..Len(rows) \/ i = n
      BY <1>1
    <3> QED BY <1>1, <3>1, <3>2
  <2> QED BY <1>1, <1>2, <1>3, <2>1 DEF RegressionInv, FilesInv
<1>7. OrderInv'
  BY <1>1, <1>2, <1>3 DEF RegressionInv, OrderInv
<1>8. CurrentInv'
  <2>1. Len(rows') > 0 /\ rows'[Len(rows')] = rows'[n]
    BY <1>1
  <2> QED BY <1>1, <1>5, <2>1 DEF CurrentInv, IsCurrent
<1>9. LastInv'
  <2>1. Events = 0 => watcher.trend.current = watcher.last
    BY <1>1 DEF RegressionInv, LastInv
  <2> QED BY <1>1, <1>2, <1>4, <2>1 DEF LastInv
<1>10. BaseInv'
  <2> SUFFICES ASSUME NEW i \in DOMAIN rows', NEW b \in Stamps \cup {NONE}, NEW result \in Report,
                      Judges(i, b, result)'
               PROVE  Base(i, b, result)'
    BY DEF BaseInv
  <2>1. b = watcher.trend.current /\ result = watcher.trend.result
    BY <1>1, <1>4 DEF Judges
  <2>2. used.manual = 0 => After(b)'
    <3> SUFFICES ASSUME used.manual = 0 PROVE After(b)'
      OBVIOUS
    <3>1. \A g \in Gens : suite'[g].pc \notin Stamped
      BY <1>1 DEF SuitesInv, Alive, Stamped
    <3>2. \A g \in Gens : suite'[g].pc # "link"
      BY <3>1 DEF Stamped
    <3> QED BY <1>3, <3>1, <3>2 DEF After
  <2>3. IsThere(b, result)' \/ (b \in overwritten /\ Events > 0)
    BY <1>1, <1>5, <2>1 DEF IsThere
  <2> QED BY <1>1, <1>2, <1>5, <2>1, <2>2, <2>3 DEF Base
<1>11. TrendInv'
  BY <1>1 DEF TrendInv
<1> QED BY <1>6, <1>7, <1>8, <1>9, <1>10, <1>11, NewRowReports DEF RegressionInv

(* What pruning leaves: the latest report, and one as late as any.           *)
LEMMA PruneFacts ==
  ASSUME WatchTypeOK, SuitesInv, FilesInv, Prune
  PROVE  /\ UNCHANGED <<clock, suite, latest, rows, used, written, overwritten>>
         /\ watcher.pc = "prune" /\ watcher'.pc = "after"
         /\ watcher'.gen = watcher.gen /\ watcher'.last = watcher.last
         /\ \A g \in Gens : suite[g].pc \notin Stamped
         /\ DOMAIN reports' \subseteq DOMAIN reports
         /\ \A s \in DOMAIN reports' : reports'[s] = reports[s]
         /\ latest \in DOMAIN reports => latest \in DOMAIN reports'
         /\ \A s \in DOMAIN reports \ DOMAIN reports' : s # latest /\ \E t \in DOMAIN reports : s < t
         /\ \A t \in DOMAIN reports : \E s \in DOMAIN reports' : t <= s
<1>1. /\ UNCHANGED <<clock, suite, latest, rows, used, written, overwritten>>
      /\ watcher.pc = "prune" /\ reports' = [s \in DOMAIN reports \ OldReports |-> reports[s]]
  BY DEF Prune, ghosts
<1>2. watcher'.pc = "after" /\ watcher'.gen = watcher.gen /\ watcher'.last = watcher.last
  BY ShellFacts DEF Prune, WatcherPC
<1>3. \A g \in Gens : suite[g].pc \notin Stamped
  BY <1>1 DEF SuitesInv, Alive, Stamped
<1>4. DOMAIN reports' = DOMAIN reports \ OldReports /\ \A s \in DOMAIN reports' : reports'[s] = reports[s]
  BY <1>1
<1>5. latest \notin OldReports
  BY DEF OldReports
<1>6. ASSUME NEW s \in OldReports PROVE s # latest /\ \E t \in DOMAIN reports : s < t
  <2>1. s \in DOMAIN reports /\ s # latest /\ Cardinality({t \in DOMAIN reports : t > s}) >= Keep
    BY DEF OldReports
  <2>2. Keep \in Nat \ {0}
    BY KeepAssumption DEF KeepAssumption
  <2>3. {t \in DOMAIN reports : t > s} # {}
    <3>1. Cardinality({}) = 0
      BY FS_EmptySet
    <3> QED BY <2>1, <2>2, <3>1
  <2>4. PICK t \in DOMAIN reports : t > s
    BY <2>3
  <2>5. s < t
    BY <2>1, <2>4, HistoryTypes
  <2> QED BY <2>1, <2>5
<1>7. ASSUME NEW t \in DOMAIN reports PROVE \E s \in DOMAIN reports' : t <= s
  <2>1. DOMAIN reports \in SUBSET Stamps
    BY ReportsFacts
  <2> DEFINE top == Max(DOMAIN reports)
  <2>2. top \in DOMAIN reports /\ \A s \in DOMAIN reports : s <= top
    BY <2>1, LatestOfStamps
  <2> HIDE DEF top
  <2>3. DOMAIN reports \subseteq Nat
    BY HistoryTypes
  <2>4. \A s \in DOMAIN reports : ~(top < s)
    BY <2>2, <2>3
  <2>5. top \notin OldReports
    BY <1>6, <2>4
  <2> QED BY <1>4, <2>2, <2>5
<1> QED BY <1>1, <1>2, <1>3, <1>4, <1>5, <1>6, <1>7

(* Pruning removes the report of the last row only for a later one.          *)
LEMMA PruneKeeps ==
  ASSUME WatchTypeOK, WatchTypeOK', SuitesInv, SuitesInv', RegressionInv, Prune
  PROVE  RegressionInv'
<1>1. /\ UNCHANGED <<clock, suite, latest, rows, used, written, overwritten>>
      /\ watcher.pc = "prune" /\ watcher'.pc = "after"
      /\ watcher'.gen = watcher.gen /\ watcher'.last = watcher.last
      /\ \A g \in Gens : suite[g].pc \notin Stamped
      /\ DOMAIN reports' \subseteq DOMAIN reports
      /\ \A s \in DOMAIN reports' : reports'[s] = reports[s]
      /\ latest \in DOMAIN reports => latest \in DOMAIN reports'
      /\ \A s \in DOMAIN reports \ DOMAIN reports' : s # latest /\ \E t \in DOMAIN reports : s < t
      /\ \A t \in DOMAIN reports : \E s \in DOMAIN reports' : t <= s
  BY PruneFacts DEF RegressionInv
<1>2. Events' = Events /\ (HandIsOut' <=> HandIsOut) /\ ~Fresh' /\ ~Linked' /\ Linked
  BY <1>1 DEF Events, HandIsOut, Fresh, Linked, RegressionInv, FilesInv
<1>3. /\ \A i : LastJudged(i)' <=> LastJudged(i)
      /\ \A i : CollisionSince(i)' <=> CollisionSince(i)
  BY <1>1 DEF LastJudged, CollisionSince
<1>4. \A g \in Gens : suite'[g].pc \notin Stamped /\ suite'[g].pc # "link"
  BY <1>1 DEF Stamped
<1>5. DOMAIN reports \subseteq Nat /\ written \subseteq Nat /\ DOMAIN reports \subseteq written
  BY HistoryTypes DEF RegressionInv, FilesInv
<1>6. FilesInv'
  <2>1. ASSUME NEW t \in written PROVE \E s \in DOMAIN reports' : t <= s
    <3>1. PICK s \in DOMAIN reports : t <= s
      BY DEF RegressionInv, FilesInv
    <3>2. PICK r \in DOMAIN reports' : s <= r
      BY <1>1
    <3>3. t <= r
      BY <1>1, <1>5, <3>1, <3>2
    <3> QED BY <3>3
  <2> QED BY <1>1, <1>2, <1>4, <2>1 DEF RegressionInv, FilesInv
<1>7. OrderInv'
  <2> SUFFICES ASSUME HandIsOut PROVE OrderInv'
    BY <1>2 DEF OrderInv
  <2> QED BY <1>1, <1>2, <1>4 DEF RegressionInv, OrderInv
<1>8. CurrentInv' /\ TrendInv'
  BY <1>1 DEF CurrentInv, TrendInv
<1>9. LastInv'
  BY <1>1, <1>2, <1>3 DEF RegressionInv, LastInv
<1>10. \A t : After(t)'
  BY <1>2, <1>4 DEF After
<1>11. BaseInv'
  <2> SUFFICES ASSUME NEW i \in DOMAIN rows, NEW b \in Stamps \cup {NONE}, NEW result \in Report,
                      Judges(i, b, result)
               PROVE  Base(i, b, result)'
    BY <1>1, <1>3 DEF BaseInv, Judges
  <2>1. Base(i, b, result)
    BY DEF RegressionInv, BaseInv
  <2>2. ~Repeated(b)
    <3>1. watcher.gen \in Gens
      BY <1>1 DEF SuitesInv
    <3>2. suite[watcher.gen].pc # "link"
      BY <1>1, <1>4, <3>1
    <3> QED BY <1>1, <3>2 DEF Repeated, Fresh
  <2>3. Outdated(b) => Outdated(b)'
    BY <1>1, <1>10 DEF Outdated
  <2>4. ASSUME IsThere(b, result), used.manual <= 1 PROVE IsThere(b, result)' \/ Outdated(b)'
    <3>1. CASE b \in DOMAIN reports'
      BY <1>1, <2>4, <3>1 DEF IsThere
    <3>2. CASE b \notin DOMAIN reports'
      <4>1. PICK t \in DOMAIN reports : b # latest /\ b < t
        BY <1>1, <2>4, <3>2 DEF IsThere
      <4>2. rows[Len(rows)].status \in Judged /\ IsCurrent(rows[Len(rows)].trend.current)
        BY <1>1, <2>4 DEF RegressionInv, CurrentInv
      <4>3. i = Len(rows)
        <5>1. Len(rows) \in Nat /\ i \in 1..Len(rows)
          BY HistoryTypes
        <5>2. Len(rows) \notin (i + 1)..Len(rows)
          BY <4>2 DEF Judges, LastJudged
        <5> QED BY <5>1, <5>2
      <4>4. IsCurrent(b)
        BY <4>2, <4>3 DEF Judges
      <4>5. used.manual > 0 /\ suite[Hand].pc = "done"
        BY <4>1, <4>4 DEF IsCurrent
      <4>6. used.manual = 1
        BY <2>4, <4>5, HistoryTypes
      <4> QED BY <1>1, <1>5, <1>10, <4>1, <4>5, <4>6 DEF Outdated
    <3> QED BY <3>1, <3>2
  <2> QED BY <1>1, <1>2, <1>3, <1>10, <2>1, <2>2, <2>3, <2>4 DEF Base
<1>12. RegressionIsRecorded'
  <2>1. used.manual <= used'.manual /\ Events <= Events'
    BY <1>1, <1>2, HistoryTypes
  <2> QED BY <1>1, <2>1, RecordedWithoutRow DEF RegressionInv
<1> QED BY <1>6, <1>7, <1>8, <1>9, <1>11, <1>12 DEF RegressionInv

(* A suite writes its report: a watcher's while the shell waits for it, or   *)
(* the one by hand at any time.                                              *)
LEMMA WriteFacts ==
  ASSUME WatchTypeOK, SuitesInv, NEW g \in Suites, WriteReport(g)
  PROVE  /\ UNCHANGED <<clock, watcher, latest, rows, used>>
         /\ suite[g].stamp \in Stamps /\ suite[g].pc = "write"
         /\ suite'[g].pc = "link" /\ suite'[g].stamp = suite[g].stamp
         /\ \A h \in Suites : h # g => suite'[h] = suite[h]
         /\ DOMAIN reports' = DOMAIN reports \cup {suite[g].stamp}
         /\ \A t \in DOMAIN reports : t # suite[g].stamp => reports'[t] = reports[t]
         /\ written' = written \cup {suite[g].stamp}
         /\ overwritten' = overwritten \cup (written \cap {suite[g].stamp})
         /\ g = Hand => used.manual > 0
         /\ g # Hand => g \in Gens /\ g = watcher.gen /\ watcher.pc \in {"off", "spawned", "wait"}
<1>1. /\ UNCHANGED <<clock, watcher, latest, rows, used>> /\ suite[g].pc = "write"
      /\ reports' = [t \in DOMAIN reports \cup {suite[g].stamp} |->
                       IF t = suite[g].stamp THEN suite[g].result ELSE reports[t]]
      /\ written' = written \cup {suite[g].stamp}
      /\ overwritten' = overwritten \cup (written \cap {suite[g].stamp})
  BY DEF WriteReport
<1>2. suite[g].stamp \in Stamps
  BY <1>1 DEF SuitesInv, Stamped
<1>3. /\ suite'[g].pc = "link" /\ suite'[g].stamp = suite[g].stamp
      /\ \A h \in Suites : h # g => suite'[h] = suite[h]
  BY SuiteStepFacts DEF SuiteStep, Turns
<1>4. g = Hand => used.manual > 0
  BY <1>1, HistoryTypes DEF SuitesInv
<1>5. g # Hand => g \in Gens /\ g = watcher.gen /\ watcher.pc \in {"off", "spawned", "wait"}
  BY <1>1 DEF SuitesInv, Alive, Suites
<1> QED BY <1>1, <1>2, <1>3, <1>4, <1>5

(* A report is written again only with the row it belonged to disturbed, or  *)
(* by the next cycle in the same second, which is then a collision.          *)
LEMMA WriteKeeps ==
  ASSUME WatchTypeOK, WatchTypeOK', SuitesInv, SuitesInv', RegressionInv, NEW g \in Suites, WriteReport(g)
  PROVE  RegressionInv'
<1> DEFINE s == suite[g].stamp
<1>1. /\ UNCHANGED <<clock, watcher, latest, rows, used>>
      /\ s \in Stamps /\ suite[g].pc = "write"
      /\ suite'[g].pc = "link" /\ suite'[g].stamp = s
      /\ \A h \in Suites : h # g => suite'[h] = suite[h]
      /\ DOMAIN reports' = DOMAIN reports \cup {s}
      /\ \A t \in DOMAIN reports : t # s => reports'[t] = reports[t]
      /\ written' = written \cup {s}
      /\ overwritten' = overwritten \cup (written \cap {s})
      /\ g = Hand => used.manual > 0
      /\ g # Hand => g \in Gens /\ g = watcher.gen /\ watcher.pc \in {"off", "spawned", "wait"}
  BY WriteFacts
<1> HIDE DEF s
<1>2. /\ Hand \in Suites /\ Gens \subseteq Suites /\ Hand \notin Gens /\ watcher.gen \in Suites
      /\ (watcher.pc # "off" => watcher.gen # Hand)
      /\ used.manual \in Nat /\ Events \in Nat /\ (used.manual > 0 => Events > 0) /\ s \in Nat
      /\ overwritten \subseteq written /\ DOMAIN reports \subseteq written
  BY <1>1, HistoryTypes, WatcherIsAtSuite, BoundsAreNumbers DEF SuitesInv, RegressionInv, FilesInv
<1>3. /\ (Fresh' <=> Fresh) /\ (Linked' <=> Linked) /\ (g # Hand => ~Fresh /\ ~Linked)
  BY <1>1, <1>2 DEF Fresh, Linked, SuiteExit
<1>4. Events' = Events /\ (HandIsOut' <=> HandIsOut)
  BY <1>1, <1>2 DEF Events, HandIsOut
<1>5. /\ \A i : LastJudged(i)' <=> LastJudged(i)
      /\ \A i : CollisionSince(i)' <=> CollisionSince(i)
  BY <1>1 DEF LastJudged, CollisionSince
<1>6. \A h \in Suites : (suite'[h].pc \in Stamped <=> suite[h].pc \in Stamped) /\
                        (suite[h].pc \in Stamped => suite'[h].stamp = suite[h].stamp)
  <2>1. suite[g].pc \in Stamped /\ suite'[g].pc \in Stamped /\ suite'[g].stamp = suite[g].stamp
    BY <1>1 DEF Stamped, s
  <2> QED BY <1>1, <2>1
<1>7. FilesInv'
  <2>1. s <= clock
    BY <1>1 DEF RegressionInv, FilesInv, Stamped, s
  <2>2. s <= s
    BY <1>2
  <2>3. \A h \in Suites : suite'[h].pc = "link" =>
          (suite[h].pc = "link" /\ suite'[h].stamp = suite[h].stamp) \/ suite'[h].stamp = s
    BY <1>1
  <2>4. ASSUME NEW h \in Suites, suite'[h].pc = "link" PROVE suite'[h].stamp \in written'
    BY <1>1, <2>3, <2>4 DEF RegressionInv, FilesInv
  <2>5. ASSUME NEW h \in Gens, suite'[h].pc = "link" PROVE suite'[h].stamp \in DOMAIN reports'
    BY <1>1, <1>2, <2>3, <2>5 DEF RegressionInv, FilesInv
  <2>6. \A t \in written' : \E r \in DOMAIN reports' : t <= r
    BY <1>1, <2>2 DEF RegressionInv, FilesInv
  <2> QED BY <1>1, <1>2, <1>3, <1>4, <1>6, <2>1, <2>4, <2>5, <2>6 DEF RegressionInv, FilesInv
<1>8. OrderInv'
  <2> SUFFICES ASSUME HandIsOut PROVE OrderInv'
    BY <1>4 DEF OrderInv
  <2>1. ASSUME NEW t \in written'
        PROVE  \/ (latest # NONE /\ t <= latest)
               \/ (suite'[Hand].pc = "link" /\ suite'[Hand].stamp = t)
               \/ (~Linked' /\ \A h \in Gens : suite'[h].pc \in Stamped => t <= suite'[h].stamp)
    <3>1. CASE t \in written
      <4>1. CASE suite[Hand].pc = "link" /\ suite[Hand].stamp = t
        BY <1>1, <1>2, <4>1
      <4>2. CASE ~Linked /\ \A h \in Gens : suite[h].pc \in Stamped => t <= suite[h].stamp
        BY <1>2, <1>3, <1>6, <4>2
      <4> QED BY <3>1, <4>1, <4>2 DEF RegressionInv, OrderInv
    <3>2. CASE t = s /\ g = Hand
      BY <1>1, <3>2
    <3>3. CASE t = s /\ g # Hand
      <4>1. \A h \in Gens : suite[h].pc \in Stamped => h = g
        BY <1>1, <3>3 DEF SuitesInv, Alive, Stamped
      <4>2. \A h \in Gens : suite'[h].pc \in Stamped => t <= suite'[h].stamp
        BY <1>1, <1>2, <1>6, <3>3, <4>1
      <4> QED BY <1>3, <3>3, <4>2
    <3> QED BY <1>1, <2>1, <3>1, <3>2, <3>3
  <2>2. \A h \in Gens : suite'[h].pc \in Stamped /\ latest # NONE => latest <= suite'[h].stamp
    BY <1>2, <1>6 DEF RegressionInv, OrderInv
  <2> QED BY <1>1, <2>1, <2>2 DEF OrderInv
<1>9. CurrentInv'
  <2> SUFFICES ASSUME watcher.pc \in {"append", "prune"} PROVE CurrentInv'
    BY <1>1 DEF CurrentInv
  <2>1. g = Hand /\ Events > 0 /\ suite[Hand].pc # "done"
    BY <1>1, <1>2
  <2>2. \A b : IsCurrent(b) => IsCurrent(b)'
    BY <1>1, <2>1 DEF IsCurrent
  <2>3. \A b, result : b \in written /\ IsThere(b, result) => IsThere(b, result)' \/ b \in overwritten'
    BY <1>1 DEF IsThere
  <2>4. CASE watcher.pc = "append"
    BY <1>1, <1>4, <2>1, <2>2, <2>3, <2>4 DEF RegressionInv, CurrentInv, IsCurrent, IsThere
  <2>5. CASE watcher.pc = "prune"
    BY <1>1, <1>4, <2>1, <2>2, <2>5 DEF RegressionInv, CurrentInv, IsCurrent
  <2> QED BY <2>4, <2>5
<1>10. LastInv'
  BY <1>1, <1>4, <1>5 DEF RegressionInv, LastInv
<1>11. ASSUME NEW t \in written, After(t) PROVE After(t)'
  <2>1. ASSUME NEW h \in Gens, suite'[h].pc = "link", suite'[h].stamp = t PROVE t \in overwritten'
    <3>1. CASE h = g
      BY <1>1, <2>1, <3>1
    <3>2. CASE h # g
      BY <1>1, <1>2, <1>11, <2>1, <3>2 DEF After
    <3> QED BY <3>1, <3>2
  <2> QED BY <1>1, <1>2, <1>3, <1>6, <1>11, <2>1 DEF After
<1>12. BaseInv'
  <2> SUFFICES ASSUME NEW i \in DOMAIN rows, NEW b \in Stamps \cup {NONE}, NEW result \in Report,
                      Judges(i, b, result)
               PROVE  Base(i, b, result)'
    BY <1>1, <1>5 DEF BaseInv, Judges
  <2>1. Base(i, b, result)
    BY DEF RegressionInv, BaseInv
  <2>2. b \in written
    BY <2>1 DEF Base
  <2>3. ASSUME Repeated(b) PROVE FALSE
    <3>1. g # Hand
      BY <1>1, <1>2, <2>3 DEF Repeated
    <3> QED BY <1>1, <1>3, <2>3, <3>1 DEF Repeated
  <2>4. ASSUME Outdated(b) PROVE Outdated(b)'
    <3>1. g # Hand
      BY <1>1, <2>4 DEF Outdated
    <3> QED BY <1>1, <1>2, <1>11, <2>4, <3>1 DEF Outdated
  <2>5. ASSUME IsThere(b, result)
        PROVE  IsThere(b, result)' \/ (b \in overwritten' /\ Events > 0) \/ Repeated(b)'
    <3>1. CASE b # s
      BY <1>1, <2>5, <3>1 DEF IsThere
    <3>2. CASE b = s
      <4>1. b \in overwritten'
        BY <1>1, <2>2, <3>2
      <4>2. CASE Events = 0
        <5>1. g = watcher.gen
          BY <1>1, <1>2, <4>2
        <5> QED BY <1>1, <1>4, <3>2, <4>1, <4>2, <5>1 DEF Repeated
      <4> QED BY <1>2, <4>1, <4>2
    <3> QED BY <3>1, <3>2
  <2> QED BY <1>1, <1>4, <1>5, <1>11, <2>1, <2>2, <2>3, <2>4, <2>5 DEF Base
<1>13. TrendInv'
  <2> SUFFICES ASSUME watcher.pc = "append", NEW i \in DOMAIN rows, LastJudged(i),
                      ~Hides(i, watcher.trend, watcher.gen)'
               PROVE  Reported(rows[i].trend, watcher.trend)
    BY <1>1, <1>5 DEF TrendInv, Reported
  <2>1. ~Hides(i, watcher.trend, watcher.gen)
    BY <1>1, <1>4, <1>5 DEF Hides
  <2> QED BY <2>1 DEF RegressionInv, TrendInv
<1>14. RegressionIsRecorded'
  <2>1. used.manual <= used'.manual /\ Events <= Events'
    BY <1>1, <1>2, <1>4
  <2> QED BY <1>1, <2>1, RecordedWithoutRow DEF RegressionInv
<1> QED BY <1>7, <1>8, <1>9, <1>10, <1>12, <1>13, <1>14 DEF RegressionInv

(* A suite that has written its report points latest.json at it.             *)
LEMMA LinkFacts ==
  ASSUME WatchTypeOK, SuitesInv, FilesInv, NEW g \in Suites, LinkLatest(g)
  PROVE  /\ UNCHANGED <<clock, watcher, reports, rows, used, written, overwritten>>
         /\ latest' = suite[g].stamp /\ latest' \in written /\ latest' \in Nat
         /\ suite[g].pc = "link" /\ suite'[g].pc = "done" /\ suite'[g].exit = suite[g].exit /\ suite[g].exit # 3
         /\ \A h \in Suites : h # g => suite'[h] = suite[h]
         /\ g = Hand => used.manual > 0
         /\ g # Hand => /\ g \in Gens /\ g = watcher.gen /\ watcher.pc \in {"off", "spawned", "wait"}
                        /\ watcher.pc = "off" => Events > 0
                        /\ latest' \in DOMAIN reports
                        /\ \A h \in Gens : suite'[h].pc \notin Stamped
<1>1. /\ UNCHANGED <<clock, watcher, reports, rows, used, written, overwritten>>
      /\ latest' = suite[g].stamp /\ suite[g].pc = "link"
  BY DEF LinkLatest, ghosts
<1>2. /\ suite'[g].pc = "done" /\ suite'[g].exit = suite[g].exit
      /\ \A h \in Suites : h # g => suite'[h] = suite[h]
  BY SuiteStepFacts DEF SuiteStep, Turns
<1>3. suite[g].exit # 3
  BY <1>1 DEF SuitesInv, Alive
<1>4. latest' \in written /\ latest' \in Nat
  BY <1>1, HistoryTypes DEF FilesInv
<1>5. g = Hand => used.manual > 0
  BY <1>1, HistoryTypes DEF SuitesInv
<1>6. g # Hand => g \in Gens /\ g = watcher.gen /\ watcher.pc \in {"off", "spawned", "wait"}
                  /\ (watcher.pc = "off" => used.kill > 0)
  BY <1>1 DEF SuitesInv, Alive, Suites
<1>7. used.kill > 0 => Events > 0
  BY EventsFacts
<1>8. g # Hand => latest' \in DOMAIN reports
  BY <1>1, <1>6 DEF FilesInv
<1>9. ASSUME g # Hand, NEW h \in Gens PROVE suite'[h].pc \notin Stamped
  <2>1. CASE h = g
    BY <1>2, <2>1 DEF Stamped
  <2>2. CASE h # g
    BY <1>2, <1>6, <1>9, <2>2, HistoryTypes DEF SuitesInv, Alive, Stamped
  <2> QED BY <2>1, <2>2
<1> QED BY <1>1, <1>2, <1>3, <1>4, <1>5, <1>6, <1>7, <1>8, <1>9

(* What is linked next is later than the report of the last row, or by hand. *)
LEMMA LinkKeeps ==
  ASSUME WatchTypeOK, WatchTypeOK', SuitesInv, SuitesInv', RegressionInv, NEW g \in Suites, LinkLatest(g)
  PROVE  RegressionInv'
<1>1. /\ UNCHANGED <<clock, watcher, reports, rows, used, written, overwritten>>
      /\ latest' = suite[g].stamp /\ latest' \in written /\ latest' \in Nat
      /\ suite[g].pc = "link" /\ suite'[g].pc = "done" /\ suite'[g].exit = suite[g].exit /\ suite[g].exit # 3
      /\ \A h \in Suites : h # g => suite'[h] = suite[h]
      /\ g = Hand => used.manual > 0
      /\ g # Hand => /\ g \in Gens /\ g = watcher.gen /\ watcher.pc \in {"off", "spawned", "wait"}
                     /\ watcher.pc = "off" => Events > 0
                     /\ latest' \in DOMAIN reports
                     /\ \A h \in Gens : suite'[h].pc \notin Stamped
  BY LinkFacts DEF RegressionInv
<1>2. /\ Hand \in Suites /\ Gens \subseteq Suites /\ Hand \notin Gens /\ watcher.gen \in Suites
      /\ (watcher.pc # "off" => watcher.gen # Hand)
      /\ used.manual \in Nat /\ Events \in Nat /\ (used.manual > 0 => Events > 0) /\ (Events = 0 => used.manual = 0)
      /\ written \subseteq Nat /\ NONE \notin Nat
  BY HistoryTypes, WatcherIsAtSuite DEF SuitesInv
<1>3. /\ g = Hand => (Fresh' <=> Fresh) /\ (Linked' <=> Linked)
      /\ g # Hand => ~Fresh /\ ~Linked
  BY <1>1, <1>2 DEF Fresh, Linked, SuiteExit
<1>4. Events' = Events /\ (HandIsOut' => HandIsOut /\ g # Hand)
  BY <1>1, <1>2 DEF Events, HandIsOut
<1>5. /\ \A i : LastJudged(i)' <=> LastJudged(i)
      /\ \A i : CollisionSince(i)' <=> CollisionSince(i)
  BY <1>1 DEF LastJudged, CollisionSince
<1>6. \A h \in Suites : suite'[h].pc \in Stamped => h # g /\ suite'[h] = suite[h]
  BY <1>1 DEF Stamped
<1>7. FilesInv'
  <2>1. \A h \in Suites : suite'[h].pc = "link" => h # g /\ suite'[h] = suite[h]
    BY <1>1
  <2>2. latest' # NONE
    BY <1>1, <1>2
  <2>3. watcher.pc \in {"append", "prune"} => Linked'
    BY <1>1, <1>3 DEF RegressionInv, FilesInv
  <2>4. \A h \in Gens : suite'[h].pc = "link" => suite'[h].stamp \in DOMAIN reports
    BY <1>2, <2>1 DEF RegressionInv, FilesInv
  <2> QED BY <1>1, <1>4, <1>6, <2>1, <2>2, <2>3, <2>4 DEF RegressionInv, FilesInv
<1>8. OrderInv'
  <2> SUFFICES ASSUME HandIsOut' PROVE OrderInv'
    BY DEF OrderInv
  <2>1. HandIsOut /\ g # Hand /\ suite[g].pc \in Stamped
    BY <1>1, <1>4 DEF Stamped
  <2>2. ASSUME NEW t \in written
        PROVE  (latest' # NONE /\ t <= latest') \/ (suite'[Hand].pc = "link" /\ suite'[Hand].stamp = t)
    <3>1. CASE latest # NONE /\ t <= latest
      <4>1. latest <= latest' /\ latest \in written
        BY <1>1, <2>1, <3>1 DEF RegressionInv, OrderInv, FilesInv
      <4>2. latest \in Nat /\ latest' \in Nat /\ t \in Nat /\ latest' # NONE
        BY <1>1, <1>2, <4>1
      <4>3. t <= latest /\ latest <= latest'
        BY <3>1, <4>1
      <4>4. t <= latest'
        BY <4>2, <4>3
      <4> QED BY <4>2, <4>4
    <3>2. CASE suite[Hand].pc = "link" /\ suite[Hand].stamp = t
      BY <1>1, <1>2, <2>1, <3>2
    <3>3. CASE \A h \in Gens : suite[h].pc \in Stamped => t <= suite[h].stamp
      BY <1>1, <1>2, <2>1, <3>3
    <3> QED BY <2>1, <3>1, <3>2, <3>3 DEF RegressionInv, OrderInv
  <2> QED BY <1>1, <2>1, <2>2 DEF OrderInv
<1>9. CurrentInv'
  <2> SUFFICES ASSUME watcher.pc \in {"append", "prune"} PROVE CurrentInv'
    BY <1>1 DEF CurrentInv
  <2>1. g = Hand /\ used.manual > 0 /\ suite'[Hand].pc = "done" /\ Linked
    BY <1>1 DEF RegressionInv, FilesInv
  <2>2. ASSUME used.manual <= 1, NEW b, IsCurrent(b) PROVE IsCurrent(b)'
    <3>1. b = latest
      BY <1>1, <2>1, <2>2 DEF IsCurrent
    <3>2. HandIsOut
      BY <1>1, <1>2, <2>1, <2>2 DEF HandIsOut
    <3>3. \A t \in written : t <= b \/ t = latest'
      BY <1>1, <2>1, <3>1, <3>2 DEF RegressionInv, OrderInv
    <3> QED BY <1>1, <2>1, <3>3 DEF IsCurrent
  <2>3. CASE watcher.pc = "append"
    BY <1>1, <1>4, <2>2, <2>3 DEF RegressionInv, CurrentInv, IsThere
  <2>4. CASE watcher.pc = "prune"
    BY <1>1, <1>4, <2>2, <2>4 DEF RegressionInv, CurrentInv
  <2> QED BY <2>3, <2>4
<1>10. LastInv'
  <2> SUFFICES ASSUME Events = 0 PROVE LastInv'
    BY <1>4 DEF LastInv
  <2>1. watcher.pc \in {"off", "spawned", "wait"}
    BY <1>1, <1>2
  <2> QED BY <1>1, <1>5, <2>1 DEF RegressionInv, LastInv
<1>11. ASSUME NEW t \in written, g # Hand, After(t) PROVE After(t)'
  <2>1. t <= latest' /\ (latest' = t => t \in overwritten)
    BY <1>1, <1>11 DEF After, Stamped
  <2>2. \A h \in Gens : suite'[h].pc \notin Stamped /\ suite'[h].pc # "link"
    BY <1>1, <1>11 DEF Stamped
  <2> QED BY <1>1, <2>1, <2>2 DEF After
<1>12. BaseInv'
  <2> SUFFICES ASSUME NEW i \in DOMAIN rows, NEW b \in Stamps \cup {NONE}, NEW result \in Report,
                      Judges(i, b, result)
               PROVE  Base(i, b, result)'
    BY <1>1, <1>5 DEF BaseInv, Judges
  <2>1. Base(i, b, result)
    BY DEF RegressionInv, BaseInv
  <2>2. b \in written
    BY <2>1 DEF Base
  <2>3. used.manual = 0 => After(b)'
    <3>1. used.manual = 0 => g # Hand
      BY <1>1, <1>2
    <3> QED BY <1>11, <2>1, <2>2, <3>1 DEF Base
  <2>4. ASSUME Repeated(b) PROVE Repeated(b)'
    <3>1. g # Hand /\ Events = 0
      BY <1>1, <1>2, <2>4 DEF Repeated
    <3>2. g = watcher.gen /\ watcher.pc \in {"spawned", "wait"} /\ suite[g].stamp = b
      BY <1>1, <1>2, <1>3, <2>4, <3>1 DEF Repeated
    <3>3. Fresh' /\ latest' = b
      BY <1>1, <3>2 DEF Fresh, SuiteExit
    <3> QED BY <1>1, <1>4, <2>4, <3>3 DEF Repeated
  <2>5. ASSUME Outdated(b) PROVE Outdated(b)'
    <3>1. g # Hand
      BY <1>1, <2>5 DEF Outdated
    <3> QED BY <1>1, <1>2, <1>11, <2>5, <3>1 DEF Outdated
  <2>6. IsThere(b, result)' <=> IsThere(b, result)
    BY <1>1 DEF IsThere
  <2> QED BY <1>1, <1>4, <1>5, <2>1, <2>3, <2>4, <2>5, <2>6 DEF Base
<1>13. TrendInv'
  <2> SUFFICES ASSUME watcher.pc = "append", NEW i \in DOMAIN rows, LastJudged(i),
                      ~Hides(i, watcher.trend, watcher.gen)'
               PROVE  Reported(rows[i].trend, watcher.trend)
    BY <1>1, <1>5 DEF TrendInv, Reported
  <2>1. ~Hides(i, watcher.trend, watcher.gen)
    BY <1>1, <1>4, <1>5 DEF Hides
  <2> QED BY <2>1 DEF RegressionInv, TrendInv
<1>14. RegressionIsRecorded'
  <2>1. used.manual <= used'.manual /\ Events <= Events'
    BY <1>1, <1>2, <1>4
  <2> QED BY <1>1, <2>1, RecordedWithoutRow DEF RegressionInv
<1> QED BY <1>7, <1>8, <1>9, <1>10, <1>12, <1>13, <1>14 DEF RegressionInv

(* There is no history yet.                                                  *)
LEMMA RegressionInitially == WatchInit => RegressionInv
<1> SUFFICES ASSUME WatchInit PROVE RegressionInv
  OBVIOUS
<1>1. /\ written = {} /\ DOMAIN reports = {} /\ latest = NONE /\ rows = <<>> /\ watcher.pc = "off"
      /\ suite = [g \in Gens \cup {Hand} |-> IdleSuite]
  BY DEF WatchInit
<1>2. \A g \in Suites : suite[g].pc \notin Stamped /\ suite[g].pc # "link"
  BY <1>1 DEF Suites, IdleSuite, Stamped
<1>3. Len(rows) = 0 /\ DOMAIN rows = {}
  BY <1>1
<1>4. Gens \subseteq Suites
  BY DEF Suites
<1>5. FilesInv
  BY <1>1, <1>2, <1>3, <1>4 DEF FilesInv, Linked
<1>6. OrderInv /\ CurrentInv /\ LastInv /\ BaseInv /\ TrendInv
  BY <1>1, <1>2, <1>3, <1>4 DEF OrderInv, CurrentInv, LastInv, BaseInv, TrendInv, LastJudged
<1>7. RegressionIsRecorded
  BY <1>3 DEF RegressionIsRecorded
<1> QED BY <1>5, <1>6, <1>7 DEF RegressionInv

(* Every step keeps what the history is known for.                           *)
LEMMA RegressionStep ==
  ASSUME WatchTypeOK, SuitesInv, RegressionInv, [WatchNext]_watchVars
  PROVE  RegressionInv'
<1>1. WatchTypeOK' /\ SuitesInv'
  BY WatchStepInv
<1>2. CASE UNCHANGED watchVars
  BY <1>1, <1>2, StutterIsQuiet, QuietKeeps
<1>3. CASE \/ NextCycle \/ NoteChild \/ Reap \/ PartialCycle \/ NoteSleep \/ WakeUp \/ AcceptStamp
           \/ Space \/ StartSleep \/ SleepEnds \/ Stop \/ Signal \/ KillWatcher
  BY <1>1, <1>3, ShellStepsAreQuiet, QuietKeeps
<1>4. CASE SkipCycle \/ RecordAbort \/ RecordCollision
  BY <1>1, <1>4, UnjudgedIsQuiet, QuietKeeps
<1>5. CASE StartWatcher \/ StartByHand \/ Spawn \/ Trap
  BY <1>1, <1>5, StartWatcherIsQuiet, StartByHandIsQuiet, SpawnIsQuiet, TrapIsQuiet, QuietKeeps
<1>6. CASE \E g \in DOMAIN suite : SuiteStep(g)
  <2>1. PICK g \in Suites : SuiteStep(g)
    <3>1. DOMAIN suite = Suites
      BY WatchTypes
    <3> QED BY <1>6, <3>1
  <2>2. CASE Refuse(g) \/ Stamp(g) \/ ChecksEnd(g)
    BY <1>1, <2>2, SuiteStepsAreQuiet, QuietKeeps
  <2>3. CASE WriteReport(g)
    BY <1>1, <2>3, WriteKeeps
  <2>4. CASE LinkLatest(g)
    BY <1>1, <2>4, LinkKeeps
  <2> QED BY <2>1, <2>2, <2>3, <2>4 DEF SuiteStep
<1>7. CASE Compare
  BY <1>1, <1>7, CompareKeeps
<1>8. CASE RecordCycle
  BY <1>1, <1>8, RecordKeeps
<1>9. CASE Prune
  BY <1>1, <1>9, PruneKeeps
<1>10. CASE Idle
  BY <1>1, <1>10, StutterIsQuiet, QuietKeeps DEF Idle
<1> QED BY <1>2, <1>3, <1>4, <1>5, <1>6, <1>7, <1>8, <1>9, <1>10 DEF WatchNext, WatcherStep

(* "shout when something that used to PASS stops passing": across skipped    *)
(* and aborted cycles, restarts, signals, kills and suites by hand, a check  *)
(* that passed in the last judged row and does not in the next is in that    *)
(* row's regressions, unless Disturbed names what came between.              *)
THEOREM NoRegressionIsMissed == WatchSpec => []RegressionIsRecorded
<1>1. WatchInit => RegressionInv
  BY RegressionInitially
<1>2. WatchTypeOK /\ SuitesInv /\ RegressionInv /\ [WatchNext]_watchVars => RegressionInv'
  BY RegressionStep
<1>3. RegressionInv => RegressionIsRecorded
  BY DEF RegressionInv
<1> QED BY <1>1, <1>2, <1>3, WatchTypeCorrect, PTL DEF WatchSpec
=============================================================================
