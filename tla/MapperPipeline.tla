-------------------------- MODULE MapperPipeline --------------------------
(***************************************************************************)
(* The mapper (simbiote/mapper): run_pipeline with its stages, the export  *)
(* of the map, its validation and the manifest, under the command line's   *)
(* main; run_doctor; import_stray_capture, which puts the capture where    *)
(* the runs read it; and the two scripts that open a map in Isaac Sim.     *)
(* Any number of runs up to MaxRuns may be under way for one --out.  Each  *)
(* may be killed or stopped by an OSError, between two steps or in the     *)
(* middle of a file.                                                       *)
(*                                                                         *)
(* An adapter is a program of its own: it fails or not, and leaves what    *)
(* it likes, except for the two SAM 3 adapters, which are CaptureBundle's. *)
(* Of the files only who wrote them is kept and whether they are whole, of *)
(* the map also what validate_map reads in it.                             *)
(***************************************************************************)
EXTENDS CaptureBundle

CONSTANTS
  MaxRuns,         \* bounds the runs
  Captures,        \* the captures the phone may export
  Formats,        \* the layer suffixes 3DGRUT may export, as numbers in the order they sort
  PreviewFormat    \* .usda

ASSUME RunsAssumption == MaxRuns \in Nat
ASSUME FormatsAssumption == Formats \subseteq Nat \ {0} /\ PreviewFormat \in Formats

Runs == 1..MaxRuns
Modes == {"proxy", "preview", "production"}
Adapters == {"colmap", "depth", "dgrut", "sam3"}
Stages == {"colmap", "depth", "recon", "label", "graph"}
NoLayer == 0
NoFile == [run |-> 0, whole |-> FALSE]
NoMap == [run |-> 0, layer |-> NoLayer, kinds |-> {}, whole |-> FALSE]

VARIABLES
  scan,            \* the phone's export
  upload,          \* the capture in the upload folder: none, or a sequence of one
  mode,            \* config.mode
  commands,        \* the adapters whose environment variable is set
  sam3,            \* which of the two SAM 3 adapters it names
  pxr,             \* whether usd-core is installed where the mapper runs
  doctor,          \* what the last run_doctor said
  runs,            \* the runs of run_pipeline
  usd, graph,      \* the map at --out, and the scene graph beside it
  layers,          \* the geometry beside it, by suffix
  shared           \* history: the runs that published while another one did

environment == <<scan, mode, commands, sam3, pxr>>
out == <<usd, graph, layers>>
vars == <<environment, upload, doctor, runs, out, shared>>

Init ==
  /\ scan \in Captures /\ upload = <<>>
  /\ mode \in Modes
  /\ commands \in IF mode = "production" THEN {Adapters} \cup {Adapters \ {a} : a \in Adapters}
                   ELSE {{}, {"sam3"}}
  /\ sam3 \in IF "sam3" \in commands THEN {"labels", "detect"} ELSE {"none"}
  /\ pxr \in BOOLEAN
  /\ doctor = "not asked"
  /\ runs = [r \in Runs |-> [pc |-> "idle", allow |-> FALSE, cause |-> "", dirs |-> {},
                             layer |-> NoLayer, kinds |-> {}, valid |-> FALSE, manifest |-> "none"]]
  /\ usd = NoMap /\ graph = NoFile /\ layers = [s \in Formats |-> NoFile] /\ shared = {}

-----------------------------------------------------------------------------
(* import_stray_capture.main: the whole export is copied, or the copy is cut *)
(* short after some of its images and before its video is complete.  A name  *)
(* that is taken is refused, also by what is left of a copy cut short.       *)

Cut(c, n) == [c EXCEPT !.video = 0,
                       !.rows = [i \in DOMAIN c.rows |-> IF i <= n THEN c.rows[i]
                                                         ELSE [c.rows[i] EXCEPT !.pair = FALSE]]]

Import ==
  /\ upload = <<>> /\ scan.metadata /\ doctor # "not asked"
  /\ \E c \in {scan} \cup (IF scan.media THEN {Cut(scan, n) : n \in 0..(Len(scan.rows) - 1)} ELSE {}) :
       upload' = <<c>>
  /\ UNCHANGED <<environment, doctor, runs, out, shared>>

(* Mutant: the check of the SAM 3 adapter is missing.                        *)
ConfiguredWithoutLabels == mode = "production" => Adapters \ {"sam3"} \subseteq commands

(* The adapters that run_doctor requires in this mode.                       *)
Configured == mode = "production" => Adapters \subseteq commands

(* run_doctor, which the operator asks first: the directories, binaries and  *)
(* checkpoints it looks for as well may be in place or not.                  *)
Doctor ==
  /\ doctor = "not asked"
  /\ \/ doctor' = "not ready"
     \/ Configured /\ doctor' = "ready"
  /\ UNCHANGED <<environment, upload, runs, out, shared>>

-----------------------------------------------------------------------------
(* A run's steps.  main turns every error into exit code 1.                  *)

Does(r, pc) == runs[r].pc = pc
Fails(r, cause) == runs' = [runs EXCEPT ![r].pc = "failed", ![r].cause = cause]

(* A stage makes its directory first, whatever becomes of it.                *)
StageFails(r, cause) ==
  runs' = [runs EXCEPT ![r].pc = "failed", ![r].cause = cause, ![r].dirs = @ \cup {runs[r].pc}]
StageDone(r, next) == runs' = [runs EXCEPT ![r].pc = next, ![r].dirs = @ \cup {runs[r].pc}]
StageOnly == UNCHANGED <<environment, upload, doctor, out, shared>>

(* _run_adapter: without its variable it raises, and so it does when the     *)
(* command exits with an error, or holds blanks only (the doctor takes it    *)
(* for set, too).                                                            *)
AdapterMissing(r, adapter) == adapter \notin commands /\ StageFails(r, "unset")
AdapterFails(r, adapter) == adapter \in commands /\ StageFails(r, "adapter")

Loaded == LoadCapture(upload[1], mode = "proxy")

Start(r) ==
  /\ Does(r, "idle") /\ upload # <<>>
  /\ \A q \in Runs : q < r => ~Does(q, "idle")
  /\ IF Loaded = Rejected THEN Fails(r, "capture")
     ELSE \E allow \in BOOLEAN : runs' = [runs EXCEPT ![r].pc = "colmap", ![r].allow = allow]
  /\ StageOnly

(* Nobody looks whether COLMAP has left anything.                            *)
RefinePoses(r) ==
  /\ Does(r, "colmap")
  /\ \/ StageDone(r, "depth") /\ (mode = "production" => "colmap" \in commands)
     \/ mode = "production" /\ (AdapterMissing(r, "colmap") \/ AdapterFails(r, "colmap"))
  /\ StageOnly

(* An adapter that leaves its directory empty fails as well.                 *)
CompleteDepth(r) ==
  /\ Does(r, "depth")
  /\ \/ StageDone(r, "recon") /\ (mode = "production" => "depth" \in commands)
     \/ mode = "production" /\ (AdapterMissing(r, "depth") \/ AdapterFails(r, "depth"))
  /\ StageOnly

(* The cloud itself, its bounds and the floor measured in it are not kept.   *)
Reconstructed(r, layer) ==
  runs' = [runs EXCEPT ![r].pc = "label", ![r].dirs = @ \cup {"recon"}, ![r].layer = layer]

Reconstruct(r) ==
  /\ Does(r, "recon")
  /\ CASE mode = "production" ->
            \/ AdapterMissing(r, "dgrut") \/ AdapterFails(r, "dgrut")
            \/ /\ "dgrut" \in commands
               /\ \E exported \in SUBSET Formats :
                    IF exported = {} THEN StageFails(r, "artifact")
                    ELSE Reconstructed(r, CHOOSE s \in exported : \A t \in exported : s <= t)
       [] mode = "preview" ->
            IF HasPreview(Loaded) THEN Reconstructed(r, PreviewFormat) ELSE StageFails(r, "points")
       [] mode = "proxy" -> Reconstructed(r, NoLayer)
  /\ StageOnly

(* Without SAM 3: the floor, measured or assumed, and a box to grasp.        *)
ProxyNodes == {[id |-> <<"navigable_floor", 1>>, kind |-> "floor", frames |-> {}],
               [id |-> <<"proxy_graspable", 1>>, kind |-> "object", frames |-> {}]}

Sam3(r) ==
  IF sam3 = "detect" THEN Detect(upload[1]) ELSE Labels(upload[1], runs[r].layer # NoLayer)

LabelScene(r) ==
  /\ Does(r, "label")
  /\ \/ /\ "sam3" \in commands
        /\ \E result \in Sam3(r) :
             IF result.cause # "" THEN StageFails(r, result.cause)
             ELSE runs' = [runs EXCEPT ![r].pc = "graph", ![r].dirs = @ \cup {"label"},
                                       ![r].kinds = {n.kind : n \in result.nodes}]
     \/ mode = "production" /\ AdapterMissing(r, "sam3")
     \/ /\ mode # "production" /\ "sam3" \notin commands
        /\ runs' = [runs EXCEPT ![r].pc = "graph", ![r].dirs = @ \cup {"label"}, ![r].kinds = {n.kind : n \in ProxyNodes}]
  /\ StageOnly

BuildSceneGraph(r) ==
  /\ Does(r, "graph")
  /\ StageDone(r, IF runs[r].layer = NoLayer THEN "export usd" ELSE "export layer")
  /\ StageOnly

-----------------------------------------------------------------------------
(* export_usd, one file after the other.                                     *)

Publishing == {"export usd", "export graph", "validate", "manifest"}
Shares(r) ==
  shared' = shared \cup LET others == {q \in Runs \ {r} : runs[q].pc \in Publishing}
                        IN  others \cup (IF others = {} THEN {} ELSE {r})

MovesTo(r, pc) == runs' = [runs EXCEPT ![r].pc = pc]

(* A run dies over a file it has opened: an OSError (main returns 1), a kill.*)
DiesWriting(r) == Fails(r, "os") \/ MovesTo(r, "killed")

Publishes(r) == Shares(r) /\ UNCHANGED <<environment, upload, doctor>>

(* Mutant: geometry that is beside the map already is not copied again.      *)
ExportLayerOnce(r) ==
  /\ Does(r, "export layer")
  /\ layers' = [layers EXCEPT ![runs[r].layer] = IF @.run # 0 THEN @ ELSE [run |-> r, whole |-> TRUE]]
  /\ MovesTo(r, "export usd")
  /\ Publishes(r) /\ UNCHANGED <<usd, graph>>

ExportLayer(r) ==
  /\ Does(r, "export layer")
  /\ \E whole \in BOOLEAN :
       /\ layers' = [layers EXCEPT ![runs[r].layer] = [run |-> r, whole |-> whole]]
       /\ IF whole THEN MovesTo(r, "export usd") ELSE DiesWriting(r)
  /\ Publishes(r) /\ UNCHANGED <<usd, graph>>

(* What there is of run r's map.  One that is cut short says too little for  *)
(* the checks of its text, or lacks but its end.                             *)
MapOf(r, kinds, whole) == [run |-> r, layer |-> runs[r].layer, kinds |-> kinds, whole |-> whole]

(* Mutant: an error while the map is written is passed over.                 *)
ExportUsdHeedless(r) ==
  /\ Does(r, "export usd")
  /\ \E whole \in BOOLEAN : usd' = MapOf(r, runs[r].kinds, whole)
  /\ MovesTo(r, "export graph")
  /\ Publishes(r) /\ UNCHANGED <<graph, layers>>

ExportUsd(r) ==
  /\ Does(r, "export usd")
  /\ \/ usd' = MapOf(r, runs[r].kinds, TRUE) /\ MovesTo(r, "export graph")
     \/ usd' \in {MapOf(r, kinds, FALSE) : kinds \in {{}, runs[r].kinds}} /\ DiesWriting(r)
  /\ Publishes(r) /\ UNCHANGED <<graph, layers>>

ExportGraph(r) ==
  /\ Does(r, "export graph")
  /\ \E whole \in BOOLEAN :
       /\ graph' = [run |-> r, whole |-> whole]
       /\ IF whole THEN MovesTo(r, "validate") ELSE DiesWriting(r)
  /\ Publishes(r) /\ UNCHANGED <<usd, layers>>

(* Mutant: the flag that says proxy is not looked at.                        *)
AcceptsProxy(map, allow_proxy) == map.kinds = {"floor", "object"} /\ (pxr => map.whole)

(* validate_map.valid: what the map's text says, of a proxy that it has no   *)
(* geometry; and that the parser opens it, where there is a parser.          *)
Accepts(map, allow_proxy) ==
  /\ map.kinds = {"floor", "object"}
  /\ map.layer = NoLayer => allow_proxy
  /\ pxr => map.whole

Validate(r) ==
  /\ Does(r, "validate")
  /\ runs' = [runs EXCEPT ![r].pc = "manifest", ![r].valid = Accepts(usd, runs[r].allow)]
  /\ StageOnly

(* The manifest is written whatever the verdict, and then the run returns or *)
(* raises.                                                                   *)
WriteManifest(r) ==
  /\ Does(r, "manifest")
  /\ runs' = IF runs[r].valid THEN [runs EXCEPT ![r].pc = "returned", ![r].manifest = "valid"]
             ELSE [runs EXCEPT ![r].pc = "failed", ![r].cause = "invalid", ![r].manifest = "invalid"]
  /\ StageOnly

(* An OSError before a file of --out is opened: of a directory that cannot   *)
(* be made, in a stage's own files (in its directory, if it got that far),   *)
(* of the manifest, which a part of does not make readable; or the parser's  *)
(* error about a map it cannot open.                                         *)
Breaks(r) ==
  /\ \/ runs[r].pc \in Stages \cup {"export layer"} \cup Publishing /\ Fails(r, "os")
     \/ runs[r].pc \in Stages /\ StageFails(r, "os")
  /\ StageOnly

Ended == {"idle", "returned", "failed", "killed"}
Kill(r) ==
  /\ runs[r].pc \notin Ended
  /\ MovesTo(r, "killed")
  /\ StageOnly

Run(r) ==
  \/ Start(r) \/ RefinePoses(r) \/ CompleteDepth(r) \/ Reconstruct(r) \/ LabelScene(r)
  \/ BuildSceneGraph(r) \/ ExportLayer(r) \/ ExportUsd(r) \/ ExportGraph(r)
  \/ Validate(r) \/ WriteManifest(r) \/ Breaks(r)

Next == Import \/ Doctor \/ \E r \in Runs : Run(r) \/ Kill(r)

Spec == Init /\ [][Next]_vars

-----------------------------------------------------------------------------
(* What the scripts that open a map in Isaac Sim say of it.                  *)

(* validate_usd_isaac: it opens, with a floor that is navigable and an       *)
(* object to grasp; a proxy is a warning.                                    *)
LoadsInIsaac(map) == map.whole /\ map.kinds = {"floor", "object"}

(* check_mapper_usd asks for reconstructed points as well, which must be     *)
(* readable; that they fill more than a cubic metre and that a body rests on *)
(* the floor is left open.                                                   *)
MayPassStepTwo(map) ==
  LoadsInIsaac(map) /\ map.layer # NoLayer /\ layers[map.layer].whole

-----------------------------------------------------------------------------
(* What a run leaves at --out when it ends, however it ends.  One that ends  *)
(* with a manifest has put its map, its scene graph and the geometry there,  *)
(* all whole; one that returns has reconstructed geometry unless a proxy was *)
(* asked for.  One that ends without has left no map without its geometry    *)
(* and no graph without its map, and nothing when a stage failed.  A run     *)
(* whose files another run wrote over meanwhile is excepted.                 *)
Mine(r) == [run |-> r, whole |-> TRUE]
HasPublished(r) == usd.run = r \/ graph.run = r \/ \E s \in Formats : layers[s].run = r

IsHandedOff(r) ==
  /\ usd.run = r /\ usd.whole /\ graph = Mine(r)
  /\ usd.layer # NoLayer => layers[usd.layer] = Mine(r)
  /\ runs[r].dirs = Stages

LeavesInOrder(r) ==
  /\ runs[r].manifest # "none" => IsHandedOff(r)
  /\ runs[r].pc = "returned" =>
       runs[r].manifest = "valid" /\ (usd.layer = NoLayer => mode = "proxy" /\ runs[r].allow)
  /\ usd.run = r /\ usd.layer # NoLayer => layers[usd.layer] = Mine(r)
  /\ graph.run = r => usd.run = r /\ usd.whole
  /\ runs[r].pc = "failed" /\ runs[r].cause \notin {"os", "invalid"} => ~HasPublished(r)

Ends(r) ==
  runs[r].pc \notin Ended /\ runs'[r].pc \in {"returned", "failed", "killed"} /\ r \notin shared'

PublishedWhole == [][\A r \in Runs : Ends(r) => LeavesInOrder(r)']_vars

(* The labels of a run that gets that far always satisfy the contract:       *)
(* validation turns down proxies that were not asked for, and nothing else.  *)
OnlyProxiesAreInvalid ==
  \A r \in Runs : runs[r].cause = "invalid" /\ r \notin shared => mode = "proxy" /\ ~runs[r].allow

(* Where the doctor found everything ready, no run fails for an adapter that *)
(* is not configured.                                                        *)
DoctorForecasts ==
  doctor = "ready" => \A r \in Runs : runs[r].cause # "unset"

(* What passes for a map at --out is one, of one run.  A map that validate_map*)
(* accepts and Isaac Sim cannot open is found only where the parser is        *)
(* missing, of a run that died over it and has no manifest; and a map that    *)
(* may pass the acceptance test with the geometry of another run is found     *)
(* only where that run has not got, or did not get, to its own map (or the    *)
(* two were exporting at the same time).                                      *)
PassedMapIsSound ==
  LET died(r) == runs[r].pc \in {"failed", "killed"} /\ runs[r].manifest = "none"
  IN  /\ Accepts(usd, TRUE) /\ ~LoadsInIsaac(usd) => ~pxr /\ died(usd.run)
      /\ MayPassStepTwo(usd) =>
           LET r == layers[usd.layer].run
           IN  \/ r = usd.run \/ {r, usd.run} \cap shared # {}
               \/ runs[r].pc = "export usd" \/ died(r)
=============================================================================
