--------------------------- MODULE SceneLanguage ---------------------------
(***************************************************************************)
(* What an instruction and a reply mean: the scene graph and its resolve   *)
(* (simbiote/agentic/scene_query.py), the rules of FakeBackend             *)
(* (llm_backend.py), and what is read out of a model's reply and checked   *)
(* before it is run (tool_schema.py).                                      *)
(*                                                                         *)
(* A phrase is a sequence of words, in lower case and without punctuation; *)
(* "pickup" stands for "pick up" as well.  A score is sixty times the      *)
(* code's, so that a third of a name counts exactly.                       *)
(***************************************************************************)
EXTENDS Integers, Sequences, FiniteSets, FiniteSetsExt, SequencesExt

CONSTANTS
  Nodes,     \* of the scene graph's file, in its order; see Node
  Edges,     \* likewise: [from, relation, to]
  Alphabet,  \* the ids of the nodes in the order of the alphabet
  Within,    \* <<how, w, u>>: w is the beginning of u, its end, or inside it
  Plans      \* what a word of a reply stands for as the text of tool calls

ASSUME PlansAssumption == \A w \in DOMAIN Plans : Plans[w] \in Seq([tool : STRING, id : STRING])

NoNode == "none"
Node == [id : STRING \ {NoNode}, kind : {"location", "object"}, spelled : Seq(STRING), names : SUBSET Seq(STRING),
         usable : BOOLEAN, wheelchair : BOOLEAN]
ASSUME NodesAssumption == Nodes \in Seq(Node) /\ \A i \in DOMAIN Nodes : IsFiniteSet(Nodes[i].names)

Contained == {"in", "on", "inside", "on-top-of"}
Stopwords == {"the", "a", "an", "to", "in", "at", "into", "from", "of", "please"}
FetchVerbs == {"pickup", "grab", "fetch", "get", "collect", "bring", "take", "carry", "deliver"}
GotoVerbs == {"go", "drive", "navigate", "move", "head", "proceed"}
PayloadVerbs == {"move", "push", "take", "bring", "wheel", "transport", "deliver"}

(* _parse: a node that repeats an id takes the place of the first.           *)
Listed(kind) ==
  LET file(listed, node) ==
        IF node.kind # kind THEN listed
        ELSE IF \E k \in DOMAIN listed : listed[k].id = node.id
        THEN [listed EXCEPT ![CHOOSE k \in DOMAIN listed : listed[k].id = node.id] = node]
        ELSE Append(listed, node)
  IN  FoldLeft(file, <<>>, Nodes)

Locations == Listed("location")
Objects == Listed("object")

With(id, listed) == {n \in ToSet(listed) : n.id = id}

FirstTo(edges) == IF edges = <<>> THEN NoNode ELSE edges[1].to

LocationOf(id) ==
  FirstTo(SelectSeq(Edges, LAMBDA e : e.from = id /\ e.relation \in Contained /\ With(e.to, Locations) # {}))

-----------------------------------------------------------------------------
Normalize(words) == FoldLeft(LAMBDA kept, w : IF w \in Stopwords THEN kept ELSE Append(kept, w), <<>>, words)

(* `name in phrase` on strings: the first word of the name may be the end of *)
(* a longer one, and its last word the beginning of one.                     *)
Occurs(name, phrase) ==
  LET fits(i, u) == \/ name[i] = u
                    \/ Len(name) = 1 /\ \E how \in {"begins", "ends", "inside"} : <<how, name[i], u>> \in Within
                    \/ Len(name) > 1 /\ i = 1 /\ <<"ends", name[i], u>> \in Within
                    \/ Len(name) > 1 /\ i = Len(name) /\ <<"begins", name[i], u>> \in Within
  IN  \E k \in 0..(Len(phrase) - Len(name)) : \A i \in DOMAIN name : fits(i, phrase[k + i])

(* In full, and the longer the better; or else by the share of its words.    *)
NameScore(name, phrase) ==
  IF Occurs(name, phrase) THEN 120 + 6 * Len(name)
  ELSE (90 * Cardinality(ToSet(name) \cap ToSet(phrase))) \div Cardinality(ToSet(name))

BestName(node, phrase) ==
  Max({0} \cup {NameScore(n, phrase) : n \in {Normalize(m) : m \in node.names} \ {<<>>}})

RoomIsNamed(node, phrase) ==
  \E room \in With(LocationOf(node.id), Locations) : \E n \in room.names : Occurs(Normalize(n), phrase)

(* _score: an object gains by its room being named as well.                  *)
Score(node, phrase) ==
  BestName(node, phrase)
    + IF node.kind = "object" /\ BestName(node, phrase) > 0 /\ RoomIsNamed(node, phrase) THEN 30 ELSE 0

Better(best, node, score) == IF score > best.score THEN [id |-> node.id, score |-> score] ELSE best

(* resolve: the first of the best, if it is worth a name.                    *)
WorthAName(best) == IF best.score >= 60 THEN best.id ELSE NoNode

Resolve(words, listed) ==
  WorthAName(FoldLeft(LAMBDA best, node : Better(best, node, Score(node, Normalize(words))),
                      [id |-> NoNode, score |-> 0], listed))

-----------------------------------------------------------------------------
(* What follows the last "to" that stands between two words.                 *)
AfterTo(words) ==
  LET tos == {k \in 2..(Len(words) - 1) : words[k] = "to"}
  IN  IF tos = {} THEN <<>> ELSE SubSeq(words, Max(tos) + 1, Len(words))

(* Mutant: the whole instruction is searched at once.                        *)
DestinationAnywhere(words) == Resolve(words, Locations)

Destination(words) ==
  LET told == Resolve(AfterTo(words), Locations)
  IN  IF told # NoNode THEN told ELSE Resolve(words, Locations)

Call(tool, id) == [tool |-> tool, id |-> id]
Drive(id) == IF id = NoNode THEN <<>> ELSE <<Call("navigate_to", id)>>

(* A payload is attached, driven and released.                               *)
PayloadPlan(id, destination) ==
  <<Call("approach_wheelchair", id), Call("align_gripper", id), Call("attach_handle", id),
    Call("nav_with_payload", destination), Call("detach", NoNode)>>

(* Fetched where it is, and carried on unless that is where it goes.         *)
FetchPlan(id, destination) ==
  Drive(LocationOf(id)) \o <<Call("pick_up", id)>>
    \o (IF destination = LocationOf(id) THEN <<>> ELSE Drive(destination))

(* FakeBackend._plan, of the place and the object that the words name.       *)
PlanFor(words, destination, id) ==
  LET says(verbs) == ToSet(words) \cap verbs # {}
      object == With(id, Objects)
  IN  IF destination # NoNode /\ says(PayloadVerbs) /\ \E o \in object : o.wheelchair
      THEN PayloadPlan(id, destination)
      ELSE IF says(FetchVerbs) /\ \E o \in object : o.usable THEN FetchPlan(id, destination)
      ELSE IF says(GotoVerbs) THEN Drive(destination) ELSE <<>>

RulesPlan(words) == PlanFor(words, Destination(words), Resolve(words, Objects))

-----------------------------------------------------------------------------
(* _first_balanced: from the first bracket to the one that closes it; the    *)
(* other kind of bracket is not counted, nor is anything within a string.    *)
FirstBalanced(text) ==
  LET opens == {i \in DOMAIN text : text[i] \in {"{", "["}}
      closer == IF text[Min(opens)] = "{" THEN "}" ELSE "]"
      read(a, i) ==
        IF a.end > 0 THEN a
        ELSE IF a.string THEN
          [a EXCEPT !.escaped = ~a.escaped /\ text[i] = "\\", !.string = a.escaped \/ text[i] # "quote"]
        ELSE [a EXCEPT !.string = text[i] = "quote",
                       !.depth = IF text[i] = text[Min(opens)] THEN @ + 1
                                 ELSE IF text[i] = closer THEN @ - 1 ELSE @,
                       !.end = IF text[i] = closer /\ a.depth = 1 THEN i ELSE 0]
      start == [depth |-> 0, string |-> FALSE, escaped |-> FALSE, end |-> 0]
      last == FoldLeft(read, start, [k \in 1..(Len(text) - Min(opens) + 1) |-> Min(opens) + k - 1]).end
  IN  IF opens = {} THEN <<>> ELSE IF last = 0 THEN <<>> ELSE SubSeq(text, Min(opens), last)

(* The language a fence may begin with.                                      *)
Untagged(inner) ==
  IF Len(inner) >= 2 /\ inner[1] = "json" /\ inner[2] = "newline" THEN SubSeq(inner, 3, Len(inner)) ELSE inner

OrElse(blob, other) == IF blob = <<>> THEN other ELSE blob

(* _extract_json: what is between the first two fences comes first.          *)
ExtractJson(text) ==
  LET fences == SetToSortSeq({i \in DOMAIN text : text[i] = "fence"}, <)
  IN  IF Len(fences) < 2 THEN FirstBalanced(text)
      ELSE OrElse(FirstBalanced(Untagged(SubSeq(text, fences[1] + 1, fences[2] - 1))), FirstBalanced(text))

(* parse_tool_calls: an object or a bare list of tool calls; else what the   *)
(* SchemaError has to say, which is the text itself when there is no JSON.   *)
ReadCalls(blob, text) ==
  LET readable == Len(blob) = 3 /\ blob[2] \in DOMAIN Plans
  IN  [readable |-> readable, calls |-> IF readable THEN Plans[blob[2]] ELSE <<>>,
       words |-> IF blob = <<>> THEN text ELSE <<>>]

ParseToolCalls(text) == ReadCalls(ExtractJson(text), text)

-----------------------------------------------------------------------------
(* The names of the tools as the prompt's words; only one of them contains a *)
(* name of the scene, and none a word that the rules look for.               *)
Spelled(tool) == IF tool = "approach_wheelchair" THEN <<"approach", "wheelchair">> ELSE <<tool>>
Driving == {"navigate_to", "nav_with_payload"}
Grasping == {"pick_up", "approach_wheelchair", "align_gripper", "attach_handle"}
Tools == <<"align_gripper", "approach_wheelchair", "attach_handle", "detach", "nav_with_payload",
           "navigate_to", "pick_up">>

Target(call) == IF call.tool \in Driving THEN With(call.id, Locations) ELSE With(call.id, Objects)

(* validate_call: an id of the scene, of the tool's kind, that may be driven *)
(* to or grasped; detach has none.                                           *)
IsValid(call) ==
  \/ call.tool \in Driving \cup Grasping /\ \E n \in Target(call) : n.usable
  \/ call.tool = "detach" /\ call.id = NoNode

(* The words of its errors: an unknown id is answered by all the ids there   *)
(* are, an object that may not be grasped by its label.                      *)
Errors(call) ==
  LET ids == {n.id : n \in ToSet(IF call.tool \in Driving THEN Locations ELSE Objects)}
      known == SelectSeq(Alphabet, LAMBDA id : id \in ids)
      spelled(id) == (CHOOSE n \in ToSet(Nodes) : n.id = id).spelled
  IN  IF IsValid(call) THEN <<>>
      ELSE IF call.tool \notin ToSet(Tools)
      THEN FlattenSeq([k \in DOMAIN Tools |-> Spelled(Tools[k])])
      ELSE IF call.tool \in Driving \cup Grasping /\ Target(call) = {}
      THEN Spelled(call.tool) \o <<call.id>> \o FlattenSeq([k \in DOMAIN known |-> spelled(known[k])])
      ELSE Spelled(call.tool) \o (IF Target(call) = {} THEN <<>> ELSE spelled(call.id))

(* validate_calls: an empty plan is refused as well.                         *)
Valid(calls) == calls # <<>> /\ \A i \in DOMAIN calls : IsValid(calls[i])

Complaint(calls) == FlattenSeq([i \in DOMAIN calls |-> Errors(calls[i])])
=============================================================================
