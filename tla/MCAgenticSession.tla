-------------------------- MODULE MCAgenticSession --------------------------
(* AgenticSession for TLC: a part of hospital_scene_graph.json, what is said *)
(* to it and what a model may answer.                                        *)
EXTENDS AgenticSession

Location(id, spelled, names) ==
  [id |-> id, kind |-> "location", spelled |-> spelled, names |-> names, usable |-> TRUE, wheelchair |-> FALSE]
Thing(id, spelled, names, graspable) ==
  [id |-> id, kind |-> "object", spelled |-> spelled, names |-> names, usable |-> graspable,
   wheelchair |-> id = "wheelchair_01"]

MCNodes == <<
  Location("corridor", <<"corridor">>, {<<"corridor">>, <<"hallway">>, <<"main", "corridor">>}),
  Location("supply_room", <<"supply", "room">>,
           {<<"supply", "room">>, <<"supply">>, <<"storage", "room">>, <<"stores">>}),
  Location("room_1", <<"room", "1">>, {<<"room", "1">>, <<"room", "one">>, <<"patient", "room", "1">>}),
  Location("room_2", <<"room", "2">>, {<<"room", "2">>, <<"room", "two">>, <<"patient", "room", "2">>}),
  Thing("tray_01", <<"tray", "01">>, {<<"tray">>, <<"food", "tray">>, <<"meal", "tray">>}, TRUE),
  Thing("wheelchair_01", <<"wheelchair", "01">>, {<<"wheelchair">>, <<"chair">>, <<"the", "wheelchair">>}, TRUE),
  Thing("iv_stand_01", <<"iv", "stand", "01">>, {<<"iv", "stand">>, <<"drip", "stand">>, <<"iv", "pole">>}, FALSE)>>

In(object, location) == [from |-> object, relation |-> "in", to |-> location]
Door(location) == [from |-> location, relation |-> "connects_to", to |-> "corridor"]
MCEdges == <<In("tray_01", "supply_room"), In("wheelchair_01", "room_1"), In("iv_stand_01", "room_2"),
             Door("supply_room"), Door("room_1"), Door("room_2")>>

MCAlphabet == <<"corridor", "iv_stand_01", "room_1", "room_2", "supply_room", "tray_01", "wheelchair_01">>

(* "chair" is written within "wheelchair", and "1" begins "12".              *)
MCWithin == {<<"ends", "chair", "wheelchair">>, <<"begins", "1", "12">>}

MCPlans ==
  [to_room_2  |-> <<Call("navigate_to", "room_2")>>,
   to_room_7  |-> <<Call("navigate_to", "room_7")>>,
   attach     |-> <<Call("attach_handle", "wheelchair_01")>>]

(* Driving up to a wheelchair and reaching for it is logged like the rest.   *)
MCActions == [tool \in ToSet(Tools) |-> IF tool \in {"approach_wheelchair", "align_gripper"} THEN 0 ELSE 1]

MCInstructions ==
  {<<"move", "the", "wheelchair", "from", "room", "1", "to", "room", "2">>,
   <<"grab", "the", "tray">>,
   <<"take", "the", "iv", "stand", "to", "room", "1">>}

MCMenu == <<<<"go", "to", "the", "supply", "room">>>>

MCSettings ==
  {[profile |-> "qwen3-8b", model |-> "qwen3:8b", timeout |-> "number"],
   [profile |-> "qwen4", model |-> "qwen3:8b", timeout |-> "number"],
   [profile |-> "nemotron-super", model |-> "ultra", timeout |-> "number"]}

MCModelReplies ==
  {<<"thinking", "fence", "json", "newline", "[", "attach", "]", "newline", "fence">>,
   <<"{", "to_room_7", "}">>,
   <<"see", "[", "1", "]", "{", "to_room_2", "}">>,
   <<"cannot", "go", "to", "room", "1">>}
=============================================================================
