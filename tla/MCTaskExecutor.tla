--------------------------- MODULE MCTaskExecutor ---------------------------
(* Instances of TaskExecutor for TLC.                                        *)
EXTENDS TaskExecutor

CONSTANTS o1, o2

Move(t) == [tool |-> t, object |-> NONE]
Grasp(t, o) == [tool |-> t, object |-> o]

(* Every plan of up to three calls over one tool of each class the executor  *)
(* tells apart: pick_up has navigate_to's precondition and attach_handle's   *)
(* gripper, approach_wheelchair and align_gripper have neither.              *)
MCCalls ==
  {Move("navigate_to"), Grasp("pick_up", o1), Move("nav_with_payload"),
   Grasp("approach_wheelchair", o1), Grasp("attach_handle", o1),
   Grasp("attach_handle", o2), Move("detach")}

MCPlans == UNION {[1..k -> MCCalls] : k \in 1..3}

(* The compound plan of tests/agentic/test_task_executor.py.                 *)
CompoundPlan ==
  {<<Grasp("approach_wheelchair", o1), Grasp("align_gripper", o1),
     Grasp("attach_handle", o1), Move("nav_with_payload"), Move("detach")>>}
=============================================================================
