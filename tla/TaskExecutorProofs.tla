------------------------- MODULE TaskExecutorProofs -------------------------
(***************************************************************************)
(* What holds of every execute(), for every set of plans and every way a   *)
(* backend's skills may end or stall; that the belief about what is held   *)
(* is never ahead of the hand; and that a run is a run of PlanRun.         *)
(***************************************************************************)
EXTENDS TaskExecutor, TLAPS

(* While the executor waits, the plan has not failed and the worker serves   *)
(* the step about to be reported; the worker never serves a step outside the *)
(* plan; a run releases only after it has failed.                            *)
WorkerInv ==
  /\ pc = "wait" => ok /\ Len(steps) < Len(calls) /\ skill.step = Len(steps) + 1
  /\ pc = "wait" => skill.phase # "idle"
  /\ skill.phase # "idle" => skill.step \in 1..Len(calls)
  /\ pc \in {"release", "release_update"} => ~ok /\ Len(steps) = Len(calls)

IInv ==
  /\ TypeOK
  /\ ReportShape
  /\ WorkerInv
  /\ OrphanIsReported
  /\ PreconditionHoldsWhileRunning
  /\ AttachInv
  /\ CompensatedHoldsNothing
  /\ compensated => pc = "returned"

-----------------------------------------------------------------------------
(* A plan's calls are calls, and an attach_handle names its object.          *)
LEMMA PlanFacts ==
  ASSUME calls \in Plans
  PROVE  /\ calls \in Seq(Call)
         /\ \A i \in 1..Len(calls) :
              /\ calls[i].tool \in Tool
              /\ calls[i].tool = "attach_handle" => calls[i].object \in Objects
  <1>1. /\ calls \in Seq(Call)
        /\ \A i \in 1..Len(calls) : calls[i].tool = "attach_handle" => calls[i].object \in Objects
    BY PlansAssumption
  <1>2. \A i \in 1..Len(calls) : calls[i] \in Call
    BY <1>1
  <1>. QED  BY <1>1, <1>2 DEF Call

(* A reported failure keeps the report's shape: the failing step is the last *)
(* one reported and failed_step names it.                                    *)
LEMMA FailureKeepsReport ==
  ASSUME TypeOK, ReportShape, ok, Len(steps) < Len(calls), calls' = calls,
         NEW status \in Failures, ReportFailure(status), pc' # "returned"
  PROVE  /\ steps' \in Seq(Status) /\ Len(steps') = Len(steps) + 1
         /\ ok' = FALSE /\ failed_step' = Len(steps) + 1
         /\ failed_step' \in 0..Len(steps') /\ compensated' = compensated
         /\ steps'[failed_step'] = status
         /\ ReportShape'
  <1>1. status \in Status
    BY DEF Failures, Status
  <1>2. steps' = Append(steps, status) /\ steps \in Seq(Status) /\ failed_step' = Len(steps) + 1
    BY DEF ReportFailure, TypeOK, index
  <1>3. /\ steps' \in Seq(Status) /\ Len(steps') = Len(steps) + 1
        /\ \A i \in 1..Len(steps) : steps'[i] = steps[i]
        /\ steps'[Len(steps) + 1] = status
    BY <1>1, <1>2
  <1>4. \A i \in 1..Len(steps) : steps[i] = "succeeded"
    BY DEF ReportShape
  <1>5. ok' = FALSE /\ compensated' = compensated
    BY DEF ReportFailure
  <1>6. ReportShape'
    BY <1>2, <1>3, <1>4, <1>5 DEF ReportShape, Failures
  <1>. QED  BY <1>2, <1>3, <1>5, <1>6

(* Init establishes the invariant.                                           *)
LEMMA InitInv == Init => IInv
  <1> SUFFICES ASSUME Init PROVE IInv
    OBVIOUS
  <1>1. steps = <<>> /\ Len(steps) = 0 /\ steps \in Seq(Status)
    BY DEF Init
  <1>2. calls \in Plans /\ Len(calls) \in Nat
    BY PlanFacts DEF Init
  <1>3. skill \in [phase : Phase, step : Nat, result : Outcome \cup {NONE}]
    BY DEF Init, Phase
  <1>4. TypeOK
    <2>1. ok \in BOOLEAN /\ compensated \in BOOLEAN
      BY Zenon DEF Init
    <2>. QED  BY <1>1, <1>2, <1>3, <2>1 DEF Init, TypeOK, PC
  <1>5. ReportShape
    BY <1>1 DEF Init, ReportShape
  <1>. QED
    BY <1>4, <1>5 DEF Init, IInv, WorkerInv, OrphanIsReported, Orphaned,
       PreconditionHoldsWhileRunning, AttachInv, CompensatedHoldsNothing

-----------------------------------------------------------------------------
(* SkipStep: a failed plan's next step is only added to the report.          *)
LEMMA SkipInv == IInv /\ SkipStep => IInv'
  <1> SUFFICES ASSUME IInv, SkipStep PROVE IInv'
    OBVIOUS
  <1>1. /\ steps \in Seq(Status) /\ steps' = Append(steps, "skipped")
        /\ Len(steps) < Len(calls) /\ ~ok /\ pc = "step" /\ pc' = "step"
    BY PlanFacts DEF IInv, TypeOK, SkipStep, Exhausted
  <1>2. /\ steps' \in Seq(Status) /\ Len(steps') = Len(steps) + 1
        /\ \A i \in 1..Len(steps) : steps'[i] = steps[i]
        /\ steps'[Len(steps) + 1] = "skipped"
    BY <1>1 DEF Status
  <1>3. UNCHANGED <<calls, pc, ok, failed_step, compensated, skill, attached_to, gripper>>
    BY DEF SkipStep
  <1>4. TypeOK'
    <2>1. ok' \in BOOLEAN /\ compensated' \in BOOLEAN
      BY <1>3, Zenon DEF IInv, TypeOK
    <2>2. Len(calls) \in Nat
      BY PlanFacts DEF IInv, TypeOK
    <2>. QED  BY <1>1, <1>2, <1>3, <2>1, <2>2 DEF IInv, TypeOK
  <1>5. ReportShape'
    BY <1>1, <1>2, <1>3 DEF IInv, ReportShape
  <1>6. WorkerInv'
    BY <1>1, <1>3 DEF IInv, WorkerInv
  <1>7. OrphanIsReported'
    BY <1>1, <1>2, <1>3 DEF IInv, OrphanIsReported, Orphaned, ReportShape
  <1>. QED
    BY <1>1, <1>3, <1>4, <1>5, <1>6, <1>7
    DEF IInv, PreconditionHoldsWhileRunning, AttachInv, CompensatedHoldsNothing,
        Serving, PreconditionError

(* BlockStep: no skill is under way when the next call is refused, or the    *)
(* plan would have failed already.                                           *)
LEMMA BlockInv == IInv /\ BlockStep => IInv'
  <1> SUFFICES ASSUME IInv, BlockStep PROVE IInv'
    OBVIOUS
  <1>1. /\ Len(steps) < Len(calls) /\ ok /\ pc = "step" /\ pc' = "step"
        /\ UNCHANGED <<calls, pc, skill, attached_to, gripper>>
        /\ ReportFailure("blocked")
        /\ calls \in Seq(Call)
    BY PlanFacts DEF IInv, TypeOK, BlockStep, Exhausted
  <1>2. /\ steps' \in Seq(Status) /\ Len(steps') = Len(steps) + 1
        /\ ok' = FALSE /\ failed_step' \in 0..Len(steps') /\ compensated' = compensated
        /\ ReportShape'
    BY <1>1, FailureKeepsReport DEF IInv, Failures
  <1>3. TypeOK'
    <2>1. ok' \in BOOLEAN /\ compensated' \in BOOLEAN
      BY <1>2, Zenon DEF IInv, TypeOK
    <2>. QED  BY <1>1, <1>2, <2>1 DEF IInv, TypeOK
  <1>4. ~Orphaned
    BY <1>1 DEF IInv, OrphanIsReported, Orphaned, ReportShape, TypeOK, WorkerInv
  <1>5. ~Orphaned'
    BY <1>1, <1>4 DEF Orphaned
  <1>6. WorkerInv'
    BY <1>1 DEF IInv, WorkerInv
  <1>. QED
    BY <1>1, <1>2, <1>3, <1>5, <1>6
    DEF IInv, OrphanIsReported, PreconditionHoldsWhileRunning, AttachInv,
        CompensatedHoldsNothing, Serving, PreconditionError

(* A success extends a report that has no failure in it.                     *)
LEMMA SuccessKeepsReport ==
  ASSUME TypeOK, ReportShape, ok, Len(steps) < Len(calls), calls' = calls,
         ReportSuccess, pc' # "returned"
  PROVE  /\ steps' \in Seq(Status) /\ Len(steps') = Len(steps) + 1
         /\ UNCHANGED <<ok, failed_step, compensated>>
         /\ ReportShape'
  <1>1. /\ steps \in Seq(Status) /\ steps' = Append(steps, "succeeded")
        /\ UNCHANGED <<ok, failed_step, compensated>>
    BY DEF TypeOK, ReportSuccess
  <1>2. /\ steps' \in Seq(Status) /\ Len(steps') = Len(steps) + 1
        /\ \A i \in 1..Len(steps) : steps'[i] = steps[i]
        /\ steps'[Len(steps) + 1] = "succeeded"
    BY <1>1 DEF Status
  <1>3. ReportShape'
    BY <1>1, <1>2 DEF ReportShape
  <1>. QED  BY <1>1, <1>2, <1>3

(* CollectResult: the worker's result becomes the step's report.             *)
LEMMA CollectInv == IInv /\ CollectResult => IInv'
  <1> SUFFICES ASSUME IInv, CollectResult PROVE IInv'
    OBVIOUS
  <1>1. /\ pc = "wait" /\ skill.phase = "done" /\ ok /\ Len(steps) < Len(calls)
        /\ UNCHANGED <<calls, skill, attached_to, gripper>>
        /\ calls \in Seq(Call)
    BY PlanFacts DEF IInv, TypeOK, CollectResult, WorkerInv
  <1>2. ~Orphaned'
    BY <1>1 DEF Orphaned
  <1>3. pc' # "wait" /\ pc' \notin {"release", "release_update"} /\ pc' \in PC /\ pc' # "returned"
    BY <1>1 DEF CollectResult, PC
  <1>4. ReportShape' /\ TypeOK' /\ compensated' = compensated
    <2>1. CASE pc' = "raised"
      <3>1. UNCHANGED reportVars
        BY <2>1, <1>1 DEF CollectResult
      <3>2. ok' \in BOOLEAN /\ compensated' \in BOOLEAN
        BY <3>1, Zenon DEF IInv, TypeOK, reportVars
      <3>. QED  BY <1>1, <1>3, <3>1, <3>2 DEF IInv, TypeOK, ReportShape, reportVars
    <2>2. CASE ReportSuccess
      <3>1. /\ steps' \in Seq(Status) /\ Len(steps') = Len(steps) + 1
            /\ UNCHANGED <<ok, failed_step, compensated>>
            /\ ReportShape'
        BY <1>1, <1>3, <2>2, SuccessKeepsReport DEF IInv
      <3>2. ok' \in BOOLEAN /\ compensated' \in BOOLEAN
        BY <3>1, Zenon DEF IInv, TypeOK
      <3>. QED  BY <1>1, <1>3, <3>1, <3>2 DEF IInv, TypeOK
    <2>3. ASSUME NEW status \in {"failed", "timed_out"}, ReportFailure(status)
          PROVE  ReportShape' /\ TypeOK' /\ compensated' = compensated
      <3>1. /\ steps' \in Seq(Status) /\ Len(steps') = Len(steps) + 1
            /\ ok' = FALSE /\ failed_step' \in 0..Len(steps') /\ compensated' = compensated
            /\ ReportShape'
        BY <1>1, <1>3, <2>3, FailureKeepsReport DEF IInv, Failures
      <3>2. ok' \in BOOLEAN /\ compensated' \in BOOLEAN
        BY <3>1, Zenon DEF IInv, TypeOK
      <3>. QED  BY <1>1, <1>3, <3>1, <3>2 DEF IInv, TypeOK
    <2>. QED  BY <2>1, <2>2, <2>3 DEF CollectResult
  <1>. QED
    BY <1>1, <1>2, <1>3, <1>4
    DEF IInv, WorkerInv, OrphanIsReported, PreconditionHoldsWhileRunning, AttachInv,
        CompensatedHoldsNothing

(* TimeOutSkill: the skill is orphaned, and reported in the same step.       *)
LEMMA TimeOutInv == IInv /\ TimeOutSkill => IInv'
  <1> SUFFICES ASSUME IInv, TimeOutSkill PROVE IInv'
    OBVIOUS
  <1>1. /\ pc = "wait" /\ pc' = "step" /\ ok /\ Len(steps) < Len(calls)
        /\ skill.step = Len(steps) + 1
        /\ UNCHANGED <<calls, skill, attached_to, gripper>>
        /\ ReportFailure("timed_out")
        /\ calls \in Seq(Call)
    BY PlanFacts DEF IInv, TypeOK, TimeOutSkill, WorkerInv
  <1>2. /\ steps' \in Seq(Status) /\ Len(steps') = Len(steps) + 1
        /\ ok' = FALSE /\ failed_step' = Len(steps) + 1 /\ failed_step' \in 0..Len(steps')
        /\ compensated' = compensated /\ steps'[failed_step'] = "timed_out"
        /\ ReportShape'
    BY <1>1, FailureKeepsReport DEF IInv, Failures
  <1>3. TypeOK'
    <2>1. ok' \in BOOLEAN /\ compensated' \in BOOLEAN
      BY <1>2, Zenon DEF IInv, TypeOK
    <2>. QED  BY <1>1, <1>2, <2>1 DEF IInv, TypeOK, PC
  <1>4. OrphanIsReported'
    BY <1>1, <1>2 DEF OrphanIsReported
  <1>5. WorkerInv'
    BY <1>1 DEF IInv, WorkerInv
  <1>. QED
    BY <1>1, <1>2, <1>3, <1>4, <1>5
    DEF IInv, PreconditionHoldsWhileRunning, AttachInv, CompensatedHoldsNothing, Serving

(* SubmitSkill: the precondition just checked covers the skill's whole life. *)
LEMMA SubmitInv == IInv /\ SubmitSkill => IInv'
  <1> SUFFICES ASSUME IInv, SubmitSkill PROVE IInv'
    OBVIOUS
  <1>1. /\ pc = "step" /\ pc' = "wait" /\ ok
        /\ Len(steps) \in Nat /\ Len(calls) \in Nat /\ Len(steps) < Len(calls)
        /\ skill' = [phase |-> "backend", step |-> Len(steps) + 1, result |-> NONE]
        /\ ~PreconditionError(calls[Len(steps) + 1], attached_to)
        /\ UNCHANGED <<calls, steps, ok, failed_step, compensated, attached_to, gripper>>
    BY PlanFacts DEF IInv, TypeOK, SubmitSkill, Exhausted, Current, index, reportVars
  <1>2. Serving' = calls[Len(steps) + 1]
    BY <1>1 DEF Serving
  <1>3. TypeOK'
    <2>1. ok' \in BOOLEAN /\ compensated' \in BOOLEAN
      BY <1>1, Zenon DEF IInv, TypeOK
    <2>2. skill' \in [phase : Phase, step : Nat, result : Outcome \cup {NONE}]
      BY <1>1 DEF Phase
    <2>. QED  BY <1>1, <2>1, <2>2 DEF IInv, TypeOK, PC
  <1>4. WorkerInv'
    BY <1>1 DEF WorkerInv
  <1>5. PreconditionHoldsWhileRunning' /\ AttachInv'
    BY <1>1, <1>2 DEF IInv, PreconditionHoldsWhileRunning, AttachInv, PreconditionError
  <1>. QED
    BY <1>1, <1>3, <1>4, <1>5
    DEF IInv, ReportShape, OrphanIsReported, Orphaned, CompensatedHoldsNothing

(* FinishPlan: what was abandoned with an attach_handle under way holds      *)
(* nothing yet, so nothing is released ahead of it.                          *)
LEMMA FinishInv == IInv /\ FinishPlan => IInv'
  <1> SUFFICES ASSUME IInv, FinishPlan PROVE IInv'
    OBVIOUS
  <1>1. /\ pc = "step" /\ Len(steps) = Len(calls)
        /\ pc' = IF ~ok /\ attached_to # NONE THEN "release" ELSE "returned"
        /\ UNCHANGED <<calls, steps, ok, failed_step, compensated, skill, attached_to, gripper>>
    BY DEF FinishPlan, Exhausted, reportVars
  <1>2. TypeOK'
    <2>1. ok' \in BOOLEAN /\ compensated' \in BOOLEAN
      BY <1>1, Zenon DEF IInv, TypeOK
    <2>. QED  BY <1>1, <2>1 DEF IInv, TypeOK, PC
  <1>3. ReportShape' /\ WorkerInv'
    BY <1>1 DEF IInv, ReportShape, WorkerInv
  <1>4. OrphanIsReported'
    BY <1>1 DEF IInv, OrphanIsReported, Orphaned
  <1>5. Serving' = Serving
    BY <1>1 DEF Serving
  <1>. QED
    BY <1>1, <1>2, <1>3, <1>4, <1>5
    DEF IInv, PreconditionHoldsWhileRunning, AttachInv, CompensatedHoldsNothing

-----------------------------------------------------------------------------
(* A backend's outcome leaves the gripper open or closed.                    *)
LEMMA GripperType ==
  ASSUME TypeOK, NEW tool, NEW outcome, gripper' \in GripperAfter(tool, outcome)
  PROVE  gripper' \in {"open", "closed"}
  BY DEF GripperAfter, TypeOK

(* BackendReturns: only the worker's phase and result change.                *)
LEMMA BackendInv ==
  ASSUME IInv, NEW outcome \in SkillOutcomes, BackendReturns(outcome)
  PROVE  IInv'
  <1>1. /\ skill.phase = "backend" /\ skill'.phase \in {"update", "done"}
        /\ skill'.step = skill.step
        /\ skill' \in [phase : Phase, step : Nat, result : Outcome \cup {NONE}]
    BY OutcomesAssumption DEF IInv, TypeOK, BackendReturns, Phase
  <1>2. UNCHANGED <<calls, pc, steps, ok, failed_step, compensated, attached_to>>
    BY DEF BackendReturns, reportVars
  <1>3. Serving' = Serving
    BY <1>1, <1>2 DEF Serving
  <1>4. TypeOK'
    <2>1. ok' \in BOOLEAN /\ compensated' \in BOOLEAN
      BY <1>2, Zenon DEF IInv, TypeOK
    <2>2. gripper' \in {"open", "closed"}
      BY GripperType DEF IInv, BackendReturns
    <2>. QED  BY <1>1, <1>2, <2>1, <2>2 DEF IInv, TypeOK
  <1>5. ReportShape' /\ WorkerInv'
    BY <1>1, <1>2 DEF IInv, ReportShape, WorkerInv
  <1>6. OrphanIsReported'
    BY <1>1, <1>2 DEF IInv, OrphanIsReported, Orphaned
  <1>7. PreconditionHoldsWhileRunning' /\ AttachInv'
    BY <1>1, <1>2, <1>3
    DEF IInv, PreconditionHoldsWhileRunning, AttachInv, PreconditionError
  <1>. QED
    BY <1>2, <1>4, <1>5, <1>6, <1>7 DEF IInv, CompensatedHoldsNothing

(* ToolsUpdate: an attachment is recorded only where no release has been     *)
(* made (AttachInv), and by a thread that is then done.                      *)
LEMMA ToolsUpdateInv == IInv /\ ToolsUpdate => IInv'
  <1> SUFFICES ASSUME IInv, ToolsUpdate PROVE IInv'
    OBVIOUS
  <1>1. /\ skill.phase = "update" /\ skill'.phase = "done" /\ skill'.step = skill.step
        /\ skill' \in [phase : Phase, step : Nat, result : Outcome \cup {NONE}]
    BY DEF IInv, TypeOK, ToolsUpdate, Phase, Outcome
  <1>2. UNCHANGED <<calls, pc, steps, ok, failed_step, compensated, gripper>>
    BY DEF ToolsUpdate, reportVars
  <1>3. attached_to' \in Objects \cup {NONE}
    <2>1. skill.step \in 1..Len(calls)
      BY <1>1 DEF IInv, WorkerInv
    <2>. QED  BY <2>1, PlanFacts DEF IInv, TypeOK, ToolsUpdate, Serving
  <1>4. TypeOK'
    <2>1. ok' \in BOOLEAN /\ compensated' \in BOOLEAN
      BY <1>2, Zenon DEF IInv, TypeOK
    <2>. QED  BY <1>1, <1>2, <1>3, <2>1 DEF IInv, TypeOK
  <1>5. ReportShape' /\ WorkerInv'
    BY <1>1, <1>2 DEF IInv, ReportShape, WorkerInv
  <1>6. CompensatedHoldsNothing'
    BY <1>1, <1>2 DEF IInv, CompensatedHoldsNothing, AttachInv, ToolsUpdate
  <1>. QED
    BY <1>1, <1>2, <1>4, <1>5, <1>6
    DEF IInv, OrphanIsReported, Orphaned, PreconditionHoldsWhileRunning, AttachInv

-----------------------------------------------------------------------------
(* ReleaseReturns: the compensating detach changes the gripper only.         *)
LEMMA ReleaseReturnsInv ==
  ASSUME IInv, NEW outcome \in SkillOutcomes, ReleaseReturns(outcome)
  PROVE  IInv'
  <1>1. /\ pc = "release" /\ pc' \in {"release_update", "raised", "returned"}
        /\ ~ok /\ Len(steps) = Len(calls)
    BY DEF IInv, ReleaseReturns, WorkerInv
  <1>2. UNCHANGED <<calls, steps, ok, failed_step, compensated, skill, attached_to>>
    BY DEF ReleaseReturns, reportVars
  <1>3. Serving' = Serving
    BY <1>2 DEF Serving
  <1>4. TypeOK'
    <2>1. ok' \in BOOLEAN /\ compensated' \in BOOLEAN
      BY <1>2, Zenon DEF IInv, TypeOK
    <2>2. gripper' \in {"open", "closed"}
      BY GripperType DEF IInv, ReleaseReturns
    <2>. QED  BY <1>1, <1>2, <2>1, <2>2 DEF IInv, TypeOK, PC
  <1>5. ReportShape' /\ WorkerInv'
    BY <1>1, <1>2 DEF IInv, ReportShape, WorkerInv
  <1>6. OrphanIsReported'
    BY <1>1, <1>2 DEF IInv, OrphanIsReported, Orphaned
  <1>7. ~compensated'
    BY <1>1, <1>2 DEF IInv
  <1>8. AttachInv' /\ PreconditionHoldsWhileRunning'
    BY <1>1, <1>2, <1>3 DEF IInv, PreconditionHoldsWhileRunning, AttachInv
  <1>. QED
    BY <1>4, <1>5, <1>6, <1>7, <1>8 DEF IInv, CompensatedHoldsNothing

(* ReleaseUpdate: no attach_handle is under way to undo the release.         *)
LEMMA ReleaseUpdateInv == IInv /\ ReleaseUpdate => IInv'
  <1> SUFFICES ASSUME IInv, ReleaseUpdate PROVE IInv'
    OBVIOUS
  <1>1. /\ pc = "release_update" /\ pc' = "returned" /\ ~ok /\ Len(steps) = Len(calls)
        /\ attached_to' = NONE /\ compensated' = TRUE
    BY DEF IInv, ReleaseUpdate, WorkerInv
  <1>2. UNCHANGED <<calls, steps, ok, failed_step, skill, gripper>>
    BY DEF ReleaseUpdate
  <1>3. Serving' = Serving
    BY <1>2 DEF Serving
  <1>4. TypeOK'
    <2>1. ok' \in BOOLEAN /\ compensated' \in BOOLEAN
      BY <1>1, <1>2, Zenon DEF IInv, TypeOK
    <2>. QED  BY <1>1, <1>2, <2>1 DEF IInv, TypeOK, PC
  <1>5. ReportShape' /\ WorkerInv'
    BY <1>1, <1>2 DEF IInv, ReportShape, WorkerInv
  <1>6. OrphanIsReported'
    BY <1>1, <1>2 DEF IInv, OrphanIsReported, Orphaned
  <1>7. AttachInv' /\ PreconditionHoldsWhileRunning'
    BY <1>1, <1>2, <1>3 DEF IInv, PreconditionHoldsWhileRunning, AttachInv
  <1>. QED
    BY <1>1, <1>4, <1>5, <1>6, <1>7 DEF IInv, CompensatedHoldsNothing

(* A step that changes nothing preserves it.                                 *)
LEMMA StutterInv == IInv /\ UNCHANGED vars => IInv'
  <1> SUFFICES ASSUME IInv, UNCHANGED vars PROVE IInv'
    OBVIOUS
  <1>1. /\ UNCHANGED <<calls, pc, steps, failed_step, skill, attached_to, gripper>>
        /\ ok' = ok /\ compensated' = compensated
    BY DEF vars, reportVars
  <1>2. Serving' = Serving
    BY <1>1 DEF Serving
  <1>3. TypeOK'
    <2>1. ok' \in BOOLEAN /\ compensated' \in BOOLEAN
      BY <1>1, Zenon DEF IInv, TypeOK
    <2>. QED  BY <1>1, <2>1 DEF IInv, TypeOK
  <1>4. ReportShape' /\ WorkerInv'
    BY <1>1 DEF IInv, ReportShape, WorkerInv
  <1>5. OrphanIsReported' /\ PreconditionHoldsWhileRunning' /\ AttachInv'
    BY <1>1, <1>2
    DEF IInv, OrphanIsReported, Orphaned, PreconditionHoldsWhileRunning, AttachInv,
        PreconditionError
  <1>. QED
    BY <1>1, <1>3, <1>4, <1>5 DEF IInv, CompensatedHoldsNothing

(* Every step preserves the invariant.                                       *)
LEMMA NextInv == IInv /\ [Next]_vars => IInv'
  <1> SUFFICES ASSUME IInv, [Next]_vars PROVE IInv'
    OBVIOUS
  <1>1. CASE ExecutorStep
    BY <1>1, SkipInv, BlockInv, SubmitInv, CollectInv, FinishInv, ReleaseUpdateInv
    DEF ExecutorStep
  <1>2. CASE TimeOutSkill
    BY <1>2, TimeOutInv
  <1>3. ASSUME NEW outcome \in SkillOutcomes,
               BackendReturns(outcome) \/ ReleaseReturns(outcome)
        PROVE  IInv'
    BY <1>3, BackendInv, ReleaseReturnsInv
  <1>4. CASE ToolsUpdate
    BY <1>4, ToolsUpdateInv
  <1>5. CASE UNCHANGED vars
    BY <1>5, StutterInv
  <1>. QED
    BY <1>1, <1>2, <1>3, <1>4, <1>5 DEF Next, Terminated

-----------------------------------------------------------------------------
(* The inductive invariant holds of every run.                               *)
THEOREM Invariance == Spec => []IInv
  <1>. QED  BY InitInv, NextInv, PTL DEF Spec

(* The report, the worker and RobotTools' belief stay what they are meant to *)
(* be.                                                                       *)
THEOREM TypeCorrect == Spec => []TypeOK
  <1>1. IInv => TypeOK
    BY DEF IInv
  <1>. QED  BY <1>1, Invariance, PTL

(* A report names exactly one failure, where the plan broke.                 *)
THEOREM ReportTellsTheTruth == Spec => []ReportShape
  <1>1. IInv => ReportShape
    BY DEF IInv
  <1>. QED  BY <1>1, Invariance, PTL

(* A thread that outlives its step serves the step reported as timed out.    *)
THEOREM OrphansAreReported == Spec => []OrphanIsReported
  <1>1. IInv => OrphanIsReported
    BY DEF IInv
  <1>. QED  BY <1>1, Invariance, PTL

(* No skill ever works without its precondition while it is waited for.      *)
THEOREM PreconditionsLast == Spec => []PreconditionHoldsWhileRunning
  <1>1. IInv => PreconditionHoldsWhileRunning
    BY DEF IInv
  <1>. QED  BY <1>1, Invariance, PTL

(* A compensated run holds nothing for good, abandoned threads or not.       *)
THEOREM CompensationIsFinal == Spec => []CompensatedHoldsNothing
  <1>1. IInv => CompensatedHoldsNothing
    BY DEF IInv
  <1>. QED  BY <1>1, Invariance, PTL

(* An attach_handle under way finds nothing attached and no release begun.   *)
THEOREM AttachmentsDoNotClash == Spec => []AttachInv
  <1>1. IInv => AttachInv
    BY DEF IInv
  <1>. QED  BY <1>1, Invariance, PTL

-----------------------------------------------------------------------------
(* The worker's last skill came back ok, and RobotTools has recorded it.     *)
CallTook == skill.phase = "done" /\ skill.result = "ok"

(* The hand behind the belief: between two steps of a plan that has not      *)
(* failed, the last skill took; a detach that took has let go; an            *)
(* attach_handle about to be recorded has closed the gripper.                *)
BeliefInv ==
  /\ pc = "step" /\ ok => skill.phase = "idle" \/ CallTook
  /\ skill.phase = "idle" => attached_to = NONE
  /\ CallTook /\ Serving.tool = "detach" => attached_to = NONE
  /\ skill.phase = "update" => Serving.tool \in {"attach_handle", "detach"}
  /\ skill.phase = "update" /\ Serving.tool = "attach_handle" => gripper = "closed"
  /\ BeliefIsHeld

-----------------------------------------------------------------------------
(* The executor's own steps, submission aside, move neither the worker nor   *)
(* the hand, and end a wait well only on a skill that took.                  *)
LEMMA BeliefExecutor ==
  ASSUME IInv, BeliefInv,
         SkipStep \/ BlockStep \/ CollectResult \/ TimeOutSkill \/ FinishPlan
  PROVE  BeliefInv'
  <1>1. UNCHANGED <<calls, skill, attached_to, gripper>>
    BY DEF SkipStep, BlockStep, CollectResult, TimeOutSkill, FinishPlan
  <1>2. Serving' = Serving /\ CallTook' = CallTook
    BY <1>1 DEF Serving, CallTook
  <1>3. pc \in {"step", "wait"}
    BY DEF SkipStep, BlockStep, CollectResult, TimeOutSkill, FinishPlan
  <1>4. pc' = "step" /\ ok' => skill.phase = "idle" \/ CallTook
    BY DEF SkipStep, BlockStep, CollectResult, TimeOutSkill, FinishPlan, ReportFailure, CallTook
  <1>. QED
    BY <1>1, <1>2, <1>3, <1>4 DEF BeliefInv, BeliefIsHeld

(* SubmitSkill: what is attached when the plan goes on is in a closed hand.  *)
LEMMA BeliefSubmit == IInv /\ BeliefInv /\ SubmitSkill => BeliefInv'
  <1> SUFFICES ASSUME IInv, BeliefInv, SubmitSkill PROVE BeliefInv'
    OBVIOUS
  <1>1. /\ pc = "step" /\ pc' = "wait" /\ ok
        /\ skill'.phase = "backend"
        /\ UNCHANGED <<calls, attached_to, gripper>>
    BY DEF SubmitSkill
  <1>2. attached_to # NONE => gripper # "open"
    BY <1>1 DEF BeliefInv, BeliefIsHeld
  <1>. QED  BY <1>1, <1>2 DEF BeliefInv, BeliefIsHeld, CallTook

(* BackendReturns: a detach is the only skill that opens the gripper.        *)
LEMMA BeliefBackend ==
  ASSUME IInv, BeliefInv, NEW outcome \in SkillOutcomes, BackendReturns(outcome)
  PROVE  BeliefInv'
  <1>1. /\ skill.phase = "backend" /\ skill'.phase \in {"update", "done"}
        /\ skill'.step = skill.step
        /\ skill'.phase = "update" => outcome = "ok" /\ Serving.tool \in {"attach_handle", "detach"}
        /\ skill'.phase = "done" /\ skill'.result = "ok" => Serving.tool \notin {"attach_handle", "detach"}
        /\ UNCHANGED <<calls, pc, ok, attached_to>>
    BY DEF IInv, TypeOK, BackendReturns, reportVars
  <1>2. Serving' = Serving
    BY <1>1 DEF Serving
  <1>3. gripper' \in GripperAfter(Serving.tool, outcome)
    BY DEF BackendReturns
  <1>4. Serving.tool # "detach" => gripper' \in {gripper, "closed"}
    BY <1>3 DEF GripperAfter
  <1>5. Serving.tool = "attach_handle" /\ outcome = "ok" => gripper' = "closed"
    BY <1>3 DEF GripperAfter
  <1>6. ~(pc = "step" /\ ok)
    BY <1>1 DEF BeliefInv, CallTook
  <1>7. BeliefIsHeld'
    BY <1>1, <1>2, <1>4 DEF BeliefInv, BeliefIsHeld
  <1>. QED  BY <1>1, <1>2, <1>5, <1>6, <1>7 DEF BeliefInv, CallTook

(* ToolsUpdate: what is recorded as attached is in the closed hand.          *)
LEMMA BeliefUpdate == IInv /\ BeliefInv /\ ToolsUpdate => BeliefInv'
  <1> SUFFICES ASSUME IInv, BeliefInv, ToolsUpdate PROVE BeliefInv'
    OBVIOUS
  <1>1. /\ skill.phase = "update" /\ skill'.phase = "done" /\ skill'.step = skill.step
        /\ skill'.result = "ok"
        /\ attached_to' = IF Serving.tool = "attach_handle" THEN Serving.object ELSE NONE
        /\ UNCHANGED <<calls, pc, ok, gripper>>
    BY DEF IInv, TypeOK, ToolsUpdate, reportVars
  <1>2. Serving' = Serving
    BY <1>1 DEF Serving
  <1>. QED  BY <1>1, <1>2 DEF BeliefInv, BeliefIsHeld, CallTook

(* ReleaseReturns, ReleaseUpdate: the compensating detach of a failed plan   *)
(* finds no attach_handle under way.                                         *)
LEMMA BeliefRelease ==
  ASSUME IInv, BeliefInv,
         ReleaseUpdate \/ \E outcome \in SkillOutcomes : ReleaseReturns(outcome)
  PROVE  BeliefInv'
  <1>1. /\ pc \in {"release", "release_update"} /\ ~ok
        /\ pc' \in {"release_update", "returned", "raised"}
        /\ UNCHANGED <<calls, skill, ok>>
        /\ attached_to' \in {attached_to, NONE}
    BY DEF IInv, WorkerInv, ReleaseUpdate, ReleaseReturns, reportVars
  <1>2. Serving' = Serving /\ CallTook' = CallTook
    BY <1>1 DEF Serving, CallTook
  <1>3. ~(skill.phase = "update" /\ Serving.tool = "attach_handle")
    BY <1>1 DEF IInv, AttachInv
  <1>4. BeliefIsHeld'
    BY <1>1 DEF BeliefIsHeld
  <1>. QED  BY <1>1, <1>2, <1>3, <1>4 DEF BeliefInv

(* Every step preserves it.                                                  *)
LEMMA BeliefNext == IInv /\ BeliefInv /\ [Next]_vars => BeliefInv'
  <1> SUFFICES ASSUME IInv, BeliefInv, [Next]_vars PROVE BeliefInv'
    OBVIOUS
  <1>1. ASSUME UNCHANGED vars PROVE BeliefInv'
    BY <1>1 DEF vars, reportVars, BeliefInv, BeliefIsHeld, CallTook, Serving
  <1>. QED
    BY <1>1, BeliefExecutor, BeliefSubmit, BeliefBackend, BeliefUpdate, BeliefRelease
    DEF Next, ExecutorStep, Terminated

(* A robot that believes it holds a payload holds it, unless a detach was    *)
(* tried and did not come back well.                                         *)
THEOREM BeliefIsNeverAhead == Spec => []BeliefIsHeld
  <1>1. Init => BeliefInv
    BY DEF Init, BeliefInv, BeliefIsHeld, CallTook
  <1>2. BeliefInv => BeliefIsHeld
    BY DEF BeliefInv
  <1>. QED  BY <1>1, <1>2, Invariance, BeliefNext, PTL DEF Spec

-----------------------------------------------------------------------------
(* The belief is what the reported steps say, one skill ahead once the skill *)
(* waited for has been recorded; a run releases only what it holds, or what  *)
(* the detach that failed it has let go of since.                            *)
HeldInv ==
  /\ pc = "step" /\ ok /\ attached_to # NONE => LastAttach(attached_to)
  /\ pc = "wait" /\ Serving.tool = "attach_handle" =>
       attached_to = IF CallTook THEN Serving.object ELSE NONE
  /\ pc = "wait" /\ Serving.tool = "detach" =>
       \E o \in Objects : LastAttach(o) /\ attached_to = IF CallTook THEN NONE ELSE o
  /\ pc = "wait" /\ Serving.tool \notin {"attach_handle", "detach"} =>
       /\ ~PreconditionError(Serving, attached_to)
       /\ attached_to # NONE => LastAttach(attached_to)
  /\ pc \in {"release", "release_update"} =>
       attached_to # NONE \/ calls[failed_step].tool = "detach"

(* The steps reported so far name at most one payload as the last attached.  *)
LEMMA LastAttachUnique ==
  ASSUME IInv, NEW o, NEW p, LastAttach(o), LastAttach(p)
  PROVE  o = p
  <1>0. Len(steps) \in Nat
    BY DEF IInv, TypeOK
  <1>1. PICK i \in 1..Len(steps) :
          /\ calls[i] = [tool |-> "attach_handle", object |-> o]
          /\ \A j \in (i + 1)..Len(steps) : calls[j].tool # "attach_handle"
    BY DEF LastAttach
  <1>2. PICK k \in 1..Len(steps) :
          /\ calls[k] = [tool |-> "attach_handle", object |-> p]
          /\ \A j \in (k + 1)..Len(steps) : calls[j].tool # "attach_handle"
    BY DEF LastAttach
  <1>3. calls[i].tool = "attach_handle" /\ calls[k].tool = "attach_handle"
    BY <1>1, <1>2
  <1>4. i = k
    BY <1>0, <1>1, <1>2, <1>3
  <1>. QED  BY <1>1, <1>2, <1>4

(* PlanRun's effects and preconditions, case by case.                        *)
LEMMA EffectCases ==
  ASSUME NEW call, NEW before
  PROVE  /\ call.tool = "attach_handle" => Promise!Effect(call, before) = call.object
         /\ call.tool = "detach" => Promise!Effect(call, before) = NONE
         /\ call.tool \notin {"attach_handle", "detach"} => Promise!Effect(call, before) = before
  BY DEF Promise!Effect

(* What is held while a skill is waited for is what its submission found.    *)
LEMMA HeldWhileWaiting ==
  ASSUME IInv, HeldInv, pc = "wait"
  PROVE  /\ Serving = calls[Len(steps) + 1] /\ Serving \in Call
         /\ HeldAtSubmission \in Objects \cup {NONE}
         /\ ~PreconditionError(Serving, HeldAtSubmission)
         /\ Serving.tool = "detach" => LastAttach(HeldAtSubmission)
         /\ Serving.tool = "attach_handle" => Serving.object \in Objects
         /\ ~CallTook => HeldAtSubmission = attached_to
         /\ CallTook => attached_to = Promise!Effect(Serving, HeldAtSubmission)
  <1>1. /\ Serving = calls[Len(steps) + 1] /\ Serving \in Call
        /\ Serving.tool \in Tool
        /\ Serving.tool = "attach_handle" => Serving.object \in Objects
    BY PlanFacts DEF IInv, TypeOK, WorkerInv, Serving
  <1>2. attached_to \in Objects \cup {NONE}
    BY DEF IInv, TypeOK
  <1>3. CASE Serving.tool = "detach"
    <2>1. PICK o \in Objects : LastAttach(o) /\ attached_to = IF CallTook THEN NONE ELSE o
      BY <1>3 DEF HeldInv
    <2>2. HeldAtSubmission = CHOOSE x \in Objects : LastAttach(x)
      BY <1>3 DEF HeldAtSubmission
    <2>3. HeldAtSubmission \in Objects /\ LastAttach(HeldAtSubmission)
      BY <2>1, <2>2
    <2>4. HeldAtSubmission = o
      BY <2>1, <2>3, LastAttachUnique
    <2>5. ~PreconditionError(Serving, HeldAtSubmission)
      BY <1>3, <2>3, NoneAssumption DEF PreconditionError
    <2>6. Promise!Effect(Serving, HeldAtSubmission) = NONE
      BY <1>3, EffectCases
    <2>. QED  BY <1>1, <1>3, <2>1, <2>3, <2>4, <2>5, <2>6
  <1>4. CASE Serving.tool = "attach_handle"
    <2>1. HeldAtSubmission = NONE
      BY <1>4 DEF HeldAtSubmission
    <2>2. attached_to = IF CallTook THEN Serving.object ELSE NONE
      BY <1>4 DEF HeldInv
    <2>3. ~PreconditionError(Serving, HeldAtSubmission)
      BY <1>4, <2>1 DEF PreconditionError
    <2>4. Promise!Effect(Serving, HeldAtSubmission) = Serving.object
      BY <1>4, EffectCases
    <2>. QED  BY <1>1, <1>4, <2>1, <2>2, <2>3, <2>4
  <1>5. CASE Serving.tool \notin {"attach_handle", "detach"}
    <2>1. HeldAtSubmission = attached_to
      BY <1>5 DEF HeldAtSubmission
    <2>2. ~PreconditionError(Serving, HeldAtSubmission)
      BY <1>5, <2>1 DEF HeldInv
    <2>3. Promise!Effect(Serving, HeldAtSubmission) = HeldAtSubmission
      BY <1>5, EffectCases
    <2>. QED  BY <1>1, <1>2, <1>5, <2>1, <2>2, <2>3
  <1>. QED  BY <1>3, <1>4, <1>5

-----------------------------------------------------------------------------
(* The executor's steps that leave the worker alone, a collected success     *)
(* aside.                                                                    *)
LEMMA HeldExecutor ==
  ASSUME IInv, HeldInv, SkipStep \/ BlockStep \/ TimeOutSkill \/ FinishPlan
  PROVE  HeldInv'
  <1>1. /\ UNCHANGED <<calls, skill, attached_to>>
        /\ pc' \in {"step", "release", "returned"}
        /\ pc' = "step" => ~ok'
        /\ pc' = "release" => attached_to # NONE
    BY DEF SkipStep, BlockStep, TimeOutSkill, FinishPlan, ReportFailure
  <1>. QED  BY <1>1 DEF HeldInv

(* CollectResult: a success puts the record and the report in step again.    *)
LEMMA HeldCollect == IInv /\ HeldInv /\ CollectResult => HeldInv'
  <1> SUFFICES ASSUME IInv, HeldInv, CollectResult PROVE HeldInv'
    OBVIOUS
  <1>1. /\ pc = "wait" /\ pc' \in {"step", "raised"}
        /\ UNCHANGED <<calls, skill, attached_to>>
        /\ pc' = "step" /\ ok' => ReportSuccess /\ CallTook
    BY DEF CollectResult, ReportFailure, CallTook
  <1>2. ASSUME pc' = "step", ok', attached_to # NONE PROVE LastAttach(attached_to)'
    <2>0. /\ Len(steps) \in Nat /\ Len(steps') = Len(steps) + 1
          /\ calls \in Seq(Call)
      BY <1>1, <1>2, PlanFacts DEF ReportSuccess, IInv, TypeOK
    <2>1. /\ Serving = calls[Len(steps) + 1] /\ Serving \in Call
          /\ attached_to = Promise!Effect(Serving, HeldAtSubmission)
      BY <1>1, <1>2, HeldWhileWaiting
    <2>2. CASE Serving.tool = "attach_handle"
      <3>1. Serving = [tool |-> "attach_handle", object |-> attached_to]
        BY <2>1, <2>2, EffectCases DEF Call
      <3>2. Len(steps) + 1 \in 1..Len(steps') /\ calls' = calls
        BY <1>1, <2>0
      <3>3. calls'[Len(steps) + 1] = [tool |-> "attach_handle", object |-> attached_to']
        BY <1>1, <2>1, <3>1
      <3>4. \A j \in (Len(steps) + 1 + 1)..Len(steps') : calls'[j].tool # "attach_handle"
        BY <2>0
      <3>. QED  BY <3>2, <3>3, <3>4 DEF LastAttach
    <2>3. CASE Serving.tool # "attach_handle"
      <3>1. Serving.tool # "detach"
        BY <1>2, <2>1, EffectCases
      <3>2. LastAttach(attached_to)
        BY <1>1, <1>2, <2>3, <3>1 DEF HeldInv
      <3>. QED  BY <1>1, <2>0, <2>1, <2>3, <3>2 DEF LastAttach
    <2>. QED  BY <2>2, <2>3
  <1>. QED  BY <1>1, <1>2 DEF HeldInv

(* SubmitSkill: a detach is submitted with the last payload attached.        *)
LEMMA HeldSubmit == IInv /\ HeldInv /\ SubmitSkill => HeldInv'
  <1> SUFFICES ASSUME IInv, HeldInv, SubmitSkill PROVE HeldInv'
    OBVIOUS
  <1>1. /\ pc = "step" /\ pc' = "wait" /\ ok
        /\ skill' = [phase |-> "backend", step |-> Len(steps) + 1, result |-> NONE]
        /\ ~PreconditionError(calls[Len(steps) + 1], attached_to)
        /\ UNCHANGED <<calls, steps, ok, attached_to>>
    BY DEF SubmitSkill, Current, index, reportVars
  <1>2. Serving' = calls[Len(steps) + 1] /\ ~CallTook'
    BY <1>1 DEF Serving, CallTook
  <1>3. attached_to # NONE => LastAttach(attached_to)'
    BY <1>1 DEF HeldInv, LastAttach
  <1>. QED
    BY <1>1, <1>2, <1>3 DEF IInv, TypeOK, HeldInv, PreconditionError

(* BackendReturns: nothing is recorded yet.                                  *)
LEMMA HeldBackend ==
  ASSUME IInv, HeldInv, NEW outcome \in SkillOutcomes, BackendReturns(outcome)
  PROVE  HeldInv'
  <1>1. /\ skill.phase = "backend" /\ skill'.step = skill.step
        /\ skill'.phase = "done" /\ skill'.result = "ok" =>
             Serving.tool \notin {"attach_handle", "detach"}
        /\ UNCHANGED <<calls, steps, pc, ok, failed_step, attached_to>>
    BY DEF IInv, TypeOK, BackendReturns, reportVars
  <1>2. Serving' = Serving
    BY <1>1 DEF Serving
  <1>3. \A o : LastAttach(o)' = LastAttach(o)
    BY <1>1 DEF LastAttach
  <1>. QED  BY <1>1, <1>2, <1>3 DEF HeldInv, CallTook, PreconditionError

(* ToolsUpdate: what is recorded is the effect of the skill waited for, or   *)
(* of the one that timed out and failed the plan.                            *)
LEMMA HeldUpdate == IInv /\ BeliefInv /\ HeldInv /\ ToolsUpdate => HeldInv'
  <1> SUFFICES ASSUME IInv, BeliefInv, HeldInv, ToolsUpdate PROVE HeldInv'
    OBVIOUS
  <1>1. /\ skill.phase = "update" /\ skill'.step = skill.step
        /\ skill'.phase = "done" /\ skill'.result = "ok"
        /\ attached_to' = IF Serving.tool = "attach_handle" THEN Serving.object ELSE NONE
        /\ UNCHANGED <<calls, steps, pc, ok, failed_step>>
    BY DEF IInv, TypeOK, ToolsUpdate, reportVars
  <1>2. Serving' = Serving /\ CallTook' /\ ~CallTook
    BY <1>1 DEF Serving, CallTook
  <1>3. \A o : LastAttach(o)' = LastAttach(o)
    BY <1>1 DEF LastAttach
  <1>4. Serving.tool \in {"attach_handle", "detach"}
    BY <1>1 DEF BeliefInv
  <1>5. ~(pc = "step" /\ ok)
    BY <1>1 DEF BeliefInv, CallTook
  <1>6. pc \in {"release", "release_update"} => calls'[failed_step'].tool = "detach"
    BY <1>1, <1>4 DEF IInv, AttachInv, OrphanIsReported, Orphaned, Serving
  <1>. QED  BY <1>1, <1>2, <1>3, <1>4, <1>5, <1>6 DEF HeldInv

(* ReleaseReturns, ReleaseUpdate: the release is of what was held.           *)
LEMMA HeldRelease ==
  ASSUME IInv, HeldInv,
         ReleaseUpdate \/ \E outcome \in SkillOutcomes : ReleaseReturns(outcome)
  PROVE  HeldInv'
  <1>1. /\ pc' \in {"release_update", "returned", "raised"}
        /\ pc' = "release_update" => pc = "release" /\ UNCHANGED <<calls, failed_step, attached_to>>
    BY DEF ReleaseUpdate, ReleaseReturns, reportVars
  <1>. QED  BY <1>1 DEF HeldInv

(* Every step preserves it.                                                  *)
LEMMA HeldNext == IInv /\ BeliefInv /\ HeldInv /\ [Next]_vars => HeldInv'
  <1> SUFFICES ASSUME IInv, BeliefInv, HeldInv, [Next]_vars PROVE HeldInv'
    OBVIOUS
  <1>1. ASSUME UNCHANGED vars PROVE HeldInv'
    BY <1>1 DEF vars, reportVars, HeldInv, LastAttach, CallTook, Serving, PreconditionError
  <1>. QED
    BY <1>1, HeldExecutor, HeldCollect, HeldSubmit, HeldBackend, HeldUpdate, HeldRelease
    DEF Next, ExecutorStep, Terminated

-----------------------------------------------------------------------------
(* PlanRun's reading of a report: failed exactly when report.ok is False,    *)
(* its failed call the one failed_step names.                                *)
LEMMA PromiseReads ==
  ASSUME IInv
  PROVE  /\ Promise!n = Len(steps) /\ Promise!n \in Nat
         /\ Promise!Failed <=> ~ok
         /\ ~ok => Promise!FailedCall = calls[failed_step]
  <1>1. Promise!n = Len(steps) /\ Len(steps) \in Nat
    BY DEF IInv, TypeOK, Promise!n
  <1>2. ok => ~Promise!Failed
    BY <1>1 DEF IInv, ReportShape, Promise!Failed
  <1>3. ASSUME ~ok
        PROVE  Promise!Failed /\ Promise!FailedCall = calls[failed_step]
    <2>1. /\ failed_step \in 1..Len(steps)
          /\ steps[failed_step] \in Failures
          /\ \A i \in 1..Len(steps) :
               /\ i < failed_step => steps[i] = "succeeded"
               /\ i > failed_step => steps[i] = "skipped"
      BY <1>3 DEF IInv, ReportShape
    <2>2. Promise!Failed
      BY <1>1, <2>1 DEF Promise!Failed, Failures
    <2>3. \A i \in 1..Len(steps) :
            steps[i] \notin {"succeeded", "skipped"} <=> i = failed_step
      BY <1>1, <2>1 DEF Failures
    <2>4. (CHOOSE i \in 1..Len(steps) : steps[i] \notin {"succeeded", "skipped"}) = failed_step
      BY <2>1, <2>3
    <2>. QED  BY <1>1, <2>2, <2>4 DEF Promise!FailedCall
  <1>. QED  BY <1>1, <1>2, <1>3

(* PlanRun's precondition is RobotTools'.                                    *)
LEMMA MayStartCases ==
  ASSUME NEW call
  PROVE  Promise!MayStart(call) <=> ~PreconditionError(call, HeldAtSubmission)
  <1>1. CASE call.tool \in {"nav_with_payload", "detach"}
    <2>1. Promise!MayStart(call) <=> HeldAtSubmission # NONE
      BY <1>1 DEF Promise!MayStart
    <2>. QED  BY <1>1, <2>1 DEF PreconditionError
  <1>2. CASE call.tool \in {"attach_handle", "navigate_to", "pick_up"}
    <2>1. Promise!MayStart(call) <=> HeldAtSubmission = NONE
      BY <1>2 DEF Promise!MayStart
    <2>. QED  BY <1>2, <2>1 DEF PreconditionError
  <1>3. CASE call.tool \notin {"nav_with_payload", "detach", "attach_handle", "navigate_to", "pick_up"}
    <2>1. Promise!MayStart(call)
      BY <1>3 DEF Promise!MayStart
    <2>. QED  BY <1>3, <2>1 DEF PreconditionError
  <1>. QED  BY <1>1, <1>2, <1>3

(* Until the skill waited for has been recorded, what is held is what        *)
(* RobotTools believes, as it is outside a wait.                             *)
HeldUntilRecorded == pc = "wait" /\ ~CallTook => HeldAtSubmission = attached_to

(* The conjunct follows from the others at the end of any step. *)
LEMMA HeldUntilRecordedNext == IInv' /\ HeldInv' => HeldUntilRecorded'
  <1>1. IInv /\ HeldInv => HeldUntilRecorded
    BY HeldWhileWaiting DEF HeldUntilRecorded
  <1>. QED  BY <1>1, PTL

-----------------------------------------------------------------------------
(* SkipStep is Skip.                                                         *)
LEMMA SkipRefines ==
  ASSUME IInv, HeldInv, SkipStep
  PROVE  Promise!Skip
  <1>1. /\ pc = "step" /\ pc' = "step" /\ ~ok
        /\ Len(steps) < Len(calls)
        /\ steps' = Append(steps, "skipped")
        /\ UNCHANGED <<calls, compensated, skill, attached_to>>
    BY PlanFacts DEF IInv, TypeOK, SkipStep, Exhausted
  <1>2. HeldAtSubmission' = HeldAtSubmission /\ MayActLate' = MayActLate
    BY <1>1 DEF HeldAtSubmission, MayActLate, Orphaned, Serving
  <1>3. RunPhase = "running" /\ RunPhase' = "running"
    BY <1>1 DEF RunPhase
  <1>4. Promise!Open /\ Promise!Failed
    BY <1>1, <1>3, PromiseReads DEF Promise!Open
  <1>. QED  BY <1>1, <1>2, <1>3, <1>4 DEF Promise!Skip

(* BlockStep is Fail: the step's precondition does not hold.                 *)
LEMMA BlockRefines ==
  ASSUME IInv, HeldInv, BlockStep
  PROVE  Promise!Fail
  <1>1. /\ pc = "step" /\ pc' = "step" /\ ok
        /\ Len(steps) < Len(calls)
        /\ PreconditionError(calls[Len(steps) + 1], attached_to)
        /\ steps' = Append(steps, "blocked")
        /\ UNCHANGED <<calls, compensated, skill, attached_to>>
    BY PlanFacts DEF IInv, TypeOK, BlockStep, Exhausted, ReportFailure, Current, index
  <1>2. HeldAtSubmission = attached_to /\ HeldAtSubmission' = attached_to
    BY <1>1 DEF HeldAtSubmission
  <1>3. MayActLate' = MayActLate
    BY <1>1 DEF MayActLate, Orphaned, Serving
  <1>4. RunPhase = "running" /\ RunPhase' = "running"
    BY <1>1 DEF RunPhase
  <1>5. Promise!Open /\ ~Promise!Failed
    BY <1>1, <1>4, PromiseReads DEF Promise!Open
  <1>6. ~Promise!MayStart(Promise!NextCall)
    BY <1>1, <1>2, MayStartCases, PromiseReads DEF Promise!NextCall
  <1>. QED  BY <1>1, <1>2, <1>3, <1>4, <1>5, <1>6 DEF Promise!Fail

(* While a skill is waited for, its step may be taken.                       *)
LEMMA WaitIsOpen ==
  ASSUME IInv, HeldInv, pc = "wait"
  PROVE  /\ Promise!Open /\ ~Promise!Failed
         /\ Promise!NextCall = Serving /\ Promise!MayStart(Serving)
         /\ RunPhase = "running" /\ MayActLate = FALSE
  <1>1. ok /\ Len(steps) < Len(calls)
    BY DEF IInv, WorkerInv
  <1>2. RunPhase = "running"
    BY DEF RunPhase
  <1>3. MayActLate = FALSE
    BY DEF MayActLate, Orphaned
  <1>4. Promise!Open /\ ~Promise!Failed
    BY <1>1, <1>2, PromiseReads DEF Promise!Open
  <1>5. Promise!NextCall = Serving
    BY HeldWhileWaiting, PromiseReads DEF Promise!NextCall
  <1>6. Promise!MayStart(Serving)
    BY HeldWhileWaiting, MayStartCases
  <1>. QED  BY <1>2, <1>3, <1>4, <1>5, <1>6

(* CollectResult is Succeed, Fail or Escape, by what the skill came back     *)
(* with.                                                                     *)
LEMMA CollectRefines ==
  ASSUME IInv, HeldInv, CollectResult
  PROVE  Promise!Succeed \/ Promise!Fail \/ Promise!Escape
  <1>1. /\ pc = "wait" /\ skill.phase = "done" /\ pc' \in {"step", "raised"}
        /\ UNCHANGED <<calls, skill, attached_to>>
    BY DEF CollectResult
  <1>2. /\ Promise!Open /\ ~Promise!Failed
        /\ Promise!NextCall = Serving /\ Promise!MayStart(Serving)
        /\ MayActLate = FALSE
    BY <1>1, WaitIsOpen
  <1>3. HeldAtSubmission' = attached_to /\ MayActLate' = FALSE
    BY <1>1 DEF HeldAtSubmission, MayActLate, Orphaned
  <1>4. CASE skill.result = "ok"
    <2>1. /\ steps' = Append(steps, "succeeded") /\ compensated' = compensated
          /\ pc' = "step"
      BY <1>4 DEF CollectResult, ReportSuccess
    <2>2. attached_to = Promise!Effect(Serving, HeldAtSubmission)
      BY <1>1, <1>4, HeldWhileWaiting DEF CallTook
    <2>3. RunPhase = "running" /\ RunPhase' = "running"
      BY <1>1, <2>1 DEF RunPhase
    <2>. QED  BY <1>1, <1>2, <1>3, <2>1, <2>2, <2>3 DEF Promise!Succeed
  <1>5. CASE skill.result # "ok"
    <2>1. HeldAtSubmission = attached_to
      BY <1>1, <1>5, HeldWhileWaiting DEF CallTook
    <2>2. CASE pc' = "raised"
      <3>1. steps' = steps /\ compensated' = compensated
        BY <1>5, <2>2 DEF CollectResult, reportVars
      <3>2. RunPhase' = "escaped"
        BY <2>2 DEF RunPhase
      <3>. QED  BY <1>1, <1>2, <1>3, <2>1, <3>1, <3>2 DEF Promise!Escape
    <2>3. CASE pc' = "step"
      <3>1. /\ steps' \in {Append(steps, "failed"), Append(steps, "timed_out")}
            /\ compensated' = compensated
        BY <1>5, <2>3 DEF CollectResult, ReportFailure
      <3>2. RunPhase = "running" /\ RunPhase' = "running"
        BY <1>1, <2>3 DEF RunPhase
      <3>. QED  BY <1>1, <1>2, <1>3, <2>1, <3>1, <3>2 DEF Promise!Fail
    <2>. QED  BY <1>1, <2>2, <2>3
  <1>. QED  BY <1>4, <1>5

(* TimeOutSkill is Fail, leaving `late` behind where the abandoned skill may *)
(* still attach or let go.                                                   *)
LEMMA TimeOutRefines ==
  ASSUME IInv, HeldInv, TimeOutSkill
  PROVE  Promise!Fail
  <1>1. /\ pc = "wait" /\ pc' = "step" /\ skill.phase \in {"backend", "update"}
        /\ UNCHANGED <<calls, skill, attached_to, compensated>>
        /\ steps' = Append(steps, "timed_out")
    BY DEF IInv, TypeOK, WorkerInv, TimeOutSkill, ReportFailure, Phase
  <1>2. /\ Promise!Open /\ ~Promise!Failed
        /\ Promise!NextCall = Serving /\ Promise!MayStart(Serving)
        /\ RunPhase = "running" /\ RunPhase' = "running"
    BY <1>1, WaitIsOpen DEF RunPhase
  <1>3. HeldAtSubmission = attached_to /\ HeldAtSubmission' = attached_to
    BY <1>1, HeldWhileWaiting DEF HeldAtSubmission, CallTook
  <1>4. Serving' = Serving
    BY <1>1 DEF Serving
  <1>5. MayActLate' \in {FALSE, Promise!Effect(Serving, HeldAtSubmission) # HeldAtSubmission}
    <2>1. MayActLate' = (Serving.tool \in {"attach_handle", "detach"})
      BY <1>1, <1>4 DEF MayActLate, Orphaned
    <2>2. ~PreconditionError(Serving, HeldAtSubmission)
          /\ (Serving.tool = "attach_handle" => Serving.object \in Objects)
      BY <1>1, HeldWhileWaiting
    <2>3. CASE Serving.tool = "attach_handle"
      <3>1. Promise!Effect(Serving, HeldAtSubmission) # HeldAtSubmission
        BY <2>2, <2>3, EffectCases, NoneAssumption DEF PreconditionError
      <3>. QED  BY <2>1, <2>3, <3>1
    <2>4. CASE Serving.tool = "detach"
      <3>1. Promise!Effect(Serving, HeldAtSubmission) # HeldAtSubmission
        BY <2>2, <2>4, EffectCases DEF PreconditionError
      <3>. QED  BY <2>1, <2>4, <3>1
    <2>5. CASE Serving.tool \notin {"attach_handle", "detach"}
      <3>1. MayActLate' = FALSE
        BY <1>1, <1>4, <2>5 DEF MayActLate, Orphaned
      <3>. QED  BY <3>1
    <2>. QED  BY <2>3, <2>4, <2>5
  <1>. QED  BY <1>1, <1>2, <1>3, <1>5 DEF Promise!Fail

-----------------------------------------------------------------------------
(* A step PlanRun does not see.                                              *)
LEMMA StutterRefines ==
  ASSUME UNCHANGED <<calls, steps, compensated>>, RunPhase' = RunPhase,
         HeldAtSubmission' = HeldAtSubmission, MayActLate' = MayActLate
  PROVE  [Promise!Next]_(Promise!vars)
  BY DEF Promise!vars

(* SubmitSkill is invisible: nothing has taken effect yet.                   *)
LEMMA SubmitRefines ==
  ASSUME IInv, BeliefInv, HeldInv, IInv', HeldInv', SubmitSkill
  PROVE  [Promise!Next]_(Promise!vars)
  <1>1. /\ pc = "step" /\ pc' = "wait" /\ ok
        /\ skill'.phase = "backend"
        /\ UNCHANGED <<calls, steps, compensated, attached_to>>
    BY DEF SubmitSkill, reportVars
  <1>2. HeldAtSubmission = attached_to /\ HeldAtSubmission' = attached_to
    BY <1>1, HeldUntilRecordedNext DEF HeldUntilRecorded, HeldAtSubmission, CallTook
  <1>3. ~Orphaned
    BY <1>1 DEF BeliefInv, CallTook, Orphaned
  <1>4. MayActLate = FALSE /\ MayActLate' = FALSE
    BY <1>1, <1>3 DEF MayActLate, Orphaned
  <1>5. RunPhase' = RunPhase
    BY <1>1 DEF RunPhase
  <1>. QED  BY <1>1, <1>2, <1>4, <1>5, StutterRefines

(* FinishPlan ends the run as it is, or goes on to a release PlanRun sees    *)
(* the end of.                                                               *)
LEMMA FinishRefines ==
  ASSUME IInv, HeldInv, FinishPlan
  PROVE  [Promise!Next]_(Promise!vars)
  <1>1. /\ pc = "step" /\ Len(steps) = Len(calls)
        /\ pc' \in {"release", "returned"}
        /\ UNCHANGED <<calls, steps, compensated, skill, attached_to>>
    BY DEF FinishPlan, Exhausted, reportVars
  <1>2. HeldAtSubmission' = HeldAtSubmission
    BY <1>1 DEF HeldAtSubmission
  <1>3. MayActLate' = MayActLate
    BY <1>1 DEF MayActLate, Orphaned, Serving
  <1>4. CASE pc' = "release"
    <2>1. RunPhase' = RunPhase
      BY <1>1, <1>4 DEF RunPhase
    <2>. QED  BY <1>1, <1>2, <1>3, <2>1, StutterRefines
  <1>5. CASE pc' = "returned"
    <2>1. RunPhase = "running" /\ RunPhase' = "ended"
      BY <1>1, <1>5 DEF RunPhase
    <2>2. Promise!EndAsIs
      BY <1>1, <1>2, <1>3, <2>1, PromiseReads DEF Promise!EndAsIs
    <2>. QED  BY <2>2 DEF Promise!Next
  <1>. QED  BY <1>1, <1>4, <1>5

(* What is held does not change while the worker is in its backend.          *)
LEMMA HeldIsSubmitted ==
  ASSUME UNCHANGED <<calls, steps, pc>>, Serving' = Serving,
         \/ attached_to' = attached_to
         \/ pc = "wait" /\ Serving.tool \in {"attach_handle", "detach"}
  PROVE  HeldAtSubmission' = HeldAtSubmission
  BY DEF HeldAtSubmission, LastAttach

(* BackendReturns is invisible, unless an abandoned attach_handle or detach  *)
(* is over without having taken.                                             *)
LEMMA BackendRefines ==
  ASSUME IInv, HeldInv, NEW outcome \in SkillOutcomes, BackendReturns(outcome)
  PROVE  [Promise!Next]_(Promise!vars)
  <1>1. /\ skill.phase = "backend" /\ skill'.phase \in {"update", "done"}
        /\ skill'.step = skill.step
        /\ UNCHANGED <<calls, pc, steps, compensated, attached_to>>
    BY DEF IInv, TypeOK, BackendReturns, reportVars
  <1>2. Serving' = Serving
    BY <1>1 DEF Serving
  <1>3. HeldAtSubmission' = HeldAtSubmission /\ RunPhase' = RunPhase
    BY <1>1, <1>2, HeldIsSubmitted DEF RunPhase
  <1>4. CASE MayActLate' = MayActLate
    BY <1>1, <1>3, <1>4, StutterRefines
  <1>5. CASE MayActLate' # MayActLate
    <2>1. MayActLate = TRUE /\ MayActLate' = FALSE
      BY <1>1, <1>2, <1>5 DEF MayActLate, Orphaned
    <2>2. Promise!LateEffect
      BY <1>1, <1>3, <2>1 DEF Promise!LateEffect
    <2>. QED  BY <2>2 DEF Promise!Next
  <1>. QED  BY <1>4, <1>5

(* ToolsUpdate is invisible while its skill is waited for, and the late      *)
(* effect of an abandoned one.                                               *)
LEMMA UpdateRefines ==
  ASSUME IInv, BeliefInv, HeldInv, ToolsUpdate
  PROVE  [Promise!Next]_(Promise!vars)
  <1>1. /\ skill.phase = "update" /\ skill'.phase = "done" /\ skill'.step = skill.step
        /\ attached_to' = IF Serving.tool = "attach_handle" THEN Serving.object ELSE NONE
        /\ UNCHANGED <<calls, pc, steps, compensated>>
        /\ Serving.tool \in {"attach_handle", "detach"}
    BY DEF IInv, TypeOK, ToolsUpdate, reportVars, BeliefInv
  <1>2. Serving' = Serving /\ RunPhase' = RunPhase
    BY <1>1 DEF Serving, RunPhase
  <1>3. MayActLate' = FALSE
    BY <1>1 DEF MayActLate, Orphaned
  <1>4. CASE pc = "wait"
    <2>1. HeldAtSubmission' = HeldAtSubmission
      BY <1>1, <1>2, <1>4, HeldIsSubmitted
    <2>2. MayActLate = FALSE
      BY <1>4 DEF MayActLate, Orphaned
    <2>. QED  BY <1>1, <1>2, <1>3, <2>1, <2>2, StutterRefines
  <1>5. CASE pc # "wait"
    <2>1. HeldAtSubmission = attached_to /\ HeldAtSubmission' = attached_to'
      BY <1>1, <1>5 DEF HeldAtSubmission
    <2>2. MayActLate = TRUE
      BY <1>1, <1>5 DEF MayActLate, Orphaned
    <2>3. failed_step = skill.step /\ ~ok
      BY <1>1, <1>5 DEF IInv, OrphanIsReported, Orphaned, ReportShape, WorkerInv
    <2>4. Promise!FailedCall = Serving
      BY <2>3, PromiseReads DEF Serving
    <2>5. attached_to' = Promise!Effect(Promise!FailedCall, HeldAtSubmission)
      BY <1>1, <2>4, EffectCases
    <2>6. Promise!LateEffect
      BY <1>1, <1>2, <1>3, <2>1, <2>2, <2>5 DEF Promise!LateEffect
    <2>. QED  BY <2>6 DEF Promise!Next
  <1>. QED  BY <1>4, <1>5

(* A run that releases may do so: it failed, with its plan reported to the   *)
(* end and something held when it decided.                                   *)
LEMMA ReleaseIsDue ==
  ASSUME IInv, HeldInv, pc \in {"release", "release_update"}
  PROVE  Promise!Releasing
  <1>1. /\ ~ok /\ Len(steps) = Len(calls)
        /\ attached_to # NONE \/ calls[failed_step].tool = "detach"
    BY DEF IInv, WorkerInv, HeldInv
  <1>2. HeldAtSubmission = attached_to
    BY DEF HeldAtSubmission
  <1>3. RunPhase = "running"
    BY DEF RunPhase
  <1>. QED  BY <1>1, <1>2, <1>3, PromiseReads DEF Promise!Releasing

(* ReleaseReturns: the detach came back well (invisible), badly (the run     *)
(* ends as it is), or not at all (Escape).                                   *)
LEMMA ReleaseReturnsRefines ==
  ASSUME IInv, HeldInv, NEW outcome \in SkillOutcomes, ReleaseReturns(outcome)
  PROVE  [Promise!Next]_(Promise!vars)
  <1>1. /\ pc = "release" /\ pc' \in {"release_update", "raised", "returned"}
        /\ UNCHANGED <<calls, steps, compensated, skill, attached_to>>
        /\ Len(steps) = Len(calls)
    BY DEF IInv, WorkerInv, ReleaseReturns, reportVars
  <1>2. /\ HeldAtSubmission' = HeldAtSubmission /\ MayActLate' = MayActLate
        /\ RunPhase = "running"
    BY <1>1 DEF HeldAtSubmission, MayActLate, Orphaned, Serving, RunPhase
  <1>3. CASE pc' = "release_update"
    BY <1>1, <1>2, <1>3, StutterRefines DEF RunPhase
  <1>4. CASE pc' = "raised"
    <2>1. Promise!Escape
      BY <1>1, <1>2, <1>4, ReleaseIsDue DEF Promise!Escape, RunPhase
    <2>. QED  BY <2>1 DEF Promise!Next
  <1>5. CASE pc' = "returned"
    <2>1. Promise!EndAsIs
      BY <1>1, <1>2, <1>5, PromiseReads DEF Promise!EndAsIs, RunPhase
    <2>. QED  BY <2>1 DEF Promise!Next
  <1>. QED  BY <1>1, <1>3, <1>4, <1>5

(* ReleaseUpdate is EndReleased.                                             *)
LEMMA ReleaseUpdateRefines ==
  ASSUME IInv, HeldInv, ReleaseUpdate
  PROVE  Promise!EndReleased
  <1>1. /\ pc = "release_update" /\ pc' = "returned"
        /\ attached_to' = NONE /\ compensated' = TRUE
        /\ UNCHANGED <<calls, steps, skill>>
    BY DEF ReleaseUpdate
  <1>2. HeldAtSubmission' = NONE /\ MayActLate' = MayActLate /\ RunPhase' = "ended"
    BY <1>1 DEF HeldAtSubmission, MayActLate, Orphaned, Serving, RunPhase
  <1>. QED  BY <1>1, <1>2, ReleaseIsDue DEF Promise!EndReleased

(* Every step of a run is a step of PlanRun, or invisible to it.             *)
LEMMA NextRefines ==
  ASSUME IInv, BeliefInv, HeldInv, IInv', HeldInv', [Next]_vars
  PROVE  [Promise!Next]_(Promise!vars)
  <1>1. CASE ExecutorStep
    <2>1. CASE SkipStep \/ BlockStep \/ CollectResult \/ ReleaseUpdate
      BY <2>1, SkipRefines, BlockRefines, CollectRefines, ReleaseUpdateRefines DEF Promise!Next
    <2>. QED  BY <1>1, <2>1, SubmitRefines, FinishRefines DEF ExecutorStep
  <1>2. CASE TimeOutSkill
    BY <1>2, TimeOutRefines DEF Promise!Next
  <1>3. ASSUME NEW outcome \in SkillOutcomes,
               BackendReturns(outcome) \/ ReleaseReturns(outcome)
        PROVE  [Promise!Next]_(Promise!vars)
    BY <1>3, BackendRefines, ReleaseReturnsRefines
  <1>4. CASE ToolsUpdate
    BY <1>4, UpdateRefines
  <1>5. CASE UNCHANGED vars
    <2>1. /\ UNCHANGED <<calls, pc, steps, compensated, skill, attached_to>>
      BY <1>5 DEF vars, reportVars
    <2>2. Serving' = Serving
      BY <2>1 DEF Serving
    <2>3. MayActLate' = MayActLate /\ RunPhase' = RunPhase
      BY <2>1, <2>2 DEF MayActLate, Orphaned, RunPhase
    <2>. QED  BY <2>1, <2>2, <2>3, HeldIsSubmitted, StutterRefines
  <1>. QED
    BY <1>1, <1>2, <1>3, <1>4, <1>5 DEF Next, Terminated

(* The three invariants hold of every run.                                   *)
LEMMA StrongInvariance == Spec => [](IInv /\ BeliefInv /\ HeldInv)
  <1>1. Init => BeliefInv
    BY DEF Init, BeliefInv, BeliefIsHeld, CallTook
  <1>2. Init => HeldInv
    BY DEF Init, HeldInv
  <1>. QED  BY <1>1, <1>2, InitInv, NextInv, BeliefNext, HeldNext, PTL DEF Spec

(* Every run of execute(), its threads, timeouts and abandoned skills        *)
(* included, is a run of PlanRun: the executor keeps its promise.            *)
THEOREM PromiseIsKept == Spec => ImplementsPlanRun
  <1>1. Init => Promise!Init
    <2>1. ASSUME Init PROVE HeldAtSubmission = NONE /\ MayActLate = FALSE /\ RunPhase = "running"
      BY <2>1 DEF Init, HeldAtSubmission, MayActLate, Orphaned, RunPhase
    <2>. QED  BY <2>1 DEF Init, Promise!Init
  <1>2. IInv /\ BeliefInv /\ HeldInv /\ IInv' /\ HeldInv' /\ [Next]_vars
          => [Promise!Next]_(Promise!vars)
    BY NextRefines
  <1>. QED
    BY <1>1, <1>2, StrongInvariance, PTL DEF Spec, ImplementsPlanRun, Promise!Spec
=============================================================================
