---------------------------- MODULE TaskExecutor ----------------------------
(***************************************************************************)
(* One call of simbiote/agentic/task_executor.py:execute(): the executor   *)
(* thread that walks a validated plan, the single worker thread of its     *)
(* ThreadPoolExecutor that runs each skill, and the attachment belief of   *)
(* RobotTools that both of them touch.  A skill that outlives timeout_s is *)
(* abandoned, not killed, so its thread may still change the robot and     *)
(* _attached_to while the executor compensates, and after it has returned. *)
(*                                                                         *)
(* Steps are numbered from 1 and failed_step = 0 is Python's None.  The    *)
(* local `aborted` is set exactly where report.ok is cleared, so the model *)
(* reads ~ok for it.                                                       *)
(***************************************************************************)
EXTENDS Integers, Sequences

CONSTANTS
  Objects,         \* ids of the payloads a plan may name
  NONE,            \* Python's None
  Plans,           \* the plans tool_schema let through
  SkillOutcomes,   \* how a backend's run_skill may end
  SkillsMayStall   \* FALSE: every skill ends within timeout_s

Tool == {"navigate_to", "pick_up", "approach_wheelchair", "align_gripper",
         "attach_handle", "nav_with_payload", "detach"}

Call == [tool : Tool, object : Objects \cup {NONE}]

(* "raise_timeout" is a TimeoutError raised by the skill itself and          *)
(* "interrupt" a BaseException handed back by MainThreadBridge.pump.         *)
Outcome == {"ok", "fail", "raise", "raise_timeout", "interrupt"}

Status == {"succeeded", "failed", "timed_out", "blocked", "skipped"}

ASSUME NoneAssumption == NONE \notin Objects
ASSUME PlansAssumption ==
  Plans \subseteq {p \in Seq(Call) :
                     \A i \in 1..Len(p) : p[i].tool = "attach_handle" => p[i].object \in Objects}
ASSUME OutcomesAssumption == SkillOutcomes \subseteq Outcome
ASSUME StallAssumption == SkillsMayStall \in BOOLEAN

VARIABLES
  calls,        \* the plan
  pc,           \* where the executor thread is
  steps,        \* report.steps, as their statuses
  ok,           \* report.ok
  failed_step,  \* report.failed_step
  compensated,  \* report.compensated
  skill,        \* the pool's worker thread: phase, step it serves, its future's result
  attached_to,  \* RobotTools._attached_to
  gripper       \* StubBackend._gripper

reportVars == <<steps, ok, failed_step, compensated>>
vars == <<calls, pc, reportVars, skill, attached_to, gripper>>

Phase == {"idle", "backend", "update", "done"}
PC == {"step", "wait", "release", "release_update", "returned", "raised"}

TypeOK ==
  /\ calls \in Plans
  /\ pc \in PC
  /\ steps \in Seq(Status) /\ Len(steps) <= Len(calls)
  /\ ok \in BOOLEAN
  /\ failed_step \in 0..Len(steps)
  /\ compensated \in BOOLEAN
  /\ skill \in [phase : Phase, step : Nat, result : Outcome \cup {NONE}]
  /\ attached_to \in Objects \cup {NONE}
  /\ gripper \in {"open", "closed"}

Init ==
  /\ calls \in Plans
  /\ pc = "step"
  /\ steps = <<>> /\ ok = TRUE /\ failed_step = 0 /\ compensated = FALSE
  /\ skill = [phase |-> "idle", step |-> 0, result |-> NONE]
  /\ attached_to = NONE
  /\ gripper = "open"

-----------------------------------------------------------------------------
index == Len(steps) + 1
Exhausted == Len(steps) = Len(calls)
Current == calls[index]
Serving == calls[skill.step]

(* Why `call` must not start while `held` is attached.                       *)
PreconditionError(call, held) ==
  \/ call.tool = "attach_handle" /\ held # NONE
  \/ call.tool \in {"nav_with_payload", "detach"} /\ held = NONE
  \/ call.tool \in {"navigate_to", "pick_up"} /\ held # NONE

ReportSuccess ==
  /\ steps' = Append(steps, "succeeded")
  /\ UNCHANGED <<ok, failed_step, compensated>>

ReportFailure(status) ==
  /\ steps' = Append(steps, status)
  /\ ok' = FALSE
  /\ failed_step' = index
  /\ UNCHANGED compensated

-----------------------------------------------------------------------------
(* The executor thread: one iteration of the loop over `calls`.              *)

SkipStep ==
  /\ pc = "step" /\ ~Exhausted /\ ~ok
  /\ steps' = Append(steps, "skipped")
  /\ UNCHANGED <<calls, pc, ok, failed_step, compensated, skill, attached_to, gripper>>

BlockStep ==
  /\ pc = "step" /\ ~Exhausted /\ ok
  /\ PreconditionError(Current, attached_to)
  /\ ReportFailure("blocked")
  /\ UNCHANGED <<calls, pc, skill, attached_to, gripper>>

(* Mutant: the precondition is not checked.                                  *)
SubmitSkillUnchecked ==
  /\ pc = "step" /\ ~Exhausted /\ ok
  /\ pc' = "wait"
  /\ skill' = [phase |-> "backend", step |-> index, result |-> NONE]
  /\ UNCHANGED <<calls, reportVars, attached_to, gripper>>

SubmitSkill ==
  /\ pc = "step" /\ ~Exhausted /\ ok
  /\ ~PreconditionError(Current, attached_to)
  /\ pc' = "wait"
  /\ skill' = [phase |-> "backend", step |-> index, result |-> NONE]
  /\ UNCHANGED <<calls, reportVars, attached_to, gripper>>

(* future.result() finds the future finished.                                *)
CollectResult ==
  /\ pc = "wait" /\ skill.phase = "done"
  /\ \/ skill.result = "ok" /\ ReportSuccess /\ pc' = "step"
     \/ skill.result \in {"fail", "raise"} /\ ReportFailure("failed") /\ pc' = "step"
     \/ skill.result = "raise_timeout" /\ ReportFailure("timed_out") /\ pc' = "step"
     \/ skill.result = "interrupt" /\ pc' = "raised" /\ UNCHANGED reportVars
  /\ UNCHANGED <<calls, skill, attached_to, gripper>>

(* Mutant: future.result() without a timeout.                                *)
TimeOutSkillNever == FALSE /\ UNCHANGED vars

(* future.result() gives up; the skill's thread is left running.             *)
TimeOutSkill ==
  /\ SkillsMayStall
  /\ pc = "wait" /\ skill.phase # "done"
  /\ ReportFailure("timed_out")
  /\ pc' = "step"
  /\ UNCHANGED <<calls, skill, attached_to, gripper>>

(* Mutant: a plan that succeeded is released as well.                        *)
FinishPlanAlwaysReleases ==
  /\ pc = "step" /\ Exhausted
  /\ pc' = IF attached_to # NONE THEN "release" ELSE "returned"
  /\ UNCHANGED <<calls, reportVars, skill, attached_to, gripper>>

(* The decision after the loop: return, or release what is still held.       *)
FinishPlan ==
  /\ pc = "step" /\ Exhausted
  /\ pc' = IF ~ok /\ attached_to # NONE THEN "release" ELSE "returned"
  /\ UNCHANGED <<calls, reportVars, skill, attached_to, gripper>>

-----------------------------------------------------------------------------
(* What run_skill leaves behind.  The gripper moves before the last action   *)
(* is emitted, so a sink that raises there fails a skill that took effect.   *)
GripperAfter(tool, outcome) ==
  LET moved == IF tool \in {"attach_handle", "pick_up"} THEN "closed"
               ELSE IF tool = "detach" THEN "open" ELSE gripper
  IN  CASE outcome = "ok"   -> {moved}
        [] outcome = "fail" -> {gripper}
        [] OTHER            -> {gripper, moved}

(* Mutant: RobotTools records the attachment without looking at result.ok.   *)
BackendReturnsUnread(outcome) ==
  /\ skill.phase = "backend"
  /\ gripper' \in GripperAfter(Serving.tool, outcome)
  /\ skill' = IF Serving.tool \in {"attach_handle", "detach"}
              THEN [skill EXCEPT !.phase = "update"]
              ELSE [skill EXCEPT !.phase = "done", !.result = outcome]
  /\ UNCHANGED <<calls, pc, reportVars, attached_to>>

(* The worker thread: run_skill ends, well or badly.                         *)
BackendReturns(outcome) ==
  /\ skill.phase = "backend"
  /\ gripper' \in GripperAfter(Serving.tool, outcome)
  /\ skill' = IF outcome = "ok" /\ Serving.tool \in {"attach_handle", "detach"}
              THEN [skill EXCEPT !.phase = "update"]
              ELSE [skill EXCEPT !.phase = "done", !.result = outcome]
  /\ UNCHANGED <<calls, pc, reportVars, attached_to>>

(* The worker thread: RobotTools records the attachment of an ok result.     *)
ToolsUpdate ==
  /\ skill.phase = "update"
  /\ attached_to' = IF Serving.tool = "attach_handle" THEN Serving.object ELSE NONE
  /\ skill' = [skill EXCEPT !.phase = "done", !.result = "ok"]
  /\ UNCHANGED <<calls, pc, reportVars, gripper>>

-----------------------------------------------------------------------------
(* The compensating tools.detach, run on the executor thread itself: it has  *)
(* no timeout of its own.                                                    *)
ReleaseReturns(outcome) ==
  /\ pc = "release"
  /\ gripper' \in GripperAfter("detach", outcome)
  /\ pc' = CASE outcome = "ok"        -> "release_update"
             [] outcome = "interrupt" -> "raised"
             [] OTHER                 -> "returned"
  /\ UNCHANGED <<calls, reportVars, skill, attached_to>>

(* Mutant: the detach is made on the backend, past RobotTools.               *)
ReleaseUpdatePastTools ==
  /\ pc = "release_update"
  /\ compensated' = TRUE
  /\ pc' = "returned"
  /\ UNCHANGED <<calls, steps, ok, failed_step, skill, attached_to, gripper>>

ReleaseUpdate ==
  /\ pc = "release_update"
  /\ attached_to' = NONE
  /\ compensated' = TRUE
  /\ pc' = "returned"
  /\ UNCHANGED <<calls, steps, ok, failed_step, skill, gripper>>

Terminated ==
  /\ pc \in {"returned", "raised"} /\ skill.phase \in {"idle", "done"}
  /\ UNCHANGED vars

ExecutorStep ==
  SkipStep \/ BlockStep \/ SubmitSkill \/ CollectResult \/ FinishPlan \/ ReleaseUpdate

Next ==
  \/ ExecutorStep
  \/ TimeOutSkill
  \/ \E outcome \in SkillOutcomes : BackendReturns(outcome) \/ ReleaseReturns(outcome)
  \/ ToolsUpdate
  \/ Terminated

Spec == Init /\ [][Next]_vars

(* The executor thread runs while it can and its timeout fires; nothing is   *)
(* assumed of the backend, whose skills may hang.                            *)
FairSpec == Spec /\ WF_vars(ExecutorStep) /\ WF_vars(TimeOutSkill)

-----------------------------------------------------------------------------
Orphaned == skill.phase \in {"backend", "update"} /\ pc # "wait"
Failures == {"failed", "timed_out", "blocked"}

(* The report tells the truth about where the plan broke: everything before  *)
(* failed_step succeeded, that step is the only failure, everything after it *)
(* was skipped, and a run without a failure is one whose steps all succeeded.*)
ReportShape ==
  /\ ok => failed_step = 0 /\ \A i \in 1..Len(steps) : steps[i] = "succeeded"
  /\ ~ok => /\ failed_step \in 1..Len(steps)
            /\ steps[failed_step] \in Failures
            /\ \A i \in 1..Len(steps) :
                 /\ i < failed_step => steps[i] = "succeeded"
                 /\ i > failed_step => steps[i] = "skipped"
  /\ pc = "returned" => Len(steps) = Len(calls)

(* A skill thread that outlives its step is never a surprise: the report     *)
(* names the step it serves as the one that timed out.                       *)
OrphanIsReported ==
  Orphaned => failed_step = skill.step /\ steps[failed_step] = "timed_out"

(* A precondition holds not only when the skill is submitted but for as long *)
(* as its thread has yet to finish and the executor waits on it: nothing the *)
(* executor or an earlier step does can take it away underneath the skill.   *)
PreconditionHoldsWhileRunning ==
  pc = "wait" /\ skill.phase \in {"backend", "update"} =>
    ~PreconditionError(Serving, attached_to)

(* A run that reports a compensating release holds nothing, then and for     *)
(* good: no skill abandoned earlier can attach the robot again after it.     *)
CompensatedHoldsNothing ==
  compensated => attached_to = NONE

(* An attach_handle under way, waited for or abandoned, was submitted with   *)
(* nothing attached, and nothing has been since: so no run that releases, or *)
(* has released, has one.                                                    *)
AttachInv ==
  skill.phase \in {"backend", "update"} /\ Serving.tool = "attach_handle" =>
    /\ attached_to = NONE
    /\ ~compensated
    /\ pc \notin {"release", "release_update"}

(* A robot that believes it holds a payload holds it, unless a detach was    *)
(* tried and did not come back well: the belief is never ahead of the hand.  *)
BeliefIsHeld ==
  attached_to # NONE /\ gripper = "open" =>
    \/ Serving.tool = "detach"
    \/ pc = "release_update"
    \/ ~ok /\ pc \in {"returned", "raised"}

(* What the reported steps say is held: o is the object of the last of them  *)
(* that attached anything.                                                   *)
LastAttach(o) ==
  \E i \in 1..Len(steps) :
    /\ calls[i] = [tool |-> "attach_handle", object |-> o]
    /\ \A j \in (i + 1)..Len(steps) : calls[j].tool # "attach_handle"

(* The executor's promise, with threads and result passing hidden.  While it *)
(* waits for an attach_handle or a detach, what is held is what was held at  *)
(* the submission.                                                           *)
HeldAtSubmission ==
  IF pc = "wait" /\ Serving.tool = "attach_handle" THEN NONE
  ELSE IF pc = "wait" /\ Serving.tool = "detach"
  THEN CHOOSE o \in Objects : LastAttach(o)
  ELSE attached_to

(* An abandoned skill that may still change what is held.                    *)
MayActLate == Orphaned /\ Serving.tool \in {"attach_handle", "detach"}

RunPhase ==
  IF pc = "returned" THEN "ended" ELSE IF pc = "raised" THEN "escaped" ELSE "running"

Promise == INSTANCE PlanRun WITH
  held <- HeldAtSubmission, late <- MayActLate, phase <- RunPhase

(* Every run, timeouts and abandoned threads included, is a run of PlanRun.  *)
ImplementsPlanRun == Promise!Spec

(* execute() returns whatever its skills do, those that hang included; what  *)
(* may keep it for good is the compensating detach alone, which no timeout   *)
(* bounds.                                                                   *)
RunReturns == <>(pc \in {"returned", "raised"}) \/ <>[](pc = "release")

(* "Aborts on the first failure and, if a constraint is still held at that   *)
(* point, releases it": a failed run leaves nothing attached.                *)
FailedRunHoldsNothing ==
  pc = "returned" /\ ~ok => attached_to = NONE
=============================================================================
