------------------------------- MODULE PlanRun -------------------------------
(***************************************************************************)
(* What task_executor.execute() promises the session that called it, with  *)
(* no threads in sight: the steps are taken one at a time and reported in  *)
(* order, the first one that does not succeed ends the plan, and what the  *)
(* robot holds is what the reported steps say, until the run ends with at  *)
(* most one release.  The one thing a timeout leaves open is `late`: the   *)
(* abandoned attach_handle or detach may take effect once more, at any     *)
(* time, even after the run has ended.                                     *)
(***************************************************************************)
EXTENDS Integers, Sequences

CONSTANTS Objects, NONE, Plans

VARIABLES
  calls,        \* the plan
  steps,        \* the statuses reported so far
  held,         \* what the robot holds
  late,         \* an abandoned skill may still change `held`
  phase,        \* "running", then "ended", or "escaped" by an interrupt
  compensated   \* the run ended by releasing what was held

vars == <<calls, steps, held, late, phase, compensated>>

Init ==
  /\ calls \in Plans
  /\ steps = <<>> /\ held = NONE /\ late = FALSE
  /\ phase = "running" /\ compensated = FALSE

-----------------------------------------------------------------------------
n == Len(steps)
Failed == n > 0 /\ steps[n] # "succeeded"
FailedCall == calls[CHOOSE i \in 1..n : steps[i] \notin {"succeeded", "skipped"}]
NextCall == calls[n + 1]

Effect(call, before) ==
  CASE call.tool = "attach_handle" -> call.object
    [] call.tool = "detach"        -> NONE
    [] OTHER                       -> before

MayStart(call) ==
  CASE call.tool \in {"nav_with_payload", "detach"}               -> held # NONE
    [] call.tool \in {"attach_handle", "navigate_to", "pick_up"} -> held = NONE
    [] OTHER                                                      -> TRUE

Open == phase = "running" /\ n < Len(calls)

Succeed ==
  /\ Open /\ ~Failed /\ MayStart(NextCall)
  /\ steps' = Append(steps, "succeeded")
  /\ held' = Effect(NextCall, held)
  /\ UNCHANGED <<calls, late, phase, compensated>>

Fail ==
  /\ Open /\ ~Failed
  /\ \/ ~MayStart(NextCall) /\ steps' = Append(steps, "blocked") /\ UNCHANGED late
     \/ MayStart(NextCall) /\ steps' = Append(steps, "failed") /\ UNCHANGED late
     \/ /\ MayStart(NextCall) /\ steps' = Append(steps, "timed_out")
        /\ late' \in {FALSE, Effect(NextCall, held) # held}
  /\ UNCHANGED <<calls, held, phase, compensated>>

Skip ==
  /\ Open /\ Failed
  /\ steps' = Append(steps, "skipped")
  /\ UNCHANGED <<calls, held, late, phase, compensated>>

EndAsIs ==
  /\ phase = "running" /\ n = Len(calls)
  /\ phase' = "ended"
  /\ UNCHANGED <<calls, steps, held, late, compensated>>

(* Something was still held when the plan had failed: a detach that timed    *)
(* out may have let go of it since.                                          *)
Releasing ==
  /\ phase = "running" /\ n = Len(calls) /\ Failed
  /\ held # NONE \/ FailedCall.tool = "detach"

EndReleased ==
  /\ Releasing
  /\ phase' = "ended" /\ held' = NONE /\ compensated' = TRUE
  /\ UNCHANGED <<calls, steps, late>>

Escape ==
  /\ (Open /\ ~Failed /\ MayStart(NextCall)) \/ Releasing
  /\ phase' = "escaped"
  /\ UNCHANGED <<calls, steps, held, late, compensated>>

LateEffect ==
  /\ late /\ late' = FALSE
  /\ held' \in {held, Effect(FailedCall, held)}
  /\ UNCHANGED <<calls, steps, phase, compensated>>

Next == Succeed \/ Fail \/ Skip \/ EndAsIs \/ EndReleased \/ Escape \/ LateEffect

Spec == Init /\ [][Next]_vars
=============================================================================
