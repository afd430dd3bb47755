--------------------------- MODULE HospitalServer ---------------------------
(***************************************************************************)
(* The process of scripts/gb10/agentic/hospital_server.py: the main        *)
(* thread, the only one allowed to step the simulator; the worker thread   *)
(* that handles one instruction at a time; the skill threads task_executor *)
(* starts under it and abandons on timeout; and MainThreadBridge, through  *)
(* which a skill hands its simulator work to the main thread and blocks.   *)
(*                                                                         *)
(* Instructions are numbered in the order next_instruction takes them and  *)
(* a skill is <<instruction, step>>.  A skill drives the base through the  *)
(* bridge or, like pick_up, works on its own thread.  Bridge.call's put    *)
(* follows pool.submit within microseconds of a timeout of minutes, so the *)
(* two are one step.  TaskExecutor has the executor in full: here a plan   *)
(* goes on while its skills succeed and ends with the first that does not. *)
(***************************************************************************)
EXTENDS Integers, Sequences, FiniteSets

CONSTANTS
  MaxInstr,         \* bound: instructions the operators send
  MaxSkills,        \* bound: skills in a plan
  SkillsMayStall,   \* FALSE: no skill takes longer than the executor waits
  MaxInterrupts     \* bound: how often the operator presses Ctrl-C

Instr == 1..MaxInstr
Skills == Instr \X (1..MaxSkills)

ASSUME InstrAssumption == MaxInstr \in Nat /\ MaxSkills \in Nat \ {0}
ASSUME StallAssumption == SkillsMayStall \in BOOLEAN
ASSUME InterruptsAssumption == MaxInterrupts \in Nat

VARIABLES
  main,         \* main thread: where it is, the callable it runs, and where it was when
                \* pump or a KeyboardInterrupt took it from there
  handler,      \* worker thread: where it is, its instruction and the step it is at
  bridge,       \* MainThreadBridge._queue, as skills
  skill,        \* each skill thread: "none", waiting in the queue, working, ...
  box,          \* what the bridge or the skill's own work handed back
  taken,        \* how many instructions next_instruction has taken
  published,    \* instructions with a file in the outbox
  status,       \* status.json
  window,       \* SimulationApp.is_running()
  interrupts    \* Ctrl-C pressed so far

vars == <<main, handler, bridge, skill, box, taken, published, status, window, interrupts>>

Result == {"ok", "fail", "interrupt"}
SkillPhase == {"none", "queued", "driving", "working", "done"}

TypeOK ==
  /\ main \in [pc : {"poll", "wait", "call", "drain", "stopping", "stopped", "exited"},
               runs : Skills \cup {<<>>}, from : {"poll", "wait", "drain", "none"}]
  /\ handler \in [pc : {"dead", "announce", "parse", "step", "future", "publish", "unbusy"},
                  instr : 0..MaxInstr, step : 0..(MaxSkills + 1), last : 0..MaxSkills]
  /\ bridge \in Seq(Skills)
  /\ skill \in [Skills -> SkillPhase]
  /\ box \in [Skills -> Result \cup {"empty"}]
  /\ taken \in 0..MaxInstr
  /\ published \subseteq Instr
  /\ status \in [ready : BOOLEAN, busy : BOOLEAN]
  /\ window \in BOOLEAN
  /\ interrupts \in 0..MaxInterrupts

Init ==
  /\ main = [pc |-> "poll", runs |-> <<>>, from |-> "none"]
  /\ handler = [pc |-> "dead", instr |-> 0, step |-> 0, last |-> 0]
  /\ bridge = <<>>
  /\ skill = [s \in Skills |-> "none"]
  /\ box = [s \in Skills |-> "empty"]
  /\ taken = 0 /\ published = {}
  /\ status = [ready |-> TRUE, busy |-> FALSE]
  /\ window = TRUE /\ interrupts = 0

At(label) == main.pc = label
Goto(label) == main' = [pc |-> label, runs |-> <<>>, from |-> "none"]
Alive == handler.pc # "dead"
Mine == <<handler.instr, handler.step>>

-----------------------------------------------------------------------------
(* The main thread.                                                          *)

TakeInstruction ==
  /\ At("poll") /\ window /\ taken < MaxInstr
  /\ taken' = taken + 1
  /\ handler' = [pc |-> "announce", instr |-> taken + 1, step |-> 0, last |-> 0]
  /\ Goto("wait")
  /\ UNCHANGED <<bridge, skill, box, published, status, window, interrupts>>

(* Mutant: the loop polls on without a window.                               *)
WindowGoneUnheeded == At("poll") /\ ~window /\ UNCHANGED vars

WindowGone ==
  /\ At("poll") /\ ~window
  /\ Goto("stopping")
  /\ UNCHANGED <<handler, bridge, skill, box, taken, published, status, window, interrupts>>

(* pump() takes the oldest callable and runs it, for as long as it drives.   *)
PumpStarts ==
  /\ (At("wait") /\ Alive) \/ At("drain")
  /\ bridge # <<>>
  /\ main' = [pc |-> "call", runs |-> Head(bridge), from |-> main.pc]
  /\ bridge' = Tail(bridge)
  /\ skill' = [skill EXCEPT ![Head(bridge)] = "driving"]
  /\ UNCHANGED <<handler, box, taken, published, status, window, interrupts>>

PumpEnds(result) ==
  /\ At("call")
  /\ box' = [box EXCEPT ![main.runs] = result]
  /\ skill' = [skill EXCEPT ![main.runs] = "done"]
  /\ Goto(main.from)
  /\ UNCHANGED <<handler, bridge, taken, published, status, window, interrupts>>

(* Mutant: the bridge is not drained after the handler has ended.            *)
HandlerGoneUndrained ==
  /\ At("wait") /\ ~Alive
  /\ Goto("poll")
  /\ UNCHANGED <<handler, bridge, skill, box, taken, published, status, window, interrupts>>

HandlerGone ==
  /\ At("wait") /\ ~Alive
  /\ Goto("drain")
  /\ UNCHANGED <<handler, bridge, skill, box, taken, published, status, window, interrupts>>

Drained ==
  /\ At("drain") /\ bridge = <<>>
  /\ Goto("poll")
  /\ UNCHANGED <<handler, bridge, skill, box, taken, published, status, window, interrupts>>

(* The finally block.                                                        *)
PublishDown ==
  /\ At("stopping")
  /\ status' = [ready |-> FALSE, busy |-> FALSE]
  /\ main' = [main EXCEPT !.pc = "stopped"]
  /\ UNCHANGED <<handler, bridge, skill, box, taken, published, window, interrupts>>

(* hospital.close() and the end of the process, some time later: the worker, *)
(* a daemon, is killed wherever it is, and whatever skills are left with it. *)
Exit ==
  /\ At("stopped")
  /\ main' = [main EXCEPT !.pc = "exited"]
  /\ handler' = [handler EXCEPT !.pc = "dead"]
  /\ bridge' = <<>>
  /\ skill' = [s \in Skills |-> IF skill[s] = "done" THEN "done" ELSE "none"]
  /\ UNCHANGED <<box, taken, published, status, window, interrupts>>

(* Ctrl-C raises KeyboardInterrupt in the main thread.  Outside pump() it    *)
(* leaves the loop; inside, `except BaseException` hands it to the skill.    *)
Interrupt ==
  /\ interrupts < MaxInterrupts
  /\ interrupts' = interrupts + 1
  /\ IF At("call")
     THEN /\ box' = [box EXCEPT ![main.runs] = "interrupt"]
          /\ skill' = [skill EXCEPT ![main.runs] = "done"]
          /\ Goto(main.from)
     ELSE /\ main.pc \in {"poll", "wait", "drain"}
          /\ main' = [pc |-> "stopping", runs |-> <<>>, from |-> main.pc]
          /\ UNCHANGED <<box, skill>>
  /\ UNCHANGED <<handler, bridge, taken, published, status, window>>

CloseWindow ==
  /\ window /\ window' = FALSE
  /\ UNCHANGED <<main, handler, bridge, skill, box, taken, published, status, interrupts>>

-----------------------------------------------------------------------------
(* The worker thread: handle().                                              *)

HandlerGoto(label) == handler' = [handler EXCEPT !.pc = label]

Announce ==
  /\ handler.pc = "announce"
  /\ status' = [ready |-> TRUE, busy |-> TRUE]
  /\ HandlerGoto("parse")
  /\ UNCHANGED <<main, bridge, skill, box, taken, published, window, interrupts>>

(* A plan of `last` skills, or none: a ParseError ends the session at once.  *)
Parse(last) ==
  /\ handler.pc = "parse"
  /\ handler' = [handler EXCEPT !.pc = IF last = 0 THEN "publish" ELSE "step",
                                !.step = 1, !.last = last]
  /\ UNCHANGED <<main, bridge, skill, box, taken, published, status, window, interrupts>>

SubmitDrive ==
  /\ handler.pc = "step" /\ handler.step <= handler.last
  /\ skill' = [skill EXCEPT ![Mine] = "queued"]
  /\ bridge' = Append(bridge, Mine)
  /\ HandlerGoto("future")
  /\ UNCHANGED <<main, box, taken, published, status, window, interrupts>>

SubmitWork ==
  /\ handler.pc = "step" /\ handler.step <= handler.last
  /\ skill' = [skill EXCEPT ![Mine] = "working"]
  /\ HandlerGoto("future")
  /\ UNCHANGED <<main, bridge, box, taken, published, status, window, interrupts>>

(* Mutant: a failed skill ends the thread before its result is written.      *)
CollectLosesFailures ==
  /\ handler.pc = "future" /\ skill[Mine] = "done"
  /\ handler' = CASE box[Mine] = "ok" -> [handler EXCEPT !.pc = "step", !.step = @ + 1]
                  [] OTHER            -> [handler EXCEPT !.pc = "dead"]
  /\ UNCHANGED <<main, bridge, skill, box, taken, published, status, window, interrupts>>

(* An interrupt is no Exception: it passes through execute, run_session and  *)
(* handle, and the thread ends without a result.                             *)
Collect ==
  /\ handler.pc = "future" /\ skill[Mine] = "done"
  /\ handler' = CASE box[Mine] = "ok"        -> [handler EXCEPT !.pc = "step", !.step = @ + 1]
                  [] box[Mine] = "fail"      -> [handler EXCEPT !.pc = "publish"]
                  [] box[Mine] = "interrupt" -> [handler EXCEPT !.pc = "dead"]
  /\ UNCHANGED <<main, bridge, skill, box, taken, published, status, window, interrupts>>

TimeOut ==
  /\ SkillsMayStall
  /\ handler.pc = "future" /\ skill[Mine] # "done"
  /\ HandlerGoto("publish")
  /\ UNCHANGED <<main, bridge, skill, box, taken, published, status, window, interrupts>>

PlanDone ==
  /\ handler.pc = "step" /\ handler.step > handler.last
  /\ HandlerGoto("publish")
  /\ UNCHANGED <<main, bridge, skill, box, taken, published, status, window, interrupts>>

PublishResult ==
  /\ handler.pc = "publish"
  /\ published' = published \cup {handler.instr}
  /\ HandlerGoto("unbusy")
  /\ UNCHANGED <<main, bridge, skill, box, taken, status, window, interrupts>>

AnnounceIdle ==
  /\ handler.pc = "unbusy"
  /\ status' = [ready |-> TRUE, busy |-> FALSE]
  /\ HandlerGoto("dead")
  /\ UNCHANGED <<main, bridge, skill, box, taken, published, window, interrupts>>

(* A skill thread that works without the simulator comes back.               *)
WorkEnds(s, result) ==
  /\ skill[s] = "working"
  /\ skill' = [skill EXCEPT ![s] = "done"]
  /\ box' = [box EXCEPT ![s] = result]
  /\ UNCHANGED <<main, handler, bridge, taken, published, status, window, interrupts>>

-----------------------------------------------------------------------------
(* TakeInstruction apart, which waits for an operator.                       *)
MainStep ==
  \/ WindowGone \/ PumpStarts \/ HandlerGone \/ Drained \/ PublishDown
  \/ \E result \in {"ok", "fail"} : PumpEnds(result)

HandlerStep ==
  \/ Announce \/ SubmitDrive \/ SubmitWork \/ Collect \/ PlanDone \/ PublishResult
  \/ AnnounceIdle
  \/ \E last \in 0..MaxSkills : Parse(last)

(* The process has ended, or polls an empty inbox with its window open.      *)
Idle ==
  /\ At("exited") \/ (At("poll") /\ window /\ taken = MaxInstr)
  /\ UNCHANGED vars

Next ==
  \/ TakeInstruction \/ MainStep \/ HandlerStep \/ TimeOut \/ Interrupt \/ CloseWindow \/ Exit
  \/ \E s \in Skills, result \in {"ok", "fail"} : WorkEnds(s, result)
  \/ Idle

Spec == Init /\ [][Next]_vars

(* The main loop runs on and navigate_to is bounded by its own timeout_s;    *)
(* the handler runs on and its future's timeout fires.  Neither the operator *)
(* nor a skill that works on its own thread owes anything, and nobody says   *)
(* how long the simulator takes to close.                                    *)
FairSpec == Spec /\ WF_vars(MainStep) /\ WF_vars(HandlerStep) /\ WF_vars(TimeOut)

-----------------------------------------------------------------------------
OnMain == {bridge[i] : i \in 1..Len(bridge)} \cup ({main.runs} \ {<<>>})

(* While an instruction is handled, the main thread neither runs nor holds   *)
(* simulator work of an earlier one: a drive abandoned by its timeout is     *)
(* finished, never resumed under the next instruction.                       *)
NoCarryover ==
  Alive => \A s \in OnMain : s[1] = handler.instr

(* An instruction is left without a result only by Ctrl-C: by one that       *)
(* landed in one of its drives, or by the one that ended the main loop while *)
(* it was handled and whose exit killed the worker.  Closing the window,     *)
(* timeouts and skills that fail or never come back leave none.              *)
UnansweredWasInterrupted ==
  \A i \in 1..taken :
    ~Alive \/ handler.instr # i =>
      \/ i \in published
      \/ \E k \in 1..MaxSkills : box[<<i, k>>] = "interrupt"
      \/ i = taken /\ At("exited") /\ main.from = "wait"

(* A server that was closed by its window says so: no worker announces it    *)
(* ready again behind the main thread's back.                                *)
ClosedIsNotReady ==
  main.pc \in {"stopped", "exited"} /\ interrupts = 0 => ~status.ready

(* Unless the operator stops the server, no skill thread is left blocked in  *)
(* bridge.call, not even one its executor has abandoned.                     *)
EveryCallIsServed ==
  [](interrupts = 0) =>
    \A s \in Skills : skill[s] = "queued" ~> skill[s] = "done"

(* Closing the window shuts the server down.                                 *)
ClosingStops == ~window ~> main.pc \in {"stopped", "exited"}
=============================================================================
