--------------------------- MODULE AgenticSession ---------------------------
(***************************************************************************)
(* run_session from the operator's words to the exported trajectory, once  *)
(* per instruction over one backend and one robot (agentic_session.py,     *)
(* hospital_demo.py): the parse of InstructionPlanner over what the words  *)
(* and the replies mean (SceneLanguage), the execution of the plan, and    *)
(* the log its skills write (demo_logger.py).                              *)
(*                                                                         *)
(* The execution is TaskExecutor's, with a skill's return and RobotTools'  *)
(* update taken as one step.  A skill that timed out runs on in its own    *)
(* thread, and logs on, beside the sessions that follow.                   *)
(***************************************************************************)
EXTENDS InstructionPlanner, SceneLanguage

CONSTANTS
  Instructions,  \* what operators say
  ModelReplies,  \* texts the model may reply
  Actions,       \* bound: how many actions each tool's skill emits
  Menu,          \* CANNED_COMMANDS: instructions that are asked for by number
  Profiles,      \* PROFILES
  Settings,      \* what arguments and environment ask for: [profile, model, timeout]
  MaxPolls       \* bound: times the model server is asked whether it is up

ASSUME ActionsAssumption == Actions \in [Driving \cup Grasping \cup {"detach"} -> Nat]

Sessions == 1..MaxSessions
Roles == {"skill", "release"}   \* a session's executor thread, and its own compensating detach

VARIABLES
  phase,     \* "start", "preflight", "up", or "gone" once the process has ended
  cli,       \* it is the command line's, which takes one instruction
  polls,     \* wait_ready's polls that nobody answered
  text,      \* the operator's words
  said,      \* what the backend is asked: the words, and the errors appended to them
  calls,     \* the reply as tool calls, as far as it could be read
  run,       \* execute and what follows it: where it is, its step, report.ok
  thread,    \* of each session and role: what it runs, and how far log_action is
  attached,  \* of each session: its RobotTools' attached_to
  welded,    \* the robot holds a handle
  current,   \* _current_session_id
  memory,    \* _active_sessions: of each session, the actions in it
  file,      \* the lines of each session's file
  torn,      \* whether it ends in half a line
  exported,  \* what export_trajectory last gave for it
  emitted,   \* history: actions the session's skills have emitted
  excuses    \* history: why the session may have left the robot attached

robotVars == <<thread, attached, welded, excuses>>
logVars == <<current, memory, file, torn, exported, emitted>>
askVars == <<text, said, calls>>
sessionVars == <<phase, cli, polls, askVars, run, robotVars, logVars>>

Idle == [tool |-> "none", at |-> "none", left |-> 0]
Running(tool) == [tool |-> tool, at |-> "run", left |-> Actions[tool]]
Resting == [stage |-> "idle", step |-> 0, ok |-> TRUE]
Exported(how, steps) == [how |-> how, steps |-> steps]
Own == Len(records)                       \* the session that is being run
Unread == [readable |-> FALSE, calls |-> <<>>, words |-> <<>>]

SessionInit ==
  /\ Init
  /\ phase = "start" /\ cli \in BOOLEAN /\ polls = 0
  /\ text = <<>> /\ said = <<>> /\ calls = Unread
  /\ run = Resting
  /\ thread = [t \in Sessions \X Roles |-> Idle]
  /\ attached = [s \in Sessions |-> FALSE] /\ welded = FALSE
  /\ current = 0
  /\ memory = [s \in Sessions |-> <<>>] /\ file = memory
  /\ torn = [s \in Sessions |-> FALSE]
  /\ exported = [s \in Sessions |-> Exported("not yet", <<>>)]
  /\ emitted = [s \in Sessions |-> 0] /\ excuses = [s \in Sessions |-> {}]

-----------------------------------------------------------------------------
(* resolve_profile: an LLMError before anybody is asked, for a profile that  *)
(* is not in the table, a timeout that is no number, a model that cannot fit.*)
Refused(setting) ==
  setting.profile \notin Profiles \/ setting.model = "ultra" \/ setting.timeout = "no number"

(* make_backend, and who drives: hospital_demo asks at once, the command     *)
(* line waits for the model server first when told to.                       *)
MakeBackend(setting) ==
  /\ phase = "start"
  /\ phase' \in IF Refused(setting) THEN {"gone"} ELSE IF cli THEN {"preflight", "up"} ELSE {"up"}
  /\ UNCHANGED <<vars, cli, polls, askVars, run, robotVars, logVars>>

Polling == phase = "preflight" /\ UNCHANGED <<vars, cli, askVars, run, robotVars, logVars>>

ServerIsUp == Polling /\ phase' = "up" /\ polls' = 0

(* wait_ready sleeps and asks again, until the deadline has passed.          *)
PollAgain == Polling /\ UNCHANGED phase /\ polls < MaxPolls /\ polls' = polls + 1

(* That ends a run without fallback; one with it goes on.                    *)
ServerIsNot == Polling /\ phase' = (IF fallback THEN "up" ELSE "gone") /\ polls' = 0

-----------------------------------------------------------------------------
(* The parse.  The next instruction is taken when the session before it is   *)
(* over: run_session_pumped joins its thread.                                *)
MayAsk == phase = "up" /\ run.stage = "idle" /\ (cli => records = <<>>)

Asks(words) ==
  /\ MayAsk /\ Begin
  /\ text' = words /\ said' = words
  /\ UNCHANGED <<phase, cli, polls, calls, run, robotVars, logVars>>

(* A number that is not on the menu is never taken for an instruction.       *)
Chooses(number) == ~cli /\ number \in DOMAIN Menu /\ Asks(Menu[number])

AsksNothing == MayAsk /\ BeginEmpty /\ UNCHANGED sessionVars

(* What the retry quotes of a reply that was refused.                        *)
Rejection(parsed) == IF parsed.readable THEN Complaint(parsed.calls) ELSE parsed.words

Kind(parsed) == IF parsed.readable /\ Valid(parsed.calls) THEN "valid" ELSE "refused"

ModelReplied(reply_text) ==
  LET parsed == ParseToolCalls(reply_text)
  IN  /\ ModelAnswers(Kind(parsed))
      /\ calls' = parsed
      /\ UNCHANGED <<phase, cli, polls, text, said, run, robotVars, logVars>>

(* FakeBackend is given what the model was given, errors and all.            *)
RulesReplied ==
  LET plan == [readable |-> TRUE, calls |-> RulesPlan(said), words |-> <<>>]
  IN  /\ Degrade(Kind(plan))
      /\ calls' = plan
      /\ UNCHANGED <<phase, cli, polls, text, said, run, robotVars, logVars>>

(* "Your previous reply was rejected: ..."                                   *)
AskedAgain ==
  /\ AskAgain
  /\ said' = text \o Rejection(calls) /\ calls' = Unread
  /\ UNCHANGED <<phase, cli, polls, text, run, robotVars, logVars>>

Posting ==
  /\ RetryPost \/ PostFails
  /\ UNCHANGED sessionVars

NotPlanned ==
  /\ PostDropped \/ BackendFails \/ Refuse
  /\ text' = <<>> /\ said' = <<>> /\ calls' = Unread
  /\ UNCHANGED <<phase, cli, polls, run, robotVars, logVars>>

(* A plan that attaches something and never lets go of it.                   *)
Keeps(plan) ==
  \E i \in DOMAIN plan : plan[i].tool = "attach_handle" /\ \A j \in DOMAIN plan : j > i => plan[j].tool # "detach"

(* The plan is run with a RobotTools of its own.                             *)
Accepted ==
  /\ Accept
  /\ run' = [stage |-> "steps", step |-> 1, ok |-> TRUE]
  /\ excuses' = [excuses EXCEPT ![Own + 1] = IF Keeps(calls.calls) THEN {"plan"} ELSE {}]
  /\ text' = <<>> /\ said' = <<>>
  /\ UNCHANGED <<phase, cli, polls, calls, thread, attached, welded, logVars>>

-----------------------------------------------------------------------------
(* The execution.                                                            *)
OverParse(action) ==
  action /\ UNCHANGED <<vars, phase, cli, polls, torn>>

Step == calls.calls[run.step]

(* _precondition_error.                                                      *)
Blocked(tool, held) ==
  IF held THEN tool \in {"attach_handle", "navigate_to", "pick_up"}
  ELSE tool \in {"nav_with_payload", "detach"}

(* Mutant: nothing is released after a failed plan.                          *)
AfterPlanKeeps(ok, held) == "report"

(* The compensating release, of what this session's tools say is attached.   *)
AfterPlan(ok, held) == IF ~ok /\ held THEN "release" ELSE "report"

NextStep(ok) ==
  IF ok /\ run.step < Len(calls.calls) THEN [run EXCEPT !.stage = "steps", !.step = @ + 1]
  ELSE [run EXCEPT !.stage = AfterPlan(ok, attached'[Own]), !.ok = ok]

StartRelease == thread' = IF run'.stage = "release"
                          THEN [thread EXCEPT ![<<Own, "release">>] = Running("detach")]
                          ELSE thread

BlockCall ==
  /\ run.stage = "steps" /\ Blocked(Step.tool, attached[Own])
  /\ UNCHANGED <<attached, welded, excuses, askVars, current, memory, file, exported, emitted>>
  /\ run' = NextStep(FALSE)
  /\ StartRelease

StartSkill ==
  /\ run.stage = "steps" /\ ~Blocked(Step.tool, attached[Own])
  /\ run' = [run EXCEPT !.stage = "skill"]
  /\ thread' = [thread EXCEPT ![<<Own, "skill">>] = Running(Step.tool)]
  /\ UNCHANGED <<attached, welded, excuses, askVars, current, memory, file, exported, emitted>>

(* future.result(timeout): the thread is left to itself.                     *)
SkillTimesOut ==
  /\ run.stage = "skill"
  /\ UNCHANGED <<attached, welded, askVars, current, memory, file, exported, emitted>>
  /\ excuses' = [excuses EXCEPT ![Own] = @ \cup {"timeout"}]
  /\ run' = NextStep(FALSE)
  /\ StartRelease

(* What the robot holds after a skill: a raise may come before or after it.  *)
HandleAfter(tool, outcome) ==
  LET moved == IF tool = "attach_handle" THEN TRUE ELSE IF tool \in {"detach", "pick_up"} THEN FALSE ELSE welded
  IN  IF outcome = "ok" THEN {moved} ELSE IF outcome = "fail" THEN {welded} ELSE {welded, moved}

AttachedAfter(s, tool, outcome) ==
  IF outcome # "ok" \/ tool \notin {"attach_handle", "detach"} THEN attached
  ELSE [attached EXCEPT ![s] = tool = "attach_handle"]

(* A skill's thread ends, abandoned or not; only the run that still waits    *)
(* for it hears of it.  One that went well has emitted its actions.          *)
SkillEnds(s, outcome) ==
  LET skill == thread[<<s, "skill">>]
      awaited == s = Own /\ run.stage = "skill"
      ended == [thread EXCEPT ![<<s, "skill">>] = Idle]
  IN  /\ skill.at = "run" /\ (outcome = "ok" => skill.left = 0)
      /\ welded' \in HandleAfter(skill.tool, outcome)
      /\ attached' = AttachedAfter(s, skill.tool, outcome)
      /\ excuses' = [excuses EXCEPT ![s] = IF outcome = "raise" /\ welded' # attached'[s] THEN @ \cup {"raise"} ELSE @]
      /\ run' = IF awaited THEN NextStep(outcome = "ok") ELSE run
      /\ thread' = IF awaited /\ run'.stage = "release"
                   THEN [ended EXCEPT ![<<s, "release">>] = Running("detach")]
                   ELSE ended
      /\ UNCHANGED <<askVars, current, memory, file, exported, emitted>>

ReleaseEnds(outcome) ==
  /\ run.stage = "release" /\ thread[<<Own, "release">>].at = "run"
  /\ outcome = "ok" => thread[<<Own, "release">>].left = 0
  /\ welded' \in HandleAfter("detach", outcome)
  /\ attached' = AttachedAfter(Own, "detach", outcome)
  /\ thread' = [thread EXCEPT ![<<Own, "release">>] = Idle]
  /\ excuses' = [excuses EXCEPT ![Own] = IF outcome = "ok" THEN @ ELSE @ \cup {"release"}]
  /\ run' = [run EXCEPT !.stage = "report"]
  /\ UNCHANGED <<askVars, current, memory, file, exported, emitted>>

WriteReport ==
  /\ run.stage = "report"
  /\ run' = [run EXCEPT !.stage = "export"]
  /\ UNCHANGED <<robotVars, askVars, current, memory, file, exported, emitted>>

(* export_trajectory in the process that logged; no action, no session.      *)
Export ==
  /\ run.stage = "export"
  /\ exported' = [exported EXCEPT ![Own] = IF memory[Own] = <<>> THEN Exported("no session", <<>>) ELSE Exported("trajectory", memory[Own])]
  /\ run' = Resting /\ calls' = Unread
  /\ UNCHANGED <<text, said, robotVars, current, memory, file, emitted>>

-----------------------------------------------------------------------------
(* log_action, in the two steps that another thread may come between.        *)

(* Mutant: the sink leaves the session to the logger.                        *)
LogOfCurrent(s) == IF current = 0 THEN s ELSE current

LogOf(s) == s

Emit(s, role) ==
  LET t == <<s, role>>
  IN  /\ thread[t].at = "run" /\ thread[t].left > 0
      /\ thread' = [thread EXCEPT ![t] = [tool |-> @.tool, at |-> "append", left |-> @.left - 1]]
      /\ emitted' = [emitted EXCEPT ![s] = @ + 1]
      /\ memory' = [memory EXCEPT ![LogOf(s)] = Append(@, <<s, t, emitted[s] + 1>>)]
      /\ current' = IF memory[LogOf(s)] = <<>> THEN LogOf(s) ELSE current
      /\ UNCHANGED <<run, attached, welded, excuses, askVars, file, exported>>

(* The last action of a thread is the one it has still to write.             *)
Pending(log, t) == log[Max({i \in DOMAIN log : log[i][2] = t})]

WriteLine(s, role) ==
  LET t == <<s, role>>
  IN  /\ thread[t].at = "append"
      /\ thread' = [thread EXCEPT ![t].at = "run"]
      /\ file' = [file EXCEPT ![LogOf(s)] = Append(@, Pending(memory[LogOf(s)], t))]
      /\ UNCHANGED <<run, attached, welded, excuses, askVars, current, memory, exported, emitted>>

RunStep ==
  \/ BlockCall \/ StartSkill \/ SkillTimesOut \/ WriteReport \/ Export
  \/ \E outcome \in {"ok", "fail", "raise"} :
       ReleaseEnds(outcome) \/ \E s \in Sessions : SkillEnds(s, outcome)
  \/ \E s \in Sessions, role \in Roles : Emit(s, role) \/ WriteLine(s, role)

-----------------------------------------------------------------------------
Ends ==
  /\ phase' = "gone"
  /\ memory' = [s \in Sessions |-> <<>>] /\ current' = 0
  /\ run' = Resting /\ thread' = [t \in Sessions \X Roles |-> Idle]
  /\ attached' = [s \in Sessions |-> FALSE]
  /\ calls' = Unread
  /\ UNCHANGED <<vars, cli, polls, text, said, welded, excuses, exported, emitted>>

(* "q", end of input, or the command line's one instruction done: threads of *)
(* the executors are joined as the interpreter exits.                        *)
Quits ==
  /\ phase = "up" /\ pc = "idle" /\ run.stage = "idle" /\ (cli => records # <<>>)
  /\ \A t \in Sessions \X Roles : thread[t] = Idle
  /\ Ends
  /\ UNCHANGED <<file, torn>>

(* The process is killed: the robot stays as it is; a line that was being    *)
(* written is there, or not, or half there.  A kill during the parse leaves  *)
(* what one before it does.                                                  *)
Killed ==
  /\ phase = "up" /\ pc = "idle"
  /\ LET writing == {t \in Sessions \X Roles : thread[t].at = "append"}
     IN  \E whole \in SUBSET writing :
           /\ file' = [s \in Sessions |->
                file[s] \o SetToSeq({Pending(memory[LogOf(t[1])], t) : t \in {w \in whole : LogOf(w[1]) = s}})]
           /\ \E half \in SUBSET (writing \ whole) : torn' = [s \in Sessions |-> \E t \in half : LogOf(t[1]) = s]
  /\ Ends

(* export_trajectory in a later process: from the file, if all of it parses. *)
ExportFromDisk ==
  /\ phase = "gone"
  /\ exported' = [s \in Sessions |->
       IF torn[s] THEN Exported("malformed", <<>>)
       ELSE IF file[s] = <<>> THEN Exported("no session", <<>>) ELSE Exported("trajectory", file[s])]
  /\ UNCHANGED <<vars, phase, cli, polls, askVars, run, robotVars, current, memory, file, torn, emitted>>

Over == phase = "gone" /\ UNCHANGED <<vars, sessionVars>>

ParseOn ==
  \/ (\E reply_text \in ModelReplies : ModelReplied(reply_text))
  \/ RulesReplied \/ AskedAgain \/ Posting \/ NotPlanned \/ Accepted

SessionNext ==
  \/ (\E setting \in Settings : MakeBackend(setting)) \/ ServerIsUp \/ PollAgain \/ ServerIsNot
  \/ AsksNothing \/ (\E words \in Instructions : Asks(words)) \/ (\E number \in 1..(Len(Menu) + 1) : Chooses(number))
  \/ ParseOn \/ OverParse(RunStep) \/ Quits \/ Killed \/ ExportFromDisk \/ Over

SessionSpec == SessionInit /\ [][SessionNext]_<<vars, sessionVars>>

(* As in InstructionPlanner: every request comes back, be it by its timeout, *)
(* and ParseOn is how the parse steps.                                       *)
FairSessionSpec == SessionSpec /\ WF_vars(ParseStep)

-----------------------------------------------------------------------------
(* The locations said in full after the last "to" of the instruction.        *)
Said(name, words) == Normalize(name) # <<>> /\ Occurs(Normalize(name), Normalize(words))
Told == {l.id : l \in {n \in ToSet(Locations) : \E name \in n.names : Said(name, AfterTo(text))}}

(* Where a plan ends is where its last drive goes.                           *)
EndsAt(plan, places) ==
  \A i \in DOMAIN plan :
    plan[i].tool \in Driving /\ (\A j \in DOMAIN plan : j > i => plan[j].tool \notin Driving) => plan[i].id \in places

GoesWhereTold == Told # {} => EndsAt(calls.calls, Told)

(* A plan the rules make of an instruction as it was given ends where its    *)
(* last "to" says, whatever other rooms it names or its object stands in:    *)
(* "Anchoring on to is what keeps 'move the wheelchair to Room 2' from       *)
(* resolving to the room the wheelchair is currently sitting in."            *)
FirstPlanGoesWhereTold == reply.by = "rules" /\ attempt = 1 => GoesWhereTold

(* The same of every plan of the rules: what they do not recognise is to be  *)
(* "an honest parse failure rather than a silently wrong one".               *)
RulesGoWhereTold == reply.by = "rules" => GoesWhereTold

(* Every session takes the robot for free: unless an earlier plan never lets *)
(* go, a skill timed out or raised, or a compensating release failed, no     *)
(* session before it has left a handle in the gripper.                       *)
NothingCarriedOver ==
  phase = "up" /\ run.stage = "idle" /\ welded => \E s \in Sessions : excuses[s] # {}

OwnOnce(s, log) ==
  /\ \A i \in DOMAIN log : log[i][1] = s /\ log[i][3] <= emitted[s]
  /\ IsInjective(log)

(* The log of a session is its own, also when a skill abandoned by one logs  *)
(* beside the next: every action is in the session's trajectory at once and  *)
(* in its file once, at most the one a thread is writing is missing there,   *)
(* and a kill costs each thread no more than that one.                       *)
LogIsWhole ==
  \A s \in Sessions :
    /\ OwnOnce(s, memory[s]) /\ OwnOnce(s, file[s])
    /\ phase = "up" =>
         /\ Len(memory[s]) = emitted[s]
         /\ Len(file[s]) + Cardinality({r \in Roles : thread[<<s, r>>].at = "append"}) = emitted[s]
    /\ phase = "gone" => emitted[s] - Len(file[s]) <= IF "timeout" \in excuses[s] THEN 2 ELSE 1
=============================================================================
