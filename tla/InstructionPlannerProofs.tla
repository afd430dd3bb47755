---------------------- MODULE InstructionPlannerProofs ----------------------
(***************************************************************************)
(* Proofs about InstructionPlanner: the types of its variables, that the   *)
(* audit trail names who planned, and that an instruction costs a bounded  *)
(* number of requests; and about AgenticSession, which refines it: that    *)
(* every session plans as InstructionPlanner does, takes the robot for     *)
(* free, and leaves a log that is whole, and that what the rules plan of   *)
(* an instruction ends where it says.                                      *)
(***************************************************************************)
EXTENDS AgenticSession, SequenceTheorems, FiniteSetTheorems, WellFoundedInduction, TLAPS

(* Who wrote the reply in hand is who FallbackBackend says served it, and a  *)
(* reply of the rules has been owned up to.                                  *)
ReplyInv ==
  pc = "reply" =>
    /\ reply.by = "model" => (fallback => served_by = "model")
    /\ reply.by = "rules" => fallback /\ served_by = "rules" /\ degrade_reason
    /\ reply.by # "none"

(* Each attempt of parse_instruction starts _post's count anew, and the      *)
(* requests sent so far are at most those the two counts account for.        *)
PostsInv ==
  /\ pc = "idle" => attempt = 1 /\ tries = 1 /\ posts = 0
  /\ pc # "idle" => Len(records) < MaxSessions
  /\ pc = "post" /\ attempt = 1 => posts <= tries - 1
  /\ pc = "post" /\ attempt = 2 => posts <= MaxAttempts + tries - 1
  /\ pc \in {"failed", "reply"} /\ attempt = 1 => posts <= tries
  /\ pc \in {"failed", "reply"} /\ attempt = 2 => posts <= MaxAttempts + tries

IInv == TypeOK /\ ReplyInv /\ PostsInv /\ AuditTrailIsTrue

-----------------------------------------------------------------------------
(* A session that ends without a plan, or with one whose origin is recorded  *)
(* truly, leaves a true trail.                                               *)
LEMMA EndSessionInv ==
  ASSUME IInv,
         NEW outcome \in {"planned", "parse_error", "crashed"},
         NEW by \in Backends \cup {"none"},
         outcome = "planned" =>
           /\ Record(outcome, by).served_by = by
           /\ by = "rules" => Record(outcome, by).degraded,
         Len(records) < MaxSessions,
         EndSession(outcome, by)
  PROVE  IInv'
<1> DEFINE R == Record(outcome, by)
<1>1. /\ pc' = "idle" /\ attempt' = 1 /\ tries' = 1 /\ reply' = NoReply /\ posts' = 0
      /\ fallback' = fallback /\ served_by' = served_by /\ degrade_reason' = degrade_reason
      /\ records' = Append(records, R)
  BY DEF EndSession
<1>2. R \in [outcome : {"planned", "parse_error", "crashed"}, by : Backends \cup {"none"},
             served_by : Backends \cup {"none"}, degraded : BOOLEAN]
  BY DEF Record, IInv, TypeOK, Backends
<1>3. /\ R.outcome = outcome /\ R.by = by
  BY DEF Record
<1>4. records \in Seq([outcome : {"planned", "parse_error", "crashed"}, by : Backends \cup {"none"},
             served_by : Backends \cup {"none"}, degraded : BOOLEAN])
  BY DEF IInv, TypeOK
<1> HIDE DEF R
<1>5. TypeOK'
  BY <1>1, <1>2, <1>4, AttemptsAssumption, SessionsAssumption
     DEF TypeOK, IInv, NoReply, Replies
<1>6. ReplyInv' /\ PostsInv'
  BY <1>1 DEF ReplyInv, PostsInv
<1>7. AuditTrailIsTrue'
  <2> SUFFICES ASSUME NEW i \in 1..Len(records'), records'[i].outcome = "planned"
               PROVE  /\ records'[i].served_by = records'[i].by
                      /\ records'[i].by = "rules" => records'[i].degraded
    BY DEF AuditTrailIsTrue, Planned
  <2>1. CASE i \in 1..Len(records)
    <3>1. records'[i] = records[i]
      BY <1>1, <1>4, <2>1
    <3> QED BY <2>1, <3>1 DEF IInv, AuditTrailIsTrue, Planned
  <2>2. CASE i = Len(records) + 1
    <3>1. records'[i] = R
      BY <1>1, <1>4, <2>2
    <3>2. outcome = "planned" => R.served_by = by /\ (by = "rules" => R.degraded)
      BY DEF R
    <3> QED BY <3>1, <3>2, <1>3
  <2> QED BY <1>1, <1>4, <2>1, <2>2
<1> QED BY <1>5, <1>6, <1>7 DEF IInv

(* A step that ends no session leaves the trail as it is.                    *)
LEMMA TrailKept ==
  ASSUME AuditTrailIsTrue, UNCHANGED records
  PROVE  AuditTrailIsTrue'
BY DEF AuditTrailIsTrue, Planned

-----------------------------------------------------------------------------
(* The planner starts in the invariant. *)
LEMMA InitInv == Init => IInv
<1> SUFFICES ASSUME Init PROVE IInv
  OBVIOUS
<1>1. TypeOK
  <2>1. records = <<>> /\ Len(records) = 0
    BY DEF Init
  <2>2. reply \in Replies
    BY DEF Init, Replies
  <2>3. /\ tries \in 1..MaxAttempts /\ attempt \in 1..2
        /\ posts \in Nat /\ Len(records) <= MaxSessions
    BY <2>1, AttemptsAssumption, SessionsAssumption DEF Init
  <2>4. records \in Seq([outcome : {"planned", "parse_error", "crashed"},
                        by : Backends \cup {"none"},
                        served_by : Backends \cup {"none"}, degraded : BOOLEAN])
    BY <2>1
  <2> QED BY <2>2, <2>3, <2>4 DEF Init, TypeOK
<1>2. ReplyInv /\ PostsInv
  BY DEF Init, ReplyInv, PostsInv
<1>3. AuditTrailIsTrue
  BY DEF Init, AuditTrailIsTrue, Planned
<1> QED BY <1>1, <1>2, <1>3 DEF IInv

(* Starting an instruction preserves the invariant. *)
LEMMA BeginInv == IInv /\ (Begin \/ BeginEmpty) => IInv'
<1> SUFFICES ASSUME IInv, Begin \/ BeginEmpty PROVE IInv'
  OBVIOUS
<1>1. CASE Begin
  <2>1. TypeOK'
    BY <1>1 DEF Begin, IInv, TypeOK
  <2>2. AuditTrailIsTrue'
    BY <1>1, TrailKept DEF Begin, IInv
  <2> QED BY <1>1, <2>1, <2>2 DEF Begin, IInv, ReplyInv, PostsInv
<1>2. CASE BeginEmpty
  BY <1>2, EndSessionInv DEF BeginEmpty
<1> QED BY <1>1, <1>2

(* An answer to a request preserves the invariant. *)
LEMMA AnswerInv ==
  ASSUME IInv, NEW kind \in {"valid", "refused"}, ModelAnswers(kind) \/ Degrade(kind)
  PROVE  IInv'
<1>1. TypeOK'
  <2>1. reply' \in Replies
    BY DEF ModelAnswers, Degrade, Replies, Backends
  <2>2. served_by' \in Backends \cup {"none"} /\ degrade_reason' \in BOOLEAN
    BY DEF ModelAnswers, Degrade, IInv, TypeOK, Backends
  <2>3. pc' = "reply" /\ posts' \in Nat
    BY DEF ModelAnswers, Degrade, IInv, TypeOK
  <2>4. UNCHANGED <<fallback, attempt, tries, records>>
    BY DEF ModelAnswers, Degrade
  <2> QED BY <2>1, <2>2, <2>3, <2>4 DEF IInv, TypeOK
<1>2. ReplyInv'
  <2>1. CASE ModelAnswers(kind)
    BY <2>1 DEF ModelAnswers, ReplyInv, IInv, TypeOK
  <2>2. CASE Degrade(kind)
    BY <2>2 DEF Degrade, ReplyInv
  <2> QED BY <2>1, <2>2
<1>3. PostsInv'
  BY AttemptsAssumption DEF ModelAnswers, Degrade, IInv, TypeOK, PostsInv
<1>4. AuditTrailIsTrue'
  BY TrailKept DEF ModelAnswers, Degrade, IInv
<1> QED BY <1>1, <1>2, <1>3, <1>4 DEF IInv

(* A retry, of a request or of the question, preserves the invariant. *)
LEMMA PostInv == IInv /\ (RetryPost \/ PostFails \/ AskAgain) => IInv'
<1> SUFFICES ASSUME IInv, RetryPost \/ PostFails \/ AskAgain PROVE IInv'
  OBVIOUS
<1>1. TypeOK'
  BY AttemptsAssumption DEF RetryPost, PostFails, AskAgain, IInv, TypeOK
<1>2. ReplyInv'
  BY DEF RetryPost, PostFails, AskAgain, ReplyInv
<1>3. PostsInv'
  BY AttemptsAssumption DEF RetryPost, PostFails, AskAgain, IInv, TypeOK, PostsInv
<1>4. AuditTrailIsTrue'
  BY TrailKept DEF RetryPost, PostFails, AskAgain, IInv
<1> QED BY <1>1, <1>2, <1>3, <1>4 DEF IInv

(* The steps that end a session.                                             *)
LEMMA EndInv == IInv /\ (PostDropped \/ BackendFails \/ Accept \/ Refuse) => IInv'
<1> SUFFICES ASSUME IInv, PostDropped \/ BackendFails \/ Accept \/ Refuse PROVE IInv'
  OBVIOUS
<1>1. Len(records) < MaxSessions
  BY DEF PostDropped, BackendFails, Accept, Refuse, IInv, PostsInv
<1>2. CASE PostDropped
  BY <1>1, <1>2, EndSessionInv DEF PostDropped
<1>3. CASE BackendFails
  BY <1>1, <1>3, EndSessionInv DEF BackendFails
<1>4. CASE Refuse
  <2>1. reply.by \in Backends \cup {"none"}
    BY DEF IInv, TypeOK, Replies, NoReply
  <2> QED BY <1>1, <1>4, EndSessionInv DEF Refuse
<1>5. CASE Accept
  <2>1. reply.by \in Backends
    BY <1>5 DEF Accept, IInv, TypeOK, Replies, NoReply
  <2>2. CASE reply.by = "model"
    <3>1. Record("planned", reply.by).served_by = reply.by
      BY <1>5, <2>2 DEF Accept, Record, IInv, ReplyInv
    <3> QED BY <1>1, <1>5, <2>1, <2>2, <3>1, EndSessionInv DEF Accept
  <2>3. CASE reply.by = "rules"
    <3>1. /\ Record("planned", reply.by).served_by = reply.by
          /\ Record("planned", reply.by).degraded
      BY <1>5, <2>3 DEF Accept, Record, IInv, ReplyInv
    <3> QED BY <1>1, <1>5, <2>1, <3>1, EndSessionInv DEF Accept
  <2> QED BY <2>1, <2>2, <2>3 DEF Backends
<1> QED BY <1>2, <1>3, <1>4, <1>5

(* A step that changes nothing preserves the invariant. *)
LEMMA StutterInv == IInv /\ UNCHANGED vars => IInv'
<1> SUFFICES ASSUME IInv, UNCHANGED vars PROVE IInv'
  OBVIOUS
<1>1. AuditTrailIsTrue'
  BY TrailKept DEF vars, IInv
<1> QED BY <1>1 DEF vars, IInv, TypeOK, ReplyInv, PostsInv

(* Every step preserves the invariant.                                       *)
LEMMA NextInv == IInv /\ [Next]_vars => IInv'
<1> SUFFICES ASSUME IInv, [Next]_vars PROVE IInv'
  OBVIOUS
<1>1. CASE Begin \/ BeginEmpty
  BY <1>1, BeginInv
<1>2. CASE RetryPost \/ PostFails \/ AskAgain
  BY <1>2, PostInv
<1>3. CASE PostDropped \/ BackendFails \/ Accept \/ Refuse
  BY <1>3, EndInv
<1>4. ASSUME NEW kind \in {"valid", "refused"}, ModelAnswers(kind) \/ Degrade(kind)
      PROVE  IInv'
  BY <1>4, AnswerInv
<1>5. CASE UNCHANGED vars
  BY <1>5, StutterInv
<1> QED BY <1>1, <1>2, <1>3, <1>4, <1>5 DEF Next, ParseStep, Finished

-----------------------------------------------------------------------------
(* The inductive invariant holds of every run.                               *)
THEOREM Invariance == Spec => []IInv
<1> QED BY InitInv, NextInv, PTL DEF Spec

(* The planner's variables keep their types; in particular the two counters  *)
(* of parse_instruction and _post keep theirs.                               *)
THEOREM TypeCorrect == Spec => []TypeOK
<1>1. IInv => TypeOK
  BY DEF IInv
<1> QED BY <1>1, Invariance, PTL

(* The audit trail names who planned, for any number of sessions, attempts   *)
(* and kinds of fault.                                                       *)
THEOREM AuditTrailStaysTrue == Spec => []AuditTrailIsTrue
<1>1. IInv => AuditTrailIsTrue
  BY DEF IInv
<1> QED BY <1>1, Invariance, PTL

(* One instruction costs at most two completions' worth of requests,         *)
(* whatever max_attempts is.                                                 *)
THEOREM RequestsStayBounded == Spec => []RequestsAreBounded
<1>1. IInv => RequestsAreBounded
  BY AttemptsAssumption DEF IInv, TypeOK, PostsInv, RequestsAreBounded
<1> QED BY <1>1, Invariance, PTL

-----------------------------------------------------------------------------
(* The tools there are, and why a session may have left the robot attached.  *)
ToolNames == Driving \cup Grasping \cup {"detach"}
Excuses == {"plan", "timeout", "raise", "release"}
Threads == Sessions \X Roles
ThreadState == [tool : ToolNames \cup {"none"}, at : {"none", "run", "append"}, left : Nat]
Entries == Sessions \X Threads \X Nat

(* Every variable of a session keeps its type; words may be any.             *)
SessionTypeOK ==
  /\ phase \in {"start", "preflight", "up", "gone"}
  /\ run \in [stage : {"idle", "steps", "skill", "release", "report", "export"}, step : Nat, ok : BOOLEAN]
  /\ thread \in [Threads -> ThreadState]
  /\ attached \in [Sessions -> BOOLEAN] /\ welded \in BOOLEAN
  /\ excuses \in [Sessions -> SUBSET Excuses]
  /\ memory \in [Sessions -> Seq(Entries)] /\ file \in [Sessions -> Seq(Entries)]
  /\ emitted \in [Sessions -> Nat]

(* A plan that may be run: validated, and a sequence.                        *)
Runnable(plan) == Valid(plan) /\ \E S : plan \in Seq(S)

(* The parse and the execution take turns, and only the process that is up   *)
(* runs anything.                                                            *)
TurnsInv ==
  /\ pc # "idle" => phase = "up" /\ run.stage = "idle"
  /\ pc = "reply" /\ reply.kind = "valid" => Runnable(calls.calls)
  /\ run.stage # "idle" => phase = "up" /\ Own \in Sessions /\ Runnable(calls.calls)
  /\ run.stage \in {"steps", "skill"} => run.step \in DOMAIN calls.calls
  /\ phase # "up" => \A t \in Threads : thread[t].at = "none"

(* A thread is the one the session waits for, or its skill timed out; the    *)
(* compensating release is always waited for.                                *)
ThreadsInv ==
  /\ \A s \in Sessions : thread[<<s, "release">>].at # "none" => s = Own /\ run.stage = "release"
  /\ \A s \in Sessions : thread[<<s, "skill">>].at # "none" =>
       (s = Own /\ run.stage = "skill") \/ "timeout" \in excuses[s]
  /\ run.stage = "skill" => thread[<<Own, "skill">>].tool = Step.tool
  /\ run.stage \in {"steps", "skill"} => "timeout" \notin excuses[Own]
  /\ \A s \in Sessions : s > Own => excuses[s] = {} /\ ~attached[s]

(* An action is known by its number; one that a thread is writing is not in  *)
(* the file yet.                                                             *)
IsLast(log, t, i) == log[i][2] = t /\ \A j \in DOMAIN log : log[j][2] = t => j <= i
Writing(s) == {r \in Roles : thread[<<s, r>>].at = "append"}
LogInv(s) ==
  /\ \A i \in DOMAIN memory[s] : memory[s][i][1] = s /\ memory[s][i][3] = i
  /\ \A i \in DOMAIN file[s] : file[s][i][1] = s /\ file[s][i][3] <= emitted[s]
  /\ IsInjective(file[s]) /\ Len(memory[s]) <= emitted[s]
  /\ phase # "gone" => Len(memory[s]) = emitted[s] /\ Len(file[s]) + Cardinality(Writing(s)) = emitted[s]
  /\ \A r \in Writing(s) :
       \E i \in DOMAIN memory[s] : /\ IsLast(memory[s], <<s, r>>, i)
                                  /\ \A k \in DOMAIN file[s] : file[s][k] # memory[s][i]
  /\ phase = "gone" => emitted[s] - Len(file[s]) <= IF "timeout" \in excuses[s] THEN 2 ELSE 1

(* While no session has an excuse, the robot holds what the session believes *)
(* attached, and that is what its plan attached and has not let go of.       *)
Excused == \E s \in Sessions : excuses[s] # {}
HoldsUpTo(step) ==
  \E i \in 1..(step - 1) : /\ calls.calls[i].tool = "attach_handle"
                           /\ \A j \in (i + 1)..(step - 1) : calls.calls[j].tool # "detach"
HandleKnown ==
  /\ run.stage \in {"idle", "report", "export"} => ~welded
  /\ run.stage \in {"steps", "skill", "release"} => (welded <=> attached[Own])
  /\ run.stage = "skill" => ~Blocked(Step.tool, attached[Own])
  /\ run.stage \in {"steps", "skill"} /\ attached[Own] => HoldsUpTo(run.step)
  /\ run.stage # "idle" => ~Keeps(calls.calls)
HandleInv == phase = "gone" \/ Excused \/ HandleKnown

SessionInv ==
  /\ SessionTypeOK /\ TurnsInv /\ ThreadsInv
  /\ \A s \in Sessions : LogInv(s)
  /\ HandleInv

(* What a step that runs no part of a plan leaves alone.                     *)
runVars == <<run, thread, attached, welded, excuses, memory, file, emitted>>

-----------------------------------------------------------------------------
(* What a plan is.                                                           *)

(* A validated plan is not empty, its steps are numbered, and each of them   *)
(* is one of the tools.                                                      *)
LEMMA RunnablePlan ==
  ASSUME NEW plan, Runnable(plan)
  PROVE  /\ Len(plan) \in Nat \ {0} /\ DOMAIN plan = 1..Len(plan)
         /\ \A i \in DOMAIN plan : plan[i].tool \in ToolNames
  <1>1. PICK S : plan \in Seq(S)
    BY DEF Runnable
  <1>2. Valid(plan)
    BY DEF Runnable
  <1>3. plan # <<>> /\ \A i \in DOMAIN plan : plan[i].tool \in ToolNames
    BY <1>2 DEF Valid, IsValid, ToolNames
  <1>4. Len(plan) \in Nat /\ DOMAIN plan = 1..Len(plan)
    BY <1>1
  <1>5. Len(plan) # 0
    BY <1>1, <1>3, EmptySeq
  <1>. QED  BY <1>3, <1>4, <1>5

(* The rules write a sequence of calls, whatever they understand.            *)
LEMMA RulesPlanIsSeq == \A words : \E S : RulesPlan(words) \in Seq(S)
  <1>. TAKE words
  <1>. DEFINE P(p) == \E S : p \in Seq(S)
  <1>1. ASSUME NEW p, NEW q, P(p), P(q) PROVE P(p \o q)
    <2>1. PICK S : p \in Seq(S)
      BY <1>1
    <2>2. PICK T : q \in Seq(T)
      BY <1>1
    <2>3. p \in Seq(S \cup T) /\ q \in Seq(S \cup T)
      BY <2>1, <2>2
    <2>4. p \o q \in Seq(S \cup T)
      BY <2>3
    <2>. QED  BY <2>4
  <1>2. P(<<>>)
    <2>1. <<>> \in Seq({})
      OBVIOUS
    <2>. QED  BY <2>1
  <1>3. \A x : P(<<x>>)
    <2>1. \A x : <<x>> \in Seq({x})
      OBVIOUS
    <2>. QED  BY <2>1
  <1>4. \A id : P(Drive(id))
    BY <1>2, <1>3, Zenon DEF Drive
  <1>5. \A a, b, c, d, e : P(<<a, b, c, d, e>>)
    <2>1. \A a, b, c, d, e : <<a, b, c, d, e>> \in Seq({a, b, c, d, e})
      OBVIOUS
    <2>. QED  BY <2>1
  <1>6. \A id, destination : P(PayloadPlan(id, destination))
    BY <1>5, Zenon DEF PayloadPlan
  <1>7. ASSUME NEW id, NEW destination PROVE P(FetchPlan(id, destination))
    <2>1. P(Drive(LocationOf(id)) \o <<Call("pick_up", id)>>)
      BY <1>1, <1>3, <1>4, Zenon
    <2>2. P(IF destination = LocationOf(id) THEN <<>> ELSE Drive(destination))
      BY <1>2, <1>4, Zenon
    <2>. HIDE DEF P
    <2>. QED  BY <1>1, <2>1, <2>2, Zenon DEF FetchPlan
  <1>. HIDE DEF P
  <1>8. \A destination, id : P(PlanFor(words, destination, id))
    BY <1>2, <1>4, <1>6, <1>7, Zenon DEF PlanFor
  <1>9. P(RulesPlan(words))
    BY <1>8, Zenon DEF RulesPlan
  <1>. QED  BY <1>9, Zenon DEF P

(* And so does a reply, as far as it can be read.                            *)
LEMMA ReplyIsSeq == \A text0 : \E S : ParseToolCalls(text0).calls \in Seq(S)
  <1>. TAKE text0
  <1>. DEFINE blob == ExtractJson(text0)
              readable == Len(blob) = 3 /\ blob[2] \in DOMAIN Plans
              plan == IF readable THEN Plans[blob[2]] ELSE <<>>
  <1>1. ParseToolCalls(text0).calls = plan
    BY Zenon DEF ParseToolCalls, ReadCalls
  <1>2. plan \in Seq([tool : STRING, id : STRING])
    <2>1. CASE readable
      BY <2>1, PlansAssumption, Zenon
    <2>2. CASE ~readable
      <3>1. plan = <<>>
        BY <2>2, Zenon
      <3>. HIDE DEF plan
      <3>. QED  BY <3>1
    <2>. QED  BY <2>1, <2>2
  <1>. QED  BY <1>1, <1>2, Zenon

-----------------------------------------------------------------------------
(* The steps that run no part of a plan.                                     *)
QuietStep ==
  \/ (\E setting \in Settings : MakeBackend(setting)) \/ ServerIsUp \/ PollAgain \/ ServerIsNot
  \/ AsksNothing \/ (\E words \in Instructions : Asks(words)) \/ (\E number \in 1..(Len(Menu) + 1) : Chooses(number))
  \/ (\E reply_text \in ModelReplies : ModelReplied(reply_text))
  \/ RulesReplied \/ AskedAgain \/ Posting \/ NotPlanned
  \/ ExportFromDisk \/ Over \/ UNCHANGED <<vars, sessionVars>>

(* The steps of a session are those, the acceptance of a plan, the steps of  *)
(* its execution and the end of the process.                                 *)
LEMMA SessionSteps ==
  ASSUME [SessionNext]_<<vars, sessionVars>>
  PROVE  QuietStep \/ Accepted \/ OverParse(RunStep) \/ Quits \/ Killed
  BY Zenon DEF SessionNext, ParseOn, QuietStep

(* The parse of a session is InstructionPlanner's, step by step.             *)
LEMMA SessionParses ==
  ASSUME [SessionNext]_<<vars, sessionVars>>
  PROVE  [Next]_vars
  <1>1. \A parsed : Kind(parsed) \in {"valid", "refused"}
    BY DEF Kind
  <1>2. CASE QuietStep
    <2>1. CASE \E setting \in Settings : MakeBackend(setting)
      BY <2>1 DEF MakeBackend
    <2>2. CASE ServerIsUp \/ PollAgain \/ ServerIsNot
      BY <2>2 DEF ServerIsUp, PollAgain, ServerIsNot, Polling
    <2>3. CASE \/ AsksNothing \/ (\E words \in Instructions : Asks(words))
               \/ (\E number \in 1..(Len(Menu) + 1) : Chooses(number))
      BY <2>3 DEF AsksNothing, Asks, Chooses, Next
    <2>4. CASE \E reply_text \in ModelReplies : ModelReplied(reply_text)
      BY <2>4, <1>1, Zenon DEF ModelReplied, Next, ParseStep
    <2>5. CASE RulesReplied
      BY <2>5, <1>1, Zenon DEF RulesReplied, Next, ParseStep
    <2>6. CASE AskedAgain \/ Posting \/ NotPlanned
      BY <2>6 DEF AskedAgain, Posting, NotPlanned, Next, ParseStep
    <2>7. CASE ExportFromDisk \/ Over \/ UNCHANGED <<vars, sessionVars>>
      BY <2>7 DEF ExportFromDisk, Over
    <2>. QED  BY <1>2, <2>1, <2>2, <2>3, <2>4, <2>5, <2>6, <2>7 DEF QuietStep
  <1>3. CASE Accepted
    BY <1>3 DEF Accepted, Next, ParseStep
  <1>4. CASE OverParse(RunStep)
    BY <1>4 DEF OverParse
  <1>5. CASE Quits \/ Killed
    BY <1>5 DEF Quits, Killed, Ends
  <1>. QED  BY <1>2, <1>3, <1>4, <1>5, SessionSteps

(* What they leave alone, and when they move something.                      *)
LEMMA QuietKeeps ==
  ASSUME TypeOK, TurnsInv, QuietStep
  PROVE  /\ UNCHANGED runVars
         /\ \/ phase' = phase
            \/ /\ phase \in {"start", "preflight"} /\ phase' \in {"preflight", "up", "gone"}
               /\ UNCHANGED <<pc, reply, calls, records>>
         /\ run.stage # "idle" => UNCHANGED <<calls, records, pc>>
         /\ records' = records \/ Len(records') = Len(records) + 1
         /\ pc' # "idle" => phase' = "up" /\ run.stage = "idle"
         /\ pc' = "reply" /\ reply'.kind = "valid" => Runnable(calls'.calls)
  <1>1. UNCHANGED runVars
    BY DEF QuietStep, MakeBackend, ServerIsUp, PollAgain, ServerIsNot, Polling, AsksNothing, Asks,
           Chooses, ModelReplied, RulesReplied, AskedAgain, Posting, NotPlanned, ExportFromDisk, Over,
           runVars, sessionVars, robotVars, logVars
  <1>2. records \in Seq([outcome : {"planned", "parse_error", "crashed"}, by : Backends \cup {"none"},
                         served_by : Backends \cup {"none"}, degraded : BOOLEAN])
    BY DEF TypeOK
  <1>3. ASSUME NEW outcome, NEW by, EndSession(outcome, by)
        PROVE  Len(records') = Len(records) + 1 /\ pc' = "idle"
    BY <1>2, <1>3 DEF EndSession, Record
  <1>4. CASE \/ (\E setting \in Settings : MakeBackend(setting)) \/ ServerIsUp \/ PollAgain \/ ServerIsNot
    <2>1. /\ phase \in {"start", "preflight"} /\ phase' \in {"preflight", "up", "gone"}
          /\ UNCHANGED <<pc, reply, calls, records>>
      BY <1>4 DEF MakeBackend, ServerIsUp, PollAgain, ServerIsNot, Polling, vars, askVars
    <2>. QED  BY <1>1, <2>1 DEF TurnsInv
  <1>5. CASE \/ AsksNothing \/ (\E words \in Instructions : Asks(words))
             \/ (\E number \in 1..(Len(Menu) + 1) : Chooses(number))
    <2>1. MayAsk /\ phase' = phase
      BY <1>5 DEF AsksNothing, Asks, Chooses, sessionVars
    <2>2. \/ records' = records /\ pc' = "post"
          \/ Len(records') = Len(records) + 1 /\ pc' = "idle"
      BY <1>3, <1>5 DEF AsksNothing, Asks, Chooses, Begin, BeginEmpty
    <2>. QED  BY <1>1, <2>1, <2>2 DEF MayAsk
  <1>6. CASE \/ \E reply_text \in ModelReplies : ModelReplied(reply_text)
             \/ RulesReplied
    <2>1. pc # "idle" /\ phase' = phase /\ records' = records
      BY <1>6 DEF ModelReplied, RulesReplied, ModelAnswers, Degrade
    <2>2. PICK parsed : /\ calls' = parsed /\ reply'.kind = Kind(parsed)
                        /\ \E S : parsed.calls \in Seq(S)
      <3>1. CASE RulesReplied
        <4>. DEFINE plan == [readable |-> TRUE, calls |-> RulesPlan(said), words |-> <<>>]
        <4>1. calls' = plan /\ reply'.kind = Kind(plan)
          BY <3>1 DEF RulesReplied, Degrade
        <4>2. \E S : plan.calls \in Seq(S)
          BY RulesPlanIsSeq
        <4>. QED  BY <4>1, <4>2
      <3>2. CASE \E reply_text \in ModelReplies : ModelReplied(reply_text)
        <4>1. PICK reply_text \in ModelReplies : ModelReplied(reply_text)
          BY <3>2
        <4>2. calls' = ParseToolCalls(reply_text) /\ reply'.kind = Kind(ParseToolCalls(reply_text))
          BY <4>1 DEF ModelReplied, ModelAnswers
        <4>. QED  BY <4>2, ReplyIsSeq
      <3>. QED  BY <1>6, <3>1, <3>2
    <2>3. Kind(parsed) = "valid" => Runnable(parsed.calls)
      BY <2>2 DEF Kind, Runnable
    <2>. QED  BY <1>1, <2>1, <2>2, <2>3 DEF TurnsInv
  <1>7. CASE AskedAgain \/ Posting \/ NotPlanned
    <2>1. pc # "idle" /\ pc' # "reply" /\ phase' = phase
      BY <1>7 DEF AskedAgain, AskAgain, Posting, RetryPost, PostFails, NotPlanned, PostDropped, BackendFails,
                  Refuse, EndSession, sessionVars
    <2>2. records' = records \/ Len(records') = Len(records) + 1
      BY <1>3, <1>7 DEF AskedAgain, AskAgain, Posting, RetryPost, PostFails, NotPlanned, PostDropped,
                        BackendFails, Refuse
    <2>. QED  BY <1>1, <2>1, <2>2 DEF TurnsInv
  <1>8. CASE ExportFromDisk \/ Over \/ UNCHANGED <<vars, sessionVars>>
    <2>1. UNCHANGED <<phase, pc, reply, calls, records>>
      BY <1>8 DEF ExportFromDisk, Over, vars, sessionVars, askVars
    <2>. QED  BY <1>1, <2>1 DEF TurnsInv
  <1>. QED  BY <1>4, <1>5, <1>6, <1>7, <1>8 DEF QuietStep

-----------------------------------------------------------------------------
(* Facts about sequences and what a step of the execution changes.           *)

(* A finite set is written out as a sequence of its members, each once.      *)
LEMMA SetToSeqIs ==
  ASSUME NEW S, IsFiniteSet(S)
  PROVE  /\ SetToSeq(S) \in Seq(S) /\ Len(SetToSeq(S)) = Cardinality(S)
         /\ IsInjective(SetToSeq(S))
  <1>1. Cardinality(S) \in Nat /\ ExistsBijection(1..Cardinality(S), S)
    BY FS_CardinalityType
  <1>2. \E f \in [1..Cardinality(S) -> S] : IsInjective(f)
    BY <1>1, Zenon DEF ExistsBijection, Bijection, Injection
  <1>3. SetToSeq(S) \in [1..Cardinality(S) -> S] /\ IsInjective(SetToSeq(S))
    BY <1>2, Zenon DEF SetToSeq
  <1>. HIDE DEF SetToSeq
  <1>. QED  BY <1>1, <1>3

(* The line a thread has still to write is its last in the log.              *)
LEMMA PendingIs ==
  ASSUME NEW E, NEW log \in Seq(E), NEW t, NEW i \in DOMAIN log, IsLast(log, t, i)
  PROVE  Pending(log, t) = log[i]
  <1>. DEFINE own == {k \in DOMAIN log : log[k][2] = t}
  <1>1. i \in own /\ \A k \in own : k <= i
    BY DEF IsLast
  <1>2. own \subseteq Nat /\ i \in Nat
    OBVIOUS
  <1>3. \A x \in own : (\A k \in own : x >= k) => x = i
    BY <1>1, <1>2
  <1>4. Max(own) = i
    <2>. HIDE DEF own
    <2>1. \E x \in own : \A k \in own : x >= k
      BY <1>1, <1>2
    <2>. QED  BY <1>3, <2>1, Zenon DEF Max
  <1>. QED  BY <1>4 DEF Pending

RunStates == [stage : {"idle", "steps", "skill", "release", "report", "export"}, step : Nat, ok : BOOLEAN]

(* A thread that runs a tool is one.                                         *)
LEMMA RunningIs ==
  /\ Idle \in ThreadState
  /\ \A tool \in ToolNames : Running(tool) \in ThreadState /\ Running(tool).at = "run" /\ Running(tool).tool = tool
  <1>1. \A tool \in ToolNames : Actions[tool] \in Nat
    BY ActionsAssumption DEF ToolNames
  <1>. QED  BY <1>1 DEF Idle, Running, ThreadState, ToolNames

(* Where the execution stands in its plan.                                   *)
LEMMA StepIs ==
  ASSUME SessionTypeOK, TurnsInv, run.stage # "idle"
  PROVE  /\ phase = "up" /\ pc = "idle" /\ Own \in Sessions
         /\ Len(calls.calls) \in Nat \ {0} /\ DOMAIN calls.calls = 1..Len(calls.calls)
         /\ run.stage \in {"steps", "skill"} =>
              run.step \in 1..Len(calls.calls) /\ Step.tool \in ToolNames
  <1>1. phase = "up" /\ pc = "idle" /\ Own \in Sessions /\ Runnable(calls.calls)
    BY DEF TurnsInv
  <1>2. /\ Len(calls.calls) \in Nat \ {0} /\ DOMAIN calls.calls = 1..Len(calls.calls)
        /\ \A i \in DOMAIN calls.calls : calls.calls[i].tool \in ToolNames
    BY <1>1, RunnablePlan
  <1>. QED  BY <1>1, <1>2 DEF TurnsInv, Step

(* After a step that went well comes the next; after the last of them, or a  *)
(* step that failed, the report, and before it the compensating release if   *)
(* the session believes something attached.                                  *)
LEMMA NextStepIs ==
  ASSUME SessionTypeOK, NEW ok \in BOOLEAN, run' = NextStep(ok), attached' \in [Sessions -> BOOLEAN],
         Own \in Sessions, Len(calls.calls) \in Nat
  PROVE  /\ run' \in RunStates
         /\ \/ ok /\ run.step < Len(calls.calls) /\ run'.stage = "steps" /\ run'.step = run.step + 1
            \/ ok /\ ~(run.step < Len(calls.calls)) /\ run'.stage = "report"
            \/ ~ok /\ ~attached'[Own] /\ run'.stage = "report"
            \/ ~ok /\ attached'[Own] /\ run'.stage = "release"
  <1>1. run \in RunStates
    BY DEF SessionTypeOK, RunStates
  <1>2. CASE ok /\ run.step < Len(calls.calls)
    <2>1. run' = [run EXCEPT !.stage = "steps", !.step = @ + 1]
      BY <1>2, Zenon DEF NextStep
    <2>2. run.step \in Nat /\ run.ok \in BOOLEAN /\ run = [stage |-> run.stage, step |-> run.step, ok |-> run.ok]
      BY <1>1 DEF RunStates
    <2>3. run' = [stage |-> "steps", step |-> run.step + 1, ok |-> run.ok]
      BY <2>1, <2>2
    <2>4. run' \in RunStates
      BY <2>2, <2>3 DEF RunStates
    <2>5. run'.stage = "steps" /\ run'.step = run.step + 1
      BY <2>3
    <2>. QED  BY <1>2, <2>4, <2>5, Zenon
  <1>3. CASE ok /\ ~(run.step < Len(calls.calls))
    <2>1. run' = [run EXCEPT !.stage = "report", !.ok = ok]
      BY <1>3 DEF NextStep, AfterPlan
    <2>. QED  BY <1>1, <1>3, <2>1 DEF RunStates
  <1>4. CASE ~ok /\ ~attached'[Own]
    <2>1. run' = [run EXCEPT !.stage = "report", !.ok = ok]
      BY <1>4 DEF NextStep, AfterPlan
    <2>. QED  BY <1>1, <1>4, <2>1 DEF RunStates
  <1>5. CASE ~ok /\ attached'[Own]
    <2>1. run' = [run EXCEPT !.stage = "release", !.ok = ok]
      BY <1>5 DEF NextStep, AfterPlan
    <2>. QED  BY <1>1, <1>5, <2>1 DEF RunStates
  <1>. QED  BY <1>2, <1>3, <1>4, <1>5

(* A call that its precondition blocks, and a skill given up.                *)
LEMMA FailingStep ==
  ASSUME SessionTypeOK, TurnsInv, BlockCall \/ SkillTimesOut
  PROVE  /\ run.stage \in {"steps", "skill"} /\ run' \in RunStates
         /\ run'.stage = IF attached[Own] THEN "release" ELSE "report"
         /\ thread' = IF attached[Own] THEN [thread EXCEPT ![<<Own, "release">>] = Running("detach")] ELSE thread
         /\ UNCHANGED <<attached, welded, calls, memory, file, emitted>>
         /\ \/ BlockCall /\ excuses' = excuses
            \/ SkillTimesOut /\ excuses' = [excuses EXCEPT ![Own] = @ \cup {"timeout"}]
  <1>1. run.stage \in {"steps", "skill"} /\ run' = NextStep(FALSE) /\ StartRelease
    BY DEF BlockCall, SkillTimesOut
  <1>2. UNCHANGED <<attached, welded, calls, memory, file, emitted>>
    BY DEF BlockCall, SkillTimesOut, askVars
  <1>3. Own \in Sessions /\ Len(calls.calls) \in Nat
    BY <1>1, StepIs
  <1>4. attached' \in [Sessions -> BOOLEAN] /\ attached' = attached
    BY <1>2 DEF SessionTypeOK
  <1>5. run' \in RunStates /\ run'.stage = IF attached[Own] THEN "release" ELSE "report"
    BY <1>1, <1>3, <1>4, NextStepIs
  <1>6. thread' = IF attached[Own] THEN [thread EXCEPT ![<<Own, "release">>] = Running("detach")] ELSE thread
    BY <1>1, <1>5, Zenon DEF StartRelease
  <1>7. \/ BlockCall /\ excuses' = excuses
        \/ SkillTimesOut /\ excuses' = [excuses EXCEPT ![Own] = @ \cup {"timeout"}]
    BY Zenon DEF BlockCall, SkillTimesOut
  <1>. QED  BY <1>1, <1>2, <1>5, <1>6, <1>7

(* An excuse is added.                                                       *)
LEMMA ExcuseAdded ==
  ASSUME excuses \in [Sessions -> SUBSET Excuses], NEW s, NEW why \in Excuses,
         excuses' = [excuses EXCEPT ![s] = @ \cup {why}]
  PROVE  /\ excuses' \in [Sessions -> SUBSET Excuses]
         /\ \A x \in Sessions : excuses'[x] = IF x = s THEN excuses[x] \cup {why} ELSE excuses[x]
  <1>1. \A x \in Sessions : excuses'[x] = IF x = s THEN excuses[x] \cup {why} ELSE excuses[x]
    OBVIOUS
  <1>2. \A x \in Sessions : excuses'[x] \in SUBSET Excuses
    BY <1>1
  <1>3. excuses' = [x \in Sessions |-> excuses'[x]]
    OBVIOUS
  <1>. QED  BY <1>1, <1>2, <1>3

(* A skill's thread ends: where the session waits for it, as a step of the   *)
(* plan; where it does not, without notice.                                  *)
LEMMA SkillEndsIs ==
  ASSUME SessionTypeOK, TurnsInv, NEW s \in Sessions, NEW outcome \in {"ok", "fail", "raise"},
         SkillEnds(s, outcome)
  PROVE  /\ UNCHANGED <<calls, memory, file, emitted>>
         /\ thread[<<s, "skill">>].at = "run"
         /\ welded' \in BOOLEAN /\ attached' \in [Sessions -> BOOLEAN]
         /\ \A x \in Sessions \ {s} : attached'[x] = attached[x]
         /\ excuses' \in [Sessions -> SUBSET Excuses]
         /\ \A x \in Sessions : excuses[x] \subseteq excuses'[x] /\ excuses'[x] \subseteq excuses[x] \cup {"raise"}
         /\ \A x \in Sessions \ {s} : excuses'[x] = excuses[x]
         /\ \/ /\ s = Own /\ run.stage = "skill" /\ run' = NextStep(outcome = "ok")
               /\ thread' = IF run'.stage = "release"
                            THEN [thread EXCEPT ![<<s, "skill">>] = Idle, ![<<s, "release">>] = Running("detach")]
                            ELSE [thread EXCEPT ![<<s, "skill">>] = Idle]
            \/ /\ ~(s = Own /\ run.stage = "skill") /\ run' = run
               /\ thread' = [thread EXCEPT ![<<s, "skill">>] = Idle]
  <1>. DEFINE skill == thread[<<s, "skill">>]
              awaited == s = Own /\ run.stage = "skill"
              ended == [thread EXCEPT ![<<s, "skill">>] = Idle]
  <1>1. /\ skill.at = "run" /\ welded' \in HandleAfter(skill.tool, outcome)
        /\ attached' = AttachedAfter(s, skill.tool, outcome)
        /\ excuses' = [excuses EXCEPT ![s] = IF outcome = "raise" /\ welded' # attached'[s] THEN @ \cup {"raise"} ELSE @]
        /\ run' = IF awaited THEN NextStep(outcome = "ok") ELSE run
        /\ thread' = IF awaited /\ run'.stage = "release"
                     THEN [ended EXCEPT ![<<s, "release">>] = Running("detach")] ELSE ended
        /\ UNCHANGED <<calls, memory, file, emitted>>
    BY Zenon DEF SkillEnds, askVars
  <1>2. welded' \in BOOLEAN
    <2>1. HandleAfter(skill.tool, outcome) \subseteq BOOLEAN
      BY DEF HandleAfter, SessionTypeOK
    <2>. QED  BY <1>1, <2>1
  <1>3. attached' \in [Sessions -> BOOLEAN] /\ \A x \in Sessions \ {s} : attached'[x] = attached[x]
    <2>. DEFINE v == skill.tool = "attach_handle"
    <2>1. v \in BOOLEAN
      OBVIOUS
    <2>2. attached' = attached \/ attached' = [attached EXCEPT ![s] = v]
      BY <1>1, Zenon DEF AttachedAfter
    <2>. HIDE DEF v
    <2>. QED  BY <2>1, <2>2 DEF SessionTypeOK
  <1>4. /\ excuses' \in [Sessions -> SUBSET Excuses]
        /\ \A x \in Sessions : excuses[x] \subseteq excuses'[x] /\ excuses'[x] \subseteq excuses[x] \cup {"raise"}
        /\ \A x \in Sessions \ {s} : excuses'[x] = excuses[x]
    <2>1. excuses' = excuses \/ excuses' = [excuses EXCEPT ![s] = @ \cup {"raise"}]
      <3>1. CASE outcome = "raise" /\ welded' # attached'[s]
        BY <1>1, <3>1, Zenon
      <3>2. CASE ~(outcome = "raise" /\ welded' # attached'[s])
        <4>1. excuses' = [excuses EXCEPT ![s] = @]
          BY <1>1, <3>2, Zenon
        <4>. QED  BY <4>1 DEF SessionTypeOK
      <3>. QED  BY <3>1, <3>2
    <2>2. excuses \in [Sessions -> SUBSET Excuses] /\ "raise" \in Excuses
      BY DEF SessionTypeOK, Excuses
    <2>3. CASE excuses' = excuses
      BY <2>2, <2>3
    <2>4. CASE excuses' = [excuses EXCEPT ![s] = @ \cup {"raise"}]
      <3>1. /\ excuses' \in [Sessions -> SUBSET Excuses]
            /\ \A x \in Sessions : excuses'[x] = IF x = s THEN excuses[x] \cup {"raise"} ELSE excuses[x]
        BY <2>2, <2>4, ExcuseAdded
      <3>. QED  BY <3>1
    <2>. QED  BY <2>1, <2>3, <2>4
  <1>5. CASE awaited
    <2>1. run' = NextStep(outcome = "ok")
      BY <1>1, <1>5, Zenon
    <2>2. thread' = IF run'.stage = "release"
                    THEN [ended EXCEPT ![<<s, "release">>] = Running("detach")] ELSE ended
      BY <1>1, <1>5, Zenon
    <2>3. [ended EXCEPT ![<<s, "release">>] = Running("detach")]
            = [thread EXCEPT ![<<s, "skill">>] = Idle, ![<<s, "release">>] = Running("detach")]
      OBVIOUS
    <2>. QED  BY <1>1, <1>2, <1>3, <1>4, <1>5, <2>1, <2>2, <2>3, Zenon
  <1>6. CASE ~awaited
    <2>1. run' = run /\ thread' = ended
      BY <1>1, <1>6, Zenon
    <2>. QED  BY <1>1, <1>2, <1>3, <1>4, <1>6, <2>1, Zenon
  <1>. QED  BY <1>5, <1>6

(* The compensating release ends.                                            *)
LEMMA ReleaseEndsIs ==
  ASSUME SessionTypeOK, TurnsInv, NEW outcome \in {"ok", "fail", "raise"}, ReleaseEnds(outcome)
  PROVE  /\ UNCHANGED <<calls, memory, file, emitted>>
         /\ run.stage = "release" /\ Own \in Sessions /\ run' \in RunStates /\ run'.stage = "report"
         /\ thread[<<Own, "release">>].at = "run" /\ thread' = [thread EXCEPT ![<<Own, "release">>] = Idle]
         /\ welded' \in BOOLEAN /\ attached' \in [Sessions -> BOOLEAN]
         /\ \A x \in Sessions \ {Own} : attached'[x] = attached[x]
         /\ \/ outcome = "ok" /\ excuses' = excuses /\ welded' = FALSE
            \/ outcome # "ok" /\ excuses' = [excuses EXCEPT ![Own] = @ \cup {"release"}]
  <1>1. /\ UNCHANGED <<calls, memory, file, emitted>>
        /\ run.stage = "release" /\ run' = [run EXCEPT !.stage = "report"]
        /\ thread[<<Own, "release">>].at = "run" /\ thread' = [thread EXCEPT ![<<Own, "release">>] = Idle]
        /\ welded' \in HandleAfter("detach", outcome)
        /\ attached' = AttachedAfter(Own, "detach", outcome)
        /\ excuses' = [excuses EXCEPT ![Own] = IF outcome = "ok" THEN @ ELSE @ \cup {"release"}]
    BY DEF ReleaseEnds, askVars
  <1>2. Own \in Sessions
    BY <1>1, StepIs
  <1>3. run' \in RunStates /\ run'.stage = "report"
    BY <1>1 DEF SessionTypeOK, RunStates
  <1>4. welded' \in BOOLEAN /\ (outcome = "ok" => welded' = FALSE)
    <2>1. HandleAfter("detach", outcome) \subseteq BOOLEAN /\ (outcome = "ok" => HandleAfter("detach", outcome) = {FALSE})
      BY DEF HandleAfter, SessionTypeOK
    <2>. QED  BY <1>1, <2>1
  <1>5. attached' \in [Sessions -> BOOLEAN] /\ \A x \in Sessions \ {Own} : attached'[x] = attached[x]
    <2>. DEFINE v == "detach" = "attach_handle"
    <2>1. v \in BOOLEAN
      OBVIOUS
    <2>2. attached' = attached \/ attached' = [attached EXCEPT ![Own] = v]
      BY <1>1, Zenon DEF AttachedAfter
    <2>. HIDE DEF v
    <2>. QED  BY <1>2, <2>1, <2>2 DEF SessionTypeOK
  <1>6. \/ outcome = "ok" /\ excuses' = excuses
        \/ outcome # "ok" /\ excuses' = [excuses EXCEPT ![Own] = @ \cup {"release"}]
    <2>1. CASE outcome = "ok"
      <3>1. excuses' = [excuses EXCEPT ![Own] = @]
        BY <1>1, <2>1, Zenon
      <3>. QED  BY <2>1, <3>1 DEF SessionTypeOK
    <2>2. CASE outcome # "ok"
      BY <1>1, <2>2, Zenon
    <2>. QED  BY <2>1, <2>2
  <1>. QED  BY <1>1, <1>2, <1>3, <1>4, <1>5, <1>6, Zenon

(* A skill logs: log_action up to the file, and the rest of it.              *)
LEMMA EmitIs ==
  ASSUME SessionTypeOK, NEW s \in Sessions, NEW role \in Roles, Emit(s, role)
  PROVE  /\ UNCHANGED <<run, attached, welded, excuses, calls, file>>
         /\ thread[<<s, role>>].at = "run"
         /\ thread' \in [Threads -> ThreadState] /\ thread'[<<s, role>>].at = "append"
         /\ thread'[<<s, role>>].tool = thread[<<s, role>>].tool
         /\ \A t \in Threads : t # <<s, role>> => thread'[t] = thread[t]
         /\ memory' = [memory EXCEPT ![s] = Append(@, <<s, <<s, role>>, emitted[s] + 1>>)]
         /\ emitted' = [emitted EXCEPT ![s] = @ + 1]
  <1>. DEFINE t == <<s, role>>
  <1>1. /\ UNCHANGED <<run, attached, welded, excuses, calls, file>>
        /\ thread[t].at = "run" /\ thread[t].left > 0
        /\ thread' = [thread EXCEPT ![t] = [tool |-> @.tool, at |-> "append", left |-> @.left - 1]]
        /\ memory' = [memory EXCEPT ![s] = Append(@, <<s, t, emitted[s] + 1>>)]
        /\ emitted' = [emitted EXCEPT ![s] = @ + 1]
    BY DEF Emit, LogOf, askVars
  <1>2. t \in Threads /\ thread[t] \in ThreadState
    BY DEF Threads, SessionTypeOK
  <1>3. [tool |-> thread[t].tool, at |-> "append", left |-> thread[t].left - 1] \in ThreadState
    BY <1>1, <1>2 DEF ThreadState
  <1>4. thread' = [thread EXCEPT ![t] = [tool |-> thread[t].tool, at |-> "append", left |-> thread[t].left - 1]]
    BY <1>1
  <1>5. /\ thread' \in [Threads -> ThreadState]
        /\ thread'[t] = [tool |-> thread[t].tool, at |-> "append", left |-> thread[t].left - 1]
        /\ \A x \in Threads : x # t => thread'[x] = thread[x]
    BY <1>2, <1>3, <1>4, Zenon DEF SessionTypeOK
  <1>6. thread'[t].at = "append" /\ thread'[t].tool = thread[t].tool
    BY <1>2, <1>5 DEF ThreadState
  <1>. QED  BY <1>1, <1>5, <1>6

(* What a thread's write of its line changes: one line of the file, one thread. *)
LEMMA WriteLineIs ==
  ASSUME SessionTypeOK, \A s \in Sessions : LogInv(s),
         NEW s \in Sessions, NEW role \in Roles, WriteLine(s, role)
  PROVE  /\ UNCHANGED <<run, attached, welded, excuses, calls, memory, emitted>>
         /\ thread[<<s, role>>].at = "append"
         /\ thread' \in [Threads -> ThreadState] /\ thread'[<<s, role>>].at = "run"
         /\ thread'[<<s, role>>].tool = thread[<<s, role>>].tool
         /\ \A t \in Threads : t # <<s, role>> => thread'[t] = thread[t]
         /\ \E i \in DOMAIN memory[s] :
              /\ IsLast(memory[s], <<s, role>>, i) /\ \A k \in DOMAIN file[s] : file[s][k] # memory[s][i]
              /\ file' = [file EXCEPT ![s] = Append(@, memory[s][i])]
  <1>. DEFINE t == <<s, role>>
  <1>1. /\ UNCHANGED <<run, attached, welded, excuses, calls, memory, emitted>>
        /\ thread[t].at = "append" /\ thread' = [thread EXCEPT ![t].at = "run"]
        /\ file' = [file EXCEPT ![s] = Append(@, Pending(memory[s], t))]
    BY DEF WriteLine, LogOf, askVars
  <1>2. t \in Threads /\ thread[t] \in ThreadState
    BY DEF Threads, SessionTypeOK
  <1>3. thread' = [thread EXCEPT ![t] = [@ EXCEPT !.at = "run"]]
    BY <1>1
  <1>4. [thread[t] EXCEPT !.at = "run"] \in ThreadState
    BY <1>1, <1>2 DEF ThreadState
  <1>5. /\ thread' \in [Threads -> ThreadState]
        /\ thread'[t] = [thread[t] EXCEPT !.at = "run"]
        /\ \A x \in Threads : x # t => thread'[x] = thread[x]
    BY <1>2, <1>3, <1>4 DEF SessionTypeOK
  <1>6. thread'[t].at = "run" /\ thread'[t].tool = thread[t].tool
    BY <1>2, <1>5 DEF ThreadState
  <1>7. role \in Writing(s)
    BY <1>1 DEF Writing
  <1>8. PICK i \in DOMAIN memory[s] :
          IsLast(memory[s], t, i) /\ \A k \in DOMAIN file[s] : file[s][k] # memory[s][i]
    BY <1>7 DEF LogInv
  <1>9. Pending(memory[s], t) = memory[s][i]
    BY <1>8, PendingIs DEF SessionTypeOK
  <1>. QED  BY <1>1, <1>5, <1>6, <1>8, <1>9, Zenon

-----------------------------------------------------------------------------
(* Every step keeps the types, part by part.                                 *)

(* A skill is started.                                                       *)
LEMMA StartSkillIs ==
  ASSUME SessionTypeOK, TurnsInv, StartSkill
  PROVE  /\ UNCHANGED <<attached, welded, excuses, calls, memory, file, emitted>>
         /\ run.stage = "steps" /\ Own \in Sessions /\ Step.tool \in ToolNames
         /\ ~Blocked(Step.tool, attached[Own])
         /\ run' \in RunStates /\ run'.stage = "skill" /\ run'.step = run.step
         /\ thread' = [thread EXCEPT ![<<Own, "skill">>] = Running(Step.tool)]
  <1>1. /\ UNCHANGED <<attached, welded, excuses, calls, memory, file, emitted>>
        /\ run.stage = "steps" /\ ~Blocked(Step.tool, attached[Own])
        /\ run' = [run EXCEPT !.stage = "skill"]
        /\ thread' = [thread EXCEPT ![<<Own, "skill">>] = Running(Step.tool)]
    BY DEF StartSkill, askVars
  <1>2. Own \in Sessions /\ Step.tool \in ToolNames
    BY <1>1, StepIs
  <1>3. run' \in RunStates /\ run'.stage = "skill" /\ run'.step = run.step
    BY <1>1 DEF SessionTypeOK, RunStates
  <1>. QED  BY <1>1, <1>2, <1>3

(* The report, and the export with which the session ends.                   *)
LEMMA ReportIs ==
  ASSUME SessionTypeOK, WriteReport \/ Export
  PROVE  /\ UNCHANGED <<thread, attached, welded, excuses, memory, file, emitted>>
         /\ run' \in RunStates
         /\ \/ run.stage = "report" /\ run'.stage = "export" /\ UNCHANGED calls
            \/ run.stage = "export" /\ run'.stage = "idle"
  <1>1. UNCHANGED <<thread, attached, welded, excuses, memory, file, emitted>>
    BY DEF WriteReport, Export, robotVars
  <1>2. CASE WriteReport
    <2>1. run.stage = "report" /\ run' = [run EXCEPT !.stage = "export"] /\ UNCHANGED calls
      BY <1>2 DEF WriteReport, askVars
    <2>. QED  BY <1>1, <2>1 DEF SessionTypeOK, RunStates
  <1>3. CASE Export
    <2>1. run.stage = "export" /\ run' = [stage |-> "idle", step |-> 0, ok |-> TRUE]
      BY <1>3 DEF Export, Resting
    <2>. QED  BY <1>1, <2>1 DEF RunStates
  <1>. QED  BY <1>2, <1>3

(* A plan is accepted.                                                       *)
LEMMA AcceptedIs ==
  ASSUME TypeOK, SessionTypeOK, TurnsInv, pc # "idle" => Len(records) < MaxSessions, Accepted
  PROVE  /\ UNCHANGED <<phase, calls, thread, attached, welded, memory, file, emitted>>
         /\ phase = "up" /\ run.stage = "idle" /\ pc' = "idle" /\ Runnable(calls.calls)
         /\ Len(records') = Own + 1 /\ Own + 1 \in Sessions
         /\ run' \in RunStates /\ run'.stage = "steps" /\ run'.step = 1
         /\ excuses' = [excuses EXCEPT ![Own + 1] = IF Keeps(calls.calls) THEN {"plan"} ELSE {}]
  <1>1. /\ UNCHANGED <<phase, calls, thread, attached, welded, memory, file, emitted>>
        /\ Accept /\ run' = [stage |-> "steps", step |-> 1, ok |-> TRUE]
        /\ excuses' = [excuses EXCEPT ![Own + 1] = IF Keeps(calls.calls) THEN {"plan"} ELSE {}]
    BY DEF Accepted, logVars
  <1>2. pc = "reply" /\ reply.kind = "valid" /\ pc' = "idle" /\ records' = Append(records, Record("planned", reply.by))
    BY <1>1 DEF Accept, EndSession
  <1>3. /\ records \in Seq([outcome : {"planned", "parse_error", "crashed"}, by : Backends \cup {"none"},
                            served_by : Backends \cup {"none"}, degraded : BOOLEAN])
    BY DEF TypeOK
  <1>4. Len(records) \in Nat /\ Len(records') = Own + 1
    BY <1>2, <1>3 DEF Own
  <1>5. Own + 1 \in Sessions
    BY <1>2, <1>4, SessionsAssumption DEF Own, Sessions
  <1>6. phase = "up" /\ run.stage = "idle" /\ Runnable(calls.calls)
    BY <1>2 DEF TurnsInv
  <1>7. run' \in RunStates /\ run'.stage = "steps" /\ run'.step = 1
    BY <1>1 DEF RunStates
  <1>. QED  BY <1>1, <1>2, <1>4, <1>5, <1>6, <1>7

(* The file that a kill leaves: what was in it, and some of the lines that   *)
(* were being written.                                                       *)
LEMMA KilledIs ==
  ASSUME SessionTypeOK, \A s \in Sessions : LogInv(s), Killed, NEW s \in Sessions
  PROVE  /\ file'[s] \in Seq(Entries) /\ Len(file'[s]) \in Nat /\ Len(file'[s]) >= Len(file[s])
         /\ IsInjective(file'[s])
         /\ \A i \in DOMAIN file'[s] :
              \/ i \in DOMAIN file[s] /\ file'[s][i] = file[s][i]
              \/ \E k \in DOMAIN memory[s] : file'[s][i] = memory[s][k]
  <1>. DEFINE writing == {t \in Sessions \X Roles : thread[t].at = "append"}
  <1>1. PICK whole \in SUBSET writing :
          file' = [x \in Sessions |->
                    file[x] \o SetToSeq({Pending(memory[t[1]], t) : t \in {w \in whole : w[1] = x}})]
    BY Zenon DEF Killed, LogOf
  <1>. DEFINE mine == {w \in whole : w[1] = s}
              lost == {Pending(memory[t[1]], t) : t \in mine}
              more == SetToSeq(lost)
  <1>2. file'[s] = file[s] \o more
    BY <1>1
  <1>3. ASSUME NEW t \in mine
        PROVE  \E k \in DOMAIN memory[s] :
                 Pending(memory[t[1]], t) = memory[s][k] /\ \A i \in DOMAIN file[s] : file[s][i] # memory[s][k]
    <2>1. PICK r \in Roles : t = <<s, r>> /\ thread[<<s, r>>].at = "append"
      OBVIOUS
    <2>2. r \in Writing(s)
      BY <2>1 DEF Writing
    <2>3. PICK k \in DOMAIN memory[s] :
            IsLast(memory[s], <<s, r>>, k) /\ \A i \in DOMAIN file[s] : file[s][i] # memory[s][k]
      BY <2>2 DEF LogInv
    <2>4. Pending(memory[s], <<s, r>>) = memory[s][k]
      BY <2>3, PendingIs DEF SessionTypeOK
    <2>. QED  BY <2>1, <2>3, <2>4
  <1>4. \A e \in lost : \E k \in DOMAIN memory[s] :
          e = memory[s][k] /\ \A i \in DOMAIN file[s] : file[s][i] # e
    BY <1>3
  <1>5. IsFiniteSet(lost)
    <2>1. mine \subseteq {<<s, "skill">>, <<s, "release">>}
      BY DEF Roles
    <2>2. IsFiniteSet({<<s, "skill">>, <<s, "release">>})
      <3>1. IsFiniteSet({<<s, "skill">>})
        BY FS_Singleton
      <3>2. IsFiniteSet({<<s, "skill">>} \cup {<<s, "release">>})
        BY <3>1, FS_AddElement
      <3>3. {<<s, "skill">>, <<s, "release">>} = {<<s, "skill">>} \cup {<<s, "release">>}
        OBVIOUS
      <3>. QED  BY <3>2, <3>3
    <2>3. IsFiniteSet(mine)
      BY <2>1, <2>2, FS_Subset
    <2>. DEFINE f == [t \in mine |-> Pending(memory[t[1]], t)]
    <2>4. f \in Surjection(mine, lost)
      BY DEF Surjection
    <2>. HIDE DEF mine, lost, f
    <2>. QED  BY <2>3, <2>4, FS_Surjection
  <1>. HIDE DEF lost
  <1>6. more \in Seq(lost) /\ IsInjective(more) /\ Len(more) \in Nat
    BY <1>5, SetToSeqIs
  <1>7. lost \subseteq Entries
    BY <1>4 DEF SessionTypeOK
  <1>8. file[s] \in Seq(Entries) /\ more \in Seq(Entries)
    BY <1>6, <1>7 DEF SessionTypeOK
  <1>. HIDE DEF more
  <1>9. /\ file'[s] \in Seq(Entries) /\ Len(file'[s]) = Len(file[s]) + Len(more) /\ Len(file[s]) \in Nat
        /\ DOMAIN file'[s] = 1..(Len(file[s]) + Len(more))
        /\ \A i \in DOMAIN file'[s] :
             \/ i \in DOMAIN file[s] /\ file'[s][i] = file[s][i]
             \/ /\ i - Len(file[s]) \in DOMAIN more /\ i \notin DOMAIN file[s]
                /\ file'[s][i] = more[i - Len(file[s])]
    BY <1>2, <1>8
  <1>10. \A i \in DOMAIN more : more[i] \in lost
    BY <1>6
  <1>11. IsInjective(file'[s])
    <2>1. IsInjective(file[s])
      BY DEF LogInv
    <2>2. SUFFICES ASSUME NEW i \in DOMAIN file'[s], NEW j \in DOMAIN file'[s], file'[s][i] = file'[s][j]
                   PROVE  i = j
      BY DEF IsInjective
    <2>3. CASE i \in DOMAIN file[s] /\ j \in DOMAIN file[s]
      BY <1>9, <2>1, <2>2, <2>3, <1>6 DEF IsInjective
    <2>4. CASE i \notin DOMAIN file[s] /\ j \notin DOMAIN file[s]
      <3>1. /\ i - Len(file[s]) \in DOMAIN more /\ j - Len(file[s]) \in DOMAIN more
            /\ more[i - Len(file[s])] = more[j - Len(file[s])]
        BY <1>9, <2>2, <2>4
      <3>2. i - Len(file[s]) = j - Len(file[s])
        BY <1>6, <3>1, Zenon DEF IsInjective
      <3>. QED  BY <1>9, <3>2
    <2>5. CASE i \in DOMAIN file[s] /\ j \notin DOMAIN file[s]
      BY <1>4, <1>9, <1>10, <2>2, <2>5
    <2>6. CASE i \notin DOMAIN file[s] /\ j \in DOMAIN file[s]
      BY <1>4, <1>9, <1>10, <2>2, <2>6
    <2>. QED  BY <2>3, <2>4, <2>5, <2>6
  <1>12. Len(file'[s]) \in Nat /\ Len(file'[s]) >= Len(file[s])
    BY <1>6, <1>9
  <1>13. ASSUME NEW i \in DOMAIN file'[s], i \notin DOMAIN file[s]
         PROVE  \E k \in DOMAIN memory[s] : file'[s][i] = memory[s][k]
    <2>1. file'[s][i] \in lost
      BY <1>9, <1>10, <1>13
    <2>. QED  BY <1>4, <2>1, Zenon
  <1>. QED  BY <1>9, <1>11, <1>12, <1>13, Zenon

(* The process ends.                                                         *)
LEMMA EndsIs ==
  ASSUME Quits \/ Killed
  PROVE  /\ phase = "up" /\ pc = "idle" /\ phase' = "gone" /\ run' = Resting /\ UNCHANGED vars
         /\ thread' = [t \in Threads |-> Idle] /\ attached' = [s \in Sessions |-> FALSE]
         /\ memory' = [s \in Sessions |-> <<>>] /\ UNCHANGED <<welded, excuses, emitted>>
         /\ \/ (\A t \in Threads : thread[t] = Idle) /\ file' = file
            \/ Killed
  BY DEF Quits, Killed, Ends, Threads

(* The steps of a session, the parse's but for the acceptance put together.  *)
LEMMA StepKinds ==
  ASSUME [SessionNext]_<<vars, sessionVars>>
  PROVE  \/ QuietStep \/ Accepted \/ Quits \/ Killed
         \/ /\ UNCHANGED <<vars, phase>>
            /\ \/ BlockCall \/ SkillTimesOut
               \/ StartSkill
               \/ WriteReport \/ Export
               \/ \E outcome \in {"ok", "fail", "raise"} : ReleaseEnds(outcome)
               \/ \E s \in Sessions, outcome \in {"ok", "fail", "raise"} : SkillEnds(s, outcome)
               \/ \E s \in Sessions, role \in Roles : Emit(s, role)
               \/ \E s \in Sessions, role \in Roles : WriteLine(s, role)
  <1>1. CASE QuietStep \/ Accepted \/ Quits \/ Killed
    BY <1>1
  <1>2. CASE OverParse(RunStep)
    <2>1. UNCHANGED <<vars, phase>> /\ RunStep
      BY <1>2 DEF OverParse
    <2>. QED  BY <2>1, Zenon DEF RunStep
  <1>. QED  BY <1>1, <1>2, SessionSteps, Zenon

(* What a step that is none of the parse's leaves of it.                     *)
LEMMA OwnKept ==
  ASSUME UNCHANGED <<vars, phase>>
  PROVE  UNCHANGED <<pc, reply, records, phase, attempt>> /\ Own' = Own
  BY DEF vars, Own

(* Every step of a session preserves its types. *)
LEMMA SessionTypeNext ==
  ASSUME TypeOK, SessionTypeOK, TurnsInv, \A s \in Sessions : LogInv(s),
         pc # "idle" => Len(records) < MaxSessions, [SessionNext]_<<vars, sessionVars>>
  PROVE  SessionTypeOK'
  <1>. USE DEF RunStates
  <1>0. /\ run \in RunStates /\ thread \in [Threads -> ThreadState] /\ attached \in [Sessions -> BOOLEAN]
        /\ welded \in BOOLEAN /\ excuses \in [Sessions -> SUBSET Excuses]
        /\ memory \in [Sessions -> Seq(Entries)] /\ file \in [Sessions -> Seq(Entries)]
        /\ emitted \in [Sessions -> Nat] /\ phase \in {"start", "preflight", "up", "gone"}
    BY DEF SessionTypeOK
  <1>1. CASE QuietStep
    BY <1>0, <1>1, QuietKeeps DEF SessionTypeOK, runVars
  <1>2. CASE Accepted
    <2>1. /\ UNCHANGED <<phase, thread, attached, welded, memory, file, emitted>>
          /\ run' \in RunStates
          /\ excuses' = [excuses EXCEPT ![Own + 1] = IF Keeps(calls.calls) THEN {"plan"} ELSE {}]
      BY <1>2, AcceptedIs
    <2>2. excuses' \in [Sessions -> SUBSET Excuses]
      BY <1>0, <2>1 DEF Excuses
    <2>. QED  BY <1>0, <2>1, <2>2 DEF SessionTypeOK
  <1>3. CASE UNCHANGED <<vars, phase>> /\ (BlockCall \/ SkillTimesOut)
    <2>1. /\ UNCHANGED <<phase, attached, welded, memory, file, emitted>> /\ run' \in RunStates
          /\ \/ thread' = thread
             \/ thread' = [thread EXCEPT ![<<Own, "release">>] = Running("detach")]
          /\ excuses' = excuses \/ excuses' = [excuses EXCEPT ![Own] = @ \cup {"timeout"}]
      BY <1>3, FailingStep
    <2>2. Running("detach") \in ThreadState
      BY RunningIs DEF ToolNames
    <2>3. thread' \in [Threads -> ThreadState]
      BY <1>0, <2>1, <2>2
    <2>4. excuses' \in [Sessions -> SUBSET Excuses]
      <3>1. "timeout" \in Excuses
        BY DEF Excuses
      <3>2. excuses' = [excuses EXCEPT ![Own] = @ \cup {"timeout"}] => excuses' \in [Sessions -> SUBSET Excuses]
        BY <1>0, <3>1, ExcuseAdded
      <3>. QED  BY <1>0, <2>1, <3>2
    <2>. QED  BY <1>0, <2>1, <2>3, <2>4 DEF SessionTypeOK
  <1>4. CASE UNCHANGED <<vars, phase>> /\ StartSkill
    <2>1. /\ UNCHANGED <<phase, attached, welded, excuses, memory, file, emitted>> /\ run' \in RunStates
          /\ thread' = [thread EXCEPT ![<<Own, "skill">>] = Running(Step.tool)] /\ Step.tool \in ToolNames
      BY <1>4, StartSkillIs
    <2>2. Running(Step.tool) \in ThreadState
      BY <2>1, RunningIs
    <2>3. thread' \in [Threads -> ThreadState]
      BY <1>0, <2>1, <2>2
    <2>. QED  BY <1>0, <2>1, <2>3 DEF SessionTypeOK
  <1>5. CASE UNCHANGED <<vars, phase>> /\ (WriteReport \/ Export)
    BY <1>0, <1>5, ReportIs DEF SessionTypeOK
  <1>6. CASE UNCHANGED <<vars, phase>> /\ \E outcome \in {"ok", "fail", "raise"} : ReleaseEnds(outcome)
    <2>1. /\ UNCHANGED <<phase, memory, file, emitted>> /\ run' \in RunStates
          /\ thread' = [thread EXCEPT ![<<Own, "release">>] = Idle]
          /\ welded' \in BOOLEAN /\ attached' \in [Sessions -> BOOLEAN]
          /\ excuses' = excuses \/ excuses' = [excuses EXCEPT ![Own] = @ \cup {"release"}]
      BY <1>6, ReleaseEndsIs
    <2>2. thread' \in [Threads -> ThreadState]
      BY <1>0, <2>1, RunningIs
    <2>3. excuses' \in [Sessions -> SUBSET Excuses]
      <3>1. "release" \in Excuses
        BY DEF Excuses
      <3>2. excuses' = [excuses EXCEPT ![Own] = @ \cup {"release"}] => excuses' \in [Sessions -> SUBSET Excuses]
        BY <1>0, <3>1, ExcuseAdded
      <3>. QED  BY <1>0, <2>1, <3>2
    <2>. QED  BY <1>0, <2>1, <2>2, <2>3 DEF SessionTypeOK
  <1>7. ASSUME NEW s \in Sessions, NEW outcome \in {"ok", "fail", "raise"}, SkillEnds(s, outcome),
               UNCHANGED <<vars, phase>>
        PROVE  SessionTypeOK'
    <2>1. /\ UNCHANGED <<phase, calls, memory, file, emitted>>
          /\ welded' \in BOOLEAN /\ attached' \in [Sessions -> BOOLEAN]
          /\ excuses' \in [Sessions -> SUBSET Excuses]
          /\ \/ s = Own /\ run.stage = "skill" /\ run' = NextStep(outcome = "ok")
             \/ run' = run
          /\ \/ thread' = [thread EXCEPT ![<<s, "skill">>] = Idle, ![<<s, "release">>] = Running("detach")]
             \/ thread' = [thread EXCEPT ![<<s, "skill">>] = Idle]
      BY <1>7, SkillEndsIs, Zenon
    <2>2. thread' \in [Threads -> ThreadState]
      <3>1. Running("detach") \in ThreadState /\ Idle \in ThreadState
        BY RunningIs DEF ToolNames
      <3>. QED  BY <1>0, <2>1, <3>1
    <2>3. run' \in RunStates
      <3>1. CASE run' = run
        BY <1>0, <3>1
      <3>2. CASE s = Own /\ run.stage = "skill" /\ run' = NextStep(outcome = "ok")
        <4>1. Len(calls.calls) \in Nat /\ (outcome = "ok") \in BOOLEAN
          BY <3>2, StepIs
        <4>. QED  BY <2>1, <3>2, <4>1, NextStepIs
      <3>. QED  BY <2>1, <3>1, <3>2
    <2>. QED  BY <1>0, <2>1, <2>2, <2>3 DEF SessionTypeOK
  <1>8. ASSUME NEW s \in Sessions, NEW role \in Roles, Emit(s, role), UNCHANGED <<vars, phase>>
        PROVE  SessionTypeOK'
    <2>1. /\ UNCHANGED <<phase, run, attached, welded, excuses, file>> /\ thread' \in [Threads -> ThreadState]
          /\ memory' = [memory EXCEPT ![s] = Append(@, <<s, <<s, role>>, emitted[s] + 1>>)]
          /\ emitted' = [emitted EXCEPT ![s] = @ + 1]
      BY <1>8, EmitIs
    <2>2. emitted' \in [Sessions -> Nat] /\ emitted[s] + 1 \in Nat
      BY <1>0, <2>1
    <2>3. <<s, <<s, role>>, emitted[s] + 1>> \in Entries
      BY <2>2 DEF Entries, Threads
    <2>4. Append(memory[s], <<s, <<s, role>>, emitted[s] + 1>>) \in Seq(Entries)
      BY <1>0, <2>3
    <2>5. memory' \in [Sessions -> Seq(Entries)]
      BY <1>0, <2>1, <2>4
    <2>. QED  BY <1>0, <2>1, <2>2, <2>5 DEF SessionTypeOK
  <1>9. ASSUME NEW s \in Sessions, NEW role \in Roles, WriteLine(s, role), UNCHANGED <<vars, phase>>
        PROVE  SessionTypeOK'
    <2>1. /\ UNCHANGED <<phase, run, attached, welded, excuses, memory, emitted>> /\ thread' \in [Threads -> ThreadState]
          /\ \E i \in DOMAIN memory[s] : file' = [file EXCEPT ![s] = Append(@, memory[s][i])]
      BY <1>9, WriteLineIs
    <2>2. PICK i \in DOMAIN memory[s] : file' = [file EXCEPT ![s] = Append(@, memory[s][i])]
      BY <2>1
    <2>3. Append(file[s], memory[s][i]) \in Seq(Entries)
      BY <1>0
    <2>4. file' \in [Sessions -> Seq(Entries)]
      BY <1>0, <2>2, <2>3
    <2>. QED  BY <1>0, <2>1, <2>4 DEF SessionTypeOK
  <1>10. CASE Quits \/ Killed
    <2>1. /\ phase' = "gone" /\ run' = Resting
          /\ thread' = [t \in Threads |-> Idle] /\ attached' = [s \in Sessions |-> FALSE]
          /\ memory' = [s \in Sessions |-> <<>>] /\ UNCHANGED <<welded, excuses, emitted>>
          /\ file' = file \/ Killed
      BY <1>10, EndsIs
    <2>2. run' \in RunStates
      BY <2>1 DEF Resting
    <2>3. thread' \in [Threads -> ThreadState]
      BY <2>1, RunningIs
    <2>4. memory' \in [Sessions -> Seq(Entries)] /\ attached' \in [Sessions -> BOOLEAN]
      BY <2>1
    <2>5. file' \in [Sessions -> Seq(Entries)]
      <3>1. CASE file' = file
        BY <1>0, <3>1
      <3>2. CASE Killed
        <4>1. \A s \in Sessions : file'[s] \in Seq(Entries)
          BY <3>2, KilledIs
        <4>2. \E f : file' = [s \in Sessions |-> f[s]]
          <5>1. PICK whole : file' = [s \in Sessions |->
                  file[s] \o SetToSeq({Pending(memory[LogOf(t[1])], t) : t \in {w \in whole : LogOf(w[1]) = s}})]
            BY <3>2 DEF Killed
          <5>. DEFINE f == [s \in Sessions |->
                  file[s] \o SetToSeq({Pending(memory[LogOf(t[1])], t) : t \in {w \in whole : LogOf(w[1]) = s}})]
          <5>2. file' = f
            BY <5>1
          <5>3. f = [s \in Sessions |-> f[s]]
            OBVIOUS
          <5>. QED  BY <5>2, <5>3, Zenon
        <4>. QED  BY <4>1, <4>2
      <3>. QED  BY <2>1, <3>1, <3>2
    <2>. QED  BY <1>0, <2>1, <2>2, <2>3, <2>4, <2>5 DEF SessionTypeOK
  <1>. QED  BY <1>1, <1>2, <1>3, <1>4, <1>5, <1>6, <1>7, <1>8, <1>9, <1>10, StepKinds, Zenon

-----------------------------------------------------------------------------
(* Parse and execution take turns after every step.                          *)
LEMMA TurnsNext ==
  ASSUME TypeOK, SessionTypeOK, TurnsInv, pc # "idle" => Len(records) < MaxSessions,
         [SessionNext]_<<vars, sessionVars>>
  PROVE  TurnsInv'
  <1>0. thread \in [Threads -> ThreadState] /\ run \in RunStates
    BY DEF SessionTypeOK, RunStates
  <1>1. CASE QuietStep
    <2>1. UNCHANGED <<run, thread>>
      BY <1>1, QuietKeeps DEF runVars
    <2>2. /\ pc' # "idle" => phase' = "up" /\ run'.stage = "idle"
          /\ pc' = "reply" /\ reply'.kind = "valid" => Runnable(calls'.calls)
      BY <1>1, <2>1, QuietKeeps
    <2>3. run.stage # "idle" => phase' = phase /\ calls' = calls /\ Own' = Own
      BY <1>1, QuietKeeps DEF TurnsInv, Own
    <2>4. phase' # "up" => phase # "up"
      BY <1>1, QuietKeeps
    <2>. QED  BY <2>1, <2>2, <2>3, <2>4 DEF TurnsInv
  <1>2. CASE Accepted
    <2>1. /\ UNCHANGED <<phase, calls, thread>> /\ phase = "up" /\ pc' = "idle" /\ Runnable(calls.calls)
          /\ Own' \in Sessions /\ run'.stage = "steps" /\ run'.step = 1
      BY <1>2, AcceptedIs DEF Own
    <2>2. 1 \in DOMAIN calls.calls
      BY <2>1, RunnablePlan
    <2>. QED  BY <2>1, <2>2 DEF TurnsInv
  <1>3. ASSUME UNCHANGED <<vars, phase, calls>>, run.stage # "idle",
               run'.stage \in {"steps", "skill"} => run'.step \in DOMAIN calls.calls
        PROVE  TurnsInv'
    <2>1. UNCHANGED <<pc, reply, phase>> /\ Own' = Own
      BY <1>3, OwnKept
    <2>2. phase = "up" /\ pc = "idle" /\ Own \in Sessions /\ Runnable(calls.calls)
      BY <1>3 DEF TurnsInv
    <2>. QED  BY <1>3, <2>1, <2>2 DEF TurnsInv
  <1>4. CASE UNCHANGED <<vars, phase>> /\ (BlockCall \/ SkillTimesOut)
    <2>1. run.stage # "idle" /\ UNCHANGED calls /\ run'.stage \in {"release", "report"}
      BY <1>4, FailingStep
    <2>. QED  BY <1>3, <1>4, <2>1
  <1>5. CASE UNCHANGED <<vars, phase>> /\ StartSkill
    <2>1. run.stage = "steps" /\ UNCHANGED calls /\ run'.step = run.step
      BY <1>5, StartSkillIs
    <2>2. run.step \in DOMAIN calls.calls
      BY <2>1 DEF TurnsInv
    <2>. QED  BY <1>3, <1>5, <2>1, <2>2
  <1>6. CASE UNCHANGED <<vars, phase>> /\ (WriteReport \/ Export)
    <2>1. \/ run.stage = "report" /\ run'.stage = "export" /\ UNCHANGED calls
          \/ run.stage = "export" /\ run'.stage = "idle"
      BY <1>6, ReportIs
    <2>2. CASE run.stage = "report" /\ run'.stage = "export" /\ UNCHANGED calls
      BY <1>3, <1>6, <2>2
    <2>3. CASE run.stage = "export" /\ run'.stage = "idle"
      <3>1. UNCHANGED <<pc, reply, phase>>
        BY <1>6, OwnKept
      <3>2. phase = "up" /\ pc = "idle"
        BY <2>3 DEF TurnsInv
      <3>. QED  BY <2>3, <3>1, <3>2 DEF TurnsInv
    <2>. QED  BY <2>1, <2>2, <2>3
  <1>7. CASE UNCHANGED <<vars, phase>> /\ \E outcome \in {"ok", "fail", "raise"} : ReleaseEnds(outcome)
    <2>1. run.stage = "release" /\ run'.stage = "report" /\ UNCHANGED calls
      BY <1>7, ReleaseEndsIs
    <2>. QED  BY <1>3, <1>7, <2>1
  <1>8. ASSUME NEW s \in Sessions, NEW outcome \in {"ok", "fail", "raise"}, SkillEnds(s, outcome),
               UNCHANGED <<vars, phase>>
        PROVE  TurnsInv'
    <2>1. /\ UNCHANGED calls /\ thread[<<s, "skill">>].at = "run" /\ attached' \in [Sessions -> BOOLEAN]
          /\ \/ s = Own /\ run.stage = "skill" /\ run' = NextStep(outcome = "ok")
             \/ run' = run
      BY <1>8, SkillEndsIs, Zenon
    <2>2. CASE s = Own /\ run.stage = "skill" /\ run' = NextStep(outcome = "ok")
      <3>1. /\ run.step \in 1..Len(calls.calls) /\ Len(calls.calls) \in Nat
            /\ DOMAIN calls.calls = 1..Len(calls.calls) /\ (outcome = "ok") \in BOOLEAN
        BY <2>2, StepIs
      <3>2. \/ run'.stage = "steps" /\ run'.step = run.step + 1 /\ run.step < Len(calls.calls)
            \/ run'.stage \in {"release", "report"}
        BY <2>1, <2>2, <3>1, NextStepIs
      <3>3. run'.stage \in {"steps", "skill"} => run'.step \in DOMAIN calls.calls
        BY <3>1, <3>2
      <3>. QED  BY <1>3, <1>8, <2>1, <2>2, <3>3
    <2>3. CASE run' = run
      <3>1. CASE run.stage # "idle"
        <4>1. run'.stage \in {"steps", "skill"} => run'.step \in DOMAIN calls.calls
          BY <2>3 DEF TurnsInv
        <4>. QED  BY <1>3, <1>8, <2>1, <3>1, <4>1
      <3>2. CASE run.stage = "idle"
        <4>1. <<s, "skill">> \in Threads
          BY DEF Threads, Roles
        <4>2. phase = "up" /\ UNCHANGED <<pc, reply, phase, calls, run>>
          BY <1>8, <2>1, <2>3, <4>1, OwnKept DEF TurnsInv
        <4>. QED  BY <3>2, <4>2 DEF TurnsInv
      <3>. QED  BY <3>1, <3>2
    <2>. QED  BY <2>1, <2>2, <2>3
  <1>9. ASSUME NEW s \in Sessions, NEW role \in Roles, Emit(s, role) \/ WriteLine(s, role),
               UNCHANGED <<vars, phase>>
        PROVE  TurnsInv'
    <2>1. UNCHANGED <<run, calls>> /\ thread[<<s, role>>].at # "none"
      BY <1>9 DEF Emit, WriteLine, askVars
    <2>2. <<s, role>> \in Threads
      BY DEF Threads
    <2>3. phase = "up" /\ UNCHANGED <<pc, reply, phase>> /\ Own' = Own
      BY <1>9, <2>1, <2>2, OwnKept DEF TurnsInv
    <2>. QED  BY <2>1, <2>3 DEF TurnsInv
  <1>10. CASE Quits \/ Killed
    <2>1. phase' = "gone" /\ pc' = "idle" /\ run'.stage = "idle" /\ thread' = [t \in Threads |-> Idle]
      BY <1>10, EndsIs DEF Resting, vars
    <2>2. \A t \in Threads : thread'[t].at = "none"
      BY <2>1 DEF Idle
    <2>. QED  BY <2>1, <2>2 DEF TurnsInv
  <1>11. ASSUME UNCHANGED <<vars, phase>>,
                \/ \E s \in Sessions, outcome \in {"ok", "fail", "raise"} : SkillEnds(s, outcome)
                \/ \E s \in Sessions, role \in Roles : Emit(s, role) \/ WriteLine(s, role)
         PROVE  TurnsInv'
    BY <1>8, <1>9, <1>11
  <1>. QED  BY <1>1, <1>2, <1>4, <1>5, <1>6, <1>7, <1>10, <1>11, StepKinds, Zenon

(* The threads are accounted for after every step.                           *)
LEMMA ThreadsNext ==
  ASSUME TypeOK, SessionTypeOK, TurnsInv, ThreadsInv, \A s \in Sessions : LogInv(s),
         pc # "idle" => Len(records) < MaxSessions, [SessionNext]_<<vars, sessionVars>>
  PROVE  ThreadsInv'
  <1>0. /\ thread \in [Threads -> ThreadState] /\ attached \in [Sessions -> BOOLEAN]
        /\ excuses \in [Sessions -> SUBSET Excuses] /\ Own \in Nat
        /\ \A s \in Sessions : s \in Nat /\ \A r \in Roles : <<s, r>> \in Threads
    BY DEF SessionTypeOK, TypeOK, Own, Threads, Sessions
  <1>1. CASE QuietStep
    <2>1. UNCHANGED <<run, thread, attached, excuses>>
      BY <1>1, QuietKeeps DEF runVars
    <2>2. /\ run.stage # "idle" => calls' = calls /\ Own' = Own
          /\ Own' = Own \/ Own' = Own + 1
      BY <1>1, QuietKeeps DEF Own
    <2>3. run.stage = "skill" => Step' = Step
      BY <2>1, <2>2 DEF Step
    <2>. QED  BY <1>0, <2>1, <2>2, <2>3 DEF ThreadsInv
  <1>2. CASE Accepted
    <2>1. /\ UNCHANGED <<thread, attached>> /\ run.stage = "idle" /\ Own' = Own + 1 /\ Own + 1 \in Sessions
          /\ run'.stage = "steps"
          /\ excuses' = [excuses EXCEPT ![Own + 1] = IF Keeps(calls.calls) THEN {"plan"} ELSE {}]
      BY <1>2, AcceptedIs DEF Own
    <2>2. \A s \in Sessions : s # Own + 1 => excuses'[s] = excuses[s]
      BY <1>0, <2>1
    <2>3. "timeout" \notin excuses'[Own + 1]
      BY <1>0, <2>1
    <2>4. excuses[Own + 1] = {}
      BY <1>0, <2>1 DEF ThreadsInv
    <2>. QED  BY <1>0, <2>1, <2>2, <2>3, <2>4 DEF ThreadsInv
  <1>3. CASE UNCHANGED <<vars, phase>> /\ (BlockCall \/ SkillTimesOut)
    <2>1. /\ run.stage \in {"steps", "skill"} /\ Own' = Own /\ Own \in Sessions /\ UNCHANGED attached
          /\ run'.stage = IF attached[Own] THEN "release" ELSE "report"
          /\ thread' = IF attached[Own] THEN [thread EXCEPT ![<<Own, "release">>] = Running("detach")] ELSE thread
          /\ \/ BlockCall /\ excuses' = excuses
             \/ SkillTimesOut /\ excuses' = [excuses EXCEPT ![Own] = @ \cup {"timeout"}]
      BY <1>3, FailingStep, StepIs, OwnKept
    <2>2. \A s \in Sessions : thread'[<<s, "skill">>] = thread[<<s, "skill">>]
      BY <1>0, <2>1 DEF Roles
    <2>3. \A s \in Sessions : thread'[<<s, "release">>].at # "none" => s = Own /\ run'.stage = "release"
      <3>1. \A s \in Sessions : thread[<<s, "release">>].at = "none"
        BY <2>1 DEF ThreadsInv
      <3>2. \A s \in Sessions : thread'[<<s, "release">>] # thread[<<s, "release">>] => s = Own /\ attached[Own]
        BY <1>0, <2>1 DEF Roles
      <3>3. attached[Own] => run'.stage = "release"
        BY <2>1
      <3>. QED  BY <3>1, <3>2, <3>3
    <2>4. /\ \A s \in Sessions : excuses[s] \subseteq excuses'[s]
          /\ \A s \in Sessions : s # Own => excuses'[s] = excuses[s]
      <3>1. CASE excuses' = excuses
        BY <3>1
      <3>2. CASE excuses' = [excuses EXCEPT ![Own] = @ \cup {"timeout"}]
        BY <1>0, <3>2, ExcuseAdded DEF Excuses
      <3>. QED  BY <2>1, <3>1, <3>2
    <2>5. \A s \in Sessions : thread'[<<s, "skill">>].at # "none" => "timeout" \in excuses'[s]
      <3>1. CASE SkillTimesOut /\ excuses' = [excuses EXCEPT ![Own] = @ \cup {"timeout"}]
        <4>1. "timeout" \in excuses'[Own]
          BY <1>0, <2>1, <3>1
        <4>. QED  BY <2>2, <2>4, <4>1 DEF ThreadsInv
      <3>2. CASE BlockCall /\ excuses' = excuses
        <4>1. run.stage = "steps"
          BY <3>2 DEF BlockCall
        <4>. QED  BY <2>2, <2>4, <4>1 DEF ThreadsInv
      <3>. QED  BY <2>1, <3>1, <3>2
    <2>6. run'.stage \in {"release", "report"}
      BY <2>1
    <2>7. \A s \in Sessions : s > Own => excuses'[s] = {} /\ ~attached[s]
      BY <1>0, <2>4 DEF ThreadsInv
    <2>. QED  BY <2>1, <2>3, <2>5, <2>6, <2>7 DEF ThreadsInv
  <1>4. CASE UNCHANGED <<vars, phase>> /\ StartSkill
    <2>1. /\ UNCHANGED <<attached, excuses, calls>> /\ Own' = Own /\ Own \in Sessions
          /\ run.stage = "steps" /\ Step.tool \in ToolNames
          /\ run'.stage = "skill" /\ run'.step = run.step
          /\ thread' = [thread EXCEPT ![<<Own, "skill">>] = Running(Step.tool)]
      BY <1>4, StartSkillIs, OwnKept
    <2>2. /\ thread'[<<Own, "skill">>] = Running(Step.tool)
          /\ \A s \in Sessions : thread'[<<s, "release">>] = thread[<<s, "release">>]
          /\ \A s \in Sessions : s # Own => thread'[<<s, "skill">>] = thread[<<s, "skill">>]
      BY <1>0, <2>1 DEF Roles
    <2>3. thread'[<<Own, "skill">>].tool = Step'.tool
      BY <2>1, <2>2, RunningIs DEF Step
    <2>. QED  BY <1>0, <2>1, <2>2, <2>3 DEF ThreadsInv
  <1>5. CASE UNCHANGED <<vars, phase>> /\ (WriteReport \/ Export)
    <2>1. /\ UNCHANGED <<thread, attached, excuses>> /\ Own' = Own
          /\ run.stage \in {"report", "export"} /\ run'.stage \in {"export", "idle"}
      BY <1>5, ReportIs, OwnKept
    <2>. QED  BY <2>1 DEF ThreadsInv
  <1>6. CASE UNCHANGED <<vars, phase>> /\ \E outcome \in {"ok", "fail", "raise"} : ReleaseEnds(outcome)
    <2>1. /\ run.stage = "release" /\ Own \in Sessions /\ run'.stage = "report" /\ Own' = Own
          /\ thread' = [thread EXCEPT ![<<Own, "release">>] = Idle]
          /\ \A x \in Sessions \ {Own} : attached'[x] = attached[x]
          /\ excuses' = excuses \/ excuses' = [excuses EXCEPT ![Own] = @ \cup {"release"}]
      BY <1>6, ReleaseEndsIs, OwnKept
    <2>2. /\ \A s \in Sessions : excuses[s] \subseteq excuses'[s]
          /\ \A s \in Sessions : s # Own => excuses'[s] = excuses[s]
      <3>1. CASE excuses' = excuses
        BY <3>1
      <3>2. CASE excuses' = [excuses EXCEPT ![Own] = @ \cup {"release"}]
        BY <1>0, <3>2, ExcuseAdded DEF Excuses
      <3>. QED  BY <2>1, <3>1, <3>2
    <2>3. /\ \A s \in Sessions : thread'[<<s, "skill">>] = thread[<<s, "skill">>]
          /\ \A s \in Sessions : s # Own => thread'[<<s, "release">>] = thread[<<s, "release">>]
          /\ thread'[<<Own, "release">>].at = "none"
      BY <1>0, <2>1 DEF Roles, Idle
    <2>. QED  BY <1>0, <2>1, <2>2, <2>3 DEF ThreadsInv
  <1>7. ASSUME NEW s \in Sessions, NEW outcome \in {"ok", "fail", "raise"}, SkillEnds(s, outcome),
               UNCHANGED <<vars, phase>>
        PROVE  ThreadsInv'
    <2>1. /\ UNCHANGED calls /\ Own' = Own /\ thread[<<s, "skill">>].at = "run"
          /\ attached' \in [Sessions -> BOOLEAN]
          /\ \A x \in Sessions \ {s} : attached'[x] = attached[x]
          /\ \A x \in Sessions : excuses[x] \subseteq excuses'[x] /\ excuses'[x] \subseteq excuses[x] \cup {"raise"}
          /\ \A x \in Sessions \ {s} : excuses'[x] = excuses[x]
      BY <1>7, SkillEndsIs, OwnKept
    <2>2. s <= Own
      BY <1>0, <2>1 DEF ThreadsInv
    <2>3. \A x \in Sessions : x > Own => excuses'[x] = {} /\ ~attached'[x]
      BY <1>0, <2>1, <2>2 DEF ThreadsInv
    <2>4. CASE /\ ~(s = Own /\ run.stage = "skill") /\ run' = run
               /\ thread' = [thread EXCEPT ![<<s, "skill">>] = Idle]
      <3>1. /\ thread'[<<s, "skill">>].at = "none"
            /\ \A x \in Sessions : thread'[<<x, "release">>] = thread[<<x, "release">>]
            /\ \A x \in Sessions : x # s => thread'[<<x, "skill">>] = thread[<<x, "skill">>]
        BY <1>0, <2>4 DEF Roles, Idle
      <3>2. /\ \A x \in Sessions : thread'[<<x, "release">>].at # "none" => x = Own' /\ run'.stage = "release"
            /\ \A x \in Sessions : thread'[<<x, "skill">>].at # "none" =>
                 (x = Own' /\ run'.stage = "skill") \/ "timeout" \in excuses'[x]
        BY <2>1, <2>4, <3>1 DEF ThreadsInv
      <3>3. run'.stage = "skill" => thread'[<<Own', "skill">>].tool = Step'.tool
        <4>1. CASE run.stage = "skill"
          <5>1. Own \in Sessions /\ Own # s
            BY <2>4, <4>1, StepIs
          <5>2. Step' = Step
            BY <2>1, <2>4 DEF Step
          <5>3. thread[<<Own, "skill">>].tool = Step.tool
            BY <4>1 DEF ThreadsInv
          <5>. QED  BY <2>1, <3>1, <5>1, <5>2, <5>3
        <4>. QED  BY <2>4, <4>1
      <3>4. run'.stage \in {"steps", "skill"} => "timeout" \notin excuses'[Own']
        <4>1. CASE run.stage \in {"steps", "skill"}
          <5>1. Own \in Sessions /\ "timeout" \notin excuses[Own]
            BY <4>1, StepIs DEF ThreadsInv
          <5>. QED  BY <2>1, <5>1
        <4>. QED  BY <2>4, <4>1
      <3>. QED  BY <2>1, <2>3, <3>2, <3>3, <3>4 DEF ThreadsInv
    <2>5. CASE /\ s = Own /\ run.stage = "skill" /\ run' = NextStep(outcome = "ok")
               /\ thread' = IF run'.stage = "release"
                            THEN [thread EXCEPT ![<<s, "skill">>] = Idle, ![<<s, "release">>] = Running("detach")]
                            ELSE [thread EXCEPT ![<<s, "skill">>] = Idle]
      <3>1. run'.stage \in {"steps", "release", "report"}
        <4>1. Len(calls.calls) \in Nat /\ (outcome = "ok") \in BOOLEAN
          BY <2>5, StepIs
        <4>. QED  BY <2>1, <2>5, <4>1, NextStepIs
      <3>2. /\ thread'[<<s, "skill">>].at = "none"
            /\ \A x \in Sessions : x # s => thread'[<<x, "skill">>] = thread[<<x, "skill">>]
            /\ \A x \in Sessions : x # s => thread'[<<x, "release">>] = thread[<<x, "release">>]
            /\ run'.stage # "release" => thread'[<<s, "release">>] = thread[<<s, "release">>]
        BY <1>0, <2>5 DEF Roles, Idle
      <3>3. \A x \in Sessions : thread[<<x, "release">>].at = "none"
        BY <2>5 DEF ThreadsInv
      <3>4. "timeout" \notin excuses'[Own]
        BY <2>1, <2>5 DEF ThreadsInv
      <3>5. \A x \in Sessions : thread'[<<x, "release">>].at # "none" => x = Own' /\ run'.stage = "release"
        <4>1. ASSUME NEW x \in Sessions, thread'[<<x, "release">>].at # "none"
              PROVE  x = s
          BY <3>2, <3>3, <4>1, Zenon
        <4>2. ASSUME run'.stage # "release"
              PROVE  thread'[<<s, "release">>].at = "none"
          BY <3>2, <3>3, <4>2
        <4>. QED  BY <2>1, <2>5, <4>1, <4>2
      <3>6. \A x \in Sessions : thread'[<<x, "skill">>].at # "none" => "timeout" \in excuses'[x]
        BY <2>1, <2>5, <3>2 DEF ThreadsInv
      <3>. QED  BY <2>1, <2>3, <3>1, <3>4, <3>5, <3>6 DEF ThreadsInv
    <2>. QED  BY <1>7, <2>4, <2>5, SkillEndsIs, Zenon
  <1>8. ASSUME NEW s \in Sessions, NEW role \in Roles, Emit(s, role) \/ WriteLine(s, role),
               UNCHANGED <<vars, phase>>
        PROVE  ThreadsInv'
    <2>1. /\ UNCHANGED <<run, attached, excuses, calls>> /\ Own' = Own
          /\ thread[<<s, role>>].at # "none"
          /\ thread'[<<s, role>>].tool = thread[<<s, role>>].tool
          /\ \A t \in Threads : t # <<s, role>> => thread'[t] = thread[t]
      BY <1>8, EmitIs, WriteLineIs, OwnKept
    <2>2. \A t \in Threads : /\ thread'[t].at # "none" => thread[t].at # "none"
                             /\ thread'[t].tool = thread[t].tool
      BY <2>1
    <2>3. Step' = Step
      BY <2>1 DEF Step
    <2>4. run.stage = "skill" => Own \in Sessions
      BY StepIs
    <2>. QED  BY <1>0, <2>1, <2>2, <2>3, <2>4 DEF ThreadsInv, Roles
  <1>9. CASE Quits \/ Killed
    <2>1. /\ run'.stage = "idle" /\ Own' = Own /\ thread' = [t \in Threads |-> Idle]
          /\ attached' = [s \in Sessions |-> FALSE] /\ UNCHANGED excuses
      BY <1>9, EndsIs DEF Resting, vars, Own
    <2>2. \A t \in Threads : thread'[t].at = "none"
      BY <2>1 DEF Idle
    <2>. QED  BY <1>0, <2>1, <2>2 DEF ThreadsInv, Roles
  <1>10. ASSUME UNCHANGED <<vars, phase>>,
                \/ \E s \in Sessions, outcome \in {"ok", "fail", "raise"} : SkillEnds(s, outcome)
                \/ \E s \in Sessions, role \in Roles : Emit(s, role) \/ WriteLine(s, role)
         PROVE  ThreadsInv'
    BY <1>7, <1>8, <1>10
  <1>. QED  BY <1>1, <1>2, <1>3, <1>4, <1>5, <1>6, <1>9, <1>10, StepKinds, Zenon

-----------------------------------------------------------------------------
(* The logs.                                                                 *)

(* Two threads of a session can write at most, if one of them timed out.     *)
LEMMA WritingIsFinite ==
  ASSUME NEW s
  PROVE  /\ IsFiniteSet(Writing(s)) /\ Cardinality(Writing(s)) \in Nat /\ Cardinality(Writing(s)) <= 2
         /\ ~({"skill", "release"} \subseteq Writing(s)) => Cardinality(Writing(s)) <= 1
  <1>1. /\ IsFiniteSet({}) /\ Cardinality({}) = 0
        /\ IsFiniteSet({"skill"}) /\ Cardinality({"skill"}) = 1
        /\ IsFiniteSet({"release"}) /\ Cardinality({"release"}) = 1
    BY FS_Singleton, FS_EmptySet
  <1>2. IsFiniteSet({"skill"} \cup {"release"}) /\ Cardinality({"skill"} \cup {"release"}) = 2
    BY <1>1, FS_AddElement
  <1>3. Writing(s) \in {{}, {"skill"}, {"release"}, {"skill"} \cup {"release"}}
    BY DEF Writing, Roles
  <1>4. CASE Writing(s) \in {{}, {"skill"}, {"release"}}
    BY <1>1, <1>4
  <1>5. CASE Writing(s) = {"skill"} \cup {"release"}
    BY <1>2, <1>5
  <1>. QED  BY <1>3, <1>4, <1>5

(* What LogInv says of a session depends on its own logs and threads.        *)
LEMMA LogKept ==
  ASSUME NEW s \in Sessions, LogInv(s), memory'[s] = memory[s], file'[s] = file[s], emitted'[s] = emitted[s],
         Writing(s)' = Writing(s), phase' = phase, "timeout" \in excuses[s] => "timeout" \in excuses'[s],
         emitted[s] \in Nat, Len(file[s]) \in Nat
  PROVE  LogInv(s)'
  BY DEF LogInv

(* An action is logged: it is in memory under the next number, and nowhere   *)
(* else.                                                                     *)
LEMMA LogEmit ==
  ASSUME SessionTypeOK, TurnsInv, NEW s \in Sessions, NEW role \in Roles, LogInv(s), Emit(s, role),
         UNCHANGED phase
  PROVE  LogInv(s)'
  <1>. DEFINE new == <<s, <<s, role>>, emitted[s] + 1>>
  <1>1. /\ UNCHANGED file /\ thread[<<s, role>>].at = "run" /\ thread'[<<s, role>>].at = "append"
        /\ \A t \in Threads : t # <<s, role>> => thread'[t] = thread[t]
        /\ memory' = [memory EXCEPT ![s] = Append(@, new)]
        /\ emitted' = [emitted EXCEPT ![s] = @ + 1]
    BY EmitIs
  <1>2. phase = "up"
    <2>1. <<s, role>> \in Threads
      BY DEF Threads
    <2>. QED  BY <1>1, <2>1 DEF TurnsInv
  <1>3. /\ memory[s] \in Seq(Entries) /\ file[s] \in Seq(Entries) /\ emitted[s] \in Nat
        /\ Len(memory[s]) = emitted[s] /\ Len(file[s]) + Cardinality(Writing(s)) = emitted[s]
        /\ \A i \in DOMAIN memory[s] : memory[s][i][1] = s /\ memory[s][i][3] = i
        /\ \A i \in DOMAIN file[s] : file[s][i][1] = s /\ file[s][i][3] <= emitted[s]
        /\ IsInjective(file[s])
    BY <1>2 DEF LogInv, SessionTypeOK
  <1>4. /\ memory'[s] = Append(memory[s], new) /\ emitted'[s] = emitted[s] + 1 /\ file'[s] = file[s]
    BY <1>1 DEF SessionTypeOK
  <1>. HIDE DEF new
  <1>5. /\ Len(memory'[s]) = emitted'[s] /\ DOMAIN memory'[s] = 1..(emitted[s] + 1)
        /\ DOMAIN memory[s] = 1..emitted[s]
        /\ memory'[s][emitted[s] + 1] = new /\ \A i \in DOMAIN memory[s] : memory'[s][i] = memory[s][i]
    BY <1>3, <1>4
  <1>6. new[1] = s /\ new[2] = <<s, role>> /\ new[3] = emitted[s] + 1
    BY DEF new
  <1>7. \A i \in DOMAIN memory'[s] : memory'[s][i][1] = s /\ memory'[s][i][3] = i
    BY <1>3, <1>5, <1>6
  <1>8. \A i \in DOMAIN file'[s] : file'[s][i][1] = s /\ file'[s][i][3] <= emitted'[s]
    <2>. SUFFICES ASSUME NEW i \in DOMAIN file[s] PROVE file[s][i][1] = s /\ file[s][i][3] <= emitted[s] + 1
      BY <1>4
    <2>1. file[s][i] \in Entries
      BY <1>3
    <2>2. file[s][i][3] \in Nat
      BY <2>1 DEF Entries
    <2>. QED  BY <1>3, <2>2
  <1>9. Writing(s)' = Writing(s) \cup {role} /\ role \notin Writing(s)
    <2>1. \A r \in Roles : <<s, r>> \in Threads
      BY DEF Threads
    <2>. QED  BY <1>1, <2>1 DEF Writing
  <1>10. Cardinality(Writing(s)') = Cardinality(Writing(s)) + 1 /\ Cardinality(Writing(s)) \in Nat
    BY <1>9, WritingIsFinite, FS_AddElement, FS_CardinalityType
  <1>11. Len(file'[s]) + Cardinality(Writing(s)') = emitted'[s]
    <2>1. Len(file[s]) \in Nat
      BY <1>3
    <2>. QED  BY <1>3, <1>4, <1>10, <2>1
  <1>12. \A r \in Writing(s)' :
           \E i \in DOMAIN memory'[s] : /\ IsLast(memory'[s], <<s, r>>, i)
                                       /\ \A k \in DOMAIN file'[s] : file'[s][k] # memory'[s][i]
    <2>1. ASSUME NEW r \in Writing(s)
          PROVE  \E i \in DOMAIN memory'[s] : /\ IsLast(memory'[s], <<s, r>>, i)
                                             /\ \A k \in DOMAIN file'[s] : file'[s][k] # memory'[s][i]
      <3>1. PICK i \in DOMAIN memory[s] :
              IsLast(memory[s], <<s, r>>, i) /\ \A k \in DOMAIN file[s] : file[s][k] # memory[s][i]
        BY DEF LogInv
      <3>2. i \in DOMAIN memory'[s] /\ memory'[s][i] = memory[s][i]
        BY <1>3, <1>5
      <3>3. <<s, r>> # <<s, role>>
        BY <1>9
      <3>4. IsLast(memory'[s], <<s, r>>, i)
        <4>1. memory'[s][i][2] = <<s, r>>
          BY <3>1, <3>2 DEF IsLast
        <4>2. ASSUME NEW j \in DOMAIN memory'[s], memory'[s][j][2] = <<s, r>>
              PROVE  j <= i
          <5>1. j # emitted[s] + 1
            BY <1>5, <1>6, <3>3, <4>2
          <5>2. j \in DOMAIN memory[s] /\ memory[s][j][2] = <<s, r>>
            BY SMTT(30), <1>3, <1>5, <4>2, <5>1
          <5>. QED  BY <3>1, <5>2 DEF IsLast
        <4>. QED  BY <4>1, <4>2 DEF IsLast
      <3>. QED  BY <1>4, <3>1, <3>2, <3>4
    <2>2. /\ IsLast(memory'[s], <<s, role>>, emitted[s] + 1) /\ emitted[s] + 1 \in DOMAIN memory'[s]
          /\ \A k \in DOMAIN file'[s] : file'[s][k] # memory'[s][emitted[s] + 1]
      <3>1. IsLast(memory'[s], <<s, role>>, emitted[s] + 1)
        BY <1>3, <1>5, <1>6 DEF IsLast
      <3>2. \A k \in DOMAIN file[s] : file[s][k] # new
        BY <1>3, <1>6
      <3>. QED  BY <1>3, <1>4, <1>5, <3>1, <3>2
    <2>. QED  BY <1>9, <2>1, <2>2
  <1>13. phase' # "gone" /\ Len(memory'[s]) <= emitted'[s]
    BY <1>2, <1>3, <1>4, <1>5
  <1>. QED  BY <1>3, <1>4, <1>5, <1>7, <1>8, <1>11, <1>12, <1>13 DEF LogInv

(* The line of an action that was being written is in the file.              *)
LEMMA LogWriteLine ==
  ASSUME SessionTypeOK, TurnsInv, NEW s \in Sessions, NEW role \in Roles, \A x \in Sessions : LogInv(x),
         WriteLine(s, role), UNCHANGED phase
  PROVE  LogInv(s)'
  <1>1. PICK i \in DOMAIN memory[s] :
          /\ IsLast(memory[s], <<s, role>>, i) /\ \A k \in DOMAIN file[s] : file[s][k] # memory[s][i]
          /\ file' = [file EXCEPT ![s] = Append(@, memory[s][i])]
    BY WriteLineIs
  <1>2. /\ UNCHANGED <<memory, emitted>> /\ thread[<<s, role>>].at = "append" /\ thread'[<<s, role>>].at = "run"
        /\ \A t \in Threads : t # <<s, role>> => thread'[t] = thread[t]
    BY WriteLineIs
  <1>3. phase = "up"
    <2>1. <<s, role>> \in Threads
      BY DEF Threads
    <2>. QED  BY <1>2, <2>1 DEF TurnsInv
  <1>4. /\ memory[s] \in Seq(Entries) /\ file[s] \in Seq(Entries) /\ emitted[s] \in Nat
        /\ Len(memory[s]) = emitted[s] /\ Len(file[s]) + Cardinality(Writing(s)) = emitted[s]
        /\ \A j \in DOMAIN memory[s] : memory[s][j][1] = s /\ memory[s][j][3] = j
        /\ \A j \in DOMAIN file[s] : file[s][j][1] = s /\ file[s][j][3] <= emitted[s]
        /\ IsInjective(file[s])
    BY <1>3 DEF LogInv, SessionTypeOK
  <1>. DEFINE line == memory[s][i]
  <1>5. line[1] = s /\ line[2] = <<s, role>> /\ line[3] = i /\ i \in Nat /\ i <= emitted[s] /\ line \in Entries
    BY <1>1, <1>4 DEF IsLast
  <1>6. file'[s] = Append(file[s], line)
    BY <1>1 DEF SessionTypeOK
  <1>. HIDE DEF line
  <1>7. /\ Len(file[s]) \in Nat /\ Len(file'[s]) = Len(file[s]) + 1
        /\ DOMAIN file[s] = 1..Len(file[s]) /\ DOMAIN file'[s] = 1..(Len(file[s]) + 1)
        /\ file'[s][Len(file[s]) + 1] = line /\ \A k \in DOMAIN file[s] : file'[s][k] = file[s][k]
    BY <1>4, <1>5, <1>6
  <1>8. \A k \in DOMAIN file'[s] : file'[s][k][1] = s /\ file'[s][k][3] <= emitted'[s]
    BY SMTT(30), <1>2, <1>4, <1>5, <1>7
  <1>9. IsInjective(file'[s])
    <2>1. \A k \in DOMAIN file[s] : file[s][k] # line
      BY <1>1 DEF line
    <2>2. SUFFICES ASSUME NEW a \in DOMAIN file'[s], NEW b \in DOMAIN file'[s], file'[s][a] = file'[s][b]
                   PROVE  a = b
      BY DEF IsInjective
    <2>3. CASE a \in DOMAIN file[s] /\ b \in DOMAIN file[s]
      BY <1>4, <1>7, <2>2, <2>3 DEF IsInjective
    <2>4. CASE a = Len(file[s]) + 1 \/ b = Len(file[s]) + 1
      BY <1>7, <2>1, <2>2, <2>4
    <2>. QED  BY <1>7, <2>3, <2>4
  <1>10. Writing(s)' = Writing(s) \ {role} /\ role \in Writing(s)
    <2>1. \A r \in Roles : <<s, r>> \in Threads
      BY DEF Threads
    <2>. QED  BY <1>2, <2>1 DEF Writing
  <1>11. Cardinality(Writing(s)') = Cardinality(Writing(s)) - 1 /\ Cardinality(Writing(s)) \in Nat
    BY <1>10, WritingIsFinite, FS_RemoveElement, FS_CardinalityType
  <1>12. Len(file'[s]) + Cardinality(Writing(s)') = emitted'[s]
    <2>1. emitted'[s] = emitted[s]
      BY <1>2
    <2>2. Len(file[s]) + Cardinality(Writing(s)) = emitted[s]
      BY <1>4
    <2>. QED  BY <1>7, <1>11, <2>1, <2>2
  <1>13. ASSUME NEW r \in Writing(s)'
         PROVE  \E k \in DOMAIN memory'[s] : /\ IsLast(memory'[s], <<s, r>>, k)
                                            /\ \A j \in DOMAIN file'[s] : file'[s][j] # memory'[s][k]
    <2>1. r \in Writing(s) /\ r # role
      BY <1>10
    <2>2. PICK k \in DOMAIN memory[s] :
            IsLast(memory[s], <<s, r>>, k) /\ \A j \in DOMAIN file[s] : file[s][j] # memory[s][k]
      BY <2>1 DEF LogInv
    <2>3. memory[s][k] # line
      <3>1. memory[s][k][2] = <<s, r>>
        BY <2>2 DEF IsLast
      <3>. QED  BY <1>5, <2>1, <3>1
    <2>4. \A j \in DOMAIN file'[s] : file'[s][j] # memory[s][k]
      BY <1>7, <2>2, <2>3
    <2>. QED  BY <1>2, <2>2, <2>4
  <1>14. memory'[s] = memory[s] /\ emitted'[s] = emitted[s] /\ phase' = phase
    BY <1>2
  <1>. QED  BY <1>3, <1>4, <1>8, <1>9, <1>12, <1>13, <1>14 DEF LogInv

(* Every step keeps the logs whole.                                          *)
LEMMA LogNext ==
  ASSUME TypeOK, SessionTypeOK, TurnsInv, ThreadsInv, \A s \in Sessions : LogInv(s),
         pc # "idle" => Len(records) < MaxSessions, [SessionNext]_<<vars, sessionVars>>
  PROVE  \A s \in Sessions : LogInv(s)'
  <1>. TAKE s \in Sessions
  <1>0. /\ thread \in [Threads -> ThreadState] /\ excuses \in [Sessions -> SUBSET Excuses]
        /\ memory[s] \in Seq(Entries) /\ file[s] \in Seq(Entries) /\ emitted[s] \in Nat
        /\ Len(file[s]) \in Nat /\ Len(memory[s]) \in Nat
        /\ \A x \in Sessions, r \in Roles : <<x, r>> \in Threads
    BY DEF SessionTypeOK, Threads
  <1>1. ASSUME UNCHANGED <<memory, file, emitted, phase>>,
               \A r \in Roles : thread'[<<s, r>>].at = "append" <=> thread[<<s, r>>].at = "append",
               "timeout" \in excuses[s] => "timeout" \in excuses'[s]
        PROVE  LogInv(s)'
    <2>1. Writing(s)' = Writing(s)
      BY <1>1 DEF Writing
    <2>. QED  BY <1>0, <1>1, <2>1, LogKept
  <1>2. CASE QuietStep
    <2>1. UNCHANGED <<thread, excuses, memory, file, emitted>>
      BY <1>2, QuietKeeps DEF runVars
    <2>2. CASE phase' = phase
      BY <1>1, <2>1, <2>2
    <2>3. CASE phase' # phase
      <3>1. phase \in {"start", "preflight"}
        BY <1>2, <2>3, QuietKeeps
      <3>2. Writing(s) = {} /\ Writing(s)' = {}
        BY <1>0, <2>1, <3>1 DEF TurnsInv, Writing
      <3>3. Cardinality({}) = 0
        BY FS_EmptySet
      <3>4. Len(memory[s]) = emitted[s] /\ Len(file[s]) = emitted[s]
        <4>1. Len(memory[s]) = emitted[s] /\ Len(file[s]) + Cardinality(Writing(s)) = emitted[s]
          BY <3>1 DEF LogInv
        <4>. QED  BY <1>0, <3>2, <3>3, <4>1
      <3>5. /\ memory'[s] = memory[s] /\ file'[s] = file[s] /\ emitted'[s] = emitted[s]
            /\ Len(file'[s]) + Cardinality(Writing(s)') = emitted'[s]
            /\ emitted'[s] - Len(file'[s]) = 0
        BY <1>0, <2>1, <3>2, <3>3, <3>4
      <3>. QED  BY <1>0, <3>2, <3>4, <3>5 DEF LogInv
    <2>. QED  BY <2>2, <2>3
  <1>3. CASE Accepted
    <2>1. /\ UNCHANGED <<phase, thread, memory, file, emitted>> /\ Own \in Nat
          /\ excuses' = [excuses EXCEPT ![Own + 1] = IF Keeps(calls.calls) THEN {"plan"} ELSE {}]
      BY <1>3, AcceptedIs DEF TypeOK, Own
    <2>2. s # Own + 1 => excuses'[s] = excuses[s]
      BY <1>0, <2>1
    <2>3. s = Own + 1 => excuses[s] = {}
      BY <2>1 DEF ThreadsInv
    <2>. QED  BY <1>1, <2>1, <2>2, <2>3
  <1>4. CASE UNCHANGED <<vars, phase>> /\ (BlockCall \/ SkillTimesOut)
    <2>1. /\ UNCHANGED <<memory, file, emitted>> /\ run.stage \in {"steps", "skill"}
          /\ \/ thread' = thread
             \/ thread' = [thread EXCEPT ![<<Own, "release">>] = Running("detach")]
          /\ excuses' = excuses \/ excuses' = [excuses EXCEPT ![Own] = @ \cup {"timeout"}]
      BY <1>4, FailingStep
    <2>2. excuses[s] \subseteq excuses'[s]
      <3>1. "timeout" \in Excuses
        BY DEF Excuses
      <3>2. CASE excuses' = [excuses EXCEPT ![Own] = @ \cup {"timeout"}]
        BY <1>0, <3>1, <3>2, ExcuseAdded
      <3>. QED  BY <2>1, <3>2
    <2>3. thread[<<s, "release">>].at = "none"
      BY <2>1 DEF ThreadsInv
    <2>4. Running("detach").at = "run"
      BY RunningIs DEF ToolNames
    <2>5. \A r \in Roles : thread'[<<s, r>>].at = "append" <=> thread[<<s, r>>].at = "append"
      BY <1>0, <2>1, <2>3, <2>4 DEF Roles
    <2>. QED  BY <1>1, <1>4, <2>1, <2>2, <2>5
  <1>5. CASE UNCHANGED <<vars, phase>> /\ StartSkill
    <2>1. /\ UNCHANGED <<excuses, memory, file, emitted>> /\ run.stage = "steps" /\ Step.tool \in ToolNames
          /\ thread' = [thread EXCEPT ![<<Own, "skill">>] = Running(Step.tool)] /\ Own \in Sessions
      BY <1>5, StartSkillIs
    <2>2. thread[<<Own, "skill">>].at = "none" /\ Running(Step.tool).at = "run"
      BY <2>1, RunningIs DEF ThreadsInv
    <2>3. \A r \in Roles : thread'[<<s, r>>].at = "append" <=> thread[<<s, r>>].at = "append"
      BY <1>0, <2>1, <2>2 DEF Roles
    <2>. QED  BY <1>1, <1>5, <2>1, <2>3
  <1>6. CASE UNCHANGED <<vars, phase>> /\ (WriteReport \/ Export)
    BY <1>1, <1>6, ReportIs
  <1>7. CASE UNCHANGED <<vars, phase>> /\ \E outcome \in {"ok", "fail", "raise"} : ReleaseEnds(outcome)
    <2>1. /\ UNCHANGED <<memory, file, emitted>>
          /\ thread[<<Own, "release">>].at = "run" /\ thread' = [thread EXCEPT ![<<Own, "release">>] = Idle]
          /\ excuses' = excuses \/ excuses' = [excuses EXCEPT ![Own] = @ \cup {"release"}]
      BY <1>7, ReleaseEndsIs
    <2>2. excuses[s] \subseteq excuses'[s]
      <3>1. "release" \in Excuses
        BY DEF Excuses
      <3>2. CASE excuses' = [excuses EXCEPT ![Own] = @ \cup {"release"}]
        BY <1>0, <3>1, <3>2, ExcuseAdded
      <3>. QED  BY <2>1, <3>2
    <2>3. \A r \in Roles : thread'[<<s, r>>].at = "append" <=> thread[<<s, r>>].at = "append"
      BY <1>0, <2>1 DEF Roles, Idle
    <2>. QED  BY <1>1, <1>7, <2>1, <2>2, <2>3
  <1>8. ASSUME NEW x \in Sessions, NEW outcome \in {"ok", "fail", "raise"}, SkillEnds(x, outcome),
               UNCHANGED <<vars, phase>>
        PROVE  LogInv(s)'
    <2>1. /\ UNCHANGED <<memory, file, emitted>> /\ thread[<<x, "skill">>].at = "run"
          /\ excuses[s] \subseteq excuses'[s]
          /\ \/ /\ run.stage = "skill"
                /\ thread' = [thread EXCEPT ![<<x, "skill">>] = Idle, ![<<x, "release">>] = Running("detach")]
             \/ thread' = [thread EXCEPT ![<<x, "skill">>] = Idle]
      BY <1>8, SkillEndsIs, Zenon
    <2>2. Running("detach").at = "run" /\ Idle.at = "none"
      BY RunningIs DEF ToolNames, Idle
    <2>3. run.stage = "skill" => thread[<<x, "release">>].at = "none"
      BY DEF ThreadsInv
    <2>4. \A r \in Roles : thread'[<<s, r>>].at = "append" <=> thread[<<s, r>>].at = "append"
      BY <1>0, <2>1, <2>2, <2>3 DEF Roles
    <2>. QED  BY <1>1, <1>8, <2>1, <2>4
  <1>9. ASSUME NEW x \in Sessions, NEW role \in Roles, Emit(x, role) \/ WriteLine(x, role),
               UNCHANGED <<vars, phase>>
        PROVE  LogInv(s)'
    <2>1. CASE x = s
      BY <1>9, <2>1, LogEmit, LogWriteLine
    <2>2. CASE x # s
      <3>1. /\ UNCHANGED excuses /\ \A t \in Threads : t # <<x, role>> => thread'[t] = thread[t]
            /\ memory'[s] = memory[s] /\ file'[s] = file[s] /\ emitted'[s] = emitted[s]
        <4>1. CASE Emit(x, role)
          <5>1. /\ UNCHANGED <<excuses, file>> /\ \A t \in Threads : t # <<x, role>> => thread'[t] = thread[t]
                /\ memory' = [memory EXCEPT ![x] = Append(@, <<x, <<x, role>>, emitted[x] + 1>>)]
                /\ emitted' = [emitted EXCEPT ![x] = @ + 1]
            BY <4>1, EmitIs
          <5>. QED  BY <2>2, <5>1 DEF SessionTypeOK
        <4>2. CASE WriteLine(x, role)
          <5>1. /\ UNCHANGED <<excuses, memory, emitted>>
                /\ \A t \in Threads : t # <<x, role>> => thread'[t] = thread[t]
                /\ \E i \in DOMAIN memory[x] : file' = [file EXCEPT ![x] = Append(@, memory[x][i])]
            BY <4>2, WriteLineIs
          <5>. QED  BY <2>2, <5>1 DEF SessionTypeOK
        <4>. QED  BY <1>9, <4>1, <4>2
      <3>2. Writing(s)' = Writing(s)
        BY <1>0, <2>2, <3>1 DEF Writing
      <3>. QED  BY <1>0, <1>9, <3>1, <3>2, LogKept
    <2>. QED  BY <2>1, <2>2
  <1>10. CASE Quits \/ Killed
    <2>1. /\ phase = "up" /\ phase' = "gone" /\ thread' = [t \in Threads |-> Idle]
          /\ memory' = [x \in Sessions |-> <<>>] /\ UNCHANGED <<excuses, emitted>>
          /\ \/ (\A t \in Threads : thread[t] = Idle) /\ file' = file
             \/ Killed
      BY <1>10, EndsIs
    <2>2. memory'[s] = <<>> /\ Len(memory'[s]) = 0 /\ DOMAIN memory'[s] = {}
      BY <2>1
    <2>3. Writing(s)' = {}
      BY <1>0, <2>1 DEF Writing, Idle
    <2>4. /\ Len(memory[s]) = emitted[s] /\ Len(file[s]) + Cardinality(Writing(s)) = emitted[s]
          /\ \A i \in DOMAIN memory[s] : memory[s][i][1] = s /\ memory[s][i][3] = i
          /\ \A i \in DOMAIN file[s] : file[s][i][1] = s /\ file[s][i][3] <= emitted[s]
          /\ IsInjective(file[s])
      BY <2>1 DEF LogInv
    <2>5. /\ Len(file'[s]) \in Nat /\ Len(file'[s]) >= Len(file[s]) /\ IsInjective(file'[s])
          /\ \A i \in DOMAIN file'[s] : file'[s][i][1] = s /\ file'[s][i][3] <= emitted[s]
      <3>1. CASE file' = file
        BY <1>0, <2>4, <3>1
      <3>2. CASE Killed
        <4>1. /\ Len(file'[s]) \in Nat /\ Len(file'[s]) >= Len(file[s]) /\ IsInjective(file'[s])
              /\ \A i \in DOMAIN file'[s] :
                   \/ i \in DOMAIN file[s] /\ file'[s][i] = file[s][i]
                   \/ \E k \in DOMAIN memory[s] : file'[s][i] = memory[s][k]
          BY <3>2, KilledIs
        <4>2. \A k \in DOMAIN memory[s] : memory[s][k][1] = s /\ memory[s][k][3] <= emitted[s]
          BY <1>0, <2>4
        <4>. QED  BY <2>4, <4>1, <4>2
      <3>. QED  BY <2>1, <3>1, <3>2
    <2>6. Cardinality(Writing(s)) \in Nat /\ Cardinality(Writing(s)) <= IF "timeout" \in excuses[s] THEN 2 ELSE 1
      <3>1. {"skill", "release"} \subseteq Writing(s) => "timeout" \in excuses[s]
        BY DEF ThreadsInv, Writing
      <3>. QED  BY <3>1, WritingIsFinite
    <2>7. emitted'[s] - Len(file'[s]) <= IF "timeout" \in excuses'[s] THEN 2 ELSE 1
      BY <1>0, <2>1, <2>4, <2>5, <2>6
    <2>8. \A i \in DOMAIN file'[s] : file'[s][i][1] = s /\ file'[s][i][3] <= emitted'[s]
      BY <2>1, <2>5
    <2>9. Len(memory'[s]) <= emitted'[s]
      BY <1>0, <2>1, <2>2
    <2>. QED  BY <2>1, <2>2, <2>3, <2>5, <2>7, <2>8, <2>9 DEF LogInv
  <1>11. ASSUME UNCHANGED <<vars, phase>>,
                \/ \E x \in Sessions, outcome \in {"ok", "fail", "raise"} : SkillEnds(x, outcome)
                \/ \E x \in Sessions, role \in Roles : Emit(x, role) \/ WriteLine(x, role)
         PROVE  LogInv(s)'
    BY <1>8, <1>9, <1>11
  <1>. QED  BY <1>2, <1>3, <1>4, <1>5, <1>6, <1>7, <1>10, <1>11, StepKinds, Zenon

-----------------------------------------------------------------------------
(* The handle.                                                               *)

(* A skill that went well moves the handle as the session believes it did,   *)
(* for its precondition kept it from running where the two would part.       *)
LEMMA HandleMoved ==
  ASSUME SessionTypeOK, TurnsInv, ThreadsInv, HandleKnown, run.stage = "skill",
         NEW outcome \in {"ok", "fail", "raise"}, SkillEnds(Own, outcome), excuses'[Own] = {}
  PROVE  /\ welded' <=> attached'[Own]
         /\ outcome = "ok" =>
              (attached'[Own] <=> Step.tool = "attach_handle" \/ (attached[Own] /\ Step.tool # "detach"))
         /\ outcome # "ok" => (attached'[Own] <=> attached[Own])
  <1>. DEFINE tool == Step.tool
              was == attached[Own]
              moved == IF tool = "attach_handle" THEN TRUE ELSE IF tool \in {"detach", "pick_up"} THEN FALSE ELSE welded
  <1>1. Own \in Sessions /\ excuses[Own] \in SUBSET Excuses /\ was \in BOOLEAN /\ welded \in BOOLEAN
    BY StepIs DEF SessionTypeOK
  <1>2. thread[<<Own, "skill">>].tool = tool
    BY DEF ThreadsInv
  <1>3. /\ welded' \in HandleAfter(tool, outcome)
        /\ attached' = AttachedAfter(Own, tool, outcome)
        /\ excuses' = [excuses EXCEPT ![Own] = IF outcome = "raise" /\ welded' # attached'[Own] THEN @ \cup {"raise"} ELSE @]
    BY <1>2, Zenon DEF SkillEnds
  <1>4. welded = was /\ ~Blocked(tool, was)
    <2>1. (welded <=> was) /\ ~Blocked(tool, was)
      BY Zenon DEF HandleKnown
    <2>2. \A a, b \in BOOLEAN : (a <=> b) => a = b
      OBVIOUS
    <2>. QED  BY <1>1, <2>1, <2>2, Zenon
  <1>. HIDE DEF tool, was
  <1>5. CASE outcome = "ok"
    <2>1. welded' = moved
      BY <1>3, <1>5 DEF HandleAfter
    <2>2. attached'[Own] = IF tool = "attach_handle" THEN TRUE ELSE IF tool = "detach" THEN FALSE ELSE was
      <3>1. CASE tool \notin {"attach_handle", "detach"}
        <4>1. attached' = attached
          BY <1>3, <1>5, <3>1, Zenon DEF AttachedAfter
        <4>. QED  BY <3>1, <4>1 DEF was
      <3>2. CASE tool \in {"attach_handle", "detach"}
        <4>. DEFINE v == tool = "attach_handle"
        <4>1. attached' = [attached EXCEPT ![Own] = v]
          BY <1>3, <1>5, <3>2, Zenon DEF AttachedAfter
        <4>2. attached'[Own] = v
          <5>. HIDE DEF v
          <5>. QED  BY <1>1, <4>1 DEF SessionTypeOK
        <4>. QED  BY <3>2, <4>2
      <3>. QED  BY <3>1, <3>2
    <2>3. tool = "pick_up" => ~was
      BY <1>4 DEF Blocked
    <2>4. welded' <=> attached'[Own]
      BY <1>4, <2>1, <2>2, <2>3
    <2>5. attached'[Own] <=> tool = "attach_handle" \/ (was /\ tool # "detach")
      BY <1>1, <2>2
    <2>. QED  BY <1>5, <2>4, <2>5 DEF tool, was
  <1>6. CASE outcome # "ok"
    <2>1. attached' = attached
      BY <1>3, <1>6, Zenon DEF AttachedAfter
    <2>2. welded' <=> attached'[Own]
      <3>1. CASE outcome = "fail"
        <4>1. welded' = welded
          BY <1>3, <3>1 DEF HandleAfter
        <4>. QED  BY <1>4, <2>1, <4>1 DEF was
      <3>2. CASE outcome = "raise"
        <4>1. welded' # attached'[Own] => excuses'[Own] = excuses[Own] \cup {"raise"}
          BY <1>1, <1>3, <3>2 DEF SessionTypeOK
        <4>. QED  BY <4>1
      <3>. QED  BY <1>6, <3>1, <3>2
    <2>. QED  BY <1>6, <2>1, <2>2
  <1>. QED  BY <1>5, <1>6

(* What the plan holds after one more step.                                  *)
LEMMA HoldsOneMore ==
  ASSUME NEW held, NEW n \in Nat, n >= 1,
         held <=> Step.tool = "attach_handle" \/ (HoldsUpTo(n) /\ Step.tool # "detach"),
         Step = calls.calls[n], held
  PROVE  HoldsUpTo(n + 1)
  <1>1. CASE Step.tool = "attach_handle"
    <2>1. n \in 1..n /\ \A j \in (n + 1)..n : calls.calls[j].tool # "detach"
      OBVIOUS
    <2>. QED  BY <1>1, <2>1 DEF HoldsUpTo
  <1>2. CASE HoldsUpTo(n) /\ Step.tool # "detach"
    <2>1. PICK i \in 1..(n - 1) : /\ calls.calls[i].tool = "attach_handle"
                                  /\ \A j \in (i + 1)..(n - 1) : calls.calls[j].tool # "detach"
      BY <1>2 DEF HoldsUpTo
    <2>2. \A j \in (i + 1)..n : calls.calls[j].tool # "detach"
      BY <1>2, <2>1
    <2>. QED  BY <2>1, <2>2 DEF HoldsUpTo
  <1>. QED  BY <1>1, <1>2

(* Every step keeps robot, session and plan in agreement.                    *)
LEMMA HandleNext ==
  ASSUME TypeOK, SessionTypeOK, TurnsInv, ThreadsInv, HandleInv,
         pc # "idle" => Len(records) < MaxSessions, [SessionNext]_<<vars, sessionVars>>
  PROVE  HandleInv'
  <1>0. SUFFICES ASSUME phase' # "gone", ~Excused' PROVE HandleKnown'
    BY DEF HandleInv
  <1>a. /\ attached \in [Sessions -> BOOLEAN] /\ welded \in BOOLEAN /\ excuses \in [Sessions -> SUBSET Excuses]
        /\ \A s \in Sessions : excuses'[s] = {}
        /\ run \in RunStates
    BY <1>0 DEF SessionTypeOK, Excused, RunStates
  <1>b. ASSUME phase # "gone", \A s \in Sessions : excuses[s] \subseteq excuses'[s]
        PROVE  HandleKnown
    BY <1>a, <1>b DEF HandleInv, Excused
  <1>1. CASE QuietStep
    <2>1. UNCHANGED <<run, attached, welded, excuses>>
      BY <1>1, QuietKeeps DEF runVars
    <2>2. run.stage # "idle" => calls' = calls /\ Own' = Own
      BY <1>1, QuietKeeps DEF Own
    <2>3. HandleKnown
      <3>1. phase # "gone"
        BY <1>0, <1>1, QuietKeeps
      <3>. QED  BY <1>b, <2>1, <3>1
    <2>4. CASE run.stage = "idle"
      BY <2>1, <2>3, <2>4 DEF HandleKnown
    <2>5. CASE run.stage # "idle"
      <3>1. Step' = Step
        BY <2>1, <2>2, <2>5 DEF Step
      <3>. QED  BY <2>1, <2>2, <2>3, <2>5, <3>1 DEF HandleKnown, HoldsUpTo
    <2>. QED  BY <2>4, <2>5
  <1>2. CASE Accepted
    <2>1. /\ UNCHANGED <<calls, attached, welded>> /\ phase = "up" /\ run.stage = "idle"
          /\ Own' = Own + 1 /\ Own + 1 \in Sessions /\ Own \in Nat /\ run'.stage = "steps"
          /\ excuses' = [excuses EXCEPT ![Own + 1] = IF Keeps(calls.calls) THEN {"plan"} ELSE {}]
      BY <1>2, AcceptedIs DEF Own, TypeOK
    <2>2. ~Keeps(calls.calls)
      <3>1. excuses'[Own + 1] = IF Keeps(calls.calls) THEN {"plan"} ELSE {}
        BY <1>a, <2>1
      <3>2. excuses'[Own + 1] = {}
        BY <1>a, <2>1
      <3>. QED  BY <3>1, <3>2
    <2>3. excuses[Own + 1] = {} /\ ~attached[Own + 1]
      BY <2>1 DEF ThreadsInv
    <2>4. \A s \in Sessions : excuses[s] \subseteq excuses'[s]
      BY <1>a, <2>1, <2>3
    <2>5. ~welded
      BY <1>b, <2>1, <2>4 DEF HandleKnown
    <2>. QED  BY <2>1, <2>2, <2>3, <2>5 DEF HandleKnown
  <1>3. CASE UNCHANGED <<vars, phase>> /\ (BlockCall \/ SkillTimesOut)
    <2>1. /\ run.stage \in {"steps", "skill"} /\ Own' = Own /\ Own \in Sessions
          /\ run'.stage = IF attached[Own] THEN "release" ELSE "report"
          /\ UNCHANGED <<attached, welded, calls>>
          /\ excuses' = excuses \/ excuses' = [excuses EXCEPT ![Own] = @ \cup {"timeout"}]
      BY <1>3, FailingStep, StepIs, OwnKept
    <2>2. \A s \in Sessions : excuses[s] \subseteq excuses'[s]
      <3>1. "timeout" \in Excuses
        BY DEF Excuses
      <3>2. CASE excuses' = [excuses EXCEPT ![Own] = @ \cup {"timeout"}]
        BY <1>a, <3>1, <3>2, ExcuseAdded
      <3>. QED  BY <2>1, <3>2
    <2>3. HandleKnown
      BY <1>0, <1>3, <1>b, <2>2
    <2>4. (welded <=> attached[Own]) /\ ~Keeps(calls.calls)
      BY <2>1, <2>3 DEF HandleKnown
    <2>5. ~Keeps(calls.calls)'
      BY <2>1, <2>4 DEF Keeps
    <2>6. CASE attached[Own]
      <3>1. run'.stage = "release" /\ (welded' <=> attached'[Own'])
        BY <2>1, <2>4, <2>6
      <3>. QED  BY <2>5, <3>1 DEF HandleKnown
    <2>7. CASE ~attached[Own]
      <3>1. run'.stage = "report" /\ ~welded'
        BY <2>1, <2>4, <2>7
      <3>. QED  BY <2>5, <3>1 DEF HandleKnown
    <2>. QED  BY <2>6, <2>7
  <1>4. CASE UNCHANGED <<vars, phase>> /\ StartSkill
    <2>1. /\ UNCHANGED <<attached, welded, excuses, calls>> /\ Own' = Own
          /\ run.stage = "steps" /\ ~Blocked(Step.tool, attached[Own])
          /\ run'.stage = "skill" /\ run'.step = run.step
      BY <1>4, StartSkillIs, OwnKept
    <2>2. HandleKnown
      BY <1>0, <1>4, <1>b, <2>1
    <2>3. Step' = Step
      BY <2>1 DEF Step
    <2>4. ~Blocked(Step.tool, attached[Own])'
      BY <2>1, <2>3 DEF Blocked
    <2>. QED  BY <2>1, <2>2, <2>4 DEF HandleKnown, HoldsUpTo
  <1>5. CASE UNCHANGED <<vars, phase>> /\ (WriteReport \/ Export)
    <2>1. /\ UNCHANGED <<attached, welded, excuses>> /\ Own' = Own
          /\ \/ run.stage = "report" /\ run'.stage = "export" /\ UNCHANGED calls
             \/ run.stage = "export" /\ run'.stage = "idle"
      BY <1>5, ReportIs, OwnKept
    <2>2. HandleKnown
      BY <1>0, <1>5, <1>b, <2>1
    <2>. QED  BY <2>1, <2>2 DEF HandleKnown
  <1>6. CASE UNCHANGED <<vars, phase>> /\ \E outcome \in {"ok", "fail", "raise"} : ReleaseEnds(outcome)
    <2>1. /\ run.stage = "release" /\ Own \in Sessions /\ run'.stage = "report" /\ UNCHANGED calls
          /\ \/ excuses' = excuses /\ welded' = FALSE
             \/ excuses' = [excuses EXCEPT ![Own] = @ \cup {"release"}]
      BY <1>6, ReleaseEndsIs
    <2>2. excuses' = excuses /\ welded' = FALSE
      BY <1>a, <2>1
    <2>3. HandleKnown
      BY <1>0, <1>6, <1>b, <2>2
    <2>. QED  BY <2>1, <2>2, <2>3 DEF HandleKnown
  <1>7. ASSUME NEW s \in Sessions, NEW outcome \in {"ok", "fail", "raise"}, SkillEnds(s, outcome),
               UNCHANGED <<vars, phase>>
        PROVE  HandleKnown'
    <2>1. /\ UNCHANGED calls /\ Own' = Own /\ thread[<<s, "skill">>].at = "run"
          /\ attached' \in [Sessions -> BOOLEAN] /\ welded' \in BOOLEAN
          /\ \A x \in Sessions : excuses[x] \subseteq excuses'[x]
      BY <1>7, SkillEndsIs, OwnKept
    <2>2. HandleKnown
      BY <1>0, <1>7, <1>b, <2>1
    <2>3. s = Own /\ run.stage = "skill"
      <3>1. "timeout" \notin excuses[s]
        BY <1>a, <2>1
      <3>. QED  BY <2>1, <3>1 DEF ThreadsInv
    <2>4. run' = NextStep(outcome = "ok")
      BY <1>7, <2>3, SkillEndsIs, Zenon
    <2>5. /\ welded' <=> attached'[Own]
          /\ outcome = "ok" =>
               (attached'[Own] <=> Step.tool = "attach_handle" \/ (attached[Own] /\ Step.tool # "detach"))
      BY <1>7, <1>a, <2>2, <2>3, HandleMoved
    <2>6. /\ run.step \in 1..Len(calls.calls) /\ Len(calls.calls) \in Nat
          /\ DOMAIN calls.calls = 1..Len(calls.calls) /\ (outcome = "ok") \in BOOLEAN
      BY <2>3, StepIs
    <2>7. \/ outcome = "ok" /\ run.step < Len(calls.calls) /\ run'.stage = "steps" /\ run'.step = run.step + 1
          \/ outcome = "ok" /\ ~(run.step < Len(calls.calls)) /\ run'.stage = "report"
          \/ outcome # "ok" /\ ~attached'[Own] /\ run'.stage = "report"
          \/ outcome # "ok" /\ attached'[Own] /\ run'.stage = "release"
      BY <2>1, <2>3, <2>4, <2>6, NextStepIs
    <2>8. outcome = "ok" /\ attached'[Own] => HoldsUpTo(run.step + 1)
      <3>1. SUFFICES ASSUME outcome = "ok", attached'[Own] PROVE HoldsUpTo(run.step + 1)
        OBVIOUS
      <3>2. Step.tool = "attach_handle" \/ (HoldsUpTo(run.step) /\ Step.tool # "detach")
        BY <2>2, <2>3, <2>5, <3>1 DEF HandleKnown
      <3>. QED  BY <2>6, <3>2, HoldsOneMore DEF Step
    <2>9. ~Keeps(calls.calls) /\ ~Keeps(calls.calls)'
      BY <2>1, <2>2, <2>3 DEF HandleKnown, Keeps
    <2>10. CASE outcome = "ok" /\ run.step < Len(calls.calls) /\ run'.stage = "steps" /\ run'.step = run.step + 1
      <3>1. attached'[Own'] => HoldsUpTo(run.step)'
        BY <2>1, <2>8, <2>10 DEF HoldsUpTo
      <3>. QED  BY <2>1, <2>5, <2>9, <2>10, <3>1 DEF HandleKnown
    <2>11. CASE outcome = "ok" /\ ~(run.step < Len(calls.calls)) /\ run'.stage = "report"
      <3>1. ~attached'[Own]
        <4>1. SUFFICES ASSUME attached'[Own] PROVE FALSE
          OBVIOUS
        <4>2. run.step = Len(calls.calls) /\ HoldsUpTo(Len(calls.calls) + 1)
          BY <2>6, <2>8, <2>11, <4>1
        <4>3. Keeps(calls.calls)
          BY <2>6, <4>2 DEF HoldsUpTo, Keeps
        <4>. QED  BY <2>9, <4>3
      <3>. QED  BY <2>5, <2>9, <2>11, <3>1 DEF HandleKnown
    <2>12. CASE outcome # "ok" /\ ~attached'[Own] /\ run'.stage = "report"
      BY <2>5, <2>9, <2>12 DEF HandleKnown
    <2>13. CASE outcome # "ok" /\ attached'[Own] /\ run'.stage = "release"
      BY <2>1, <2>5, <2>9, <2>13 DEF HandleKnown
    <2>. QED  BY <2>7, <2>10, <2>11, <2>12, <2>13
  <1>8. ASSUME NEW s \in Sessions, NEW role \in Roles, Emit(s, role) \/ WriteLine(s, role),
               UNCHANGED <<vars, phase>>
        PROVE  HandleKnown'
    <2>1. UNCHANGED <<run, attached, welded, excuses, calls>> /\ Own' = Own
      BY <1>8, OwnKept DEF Emit, WriteLine, askVars
    <2>2. HandleKnown
      BY <1>0, <1>8, <1>b, <2>1
    <2>3. Step' = Step
      BY <2>1 DEF Step
    <2>. QED  BY <2>1, <2>2, <2>3 DEF HandleKnown, HoldsUpTo
  <1>9. CASE Quits \/ Killed
    BY <1>0, <1>9, EndsIs
  <1>10. ASSUME UNCHANGED <<vars, phase>>,
                \/ \E s \in Sessions, outcome \in {"ok", "fail", "raise"} : SkillEnds(s, outcome)
                \/ \E s \in Sessions, role \in Roles : Emit(s, role) \/ WriteLine(s, role)
         PROVE  HandleKnown'
    BY <1>7, <1>8, <1>10
  <1>. QED  BY <1>1, <1>2, <1>3, <1>4, <1>5, <1>6, <1>9, <1>10, StepKinds, Zenon

-----------------------------------------------------------------------------
(* What a session promises.                                                  *)
LEMMA SessionStarts == SessionInit => SessionInv
  <1>. SUFFICES ASSUME SessionInit PROVE SessionInv
    OBVIOUS
  <1>1. /\ phase = "start" /\ pc = "idle" /\ records = <<>> /\ run = Resting
        /\ thread = [t \in Threads |-> Idle]
        /\ attached = [s \in Sessions |-> FALSE] /\ welded = FALSE
        /\ memory = [s \in Sessions |-> <<>>] /\ file = memory
        /\ emitted = [s \in Sessions |-> 0] /\ excuses = [s \in Sessions |-> {}]
    BY DEF SessionInit, Init, Threads
  <1>2. run.stage = "idle" /\ run \in RunStates
    BY <1>1 DEF Resting, RunStates
  <1>3. \A t \in Threads : thread[t].at = "none"
    BY <1>1 DEF Idle
  <1>4. SessionTypeOK
    <2>1. thread \in [Threads -> ThreadState]
      BY <1>1, RunningIs
    <2>2. memory \in [Sessions -> Seq(Entries)] /\ file \in [Sessions -> Seq(Entries)]
      BY <1>1
    <2>3. excuses \in [Sessions -> SUBSET Excuses] /\ emitted \in [Sessions -> Nat]
          /\ attached \in [Sessions -> BOOLEAN] /\ welded \in BOOLEAN
      BY <1>1
    <2>. QED  BY <1>1, <1>2, <2>1, <2>2, <2>3 DEF SessionTypeOK, RunStates
  <1>5. TurnsInv
    BY <1>1, <1>2, <1>3 DEF TurnsInv
  <1>6. ThreadsInv
    BY <1>1, <1>2, <1>3 DEF ThreadsInv, Threads, Roles
  <1>7. ASSUME NEW s \in Sessions PROVE LogInv(s)
    <2>1. memory[s] = <<>> /\ file[s] = <<>> /\ emitted[s] = 0
      BY <1>1
    <2>2. Writing(s) = {}
      BY <1>3 DEF Writing, Threads
    <2>3. Cardinality({}) = 0
      BY FS_EmptySet
    <2>. QED  BY <1>1, <2>1, <2>2, <2>3 DEF LogInv, IsInjective
  <1>8. HandleInv
    BY <1>1, <1>2 DEF HandleInv, HandleKnown
  <1>. QED  BY <1>4, <1>5, <1>6, <1>7, <1>8 DEF SessionInv

(* The parse of a session is InstructionPlanner's, whatever is said, and     *)
(* whatever its plans do.                                                    *)
THEOREM SessionsPlan == SessionSpec => Spec
  <1>1. SessionInit => Init
    BY DEF SessionInit
  <1>2. [SessionNext]_<<vars, sessionVars>> => [Next]_vars
    BY SessionParses
  <1>. QED  BY <1>1, <1>2, PTL DEF SessionSpec, Spec

(* The inductive invariant of parse, execution, threads and log holds of     *)
(* every run, for any number of sessions, plans and actions, killed or not.  *)
THEOREM SessionInvariance == SessionSpec => []SessionInv
  <1>1. SessionInit => SessionInv
    BY SessionStarts
  <1>2. ASSUME IInv, SessionInv, [SessionNext]_<<vars, sessionVars>>
        PROVE  SessionInv'
    <2>1. TypeOK /\ (pc # "idle" => Len(records) < MaxSessions)
      BY <1>2 DEF IInv, PostsInv
    <2>2. SessionTypeOK /\ TurnsInv /\ ThreadsInv /\ HandleInv /\ \A s \in Sessions : LogInv(s)
      BY <1>2 DEF SessionInv
    <2>3. SessionTypeOK'
      BY <1>2, <2>1, <2>2, SessionTypeNext
    <2>4. TurnsInv' /\ ThreadsInv'
      BY <1>2, <2>1, <2>2, TurnsNext, ThreadsNext
    <2>5. \A s \in Sessions : LogInv(s)'
      BY <1>2, <2>1, <2>2, LogNext
    <2>6. HandleInv'
      BY <1>2, <2>1, <2>2, HandleNext
    <2>. QED  BY <2>3, <2>4, <2>5, <2>6 DEF SessionInv
  <1>3. IInv /\ SessionInv /\ [SessionNext]_<<vars, sessionVars>> => SessionInv'
    BY <1>2
  <1>. QED  BY <1>1, <1>3, SessionsPlan, Invariance, PTL DEF SessionSpec

(* Every variable of a session keeps its type.                               *)
THEOREM SessionTypeCorrect == SessionSpec => []SessionTypeOK
  <1>1. SessionInv => SessionTypeOK
    BY DEF SessionInv
  <1>. QED  BY <1>1, SessionInvariance, PTL

(* What run_session records of a plan's origin is true in a session that     *)
(* runs plans and logs, too.                                                 *)
THEOREM SessionTrailIsTrue == SessionSpec => []AuditTrailIsTrue
  <1>. QED  BY SessionsPlan, AuditTrailStaysTrue, PTL

(* Every session takes the robot for free: without an excuse, none before it *)
(* has left a handle in the gripper (_release_after_failure in execute).     *)
THEOREM RobotIsFree == SessionSpec => []NothingCarriedOver
  <1>1. SessionInv => NothingCarriedOver
    BY DEF SessionInv, HandleInv, HandleKnown, Excused, NothingCarriedOver
  <1>. QED  BY <1>1, SessionInvariance, PTL

(* DemoLogger's records of a session are its own, each action in the memory  *)
(* and in the file once, and a kill costs each thread one line at most.      *)
THEOREM LogsStayWhole == SessionSpec => []LogIsWhole
  <1>1. ASSUME SessionInv PROVE LogIsWhole
    <2>. SUFFICES ASSUME NEW s \in Sessions
                  PROVE  /\ OwnOnce(s, memory[s]) /\ OwnOnce(s, file[s])
                         /\ phase = "up" =>
                              /\ Len(memory[s]) = emitted[s]
                              /\ Len(file[s]) + Cardinality({r \in Roles : thread[<<s, r>>].at = "append"}) = emitted[s]
                         /\ phase = "gone" => emitted[s] - Len(file[s]) <= IF "timeout" \in excuses[s] THEN 2 ELSE 1
      BY DEF LogIsWhole
    <2>1. LogInv(s) /\ memory[s] \in Seq(Entries) /\ emitted[s] \in Nat
      BY <1>1 DEF SessionInv, SessionTypeOK
    <2>2. OwnOnce(s, file[s])
      BY <2>1 DEF LogInv, OwnOnce
    <2>3. OwnOnce(s, memory[s])
      BY <2>1 DEF LogInv, OwnOnce, IsInjective
    <2>. QED  BY <2>1, <2>2, <2>3 DEF LogInv, Writing
  <1>. QED  BY <1>1, SessionInvariance, PTL

-----------------------------------------------------------------------------
(* Folds over sequences, and the largest of finitely many numbers.           *)

(* A set of natural numbers has a least one.                                 *)
LEMMA LeastExists ==
  ASSUME NEW S \in SUBSET Nat, S # {}
  PROVE  \E x \in S : \A y \in S : x <= y
  <1>. DEFINE T == {1..n : n \in S}
              R == StrictSubsetOrdering(Nat)
  <1>1. T \subseteq FiniteSubsetsOf(Nat) /\ T # {}
    <2>1. \A n \in Nat : 1..n \in SUBSET Nat /\ IsFiniteSet(1..n)
      BY FS_Interval
    <2>2. \A n \in S : 1..n \in FiniteSubsetsOf(Nat)
      BY <2>1 DEF FiniteSubsetsOf
    <2>. QED  BY <2>2
  <1>2. IsWellFoundedOn(R, FiniteSubsetsOf(Nat))
    BY FS_StrictSubsetOrderingWellFounded
  <1>3. PICK i \in T : \A j \in T : ~ (<<j, i>> \in R)
    <2>. HIDE DEF T, R
    <2>. QED  BY <1>1, <1>2, WFMin
  <1>4. PICK x \in S : i = 1..x
    OBVIOUS
  <1>5. ASSUME NEW y \in S PROVE x <= y
    <2> SUFFICES ASSUME y < x PROVE FALSE
      OBVIOUS
    <2>1. 1..y \subseteq 1..x /\ 1..y # 1..x
      <3>1. x \in 1..x /\ x \notin 1..y
        OBVIOUS
      <3>. QED  BY <3>1
    <2>2. <<1..y, i>> \in R
      BY <1>4, <2>1 DEF StrictSubsetOrdering
    <2>. QED  BY <2>2, <1>3
  <1>. QED  BY <1>5

(* What holds of zero, and with a number of the next one, holds up to n.     *)
LEMMA CountingUp ==
  ASSUME NEW n \in Nat, NEW S, 0 \in S, \A k \in 0..(n - 1) : k \in S => k + 1 \in S
  PROVE  0..n \subseteq S
  <1>. SUFFICES ASSUME NEW bad \in 0..n, bad \notin S PROVE FALSE
    OBVIOUS
  <1>. DEFINE T == {k \in 0..n : k \notin S}
  <1>1. PICK x \in T : \A y \in T : x <= y
    <2>1. T \in SUBSET Nat /\ T # {}
      OBVIOUS
    <2>. QED  BY <2>1, LeastExists
  <1>2. x # 0 /\ x - 1 \in 0..(n - 1) /\ x - 1 \notin T
    BY <1>1
  <1>3. (x - 1) + 1 = x
    BY <1>1
  <1>. QED  BY <1>1, <1>2, <1>3

(* A finite set of numbers has a largest one, and Max is it.                 *)
LEMMA MaxIs ==
  ASSUME NEW S \in SUBSET Int, IsFiniteSet(S), S # {}
  PROVE  Max(S) \in S /\ \A y \in S : Max(S) >= y
  <1>. DEFINE n == Cardinality(S)
  <1>1. n \in Nat /\ n # 0
    BY FS_CardinalityType, FS_EmptySet
  <1>2. PICK b : b \in Bijection(1..n, S)
    BY FS_CardinalityType DEF ExistsBijection
  <1>3. b \in [1..n -> S] /\ \A y \in S : \E i \in 1..n : b[i] = y
    BY <1>2 DEF Bijection, Surjection
  <1>. HIDE DEF n
  <1>i. \A i \in 1..n : b[i] \in Int
    <2>1. \A i \in 1..n : b[i] \in S
      BY <1>3
    <2>. QED  BY <2>1
  <1>. DEFINE T == {k \in Nat : \E i \in 1..(k + 1) : \A j \in 1..(k + 1) : b[i] >= b[j]}
  <1>4. 0 \in T
    <2>1. 1..(0 + 1) = {1} /\ b[1] \in Int
      BY <1>1, <1>i
    <2>2. b[1] >= b[1] /\ \A j \in 1..(0 + 1) : j = 1
      BY <2>1
    <2>3. \E i \in 1..(0 + 1) : \A j \in 1..(0 + 1) : b[i] >= b[j]
      BY <2>1, <2>2, Zenon
    <2>. QED  BY <2>3
  <1>5. ASSUME NEW k \in 0..(n - 2), k \in T PROVE k + 1 \in T
    <2>1. PICK i \in 1..(k + 1) : \A j \in 1..(k + 1) : b[i] >= b[j]
      BY <1>5
    <2>2. \A j \in 1..(k + 2) : b[j] \in Int
      <3>1. \A j \in 1..(k + 2) : j \in 1..n
        BY <1>1
      <3>. QED  BY <1>i, <3>1
    <2>3. k + 2 \in 1..(k + 2) /\ i \in 1..(k + 2) /\ \A j \in 1..(k + 2) : j # k + 2 => j \in 1..(k + 1)
      OBVIOUS
    <2>4. ASSUME b[i] >= b[k + 2] PROVE \E x \in 1..(k + 2) : \A j \in 1..(k + 2) : b[x] >= b[j]
      <3>1. \A j \in 1..(k + 2) : b[i] >= b[j]
        BY <2>1, <2>2, <2>3, <2>4
      <3>. QED  BY <2>3, <3>1
    <2>5. ASSUME b[k + 2] > b[i] PROVE \E x \in 1..(k + 2) : \A j \in 1..(k + 2) : b[x] >= b[j]
      <3>1. \A j \in 1..(k + 2) : b[k + 2] >= b[j]
        BY <2>1, <2>2, <2>3, <2>5
      <3>. QED  BY <2>3, <3>1
    <2>6. b[i] >= b[k + 2] \/ b[k + 2] > b[i]
      BY <2>2, <2>3
    <2>7. k + 1 \in Nat /\ (k + 1) + 1 = k + 2
      OBVIOUS
    <2>8. \E x \in 1..((k + 1) + 1) : \A j \in 1..((k + 1) + 1) : b[x] >= b[j]
      BY <2>4, <2>5, <2>6, <2>7
    <2>. QED  BY <2>7, <2>8
  <1>6. n - 1 \in T
    <2>1. n - 1 \in Nat /\ n - 1 \in 0..(n - 1) /\ (n - 1) - 1 = n - 2
      BY <1>1
    <2>. HIDE DEF T
    <2>. QED  BY <1>4, <1>5, <2>1, CountingUp
  <1>7. PICK i \in 1..n : \A j \in 1..n : b[i] >= b[j]
    <2>1. (n - 1) + 1 = n
      BY <1>1
    <2>. QED  BY <1>6, <2>1
  <1>8. b[i] \in S /\ \A y \in S : b[i] >= y
    BY <1>3, <1>7
  <1>. QED  BY <1>8 DEF Max

(* The largest of some of the numbers up to n is one of them.                *)
LEMMA MaxOfPart ==
  ASSUME NEW n \in Nat, NEW t \in SUBSET (1..n), t # {}
  PROVE  Max(t) \in 1..n
  <1>1. IsFiniteSet(1..n) /\ 1..n \in SUBSET Int
    BY FS_Interval
  <1>2. t \in SUBSET Int /\ IsFiniteSet(t)
    BY <1>1, FS_Subset
  <1>3. Max(t) \in t
    BY <1>2, MaxIs
  <1>. QED  BY <1>3

(* f is what FoldLeft is defined by, of the numbers up to n.                 *)
Folds(f, n, A, first, step) ==
  /\ f \in [SUBSET (1..n) -> A]
  /\ \A t \in SUBSET (1..n) : f[t] = IF t = {} THEN first ELSE step[<<f[t \ {Max(t)}], Max(t)>>]

(* There is such a function, for any step.                                   *)
LEMMA FoldExists ==
  ASSUME NEW n \in Nat, NEW A, NEW first \in A, NEW step \in [A \X Nat -> A]
  PROVE  \E f : Folds(f, n, A, first, step)
  <1>. DEFINE Fits(f, k) ==
                \A t \in SUBSET (1..k) : f[t] = IF t = {} THEN first ELSE step[<<f[t \ {Max(t)}], Max(t)>>]
              S == {k \in Nat : \E f \in [SUBSET (1..k) -> A] : Fits(f, k)}
  <1>1. 0 \in S
    <2>1. SUBSET (1..0) = {{}}
      OBVIOUS
    <2>2. [t \in SUBSET (1..0) |-> first] \in [SUBSET (1..0) -> A] /\ Fits([t \in SUBSET (1..0) |-> first], 0)
      BY <2>1
    <2>. QED  BY <2>2
  <1>2. ASSUME NEW k \in 0..(n - 1), k \in S PROVE k + 1 \in S
    <2>1. PICK f \in [SUBSET (1..k) -> A] : Fits(f, k)
      BY <1>2
    <2>. DEFINE g == [t \in SUBSET (1..(k + 1)) |->
                        IF k + 1 \in t THEN step[<<f[t \ {k + 1}], k + 1>>] ELSE f[t]]
    <2>2. \A t \in SUBSET (1..(k + 1)) : t \ {k + 1} \in SUBSET (1..k) /\ (k + 1 \notin t => t \in SUBSET (1..k))
      OBVIOUS
    <2>3. g \in [SUBSET (1..(k + 1)) -> A]
      <3>1. \A t \in SUBSET (1..k) : <<f[t], k + 1>> \in A \X Nat
        OBVIOUS
      <3>2. ASSUME NEW t \in SUBSET (1..(k + 1)) PROVE (IF k + 1 \in t THEN step[<<f[t \ {k + 1}], k + 1>>] ELSE f[t]) \in A
        BY <2>1, <2>2, <3>1
      <3>. QED  BY <3>2
    <2>4. ASSUME NEW t \in SUBSET (1..(k + 1))
          PROVE  g[t] = IF t = {} THEN first ELSE step[<<g[t \ {Max(t)}], Max(t)>>]
      <3>1. CASE k + 1 \in t
        <4>1. Max(t) = k + 1
          <5>1. k + 1 \in t /\ \A y \in t : k + 1 >= y
            BY <3>1
          <5>2. \A x \in t : (\A y \in t : x >= y) => x = k + 1
            BY <3>1
          <5>. QED  BY <5>1, <5>2, Zenon DEF Max
        <4>2. g[t \ {k + 1}] = f[t \ {k + 1}] /\ t # {}
          BY <2>2, <3>1
        <4>3. g[t] = step[<<f[t \ {k + 1}], k + 1>>]
          BY <3>1
        <4>. HIDE DEF g
        <4>. QED  BY <4>1, <4>2, <4>3
      <3>2. CASE k + 1 \notin t
        <4>1. t \in SUBSET (1..k) /\ g[t] = f[t] /\ g[t \ {Max(t)}] = f[t \ {Max(t)}]
          BY <2>2, <3>2
        <4>. HIDE DEF g
        <4>. QED  BY <4>1, <2>1
      <3>. QED  BY <3>1, <3>2
    <2>. HIDE DEF g
    <2>5. \E e \in [SUBSET (1..(k + 1)) -> A] : Fits(e, k + 1)
      BY <2>3, <2>4
    <2>6. k + 1 \in Nat
      OBVIOUS
    <2>. QED  BY <2>5, <2>6, Zenon
  <1>. HIDE DEF S
  <1>3. n \in S
    BY <1>1, <1>2, CountingUp
  <1>. QED  BY <1>3 DEF S, Folds

(* The largest number up to k is k.                                          *)
LEMMA MaxUpTo ==
  ASSUME NEW k \in Nat, k # 0
  PROVE  Max(1..k) = k /\ (1..k) \ {Max(1..k)} = 1..(k - 1) /\ 1..k # {}
  <1>1. k \in 1..k /\ \A y \in 1..k : k >= y
    OBVIOUS
  <1>2. \A x \in 1..k : (\A y \in 1..k : x >= y) => x = k
    OBVIOUS
  <1>3. Max(1..k) = k
    BY <1>1, <1>2, Zenon DEF Max
  <1>4. (1..k) \ {k} = 1..(k - 1) /\ 1..k # {}
    OBVIOUS
  <1>. QED  BY <1>3, <1>4, Zenon

-----------------------------------------------------------------------------
(* How a phrase is resolved.                                                 *)

(* What is left of a phrase without its stopwords is a phrase.               *)
LEMMA NormalizeIsSeq ==
  ASSUME NEW m \in Seq(STRING)
  PROVE  Normalize(m) \in Seq(STRING)
  <1>. DEFINE n == Len(m)
              A == Seq(STRING)
              next(kept, k) == IF m[k] \in Stopwords THEN kept ELSE Append(kept, m[k])
              rec(iter) == [t \in SUBSET (DOMAIN m) |-> IF t = {} THEN <<>> ELSE next(iter[t \ {Max(t)}], Max(t))]
              it == CHOOSE iter : iter = rec(iter)
              step == [p \in A \X Nat |-> IF p[2] \in 1..n THEN next(p[1], p[2]) ELSE p[1]]
  <1>1. Normalize(m) = it[DOMAIN m]
    BY DEF Normalize, FoldLeft, MapThenFoldSet
  <1>2. n \in Nat /\ DOMAIN m = 1..n /\ \A k \in 1..n : m[k] \in STRING
    OBVIOUS
  <1>3. \A kept \in A, k \in 1..n : next(kept, k) \in A
    <2>. TAKE kept \in A
    <2>. TAKE k \in 1..n
    <2>1. m[k] \in STRING
      BY <1>2
    <2>2. Append(kept, m[k]) \in A
      BY <2>1, AppendProperties
    <2>. QED  BY <2>2
  <1>4. step \in [A \X Nat -> A]
    <2>. HIDE DEF next, A
    <2>. QED  BY <1>3
  <1>. HIDE DEF n
  <1>5. <<>> \in A
    OBVIOUS
  <1>. HIDE DEF A, next
  <1>h. PICK f : Folds(f, n, A, <<>>, step)
    <2>. HIDE DEF step
    <2>. QED  BY <1>2, <1>4, <1>5, FoldExists
  <1>6. /\ f \in [SUBSET (1..n) -> A]
        /\ \A t \in SUBSET (1..n) : f[t] = IF t = {} THEN <<>> ELSE step[<<f[t \ {Max(t)}], Max(t)>>]
    BY <1>h DEF Folds
  <1>7. ASSUME NEW t \in SUBSET (1..n), t # {}
        PROVE  step[<<f[t \ {Max(t)}], Max(t)>>] = next(f[t \ {Max(t)}], Max(t))
    <2>1. Max(t) \in 1..n
      BY <1>2, <1>7, MaxOfPart
    <2>2. f[t \ {Max(t)}] \in A
      BY <1>6
    <2>. QED  BY <2>1, <2>2
  <1>8. f = rec(f)
    <2>1. \A t \in SUBSET (1..n) : f[t] = IF t = {} THEN <<>> ELSE next(f[t \ {Max(t)}], Max(t))
      BY <1>6, <1>7, Zenon
    <2>. QED  BY <1>2, <1>6, <2>1
  <1>9. it = rec(it)
    <2>. HIDE DEF rec
    <2>. QED  BY <1>8, Zenon
  <1>. HIDE DEF it
  <1>10. it[1..0] = <<>>
    BY <1>2, <1>9
  <1>11. \A k \in 1..n : it[1..k] = next(it[1..(k - 1)], k)
    <2>. TAKE k \in 1..n
    <2>1. 1..k \in SUBSET (DOMAIN m)
      BY <1>2
    <2>2. k \in Nat /\ k # 0
      OBVIOUS
    <2>. QED  BY <1>9, <2>1, <2>2, MaxUpTo, Zenon
  <1>. DEFINE S == {k \in Nat : it[1..k] \in A}
  <1>12. 0 \in S
    BY <1>5, <1>10
  <1>13. ASSUME NEW k \in 0..(n - 1), k \in S PROVE k + 1 \in S
    <2>1. k + 1 \in 1..n /\ (k + 1) - 1 = k /\ it[1..k] \in A
      BY <1>2, <1>13
    <2>2. it[1..(k + 1)] = next(it[1..k], k + 1)
      BY <1>11, <2>1
    <2>. QED  BY <1>3, <2>1, <2>2
  <1>14. n \in S
    <2>. HIDE DEF S
    <2>1. 0..n \subseteq S
      BY <1>2, <1>12, <1>13, CountingUp
    <2>. QED  BY <1>2, <2>1
  <1>. QED  BY <1>1, <1>2, <1>14 DEF A

(* Resolve finds a node whose score is the highest there is, if that is      *)
(* enough for a name.                                                        *)
LEMMA ResolveFinds ==
  ASSUME NEW words, NEW listed \in Seq(Node),
         \A k \in DOMAIN listed : Score(listed[k], Normalize(words)) \in Int,
         NEW i \in DOMAIN listed, Score(listed[i], Normalize(words)) >= 60
  PROVE  \E k \in DOMAIN listed : /\ Resolve(words, listed) = listed[k].id
                                  /\ Score(listed[k], Normalize(words)) >= Score(listed[i], Normalize(words))
  <1>. DEFINE n == Len(listed)
              A == [id : STRING \cup {NoNode}, score : Int]
              none == [id |-> NoNode, score |-> 0]
              sc(k) == Score(listed[k], Normalize(words))
              next(best, k) == Better(best, listed[k], sc(k))
              rec(iter) == [t \in SUBSET (DOMAIN listed) |->
                              IF t = {} THEN none ELSE next(iter[t \ {Max(t)}], Max(t))]
              it == CHOOSE iter : iter = rec(iter)
              step == [p \in A \X Nat |-> IF p[2] \in 1..n THEN next(p[1], p[2]) ELSE p[1]]
  <1>1. Resolve(words, listed) = WorthAName(it[DOMAIN listed])
    BY DEF Resolve, FoldLeft, MapThenFoldSet
  <1>2. n \in Nat /\ DOMAIN listed = 1..n /\ \A k \in 1..n : listed[k] \in Node
    OBVIOUS
  <1>s. \A k \in 1..n : sc(k) \in Int /\ listed[k].id \in STRING
    BY <1>2 DEF Node
  <1>. HIDE DEF sc
  <1>3. \A best \in A, k \in 1..n : next(best, k) \in A
    BY <1>s DEF Better
  <1>4. step \in [A \X Nat -> A]
    <2>. HIDE DEF next, A
    <2>. QED  BY <1>3
  <1>. HIDE DEF n
  <1>5. none \in A
    OBVIOUS
  <1>. HIDE DEF A, next, none
  <1>h. PICK f : Folds(f, n, A, none, step)
    <2>. HIDE DEF step
    <2>. QED  BY <1>2, <1>4, <1>5, FoldExists
  <1>6. /\ f \in [SUBSET (1..n) -> A]
        /\ \A t \in SUBSET (1..n) : f[t] = IF t = {} THEN none ELSE step[<<f[t \ {Max(t)}], Max(t)>>]
    BY <1>h DEF Folds
  <1>7. ASSUME NEW t \in SUBSET (1..n), t # {}
        PROVE  step[<<f[t \ {Max(t)}], Max(t)>>] = next(f[t \ {Max(t)}], Max(t))
    <2>1. Max(t) \in 1..n
      BY <1>2, <1>7, MaxOfPart
    <2>2. f[t \ {Max(t)}] \in A
      BY <1>6
    <2>. QED  BY <2>1, <2>2
  <1>8. f = rec(f)
    <2>1. \A t \in SUBSET (1..n) : f[t] = IF t = {} THEN none ELSE next(f[t \ {Max(t)}], Max(t))
      BY <1>6, <1>7, Zenon
    <2>. QED  BY <1>2, <1>6, <2>1
  <1>9. it = rec(it)
    <2>. HIDE DEF rec
    <2>. QED  BY <1>8, Zenon
  <1>. HIDE DEF it
  <1>10. it[1..0] = none
    BY <1>2, <1>9
  <1>11. \A k \in 1..n : it[1..k] = next(it[1..(k - 1)], k)
    <2>. TAKE k \in 1..n
    <2>1. 1..k \in SUBSET (DOMAIN listed)
      BY <1>2
    <2>2. k \in Nat /\ k # 0
      OBVIOUS
    <2>. QED  BY <1>9, <2>1, <2>2, MaxUpTo, Zenon
  <1>. DEFINE Highest(best, k) ==
                /\ best \in A /\ best.score \in Int
                /\ \A j \in 1..k : sc(j) <= best.score
                /\ best.score > 0 => \E j \in 1..k : best.id = listed[j].id /\ best.score = sc(j)
              S == {k \in Nat : Highest(it[1..k], k)}
  <1>12. 0 \in S
    <2>1. none \in A /\ none.score = 0
      BY <1>5 DEF none
    <2>2. Highest(none, 0)
      BY <2>1
    <2>. QED  BY <1>10, <2>2
  <1>13. ASSUME NEW k \in 0..(n - 1), k \in S PROVE k + 1 \in S
    <2>. DEFINE b == it[1..k]
                c == it[1..(k + 1)]
    <2>1. k + 1 \in 1..n /\ (k + 1) - 1 = k /\ Highest(b, k) /\ k + 1 \in Nat
      BY <1>2, <1>13
    <2>2. c = next(b, k + 1) /\ c \in A
      BY <1>3, <1>11, <2>1
    <2>. HIDE DEF b, c
    <2>3. sc(k + 1) \in Int /\ \A j \in 1..(k + 1) : j \in 1..k \/ j = k + 1
      BY <1>s, <2>1
    <2>6. \A j \in 1..k : j \in 1..n
      BY <1>2
    <2>4. CASE sc(k + 1) > b.score
      <3>1. c.id = listed[k + 1].id /\ c.score = sc(k + 1)
        BY <2>2, <2>4 DEF next, Better
      <3>2. \A j \in 1..(k + 1) : sc(j) <= c.score
        <4>. TAKE j \in 1..(k + 1)
        <4>1. sc(j) \in Int /\ b.score \in Int
          BY <1>s, <2>1, <2>3, <2>6
        <4>2. j = k + 1 \/ sc(j) <= b.score
          BY <2>1, <2>3
        <4>. QED  BY <2>3, <2>4, <3>1, <4>1, <4>2
      <3>3. k + 1 \in 1..(k + 1)
        OBVIOUS
      <3>4. Highest(c, k + 1)
        BY <2>2, <2>3, <3>1, <3>2, <3>3
      <3>. HIDE DEF Highest
      <3>. QED  BY <2>1, <3>4 DEF c
    <2>5. CASE ~(sc(k + 1) > b.score)
      <3>1. c = b
        BY <2>2, <2>5 DEF next, Better
      <3>2. \A j \in 1..(k + 1) : sc(j) <= c.score
        BY <2>1, <2>3, <2>5, <3>1
      <3>3. \A j \in 1..k : j \in 1..(k + 1)
        OBVIOUS
      <3>4. Highest(c, k + 1)
        BY <2>1, <2>2, <3>1, <3>2, <3>3
      <3>. HIDE DEF Highest
      <3>. QED  BY <2>1, <3>4 DEF c
    <2>. QED  BY <2>4, <2>5
  <1>14. n \in S
    <2>. HIDE DEF S
    <2>1. 0..n \subseteq S
      BY <1>2, <1>12, <1>13, CountingUp
    <2>. QED  BY <1>2, <2>1
  <1>. DEFINE best == it[1..n]
  <1>15. Highest(best, n)
    BY <1>14
  <1>. HIDE DEF best
  <1>16. sc(i) <= best.score /\ sc(i) >= 60 /\ sc(i) \in Int /\ best.score \in Int
    BY <1>2, <1>s, <1>15 DEF sc
  <1>17. PICK j \in 1..n : best.id = listed[j].id /\ best.score = sc(j)
    BY <1>15, <1>16
  <1>18. best.score >= 60
    BY <1>16
  <1>19. Resolve(words, listed) = listed[j].id
    BY <1>1, <1>2, <1>17, <1>18 DEF WorthAName, best
  <1>. QED  BY <1>2, <1>16, <1>17, <1>19 DEF sc

-----------------------------------------------------------------------------
(* A share of a share: what is counted of at most c is at most all of it.    *)
LEMMA ShareIsBounded ==
  ASSUME NEW a \in Nat, NEW c \in Nat, c # 0, a <= c
  PROVE  (90 * a) \div c \in Nat /\ (90 * a) \div c <= 90
  OBVIOUS

(* A name that is said in full counts for more than any share of its words.  *)
LEMMA NameScoreIs ==
  ASSUME NEW name \in Seq(STRING), name # <<>>, NEW phrase
  PROVE  /\ NameScore(name, phrase) \in Nat
         /\ Occurs(name, phrase) => NameScore(name, phrase) >= 126
         /\ ~Occurs(name, phrase) => NameScore(name, phrase) <= 90
  <1>1. CASE Occurs(name, phrase)
    <2>1. Len(name) \in Nat /\ Len(name) # 0
      OBVIOUS
    <2>2. NameScore(name, phrase) = 120 + 6 * Len(name)
      BY <1>1 DEF NameScore
    <2>. QED  BY <1>1, <2>1, <2>2
  <1>2. CASE ~Occurs(name, phrase)
    <2>. DEFINE W == ToSet(name)
                V == W \cap ToSet(phrase)
    <2>1. IsFiniteSet(W) /\ W # {}
      <3>1. name \in [DOMAIN name -> W] /\ \A w \in W : \E k \in DOMAIN name : name[k] = w
        BY DEF ToSet
      <3>2. name \in Surjection(DOMAIN name, W)
        BY <3>1 DEF Surjection
      <3>3. DOMAIN name = 1..Len(name) /\ Len(name) \in Nat /\ 1 \in DOMAIN name
        OBVIOUS
      <3>4. IsFiniteSet(DOMAIN name)
        BY <3>3, FS_Interval
      <3>5. name[1] \in W
        BY <3>1, <3>3
      <3>. QED  BY <3>2, <3>4, <3>5, FS_Surjection
    <2>2. IsFiniteSet(V) /\ Cardinality(V) <= Cardinality(W)
      <3>. HIDE DEF W
      <3>1. V \subseteq W
        OBVIOUS
      <3>. QED  BY <2>1, <3>1, FS_Subset
    <2>3. Cardinality(V) \in Nat /\ Cardinality(W) \in Nat /\ Cardinality(W) # 0
      BY <2>1, <2>2, FS_CardinalityType, FS_EmptySet
    <2>4. NameScore(name, phrase) = (90 * Cardinality(V)) \div Cardinality(W)
      BY <1>2 DEF NameScore
    <2>. QED  BY <1>2, <2>2, <2>3, <2>4, ShareIsBounded
  <1>. QED  BY <1>1, <1>2

(* A node one of whose names is said in full scores above one of which none  *)
(* is.                                                                       *)
LEMMA BestNameIs ==
  ASSUME NEW node \in Node, IsFiniteSet(node.names), NEW words
  PROVE  LET best == BestName(node, Normalize(words))
             told == \E name \in node.names : Said(name, words)
         IN  best \in Nat /\ (told => best >= 126) /\ (~told => best <= 90)
  <1>. DEFINE phrase == Normalize(words)
              names == {Normalize(m) : m \in node.names} \ {<<>>}
              scores == {NameScore(m, phrase) : m \in names}
              best == BestName(node, phrase)
              told == \E name \in node.names : Said(name, words)
  <1>1. best = Max({0} \cup scores)
    BY DEF BestName
  <1>2. node.names \in SUBSET Seq(STRING)
    BY DEF Node
  <1>3. ASSUME NEW m \in names PROVE m \in Seq(STRING) /\ m # <<>>
    BY <1>2, NormalizeIsSeq
  <1>4. told <=> \E m \in names : Occurs(m, phrase)
    BY DEF Said
  <1>5. IsFiniteSet(names)
    <2>. DEFINE T == {Normalize(m) : m \in node.names}
                f == [m \in node.names |-> Normalize(m)]
    <2>1. f \in Surjection(node.names, T)
      BY DEF Surjection
    <2>2. IsFiniteSet(T)
      <3>. HIDE DEF f, T
      <3>. QED  BY <2>1, FS_Surjection
    <2>. QED  BY <2>2, FS_Subset
  <1>. HIDE DEF names, told, phrase
  <1>6. IsFiniteSet(scores)
    <2>. DEFINE f == [m \in names |-> NameScore(m, phrase)]
    <2>1. f \in Surjection(names, scores)
      BY DEF Surjection
    <2>. HIDE DEF f, scores
    <2>. QED  BY <1>5, <2>1, FS_Surjection
  <1>7. \A m \in names : /\ NameScore(m, phrase) \in Nat
                         /\ Occurs(m, phrase) => NameScore(m, phrase) >= 126
                         /\ ~Occurs(m, phrase) => NameScore(m, phrase) <= 90
    BY <1>3, NameScoreIs
  <1>8. {0} \cup scores \in SUBSET Int /\ IsFiniteSet({0} \cup scores)
    <2>1. scores \in SUBSET Int
      BY <1>7
    <2>. HIDE DEF scores
    <2>2. IsFiniteSet({0})
      BY FS_Singleton
    <2>3. {0} \cup scores \in SUBSET Int
      BY <2>1
    <2>. QED  BY <1>6, <2>2, <2>3, FS_Union
  <1>9. best \in {0} \cup scores /\ \A y \in {0} \cup scores : best >= y
    <2>. HIDE DEF scores, best
    <2>. QED  BY <1>1, <1>8, MaxIs
  <1>. HIDE DEF best
  <1>10. best \in Nat
    BY <1>7, <1>9
  <1>11. ASSUME told PROVE best >= 126
    <2>1. PICK m \in names : Occurs(m, phrase)
      BY <1>4, <1>11
    <2>2. NameScore(m, phrase) >= 126 /\ NameScore(m, phrase) \in Nat /\ best >= NameScore(m, phrase)
      BY <1>7, <1>9, <2>1
    <2>. QED  BY <1>10, <2>2
  <1>12. ASSUME ~told PROVE best <= 90
    <2>1. \A m \in names : NameScore(m, phrase) \in Nat /\ NameScore(m, phrase) <= 90
      BY <1>4, <1>7, <1>12
    <2>. QED  BY <1>9, <2>1
  <1>. QED  BY <1>10, <1>11, <1>12 DEF best, told, phrase

-----------------------------------------------------------------------------
(* The nodes of one kind that _parse lists are nodes of the file.            *)
LEMMA ListedAreNodes ==
  ASSUME NEW kind
  PROVE  Listed(kind) \in Seq({node \in Node : node.kind = kind /\ IsFiniteSet(node.names)})
  <1>. DEFINE n == Len(Nodes)
              K == {node \in Node : node.kind = kind /\ IsFiniteSet(node.names)}
              A == Seq(K)
              next(listed, i) ==
                IF Nodes[i].kind # kind THEN listed
                ELSE IF \E k \in DOMAIN listed : listed[k].id = Nodes[i].id
                THEN [listed EXCEPT ![CHOOSE k \in DOMAIN listed : listed[k].id = Nodes[i].id] = Nodes[i]]
                ELSE Append(listed, Nodes[i])
              rec(iter) == [t \in SUBSET (DOMAIN Nodes) |-> IF t = {} THEN <<>> ELSE next(iter[t \ {Max(t)}], Max(t))]
              it == CHOOSE iter : iter = rec(iter)
              step == [p \in A \X Nat |-> IF p[2] \in 1..n THEN next(p[1], p[2]) ELSE p[1]]
  <1>1. Listed(kind) = it[DOMAIN Nodes]
    BY DEF Listed, FoldLeft, MapThenFoldSet
  <1>2. n \in Nat /\ DOMAIN Nodes = 1..n /\ \A i \in 1..n : Nodes[i] \in Node /\ IsFiniteSet(Nodes[i].names)
    BY NodesAssumption
  <1>3. ASSUME NEW listed \in A, NEW i \in 1..n PROVE next(listed, i) \in A
    <2>1. CASE Nodes[i].kind # kind
      BY <2>1
    <2>2. CASE Nodes[i].kind = kind
      <3>1. Nodes[i] \in K
        BY <1>2, <2>2
      <3>2. Append(listed, Nodes[i]) \in A
        BY <3>1, AppendProperties
      <3>3. ASSUME NEW k \in DOMAIN listed PROVE [listed EXCEPT ![k] = Nodes[i]] \in A
        <4>1. k \in 1..Len(listed)
          BY <3>3
        <4>. HIDE DEF K
        <4>. QED  BY <3>1, <4>1, ExceptSeq
      <3>. HIDE DEF A, K
      <3>4. CASE \E k \in DOMAIN listed : listed[k].id = Nodes[i].id
        <4>1. (CHOOSE k \in DOMAIN listed : listed[k].id = Nodes[i].id) \in DOMAIN listed
          BY <3>4
        <4>2. [listed EXCEPT ![CHOOSE k \in DOMAIN listed : listed[k].id = Nodes[i].id] = Nodes[i]] \in A
          BY <3>3, <4>1, Zenon
        <4>. QED  BY <2>2, <3>4, <4>2, Zenon
      <3>. QED  BY <2>2, <3>2, <3>4, Zenon
    <2>. QED  BY <2>1, <2>2
  <1>4. step \in [A \X Nat -> A]
    <2>. HIDE DEF next, A
    <2>. QED  BY <1>3
  <1>. HIDE DEF n
  <1>5. <<>> \in A
    OBVIOUS
  <1>. HIDE DEF A, K, next
  <1>h. PICK f : Folds(f, n, A, <<>>, step)
    <2>. HIDE DEF step
    <2>. QED  BY <1>2, <1>4, <1>5, FoldExists
  <1>6. /\ f \in [SUBSET (1..n) -> A]
        /\ \A t \in SUBSET (1..n) : f[t] = IF t = {} THEN <<>> ELSE step[<<f[t \ {Max(t)}], Max(t)>>]
    BY <1>h DEF Folds
  <1>7. ASSUME NEW t \in SUBSET (1..n), t # {}
        PROVE  step[<<f[t \ {Max(t)}], Max(t)>>] = next(f[t \ {Max(t)}], Max(t))
    <2>1. Max(t) \in 1..n
      BY <1>2, <1>7, MaxOfPart
    <2>2. f[t \ {Max(t)}] \in A
      BY <1>6
    <2>. QED  BY <2>1, <2>2
  <1>8. f = rec(f)
    <2>1. \A t \in SUBSET (1..n) : f[t] = IF t = {} THEN <<>> ELSE next(f[t \ {Max(t)}], Max(t))
      BY <1>6, <1>7, Zenon
    <2>. QED  BY <1>2, <1>6, <2>1
  <1>9. it = rec(it)
    <2>. HIDE DEF rec
    <2>. QED  BY <1>8, Zenon
  <1>. HIDE DEF it
  <1>10. it[1..0] = <<>>
    BY <1>2, <1>9
  <1>11. \A k \in 1..n : it[1..k] = next(it[1..(k - 1)], k)
    <2>. TAKE k \in 1..n
    <2>1. 1..k \in SUBSET (DOMAIN Nodes)
      BY <1>2
    <2>2. k \in Nat /\ k # 0
      OBVIOUS
    <2>. QED  BY <1>9, <2>1, <2>2, MaxUpTo, Zenon
  <1>. DEFINE S == {k \in Nat : it[1..k] \in A}
  <1>12. 0 \in S
    BY <1>5, <1>10
  <1>13. ASSUME NEW k \in 0..(n - 1), k \in S PROVE k + 1 \in S
    <2>1. k + 1 \in 1..n /\ (k + 1) - 1 = k /\ it[1..k] \in A
      BY <1>2, <1>13
    <2>2. it[1..(k + 1)] = next(it[1..k], k + 1)
      BY <1>11, <2>1
    <2>. QED  BY <1>3, <2>1, <2>2
  <1>14. n \in S
    <2>. HIDE DEF S
    <2>1. 0..n \subseteq S
      BY <1>2, <1>12, <1>13, CountingUp
    <2>. QED  BY <1>2, <2>1
  <1>. QED  BY <1>1, <1>2, <1>14 DEF A, K

(* The place an instruction names in full after its last "to" is where the   *)
(* rules take it to go.                                                      *)
LEMMA DestinationIsTold ==
  ASSUME Told # {}
  PROVE  Destination(text) \in Told /\ Destination(text) # NoNode
  <1>. DEFINE words == AfterTo(text)
              listed == Locations
              told(k) == \E name \in listed[k].names : Said(name, words)
              sc(k) == Score(listed[k], Normalize(words))
  <1>1. listed \in Seq({node \in Node : node.kind = "location" /\ IsFiniteSet(node.names)})
    BY ListedAreNodes DEF Locations
  <1>2. \A k \in DOMAIN listed : /\ listed[k] \in Node /\ listed[k].kind = "location"
                                 /\ IsFiniteSet(listed[k].names)
    <2>. HIDE DEF listed
    <2>. QED  BY <1>1, ElementOfSeq
  <1>3. listed \in Seq(Node)
    <2>1. {node \in Node : node.kind = "location" /\ IsFiniteSet(node.names)} \subseteq Node
      OBVIOUS
    <2>. HIDE DEF listed
    <2>. QED  BY <1>1, <2>1, SeqMonotonic
  <1>4. ASSUME NEW k \in DOMAIN listed
        PROVE  sc(k) \in Nat /\ (told(k) => sc(k) >= 126) /\ (~told(k) => sc(k) <= 90)
    <2>. HIDE DEF listed, words
    <2>1. LET best == BestName(listed[k], Normalize(words))
          IN  best \in Nat /\ (told(k) => best >= 126) /\ (~told(k) => best <= 90)
      BY <1>2, BestNameIs
    <2>2. sc(k) = BestName(listed[k], Normalize(words)) + 0
      BY <1>2 DEF Score
    <2>. QED  BY <2>1, <2>2
  <1>5. Told = {listed[k].id : k \in {j \in DOMAIN listed : told(j)}}
    BY DEF Told, ToSet
  <1>6. PICK i \in DOMAIN listed : told(i)
    BY <1>5
  <1>7. PICK k \in DOMAIN listed : Resolve(words, listed) = listed[k].id /\ sc(k) >= sc(i)
    <2>1. sc(i) >= 60 /\ \A j \in DOMAIN listed : sc(j) \in Int
      BY <1>4, <1>6
    <2>. HIDE DEF listed, words
    <2>. QED  BY <1>3, <2>1, ResolveFinds
  <1>8. told(k)
    <2>. HIDE DEF told, sc
    <2>. QED  BY <1>4, <1>6, <1>7
  <1>9. Resolve(words, listed) \in Told
    <2>. HIDE DEF listed, words, told
    <2>. QED  BY <1>5, <1>7, <1>8
  <1>10. Resolve(words, listed) # NoNode
    <2>. HIDE DEF listed, words
    <2>. QED  BY <1>2, <1>7 DEF Node
  <1>11. Destination(text) = Resolve(words, listed)
    BY <1>10 DEF Destination
  <1>. QED  BY <1>9, <1>10, <1>11

(* Calls in a row make a plan.                                               *)
LEMMA TuplesConcat ==
  ASSUME NEW a, NEW b, NEW c
  PROVE  <<a>> \o <<b>> = <<a, b>> /\ <<a, b>> \o <<c>> = <<a, b, c>>
  <1>. DEFINE S == {a, b, c}
  <1>1. <<a>> \in Seq(S) /\ <<b>> \in Seq(S) /\ <<c>> \in Seq(S) /\ <<a, b>> \in Seq(S) /\ <<a, b, c>> \in Seq(S)
    OBVIOUS
  <1>2. <<a>> \o <<b>> = <<a, b>>
    <2>. DEFINE s == <<a>> \o <<b>>
    <2>1. s \in Seq(S) /\ Len(s) = 2 /\ s[1] = a /\ s[2] = b
      BY <1>1, ConcatProperties
    <2>2. Len(<<a, b>>) = 2 /\ \A i \in 1..2 : s[i] = <<a, b>>[i]
      BY <2>1
    <2>. HIDE DEF s
    <2>. QED  BY <1>1, <2>1, <2>2, SeqEqual DEF s
  <1>3. <<a, b>> \o <<c>> = <<a, b, c>>
    <2>. DEFINE s == <<a, b>> \o <<c>>
    <2>1. s \in Seq(S) /\ Len(s) = 3 /\ s[1] = a /\ s[2] = b /\ s[3] = c
      BY <1>1, ConcatProperties
    <2>2. Len(<<a, b, c>>) = 3 /\ \A i \in 1..3 : s[i] = <<a, b, c>>[i]
      BY <2>1
    <2>. HIDE DEF s
    <2>. QED  BY <1>1, <2>1, <2>2, SeqEqual DEF s
  <1>. QED  BY <1>2, <1>3

(* A plan for a destination ends there, whatever else it fetches on the way. *)
LEMMA PlanEndsThere ==
  ASSUME NEW words, NEW places, NEW destination \in places, destination # NoNode, NEW id
  PROVE  EndsAt(PlanFor(words, destination, id), places)
  <1>1. EndsAt(<<>>, places)
    BY DEF EndsAt
  <1>2. EndsAt(Drive(destination), places)
    BY DEF EndsAt, Drive, Call
  <1>3. EndsAt(PayloadPlan(id, destination), places)
    <2>. DEFINE plan == PayloadPlan(id, destination)
    <2>1. /\ DOMAIN plan = 1..5 /\ plan[4] = Call("nav_with_payload", destination)
          /\ plan[1].tool = "approach_wheelchair" /\ plan[2].tool = "align_gripper"
          /\ plan[3].tool = "attach_handle" /\ plan[5].tool = "detach"
      BY DEF PayloadPlan, Call
    <2>2. \A i \in 1..5 : i = 1 \/ i = 2 \/ i = 3 \/ i = 4 \/ i = 5
      OBVIOUS
    <2>. HIDE DEF plan
    <2>3. ASSUME NEW i \in DOMAIN plan, plan[i].tool \in Driving PROVE plan[i].id \in places
      BY <2>1, <2>2, <2>3 DEF Driving, Call
    <2>. QED  BY <2>3 DEF EndsAt, plan
  <1>4. EndsAt(FetchPlan(id, destination), places)
    <2>. DEFINE loc == LocationOf(id)
                pick == Call("pick_up", id)
                there == Call("navigate_to", loc)
                on == Call("navigate_to", destination)
    <2>1. \/ FetchPlan(id, destination) = <<there, pick>> /\ loc = destination
          \/ FetchPlan(id, destination) = <<pick, on>>
          \/ FetchPlan(id, destination) = <<there, pick, on>>
      <3>. HIDE DEF loc
      <3>1. FetchPlan(id, destination) =
              Drive(loc) \o <<pick>> \o (IF destination = loc THEN <<>> ELSE Drive(destination))
        BY Zenon DEF FetchPlan, loc
      <3>2. Drive(destination) = <<on>> /\ Drive(loc) = IF loc = NoNode THEN <<>> ELSE <<there>>
        BY DEF Drive
      <3>. HIDE DEF pick, there, on
      <3>3. /\ <<there>> \o <<pick>> \o <<>> = <<there, pick>> /\ <<>> \o <<pick>> \o <<on>> = <<pick, on>>
            /\ <<there>> \o <<pick>> \o <<on>> = <<there, pick, on>>
        <4>1. <<there>> \o <<pick>> = <<there, pick>> /\ <<pick>> \o <<on>> = <<pick, on>>
          BY TuplesConcat
        <4>2. <<there, pick>> \o <<on>> = <<there, pick, on>>
          BY TuplesConcat
        <4>3. <<there, pick>> \in Seq({there, pick}) /\ <<pick>> \in Seq({pick})
          OBVIOUS
        <4>4. <<there, pick>> \o <<>> = <<there, pick>> /\ <<>> \o <<pick>> = <<pick>>
          BY <4>3, ConcatEmptySeq
        <4>. QED  BY <4>1, <4>2, <4>4
      <3>4. CASE loc = NoNode
        <4>1. FetchPlan(id, destination) = <<>> \o <<pick>> \o <<on>>
          BY <3>1, <3>2, <3>4, Zenon
        <4>. QED  BY <3>3, <4>1
      <3>5. CASE loc # NoNode /\ loc = destination
        <4>1. FetchPlan(id, destination) = <<there>> \o <<pick>> \o <<>>
          BY <3>1, <3>2, <3>5, Zenon
        <4>. QED  BY <3>3, <3>5, <4>1
      <3>6. CASE loc # NoNode /\ loc # destination
        <4>1. FetchPlan(id, destination) = <<there>> \o <<pick>> \o <<on>>
          BY <3>1, <3>2, <3>6, Zenon
        <4>. QED  BY <3>3, <4>1
      <3>. QED  BY <3>4, <3>5, <3>6
    <2>2. pick.tool \notin Driving /\ on.tool \in Driving /\ on.id \in places /\ (loc = destination => there.id \in places)
      BY DEF Call, Driving
    <2>. HIDE DEF loc, pick, there, on
    <2>3. EndsAt(<<pick, on>>, places) /\ (loc = destination => EndsAt(<<there, pick>>, places))
      BY <2>2 DEF EndsAt
    <2>4. EndsAt(<<there, pick, on>>, places)
      BY <2>2 DEF EndsAt
    <2>. QED  BY <2>1, <2>3, <2>4
  <1>. QED  BY <1>1, <1>2, <1>3, <1>4, Zenon DEF PlanFor

-----------------------------------------------------------------------------
(* At the first attempt the rules are given the operator's words, and what   *)
(* they reply is their plan of them.                                         *)
ToldInv ==
  /\ pc # "idle" /\ attempt = 1 => said = text
  /\ reply.by = "rules" /\ attempt = 1 => pc = "reply" /\ calls.calls = RulesPlan(text)

(* Every step keeps the words and the plan together.                         *)
LEMMA ToldNext ==
  ASSUME IInv, SessionInv, ToldInv, [SessionNext]_<<vars, sessionVars>>
  PROVE  ToldInv'
  <1>1. pc = "idle" => attempt = 1
    BY DEF IInv, PostsInv
  <1>2. pc = "idle" => reply.by # "rules"
    BY <1>1 DEF ToldInv
  <1>3. ASSUME NEW outcome, NEW by, EndSession(outcome, by)
        PROVE  ToldInv'
    BY <1>3 DEF EndSession, NoReply, ToldInv
  <1>4. ASSUME UNCHANGED <<pc, attempt, reply, text, said, calls>>
        PROVE  ToldInv'
    BY <1>4 DEF ToldInv
  <1>5. CASE QuietStep
    <2>1. CASE \/ (\E setting \in Settings : MakeBackend(setting)) \/ ServerIsUp \/ PollAgain \/ ServerIsNot
               \/ ExportFromDisk \/ Over \/ UNCHANGED <<vars, sessionVars>>
      <3>1. UNCHANGED <<pc, attempt, reply, text, said, calls>>
        BY <2>1 DEF MakeBackend, ServerIsUp, PollAgain, ServerIsNot, Polling, ExportFromDisk, Over, vars, sessionVars, askVars
      <3>. QED  BY <1>4, <3>1
    <2>2. CASE AsksNothing \/ NotPlanned
      BY <1>3, <2>2 DEF AsksNothing, BeginEmpty, NotPlanned, PostDropped, BackendFails, Refuse
    <2>3. CASE (\E words \in Instructions : Asks(words)) \/ (\E number \in 1..(Len(Menu) + 1) : Chooses(number))
      <3>1. text' = said' /\ pc = "idle" /\ UNCHANGED <<attempt, reply>>
        BY <2>3 DEF Chooses, Asks, Begin
      <3>. QED  BY <1>2, <3>1 DEF ToldInv
    <2>4. CASE \E reply_text \in ModelReplies : ModelReplied(reply_text)
      <3>1. UNCHANGED <<attempt, text, said>> /\ reply'.by = "model" /\ pc = "post"
        BY <2>4 DEF ModelReplied, ModelAnswers
      <3>. QED  BY <3>1 DEF ToldInv
    <2>5. CASE RulesReplied
      <3>1. UNCHANGED <<attempt, text, said>> /\ pc = "failed" /\ pc' = "reply" /\ calls'.calls = RulesPlan(said)
        BY <2>5 DEF RulesReplied, Degrade
      <3>2. RulesPlan(text)' = RulesPlan(text')
        BY DEF RulesPlan
      <3>3. attempt = 1 => calls'.calls = RulesPlan(text)
        BY <3>1 DEF ToldInv
      <3>. QED  BY <3>1, <3>3 DEF ToldInv
    <2>6. CASE AskedAgain
      <3>1. attempt' = 2
        BY <2>6 DEF AskedAgain, AskAgain
      <3>. QED  BY <3>1 DEF ToldInv
    <2>7. CASE Posting
      <3>1. UNCHANGED <<attempt, reply, text, said, calls>> /\ pc = "post" /\ pc' \in {"post", "failed"}
        BY <2>7 DEF Posting, RetryPost, PostFails, sessionVars, askVars
      <3>. QED  BY <3>1 DEF ToldInv
    <2>. QED  BY <1>5, <2>1, <2>2, <2>3, <2>4, <2>5, <2>6, <2>7 DEF QuietStep
  <1>6. CASE Accepted
    BY <1>3, <1>6 DEF Accepted, Accept
  <1>7. CASE OverParse(RunStep)
    <2>1. UNCHANGED <<pc, attempt, reply>>
      BY <1>7 DEF OverParse, vars
    <2>2. UNCHANGED <<text, said>>
      BY <1>7 DEF OverParse, RunStep, BlockCall, StartSkill, SkillTimesOut, WriteReport, Export, ReleaseEnds,
                  SkillEnds, Emit, WriteLine, askVars
    <2>3. UNCHANGED calls \/ run.stage = "export"
      BY <1>7 DEF OverParse, RunStep, BlockCall, StartSkill, SkillTimesOut, WriteReport, Export, ReleaseEnds,
                  SkillEnds, Emit, WriteLine, askVars
    <2>4. run.stage = "export" => pc = "idle"
      BY DEF SessionInv, TurnsInv
    <2>5. UNCHANGED calls \/ pc = "idle"
      BY <2>3, <2>4
    <2>6. CASE UNCHANGED calls
      BY <1>4, <2>1, <2>2, <2>6
    <2>7. CASE pc = "idle"
      BY <1>2, <2>1, <2>7 DEF ToldInv
    <2>. QED  BY <2>5, <2>6, <2>7
  <1>8. CASE Quits \/ Killed
    <2>1. pc = "idle" /\ UNCHANGED <<pc, attempt, reply>>
      BY <1>8 DEF Quits, Killed, Ends, vars
    <2>. QED  BY <1>2, <2>1 DEF ToldInv
  <1>. QED  BY <1>5, <1>6, <1>7, <1>8, SessionSteps

(* For any scene, any instruction and any faults of the model server: a plan *)
(* the rules make of an instruction as it was given ends at a place that is  *)
(* named in full after its last "to" (FakeBackend._destination), also when   *)
(* the object to be fetched or pushed stands in another one.                 *)
THEOREM RulesHeedTo == SessionSpec => []FirstPlanGoesWhereTold
  <1>1. SessionInit => ToldInv
    <2>. SUFFICES ASSUME SessionInit PROVE ToldInv
      OBVIOUS
    <2>1. pc = "idle" /\ reply = NoReply
      BY DEF SessionInit, Init
    <2>2. NoReply.by = "none"
      BY DEF NoReply
    <2>. QED  BY <2>1, <2>2 DEF ToldInv
  <1>2. IInv /\ SessionInv /\ ToldInv /\ [SessionNext]_<<vars, sessionVars>> => ToldInv'
    BY ToldNext
  <1>3. ToldInv => FirstPlanGoesWhereTold
    <2>. SUFFICES ASSUME ToldInv, reply.by = "rules", attempt = 1, Told # {}
                  PROVE  EndsAt(calls.calls, Told)
      BY DEF FirstPlanGoesWhereTold, GoesWhereTold
    <2>1. calls.calls = PlanFor(text, Destination(text), Resolve(text, Objects))
      BY DEF ToldInv, RulesPlan
    <2>2. Destination(text) \in Told /\ Destination(text) # NoNode
      BY DestinationIsTold
    <2>. QED  BY <2>1, <2>2, PlanEndsThere
  <1>. QED  BY <1>1, <1>2, <1>3, SessionsPlan, Invariance, SessionInvariance, PTL DEF SessionSpec
=============================================================================
