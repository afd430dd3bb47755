------------------------ MODULE HospitalServerProofs ------------------------
(***************************************************************************)
(* Invariance proofs about HospitalServer, for every number of             *)
(* instructions, skills and interrupts: no work is carried over, no        *)
(* instruction is left unanswered but by an interrupt of its drive or of   *)
(* the loop that waited for it, and a server closed by its window does not *)
(* pass for a ready one.                                                   *)
(***************************************************************************)
EXTENDS HospitalServer, SequenceTheorems, TLAPS

(* The handler's place in its plan, and its instruction is the last taken.   *)
HandlerInv ==
  /\ handler.instr = taken
  /\ handler.pc # "dead" => taken \in Instr
  /\ handler.pc \in {"step", "future"} => handler.step \in 1..(handler.last + 1)
  /\ handler.pc = "future" => handler.step <= handler.last
  /\ handler.pc = "unbusy" => handler.instr \in published

(* Where the main thread may be while a handler runs, and from where it came *)
(* there; no simulator work of an instruction before is left on it.          *)
MainInv ==
  /\ main.pc = "poll" => bridge = <<>>
  /\ Alive => main.pc \notin {"poll", "drain"} /\ main.from # "drain"
  /\ main.pc = "call" => main.from \in {"wait", "drain"} /\ main.runs \in Skills
  /\ main.pc # "call" => main.runs = <<>>
  /\ Alive => main.pc # "exited"
  /\ main.pc \in {"stopping", "stopped"} /\ Alive => main.from = "wait"
  /\ main.runs # <<>> => main.runs[1] = handler.instr
  /\ \A i \in 1..Len(bridge) : bridge[i][1] = handler.instr
  /\ main.pc \in {"stopping", "stopped", "exited"} /\ interrupts = 0 => ~Alive
  /\ main.pc \in {"stopped", "exited"} /\ interrupts = 0 => ~status.ready

(* A skill is submitted once: those of the plan's steps ahead are not yet,   *)
(* those in the queue are waiting there once each, and a skill has an answer *)
(* only when it is done.                                                     *)
SkillInv ==
  /\ \A i \in Instr, k \in 1..MaxSkills :
       skill[<<i, k>>] # "none" =>
         /\ i <= taken
         /\ i = taken /\ handler.pc = "step" => k < handler.step
         /\ i = taken /\ handler.pc = "future" => k <= handler.step
         /\ i = taken => handler.pc \notin {"announce", "parse"}
  /\ \A i \in 1..Len(bridge) : skill[bridge[i]] = "queued"
  /\ \A i, j \in 1..Len(bridge) : bridge[i] = bridge[j] => i = j
  /\ main.pc = "call" => skill[main.runs] = "driving"
  /\ \A s \in Skills : skill[s] = "done" <=> box[s] # "empty"

IInv == TypeOK /\ HandlerInv /\ MainInv /\ SkillInv /\ UnansweredWasInterrupted

-----------------------------------------------------------------------------
(* The step a handler is at is a skill of its instruction.                   *)
LEMMA MineIsSkill ==
  ASSUME IInv, handler.pc \in {"step", "future"}, handler.step <= handler.last
  PROVE  /\ Mine \in Skills /\ Mine[1] = handler.instr
         /\ handler.instr = taken /\ taken \in Instr /\ handler.step \in 1..MaxSkills
<1>1. handler.instr = taken /\ taken \in Instr /\ handler.step \in 1..(handler.last + 1)
  BY DEF IInv, HandlerInv
<1>2. handler.last \in 0..MaxSkills /\ MaxSkills \in Nat
  BY InstrAssumption DEF IInv, TypeOK
<1>3. handler.step \in 1..MaxSkills
  BY <1>1, <1>2
<1> QED BY <1>1, <1>3 DEF Mine, Skills

(* A step that ends no handler, takes no instruction and takes no interrupt  *)
(* back leaves what is unanswered interrupted.                               *)
LEMMA UnansweredKept ==
  ASSUME IInv, taken' = taken, handler'.instr = handler.instr,
         published \subseteq published',
         handler'.pc # "dead" \/ handler.pc = "dead" \/ handler.instr \in published'
           \/ (handler.instr \in Instr
               /\ \E k \in 1..MaxSkills : box[<<handler.instr, k>>] = "interrupt"),
         \A i \in Instr, k \in 1..MaxSkills :
            box[<<i, k>>] = "interrupt" => box'[<<i, k>>] = "interrupt",
         main.pc = "exited" => main' = main
  PROVE  UnansweredWasInterrupted'
<1> SUFFICES ASSUME NEW i \in 1..taken, ~Alive' \/ handler'.instr # i
             PROVE  \/ i \in published'
                    \/ \E k \in 1..MaxSkills : box'[<<i, k>>] = "interrupt"
                    \/ i = taken /\ main'.pc = "exited" /\ main'.from = "wait"
  BY DEF UnansweredWasInterrupted, At
<1>1. i \in Instr
  BY InstrAssumption DEF IInv, TypeOK, Instr
<1>2. CASE handler.pc = "dead" \/ handler.instr # i
  BY <1>1, <1>2 DEF IInv, UnansweredWasInterrupted, Alive, At
<1>3. CASE handler.pc # "dead" /\ handler.instr = i
  BY <1>1, <1>3 DEF Alive
<1> QED BY <1>2, <1>3

(* The server starts in the invariant. *)
LEMMA InitInv == Init => IInv
<1> SUFFICES ASSUME Init PROVE IInv
  OBVIOUS
<1>1. bridge = <<>> /\ Len(bridge) = 0 /\ bridge \in Seq(Skills)
  BY DEF Init
<1>2. /\ main \in [pc : {"poll", "wait", "call", "drain", "stopping", "stopped", "exited"},
                   runs : Skills \cup {<<>>}, from : {"poll", "wait", "drain", "none"}]
      /\ handler \in [pc : {"dead", "announce", "parse", "step", "future", "publish", "unbusy"},
                      instr : 0..MaxInstr, step : 0..(MaxSkills + 1), last : 0..MaxSkills]
  BY InstrAssumption DEF Init
<1>3. /\ skill \in [Skills -> SkillPhase] /\ box \in [Skills -> Result \cup {"empty"}]
      /\ taken \in 0..MaxInstr /\ interrupts \in 0..MaxInterrupts
      /\ status \in [ready : BOOLEAN, busy : BOOLEAN]
  BY InstrAssumption, InterruptsAssumption DEF Init, SkillPhase
<1>4. TypeOK
  BY <1>1, <1>2, <1>3 DEF Init, TypeOK
<1>5. HandlerInv /\ MainInv
  BY <1>1 DEF Init, HandlerInv, MainInv, Alive
<1>6. SkillInv
  BY <1>1 DEF Init, SkillInv, Skills
<1>7. UnansweredWasInterrupted
  BY DEF Init, UnansweredWasInterrupted
<1> QED BY <1>4, <1>5, <1>6, <1>7 DEF IInv

-----------------------------------------------------------------------------
(* The main thread.                                                          *)

(* Taking an instruction preserves the invariant. *)
LEMMA TakeInv == IInv /\ TakeInstruction => IInv'
<1> SUFFICES ASSUME IInv, TakeInstruction PROVE IInv'
  OBVIOUS
<1>1. /\ main.pc = "poll" /\ bridge = <<>> /\ Len(bridge) = 0 /\ ~Alive
      /\ taken' = taken + 1 /\ taken < MaxInstr
      /\ handler' = [pc |-> "announce", instr |-> taken + 1, step |-> 0, last |-> 0]
      /\ main' = [pc |-> "wait", runs |-> <<>>, from |-> "none"]
      /\ UNCHANGED <<bridge, skill, box, published, status, window, interrupts>>
  BY DEF TakeInstruction, At, Goto, IInv, MainInv
<1>2. taken + 1 \in Instr /\ taken + 1 \in 0..MaxInstr /\ taken \in Nat
  BY <1>1, InstrAssumption DEF IInv, TypeOK, Instr
<1>3. handler' \in [pc : {"dead", "announce", "parse", "step", "future", "publish", "unbusy"},
                   instr : 0..MaxInstr, step : 0..(MaxSkills + 1), last : 0..MaxSkills]
  BY <1>1, <1>2, InstrAssumption
<1>4. TypeOK'
  BY <1>1, <1>2, <1>3 DEF IInv, TypeOK
<1>5. HandlerInv' /\ MainInv'
  BY <1>1, <1>2 DEF HandlerInv, MainInv, Alive
<1>6. SkillInv'
  BY <1>1, <1>2 DEF IInv, SkillInv, Instr
<1>7. UnansweredWasInterrupted'
  <2> SUFFICES ASSUME NEW i \in 1..taken', handler'.instr # i
               PROVE  i \in published \/ \E k \in 1..MaxSkills : box[<<i, k>>] = "interrupt"
    BY <1>1 DEF UnansweredWasInterrupted, Alive
  <2>1. i \in 1..taken
    BY <1>1, <1>2
  <2> QED BY <1>1, <2>1 DEF IInv, UnansweredWasInterrupted, At
<1> QED BY <1>4, <1>5, <1>6, <1>7 DEF IInv

(* The main thread goes on without touching the bridge or a skill.           *)
LEMMA MainGoesInv ==
  ASSUME IInv, WindowGone \/ HandlerGone \/ Drained \/ PublishDown
  PROVE  IInv'
<1>1. /\ main' \in [pc : {"poll", "drain", "stopping", "stopped"}, runs : {<<>>},
                    from : {"poll", "wait", "drain", "none"}]
      /\ main.pc # "exited"
      /\ main'.pc = "stopped" => ~status'.ready
      /\ main'.pc = "poll" => bridge = <<>>
      /\ main'.pc \in {"poll", "drain"} => ~Alive
      /\ Alive => main'.from = "wait"
      /\ main'.pc \in {"stopping", "stopped"} /\ interrupts = 0 => ~Alive
      /\ status' \in [ready : BOOLEAN, busy : BOOLEAN]
      /\ UNCHANGED <<handler, bridge, skill, box, taken, published, window, interrupts>>
  <2>1. CASE WindowGone
    BY <2>1 DEF WindowGone, At, Goto, IInv, MainInv, TypeOK
  <2>2. CASE HandlerGone
    BY <2>2 DEF HandlerGone, At, Goto, IInv, TypeOK
  <2>3. CASE Drained
    BY <2>3 DEF Drained, At, Goto, IInv, MainInv, TypeOK
  <2>4. CASE PublishDown
    <3>1. main.pc = "stopping" /\ main.runs = <<>> /\ main' = [main EXCEPT !.pc = "stopped"]
      BY <2>4 DEF PublishDown, At, IInv, MainInv
    <3>2. main'.pc = "stopped" /\ main'.runs = <<>> /\ main'.from = main.from
          /\ main' \in [pc : {"stopped"}, runs : {<<>>}, from : {"poll", "wait", "drain", "none"}]
      BY <3>1 DEF IInv, TypeOK
    <3> QED BY <2>4, <3>1, <3>2 DEF PublishDown, IInv, MainInv
  <2> QED BY <2>1, <2>2, <2>3, <2>4
<1>2. TypeOK'
  BY <1>1 DEF IInv, TypeOK
<1>3. HandlerInv'
  BY <1>1 DEF IInv, HandlerInv
<1>4. MainInv'
  BY <1>1 DEF IInv, MainInv, Alive
<1>5. SkillInv'
  BY <1>1 DEF IInv, SkillInv
<1>6. UnansweredWasInterrupted'
  BY <1>1 DEF IInv, UnansweredWasInterrupted, Alive, At
<1> QED BY <1>2, <1>3, <1>4, <1>5, <1>6 DEF IInv

(* The process ends: the handler, if there is one, dies with the main thread *)
(* that was interrupted while it waited for it.                              *)
LEMMA ExitInv == IInv /\ Exit => IInv'
<1> SUFFICES ASSUME IInv, Exit PROVE IInv'
  OBVIOUS
<1>1. /\ main.pc = "stopped" /\ main.runs = <<>>
      /\ main' = [main EXCEPT !.pc = "exited"]
      /\ handler' = [handler EXCEPT !.pc = "dead"]
      /\ bridge' = <<>> /\ Len(bridge') = 0 /\ bridge' \in Seq(Skills)
      /\ skill' = [s \in Skills |-> IF skill[s] = "done" THEN "done" ELSE "none"]
      /\ UNCHANGED <<box, taken, published, status, window, interrupts>>
  BY DEF Exit, At, IInv, MainInv
<1>2. /\ main'.pc = "exited" /\ main'.runs = <<>> /\ main'.from = main.from
      /\ handler'.pc = "dead" /\ handler'.instr = handler.instr
  BY <1>1 DEF IInv, TypeOK
<1>3. TypeOK'
  BY <1>1 DEF IInv, TypeOK, SkillPhase
<1>4. HandlerInv'
  BY <1>1, <1>2 DEF IInv, HandlerInv
<1>5. MainInv'
  BY <1>1, <1>2 DEF IInv, MainInv, Alive
<1>6. SkillInv'
  <2>1. \A i \in Instr, k \in 1..MaxSkills :
          <<i, k>> \in Skills /\ (skill'[<<i, k>>] # "none" => skill[<<i, k>>] # "none")
    BY <1>1 DEF Skills
  <2>2. \A s \in Skills : skill'[s] = "done" <=> box'[s] # "empty"
    BY <1>1 DEF IInv, SkillInv
  <2> QED BY <1>1, <1>2, <2>1, <2>2 DEF IInv, SkillInv
<1>7. UnansweredWasInterrupted'
  <2> SUFFICES ASSUME NEW i \in 1..taken
               PROVE  \/ i \in published
                      \/ \E k \in 1..MaxSkills : box[<<i, k>>] = "interrupt"
                      \/ i = taken /\ main'.pc = "exited" /\ main'.from = "wait"
    BY <1>1 DEF UnansweredWasInterrupted, At
  <2>1. CASE Alive /\ handler.instr = i
    BY <1>1, <1>2, <2>1 DEF IInv, MainInv, HandlerInv
  <2>2. CASE ~Alive \/ handler.instr # i
    BY <1>1, <2>2 DEF IInv, UnansweredWasInterrupted, At
  <2> QED BY <2>1, <2>2
<1> QED BY <1>3, <1>4, <1>5, <1>6, <1>7 DEF IInv

(* The oldest callable of the bridge is run.                                 *)
LEMMA PumpStartsInv == IInv /\ PumpStarts => IInv'
<1> SUFFICES ASSUME IInv, PumpStarts PROVE IInv'
  OBVIOUS
<1> DEFINE h == Head(bridge)
<1>1. /\ main.pc \in {"wait", "drain"} /\ (main.pc = "drain" => ~Alive)
      /\ bridge # <<>> /\ bridge \in Seq(Skills)
      /\ main' = [pc |-> "call", runs |-> h, from |-> main.pc]
      /\ bridge' = Tail(bridge)
      /\ skill' = [skill EXCEPT ![h] = "driving"]
      /\ UNCHANGED <<handler, box, taken, published, status, window, interrupts>>
  BY DEF PumpStarts, At, IInv, MainInv, TypeOK
<1>2. /\ h = bridge[1] /\ h \in Skills /\ 1 \in 1..Len(bridge)
      /\ bridge' \in Seq(Skills) /\ Len(bridge') = Len(bridge) - 1
      /\ \A i \in 1..Len(bridge') : i + 1 \in 1..Len(bridge) /\ bridge'[i] = bridge[i + 1]
  BY <1>1
<1>3. h[1] = handler.instr /\ skill[h] = "queued" /\ box[h] = "empty"
  <2>2. h[1] = handler.instr /\ skill[h] = "queued"
    BY <1>2 DEF IInv, MainInv, SkillInv
  <2>3. box[h] = "empty"
    BY <1>2, <2>2 DEF IInv, SkillInv
  <2> QED BY <2>2, <2>3
<1> HIDE DEF h
<1>4. TypeOK'
  <2>1. skill' \in [Skills -> SkillPhase]
    BY <1>1 DEF IInv, TypeOK, SkillPhase
  <2> QED BY <1>1, <1>2, <2>1 DEF IInv, TypeOK
<1>5. HandlerInv'
  BY <1>1 DEF IInv, HandlerInv
<1>6. MainInv'
  BY <1>1, <1>2, <1>3 DEF IInv, MainInv, Alive
<1>7. SkillInv'
  <2>1. \A s \in Skills : skill'[s] = IF s = h THEN "driving" ELSE skill[s]
    BY <1>1 DEF IInv, TypeOK
  <2>2. \A i \in Instr, k \in 1..MaxSkills : <<i, k>> \in Skills
    BY DEF Skills
  <2>3. \A i \in 1..Len(bridge') : bridge'[i] \in Skills /\ bridge'[i] # h
                                  /\ skill[bridge'[i]] = "queued"
    <3> TAKE i \in 1..Len(bridge')
    <3>1. i + 1 \in 1..Len(bridge) /\ bridge'[i] = bridge[i + 1] /\ i + 1 # 1
      BY <1>2
    <3>2. bridge[i + 1] # bridge[1] /\ skill[bridge[i + 1]] = "queued"
      BY <1>2, <3>1 DEF IInv, SkillInv
    <3>3. bridge[i + 1] \in Skills
      BY <1>1, <3>1
    <3> QED BY <1>2, <3>1, <3>2, <3>3
  <2>4. \A i \in Instr, k \in 1..MaxSkills :
          skill'[<<i, k>>] # "none" => skill[<<i, k>>] # "none"
    BY <1>3, <2>1, <2>2
  <2>5. \A i, j \in 1..Len(bridge') : bridge'[i] = bridge'[j] => i = j
    <3> SUFFICES ASSUME NEW i \in 1..Len(bridge'), NEW j \in 1..Len(bridge'),
                        bridge'[i] = bridge'[j]
                 PROVE  i = j
      OBVIOUS
    <3>1. i + 1 = j + 1
      BY <1>2 DEF IInv, SkillInv
    <3> QED BY <3>1
  <2>6. \A s \in Skills : skill'[s] = "done" <=> box'[s] # "empty"
    BY <1>1, <1>3, <2>1 DEF IInv, SkillInv
  <2>7. \A i \in 1..Len(bridge') : skill'[bridge'[i]] = "queued"
    BY <2>1, <2>3
  <2>8. skill'[main'.runs] = "driving"
    BY <1>1, <1>2, <2>1
  <2>9. \A i \in Instr, k \in 1..MaxSkills :
          skill'[<<i, k>>] # "none" =>
            /\ i <= taken'
            /\ i = taken' /\ handler'.pc = "step" => k < handler'.step
            /\ i = taken' /\ handler'.pc = "future" => k <= handler'.step
            /\ i = taken' => handler'.pc \notin {"announce", "parse"}
    BY <1>1, <2>4 DEF IInv, SkillInv
  <2> QED BY <2>5, <2>6, <2>7, <2>8, <2>9 DEF SkillInv
<1>8. UnansweredWasInterrupted'
  BY <1>1 DEF IInv, UnansweredWasInterrupted, Alive, At
<1> QED BY <1>4, <1>5, <1>6, <1>7, <1>8 DEF IInv

(* What an answer given to a skill that had none disturbs.                   *)
LEMMA AnswerInv ==
  ASSUME IInv, NEW s \in Skills, NEW result \in Result,
         skill[s] \in {"driving", "working"},
         main.pc = "call" => main.runs = s \/ main' = main,
         box' = [box EXCEPT ![s] = result],
         skill' = [skill EXCEPT ![s] = "done"],
         \/ main' = main /\ skill[s] = "working"
         \/ main' = [pc |-> main.from, runs |-> <<>>, from |-> "none"] /\ main.pc = "call",
         UNCHANGED <<handler, bridge, taken, published, status, window>>,
         interrupts' \in 0..MaxInterrupts, interrupts' = 0 => interrupts = 0
  PROVE  IInv'
<1>1. /\ \A t \in Skills : skill'[t] = IF t = s THEN "done" ELSE skill[t]
      /\ \A t \in Skills : box'[t] = IF t = s THEN result ELSE box[t]
      /\ box[s] = "empty"
  BY DEF IInv, TypeOK, SkillInv
<1>2. /\ main' = main \/ (main'.pc \in {"wait", "drain"} /\ main'.runs = <<>> /\ main'.from = "none")
      /\ main'.pc = "drain" => ~Alive \/ main.pc = "drain"
      /\ main' \in [pc : {"poll", "wait", "call", "drain", "stopping", "stopped", "exited"},
                    runs : Skills \cup {<<>>}, from : {"poll", "wait", "drain", "none"}]
      /\ main.pc = "exited" => main' = main
  BY DEF IInv, TypeOK, MainInv
<1>3. TypeOK'
  <2>1. skill' \in [Skills -> SkillPhase] /\ box' \in [Skills -> Result \cup {"empty"}]
    BY DEF IInv, TypeOK, SkillPhase
  <2> QED BY <1>2, <2>1 DEF IInv, TypeOK
<1>4. HandlerInv'
  BY DEF IInv, HandlerInv
<1>5. MainInv'
  BY <1>2 DEF IInv, MainInv, Alive
<1>6. SkillInv'
  <2>1. \A i \in Instr, k \in 1..MaxSkills : <<i, k>> \in Skills
    BY DEF Skills
  <2>2. \A i \in Instr, k \in 1..MaxSkills :
          skill'[<<i, k>>] # "none" => skill[<<i, k>>] # "none"
    BY <1>1, <2>1
  <2>3. \A i \in 1..Len(bridge) : bridge[i] \in Skills
    BY DEF IInv, TypeOK
  <2>4. \A i \in 1..Len(bridge') : skill'[bridge'[i]] = "queued"
    BY <1>1, <2>3 DEF IInv, SkillInv
  <2>5. main'.pc = "call" => skill'[main'.runs] = "driving"
    <3> SUFFICES ASSUME main'.pc = "call" PROVE skill'[main'.runs] = "driving"
      OBVIOUS
    <3>1. main' = main /\ skill[s] = "working" /\ skill[main.runs] = "driving"
      BY DEF IInv, TypeOK, SkillInv
    <3>2. main.runs \in Skills
      BY <3>1 DEF IInv, TypeOK, MainInv
    <3> QED BY <1>1, <3>1, <3>2
  <2>6. \A t \in Skills : skill'[t] = "done" <=> box'[t] # "empty"
    BY <1>1 DEF IInv, SkillInv, Result
  <2>7. \A i, j \in 1..Len(bridge') : bridge'[i] = bridge'[j] => i = j
    BY DEF IInv, SkillInv
  <2>8. \A i \in Instr, k \in 1..MaxSkills :
          skill'[<<i, k>>] # "none" =>
            /\ i <= taken'
            /\ i = taken' /\ handler'.pc = "step" => k < handler'.step
            /\ i = taken' /\ handler'.pc = "future" => k <= handler'.step
            /\ i = taken' => handler'.pc \notin {"announce", "parse"}
    BY <2>2 DEF IInv, SkillInv
  <2> QED BY <2>4, <2>5, <2>6, <2>7, <2>8 DEF SkillInv
<1>7. UnansweredWasInterrupted'
  <2>1. \A i \in Instr, k \in 1..MaxSkills :
          box[<<i, k>>] = "interrupt" => box'[<<i, k>>] = "interrupt"
    BY <1>1 DEF Skills
  <2> QED BY <1>2, <2>1, UnansweredKept
<1> QED BY <1>3, <1>4, <1>5, <1>6, <1>7 DEF IInv

(* The callable that ran returns, or an interrupt ends it.                   *)
LEMMA PumpEndsInv ==
  ASSUME IInv, NEW result \in {"ok", "fail"}, PumpEnds(result)
  PROVE  IInv'
<1>1. main.pc = "call" /\ main.runs \in Skills /\ skill[main.runs] = "driving"
  BY DEF PumpEnds, At, IInv, MainInv, SkillInv, TypeOK
<1>2. interrupts' \in 0..MaxInterrupts
  BY DEF PumpEnds, IInv, TypeOK
<1> QED BY <1>1, <1>2, AnswerInv DEF PumpEnds, Goto, Result

(* The end of a skill, however it ends, preserves the invariant. *)
LEMMA WorkEndsInv ==
  ASSUME IInv, NEW s \in Skills, NEW result \in {"ok", "fail"}, WorkEnds(s, result)
  PROVE  IInv'
<1>1. interrupts' \in 0..MaxInterrupts
  BY DEF WorkEnds, IInv, TypeOK
<1> QED BY <1>1, AnswerInv DEF WorkEnds, Result

(* An interrupt preserves the invariant. *)
LEMMA InterruptInv == IInv /\ Interrupt => IInv'
<1> SUFFICES ASSUME IInv, Interrupt PROVE IInv'
  OBVIOUS
<1>1. interrupts' \in 1..MaxInterrupts /\ interrupts' \in 0..MaxInterrupts
  BY InterruptsAssumption DEF Interrupt, IInv, TypeOK
<1>2. CASE At("call")
  <2>1. main.pc = "call" /\ main.runs \in Skills /\ skill[main.runs] = "driving"
    BY <1>2 DEF At, IInv, MainInv, SkillInv, TypeOK
  <2>2. interrupts' # 0
    BY <1>1
  <2> QED BY <1>1, <1>2, <2>1, <2>2, AnswerInv DEF Interrupt, Goto, Result
<1>3. CASE ~At("call")
  <2>1. /\ main.pc \in {"poll", "wait", "drain"}
        /\ main' = [pc |-> "stopping", runs |-> <<>>, from |-> main.pc]
        /\ UNCHANGED <<handler, bridge, skill, box, taken, published, status, window>>
    BY <1>3 DEF Interrupt
  <2>2. TypeOK'
    BY <1>1, <2>1 DEF IInv, TypeOK
  <2>3. HandlerInv'
    BY <2>1 DEF IInv, HandlerInv
  <2>4. MainInv'
    BY <1>1, <2>1 DEF IInv, MainInv, Alive
  <2>5. SkillInv'
    BY <2>1 DEF IInv, SkillInv
  <2>6. UnansweredWasInterrupted'
    BY <2>1 DEF IInv, UnansweredWasInterrupted, Alive, At
  <2> QED BY <2>2, <2>3, <2>4, <2>5, <2>6 DEF IInv
<1> QED BY <1>2, <1>3

-----------------------------------------------------------------------------
(* The handler.                                                              *)

(* The handler goes on without submitting a skill.                           *)
LEMMA HandlerGoesInv ==
  ASSUME IInv, Announce \/ Collect \/ TimeOut \/ PlanDone \/ PublishResult \/ AnnounceIdle
  PROVE  IInv'
<1>1. /\ Alive /\ handler.instr = taken /\ taken \in Instr
      /\ UNCHANGED <<main, bridge, skill, box, taken, window, interrupts>>
  BY DEF Announce, Collect, TimeOut, PlanDone, PublishResult, AnnounceIdle, Alive, IInv, HandlerInv
<1>2. /\ published' \subseteq Instr /\ published \subseteq published'
      /\ status' \in [ready : BOOLEAN, busy : BOOLEAN]
  <2>1. published \subseteq Instr /\ status \in [ready : BOOLEAN, busy : BOOLEAN]
    BY DEF IInv, TypeOK
  <2>2. CASE Announce \/ AnnounceIdle
    <3>1. published' = published
      BY <2>2 DEF Announce, AnnounceIdle
    <3>2. PICK r \in BOOLEAN, b \in BOOLEAN : status' = [ready |-> r, busy |-> b]
      BY <2>2 DEF Announce, AnnounceIdle
    <3>3. status' \in [ready : BOOLEAN, busy : BOOLEAN]
      BY <3>2
    <3> QED BY <2>1, <3>1, <3>3
  <2>3. CASE Collect \/ TimeOut \/ PlanDone \/ PublishResult
    BY <1>1, <2>1, <2>3 DEF Collect, TimeOut, PlanDone, PublishResult
  <2> QED BY <2>2, <2>3
<1>3. /\ handler' \in [pc : {"dead", "announce", "parse", "step", "future", "publish", "unbusy"},
                       instr : 0..MaxInstr, step : 0..(MaxSkills + 1), last : 0..MaxSkills]
      /\ handler'.instr = handler.instr /\ handler'.last = handler.last
  <2>1. handler \in [pc : {"dead", "announce", "parse", "step", "future", "publish", "unbusy"},
                     instr : 0..MaxInstr, step : 0..(MaxSkills + 1), last : 0..MaxSkills]
    BY DEF IInv, TypeOK
  <2>2. CASE Collect
    <3>1. handler.step + 1 \in 0..(MaxSkills + 1)
      BY <2>2, MineIsSkill, InstrAssumption DEF Collect, IInv, HandlerInv
    <3>2. box[Mine] \in Result
      BY <2>2, MineIsSkill DEF Collect, IInv, HandlerInv, SkillInv, TypeOK
    <3> QED BY <2>1, <2>2, <3>1, <3>2 DEF Collect, Result
  <2>3. CASE Announce \/ TimeOut \/ PlanDone \/ PublishResult \/ AnnounceIdle
    BY <2>1, <2>3 DEF Announce, TimeOut, PlanDone, PublishResult, AnnounceIdle, HandlerGoto
  <2> QED BY <2>2, <2>3
<1>4. \/ handler'.pc \in {"parse", "publish"} /\ (handler'.pc = "parse" => handler.pc = "announce")
      \/ handler'.pc = "unbusy" /\ handler.instr \in published'
      \/ handler'.pc = "dead" /\ handler.instr \in published'
      \/ /\ handler'.pc = "dead"
         /\ \E k \in 1..MaxSkills : box[<<handler.instr, k>>] = "interrupt"
      \/ handler'.pc = "step" /\ handler'.step = handler.step + 1 /\ handler.pc = "future"
  <2>1. CASE Collect
    <3>1. /\ handler.step \in 1..MaxSkills /\ box[Mine] \in Result /\ handler.pc = "future"
      BY <2>1, MineIsSkill DEF Collect, IInv, HandlerInv, SkillInv, TypeOK
    <3>2. handler \in [pc : {"dead", "announce", "parse", "step", "future", "publish", "unbusy"},
                       instr : 0..MaxInstr, step : 0..(MaxSkills + 1), last : 0..MaxSkills]
      BY DEF IInv, TypeOK
    <3> QED BY <2>1, <3>1, <3>2 DEF Collect, Result, Mine
  <2>2. CASE Announce \/ TimeOut \/ PlanDone
    BY <2>2 DEF Announce, TimeOut, PlanDone, HandlerGoto, IInv, TypeOK
  <2>3. CASE PublishResult \/ AnnounceIdle
    BY <2>3 DEF PublishResult, AnnounceIdle, HandlerGoto, IInv, TypeOK, HandlerInv
  <2> QED BY <2>1, <2>2, <2>3
<1>5. TypeOK'
  BY <1>1, <1>2, <1>3 DEF IInv, TypeOK
<1>6. HandlerInv'
  <2>1. handler.pc = "future" => handler.step + 1 \in 1..(handler.last + 1)
    BY InstrAssumption DEF IInv, HandlerInv, TypeOK
  <2> QED BY <1>1, <1>3, <1>4, <2>1 DEF IInv, HandlerInv, Alive
<1>7. MainInv'
  <2>1. main.pc \in {"stopping", "stopped", "exited"} => interrupts # 0
    BY <1>1 DEF IInv, MainInv
  <2> QED BY <1>1, <1>3, <2>1 DEF IInv, MainInv, Alive
<1>8. SkillInv'
  <2>1. \A i \in Instr, k \in 1..MaxSkills :
          skill[<<i, k>>] # "none" =>
            /\ i = taken /\ handler'.pc = "step" => k < handler'.step
            /\ handler'.pc # "future" /\ handler'.pc # "announce"
            /\ i = taken => handler'.pc # "parse"
    BY <1>4, InstrAssumption DEF IInv, SkillInv, TypeOK
  <2> QED BY <1>1, <2>1 DEF IInv, SkillInv
<1>9. UnansweredWasInterrupted'
  BY <1>1, <1>2, <1>3, <1>4, UnansweredKept
<1> QED BY <1>5, <1>6, <1>7, <1>8, <1>9 DEF IInv

(* Parsing, well or badly, preserves the invariant. *)
LEMMA ParseInv ==
  ASSUME IInv, NEW last \in 0..MaxSkills, Parse(last)
  PROVE  IInv'
<1>1. /\ handler.pc = "parse" /\ Alive
      /\ handler' = [handler EXCEPT !.pc = IF last = 0 THEN "publish" ELSE "step",
                                   !.step = 1, !.last = last]
      /\ UNCHANGED <<main, bridge, skill, box, taken, published, status, window, interrupts>>
  BY DEF Parse, Alive
<1>2. /\ handler' \in [pc : {"dead", "announce", "parse", "step", "future", "publish", "unbusy"},
                       instr : 0..MaxInstr, step : 0..(MaxSkills + 1), last : 0..MaxSkills]
      /\ handler'.instr = handler.instr /\ handler'.step = 1 /\ handler'.last = last
      /\ handler'.pc \in {"publish", "step"}
  <2>1. 1 \in 0..(MaxSkills + 1) /\ last \in 0..MaxSkills
    BY InstrAssumption
  <2>2. handler \in [pc : {"dead", "announce", "parse", "step", "future", "publish", "unbusy"},
                     instr : 0..MaxInstr, step : 0..(MaxSkills + 1), last : 0..MaxSkills]
    BY DEF IInv, TypeOK
  <2> QED BY <1>1, <2>1, <2>2
<1>3. TypeOK'
  BY <1>1, <1>2 DEF IInv, TypeOK
<1>4. HandlerInv'
  BY <1>1, <1>2 DEF IInv, HandlerInv, Alive
<1>5. MainInv'
  BY <1>1, <1>2 DEF IInv, MainInv, Alive
<1>6. SkillInv'
  BY <1>1, <1>2 DEF IInv, SkillInv
<1>7. UnansweredWasInterrupted'
  BY <1>1, <1>2, UnansweredKept
<1> QED BY <1>3, <1>4, <1>5, <1>6, <1>7 DEF IInv

(* A skill of the plan is started, in the queue or on its own thread.        *)
LEMMA SubmitInv == IInv /\ (SubmitDrive \/ SubmitWork) => IInv'
<1> SUFFICES ASSUME IInv, SubmitDrive \/ SubmitWork PROVE IInv'
  OBVIOUS
<1>1. /\ handler.pc = "step" /\ handler.step <= handler.last /\ Alive
      /\ handler' = [handler EXCEPT !.pc = "future"]
      /\ UNCHANGED <<main, box, taken, published, status, window, interrupts>>
      /\ \/ skill' = [skill EXCEPT ![Mine] = "queued"] /\ bridge' = Append(bridge, Mine)
         \/ skill' = [skill EXCEPT ![Mine] = "working"] /\ bridge' = bridge
  BY DEF SubmitDrive, SubmitWork, HandlerGoto, Alive
<1>2. /\ Mine \in Skills /\ Mine[1] = handler.instr /\ handler.instr = taken
      /\ taken \in Instr /\ handler.step \in 1..MaxSkills
      /\ Mine = <<taken, handler.step>>
  BY <1>1, MineIsSkill DEF Mine
<1>3. skill[Mine] = "none"
  <2>1. ~(handler.step < handler.step)
    BY <1>2
  <2> QED BY <1>1, <1>2, <2>1 DEF IInv, SkillInv
<1>4. /\ handler' \in [pc : {"dead", "announce", "parse", "step", "future", "publish", "unbusy"},
                       instr : 0..MaxInstr, step : 0..(MaxSkills + 1), last : 0..MaxSkills]
      /\ handler'.instr = handler.instr /\ handler'.step = handler.step
      /\ handler'.last = handler.last /\ handler'.pc = "future"
  BY <1>1 DEF IInv, TypeOK
<1>5. PICK label \in {"queued", "working"} : skill' = [skill EXCEPT ![Mine] = label]
  BY <1>1
<1>6. \A s \in Skills : s # Mine => skill'[s] = skill[s]
  BY <1>2, <1>5 DEF IInv, TypeOK
<1>7. skill'[Mine] = label
  BY <1>2, <1>5 DEF IInv, TypeOK
<1>8. bridge \in Seq(Skills) /\ bridge' \in Seq(Skills)
  <2>1. bridge \in Seq(Skills)
    BY DEF IInv, TypeOK
  <2>2. bridge' = bridge \/ bridge' = Append(bridge, Mine)
    BY <1>1
  <2>3. Mine \in Skills
    BY <1>2
  <2>4. Append(bridge, Mine) \in Seq(Skills)
    BY <2>1, <2>3, AppendProperties
  <2> QED BY <2>1, <2>2, <2>4
<1>9. \A i \in 1..Len(bridge) : bridge[i] \in Skills /\ bridge[i] # Mine
  BY <1>3, <1>8 DEF IInv, SkillInv
<1>10. TypeOK'
  <2>1. skill' \in [Skills -> SkillPhase]
    BY <1>5 DEF IInv, TypeOK, SkillPhase
  <2> QED BY <1>1, <1>4, <1>8, <2>1 DEF IInv, TypeOK
<1>11. HandlerInv'
  BY <1>1, <1>2, <1>4 DEF IInv, HandlerInv
<1>12. /\ \A i \in 1..Len(bridge') : bridge'[i][1] = handler.instr
       /\ \A i \in 1..Len(bridge') : skill'[bridge'[i]] = "queued"
       /\ \A i, j \in 1..Len(bridge') : bridge'[i] = bridge'[j] => i = j
       /\ main.pc # "poll"
  <2>1. main.pc # "poll"
    BY <1>1 DEF IInv, MainInv
  <2>2. CASE bridge' = bridge
    BY <1>6, <1>9, <2>1, <2>2 DEF IInv, MainInv, SkillInv
  <2>3. CASE skill' = [skill EXCEPT ![Mine] = "queued"] /\ bridge' = Append(bridge, Mine)
    <3>1. /\ Len(bridge') = Len(bridge) + 1 /\ Len(bridge) \in Nat
          /\ \A i \in 1..Len(bridge) : bridge'[i] = bridge[i]
          /\ bridge'[Len(bridge) + 1] = Mine
      BY <1>2, <1>8, <2>3
    <3>2. \A i \in 1..Len(bridge') : i \in 1..Len(bridge) \/ i = Len(bridge) + 1
      BY <3>1
    <3>3. skill'[Mine] = "queued"
      BY <1>2, <2>3 DEF IInv, TypeOK
    <3>4. \A i \in 1..Len(bridge') : bridge'[i][1] = handler.instr /\ skill'[bridge'[i]] = "queued"
      <4> TAKE i \in 1..Len(bridge')
      <4>1. CASE i \in 1..Len(bridge)
        BY <1>6, <1>9, <3>1, <4>1 DEF IInv, MainInv, SkillInv
      <4>2. CASE i = Len(bridge) + 1
        BY <1>2, <3>1, <3>3, <4>2
      <4> QED BY <3>2, <4>1, <4>2
    <3>5. \A i, j \in 1..Len(bridge') : bridge'[i] = bridge'[j] => i = j
      <4> SUFFICES ASSUME NEW i \in 1..Len(bridge'), NEW j \in 1..Len(bridge'),
                          bridge'[i] = bridge'[j]
                   PROVE  i = j
        OBVIOUS
      <4>1. CASE i \in 1..Len(bridge) /\ j \in 1..Len(bridge)
        BY <3>1, <4>1 DEF IInv, SkillInv
      <4>2. CASE i = Len(bridge) + 1 /\ j = Len(bridge) + 1
        BY <4>2
      <4>3. CASE i \in 1..Len(bridge) /\ j = Len(bridge) + 1
        BY <1>9, <3>1, <4>3
      <4>4. CASE i = Len(bridge) + 1 /\ j \in 1..Len(bridge)
        BY <1>9, <3>1, <4>4
      <4> QED BY <3>2, <4>1, <4>2, <4>3, <4>4
    <3> QED BY <2>1, <3>4, <3>5
  <2> QED BY <1>1, <2>2, <2>3
<1>13. MainInv'
  BY <1>1, <1>4, <1>12 DEF IInv, MainInv, Alive
<1>14. SkillInv'
  <2>1. \A i \in Instr, k \in 1..MaxSkills :
          skill'[<<i, k>>] # "none" =>
            /\ i <= taken
            /\ i = taken => k <= handler.step
    <3> SUFFICES ASSUME NEW i \in Instr, NEW k \in 1..MaxSkills, skill'[<<i, k>>] # "none"
                 PROVE  i <= taken /\ (i = taken => k <= handler.step)
      OBVIOUS
    <3>1. CASE <<i, k>> = Mine
      BY <1>2, <3>1, InstrAssumption DEF Instr
    <3>2. CASE <<i, k>> # Mine
      <4>1. skill[<<i, k>>] # "none"
        BY <1>6, <3>2 DEF Skills
      <4>2. i <= taken /\ (i = taken => k < handler.step)
        BY <1>1, <4>1 DEF IInv, SkillInv
      <4> QED BY <1>2, <4>2
    <3> QED BY <3>1, <3>2
  <2>2. main'.pc = "call" => skill'[main'.runs] = "driving"
    BY <1>1, <1>3, <1>6 DEF IInv, MainInv, SkillInv
  <2>3. \A s \in Skills : skill'[s] = "done" <=> box'[s] # "empty"
    BY <1>1, <1>2, <1>3, <1>6, <1>7 DEF IInv, SkillInv
  <2> QED BY <1>1, <1>4, <1>12, <2>1, <2>2, <2>3 DEF SkillInv
<1>15. UnansweredWasInterrupted'
  BY <1>1, <1>4, UnansweredKept
<1> QED BY <1>10, <1>11, <1>13, <1>14, <1>15 DEF IInv

(* Closing the window, or nothing at all, preserves the invariant. *)
LEMMA IdleInv == IInv /\ (CloseWindow \/ UNCHANGED vars) => IInv'
<1> SUFFICES ASSUME IInv, CloseWindow \/ UNCHANGED vars PROVE IInv'
  OBVIOUS
<1>1. /\ UNCHANGED <<main, handler, bridge, skill, box, taken, published, status, interrupts>>
      /\ window' \in BOOLEAN
  BY DEF CloseWindow, vars, IInv, TypeOK
<1> QED BY <1>1 DEF IInv, TypeOK, HandlerInv, MainInv, Alive, SkillInv, UnansweredWasInterrupted, At

(* Every step preserves the invariant.                                       *)
LEMMA NextInv == IInv /\ [Next]_vars => IInv'
<1> SUFFICES ASSUME IInv, [Next]_vars PROVE IInv'
  OBVIOUS
<1>1. CASE TakeInstruction
  BY <1>1, TakeInv
<1>2. CASE MainStep
  BY <1>2, MainGoesInv, PumpStartsInv, PumpEndsInv DEF MainStep
<1>3. CASE HandlerStep
  BY <1>3, HandlerGoesInv, SubmitInv, ParseInv DEF HandlerStep
<1>4. CASE TimeOut
  BY <1>4, HandlerGoesInv
<1>5. CASE Interrupt
  BY <1>5, InterruptInv
<1>6. ASSUME NEW s \in Skills, NEW result \in {"ok", "fail"}, WorkEnds(s, result)
      PROVE  IInv'
  BY <1>6, WorkEndsInv
<1>7. CASE CloseWindow \/ UNCHANGED vars
  BY <1>7, IdleInv
<1>8. CASE Exit
  BY <1>8, ExitInv
<1> QED BY <1>1, <1>2, <1>3, <1>4, <1>5, <1>6, <1>7, <1>8 DEF Next, Idle

-----------------------------------------------------------------------------
(* The inductive invariant holds of every run.                               *)
THEOREM Invariance == Spec => []IInv
<1> QED BY InitInv, NextInv, PTL DEF Spec

(* The server's variables keep their types; in particular the handler never  *)
(* leaves its plan.                                                          *)
THEOREM TypeCorrect == Spec => []TypeOK
<1>1. IInv => TypeOK
  BY DEF IInv
<1> QED BY <1>1, Invariance, PTL

(* No simulator work of one instruction is carried over to the next, however *)
(* many skills are abandoned.                                                *)
THEOREM NothingIsCarriedOver == Spec => []NoCarryover
<1>1. IInv => NoCarryover
  <2> SUFFICES ASSUME IInv, NEW s \in OnMain PROVE s[1] = handler.instr
    BY DEF NoCarryover
  <2>1. CASE s \in {bridge[i] : i \in 1..Len(bridge)}
    BY <2>1 DEF IInv, MainInv
  <2>2. CASE s \in {main.runs} \ {<<>>}
    BY <2>2 DEF IInv, MainInv
  <2> QED BY <2>1, <2>2 DEF OnMain
<1> QED BY <1>1, Invariance, PTL

(* An instruction is left without a result by an interrupt only: of one of   *)
(* its drives, or of the main loop that waited for its worker, which then    *)
(* dies with the process.                                                    *)
THEOREM OnlyInterruptsGoUnanswered == Spec => []UnansweredWasInterrupted
<1>1. IInv => UnansweredWasInterrupted
  BY DEF IInv
<1> QED BY <1>1, Invariance, PTL

(* A server that was closed by its window does not pass for a ready one.     *)
THEOREM ClosedStaysDown == Spec => []ClosedIsNotReady
<1>1. IInv => ClosedIsNotReady
  BY DEF IInv, MainInv, ClosedIsNotReady
<1> QED BY <1>1, Invariance, PTL
=============================================================================
