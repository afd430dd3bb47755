------------------------- MODULE ActionStreamProofs -------------------------
(***************************************************************************)
(* What holds of the hand's way to the robot for every number of teleop    *)
(* runs, delay, socket size and staleness, on both networks.               *)
(***************************************************************************)
EXTENDS ActionStream, SequenceTheorems, TLAPS

-----------------------------------------------------------------------------
(* A sequence without its i-th element.                                      *)
LEMMA RemoveAtFacts ==
  ASSUME NEW S, NEW s \in Seq(S), NEW i \in 1..Len(s)
  PROVE  /\ RemoveAt(s, i) \in Seq(S)
         /\ Len(RemoveAt(s, i)) = Len(s) - 1
         /\ \A j \in 1..Len(RemoveAt(s, i)) :
              RemoveAt(s, i)[j] = s[IF j < i THEN j ELSE j + 1]
  <1>. DEFINE front == SubSeq(s, 1, i - 1)
              back  == SubSeq(s, i + 1, Len(s))
  <1>1. RemoveAt(s, i) = front \o back
    BY DEF RemoveAt
  <1>2. /\ front \in Seq(S) /\ Len(front) = i - 1
        /\ \A j \in 1..(i - 1) : front[j] = s[j]
    OBVIOUS
  <1>3. /\ back \in Seq(S) /\ Len(back) = Len(s) - i
        /\ \A j \in 1..(Len(s) - i) : back[j] = s[i + j]
    OBVIOUS
  <1>. HIDE DEF front, back
  <1>4. /\ front \o back \in Seq(S) /\ Len(front \o back) = Len(front) + Len(back)
        /\ \A j \in 1..(Len(front) + Len(back)) :
             (front \o back)[j] = IF j <= Len(front) THEN front[j] ELSE back[j - Len(front)]
    BY <1>2, <1>3, ConcatProperties
  <1>5. Len(s) \in Nat /\ i \in Nat
    OBVIOUS
  <1>6. \A j \in 1..(Len(s) - 1) : (front \o back)[j] = s[IF j < i THEN j ELSE j + 1]
    <2> TAKE j \in 1..(Len(s) - 1)
    <2>1. CASE j < i
      BY <1>2, <1>3, <1>4, <1>5, <2>1
    <2>2. CASE j >= i
      <3>1. (front \o back)[j] = back[j - (i - 1)] /\ j - (i - 1) \in 1..(Len(s) - i)
        BY <1>2, <1>3, <1>4, <1>5, <2>2
      <3>2. back[j - (i - 1)] = s[j + 1]
        BY <1>3, <1>5, <3>1
      <3>. QED  BY <2>2, <3>1, <3>2
    <2>3. j < i \/ j >= i
      BY <1>5
    <2>. QED  BY <2>1, <2>2, <2>3
  <1>7. Len(front \o back) = Len(s) - 1
    BY <1>2, <1>3, <1>4, <1>5
  <1>. QED  BY <1>1, <1>4, <1>6, <1>7

(* The first element of a sequence and what follows it.                      *)
LEMMA TailFacts ==
  ASSUME NEW S, NEW s \in Seq(S), s # <<>>
  PROVE  /\ Head(s) = s[1] /\ Head(s) \in S /\ 1 \in 1..Len(s)
         /\ Tail(s) \in Seq(S) /\ Len(Tail(s)) = Len(s) - 1
         /\ \A j \in 1..Len(Tail(s)) : Tail(s)[j] = s[j + 1] /\ j + 1 \in 1..Len(s)
  <1>1. Len(s) \in Nat /\ Len(s) # 0
    OBVIOUS
  <1>. QED  BY <1>1

(* A sequence with one element more.                                         *)
LEMMA AppendFacts ==
  ASSUME NEW S, NEW s \in Seq(S), NEW x \in S
  PROVE  /\ Append(s, x) \in Seq(S) /\ Len(Append(s, x)) = Len(s) + 1
         /\ \A j \in 1..Len(s) : Append(s, x)[j] = s[j]
         /\ Append(s, x)[Len(s) + 1] = x
  OBVIOUS

-----------------------------------------------------------------------------
(* The frames that may still come to drive the robot: under way, in the      *)
(* socket, or held by the receiver.                                          *)
InFlight ==
  {net[i] : i \in 1..Len(net)} \cup {buffer[i] : i \in 1..Len(buffer)}
    \cup {f \in {rx.last} : f # NONE}

(* Every one of them has the type of a frame.                                *)
LEMMA InFlightFrames == TypeOK => InFlight \subseteq Frame
  BY DEF TypeOK, InFlight

(* The fields of a frame.                                                    *)
LEMMA FrameFields ==
  ASSUME NEW f \in Frame
  PROVE  /\ f.sender \in 1..MaxRuns /\ f.seq \in Nat /\ f.sent \in 0..MaxNow
         /\ f.action \in Bridge
  BY DEF Frame, Runs

(* The frame a SendFrame step sends.                                         *)
NewFrame == [sender |-> teleop.run, seq |-> teleop.seq + 1, sent |-> now, action |-> bridge']

(* What the bridge makes of a hand is a bridge.                              *)
LEMMA RetargetType ==
  ASSUME bridge \in Bridge, NEW hand \in Hands
  PROVE  Retarget(bridge, hand) \in Bridge
  <1>1. CASE hand = NONE
    BY <1>1 DEF Retarget, Freeze, Bridge
  <1>2. CASE hand # NONE
    <2>1. hand \in Hand
      BY <1>2, HandsAssumption
    <2>2. UpdateMode(bridge.mode, hand.pinch) \in {"drive", "manipulate"}
      BY <2>1 DEF UpdateMode, Hand, Bridge
    <2>. QED  BY <1>2, <2>2 DEF Retarget, LandmarksToAction, Bridge
  <1>. QED  BY <1>1, <1>2

(* SendFrame: the newest frame of its run joins those under way.             *)
LEMMA SendFacts ==
  ASSUME TypeOK, SendFrame
  PROVE  /\ NewFrame \in Frame
         /\ net' \in Seq(Frame) /\ Len(net') = Len(net) + 1
         /\ \A i \in 1..Len(net) : net'[i] = net[i]
         /\ net'[Len(net) + 1] = NewFrame
         /\ bridge' \in Bridge
         /\ teleop'.run = teleop.run /\ teleop'.seq = teleop.seq + 1
         /\ teleop' \in [run : 0..MaxRuns, seq : Nat, sentAt : -1..MaxNow]
         /\ UNCHANGED <<unordered, now, buffer, asked, loopVars>>
         /\ InFlight' \subseteq InFlight \cup {NewFrame}
  <1>1. bridge' \in Bridge
    BY RetargetType DEF SendFrame, TypeOK
  <1>2. /\ now \in 0..MaxNow /\ teleop \in [run : 0..MaxRuns, seq : Nat, sentAt : -1..MaxNow]
        /\ teleop.run > 0 /\ teleop' = [teleop EXCEPT !.seq = @ + 1, !.sentAt = now]
        /\ UNCHANGED <<unordered, now, buffer, asked, loopVars>>
    BY DEF TypeOK, SendFrame
  <1>3. teleop' \in [run : 0..MaxRuns, seq : Nat, sentAt : -1..MaxNow]
        /\ teleop'.run = teleop.run /\ teleop'.seq = teleop.seq + 1
    <2>1. now \in -1..MaxNow /\ teleop.seq + 1 \in Nat
      BY <1>2, BoundsAssumption
    <2>. QED  BY <1>2, <2>1
  <1>4. NewFrame \in Frame
    BY <1>1, <1>2 DEF NewFrame, Frame, Runs
  <1>5. /\ net' \in Seq(Frame) /\ Len(net') = Len(net) + 1
        /\ \A i \in 1..Len(net) : net'[i] = net[i]
        /\ net'[Len(net) + 1] = NewFrame
    <2>1. net \in Seq(Frame) /\ net' = Append(net, NewFrame)
      BY DEF TypeOK, SendFrame, NewFrame
    <2>. QED  BY <1>4, <2>1, AppendFacts
  <1>6. InFlight' \subseteq InFlight \cup {NewFrame}
    <2>1. Len(net) \in Nat /\ rx' = rx /\ buffer' = buffer
      BY <1>2 DEF TypeOK, loopVars
    <2>. QED  BY <1>5, <2>1 DEF InFlight
  <1>. QED  BY <1>1, <1>2, <1>3, <1>4, <1>5, <1>6

(* Deliver: the frame goes into the socket if there is room for it, and may  *)
(* stay under way on a network that duplicates.                              *)
LEMMA DeliverFacts ==
  ASSUME TypeOK, NEW i \in 1..Len(net), Deliver(i)
  PROVE  /\ (net' = net /\ unordered) \/ net' = RemoveAt(net, i)
         /\ net' \in Seq(Frame) /\ buffer' \in Seq(Frame) /\ Len(buffer') <= BufferSize
         /\ \/ buffer' = buffer
            \/ /\ Len(buffer') = Len(buffer) + 1
               /\ \A j \in 1..Len(buffer) : buffer'[j] = buffer[j]
               /\ buffer'[Len(buffer) + 1] = net[i]
         /\ unordered \/ i = 1
         /\ UNCHANGED <<unordered, now, teleop, bridge, asked, loopVars>>
         /\ InFlight' \subseteq InFlight
  <1>1. /\ net \in Seq(Frame) /\ buffer \in Seq(Frame) /\ Len(buffer) <= BufferSize
        /\ Len(buffer) \in Nat /\ Len(net) \in Nat
    BY DEF TypeOK
  <1>2. /\ (net' = net /\ unordered) \/ net' = RemoveAt(net, i)
        /\ unordered \/ i = 1
        /\ UNCHANGED <<unordered, now, teleop, bridge, asked, loopVars>>
    BY DEF Deliver
  <1>3. net' \in Seq(Frame) /\ \A j \in 1..Len(net') : \E k \in 1..Len(net) : net'[j] = net[k]
    <2>1. CASE net' = net
      BY <1>1, <2>1
    <2>2. CASE net' = RemoveAt(net, i)
      <3>1. /\ net' \in Seq(Frame) /\ Len(net') = Len(net) - 1
            /\ \A j \in 1..Len(net') : net'[j] = net[IF j < i THEN j ELSE j + 1]
        BY <1>1, <2>2, RemoveAtFacts
      <3>. QED  BY <1>1, <3>1
    <2>. QED  BY <1>2, <2>1, <2>2
  <1>4. \/ buffer' = buffer
        \/ /\ Len(buffer') = Len(buffer) + 1 /\ buffer' \in Seq(Frame)
           /\ \A j \in 1..Len(buffer) : buffer'[j] = buffer[j]
           /\ buffer'[Len(buffer) + 1] = net[i]
           /\ Len(buffer') <= BufferSize
    <2>1. CASE Len(buffer) < BufferSize
      <3>1. buffer' = Append(buffer, net[i]) /\ net[i] \in Frame
        BY <1>1, <2>1 DEF Deliver, Receive
      <3>2. Len(buffer) + 1 <= BufferSize
        BY <1>1, <2>1, BufferAssumption
      <3>. QED  BY <1>1, <3>1, <3>2, AppendFacts
    <2>2. CASE ~(Len(buffer) < BufferSize)
      BY <2>2 DEF Deliver, Receive
    <2>. QED  BY <2>1, <2>2
  <1>5. InFlight' \subseteq InFlight
    <2>1. rx' = rx
      BY <1>2 DEF loopVars
    <2>2. {net'[j] : j \in 1..Len(net')} \subseteq InFlight
      BY <1>3 DEF InFlight
    <2>3. {buffer'[j] : j \in 1..Len(buffer')} \subseteq InFlight
      BY <1>1, <1>4 DEF InFlight
    <2>. QED  BY <2>1, <2>2, <2>3 DEF InFlight
  <1>. QED  BY <1>1, <1>2, <1>3, <1>4, <1>5

(* Lose: the others stay under way in their order.                           *)
LEMMA LoseFacts ==
  ASSUME TypeOK, NEW i \in 1..Len(net), Lose(i)
  PROVE  /\ net' = RemoveAt(net, i) /\ net' \in Seq(Frame)
         /\ UNCHANGED <<unordered, now, teleop, bridge, buffer, asked, loopVars>>
         /\ InFlight' \subseteq InFlight
  <1>1. net \in Seq(Frame) /\ Len(net) \in Nat
    BY DEF TypeOK
  <1>2. /\ net' = RemoveAt(net, i)
        /\ UNCHANGED <<unordered, now, teleop, bridge, buffer, asked, loopVars>>
    BY DEF Lose
  <1>3. /\ net' \in Seq(Frame) /\ Len(net') = Len(net) - 1
        /\ \A j \in 1..Len(net') : net'[j] = net[IF j < i THEN j ELSE j + 1]
    BY <1>1, <1>2, RemoveAtFacts
  <1>4. \A j \in 1..Len(net') : \E k \in 1..Len(net) : net'[j] = net[k]
    BY <1>1, <1>3
  <1>5. rx' = rx /\ buffer' = buffer
    BY <1>2 DEF loopVars
  <1>6. InFlight' \subseteq InFlight
    BY <1>4, <1>5 DEF InFlight
  <1>. QED  BY <1>2, <1>3, <1>6

(* Drain: the receiver keeps what it has, or takes the frame at the head of  *)
(* its socket, which is then another sender's or has a higher number.        *)
LEMMA DrainFacts ==
  ASSUME TypeOK, Drain
  PROVE  LET frame == buffer[1] IN
         /\ 1 \in 1..Len(buffer) /\ frame \in Frame /\ frame \in InFlight
         /\ buffer' \in Seq(Frame) /\ Len(buffer') = Len(buffer) - 1
         /\ \A j \in 1..Len(buffer') : buffer'[j] = buffer[j + 1] /\ j + 1 \in 1..Len(buffer)
         /\ \/ rx' = rx /\ frame.sender = rx.sender /\ frame.seq <= rx.seq
            \/ /\ rx' = [last |-> frame, time |-> now, seq |-> frame.seq, sender |-> frame.sender]
               /\ frame.sender = rx.sender => frame.seq > rx.seq
         /\ drained' \in [Runs -> Nat]
         /\ drained'[frame.sender] =
              IF frame.seq > drained[frame.sender] THEN frame.seq ELSE drained[frame.sender]
         /\ \A r \in Runs : r # frame.sender => drained'[r] = drained[r]
         /\ UNCHANGED <<unordered, now, teleop, bridge, net, asked, pc, cmds, todo, applied, claw, gone>>
         /\ InFlight' \subseteq InFlight
  <1>. DEFINE frame == buffer[1]
  <1>1. /\ buffer \in Seq(Frame) /\ drained \in [Runs -> Nat]
        /\ rx \in [last : Frame \cup {NONE}, time : 0..MaxNow, seq : Nat \cup {-1}, sender : 0..MaxRuns]
    BY DEF TypeOK
  <1>2. /\ Head(buffer) = frame /\ frame \in Frame /\ 1 \in 1..Len(buffer)
        /\ Tail(buffer) \in Seq(Frame) /\ Len(Tail(buffer)) = Len(buffer) - 1
        /\ \A j \in 1..Len(Tail(buffer)) : Tail(buffer)[j] = buffer[j + 1] /\ j + 1 \in 1..Len(buffer)
    BY <1>1, TailFacts DEF Drain
  <1>3. /\ buffer' = Tail(buffer) /\ rx' = Accept(rx, frame)
        /\ drained' = [drained EXCEPT ![frame.sender] = IF frame.seq > @ THEN frame.seq ELSE @]
        /\ UNCHANGED <<unordered, now, teleop, bridge, net, asked, pc, cmds, todo, applied, claw, gone>>
    BY <1>2 DEF Drain
  <1>4. frame \in InFlight
    BY <1>2 DEF InFlight
  <1>. HIDE DEF frame
  <1>5. frame.sender \in Runs /\ frame.seq \in Nat
    BY <1>2 DEF Frame
  <1>6. \/ rx' = rx /\ frame.sender = rx.sender /\ frame.seq <= rx.seq
        \/ /\ rx' = [last |-> frame, time |-> now, seq |-> frame.seq, sender |-> frame.sender]
           /\ frame.sender = rx.sender => frame.seq > rx.seq
    <2>1. CASE frame.sender = rx.sender
      <3>1. CASE frame.seq > rx.seq
        BY <1>3, <2>1, <3>1 DEF Accept
      <3>2. CASE ~(frame.seq > rx.seq)
        <4>1. rx' = [rx EXCEPT !.seq = rx.seq, !.sender = frame.sender]
          BY <1>3, <2>1, <3>2 DEF Accept
        <4>2. rx' = rx
          BY <1>1, <2>1, <4>1
        <4>. QED  BY <1>1, <1>5, <2>1, <3>2, <4>2
      <3>. QED  BY <3>1, <3>2
    <2>2. CASE frame.sender # rx.sender
      <3>1. frame.seq > -1
        BY <1>5
      <3>. QED  BY <1>3, <2>2, <3>1 DEF Accept
    <2>. QED  BY <2>1, <2>2
  <1>7. /\ drained' \in [Runs -> Nat]
        /\ drained'[frame.sender] =
             IF frame.seq > drained[frame.sender] THEN frame.seq ELSE drained[frame.sender]
        /\ \A r \in Runs : r # frame.sender => drained'[r] = drained[r]
    BY <1>1, <1>3, <1>5
  <1>8. InFlight' \subseteq InFlight
    <2>1. rx'.last \in {rx.last, frame}
      BY <1>6
    <2>2. {buffer'[j] : j \in 1..Len(buffer')} \subseteq {buffer[j] : j \in 1..Len(buffer)}
      BY <1>2, <1>3
    <2>. QED  BY <1>3, <1>4, <2>1, <2>2 DEF InFlight
  <1>. QED  BY <1>2, <1>3, <1>4, <1>6, <1>7, <1>8 DEF frame

(* The steps that leave the frames, the receiver and the teleop process as   *)
(* they are.                                                                 *)
LoopStep ==
  \/ \E command \in Command : SendCommand(command)
  \/ Poll \/ ObeyStop \/ StartGoto \/ Navigate \/ Arrive \/ EndGoto \/ Drive
  \/ Over \/ UNCHANGED vars

(* What the steps of the loop leave alone. *)
LEMMA LoopFacts ==
  ASSUME LoopStep
  PROVE  /\ UNCHANGED <<unordered, teleop, bridge, net, buffer, rx, drained>>
         /\ InFlight' = InFlight
  <1>1. UNCHANGED <<unordered, teleop, bridge, net, buffer, rx, drained>>
    BY DEF LoopStep, SendCommand, Poll, ObeyStop, StartGoto, Navigate, Arrive, EndGoto, Drive,
           Over, vars, world, loopVars
  <1>. QED  BY <1>1 DEF InFlight

(* Restart: a new run that has sent nothing yet.                             *)
LEMMA RestartFacts ==
  ASSUME TypeOK, Restart
  PROVE  /\ teleop' \in [run : 0..MaxRuns, seq : Nat, sentAt : -1..MaxNow]
         /\ teleop'.run = teleop.run + 1 /\ teleop'.seq = 0 /\ teleop.run \in Nat
         /\ bridge' = Neutral
         /\ UNCHANGED <<unordered, now, net, buffer, asked, loopVars>>
         /\ InFlight' = InFlight
  <1>1. /\ teleop \in [run : 0..MaxRuns, seq : Nat, sentAt : -1..MaxNow]
        /\ teleop.run < MaxRuns /\ teleop' = [teleop EXCEPT !.run = @ + 1, !.seq = 0]
        /\ bridge' = Neutral
        /\ UNCHANGED <<unordered, now, net, buffer, asked, loopVars>>
    BY DEF TypeOK, Restart
  <1>2. InFlight' = InFlight
    BY <1>1 DEF InFlight, loopVars
  <1>3. teleop.run + 1 \in 0..MaxRuns
    BY <1>1, BoundsAssumption
  <1>4. teleop' \in [run : 0..MaxRuns, seq : Nat, sentAt : -1..MaxNow]
        /\ teleop'.run = teleop.run + 1 /\ teleop'.seq = 0
    BY <1>1, <1>3
  <1>5. teleop.run \in Nat
    BY <1>1
  <1>. QED  BY <1>1, <1>2, <1>4, <1>5

(* Every step is one of these.                                               *)
LEMMA StepKinds ==
  [Next]_vars =>
    \/ Restart \/ SendFrame \/ Drain \/ LoopStep
    \/ \E i \in 1..Len(net) : Deliver(i) \/ Lose(i)
  BY DEF Next, LoopStep

(* What the gripper is told: nothing, to close, or to open.                  *)
LEMMA GripperCases ==
  ASSUME SetGripper
  PROVE  \/ applied' = NONE /\ claw' = claw
         \/ /\ applied' # NONE /\ applied'.action.closed
            /\ claw' = [grip |-> "closed", by |-> applied'.sender]
         \/ /\ applied' # NONE /\ ~applied'.action.closed
            /\ claw' = [claw EXCEPT !.grip = "open"]
  BY DEF SetGripper

-----------------------------------------------------------------------------
(* A goto under way is still at the head of the commands polled.             *)
GotoPending == pc \in {"navigate", "resume"} => todo # <<>>

(* The steps of the loop itself keep the types.                              *)
LEMMA TypeLoop ==
  ASSUME TypeOK, GotoPending, LoopStep
  PROVE  /\ now' \in 0..MaxNow /\ pc' \in {"poll", "obey", "navigate", "resume"}
         /\ cmds' \in Seq(Command) /\ todo' \in Seq(Command)
         /\ applied' \in Frame \cup {NONE}
         /\ claw' \in [grip : {"open", "closed", "slack"}, by : 0..MaxRuns]
         /\ asked' \in 0..MaxCommands /\ gone' \in BOOLEAN
  <1>1. /\ now \in 0..MaxNow /\ pc \in {"poll", "obey", "navigate", "resume"}
        /\ cmds \in Seq(Command) /\ todo \in Seq(Command)
        /\ applied \in Frame \cup {NONE} /\ rx.last \in Frame \cup {NONE}
        /\ claw \in [grip : {"open", "closed", "slack"}, by : 0..MaxRuns]
        /\ asked \in 0..MaxCommands
    BY DEF TypeOK
  <1>2. gone' \in BOOLEAN
    <2>1. gone \in BOOLEAN
      BY DEF TypeOK
    <2>2. gone' = gone \/ gone' = TRUE
      BY DEF LoopStep, SendCommand, Poll, ObeyStop, StartGoto, Navigate, Arrive, EndGoto, Drive,
             Over, vars, world, loopVars
    <2>. QED  BY <2>1, <2>2, Zenon
  <1>3. pc' \in {"poll", "obey", "navigate", "resume"}
    BY <1>1 DEF LoopStep, SendCommand, Poll, ObeyStop, StartGoto, Navigate, Arrive, EndGoto, Drive,
           Over, vars, world, loopVars
  <1>4. now' \in 0..MaxNow
    <2>1. now' = now \/ Elapse
      BY DEF LoopStep, SendCommand, Poll, ObeyStop, StartGoto, Navigate, Arrive, EndGoto, Drive,
             Over, vars, world, loopVars
    <2>. QED  BY <1>1, <2>1, BoundsAssumption DEF Elapse
  <1>5. applied' \in Frame \cup {NONE}
    BY <1>1 DEF LoopStep, SendCommand, Poll, ObeyStop, StartGoto, Navigate, Arrive, EndGoto, Drive,
           Over, vars, world, loopVars
  <1>6. claw' \in [grip : {"open", "closed", "slack"}, by : 0..MaxRuns]
    <2>1. claw' = claw \/ FingersMeasured \/ SetGripper
      BY DEF LoopStep, SendCommand, Poll, ObeyStop, StartGoto, Navigate, Arrive, EndGoto, Drive,
             Over, vars, world, loopVars
    <2>2. CASE FingersMeasured
      BY <1>1, <2>2 DEF FingersMeasured
    <2>3. CASE SetGripper
      <3>1. applied' # NONE => applied'.sender \in 0..MaxRuns
        BY <1>5, FrameFields, BoundsAssumption
      <3>. QED  BY <1>1, <2>3, <3>1, GripperCases
    <2>. QED  BY <1>1, <2>1, <2>2, <2>3
  <1>7. asked' \in 0..MaxCommands
    BY <1>1, BoundsAssumption DEF LoopStep, SendCommand, Poll, ObeyStop, StartGoto, Navigate, Arrive,
           EndGoto, Drive, Over, vars, world, loopVars
  <1>8. cmds' \in Seq(Command) /\ todo' \in Seq(Command)
    <2>1. cmds' \in {cmds, <<>>} \/ \E command \in Command : cmds' = Append(cmds, command)
      BY DEF LoopStep, SendCommand, Poll, ObeyStop, StartGoto, Navigate, Arrive, EndGoto, Drive,
             Over, vars, world, loopVars
    <2>2. todo' \in {todo, cmds} \/ (todo # <<>> /\ todo' = Tail(todo))
      BY DEF LoopStep, SendCommand, Poll, ObeyStop, StartGoto, Navigate, Arrive, EndGoto, Drive,
             Over, vars, world, loopVars, GotoPending
    <2>3. cmds' \in Seq(Command)
      <3>0. cmds \in Seq(Command) /\ <<>> \in Seq(Command)
        BY <1>1
      <3>1. CASE cmds' \in {cmds, <<>>}
        BY <3>0, <3>1, Zenon
      <3>2. ASSUME NEW command \in Command, cmds' = Append(cmds, command)
            PROVE  cmds' \in Seq(Command)
        <4>1. Append(cmds, command) \in Seq(Command)
          BY <1>1, AppendFacts
        <4>. QED  BY <3>2, <4>1
      <3>. QED  BY <2>1, <3>1, <3>2
    <2>4. todo' \in Seq(Command)
      BY SMTT(30), <1>1, <2>2, TailFacts
    <2>. QED  BY <2>3, <2>4
  <1>. QED  BY <1>2, <1>3, <1>4, <1>5, <1>6, <1>7, <1>8

(* Every step keeps the types and a goto's place.                            *)
LEMMA TypeNext == TypeOK /\ GotoPending /\ [Next]_vars => TypeOK' /\ GotoPending'
  <1> SUFFICES ASSUME TypeOK, GotoPending, [Next]_vars PROVE TypeOK' /\ GotoPending'
    OBVIOUS
  <1>0. unordered \in BOOLEAN /\ gone \in BOOLEAN
    BY DEF TypeOK
  <1>1. ASSUME UNCHANGED <<now, asked, pc, cmds, todo, applied, claw, gone>>
        PROVE  /\ now' \in 0..MaxNow /\ pc' \in {"poll", "obey", "navigate", "resume"}
               /\ cmds' \in Seq(Command) /\ todo' \in Seq(Command)
               /\ applied' \in Frame \cup {NONE}
               /\ claw' \in [grip : {"open", "closed", "slack"}, by : 0..MaxRuns]
               /\ asked' \in 0..MaxCommands
               /\ GotoPending'
    BY <1>1 DEF TypeOK, GotoPending
  <1>2. ASSUME UNCHANGED <<teleop, bridge>>
        PROVE  teleop' \in [run : 0..MaxRuns, seq : Nat, sentAt : -1..MaxNow] /\ bridge' \in Bridge
    BY <1>2 DEF TypeOK
  <1>3. ASSUME UNCHANGED <<rx, drained>>
        PROVE  /\ rx' \in [last : Frame \cup {NONE}, time : 0..MaxNow, seq : Nat \cup {-1}, sender : 0..MaxRuns]
               /\ drained' \in [Runs -> Nat]
    BY <1>3 DEF TypeOK
  <1>4. /\ UNCHANGED net => net' \in Seq(Frame)
        /\ UNCHANGED buffer => buffer' \in Seq(Frame) /\ Len(buffer') <= BufferSize
    BY DEF TypeOK
  <1>5. CASE Restart
    <2>1. bridge' \in Bridge
      <3>1. bridge' = Neutral
        BY <1>5, RestartFacts
      <3>2. Neutral \in Bridge
        BY DEF Neutral, Bridge
      <3>. QED  BY <3>1, <3>2
    <2>2. unordered' \in BOOLEAN /\ gone' \in BOOLEAN
      BY <1>0, <1>5, RestartFacts, Zenon DEF loopVars
    <2>. QED  BY <1>1, <1>3, <1>4, <1>5, <2>1, <2>2, RestartFacts DEF TypeOK, loopVars
  <1>6. CASE SendFrame
    <2>2. unordered' \in BOOLEAN /\ gone' \in BOOLEAN
      BY <1>0, <1>6, SendFacts, Zenon DEF loopVars
    <2>. QED  BY <1>1, <1>3, <1>4, <1>6, <2>2, SendFacts DEF TypeOK, loopVars
  <1>7. CASE Drain
    <2>1. rx' \in [last : Frame \cup {NONE}, time : 0..MaxNow, seq : Nat \cup {-1}, sender : 0..MaxRuns]
      <3>1. /\ rx \in [last : Frame \cup {NONE}, time : 0..MaxNow, seq : Nat \cup {-1}, sender : 0..MaxRuns]
            /\ now \in 0..MaxNow
        BY DEF TypeOK
      <3>2. /\ buffer[1] \in Frame /\ buffer[1].seq \in Nat
            /\ \/ rx' = rx
               \/ rx' = [last |-> buffer[1], time |-> now, seq |-> buffer[1].seq, sender |-> buffer[1].sender]
        BY <1>7, DrainFacts, FrameFields
      <3>3. buffer[1].sender \in 0..MaxRuns
        BY <3>2, FrameFields, BoundsAssumption
      <3>4. buffer[1].seq \in Nat \cup {-1} /\ buffer[1] \in Frame \cup {NONE}
        BY <3>2
      <3>5. [last |-> buffer[1], time |-> now, seq |-> buffer[1].seq, sender |-> buffer[1].sender] \in
              [last : Frame \cup {NONE}, time : 0..MaxNow, seq : Nat \cup {-1}, sender : 0..MaxRuns]
        BY <3>1, <3>3, <3>4
      <3>. QED  BY <3>1, <3>2, <3>5, Zenon
    <2>2. unordered' \in BOOLEAN /\ gone' \in BOOLEAN
      BY <1>0, <1>7, DrainFacts, Zenon
    <2>3. Len(buffer') <= BufferSize
      BY <1>7, DrainFacts, BufferAssumption DEF TypeOK
    <2>. QED  BY <1>1, <1>2, <1>4, <1>7, <2>1, <2>2, <2>3, DrainFacts DEF TypeOK
  <1>8. CASE LoopStep
    <2>1. unordered' \in BOOLEAN
      BY <1>0, <1>8, LoopFacts, Zenon
    <2>2. GotoPending'
      BY <1>8 DEF LoopStep, SendCommand, Poll, ObeyStop, StartGoto, Navigate, Arrive, EndGoto, Drive,
             Over, vars, world, loopVars, GotoPending
    <2>. QED  BY <1>2, <1>3, <1>4, <1>8, <2>1, <2>2, LoopFacts, TypeLoop DEF TypeOK
  <1>9. ASSUME NEW i \in 1..Len(net), Deliver(i) PROVE TypeOK' /\ GotoPending'
    <2>1. unordered' \in BOOLEAN /\ gone' \in BOOLEAN
      BY <1>0, <1>9, DeliverFacts, Zenon DEF loopVars
    <2>. QED  BY <1>1, <1>2, <1>3, <1>9, <2>1, DeliverFacts DEF TypeOK, loopVars
  <1>10. ASSUME NEW i \in 1..Len(net), Lose(i) PROVE TypeOK' /\ GotoPending'
    <2>1. unordered' \in BOOLEAN /\ gone' \in BOOLEAN
      BY <1>0, <1>10, LoseFacts, Zenon DEF loopVars
    <2>. QED  BY <1>1, <1>2, <1>3, <1>4, <1>10, <2>1, LoseFacts DEF TypeOK, loopVars
  <1>. QED  BY <1>5, <1>6, <1>7, <1>8, <1>9, <1>10, StepKinds

(* Init has the types.                                                       *)
LEMMA TypeInit == Init => TypeOK /\ GotoPending
  <1> SUFFICES ASSUME Init PROVE TypeOK /\ GotoPending
    OBVIOUS
  <1>1. unordered \in BOOLEAN /\ gone \in BOOLEAN
    BY Zenon DEF Init
  <1>2. bridge \in Bridge
    BY DEF Init, Neutral, Bridge
  <1>3. teleop \in [run : 0..MaxRuns, seq : Nat, sentAt : -1..MaxNow]
    BY BoundsAssumption DEF Init
  <1>4. rx \in [last : Frame \cup {NONE}, time : 0..MaxNow, seq : Nat \cup {-1}, sender : 0..MaxRuns]
    BY BoundsAssumption DEF Init
  <1>5. buffer = <<>> /\ Len(buffer) <= BufferSize /\ buffer \in Seq(Frame) /\ net \in Seq(Frame)
    BY BufferAssumption DEF Init
  <1>6. claw \in [grip : {"open", "closed", "slack"}, by : 0..MaxRuns] /\ drained \in [Runs -> Nat]
    BY BoundsAssumption DEF Init
  <1>7. cmds \in Seq(Command) /\ todo \in Seq(Command) /\ now \in 0..MaxNow /\ asked \in 0..MaxCommands
    BY BoundsAssumption DEF Init
  <1>8. pc = "poll" /\ applied = NONE
    BY DEF Init
  <1>. QED
    BY <1>1, <1>2, <1>3, <1>4, <1>5, <1>6, <1>7, <1>8 DEF TypeOK, GotoPending

-----------------------------------------------------------------------------
(* The bridge closes the gripper in one of its two modes only, and parks the *)
(* base meanwhile.                                                           *)
BridgeInv ==
  /\ bridge.closed <=> bridge.mode = "manipulate"
  /\ bridge.closed => ~bridge.moves

(* A bridge that closes goes on closing until it has seen the hand apart.    *)
LEMMA RetargetFacts ==
  ASSUME bridge \in Bridge, BridgeInv, NEW hand \in Hands
  PROVE  LET next == Retarget(bridge, hand) IN
         /\ next.closed <=> next.mode = "manipulate"
         /\ next.closed => ~next.moves
         /\ bridge.closed \/ bridge.parted => next.closed \/ next.parted
  <1>1. CASE hand = NONE
    <2>1. Retarget(bridge, hand) = [bridge EXCEPT !.moves = FALSE]
      BY <1>1 DEF Retarget, Freeze
    <2>. QED  BY <2>1 DEF Bridge, BridgeInv
  <1>2. CASE hand # NONE
    <2>. DEFINE mode == UpdateMode(bridge.mode, hand.pinch)
    <2>1. Retarget(bridge, hand) =
            [mode |-> mode, closed |-> mode = "manipulate",
             moves |-> mode = "drive" /\ (hand.steers \/ bridge.moves),
             parted |-> mode = "drive" /\ (bridge.parted \/ hand.pinch = "apart")]
      BY <1>2 DEF Retarget, LandmarksToAction
    <2>2. /\ mode \in {"drive", "manipulate"}
          /\ mode = "drive" => bridge.mode = "drive" \/ hand.pinch = "apart"
      <3>1. hand \in Hand
        BY <1>2, HandsAssumption
      <3>. QED  BY <3>1 DEF UpdateMode, Hand, Bridge
    <2>. HIDE DEF mode
    <2>3. bridge.closed => bridge.mode # "drive"
      BY DEF BridgeInv
    <2>4. /\ Retarget(bridge, hand).mode = mode
          /\ Retarget(bridge, hand).closed <=> mode = "manipulate"
          /\ Retarget(bridge, hand).moves => mode = "drive"
          /\ mode = "drive" /\ bridge.parted => Retarget(bridge, hand).parted
          /\ mode = "drive" /\ hand.pinch = "apart" => Retarget(bridge, hand).parted
      <3>. DEFINE next == Retarget(bridge, hand)
      <3>1. /\ next.mode = mode
            /\ next.closed = (mode = "manipulate")
            /\ next.moves = (mode = "drive" /\ (hand.steers \/ bridge.moves))
            /\ next.parted = (mode = "drive" /\ (bridge.parted \/ hand.pinch = "apart"))
        BY <2>1
      <3>. HIDE DEF next
      <3>. QED  BY <3>1, Zenon DEF next
    <2>. QED  BY <2>2, <2>3, <2>4
  <1>. QED  BY <1>1, <1>2

(* The bridge's invariant holds after every step.                            *)
LEMMA BridgeNext == TypeOK /\ BridgeInv /\ [Next]_vars => BridgeInv'
  <1> SUFFICES ASSUME TypeOK, BridgeInv, [Next]_vars PROVE BridgeInv'
    OBVIOUS
  <1>1. CASE Restart
    <2>1. bridge' = Neutral
      BY <1>1, RestartFacts
    <2>. QED  BY <2>1 DEF BridgeInv, Neutral
  <1>2. CASE SendFrame
    <2>1. bridge \in Bridge
      BY DEF TypeOK
    <2>2. PICK hand \in Hands : bridge' = Retarget(bridge, hand)
      BY <1>2 DEF SendFrame
    <2>. QED  BY <2>1, <2>2, RetargetFacts DEF BridgeInv
  <1>3. CASE bridge' = bridge
    BY <1>3 DEF BridgeInv
  <1>4. CASE Drain \/ LoopStep \/ \E i \in 1..Len(net) : Deliver(i) \/ Lose(i)
    BY <1>3, <1>4, DrainFacts, LoopFacts, DeliverFacts, LoseFacts
  <1>. QED  BY <1>1, <1>2, <1>4, StepKinds

-----------------------------------------------------------------------------
(* What is known of the frames in flight: where they come from, and what     *)
(* their sender's bridge has seen since.                                     *)
FramesInv ==
  \A f \in InFlight :
    /\ f.seq >= 1 /\ f.sender <= teleop.run
    /\ f.action.closed => ~f.action.moves
    /\ f.sender = teleop.run =>
         f.seq <= teleop.seq /\ (f.action.closed => bridge.closed \/ bridge.parted)

(* No frame of a run that closed before opens again but for a hand seen      *)
(* apart in between.                                                         *)
PairInv ==
  \A f, g \in InFlight :
    f.sender = g.sender /\ f.seq <= g.seq /\ f.action.closed =>
      g.action.closed \/ g.action.parted

(* Both hold after every step.                                               *)
LEMMA FramesNext ==
  TypeOK /\ BridgeInv /\ FramesInv /\ PairInv /\ [Next]_vars => FramesInv' /\ PairInv'
  <1> SUFFICES ASSUME TypeOK, BridgeInv, FramesInv, PairInv, [Next]_vars
               PROVE  FramesInv' /\ PairInv'
    OBVIOUS
  <1>0. InFlight \subseteq Frame
    BY InFlightFrames
  <1>1. ASSUME UNCHANGED <<teleop, bridge>>, InFlight' \subseteq InFlight
        PROVE  FramesInv' /\ PairInv'
    BY <1>1 DEF FramesInv, PairInv
  <1>2. CASE Restart
    <2>1. teleop'.run = teleop.run + 1 /\ teleop.run \in Nat /\ InFlight' = InFlight
      BY <1>2, RestartFacts
    <2>2. ASSUME NEW f \in InFlight'
          PROVE  /\ f.seq >= 1 /\ f.sender <= teleop'.run
                 /\ f.action.closed => ~f.action.moves
                 /\ f.sender # teleop'.run
      <3>1. f \in InFlight /\ f.sender \in 1..MaxRuns
        BY <1>0, <2>1, <2>2, FrameFields
      <3>. QED  BY <2>1, <3>1, BoundsAssumption DEF FramesInv
    <2>. QED  BY <2>1, <2>2 DEF FramesInv, PairInv
  <1>3. CASE SendFrame
    <2>1. PICK hand \in Hands : bridge' = Retarget(bridge, hand)
      BY <1>3 DEF SendFrame
    <2>2. /\ bridge'.closed => ~bridge'.moves
          /\ bridge.closed \/ bridge.parted => bridge'.closed \/ bridge'.parted
      BY <2>1, RetargetFacts DEF TypeOK
    <2>3. /\ teleop'.run = teleop.run /\ teleop'.seq = teleop.seq + 1 /\ teleop.seq \in Nat
          /\ teleop.run \in Nat
          /\ InFlight' \subseteq InFlight \cup {NewFrame}
      <3>1. teleop \in [run : 0..MaxRuns, seq : Nat, sentAt : -1..MaxNow]
        BY DEF TypeOK
      <3>. QED  BY <1>3, <3>1, SendFacts
    <2>4. /\ NewFrame.sender = teleop.run /\ NewFrame.seq = teleop.seq + 1
          /\ NewFrame.action = bridge'
      BY DEF NewFrame
    <2>5. \A f \in InFlight : f.seq \in Nat /\ f.sender \in Nat
      BY <1>0, FrameFields
    <2>6. ASSUME NEW f \in InFlight'
          PROVE  /\ f.seq >= 1 /\ f.sender <= teleop'.run
                 /\ f.action.closed => ~f.action.moves
                 /\ f.sender = teleop'.run =>
                      f.seq <= teleop'.seq /\ (f.action.closed => bridge'.closed \/ bridge'.parted)
      <3>1. CASE f \in InFlight
        BY <2>2, <2>3, <2>5, <3>1 DEF FramesInv
      <3>2. CASE f = NewFrame
        BY <2>2, <2>3, <2>4, <3>2
      <3>. QED  BY <2>3, <3>1, <3>2
    <2>7. ASSUME NEW f \in InFlight', NEW g \in InFlight',
                 f.sender = g.sender, f.seq <= g.seq, f.action.closed
          PROVE  g.action.closed \/ g.action.parted
      <3>1. CASE f \in InFlight /\ g \in InFlight
        BY <2>7, <3>1 DEF PairInv
      <3>2. CASE f \in InFlight /\ g = NewFrame
        BY <2>2, <2>3, <2>4, <2>7, <3>2 DEF FramesInv
      <3>3. CASE f = NewFrame /\ g \in InFlight
        <4>1. g.seq <= teleop.seq
          BY <2>4, <2>7, <3>3 DEF FramesInv
        <4>. QED  BY <2>3, <2>4, <2>5, <2>7, <3>3, <4>1
      <3>4. CASE f = NewFrame /\ g = NewFrame
        BY <2>7, <3>4
      <3>. QED  BY <2>3, <3>1, <3>2, <3>3, <3>4
    <2>. QED  BY <2>6, <2>7 DEF FramesInv, PairInv
  <1>4. CASE Drain
    BY <1>1, <1>4, DrainFacts
  <1>5. CASE LoopStep
    BY <1>1, <1>5, LoopFacts
  <1>6. ASSUME NEW i \in 1..Len(net), Deliver(i) \/ Lose(i)
        PROVE  FramesInv' /\ PairInv'
    BY <1>1, <1>6, DeliverFacts, LoseFacts
  <1>. QED  BY <1>2, <1>3, <1>4, <1>5, <1>6, StepKinds

-----------------------------------------------------------------------------
(* What the receiver remembers is the frame it took last.                    *)
RxInv ==
  /\ rx.sender <= teleop.run
  /\ rx.last = NONE => rx.sender = 0 /\ rx.seq = -1 /\ \A r \in Runs : drained[r] = 0
  /\ rx.last # NONE => rx.sender = rx.last.sender /\ rx.seq = rx.last.seq

(* With one run, its number is the highest that was drained.                 *)
RunsInv ==
  teleop.run <= 1 /\ rx.last # NONE => rx.seq = drained[rx.sender]

(* Both hold after every step.                                               *)
LEMMA RxNext ==
  TypeOK /\ FramesInv /\ RxInv /\ RunsInv /\ [Next]_vars => RxInv' /\ RunsInv'
  <1> SUFFICES ASSUME TypeOK, FramesInv, RxInv, RunsInv, [Next]_vars
               PROVE  RxInv' /\ RunsInv'
    OBVIOUS
  <1>0. /\ rx \in [last : Frame \cup {NONE}, time : 0..MaxNow, seq : Nat \cup {-1}, sender : 0..MaxRuns]
        /\ teleop \in [run : 0..MaxRuns, seq : Nat, sentAt : -1..MaxNow]
        /\ drained \in [Runs -> Nat]
    BY DEF TypeOK
  <1>1. ASSUME UNCHANGED <<rx, drained>>, teleop'.run = teleop.run
        PROVE  RxInv' /\ RunsInv'
    BY <1>1 DEF RxInv, RunsInv
  <1>2. CASE Restart
    <2>1. teleop'.run = teleop.run + 1 /\ teleop.run \in Nat /\ rx' = rx /\ drained' = drained
      BY <1>2, RestartFacts DEF loopVars
    <2>2. RxInv'
      <3>1. rx.sender \in Nat
        BY <1>0, BoundsAssumption
      <3>. QED  BY <2>1, <3>1 DEF RxInv
    <2>3. teleop.run >= 1 => teleop'.run > 1
      BY <2>1
    <2>4. teleop.run = 0 => rx.last = NONE
      <3>1. ASSUME rx.last # NONE PROVE rx.last \in InFlight /\ rx.last.sender \in 1..MaxRuns
        <4>1. rx.last \in InFlight
          BY <3>1 DEF InFlight
        <4>. QED  BY <4>1, InFlightFrames, FrameFields
      <3>2. ASSUME rx.last # NONE PROVE rx.last.sender <= teleop.run
        BY <3>1, <3>2 DEF FramesInv
      <3>. QED  BY <3>1, <3>2
    <2>. QED  BY <2>1, <2>2, <2>3, <2>4 DEF RunsInv
  <1>3. CASE SendFrame
    BY <1>1, <1>3, SendFacts DEF loopVars
  <1>4. CASE Drain
    <2>. DEFINE frame == buffer[1]
    <2>1. /\ frame \in InFlight /\ frame.seq \in Nat /\ frame.sender \in 1..MaxRuns /\ frame # NONE
      BY <1>4, DrainFacts, FrameFields, NoneAssumption
    <2>2. frame.seq >= 1 /\ frame.sender <= teleop.run
      BY <2>1 DEF FramesInv
    <2>3. /\ \/ rx' = rx /\ frame.sender = rx.sender /\ frame.seq <= rx.seq
             \/ /\ rx' = [last |-> frame, time |-> now, seq |-> frame.seq, sender |-> frame.sender]
                /\ frame.sender = rx.sender => frame.seq > rx.seq
          /\ drained'[frame.sender] =
               IF frame.seq > drained[frame.sender] THEN frame.seq ELSE drained[frame.sender]
          /\ \A r \in Runs : r # frame.sender => drained'[r] = drained[r]
          /\ teleop' = teleop
      BY <1>4, DrainFacts
    <2>. HIDE DEF frame
    <2>4. CASE rx' = rx /\ frame.sender = rx.sender /\ frame.seq <= rx.seq
      <3>1. rx.last # NONE
        BY <2>1, <2>2, <2>4 DEF RxInv
      <3>2. RunsInv'
        <4> SUFFICES ASSUME teleop.run <= 1 PROVE rx.seq = drained'[rx.sender]
          BY <2>3, <2>4 DEF RunsInv
        <4>1. rx.seq = drained[rx.sender]
          BY <3>1 DEF RunsInv
        <4>2. frame.sender \in Runs
          BY <2>1 DEF Runs
        <4>3. drained[frame.sender] \in Nat
          BY <1>0, <4>2
        <4>. QED  BY <2>1, <2>3, <2>4, <4>1, <4>3
      <3>. QED  BY <2>3, <2>4, <3>1, <3>2 DEF RxInv
    <2>5. CASE /\ rx' = [last |-> frame, time |-> now, seq |-> frame.seq, sender |-> frame.sender]
               /\ frame.sender = rx.sender => frame.seq > rx.seq
      <3>1. rx'.last = frame /\ rx'.seq = frame.seq /\ rx'.sender = frame.sender
        BY <2>5
      <3>2. RxInv'
        BY <2>1, <2>2, <2>3, <3>1 DEF RxInv
      <3>3. RunsInv'
        <4>0. teleop' = teleop
          BY <2>3
        <4> SUFFICES ASSUME teleop.run <= 1 PROVE frame.seq = drained'[frame.sender]
          BY <3>1, <4>0 DEF RunsInv
        <4>1. frame.sender = 1 /\ frame.sender \in Runs
          <5>1. teleop.run \in Nat
            BY <1>0, BoundsAssumption
          <5>2. frame.sender = 1
            BY <2>1, <2>2, <5>1, BoundsAssumption
          <5>. QED  BY <2>1, <5>2 DEF Runs
        <4>2. drained[1] <= frame.seq
          <5>1. CASE rx.last = NONE
            BY <2>1, <4>1, <5>1 DEF RxInv
          <5>2. CASE rx.last # NONE
            <6>1. rx.last \in InFlight
              BY <5>2 DEF InFlight
            <6>2. rx.last.sender >= 1
              BY <6>1, InFlightFrames, FrameFields
            <6>3. rx.sender = 1
              BY <1>0, <5>2, <6>2, BoundsAssumption DEF RxInv
            <6>4. frame.seq > rx.seq /\ rx.seq = drained[1]
              BY <2>5, <4>1, <5>2, <6>3 DEF RunsInv
            <6>. QED  BY <1>0, <2>1, <6>4
          <5>. QED  BY <5>1, <5>2
        <4>3. drained[1] \in Nat
          BY <1>0, <4>1
        <4>. QED  BY <2>1, <2>3, <4>1, <4>2, <4>3
      <3>. QED  BY <3>2, <3>3
    <2>. QED  BY <2>3, <2>4, <2>5
  <1>5. CASE LoopStep
    BY <1>1, <1>5, LoopFacts
  <1>6. ASSUME NEW i \in 1..Len(net), Deliver(i) \/ Lose(i)
        PROVE  RxInv' /\ RunsInv'
    BY <1>1, <1>6, DeliverFacts, LoseFacts DEF loopVars
  <1>. QED  BY <1>2, <1>3, <1>4, <1>5, <1>6, StepKinds

-----------------------------------------------------------------------------
(* On a network that keeps order, the runs of the frames from the receiver   *)
(* over the socket to those sent last never go down, and of a run later than *)
(* the receiver's nothing has been drained.                                  *)
OrderInv ==
  ~unordered =>
    /\ \A i, j \in 1..Len(net) : i <= j => net[i].sender <= net[j].sender
    /\ \A i, j \in 1..Len(buffer) : i <= j => buffer[i].sender <= buffer[j].sender
    /\ \A i \in 1..Len(buffer), j \in 1..Len(net) : buffer[i].sender <= net[j].sender
    /\ \A f \in InFlight : rx.sender <= f.sender
    /\ \A r \in Runs : r > rx.sender => drained[r] = 0

(* It holds after every step.                                                *)
LEMMA OrderNext ==
  TypeOK /\ FramesInv /\ RxInv /\ OrderInv /\ [Next]_vars => OrderInv'
  <1> SUFFICES ASSUME TypeOK, FramesInv, RxInv, OrderInv, [Next]_vars, ~unordered'
               PROVE  OrderInv'
    BY DEF OrderInv
  <1>0. /\ net \in Seq(Frame) /\ buffer \in Seq(Frame)
        /\ Len(net) \in Nat /\ Len(buffer) \in Nat
        /\ \A i \in 1..Len(net) : net[i] \in InFlight /\ net[i].sender \in Nat
        /\ \A i \in 1..Len(buffer) : buffer[i] \in InFlight /\ buffer[i].sender \in Nat
    <2>1. net \in Seq(Frame) /\ buffer \in Seq(Frame)
      BY DEF TypeOK
    <2>2. Len(net) \in Nat /\ Len(buffer) \in Nat
      BY <2>1
    <2>3. /\ \A i \in 1..Len(net) : net[i] \in InFlight
          /\ \A i \in 1..Len(buffer) : buffer[i] \in InFlight
      BY DEF InFlight
    <2>4. \A f \in InFlight : f.sender \in Nat
      BY InFlightFrames, FrameFields
    <2>. QED  BY <2>1, <2>2, <2>3, <2>4
  <1>1. ASSUME UNCHANGED <<unordered, net, buffer, rx, drained>>
        PROVE  OrderInv'
    <2>1. InFlight' = InFlight
      BY <1>1 DEF InFlight
    <2>. QED  BY <1>1, <2>1 DEF OrderInv
  <1>2. CASE Restart
    BY <1>1, <1>2, RestartFacts DEF loopVars
  <1>3. CASE SendFrame
    <2>1. /\ Len(net') = Len(net) + 1 /\ \A i \in 1..Len(net) : net'[i] = net[i]
          /\ net'[Len(net) + 1] = NewFrame /\ NewFrame.sender = teleop.run
          /\ InFlight' \subseteq InFlight \cup {NewFrame}
          /\ UNCHANGED <<unordered, buffer, rx, drained>>
      BY <1>3, SendFacts DEF loopVars, NewFrame
    <2>2. /\ \A i \in 1..Len(net) : net[i].sender <= teleop.run
          /\ \A i \in 1..Len(buffer) : buffer[i].sender <= teleop.run
      BY <1>0 DEF FramesInv
    <2>3. rx.sender <= teleop.run /\ teleop.run \in Nat
      BY BoundsAssumption DEF RxInv, TypeOK
    <2>4. /\ \A i, j \in 1..Len(net) : i <= j => net[i].sender <= net[j].sender
          /\ \A i, j \in 1..Len(buffer) : i <= j => buffer[i].sender <= buffer[j].sender
          /\ \A i \in 1..Len(buffer), j \in 1..Len(net) : buffer[i].sender <= net[j].sender
          /\ \A f \in InFlight : rx.sender <= f.sender
          /\ \A r \in Runs : r > rx.sender => drained[r] = 0
      BY <2>1 DEF OrderInv
    <2>5. ASSUME NEW i \in 1..Len(net'), NEW j \in 1..Len(net'), i <= j
          PROVE  net'[i].sender <= net'[j].sender
      <3>1. CASE j \in 1..Len(net)
        <4>1. i \in 1..Len(net)
          BY <1>0, <2>5, <3>1
        <4>. QED  BY <2>1, <2>4, <2>5, <3>1, <4>1
      <3>2. CASE j = Len(net) + 1 /\ i \in 1..Len(net)
        BY <2>1, <2>2, <3>2
      <3>3. CASE j = Len(net) + 1 /\ i = Len(net) + 1
        BY <2>1, <2>3, <3>3
      <3>. QED  BY <1>0, <2>1, <3>1, <3>2, <3>3
    <2>6. ASSUME NEW i \in 1..Len(buffer'), NEW j \in 1..Len(net')
          PROVE  buffer'[i].sender <= net'[j].sender
      <3>1. CASE j \in 1..Len(net)
        BY <2>1, <2>4, <3>1
      <3>2. CASE j = Len(net) + 1
        BY <2>1, <2>2, <3>2
      <3>. QED  BY SMTT(30), <1>0, <2>1, <3>1, <3>2
    <2>7. \A f \in InFlight' : rx'.sender <= f.sender
      BY <2>1, <2>3, <2>4
    <2>8. buffer' = buffer /\ rx' = rx /\ drained' = drained
      BY <2>1
    <2>. QED  BY <2>4, <2>5, <2>6, <2>7, <2>8 DEF OrderInv
  <1>4. CASE Drain
    <2>. DEFINE frame == buffer[1]
    <2>1. /\ 1 \in 1..Len(buffer) /\ Len(buffer') = Len(buffer) - 1
          /\ \A j \in 1..Len(buffer') : buffer'[j] = buffer[j + 1] /\ j + 1 \in 1..Len(buffer)
          /\ rx'.sender = frame.sender
          /\ \A r \in Runs : r # frame.sender => drained'[r] = drained[r]
          /\ UNCHANGED <<unordered, net>>
          /\ rx'.last \in {rx.last, frame} /\ frame \in InFlight
          /\ rx' = rx \/ rx'.last = frame
      BY <1>4, DrainFacts
    <2>2. /\ \A i, j \in 1..Len(net) : i <= j => net[i].sender <= net[j].sender
          /\ \A i, j \in 1..Len(buffer) : i <= j => buffer[i].sender <= buffer[j].sender
          /\ \A i \in 1..Len(buffer), j \in 1..Len(net) : buffer[i].sender <= net[j].sender
          /\ \A f \in InFlight : rx.sender <= f.sender
          /\ \A r \in Runs : r > rx.sender => drained[r] = 0
      BY <2>1 DEF OrderInv
    <2>3. \A i \in 1..Len(buffer) : frame.sender <= buffer[i].sender
      BY <2>1, <2>2
    <2>4. \A i \in 1..Len(net) : frame.sender <= net[i].sender
      BY <2>1, <2>2
    <2>5. frame.sender \in Nat /\ rx.sender <= frame.sender /\ rx.sender \in Nat
      BY <1>0, <2>1, <2>2, BoundsAssumption DEF TypeOK
    <2>. HIDE DEF frame
    <2>6. \A i, j \in 1..Len(buffer') : i <= j => buffer'[i].sender <= buffer'[j].sender
      <3> TAKE i, j \in 1..Len(buffer')
      <3>1. i \in Nat /\ j \in Nat /\ i <= j => i + 1 <= j + 1
        OBVIOUS
      <3>. QED  BY <2>1, <2>2, <3>1
    <2>7. \A i \in 1..Len(buffer'), j \in 1..Len(net') : buffer'[i].sender <= net'[j].sender
      BY <2>1, <2>2
    <2>8. \A r \in Runs : r > rx'.sender => drained'[r] = 0
      <3> SUFFICES ASSUME NEW r \in Runs, r > frame.sender PROVE drained'[r] = 0
        BY <2>1
      <3>1. r > rx.sender /\ r # frame.sender
        BY <2>5 DEF Runs
      <3>. QED  BY <2>1, <2>2, <3>1
    <2>9. ASSUME NEW f \in InFlight' PROVE rx'.sender <= f.sender
      <3>1. CASE f \in {net'[i] : i \in 1..Len(net')}
        BY <2>1, <2>4, <3>1
      <3>2. CASE f \in {buffer'[i] : i \in 1..Len(buffer')}
        BY <2>1, <2>3, <3>2
      <3>3. CASE f = rx'.last /\ rx'.last # NONE
        <4>1. CASE rx' = rx
          <5>1. rx.last \in InFlight
            BY <3>3, <4>1 DEF InFlight
          <5>. QED  BY <2>2, <3>3, <4>1, <5>1
        <4>2. CASE rx'.last = frame
          BY <2>1, <2>5, <3>3, <4>2
        <4>. QED  BY <2>1, <4>1, <4>2
      <3>. QED  BY <2>9, <3>1, <3>2, <3>3 DEF InFlight
    <2>. QED  BY <2>1, <2>2, <2>6, <2>7, <2>8, <2>9 DEF OrderInv
  <1>5. CASE LoopStep
    BY <1>1, <1>5, LoopFacts
  <1>6. ASSUME NEW k \in 1..Len(net), Deliver(k)
        PROVE  OrderInv'
    <2>1. /\ net' = RemoveAt(net, k) /\ k = 1
          /\ \/ buffer' = buffer
             \/ /\ Len(buffer') = Len(buffer) + 1
                /\ \A j \in 1..Len(buffer) : buffer'[j] = buffer[j]
                /\ buffer'[Len(buffer) + 1] = net[k]
          /\ UNCHANGED <<unordered, rx, drained>>
          /\ InFlight' \subseteq InFlight
      BY <1>6, DeliverFacts DEF loopVars
    <2>2. /\ \A i, j \in 1..Len(net) : i <= j => net[i].sender <= net[j].sender
          /\ \A i, j \in 1..Len(buffer) : i <= j => buffer[i].sender <= buffer[j].sender
          /\ \A i \in 1..Len(buffer), j \in 1..Len(net) : buffer[i].sender <= net[j].sender
          /\ \A f \in InFlight : rx.sender <= f.sender
          /\ \A r \in Runs : r > rx.sender => drained[r] = 0
      BY <2>1 DEF OrderInv
    <2>3. \A j \in 1..Len(net') : net'[j] = net[j + 1] /\ j + 1 \in 1..Len(net)
      <3>1. /\ Len(net') = Len(net) - 1
            /\ \A j \in 1..Len(net') : net'[j] = net[IF j < 1 THEN j ELSE j + 1]
        BY <1>0, <2>1, RemoveAtFacts
      <3>. QED  BY <1>0, <3>1
    <2>4. \A i, j \in 1..Len(net') : i <= j => net'[i].sender <= net'[j].sender
      <3> SUFFICES ASSUME NEW i \in 1..Len(net'), NEW j \in 1..Len(net'), i <= j
                   PROVE  net'[i].sender <= net'[j].sender
        OBVIOUS
      <3>1. /\ net'[i] = net[i + 1] /\ i + 1 \in 1..Len(net)
            /\ net'[j] = net[j + 1] /\ j + 1 \in 1..Len(net)
        BY <2>3
      <3>2. i + 1 <= j + 1
        OBVIOUS
      <3>3. net[i + 1].sender <= net[j + 1].sender
        BY <2>2, <3>1, <3>2
      <3>. QED  BY <3>1, <3>3
    <2>5. \A j \in 1..Len(net') : net[k].sender <= net'[j].sender
      BY <1>0, <2>1, <2>2, <2>3
    <2>6. CASE buffer' = buffer
      <3>1. \A i \in 1..Len(buffer'), j \in 1..Len(net') : buffer'[i].sender <= net'[j].sender
        BY <2>2, <2>3, <2>6
      <3>. QED  BY <2>1, <2>2, <2>4, <2>6, <3>1 DEF OrderInv
    <2>7. CASE /\ Len(buffer') = Len(buffer) + 1
               /\ \A j \in 1..Len(buffer) : buffer'[j] = buffer[j]
               /\ buffer'[Len(buffer) + 1] = net[k]
      <3>1. ASSUME NEW i \in 1..Len(buffer'), NEW j \in 1..Len(net')
            PROVE  buffer'[i].sender <= net'[j].sender
        <4>1. CASE i \in 1..Len(buffer)
          BY <2>2, <2>3, <2>7, <4>1
        <4>2. CASE i = Len(buffer) + 1
          BY <2>5, <2>7, <4>2
        <4>. QED  BY <1>0, <2>7, <4>1, <4>2
      <3>2. ASSUME NEW i \in 1..Len(buffer'), NEW j \in 1..Len(buffer'), i <= j
            PROVE  buffer'[i].sender <= buffer'[j].sender
        <4>1. CASE j \in 1..Len(buffer)
          <5>1. i \in 1..Len(buffer)
            BY <1>0, <3>2, <4>1
          <5>. QED  BY <2>2, <2>7, <3>2, <4>1, <5>1
        <4>2. CASE j = Len(buffer) + 1 /\ i \in 1..Len(buffer)
          BY <2>2, <2>7, <4>2
        <4>3. CASE j = Len(buffer) + 1 /\ i = Len(buffer) + 1
          BY <1>0, <2>7, <4>3
        <4>. QED  BY SMTT(30), <1>0, <2>7, <4>1, <4>2, <4>3
      <3>. QED  BY <2>1, <2>2, <2>4, <3>1, <3>2 DEF OrderInv
    <2>. QED  BY <2>1, <2>6, <2>7
  <1>7. ASSUME NEW k \in 1..Len(net), Lose(k)
        PROVE  OrderInv'
    <2>1. /\ net' = RemoveAt(net, k) /\ UNCHANGED <<unordered, buffer, rx, drained>>
          /\ InFlight' \subseteq InFlight
      BY <1>7, LoseFacts DEF loopVars
    <2>2. /\ \A i, j \in 1..Len(net) : i <= j => net[i].sender <= net[j].sender
          /\ \A i, j \in 1..Len(buffer) : i <= j => buffer[i].sender <= buffer[j].sender
          /\ \A i \in 1..Len(buffer), j \in 1..Len(net) : buffer[i].sender <= net[j].sender
          /\ \A f \in InFlight : rx.sender <= f.sender
          /\ \A r \in Runs : r > rx.sender => drained[r] = 0
      BY <2>1 DEF OrderInv
    <2>. DEFINE at(j) == IF j < k THEN j ELSE j + 1
    <2>3. /\ Len(net') = Len(net) - 1
          /\ \A j \in 1..Len(net') : net'[j] = net[at(j)]
      BY <1>0, <2>1, RemoveAtFacts
    <2>4. \A j \in 1..Len(net') : at(j) \in 1..Len(net)
      BY <1>0, <2>3
    <2>5. \A i, j \in 1..Len(net') : i <= j => at(i) <= at(j)
      BY <1>0, <2>3
    <2>. HIDE DEF at
    <2>6. \A i, j \in 1..Len(net') : i <= j => net'[i].sender <= net'[j].sender
      BY <2>2, <2>3, <2>4, <2>5
    <2>7. \A i \in 1..Len(buffer), j \in 1..Len(net') : buffer[i].sender <= net'[j].sender
      BY <2>2, <2>3, <2>4
    <2>. QED  BY <2>1, <2>2, <2>6, <2>7 DEF OrderInv
  <1>. QED  BY <1>2, <1>3, <1>4, <1>5, <1>6, <1>7, StepKinds

-----------------------------------------------------------------------------
(* How old a frame is at each stop of its way, until a goto keeps the loop   *)
(* from its socket.                                                          *)
AgeInv ==
  /\ \A i \in 1..Len(net) : now - net[i].sent <= MaxDelay
  /\ pc \in {"navigate", "resume"} => gone
  /\ ~gone => \A i \in 1..Len(buffer) : now - buffer[i].sent <= MaxDelay
  /\ ~gone /\ rx.last # NONE => rx.time - rx.last.sent <= MaxDelay
  /\ HandIsCurrent

(* The clock passes only while the loop drives, its socket drained, or while *)
(* a goto does; and nothing but Drive gives the base a velocity.             *)
LEMMA LoopAge ==
  ASSUME TypeOK, LoopStep
  PROVE  /\ gone => gone'
         /\ \/ /\ now' = now /\ applied' \in {applied, NONE}
            \/ /\ now' = now + 1 /\ \A i \in 1..Len(net) : now - net[i].sent < MaxDelay
               /\ \/ pc = "navigate" /\ UNCHANGED <<pc, gone>>
                  \/ /\ buffer = <<>> /\ pc' = "poll" /\ gone' = gone
                     /\ \/ applied' = NONE
                        \/ applied' = rx.last /\ now - rx.time <= StaleAfter
         /\ pc' \in {"navigate", "resume"} => gone' = TRUE \/ pc \in {"navigate", "resume"}
  <1>1. CASE Drive
    BY <1>1 DEF Drive, Elapse
  <1>2. CASE Navigate
    BY <1>2 DEF Navigate, Elapse, loopVars
  <1>3. CASE \/ \E command \in Command : SendCommand(command)
             \/ Poll \/ ObeyStop \/ StartGoto \/ Arrive \/ EndGoto \/ Over \/ UNCHANGED vars
    BY <1>3 DEF SendCommand, Poll, ObeyStop, StartGoto, Arrive, EndGoto, Over, vars, world, loopVars
  <1>. QED  BY <1>1, <1>2, <1>3 DEF LoopStep

(* It holds after every step.                                                *)
LEMMA AgeNext == TypeOK /\ AgeInv /\ [Next]_vars => AgeInv'
  <1> SUFFICES ASSUME TypeOK, AgeInv, [Next]_vars PROVE AgeInv'
    OBVIOUS
  <1>0. /\ net \in Seq(Frame) /\ buffer \in Seq(Frame)
        /\ Len(net) \in Nat /\ Len(buffer) \in Nat
        /\ \A i \in 1..Len(net) : net[i].sent \in Nat
        /\ \A i \in 1..Len(buffer) : buffer[i].sent \in Nat
        /\ now \in Nat /\ MaxDelay \in Nat /\ StaleAfter \in Nat
    <2>1. net \in Seq(Frame) /\ buffer \in Seq(Frame) /\ now \in 0..MaxNow
      BY DEF TypeOK
    <2>2. \A f \in Frame : f.sent \in Nat
      BY FrameFields, BoundsAssumption
    <2>. QED  BY <2>1, <2>2, BoundsAssumption, StaleAssumption
  <1>1. ASSUME UNCHANGED <<now, buffer, rx, pc, applied, gone>>,
               \A j \in 1..Len(net') : now - net'[j].sent <= MaxDelay
        PROVE  AgeInv'
    BY <1>1 DEF AgeInv, HandIsCurrent
  <1>2. CASE Restart
    BY <1>1, <1>2, RestartFacts DEF loopVars, AgeInv
  <1>3. CASE SendFrame
    <2>1. /\ Len(net') = Len(net) + 1 /\ \A i \in 1..Len(net) : net'[i] = net[i]
          /\ net'[Len(net) + 1] = NewFrame /\ NewFrame.sent = now
          /\ UNCHANGED <<now, buffer, rx, pc, applied, gone>>
      BY <1>3, SendFacts DEF loopVars, NewFrame
    <2>2. ASSUME NEW j \in 1..Len(net') PROVE now - net'[j].sent <= MaxDelay
      <3>1. CASE j \in 1..Len(net)
        BY <2>1, <3>1 DEF AgeInv
      <3>2. CASE j = Len(net) + 1
        BY <1>0, <2>1, <3>2
      <3>. QED  BY <1>0, <2>1, <3>1, <3>2
    <2>. QED  BY <1>1, <2>1, <2>2
  <1>4. CASE Drain
    <2>. DEFINE frame == buffer[1]
    <2>1. /\ 1 \in 1..Len(buffer)
          /\ \A j \in 1..Len(buffer') : buffer'[j] = buffer[j + 1] /\ j + 1 \in 1..Len(buffer)
          /\ \/ rx' = rx
             \/ rx' = [last |-> frame, time |-> now, seq |-> frame.seq, sender |-> frame.sender]
          /\ UNCHANGED <<now, net, pc, applied, gone>>
      BY <1>4, DrainFacts
    <2>2. ~gone => \A i \in 1..Len(buffer') : now - buffer'[i].sent <= MaxDelay
      BY <2>1 DEF AgeInv
    <2>3. ~gone /\ rx'.last # NONE => rx'.time - rx'.last.sent <= MaxDelay
      BY <2>1 DEF AgeInv
    <2>. QED  BY <2>1, <2>2, <2>3 DEF AgeInv, HandIsCurrent
  <1>5. CASE LoopStep
    <2>0. UNCHANGED <<net, buffer, rx>>
      BY <1>5, LoopFacts
    <2>1. gone => gone'
      BY <1>5, LoopAge
    <2>2. pc' \in {"navigate", "resume"} => gone'
      BY <1>5, <2>1, LoopAge DEF AgeInv
    <2>3. CASE now' = now /\ applied' \in {applied, NONE}
      BY <2>0, <2>1, <2>2, <2>3 DEF AgeInv, HandIsCurrent
    <2>4. CASE /\ now' = now + 1 /\ \A i \in 1..Len(net) : now - net[i].sent < MaxDelay
               /\ \/ pc = "navigate" /\ UNCHANGED <<pc, gone>>
                  \/ /\ buffer = <<>> /\ pc' = "poll" /\ gone' = gone
                     /\ \/ applied' = NONE
                        \/ applied' = rx.last /\ now - rx.time <= StaleAfter
      <3>1. \A i \in 1..Len(net') : now' - net'[i].sent <= MaxDelay
        BY <1>0, <2>0, <2>4
      <3>2. CASE pc = "navigate" /\ UNCHANGED <<pc, gone>>
        <4>1. gone'
          BY <2>2, <3>2
        <4>. QED  BY <2>0, <2>2, <3>1, <4>1 DEF AgeInv, HandIsCurrent
      <3>3. CASE /\ buffer = <<>> /\ pc' = "poll" /\ gone' = gone
                 /\ \/ applied' = NONE
                    \/ applied' = rx.last /\ now - rx.time <= StaleAfter
        <4>1. HandIsCurrent'
          <5> SUFFICES ASSUME applied' # NONE, ~gone
                       PROVE  now' - applied'.sent <= MaxDelay + StaleAfter + 1
            BY <3>3 DEF HandIsCurrent
          <5>1. /\ rx.last # NONE /\ applied' = rx.last /\ now - rx.time <= StaleAfter
                /\ rx.time - rx.last.sent <= MaxDelay
            BY <3>3 DEF AgeInv
          <5>2. rx.time \in Nat /\ rx.last.sent \in Nat
            <6>1. rx.time \in 0..MaxNow /\ rx.last \in Frame
              BY <5>1 DEF TypeOK
            <6>. QED  BY <6>1, FrameFields, BoundsAssumption
          <5>. QED  BY <1>0, <2>4, <5>1, <5>2
        <4>2. buffer' = <<>> /\ rx' = rx
          BY <2>0, <3>3
        <4>. QED  BY <2>1, <2>2, <3>1, <3>3, <4>1, <4>2 DEF AgeInv
      <3>. QED  BY <2>4, <3>2, <3>3
    <2>. QED  BY <1>5, <2>3, <2>4, LoopAge
  <1>6. ASSUME NEW k \in 1..Len(net), Deliver(k)
        PROVE  AgeInv'
    <2>1. /\ UNCHANGED <<now, rx, pc, applied, gone>>
          /\ net' = net \/ net' = RemoveAt(net, k)
          /\ \/ buffer' = buffer
             \/ /\ Len(buffer') = Len(buffer) + 1
                /\ \A j \in 1..Len(buffer) : buffer'[j] = buffer[j]
                /\ buffer'[Len(buffer) + 1] = net[k]
      BY <1>6, DeliverFacts DEF loopVars
    <2>2. \A j \in 1..Len(net') : now - net'[j].sent <= MaxDelay
      <3>1. CASE net' = RemoveAt(net, k)
        <4>1. /\ Len(net') = Len(net) - 1
              /\ \A j \in 1..Len(net') : net'[j] = net[IF j < k THEN j ELSE j + 1]
          BY <1>0, <3>1, RemoveAtFacts
        <4>2. \A j \in 1..Len(net') : (IF j < k THEN j ELSE j + 1) \in 1..Len(net)
          BY <1>0, <4>1
        <4>. QED  BY <4>1, <4>2 DEF AgeInv
      <3>. QED  BY <2>1, <3>1 DEF AgeInv
    <2>3. ASSUME ~gone, NEW j \in 1..Len(buffer') PROVE now - buffer'[j].sent <= MaxDelay
      <3>1. CASE j \in 1..Len(buffer)
        BY <2>1, <2>3, <3>1 DEF AgeInv
      <3>2. CASE j = Len(buffer) + 1 /\ buffer'[Len(buffer) + 1] = net[k]
        BY <3>2 DEF AgeInv
      <3>. QED  BY <1>0, <2>1, <3>1, <3>2
    <2>. QED  BY <2>1, <2>2, <2>3 DEF AgeInv, HandIsCurrent
  <1>7. ASSUME NEW k \in 1..Len(net), Lose(k)
        PROVE  AgeInv'
    <2>1. net' = RemoveAt(net, k) /\ UNCHANGED <<now, buffer, rx, pc, applied, gone>>
      BY <1>7, LoseFacts DEF loopVars
    <2>2. /\ Len(net') = Len(net) - 1
          /\ \A j \in 1..Len(net') : net'[j] = net[IF j < k THEN j ELSE j + 1]
      BY <1>0, <2>1, RemoveAtFacts
    <2>3. \A j \in 1..Len(net') : now - net'[j].sent <= MaxDelay
      <3>1. \A j \in 1..Len(net') : (IF j < k THEN j ELSE j + 1) \in 1..Len(net)
        BY <1>0, <2>2
      <3>. QED  BY <2>2, <3>1 DEF AgeInv
    <2>. QED  BY <1>1, <2>1, <2>3
  <1>. QED  BY <1>2, <1>3, <1>4, <1>5, <1>6, <1>7, StepKinds

-----------------------------------------------------------------------------
(* A gripper that was closed: where there has been one run, or the network   *)
(* keeps order, nothing in flight of the run that closed it, from some       *)
(* number on that was taken already, opens it but for a hand seen apart.     *)
OneRun == ~unordered \/ teleop.run <= 1

ClosedBy(q) ==
  /\ rx.sender = claw.by => q <= rx.seq
  /\ teleop.run = claw.by => q <= teleop.seq
  /\ \A f \in InFlight :
       f.sender = claw.by /\ f.seq >= q => f.action.closed \/ f.action.parted

ClawInv ==
  /\ claw.by <= teleop.run
  /\ pc \in {"navigate", "resume"} => applied = NONE
  /\ applied # NONE /\ applied.action.moves => claw.grip = "open"
  /\ claw.grip # "open" /\ OneRun =>
       /\ claw.by <= rx.sender /\ rx.last # NONE
       /\ teleop.run = claw.by => bridge.closed \/ bridge.parted
       /\ \E q \in Nat : ClosedBy(q)

(* Fingers whose place is measured stay as they are, or slacken.             *)
LEMMA FingersCases ==
  ASSUME FingersMeasured
  PROVE  \/ claw' = claw
         \/ claw.grip = "closed" /\ claw' = [claw EXCEPT !.grip = "slack"]
  BY DEF FingersMeasured

(* What the loop does to the gripper: it only ever closes and opens with the *)
(* frame that the receiver holds.                                            *)
LEMMA LoopClaw ==
  ASSUME TypeOK, GotoPending, LoopStep, ClawInv
  PROVE  /\ pc' \in {"navigate", "resume"} => applied' = NONE
         /\ \/ applied' = applied /\ claw' = claw
            \/ applied' = NONE /\ claw' = claw
            \/ applied' = NONE /\ claw.grip = "closed" /\ claw' = [claw EXCEPT !.grip = "slack"]
            \/ /\ applied' = rx.last /\ rx.last # NONE /\ rx.last.action.closed
               /\ claw' = [grip |-> "closed", by |-> rx.last.sender]
            \/ /\ applied' = rx.last /\ rx.last # NONE /\ ~rx.last.action.closed
               /\ claw' = [claw EXCEPT !.grip = "open"]
  <1>1. CASE Drive
    <2>1. /\ applied' = NONE \/ applied' = rx.last
          /\ SetGripper /\ pc' = "poll"
      BY <1>1 DEF Drive
    <2>. QED  BY <2>1, GripperCases
  <1>2. CASE StartGoto
    <2>1. applied' = NONE /\ FingersMeasured
      BY <1>2 DEF StartGoto
    <2>. QED  BY <2>1, FingersCases
  <1>3. CASE EndGoto
    <2>1. applied' = applied /\ applied = NONE /\ FingersMeasured
      BY <1>3 DEF EndGoto, ClawInv
    <2>. QED  BY <2>1, FingersCases
  <1>4. CASE \/ \E command \in Command : SendCommand(command)
             \/ Poll \/ ObeyStop \/ Navigate \/ Arrive \/ Over \/ UNCHANGED vars
    <2>1. claw' = claw /\ applied' = applied
      BY <1>4 DEF SendCommand, Poll, ObeyStop, Navigate, Arrive, Over, vars, world, loopVars
    <2>2. pc' \in {"navigate", "resume"} => pc \in {"navigate", "resume"}
      BY <1>4 DEF SendCommand, Poll, ObeyStop, Navigate, Arrive, Over, vars, world, loopVars
    <2>. QED  BY <2>1, <2>2 DEF ClawInv
  <1>. QED  BY <1>1, <1>2, <1>3, <1>4 DEF LoopStep

(* The invariant of the gripper holds after every step.                      *)
LEMMA ClawNext ==
  /\ TypeOK /\ GotoPending /\ BridgeInv /\ FramesInv /\ PairInv /\ RxInv /\ OrderInv
  /\ ClawInv /\ [Next]_vars
  => ClawInv'
  <1> SUFFICES ASSUME TypeOK, GotoPending, BridgeInv, FramesInv, PairInv, RxInv, OrderInv,
                      ClawInv, [Next]_vars
               PROVE  ClawInv'
    OBVIOUS
  <1>0. /\ rx.sender \in Nat /\ teleop.run \in Nat /\ teleop.seq \in Nat /\ claw.by \in Nat
        /\ rx.seq \in Int
        /\ \A f \in InFlight : f.sender \in 1..MaxRuns /\ f.seq \in Nat
    <2>1. /\ rx \in [last : Frame \cup {NONE}, time : 0..MaxNow, seq : Nat \cup {-1}, sender : 0..MaxRuns]
          /\ teleop \in [run : 0..MaxRuns, seq : Nat, sentAt : -1..MaxNow]
          /\ claw \in [grip : {"open", "closed", "slack"}, by : 0..MaxRuns]
      BY DEF TypeOK
    <2>2. \A f \in InFlight : f.sender \in 1..MaxRuns /\ f.seq \in Nat
      BY InFlightFrames, FrameFields
    <2>. QED  BY <2>1, <2>2, BoundsAssumption
  <1>1. ASSUME UNCHANGED <<unordered, teleop, bridge, rx, pc, applied, claw>>,
               InFlight' \subseteq InFlight
        PROVE  ClawInv'
    <2>1. \A q \in Nat : ClosedBy(q) => ClosedBy(q)'
      BY <1>1 DEF ClosedBy
    <2>2. OneRun' => OneRun
      BY <1>1 DEF OneRun
    <2>. QED  BY <1>1, <2>1, <2>2 DEF ClawInv
  <1>2. CASE Restart
    <2>1. /\ teleop'.run = teleop.run + 1 /\ InFlight' = InFlight
          /\ UNCHANGED <<unordered, rx, pc, applied, claw>>
      BY <1>2, RestartFacts DEF loopVars
    <2>2. OneRun' => OneRun
      BY <1>0, <2>1 DEF OneRun
    <2>3. ASSUME claw.grip # "open", OneRun'
          PROVE  /\ claw.by <= rx.sender /\ rx.last # NONE
                 /\ teleop'.run # claw.by
                 /\ \E q \in Nat : ClosedBy(q)'
      <3>1. claw.by <= rx.sender /\ rx.last # NONE /\ teleop'.run # claw.by
        BY <1>0, <2>1, <2>2, <2>3 DEF ClawInv
      <3>2. PICK q \in Nat : ClosedBy(q)
        BY <2>2, <2>3 DEF ClawInv
      <3>3. ClosedBy(q)'
        BY <2>1, <3>1, <3>2 DEF ClosedBy
      <3>. QED  BY <3>1, <3>3
    <2>4. claw.by <= teleop'.run
      BY <1>0, <2>1 DEF ClawInv
    <2>. QED  BY <2>1, <2>3, <2>4 DEF ClawInv
  <1>3. CASE SendFrame
    <2>1. /\ teleop'.run = teleop.run /\ teleop'.seq = teleop.seq + 1
          /\ InFlight' \subseteq InFlight \cup {NewFrame}
          /\ UNCHANGED <<unordered, rx, pc, applied, claw>>
      BY <1>3, SendFacts DEF loopVars
    <2>2. bridge.closed \/ bridge.parted => bridge'.closed \/ bridge'.parted
      <3>1. PICK hand \in Hands : bridge' = Retarget(bridge, hand)
        BY <1>3 DEF SendFrame
      <3>. QED  BY <3>1, RetargetFacts DEF TypeOK
    <2>3. NewFrame.sender = teleop.run /\ NewFrame.action = bridge'
      BY DEF NewFrame
    <2>4. OneRun' => OneRun
      BY <2>1 DEF OneRun
    <2>5. ASSUME claw.grip # "open", OneRun'
          PROVE  /\ claw.by <= rx.sender /\ rx.last # NONE
                 /\ teleop.run = claw.by => bridge'.closed \/ bridge'.parted
                 /\ \E q \in Nat : ClosedBy(q)'
      <3>1. /\ claw.by <= rx.sender /\ rx.last # NONE
            /\ teleop.run = claw.by => bridge'.closed \/ bridge'.parted
        BY <2>2, <2>4, <2>5 DEF ClawInv
      <3>2. PICK q \in Nat : ClosedBy(q)
        BY <2>4, <2>5 DEF ClawInv
      <3>3. ASSUME NEW f \in InFlight', f.sender = claw.by, f.seq >= q
            PROVE  f.action.closed \/ f.action.parted
        BY <2>1, <2>3, <3>1, <3>2, <3>3 DEF ClosedBy
      <3>4. teleop'.run = claw.by => q <= teleop'.seq
        BY <1>0, <2>1, <3>2 DEF ClosedBy
      <3>5. ClosedBy(q)'
        BY <2>1, <3>2, <3>3, <3>4 DEF ClosedBy
      <3>. QED  BY <3>1, <3>5
    <2>. QED  BY <2>1, <2>5 DEF ClawInv
  <1>4. CASE Drain
    <2>. DEFINE frame == buffer[1]
    <2>1. /\ frame \in InFlight /\ frame # NONE
          /\ \/ rx' = rx /\ frame.sender = rx.sender
             \/ /\ rx' = [last |-> frame, time |-> now, seq |-> frame.seq, sender |-> frame.sender]
                /\ frame.sender = rx.sender => frame.seq > rx.seq
          /\ UNCHANGED <<unordered, teleop, bridge, pc, applied, claw>>
          /\ InFlight' \subseteq InFlight
      BY <1>4, DrainFacts, NoneAssumption
    <2>. HIDE DEF frame
    <2>2. OneRun' => OneRun
      BY <2>1 DEF OneRun
    <2>3. ASSUME claw.grip # "open", OneRun'
          PROVE  /\ claw.by <= rx'.sender /\ rx'.last # NONE
                 /\ teleop.run = claw.by => bridge.closed \/ bridge.parted
                 /\ \E q \in Nat : ClosedBy(q)'
      <3>1. /\ claw.by <= rx.sender /\ rx.last # NONE
            /\ teleop.run = claw.by => bridge.closed \/ bridge.parted
        BY <2>2, <2>3 DEF ClawInv
      <3>2. rx.sender <= frame.sender
        <4>1. CASE ~unordered
          BY <2>1, <4>1 DEF OrderInv
        <4>2. CASE teleop.run <= 1
          <5>1. frame.sender >= 1
            BY <1>0, <2>1, BoundsAssumption
          <5>2. rx.sender <= 1
            BY <1>0, <4>2 DEF RxInv
          <5>. QED  BY <1>0, <2>1, <5>1, <5>2, BoundsAssumption
        <4>. QED  BY <2>2, <2>3, <4>1, <4>2 DEF OneRun
      <3>3. PICK q \in Nat : ClosedBy(q)
        BY <2>2, <2>3 DEF ClawInv
      <3>4. rx'.sender = frame.sender /\ rx'.last # NONE
        BY <2>1, <3>1
      <3>5. frame.sender \in Nat /\ frame.seq \in Nat
        BY <1>0, <2>1, BoundsAssumption
      <3>6. rx'.sender = claw.by => q <= rx'.seq
        <4> SUFFICES ASSUME frame.sender = claw.by PROVE q <= rx'.seq
          BY <3>4
        <4>1. rx.sender = claw.by
          BY <1>0, <3>1, <3>2, <3>5
        <4>2. q <= rx.seq
          BY <3>3, <4>1 DEF ClosedBy
        <4>3. rx' = rx \/ (rx'.seq = frame.seq /\ frame.seq > rx.seq)
          BY <2>1, <4>1
        <4>. QED  BY <1>0, <3>5, <4>2, <4>3
      <3>7. ClosedBy(q)'
        BY <2>1, <3>3, <3>6 DEF ClosedBy
      <3>. QED  BY <1>0, <3>1, <3>2, <3>4, <3>5, <3>7
    <2>. QED  BY <2>1, <2>3 DEF ClawInv
  <1>5. CASE LoopStep
    <2>1. UNCHANGED <<unordered, teleop, bridge, rx>> /\ InFlight' = InFlight
      BY <1>5, LoopFacts
    <2>2. pc' \in {"navigate", "resume"} => applied' = NONE
      BY <1>5, LoopClaw
    <2>3. CASE /\ claw'.by = claw.by
               /\ claw'.grip # "open" => claw.grip # "open"
               /\ applied' # NONE /\ applied'.action.moves => claw'.grip = "open"
      <3>1. \A q \in Nat : ClosedBy(q) => ClosedBy(q)'
        BY <2>1, <2>3 DEF ClosedBy
      <3>2. OneRun' => OneRun
        BY <2>1 DEF OneRun
      <3>. QED  BY <2>1, <2>2, <2>3, <3>1, <3>2 DEF ClawInv
    <2>4. CASE /\ applied' = rx.last /\ rx.last # NONE /\ rx.last.action.closed
               /\ claw' = [grip |-> "closed", by |-> rx.last.sender]
      <3>1. rx.last \in InFlight /\ rx.sender = rx.last.sender /\ rx.seq = rx.last.seq
        BY <2>4 DEF InFlight, RxInv
      <3>2. claw'.by = rx.sender /\ claw'.grip = "closed"
        BY <2>4, <3>1
      <3>3. rx.seq \in Nat
        BY <1>0, <3>1
      <3>4. ClosedBy(rx.seq)'
        <4>1. ASSUME NEW f \in InFlight, f.sender = rx.sender, f.seq >= rx.seq
              PROVE  f.action.closed \/ f.action.parted
          BY <1>0, <2>4, <3>1, <4>1 DEF PairInv
        <4>2. teleop.run = rx.sender => rx.seq <= teleop.seq
          BY <3>1 DEF FramesInv
        <4>3. rx.seq <= rx.seq
          BY <1>0
        <4>. QED  BY <2>1, <3>2, <4>1, <4>2, <4>3 DEF ClosedBy
      <3>5. teleop.run = rx.sender => bridge.closed \/ bridge.parted
        BY <2>4, <3>1 DEF FramesInv
      <3>6. ~rx.last.action.moves
        BY <2>4, <3>1 DEF FramesInv
      <3>7. rx.sender <= teleop.run /\ rx.sender <= rx.sender
        BY <1>0 DEF RxInv
      <3>8. \E q \in Nat : ClosedBy(q)'
        BY <3>3, <3>4, <2>1
      <3>. QED  BY <2>1, <2>2, <2>4, <3>2, <3>5, <3>6, <3>7, <3>8 DEF ClawInv
    <2>5. \/ applied' = applied /\ claw' = claw
          \/ applied' = NONE /\ claw' = claw
          \/ applied' = NONE /\ claw.grip = "closed" /\ claw' = [claw EXCEPT !.grip = "slack"]
          \/ /\ applied' = rx.last /\ rx.last # NONE /\ rx.last.action.closed
             /\ claw' = [grip |-> "closed", by |-> rx.last.sender]
          \/ /\ applied' = rx.last /\ rx.last # NONE /\ ~rx.last.action.closed
             /\ claw' = [claw EXCEPT !.grip = "open"]
      BY <1>5, LoopClaw
    <2>6. claw \in [grip : {"open", "closed", "slack"}, by : 0..MaxRuns]
      BY DEF TypeOK
    <2>7. CASE applied' = applied /\ claw' = claw
      BY <2>3, <2>7 DEF ClawInv
    <2>8. CASE applied' = NONE /\ claw' = claw
      BY <2>3, <2>8
    <2>9. CASE applied' = NONE /\ claw.grip = "closed" /\ claw' = [claw EXCEPT !.grip = "slack"]
      BY <2>3, <2>6, <2>9
    <2>10. CASE /\ applied' = rx.last /\ rx.last # NONE /\ ~rx.last.action.closed
                /\ claw' = [claw EXCEPT !.grip = "open"]
      BY <2>3, <2>6, <2>10
    <2>. QED  BY <2>4, <2>5, <2>7, <2>8, <2>9, <2>10
  <1>6. ASSUME NEW k \in 1..Len(net), Deliver(k) \/ Lose(k)
        PROVE  ClawInv'
    BY <1>1, <1>6, DeliverFacts, LoseFacts DEF loopVars
  <1>. QED  BY <1>2, <1>3, <1>4, <1>5, <1>6, StepKinds

-----------------------------------------------------------------------------
(* The inductive invariant.                                                  *)
IInv ==
  /\ TypeOK /\ GotoPending /\ BridgeInv /\ FramesInv /\ PairInv
  /\ RxInv /\ RunsInv /\ OrderInv /\ AgeInv /\ ClawInv

(* It holds in every reachable state.                                        *)
THEOREM Invariance == Spec => []IInv
  <1>1. Init => IInv
    <2> SUFFICES ASSUME Init PROVE IInv
      OBVIOUS
    <2>1. TypeOK /\ GotoPending
      BY TypeInit
    <2>2. /\ teleop = [run |-> 0, seq |-> 0, sentAt |-> -1] /\ bridge = Neutral
          /\ net = <<>> /\ buffer = <<>>
          /\ rx = [last |-> NONE, time |-> 0, seq |-> -1, sender |-> 0]
          /\ pc = "poll" /\ applied = NONE /\ claw = [grip |-> "open", by |-> 0]
          /\ drained = [r \in Runs |-> 0]
      BY DEF Init
    <2>3. InFlight = {} /\ rx.last = NONE /\ rx.sender = 0 /\ rx.seq = -1
      BY <2>2 DEF InFlight
    <2>4. BridgeInv
      BY <2>2 DEF BridgeInv, Neutral
    <2>5. FramesInv /\ PairInv
      BY <2>3 DEF FramesInv, PairInv
    <2>6. RxInv /\ RunsInv
      BY <2>2, <2>3 DEF RxInv, RunsInv
    <2>7. OrderInv
      BY <2>2, <2>3 DEF OrderInv
    <2>8. AgeInv
      BY <2>2, <2>3 DEF AgeInv, HandIsCurrent
    <2>9. ClawInv
      BY <2>2 DEF ClawInv
    <2>. QED  BY <2>1, <2>4, <2>5, <2>6, <2>7, <2>8, <2>9 DEF IInv
  <1>2. IInv /\ [Next]_vars => IInv'
    BY TypeNext, BridgeNext, FramesNext, RxNext, OrderNext, AgeNext, ClawNext DEF IInv
  <1>. QED  BY <1>1, <1>2, PTL DEF Spec

(* Every variable keeps its type.                                            *)
THEOREM TypeCorrect == Spec => []TypeOK
  <1>1. IInv => TypeOK
    BY DEF IInv
  <1>. QED  BY <1>1, Invariance, PTL

(* Of a single run of the teleop process the receiver holds the newest frame *)
(* it drained (ActionReceiver.latest), whatever the network does.            *)
THEOREM NewestIsHeld == Spec => []NeverRewinds
  <1>1. IInv => NeverRewinds
    BY DEF IInv, RxInv, RunsInv, NeverRewinds
  <1>. QED  BY <1>1, Invariance, PTL

(* A restarted teleop takes over with its first frame, where the network     *)
(* keeps order (ActionReceiver.latest, sender_id).                           *)
THEOREM RestartTakesOver == Spec => []NewestRunDrives
  <1>1. IInv => NewestRunDrives
    BY DEF IInv, RxInv, OrderInv, NewestRunDrives
  <1>. QED  BY <1>1, Invariance, PTL

(* The base is driven by no hand older than the network's delay, one tick    *)
(* and stale_after, until a goto keeps the loop away (teleop_hospital.main). *)
THEOREM DeadMan == Spec => []HandIsCurrent
  <1>1. IInv => HandIsCurrent
    BY DEF IInv, AgeInv
  <1>. QED  BY <1>1, Invariance, PTL

(* The gripper does not drop what it holds, and the base does not move while *)
(* it is closed, for a frame lost, late or twice (LandmarkIkBridge).         *)
THEOREM GlitchDropsNothing == Spec => PayloadIsKept
  <1>. DEFINE Kept ==
         /\ claw.grip # "open" /\ claw'.grip = "open" =>
              \/ applied'.action.parted
              \/ applied'.sender # claw.by
              \/ unordered /\ teleop.run > 1
         /\ applied' # NONE /\ applied'.action.moves => claw'.grip = "open"
  <1>1. IInv /\ IInv' /\ [Next]_vars => [Kept]_vars
    <2> SUFFICES ASSUME IInv, IInv', [Next]_vars PROVE Kept
      OBVIOUS
    <2>1. applied' # NONE /\ applied'.action.moves => claw'.grip = "open"
      BY DEF IInv, ClawInv
    <2>2. ASSUME claw.grip # "open", claw'.grip = "open"
          PROVE  \/ applied'.action.parted
                 \/ applied'.sender # claw.by
                 \/ unordered /\ teleop.run > 1
      <3>1. claw' # claw
        BY <2>2
      <3>2. LoopStep
        <4>1. \A i \in 1..Len(net) : Deliver(i) \/ Lose(i) => claw' = claw
          BY DEF Deliver, Lose, loopVars
        <4>2. Restart \/ SendFrame \/ Drain => claw' = claw
          BY DEF Restart, SendFrame, Drain, loopVars
        <4>. QED  BY <3>1, <4>1, <4>2, StepKinds
      <3>3. TypeOK /\ GotoPending /\ ClawInv /\ RxInv
        BY DEF IInv
      <3>4. claw \in [grip : {"open", "closed", "slack"}, by : 0..MaxRuns]
        BY <3>3 DEF TypeOK
      <3>5. applied' = rx.last /\ rx.last # NONE /\ ~rx.last.action.closed
        BY <2>2, <3>2, <3>3, <3>4, LoopClaw
      <3>6. rx.last \in InFlight /\ rx.sender = rx.last.sender /\ rx.seq = rx.last.seq
        BY <3>3, <3>5 DEF InFlight, RxInv
      <3>7. CASE OneRun /\ rx.last.sender = claw.by
        <4>1. PICK q \in Nat : ClosedBy(q)
          BY <2>2, <3>3, <3>7 DEF ClawInv
        <4>2. rx.last.seq >= q
          <5>1. q <= rx.seq
            BY <3>6, <3>7, <4>1 DEF ClosedBy
          <5>2. rx.last.seq \in Nat
            BY <3>3, <3>6, InFlightFrames, FrameFields
          <5>. QED  BY <3>6, <5>1, <5>2
        <4>. QED  BY <3>5, <3>6, <3>7, <4>1, <4>2 DEF ClosedBy
      <3>8. CASE ~OneRun
        <4>1. unordered /\ ~(teleop.run <= 1)
          BY <3>8 DEF OneRun
        <4>2. teleop.run \in Nat
          BY <3>3, BoundsAssumption DEF TypeOK
        <4>. QED  BY <4>1, <4>2
      <3>. QED  BY <3>5, <3>7, <3>8
    <2>. QED  BY <2>1, <2>2
  <1>. QED  BY <1>1, Invariance, PTL DEF Spec, PayloadIsKept
=============================================================================
