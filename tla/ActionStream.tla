---------------------------- MODULE ActionStream ----------------------------
(***************************************************************************)
(* Hand frames on their way from the teleop process to the simulated robot *)
(* (simbiote/teleop/action_bridge.py), and the loop of teleop_hospital.py  *)
(* that acts on them.  UdpActionSink numbers the frames of one process run *)
(* and sends them off; the network may lose, delay, reorder and duplicate  *)
(* them; the kernel keeps BufferSize of them for ActionReceiver.latest(),  *)
(* which drains its socket once per loop tick; and a `goto` command, sent  *)
(* on a socket of its own, keeps the loop away for as long as navigate_to  *)
(* drives.                                                                 *)
(*                                                                         *)
(* The loop is the clock: a tick of it, or of navigate_to, takes one unit  *)
(* of time.  A frame is its sender's run, its number, when it was sent and *)
(* the action of the IK bridge in it.                                      *)
(***************************************************************************)
EXTENDS Integers, Sequences, FiniteSets, SequencesExt, IkBridge

CONSTANTS
  MaxRuns,      \* bound: starts of the teleop process
  MaxNow,       \* bound: how long is watched
  MaxCommands,  \* bound: commands the operator sends
  MaxDelay,     \* a frame still under way after this long is lost
  BufferSize,   \* frames the receiver's kernel buffer holds
  StaleAfter,   \* ActionReceiver.stale_after
  Hands         \* what the tracker may see in a frame

Runs == 1..MaxRuns
Frame == [sender : Runs, seq : Nat, sent : 0..MaxNow, action : Bridge]

ASSUME BoundsAssumption ==
  MaxRuns \in Nat /\ MaxNow \in Nat /\ MaxCommands \in Nat /\ MaxDelay \in Nat
ASSUME BufferAssumption == BufferSize \in Nat \ {0}
ASSUME StaleAssumption == StaleAfter \in Nat
ASSUME NoneAssumption == NONE \notin Hand /\ NONE \notin Frame
ASSUME HandsAssumption == Hands \subseteq Hand \cup {NONE}

VARIABLES
  unordered, \* the network reorders and duplicates: settled once
  now,       \* the time
  teleop,    \* the teleop process: its run, its last number, when that was sent
  bridge,    \* its IK bridge
  net,       \* frames under way, oldest first
  buffer,    \* the receiver's socket
  rx,        \* ActionReceiver: last action, when it came, last number, last sender
  pc,        \* the simulator's loop: "poll", "obey", "navigate", "resume"
  cmds,      \* the command socket
  todo,      \* commands polled and not yet acted on
  applied,   \* the frame whose velocity the base was last given
  claw,      \* the gripper's target: "open", "closed" or "slack"; who closed it
  asked,     \* how many commands the operator has sent
  gone,      \* history: a goto has kept the loop away
  drained    \* history: the highest number drained of each run

loopVars == <<rx, pc, cmds, todo, applied, claw, gone, drained>>
world == <<unordered, now, teleop, bridge, net, buffer, asked>>
vars == <<world, loopVars>>

Command == {"goto", "stop"}

TypeOK ==
  /\ unordered \in BOOLEAN
  /\ now \in 0..MaxNow
  /\ teleop \in [run : 0..MaxRuns, seq : Nat, sentAt : -1..MaxNow]
  /\ bridge \in Bridge
  /\ net \in Seq(Frame)
  /\ buffer \in Seq(Frame) /\ Len(buffer) <= BufferSize
  /\ rx \in [last : Frame \cup {NONE}, time : 0..MaxNow, seq : Nat \cup {-1}, sender : 0..MaxRuns]
  /\ pc \in {"poll", "obey", "navigate", "resume"}
  /\ cmds \in Seq(Command) /\ todo \in Seq(Command)
  /\ applied \in Frame \cup {NONE}
  /\ claw \in [grip : {"open", "closed", "slack"}, by : 0..MaxRuns]
  /\ asked \in 0..MaxCommands
  /\ gone \in BOOLEAN
  /\ drained \in [Runs -> Nat]

Init ==
  /\ unordered \in BOOLEAN
  /\ now = 0
  /\ teleop = [run |-> 0, seq |-> 0, sentAt |-> -1]
  /\ bridge = Neutral
  /\ net = <<>> /\ buffer = <<>>
  /\ rx = [last |-> NONE, time |-> 0, seq |-> -1, sender |-> 0]
  /\ pc = "poll" /\ cmds = <<>> /\ todo = <<>>
  /\ applied = NONE /\ claw = [grip |-> "open", by |-> 0]
  /\ asked = 0 /\ gone = FALSE
  /\ drained = [r \in Runs |-> 0]

-----------------------------------------------------------------------------
(* The teleop process.                                                       *)

(* A new run draws a new sender id, counts from zero and has a new bridge.   *)
Restart ==
  /\ teleop.run < MaxRuns
  /\ teleop' = [teleop EXCEPT !.run = @ + 1, !.seq = 0]
  /\ bridge' = Neutral
  /\ UNCHANGED <<unordered, now, net, buffer, asked, loopVars>>

(* One frame at most per tick of the loop: the camera is the slower of both. *)
SendFrame ==
  /\ teleop.run > 0 /\ teleop.sentAt < now
  /\ \E hand \in Hands : bridge' = Retarget(bridge, hand)
  /\ teleop' = [teleop EXCEPT !.seq = @ + 1, !.sentAt = now]
  /\ net' = Append(net, [sender |-> teleop.run, seq |-> teleop.seq + 1, sent |-> now, action |-> bridge'])
  /\ UNCHANGED <<unordered, now, buffer, asked, loopVars>>

-----------------------------------------------------------------------------
(* The network and the kernel.                                               *)

(* A full socket buffer refuses the newcomer.                                *)
Receive(frame) ==
  buffer' = IF Len(buffer) < BufferSize THEN Append(buffer, frame) ELSE buffer

Deliver(i) ==
  /\ i \in 1..Len(net) /\ (unordered \/ i = 1)
  /\ Receive(net[i])
  /\ \/ net' = RemoveAt(net, i)
     \/ unordered /\ UNCHANGED net
  /\ UNCHANGED <<unordered, now, teleop, bridge, asked, loopVars>>

Lose(i) ==
  /\ i \in 1..Len(net)
  /\ net' = RemoveAt(net, i)
  /\ UNCHANGED <<unordered, now, teleop, bridge, buffer, asked, loopVars>>

SendCommand(command) ==
  /\ asked < MaxCommands
  /\ asked' = asked + 1
  /\ cmds' = Append(cmds, command)
  /\ UNCHANGED <<unordered, now, teleop, bridge, net, buffer, rx, pc, todo, applied, claw, gone, drained>>

-----------------------------------------------------------------------------
(* The simulator's loop.                                                     *)

(* Mutant: a frame is taken whatever its number.                             *)
AcceptAny(state, frame) ==
  [last |-> frame, time |-> now, seq |-> frame.seq, sender |-> frame.sender]

(* Mutant: the numbers of a new sender are held against the old one's.       *)
AcceptSameCounter(state, frame) ==
  IF frame.seq > state.seq
  THEN [last |-> frame, time |-> now, seq |-> frame.seq, sender |-> frame.sender]
  ELSE state

(* latest(), one datagram: a new sender's numbers are taken on, an old one's *)
(* must rise.                                                                *)
Accept(state, frame) ==
  LET known == IF frame.sender = state.sender THEN state.seq ELSE -1 IN
  IF frame.seq > known
  THEN [last |-> frame, time |-> now, seq |-> frame.seq, sender |-> frame.sender]
  ELSE [state EXCEPT !.seq = known, !.sender = frame.sender]

(* latest() takes what waits in the socket one datagram at a time, and       *)
(* returns when there is no more; what arrives meanwhile is taken as well.   *)
Draining == pc = "resume" \/ (pc = "obey" /\ todo = <<>>)

Drain ==
  /\ Draining /\ buffer # <<>>
  /\ LET frame == Head(buffer) IN
     /\ rx' = Accept(rx, frame)
     /\ drained' = [drained EXCEPT ![frame.sender] = IF frame.seq > @ THEN frame.seq ELSE @]
  /\ buffer' = Tail(buffer)
  /\ UNCHANGED <<unordered, now, teleop, bridge, net, asked, pc, cmds, todo, applied, claw, gone>>

(* Nothing stays under way for longer than MaxDelay.                         *)
Elapse ==
  /\ now < MaxNow
  /\ \A i \in 1..Len(net) : now - net[i].sent < MaxDelay
  /\ now' = now + 1

Poll ==
  /\ pc = "poll"
  /\ todo' = cmds /\ cmds' = <<>>
  /\ pc' = "obey"
  /\ UNCHANGED <<world, rx, applied, claw, gone, drained>>

(* A stop is printed; a goto pauses the hand for as long as it drives.       *)
ObeyStop ==
  /\ pc = "obey" /\ todo # <<>> /\ Head(todo) = "stop"
  /\ todo' = Tail(todo)
  /\ UNCHANGED <<world, rx, pc, cmds, applied, claw, gone, drained>>

(* _reset_drive_target: the fingers' target is where they are, and if there  *)
(* is something between them they hold it no more than they did.             *)
FingersMeasured ==
  claw' \in {claw} \cup {[claw EXCEPT !.grip = "slack"] : held \in {claw.grip} \cap {"closed"}}

StartGoto ==
  /\ pc = "obey" /\ todo # <<>> /\ Head(todo) = "goto"
  /\ pc' = "navigate" /\ applied' = NONE /\ gone' = TRUE
  /\ FingersMeasured
  /\ UNCHANGED <<world, rx, cmds, todo, drained>>

Navigate ==
  /\ pc = "navigate"
  /\ Elapse
  /\ UNCHANGED <<unordered, teleop, bridge, net, buffer, asked, loopVars>>

Arrive ==
  /\ pc = "navigate"
  /\ pc' = "resume"
  /\ UNCHANGED <<world, rx, cmds, todo, applied, claw, gone, drained>>

(* The frames that piled up while navigate_to drove have been drained.       *)
EndGoto ==
  /\ pc = "resume" /\ buffer = <<>>
  /\ FingersMeasured
  /\ pc' = "obey"
  /\ todo' = Tail(todo)
  /\ UNCHANGED <<world, rx, cmds, applied, gone, drained>>

(* The gripper follows the frame; silence leaves it as it is.                *)
SetGripper ==
  claw' = CASE applied' = NONE -> claw
            [] applied' # NONE /\ applied'.action.closed -> [grip |-> "closed", by |-> applied'.sender]
            [] OTHER -> [claw EXCEPT !.grip = "open"]

(* Mutant: silence is not noticed.                                           *)
DriveOn ==
  /\ pc = "obey" /\ todo = <<>> /\ buffer = <<>>
  /\ applied' = rx.last
  /\ SetGripper
  /\ pc' = "poll"
  /\ Elapse
  /\ UNCHANGED <<unordered, teleop, bridge, net, buffer, asked, rx, cmds, todo, gone, drained>>

(* The rest of the iteration, the socket drained: drive, step.               *)
Drive ==
  /\ pc = "obey" /\ todo = <<>> /\ buffer = <<>>
  /\ applied' = IF rx.last # NONE /\ now - rx.time <= StaleAfter THEN rx.last ELSE NONE
  /\ SetGripper
  /\ pc' = "poll"
  /\ Elapse
  /\ UNCHANGED <<unordered, teleop, bridge, net, buffer, asked, rx, cmds, todo, gone, drained>>

(* What is watched ends here.                                                *)
Over == now = MaxNow /\ UNCHANGED vars

-----------------------------------------------------------------------------
Next ==
  \/ Restart \/ SendFrame
  \/ \E i \in 1..Len(net) : Deliver(i) \/ Lose(i)
  \/ \E command \in Command : SendCommand(command)
  \/ Poll \/ ObeyStop \/ StartGoto \/ Navigate \/ Arrive \/ EndGoto
  \/ Drain \/ Drive
  \/ Over

Spec == Init /\ [][Next]_vars

-----------------------------------------------------------------------------
(* "Never let an older frame overwrite a newer one": of the one run there    *)
(* has been, the action in force is the newest that was drained, in          *)
(* whatever order the network delivers.                                      *)
NeverRewinds ==
  teleop.run <= 1 /\ rx.last # NONE => rx.last.seq = drained[rx.last.sender]

(* A restarted teleop is not locked out by the numbers of the run before it: *)
(* on a network that keeps order, once a frame of the new run is drained the *)
(* action in force is of it.                                                 *)
NewestRunDrives ==
  ~unordered /\ rx.last # NONE => \A r \in Runs : r > rx.last.sender => drained[r] = 0

(* The dead-man: until a goto keeps the loop away, the base is never driven  *)
(* by a hand older than the network's delay, one tick and stale_after.       *)
HandIsCurrent ==
  applied # NONE /\ ~gone =>
    now - applied.sent <= MaxDelay + StaleAfter + 1

(* "a momentary tracking glitch mid-grasp shouldn't open the gripper and     *)
(* drop whatever it is holding", whatever frames the network loses or swaps: *)
(* it opens for a hand that was seen apart since, or for a teleop run other  *)
(* than the one that closed it, and the base is never driven while it is     *)
(* closed.  Only a network that reorders the frames of two runs can undo     *)
(* this: after one of the new run, an old frame of the old run is taken for  *)
(* a restart, and its number counts for nothing.                             *)
PayloadIsKept ==
  [][/\ claw.grip # "open" /\ claw'.grip = "open" =>
          \/ applied'.action.parted
          \/ applied'.sender # claw.by
          \/ unordered /\ teleop.run > 1
     /\ applied' # NONE /\ applied'.action.moves => claw'.grip = "open"]_vars
=============================================================================
