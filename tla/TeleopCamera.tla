---------------------------- MODULE TeleopCamera ----------------------------
(***************************************************************************)
(* The frame loop of simbiote/teleop/teleop_session.py over the sources of *)
(* camera_source.py: the session's thread reads a frame and drives the     *)
(* robot with it, frame after frame; ThreadedFrameSource has a reader      *)
(* thread of its own that captures into one slot; and a source that stops  *)
(* delivering is reopened.                                                 *)
(*                                                                         *)
(* Frames are numbered in the order the camera captures them.  What a      *)
(* reader abandoned by a release still captures goes into a slot nobody    *)
(* reads: it is left out.  Opening a source and keeping it are one step.   *)
(***************************************************************************)
EXTENDS Integers, Sequences

CONSTANTS
  MaxDrops,        \* MAX_CONSECUTIVE_DROPS
  MaxReconnects,   \* --max-reconnects
  OpenRetries,     \* --camera-retries
  MaxFrames,       \* bound: frames the camera captures
  MaxGlitches,     \* bound: single reads that fail on a camera that is up
  MaxBreaks        \* bound: how often the stream breaks

ASSUME DropsAssumption == MaxDrops \in Nat \ {0}
ASSUME BoundsAssumption ==
  /\ MaxReconnects \in Nat /\ OpenRetries \in Nat
  /\ MaxFrames \in Nat /\ MaxGlitches \in Nat /\ MaxBreaks \in Nat

VARIABLES
  threaded,    \* --no-threaded-camera is absent: settled once
  camera,      \* the phone: up or not, breaks and glitches so far, frames captured
  link,        \* the session's connection to it: open, and still alive
  reader,      \* _pump: "reading", "store" with a frame in hand, "gone"
  latest,      \* ThreadedFrameSource._latest, 0 for None
  stopped,     \* ThreadedFrameSource._stopped
  pc,          \* the session's thread
  frame,       \* the frame it works on
  dropped,     \* run()'s count of empty reads
  reconnects,  \* self._reconnects
  attempt,     \* open_camera's attempt
  processed,   \* history: the frames that drove the robot
  empty        \* history: reads that returned None since the last frame or reopening

sourceVars == <<threaded, camera, link, reader, latest, stopped>>
vars == <<sourceVars, pc, frame, dropped, reconnects, attempt, processed, empty>>

TypeOK ==
  /\ threaded \in BOOLEAN
  /\ camera \in [up : BOOLEAN, breaks : 0..MaxBreaks, glitches : 0..MaxGlitches,
                 captured : 0..MaxFrames]
  /\ link \in [open : 0..1, alive : BOOLEAN]
  /\ reader \in [pc : {"reading", "store", "gone"}, frame : 0..MaxFrames]
  /\ latest \in 0..MaxFrames
  /\ stopped \in BOOLEAN
  /\ pc \in {"read", "peeked", "process", "empty", "release", "open", "ended", "gave_up"}
  /\ frame \in 0..MaxFrames
  /\ dropped \in 0..MaxDrops
  /\ reconnects \in 0..MaxReconnects
  /\ attempt \in 0..OpenRetries
  /\ processed \in Seq(1..MaxFrames)
  /\ empty \in Nat

FreshReader == [pc |-> IF threaded THEN "reading" ELSE "gone", frame |-> 0]

Init ==
  /\ threaded \in BOOLEAN
  /\ camera = [up |-> TRUE, breaks |-> 0, glitches |-> 0, captured |-> 0]
  /\ link = [open |-> 1, alive |-> TRUE]
  /\ reader = FreshReader /\ latest = 0 /\ stopped = FALSE
  /\ pc = "read" /\ frame = 0 /\ dropped = 0 /\ reconnects = 0 /\ attempt = 0
  /\ processed = <<>> /\ empty = 0

-----------------------------------------------------------------------------
(* The phone: its app is put in the background, and comes back.              *)

Break ==
  /\ camera.up /\ camera.breaks < MaxBreaks
  /\ camera' = [camera EXCEPT !.up = FALSE, !.breaks = @ + 1]
  /\ link' = [link EXCEPT !.alive = FALSE]
  /\ UNCHANGED <<threaded, reader, latest, stopped, pc, frame, dropped, reconnects, attempt, processed,
                 empty>>

Recover ==
  /\ ~camera.up
  /\ camera' = [camera EXCEPT !.up = TRUE]
  /\ UNCHANGED <<threaded, link, reader, latest, stopped, pc, frame, dropped, reconnects, attempt,
                 processed, empty>>

(* FrameSource.read: the next frame, or None.  A dead connection may also    *)
(* block, which is a step not taken.                                         *)
Captures ==
  /\ link.alive /\ camera.captured < MaxFrames
  /\ camera' = [camera EXCEPT !.captured = @ + 1]

CaptureFails ==
  \/ ~link.alive /\ UNCHANGED camera
  \/ /\ link.alive /\ camera.glitches < MaxGlitches
     /\ camera' = [camera EXCEPT !.glitches = @ + 1]

-----------------------------------------------------------------------------
(* The reader thread: _pump().                                               *)

PumpReads ==
  /\ reader.pc = "reading" /\ ~stopped
  /\ Captures
  /\ reader' = [pc |-> "store", frame |-> camera.captured + 1]
  /\ UNCHANGED <<threaded, link, latest, stopped, pc, frame, dropped, reconnects, attempt, processed,
                 empty>>

PumpStores ==
  /\ reader.pc = "store"
  /\ latest' = reader.frame
  /\ reader' = FreshReader
  /\ UNCHANGED <<threaded, camera, link, stopped, pc, frame, dropped, reconnects, attempt, processed,
                 empty>>

(* One empty read ends the thread.                                           *)
PumpFails ==
  /\ reader.pc = "reading" /\ ~stopped
  /\ CaptureFails
  /\ stopped' = TRUE /\ reader' = [pc |-> "gone", frame |-> 0]
  /\ UNCHANGED <<threaded, link, latest, pc, frame, dropped, reconnects, attempt, processed, empty>>

-----------------------------------------------------------------------------
(* The session's thread: self.camera.read().                                 *)

ReadInline ==
  /\ ~threaded /\ pc = "read"
  /\ \/ Captures /\ frame' = camera.captured + 1 /\ pc' = "process"
     \/ CaptureFails /\ pc' = "empty" /\ UNCHANGED frame
  /\ UNCHANGED <<threaded, link, reader, latest, stopped, dropped, reconnects, attempt, processed, empty>>

(* Mutant: the slot is not emptied.                                          *)
TakeLatestAgain ==
  /\ threaded /\ pc = "read"
  /\ frame' = latest
  /\ pc' = IF latest # 0 THEN "process" ELSE "peeked"
  /\ UNCHANGED <<sourceVars, dropped, reconnects, attempt, processed, empty>>

TakeLatest ==
  /\ threaded /\ pc = "read"
  /\ frame' = latest /\ latest' = 0
  /\ pc' = IF latest # 0 THEN "process" ELSE "peeked"
  /\ UNCHANGED <<threaded, camera, link, reader, stopped, dropped, reconnects, attempt, processed, empty>>

(* The slot was empty a moment ago: give up if the reader has, or wait.      *)
FindStopped ==
  /\ pc = "peeked" /\ stopped
  /\ pc' = "empty"
  /\ UNCHANGED <<sourceVars, frame, dropped, reconnects, attempt, processed, empty>>

(* Mutant: a read waits for a frame for as long as the reader lives.         *)
ReadTimesOutNever == FALSE /\ UNCHANGED vars

ReadTimesOut ==
  /\ pc = "peeked" /\ ~stopped
  /\ pc' = "empty"
  /\ UNCHANGED <<sourceVars, frame, dropped, reconnects, attempt, processed, empty>>

PollAgain ==
  /\ pc = "peeked" /\ ~stopped
  /\ pc' = "read"
  /\ UNCHANGED <<sourceVars, frame, dropped, reconnects, attempt, processed, empty>>

-----------------------------------------------------------------------------
(* The session's thread: run().                                              *)

(* Track the hand, drive the robot, log the action.                          *)
Process ==
  /\ pc = "process"
  /\ processed' = Append(processed, frame)
  /\ dropped' = 0 /\ empty' = 0
  /\ pc' = "read"
  /\ UNCHANGED <<sourceVars, frame, reconnects, attempt>>

CountEmpty ==
  /\ pc = "empty"
  /\ dropped' = dropped + 1 /\ empty' = empty + 1
  /\ pc' = IF dropped + 1 >= MaxDrops THEN "release" ELSE "read"
  /\ UNCHANGED <<sourceVars, frame, reconnects, attempt, processed>>

Hangup == link' = [open |-> 0, alive |-> FALSE]
StopReader == stopped' = TRUE /\ reader' = [pc |-> "gone", frame |-> 0]

Ended == pc \in {"ended", "gave_up"}

(* finally: self.stop().                                                     *)
End(label) ==
  /\ pc' = label
  /\ Hangup /\ StopReader

(* Mutant: the camera is reopened without being released.                    *)
ReleaseForgotten ==
  /\ pc = "release" /\ reconnects < MaxReconnects
  /\ reconnects' = reconnects + 1 /\ attempt' = 0
  /\ pc' = "open"
  /\ UNCHANGED <<sourceVars, frame, dropped, processed, empty>>

(* _reconnect_camera: hang up ...                                            *)
Release ==
  /\ pc = "release" /\ reconnects < MaxReconnects
  /\ reconnects' = reconnects + 1 /\ attempt' = 0
  /\ Hangup /\ StopReader
  /\ pc' = "open"
  /\ UNCHANGED <<threaded, camera, latest, frame, dropped, processed, empty>>

(* ... unless that was tried often enough ...                                *)
BudgetSpent ==
  /\ pc = "release" /\ reconnects = MaxReconnects
  /\ End("gave_up")
  /\ UNCHANGED <<threaded, camera, latest, frame, dropped, reconnects, attempt, processed, empty>>

Opened ==
  /\ link' = [open |-> link.open + 1, alive |-> TRUE]
  /\ reader' = FreshReader /\ latest' = 0 /\ stopped' = FALSE

(* ... and open the source again.                                            *)
OpenSucceeds ==
  /\ pc = "open" /\ camera.up
  /\ Opened
  /\ pc' = "read" /\ dropped' = 0 /\ empty' = 0
  /\ UNCHANGED <<threaded, camera, frame, reconnects, attempt, processed>>

(* The phone is away, or has not freed the slot of its one client yet.       *)
OpenFails ==
  /\ pc = "open" /\ attempt < OpenRetries
  /\ attempt' = attempt + 1
  /\ UNCHANGED <<sourceVars, pc, frame, dropped, reconnects, processed, empty>>

OpenGivesUp ==
  /\ pc = "open" /\ attempt = OpenRetries
  /\ End("gave_up")
  /\ UNCHANGED <<threaded, camera, latest, frame, dropped, reconnects, attempt, processed, empty>>

(* Ctrl-C, the preview's 'q', max_frames, or a tracker or a sink that raises.*)
Quit ==
  /\ ~Ended
  /\ End("ended")
  /\ UNCHANGED <<threaded, camera, latest, frame, dropped, reconnects, attempt, processed, empty>>

Over == Ended /\ UNCHANGED vars

-----------------------------------------------------------------------------
SessionStep ==
  \/ ReadInline \/ TakeLatest \/ FindStopped \/ Process \/ CountEmpty
  \/ Release \/ BudgetSpent \/ OpenSucceeds \/ OpenFails \/ OpenGivesUp

Next ==
  \/ Break \/ Recover
  \/ PumpReads \/ PumpStores \/ PumpFails
  \/ SessionStep \/ ReadTimesOut \/ PollAgain \/ Quit
  \/ Over

Spec == Init /\ [][Next]_vars

(* The session's thread runs on and its reads time out: a poll that is       *)
(* repeated again and again meets the deadline.  The reader may block in a   *)
(* read for good, the phone and the operator owe nothing.                    *)
FairSpec == Spec /\ WF_vars(SessionStep) /\ SF_vars(ReadTimesOut)

-----------------------------------------------------------------------------
(* The robot is never driven by the same frame twice, nor by one older than  *)
(* a frame it has been driven by: not across the slot, not across a          *)
(* reconnect.                                                                *)
FramesForwardOnly ==
  \A i, j \in 1..Len(processed) : i < j => processed[i] < processed[j]

(* "a run of them means the stream died": a reconnect is spent on MaxDrops   *)
(* empty reads in a row, counted anew after every frame and every reopening. *)
ReconnectNeedsRun ==
  [][reconnects' # reconnects => empty >= MaxDrops]_vars

(* "Phone webcam servers accept exactly one client at a time": the session   *)
(* never holds two connections, and none once it has ended.                  *)
OneClient ==
  link.open <= 1 /\ (Ended => link.open = 0)

(* A session over the threaded source whose camera is gone for good comes to *)
(* its end, though the reader may block in a read that never returns.        *)
DeadCameraEndsSession == threaded /\ <>[](~camera.up) => <>Ended
=============================================================================
