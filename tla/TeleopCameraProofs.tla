------------------------- MODULE TeleopCameraProofs -------------------------
(***************************************************************************)
(* Invariance proofs about TeleopCamera, for every limit on drops,         *)
(* reconnects and retries and every number of frames, glitches and breaks: *)
(* frames move forward, there is one connection, and a reconnect is paid   *)
(* for by a run of empty reads.                                            *)
(***************************************************************************)
EXTENDS TeleopCamera, SequenceTheorems, TLAPS

(* The session holds its connection but while it reopens and once it ended.  *)
LinkInv == link.open = IF pc \in {"open", "ended", "gave_up"} THEN 0 ELSE 1

(* run()'s count is the run of empty reads, and below its limit but where it *)
(* has just met it.                                                          *)
CountInv ==
  /\ dropped = empty
  /\ pc \in {"read", "peeked", "process", "empty"} => dropped < MaxDrops
  /\ pc = "release" => dropped = MaxDrops

(* From the frames that drove the robot to the camera: the one the session   *)
(* works on, the one in the slot and the one in the reader's hand are each   *)
(* newer than the one before.                                                *)
OrderInv ==
  /\ \A i \in 1..Len(processed) : processed[i] <= camera.captured
  /\ pc = "process" =>
       /\ frame \in 1..camera.captured
       /\ \A i \in 1..Len(processed) : processed[i] < frame
  /\ latest # 0 =>
       /\ latest <= camera.captured
       /\ \A i \in 1..Len(processed) : processed[i] < latest
       /\ pc = "process" => frame < latest
  /\ reader.pc = "store" =>
       /\ reader.frame = camera.captured
       /\ \A i \in 1..Len(processed) : processed[i] < camera.captured
       /\ pc = "process" => frame < camera.captured
       /\ latest < camera.captured
  /\ ~threaded => reader.pc = "gone" /\ latest = 0

IInv == TypeOK /\ LinkInv /\ CountInv /\ FramesForwardOnly /\ OrderInv

Camera == [up : BOOLEAN, breaks : 0..MaxBreaks, glitches : 0..MaxGlitches,
           captured : 0..MaxFrames]

-----------------------------------------------------------------------------
(* A step that captures nothing and hands no frame on keeps the order.       *)
LEMMA OrderKept ==
  ASSUME IInv, UNCHANGED <<threaded, processed, frame>>,
         camera'.captured = camera.captured,
         latest' = latest \/ latest' = 0,
         reader' = reader \/ reader'.pc = "gone"
                  \/ (threaded /\ reader'.pc = "reading"),
         pc' = pc \/ pc' # "process"
  PROVE  FramesForwardOnly' /\ OrderInv'
<1>1. FramesForwardOnly'
  BY DEF IInv, FramesForwardOnly
<1>2. OrderInv'
  BY DEF IInv, OrderInv, TypeOK
<1> QED BY <1>1, <1>2

(* A session starts in the invariant. *)
LEMMA InitInv == Init => IInv
<1> SUFFICES ASSUME Init PROVE IInv
  OBVIOUS
<1>1. processed = <<>> /\ Len(processed) = 0
  BY DEF Init
<1>2. processed \in Seq(1..MaxFrames)
  BY <1>1
<1>3. reader \in [pc : {"reading", "store", "gone"}, frame : 0..MaxFrames]
  BY BoundsAssumption DEF Init, FreshReader
<1>4. camera \in Camera
  BY BoundsAssumption DEF Init, Camera
<1>5. /\ dropped \in 0..MaxDrops /\ reconnects \in 0..MaxReconnects
      /\ attempt \in 0..OpenRetries /\ latest \in 0..MaxFrames /\ frame \in 0..MaxFrames
      /\ empty \in Nat
  BY DropsAssumption, BoundsAssumption DEF Init
<1>6. link \in [open : 0..1, alive : BOOLEAN]
  BY DEF Init
<1>7. TypeOK
  BY <1>2, <1>3, <1>4, <1>5, <1>6 DEF Init, TypeOK, Camera
<1>8. LinkInv /\ CountInv
  BY DropsAssumption DEF Init, LinkInv, CountInv
<1>9. FramesForwardOnly /\ OrderInv
  BY <1>1 DEF Init, FreshReader, FramesForwardOnly, OrderInv
<1> QED BY <1>7, <1>8, <1>9 DEF IInv

-----------------------------------------------------------------------------
(* The phone breaks the stream, and comes back.                              *)
LEMMA PhoneInv == IInv /\ (Break \/ Recover) => IInv'
<1> SUFFICES ASSUME IInv, Break \/ Recover PROVE IInv'
  OBVIOUS
<1>1. camera' \in Camera
      /\ camera'.captured = camera.captured
  <2>1. camera \in Camera
    BY DEF IInv, TypeOK, Camera
  <2>2. CASE Break
    <3>1. camera.breaks + 1 \in 0..MaxBreaks
      BY <2>1, <2>2, BoundsAssumption DEF Break, Camera
    <3> QED BY <2>1, <2>2, <3>1 DEF Break, Camera
  <2>3. CASE Recover
    BY <2>1, <2>3 DEF Recover, Camera
  <2> QED BY <2>2, <2>3
<1>2. link' \in [open : 0..1, alive : BOOLEAN] /\ link'.open = link.open
  BY DEF Break, Recover, IInv, TypeOK
<1>3. UNCHANGED <<threaded, reader, latest, stopped, pc, frame, dropped, reconnects, attempt,
                  processed, empty>>
  BY DEF Break, Recover
<1>4. FramesForwardOnly' /\ OrderInv'
  BY <1>1, <1>3, OrderKept
<1> QED BY <1>1, <1>2, <1>3, <1>4 DEF IInv, TypeOK, LinkInv, CountInv, Camera

(* A read of the camera captures at most the next frame.                     *)
LEMMA CaptureType ==
  ASSUME IInv, Captures \/ CaptureFails
  PROVE  /\ camera' \in Camera
         /\ Captures => camera'.captured = camera.captured + 1 /\ camera.captured + 1 <= MaxFrames
         /\ CaptureFails => camera'.captured = camera.captured
<1>1. camera \in Camera
  BY DEF IInv, TypeOK, Camera
<1>2. ASSUME Captures
      PROVE  /\ camera' \in Camera
             /\ camera'.captured = camera.captured + 1 /\ camera.captured + 1 <= MaxFrames
  <2>1. camera.captured + 1 \in 0..MaxFrames
    BY <1>1, <1>2, BoundsAssumption DEF Captures, Camera
  <2> QED BY <1>1, <1>2, <2>1 DEF Captures, Camera
<1>3. ASSUME CaptureFails
      PROVE  camera' \in Camera /\ camera'.captured = camera.captured
  <2>1. CASE UNCHANGED camera
    BY <1>1, <2>1
  <2>2. CASE camera.glitches < MaxGlitches /\ camera' = [camera EXCEPT !.glitches = @ + 1]
    <3>1. camera.glitches + 1 \in 0..MaxGlitches
      BY <1>1, <2>2, BoundsAssumption DEF Camera
    <3> QED BY <1>1, <2>2, <3>1 DEF Camera
  <2> QED BY <1>3, <2>1, <2>2 DEF CaptureFails
<1> QED BY <1>2, <1>3

(* A frame read by the pump preserves the invariant. *)
LEMMA PumpReadsInv == IInv /\ PumpReads => IInv'
<1> SUFFICES ASSUME IInv, PumpReads PROVE IInv'
  OBVIOUS
<1>1. /\ camera' \in Camera
      /\ camera'.captured = camera.captured + 1 /\ camera.captured + 1 <= MaxFrames
  BY CaptureType DEF PumpReads
<1>2. /\ reader.pc = "reading"
      /\ reader' = [pc |-> "store", frame |-> camera.captured + 1]
      /\ UNCHANGED <<threaded, link, latest, stopped, pc, frame, dropped, reconnects, attempt,
                     processed, empty>>
  BY DEF PumpReads
<1>3. TypeOK'
  BY <1>1, <1>2 DEF IInv, TypeOK, Camera
<1>4. FramesForwardOnly'
  BY <1>2 DEF IInv, FramesForwardOnly
<1>5. OrderInv'
  <2>1. /\ camera.captured \in Nat /\ latest \in Nat /\ frame \in Nat
        /\ \A i \in 1..Len(processed) : processed[i] \in Nat
    BY BoundsAssumption DEF IInv, TypeOK
  <2> QED BY <1>1, <1>2, <2>1 DEF IInv, OrderInv
<1> QED BY <1>2, <1>3, <1>4, <1>5 DEF IInv, LinkInv, CountInv

(* A frame put in the slot preserves the invariant. *)
LEMMA PumpStoresInv == IInv /\ PumpStores => IInv'
<1> SUFFICES ASSUME IInv, PumpStores PROVE IInv'
  OBVIOUS
<1>1. /\ reader.pc = "store" /\ latest' = reader.frame /\ reader' = FreshReader
      /\ UNCHANGED <<threaded, camera, link, stopped, pc, frame, dropped, reconnects, attempt,
                     processed, empty>>
  BY DEF PumpStores
<1>2. threaded /\ reader.frame = camera.captured
  BY <1>1 DEF IInv, OrderInv, TypeOK
<1>3. reader' = [pc |-> "reading", frame |-> 0]
  BY <1>1, <1>2 DEF FreshReader
<1>4. TypeOK'
  BY <1>1, <1>2, <1>3, BoundsAssumption DEF IInv, TypeOK
<1>5. FramesForwardOnly'
  BY <1>1 DEF IInv, FramesForwardOnly
<1>6. OrderInv'
  BY <1>1, <1>2, <1>3 DEF IInv, TypeOK, OrderInv
<1> QED BY <1>1, <1>4, <1>5, <1>6 DEF IInv, LinkInv, CountInv

(* A failed read preserves the invariant. *)
LEMMA PumpFailsInv == IInv /\ PumpFails => IInv'
<1> SUFFICES ASSUME IInv, PumpFails PROVE IInv'
  OBVIOUS
<1>1. /\ camera' \in Camera
      /\ camera'.captured = camera.captured
  BY CaptureType DEF PumpFails
<1>2. /\ stopped' = TRUE /\ reader' = [pc |-> "gone", frame |-> 0]
      /\ UNCHANGED <<threaded, link, latest, pc, frame, dropped, reconnects, attempt, processed,
                     empty>>
  BY DEF PumpFails
<1>3. TypeOK'
  BY <1>1, <1>2, BoundsAssumption DEF IInv, TypeOK, Camera
<1>4. FramesForwardOnly' /\ OrderInv'
  BY <1>1, <1>2, OrderKept
<1> QED BY <1>2, <1>3, <1>4 DEF IInv, LinkInv, CountInv

-----------------------------------------------------------------------------
(* The session takes a frame, from the camera or from the slot.              *)
LEMMA ReadInlineInv == IInv /\ ReadInline => IInv'
<1> SUFFICES ASSUME IInv, ReadInline PROVE IInv'
  OBVIOUS
<1>1. /\ ~threaded /\ pc = "read"
      /\ UNCHANGED <<threaded, link, reader, latest, stopped, dropped, reconnects, attempt,
                     processed, empty>>
  BY DEF ReadInline
<1>2. CASE Captures /\ frame' = camera.captured + 1 /\ pc' = "process"
  <2>1. /\ camera' \in Camera
        /\ camera'.captured = camera.captured + 1 /\ camera.captured + 1 <= MaxFrames
    BY <1>2, CaptureType
  <2>2. /\ camera.captured \in Nat
        /\ \A i \in 1..Len(processed) : processed[i] \in Nat
    BY BoundsAssumption DEF IInv, TypeOK
  <2>3. frame' \in 0..MaxFrames
    BY <1>2, <2>1, <2>2, BoundsAssumption
  <2>4. TypeOK'
    BY <1>1, <1>2, <2>1, <2>3 DEF IInv, TypeOK, Camera
  <2>5. FramesForwardOnly'
    BY <1>1 DEF IInv, FramesForwardOnly
  <2>6. OrderInv'
    BY <1>1, <1>2, <2>1, <2>2 DEF IInv, OrderInv
  <2> QED BY <1>1, <1>2, <2>4, <2>5, <2>6 DEF IInv, LinkInv, CountInv
<1>3. CASE CaptureFails /\ pc' = "empty" /\ UNCHANGED frame
  <2>1. /\ camera' \in Camera
        /\ camera'.captured = camera.captured
    BY <1>3, CaptureType
  <2>2. TypeOK'
    BY <1>1, <1>3, <2>1 DEF IInv, TypeOK, Camera
  <2>3. FramesForwardOnly' /\ OrderInv'
    BY <1>1, <1>3, <2>1, OrderKept
  <2> QED BY <1>1, <1>3, <2>2, <2>3 DEF IInv, LinkInv, CountInv
<1> QED BY <1>2, <1>3 DEF ReadInline

(* Taking the newest frame preserves the invariant. *)
LEMMA TakeLatestInv == IInv /\ TakeLatest => IInv'
<1> SUFFICES ASSUME IInv, TakeLatest PROVE IInv'
  OBVIOUS
<1>1. /\ pc = "read" /\ frame' = latest /\ latest' = 0
      /\ pc' = IF latest # 0 THEN "process" ELSE "peeked"
      /\ UNCHANGED <<threaded, camera, link, reader, stopped, dropped, reconnects, attempt,
                     processed, empty>>
  BY DEF TakeLatest
<1>2. TypeOK'
  BY <1>1, BoundsAssumption DEF IInv, TypeOK
<1>3. FramesForwardOnly'
  BY <1>1 DEF IInv, FramesForwardOnly
<1>4. OrderInv'
  <2>1. /\ camera.captured \in Nat /\ latest \in Nat
        /\ \A i \in 1..Len(processed) : processed[i] \in Nat
    BY BoundsAssumption DEF IInv, TypeOK
  <2>2. reader.pc = "store" => 0 < camera.captured
    BY <2>1 DEF IInv, OrderInv
  <2> QED BY <1>1, <2>1, <2>2 DEF IInv, OrderInv
<1> QED BY <1>1, <1>2, <1>3, <1>4 DEF IInv, LinkInv, CountInv

(* Waiting for a frame preserves the invariant. *)
LEMMA WaitInv == IInv /\ (FindStopped \/ ReadTimesOut \/ PollAgain) => IInv'
<1> SUFFICES ASSUME IInv, FindStopped \/ ReadTimesOut \/ PollAgain PROVE IInv'
  OBVIOUS
<1>1. /\ pc = "peeked" /\ pc' \in {"empty", "read"}
      /\ UNCHANGED <<threaded, camera, link, reader, latest, stopped, frame, dropped, reconnects,
                     attempt, processed, empty>>
  BY DEF FindStopped, ReadTimesOut, PollAgain, sourceVars, IInv, TypeOK
<1>2. TypeOK'
  BY <1>1 DEF IInv, TypeOK
<1>3. FramesForwardOnly' /\ OrderInv'
  BY <1>1, OrderKept
<1> QED BY <1>1, <1>2, <1>3 DEF IInv, LinkInv, CountInv

-----------------------------------------------------------------------------
(* The robot is driven by a frame: it is newer than all that were.           *)
LEMMA ProcessInv == IInv /\ Process => IInv'
<1> SUFFICES ASSUME IInv, Process PROVE IInv'
  OBVIOUS
<1>1. /\ pc = "process" /\ pc' = "read"
      /\ processed' = Append(processed, frame)
      /\ dropped' = 0 /\ empty' = 0
      /\ UNCHANGED <<threaded, camera, link, reader, latest, stopped, frame, reconnects, attempt>>
  BY DEF Process, sourceVars
<1>2. /\ frame \in 1..camera.captured /\ camera.captured \in 0..MaxFrames
      /\ \A i \in 1..Len(processed) : processed[i] < frame
      /\ processed \in Seq(1..MaxFrames)
  BY <1>1 DEF IInv, OrderInv, TypeOK
<1>3. /\ processed' \in Seq(1..MaxFrames)
      /\ Len(processed') = Len(processed) + 1
      /\ \A i \in 1..Len(processed) : processed'[i] = processed[i]
      /\ processed'[Len(processed) + 1] = frame
  <2>1. frame \in 1..MaxFrames
    BY <1>2, BoundsAssumption
  <2> QED BY <1>1, <1>2, <2>1
<1>4. TypeOK'
  BY <1>1, <1>3, DropsAssumption DEF IInv, TypeOK
<1>5. \A i \in 1..Len(processed') : i \in 1..Len(processed) \/ i = Len(processed) + 1
  BY <1>2, <1>3
<1>6. FramesForwardOnly'
  <2> SUFFICES ASSUME NEW i \in 1..Len(processed'), NEW j \in 1..Len(processed'), i < j
               PROVE  processed'[i] < processed'[j]
    BY DEF FramesForwardOnly
  <2>1. i \in 1..Len(processed)
    BY <1>2, <1>3
  <2>2. CASE j \in 1..Len(processed)
    BY <1>3, <2>1, <2>2 DEF IInv, FramesForwardOnly
  <2>3. CASE j = Len(processed) + 1
    BY <1>2, <1>3, <2>1, <2>3
  <2> QED BY <1>5, <2>2, <2>3
<1>7. OrderInv'
  <2>1. \A i \in 1..Len(processed') : processed'[i] \in Nat /\ processed'[i] <= frame
    <3> SUFFICES ASSUME NEW i \in 1..Len(processed')
                 PROVE  processed'[i] \in Nat /\ processed'[i] <= frame
      OBVIOUS
    <3>1. CASE i \in 1..Len(processed)
      <4>1. processed[i] \in 1..MaxFrames /\ processed[i] < frame /\ frame \in Nat
        BY <1>2, <3>1, BoundsAssumption
      <4> QED BY <1>3, <3>1, <4>1, BoundsAssumption
    <3>2. CASE i = Len(processed) + 1
      BY <1>2, <1>3, <3>2
    <3> QED BY <1>5, <3>1, <3>2
  <2>2. frame \in Nat /\ camera.captured \in Nat /\ frame <= camera.captured /\ latest \in Nat
    BY <1>2, BoundsAssumption DEF IInv, TypeOK
  <2>3. \A i \in 1..Len(processed') :
          /\ processed'[i] <= camera.captured
          /\ latest # 0 => processed'[i] < latest
          /\ reader.pc = "store" => processed'[i] < camera.captured
    BY <1>1, <2>1, <2>2 DEF IInv, OrderInv
  <2> QED BY <1>1, <2>3 DEF IInv, OrderInv
<1> QED BY <1>1, <1>4, <1>6, <1>7, DropsAssumption DEF IInv, LinkInv, CountInv

(* Counting an empty read preserves the invariant. *)
LEMMA CountEmptyInv == IInv /\ CountEmpty => IInv'
<1> SUFFICES ASSUME IInv, CountEmpty PROVE IInv'
  OBVIOUS
<1>1. /\ pc = "empty" /\ dropped' = dropped + 1 /\ empty' = empty + 1
      /\ pc' = IF dropped + 1 >= MaxDrops THEN "release" ELSE "read"
      /\ UNCHANGED <<threaded, camera, link, reader, latest, stopped, frame, reconnects, attempt,
                     processed>>
  BY DEF CountEmpty, sourceVars
<1>2. dropped < MaxDrops /\ dropped \in Nat /\ MaxDrops \in Nat
  BY <1>1, DropsAssumption DEF IInv, CountInv, TypeOK
<1>3. TypeOK'
  BY <1>1, <1>2 DEF IInv, TypeOK
<1>4. FramesForwardOnly' /\ OrderInv'
  BY <1>1, OrderKept
<1>5. LinkInv' /\ CountInv'
  BY <1>1, <1>2 DEF IInv, LinkInv, CountInv
<1> QED BY <1>3, <1>4, <1>5 DEF IInv

-----------------------------------------------------------------------------
(* Hanging up, for good or to reopen.                                        *)
LEMMA HangupInv ==
  ASSUME IInv, Release \/ BudgetSpent \/ OpenGivesUp \/ Quit
  PROVE  IInv'
<1>1. /\ pc' \in {"open", "ended", "gave_up"}
      /\ link' = [open |-> 0, alive |-> FALSE]
      /\ stopped' = TRUE /\ reader' = [pc |-> "gone", frame |-> 0]
      /\ UNCHANGED <<threaded, camera, latest, frame, dropped, processed, empty>>
  BY DEF Release, BudgetSpent, OpenGivesUp, Quit, End, Hangup, StopReader
<1>2. reconnects' \in 0..MaxReconnects /\ attempt' \in 0..OpenRetries
  BY SMTT(30), BoundsAssumption DEF Release, BudgetSpent, OpenGivesUp, Quit, IInv, TypeOK
<1>3. TypeOK'
  BY <1>1, <1>2, BoundsAssumption DEF IInv, TypeOK
<1>4. FramesForwardOnly' /\ OrderInv'
  BY <1>1, OrderKept
<1>5. LinkInv' /\ CountInv'
  BY <1>1 DEF IInv, LinkInv, CountInv
<1> QED BY <1>3, <1>4, <1>5 DEF IInv

(* Opening a connection, or failing to, preserves the invariant. *)
LEMMA OpenInv == IInv /\ (OpenSucceeds \/ OpenFails) => IInv'
<1> SUFFICES ASSUME IInv, OpenSucceeds \/ OpenFails PROVE IInv'
  OBVIOUS
<1>1. CASE OpenSucceeds
  <2>1. /\ pc = "open" /\ pc' = "read"
        /\ link' = [open |-> link.open + 1, alive |-> TRUE]
        /\ reader' = FreshReader /\ latest' = 0 /\ stopped' = FALSE
        /\ dropped' = 0 /\ empty' = 0
        /\ UNCHANGED <<threaded, camera, frame, reconnects, attempt, processed>>
    BY <1>1 DEF OpenSucceeds, Opened
  <2>2. link.open = 0
    BY <2>1 DEF IInv, LinkInv
  <2>3. link' \in [open : 0..1, alive : BOOLEAN] /\ link'.open = 1
    BY <2>1, <2>2
  <2>4. /\ reader' \in [pc : {"reading", "store", "gone"}, frame : 0..MaxFrames]
        /\ reader'.pc = IF threaded THEN "reading" ELSE "gone"
    BY <2>1, BoundsAssumption DEF FreshReader
  <2>5. TypeOK'
    <3>1. dropped' \in 0..MaxDrops /\ latest' \in 0..MaxFrames /\ empty' \in Nat
      BY <2>1, DropsAssumption, BoundsAssumption
    <3>2. reconnects' \in 0..MaxReconnects /\ attempt' \in 0..OpenRetries /\ frame' \in 0..MaxFrames
      BY <2>1 DEF IInv, TypeOK
    <3> QED BY <2>1, <2>3, <2>4, <3>1, <3>2 DEF IInv, TypeOK
  <2>6. FramesForwardOnly' /\ OrderInv'
    BY <2>1, <2>4, OrderKept
  <2>7. LinkInv' /\ CountInv'
    BY <2>1, <2>3, DropsAssumption DEF LinkInv, CountInv
  <2> QED BY <2>5, <2>6, <2>7 DEF IInv
<1>2. CASE OpenFails
  <2>1. /\ pc = "open" /\ attempt < OpenRetries /\ attempt' = attempt + 1
        /\ UNCHANGED <<threaded, camera, link, reader, latest, stopped, pc, frame, dropped,
                       reconnects, processed, empty>>
    BY <1>2 DEF OpenFails, sourceVars
  <2>2. TypeOK'
    BY <2>1, BoundsAssumption DEF IInv, TypeOK
  <2>3. FramesForwardOnly' /\ OrderInv'
    BY <2>1, OrderKept
  <2> QED BY <2>1, <2>2, <2>3 DEF IInv, LinkInv, CountInv
<1> QED BY <1>1, <1>2

(* A step that changes nothing preserves the invariant. *)
LEMMA StutterInv == IInv /\ UNCHANGED vars => IInv'
<1> SUFFICES ASSUME IInv, UNCHANGED vars PROVE IInv'
  OBVIOUS
<1> QED
  BY DEF vars, sourceVars, IInv, TypeOK, LinkInv, CountInv, FramesForwardOnly, OrderInv

(* Every step preserves the invariant.                                       *)
LEMMA NextInv == IInv /\ [Next]_vars => IInv'
<1> SUFFICES ASSUME IInv, [Next]_vars PROVE IInv'
  OBVIOUS
<1>1. CASE Break \/ Recover
  BY <1>1, PhoneInv
<1>2. CASE PumpReads \/ PumpStores \/ PumpFails
  BY <1>2, PumpReadsInv, PumpStoresInv, PumpFailsInv
<1>3. CASE SessionStep
  BY <1>3, ReadInlineInv, TakeLatestInv, WaitInv, ProcessInv, CountEmptyInv, HangupInv, OpenInv
     DEF SessionStep
<1>4. CASE ReadTimesOut \/ PollAgain \/ Quit
  BY <1>4, WaitInv, HangupInv
<1>5. CASE UNCHANGED vars
  BY <1>5, StutterInv
<1> QED BY <1>1, <1>2, <1>3, <1>4, <1>5 DEF Next, Over

-----------------------------------------------------------------------------
(* The inductive invariant holds of every run.                               *)
THEOREM Invariance == Spec => []IInv
<1> QED BY InitInv, NextInv, PTL DEF Spec

(* The session's variables keep their types: counters stay within their      *)
(* budgets.                                                                  *)
THEOREM TypeCorrect == Spec => []TypeOK
<1>1. IInv => TypeOK
  BY DEF IInv
<1> QED BY <1>1, Invariance, PTL

(* The robot is never driven by a frame twice, nor by one older than a frame *)
(* it has been driven by, across the slot and every reconnect.               *)
THEOREM FramesMoveForward == Spec => []FramesForwardOnly
<1>1. IInv => FramesForwardOnly
  BY DEF IInv
<1> QED BY <1>1, Invariance, PTL

(* The session never holds two connections to the phone, and none once it    *)
(* has ended.                                                                *)
THEOREM OneConnection == Spec => []OneClient
<1>1. IInv => OneClient
  BY DEF IInv, TypeOK, LinkInv, OneClient, Ended
<1> QED BY <1>1, Invariance, PTL

(* A reconnect is spent on MaxDrops empty reads in a row.                    *)
THEOREM ReconnectIsPaidFor == Spec => ReconnectNeedsRun
<1>1. IInv /\ [Next]_vars => [reconnects' # reconnects => empty >= MaxDrops]_vars
  <2> SUFFICES ASSUME IInv, [Next]_vars, reconnects' # reconnects PROVE empty >= MaxDrops
    OBVIOUS
  <2>1. Release
    BY DEF Next, SessionStep, vars, sourceVars, Break, Recover, PumpReads, PumpStores, PumpFails,
           ReadInline, TakeLatest, FindStopped, Process, CountEmpty, BudgetSpent, OpenSucceeds,
           OpenFails, OpenGivesUp, ReadTimesOut, PollAgain, Quit, Over
  <2> QED BY <2>1, DropsAssumption DEF Release, IInv, CountInv
<1> QED BY <1>1, Invariance, PTL DEF Spec, ReconnectNeedsRun
=============================================================================
