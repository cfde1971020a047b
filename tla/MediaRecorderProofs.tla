------------------------ MODULE MediaRecorderProofs ------------------------
(***************************************************************************)
(* Theorems about MediaRecorder, for every number of recordings and frames.*)
(***************************************************************************)
EXTENDS MediaRecorder, TLAPS

IsFrame(k) == append_pixelBuffer_queue[k].file # Finish
Frames == {k \in DOMAIN append_pixelBuffer_queue : IsFrame(k)}
IsDrawing == drawing \in {"draws", "drawn"}

(* The writer of a recording has not been told to finish.                  *)
Open == videoWriter \in {"writing", "failed"}

(* Who works on what: a frame is only drawn, and only waits to be written, *)
(* while the writer of its recording is open.  The end of a recording      *)
(* is the last block of the append queue, and the render queue waits for   *)
(* it.                                                                     *)
Control ==
    /\ isRecording <=> Open \/ videoWriter = "finishing"
    /\ videoWriter # "none" => starts # 0
    /\ drawing # "no" => render_queue # <<>>
    /\ IsDrawing => Open /\ render_queue[1] = "frame"
    /\ drawing = "syncs" => /\ render_queue[1] = "finish"
                            /\ append_pixelBuffer_queue # <<>>
                            /\ ~IsFrame(Len(append_pixelBuffer_queue))
    /\ \A k \in DOMAIN append_pixelBuffer_queue :
          IF IsFrame(k)
            THEN Open /\ append_pixelBuffer_queue[k].file = starts
            ELSE drawing = "syncs" /\ k = Len(append_pixelBuffer_queue)
    /\ strays = 0 /\ ~slotLost

(* A semaphore that is free has no frame to protect; at most one frame     *)
(* waits to be written, at the head of its queue.                          *)
Slots ==
    /\ frameRenderingSemaphore = 1 => \A k \in DOMAIN render_queue : render_queue[k] # "frame"
    /\ pixelAppendSemaphore = 1 <=> Frames = {}
    /\ Frames \subseteq {1}
    /\ SlotsKept

(* Stamps come from frames of the display, and a frame that waits to be    *)
(* drawn is newer than the one drawn last.                                 *)
Stamps ==
    /\ previousStamp <= timestamp /\ timestamp <= clock /\ validStamp <= clock
    /\ timestamp # 0 => validStamp <= timestamp
    /\ previousStamp # 0 => validStamp <= previousStamp
    /\ Open /\ ~early =>
          /\ ~oldLink
          /\ "frame" \in ToSet(render_queue) /\ ~IsDrawing => previousStamp < timestamp
    /\ videoWriter = "none" => previousStamp = 0 /\ (~resetting => validStamp = 0)

(* The frame being drawn, the frame that waits to be written and the frame *)
(* written last have decreasing times, and the first of a recording is 0.  *)
Times ==
    Open /\ ~early =>
        /\ ~resetting
        /\ previousStamp = 0 =>
              validStamp = 0 /\ written = -1 /\ Frames = {} /\ ~IsDrawing
        /\ written <= validStamp
        /\ written = -1 /\ Frames = {} /\ ~IsDrawing => previousStamp = 0
        /\ IsDrawing =>
              /\ time = validStamp /\ written < time
              /\ Frames # {} => append_pixelBuffer_queue[1].time < time
              /\ written = -1 /\ Frames = {} => time = 0
        /\ Frames # {} =>
              /\ written < append_pixelBuffer_queue[1].time
              /\ append_pixelBuffer_queue[1].time <= validStamp
              /\ written = -1 => append_pixelBuffer_queue[1].time = 0

(* The inductive invariant.                                                *)
IInv == TypeOK /\ Control /\ Slots /\ Stamps /\ Times

-----------------------------------------------------------------------------
(* Queues.                                                                 *)

(* A block sent to the end of a queue: length, entries, head. *)
LEMMA AppendShape ==
    ASSUME NEW S, NEW s \in Seq(S), NEW x \in S
    PROVE  /\ Append(s, x) \in Seq(S) /\ Append(s, x) # <<>>
           /\ Len(Append(s, x)) = Len(s) + 1 /\ Len(s) \in Nat
           /\ DOMAIN s = 1 .. Len(s)
           /\ DOMAIN Append(s, x) = 1 .. Len(s) + 1
           /\ \A k \in DOMAIN s : k \in DOMAIN Append(s, x) /\ Append(s, x)[k] = s[k]
           /\ Append(s, x)[Len(s) + 1] = x
OBVIOUS

(* A queue without its first block: length and entries. *)
LEMMA TailShape ==
    ASSUME NEW S, NEW s \in Seq(S), s # <<>>
    PROVE  /\ Tail(s) \in Seq(S) /\ Len(Tail(s)) = Len(s) - 1 /\ Len(s) \in Nat \ {0}
           /\ DOMAIN s = 1 .. Len(s) /\ DOMAIN Tail(s) = 1 .. Len(s) - 1
           /\ 1 \in DOMAIN s /\ Head(s) = s[1] /\ s[1] \in S
           /\ \A k \in DOMAIN Tail(s) : k + 1 \in DOMAIN s /\ Tail(s)[k] = s[k + 1]
           /\ \A k \in DOMAIN s : k # 1 => k - 1 \in DOMAIN Tail(s) /\ Tail(s)[k - 1] = s[k]
OBVIOUS

Waits == \E k \in DOMAIN render_queue : render_queue[k] = "frame"

FrameBlocks == [file : 0..MaxStarts, time : 0..MaxTimestamp]
Blocks == {"frame", "finish"}

(* What the type invariant says of the variables a queue's step changes.   *)
QueueTypes ==
    /\ render_queue \in Seq(Blocks)
    /\ \A j, k \in DOMAIN render_queue :
          render_queue[j] = "frame" /\ render_queue[k] = "frame" => j = k
    /\ append_pixelBuffer_queue \in Seq(FrameBlocks)

FlagTypes ==
    /\ isRecording \in BOOLEAN /\ link \in BOOLEAN /\ oldLink \in BOOLEAN
    /\ resetting \in BOOLEAN /\ raised \in BOOLEAN
    /\ early \in BOOLEAN /\ unready \in BOOLEAN /\ slotLost \in BOOLEAN

StateTypes ==
    /\ videoWriter \in {"none", "writing", "finishing", "failed", "refused"}
    /\ frameRenderingSemaphore \in 0..1 /\ pixelAppendSemaphore \in 0..1
    /\ drawing \in {"no", "draws", "drawn", "syncs"}
    /\ starts \in 0..MaxStarts /\ strays \in Nat

StampTypes ==
    /\ time \in 0..MaxTimestamp
    /\ previousStamp \in 0..MaxTimestamp /\ validStamp \in 0..MaxTimestamp
    /\ clock \in 0..MaxTimestamp /\ timestamp \in 0..MaxTimestamp
    /\ written \in -1..MaxTimestamp

(* The type invariant in the parts the steps are checked against. *)
LEMMA TypesSplit == TypeOK <=> QueueTypes /\ FlagTypes /\ StateTypes /\ StampTypes
BY DEF TypeOK, QueueTypes, FlagTypes, StateTypes, StampTypes, Blocks, FrameBlocks

(* Every step keeps the queues queues of blocks. *)
LEMMA QueueTypesStep ==
    ASSUME TypeOK, Control, Slots, [Next]_vars
    PROVE  QueueTypes'
<1> USE ConstantsAssumption, TypesSplit DEF QueueTypes, queueVars
<1>1. CASE Stop
  <2> USE DEF Stop, RecordFinish
  <2>1. "finish" \in Blocks
    BY DEF Blocks
  <2> QED BY <1>1, <2>1, AppendShape
<1>2. CASE RecordRunloop
  <2> USE DEF RecordRunloop
  <2>1. "frame" \in Blocks
    BY DEF Blocks
  <2>2. CASE isRecording /\ frameRenderingSemaphore = 1
    <3>1. \A k \in DOMAIN render_queue : render_queue[k] # "frame"
      BY <2>2 DEF Slots
    <3>2. /\ render_queue' = Append(render_queue, "frame")
          /\ UNCHANGED append_pixelBuffer_queue
      BY <1>2, <2>2
    <3> QED BY <2>1, <3>1, <3>2, AppendShape
  <2>3. CASE ~(isRecording /\ frameRenderingSemaphore = 1)
    <3>1. UNCHANGED <<render_queue, append_pixelBuffer_queue>>
      BY <1>2, <2>3
    <3> QED BY <3>1
  <2> QED BY <2>2, <2>3
<1>3. CASE RenderUnready
  BY <1>3, TailShape DEF RenderUnready, RenderQueueAt
<1>4. CASE RenderHandsOn
  <2> USE DEF RenderHandsOn
  <2>1. render_queue # <<>>
    BY <1>4 DEF Control
  <2>2. render_queue' = Tail(render_queue)
    BY <1>4
  <2>3. [file |-> starts, time |-> time] \in FrameBlocks
    BY DEF FrameBlocks, StateTypes, StampTypes
  <2>4. append_pixelBuffer_queue' \in Seq(FrameBlocks)
    <3>1. append_pixelBuffer_queue' \in
             {append_pixelBuffer_queue,
              Append(append_pixelBuffer_queue, [file |-> starts, time |-> time])}
      BY <1>4
    <3> QED BY <2>3, <3>1, AppendShape
  <2> QED BY <2>1, <2>2, <2>4, TailShape
<1>5. CASE RenderFinish
  <2>1. FinishBlock \in FrameBlocks
    BY DEF FrameBlocks, FinishBlock, Finish
  <2> QED BY <1>5, <2>1, AppendShape DEF RenderFinish
<1>6. CASE AppendFrame
  BY <1>6, TailShape DEF AppendFrame
<1>7. CASE AppendFinish
  <2>1. render_queue' = IF drawing = "syncs" THEN Tail(render_queue) ELSE render_queue
    BY <1>7 DEF AppendFinish
  <2>2. append_pixelBuffer_queue' = Tail(append_pixelBuffer_queue)
        /\ append_pixelBuffer_queue # <<>>
    BY <1>7 DEF AppendFinish
  <2>3. drawing = "syncs" => render_queue # <<>>
    BY DEF Control
  <2> QED BY <2>1, <2>2, <2>3, TailShape
<1>8. CASE UNCHANGED <<render_queue, append_pixelBuffer_queue>>
  BY <1>8
<1>9. CASE \/ Start \/ StartRaises \/ Draw \/ RenderFrame \/ WriterFails \/ Reset \/ ResetEnds
           \/ UNCHANGED vars
  BY <1>9, <1>8 DEF Start, StartRaises, Draw, RenderFrame, WriterFails, Reset, ResetEnds, vars
<1> QED BY <1>1, <1>2, <1>3, <1>4, <1>5, <1>6, <1>7, <1>9 DEF Next, RenderStep, AppendStep

(* Every step keeps flags, semaphores and counters in their types. *)
LEMMA FlagTypesStep ==
    ASSUME TypeOK, [Next]_vars
    PROVE  FlagTypes'
<1> USE ConstantsAssumption, TypesSplit
        DEF FlagTypes, queueVars, semaphoreVars, stampVars, linkVars, historyVars
<1>1. CASE Start
  BY <1>1 DEF Start
<1>2. CASE StartRaises
  BY <1>2 DEF StartRaises
<1>3. CASE Stop
  BY <1>3 DEF Stop
<1>4. CASE RecordRunloop
  BY <1>4 DEF RecordRunloop
<1>5. CASE Draw
  BY <1>5 DEF Draw
<1>6. CASE RenderUnready
  BY <1>6 DEF RenderUnready
<1>7. CASE RenderFrame
  BY <1>7 DEF RenderFrame
<1>8. CASE RenderFinish
  BY <1>8 DEF RenderFinish
<1>9. CASE RenderHandsOn
  BY <1>9 DEF RenderHandsOn, SignalRendering
<1>10. CASE AppendFrame
  BY <1>10 DEF AppendFrame
<1>11. CASE AppendFinish
  BY <1>11 DEF AppendFinish
<1>12. CASE Reset \/ ResetEnds
  BY <1>12 DEF Reset, ResetEnds
<1>13. CASE WriterFails \/ UNCHANGED vars
  BY <1>13 DEF WriterFails, vars
<1> QED BY <1>1, <1>2, <1>3, <1>4, <1>5, <1>6, <1>7, <1>8, <1>9, <1>10, <1>11, <1>12, <1>13
       DEF Next, RenderStep, AppendStep

(* Every step keeps writer and frames in their types. *)
LEMMA StateTypesStep ==
    ASSUME TypeOK, [Next]_vars
    PROVE  StateTypes'
<1> USE ConstantsAssumption, TypesSplit
        DEF StateTypes, queueVars, semaphoreVars, stampVars, linkVars, historyVars
<1>1. CASE Start
  BY <1>1 DEF Start
<1>2. CASE StartRaises
  BY <1>2 DEF StartRaises
<1>3. CASE Stop
  BY <1>3 DEF Stop
<1>4. CASE RecordRunloop
  BY <1>4 DEF RecordRunloop
<1>5. CASE Draw
  BY <1>5 DEF Draw
<1>6. CASE RenderUnready
  BY <1>6 DEF RenderUnready
<1>7. CASE RenderFrame
  BY <1>7 DEF RenderFrame
<1>8. CASE RenderFinish
  BY <1>8 DEF RenderFinish
<1>9. CASE RenderHandsOn
  BY <1>9 DEF RenderHandsOn, SignalRendering
<1>10. CASE AppendFrame
  BY <1>10 DEF AppendFrame
<1>11. CASE AppendFinish
  BY <1>11 DEF AppendFinish
<1>12. CASE Reset \/ ResetEnds
  BY <1>12 DEF Reset, ResetEnds
<1>13. CASE WriterFails \/ UNCHANGED vars
  BY <1>13 DEF WriterFails, vars
<1> QED BY <1>1, <1>2, <1>3, <1>4, <1>5, <1>6, <1>7, <1>8, <1>9, <1>10, <1>11, <1>12, <1>13
       DEF Next, RenderStep, AppendStep

(* The time of a frame is within what the display has counted: validStamp  *)
(* grows by no more than the stamps do.                                    *)
LEMMA StampTypesStep ==
    ASSUME TypeOK, Stamps, [Next]_vars
    PROVE  StampTypes'
<1> USE ConstantsAssumption, TypesSplit
        DEF StampTypes, queueVars, semaphoreVars, stampVars, linkVars, historyVars
<1>1. CASE Start
  BY <1>1 DEF Start
<1>2. CASE \/ StartRaises \/ Stop \/ Draw \/ RenderUnready \/ RenderFinish \/ WriterFails
           \/ AppendFinish \/ UNCHANGED vars
  BY <1>2 DEF StartRaises, Stop, Draw, RenderUnready, RenderFinish, WriterFails, AppendFinish, vars
<1>3. CASE RecordRunloop
  BY <1>3 DEF RecordRunloop
<1>4. CASE RenderFrame
  <2>1. /\ validStamp' = validStamp + (IF previousStamp = 0 THEN 0 ELSE timestamp - previousStamp)
        /\ previousStamp' = timestamp /\ time' = validStamp' /\ UNCHANGED <<clock, timestamp, written>>
    BY <1>4 DEF RenderFrame
  <2>2. validStamp' \in 0..clock
    BY <2>1 DEF Stamps
  <2> QED BY <2>1, <2>2
<1>5. CASE RenderHandsOn
  BY <1>5 DEF RenderHandsOn
<1>6. CASE AppendFrame
  <2>1. Head(append_pixelBuffer_queue) \in FrameBlocks
    BY <1>6, TailShape DEF AppendFrame, QueueTypes
  <2>2. Head(append_pixelBuffer_queue).time \in 0..MaxTimestamp
    BY <2>1 DEF FrameBlocks
  <2> QED BY <1>6, <2>2 DEF AppendFrame
<1>7. CASE Reset \/ ResetEnds
  BY <1>7 DEF Reset, ResetEnds, ClearValidStamp
<1> QED BY <1>1, <1>2, <1>3, <1>4, <1>5, <1>6, <1>7 DEF Next, RenderStep, AppendStep

-----------------------------------------------------------------------------
(* Who works on what.                                                      *)

(* Every step keeps the recording flag, the writer and the blocks on the queues in agreement. *)
LEMMA ControlStep ==
    ASSUME TypeOK, Control, [Next]_vars
    PROVE  Control'
<1> USE ConstantsAssumption, TypesSplit
        DEF Control, Open, IsDrawing, IsFrame, QueueTypes, queueVars, semaphoreVars, stampVars,
            linkVars, historyVars
<1>1. CASE Start
  <2>1. starts' # 0
    BY <1>1 DEF Start, StateTypes
  <2>2. videoWriter = "none" /\ ~IsDrawing
    BY <1>1 DEF Start
  <2>3. \A k \in DOMAIN append_pixelBuffer_queue : ~IsFrame(k)
    BY <2>2
  <2> QED BY <1>1, <2>1, <2>2, <2>3 DEF Start
<1>2. CASE StartRaises \/ Draw \/ WriterFails \/ UNCHANGED vars
  BY <1>2 DEF StartRaises, Draw, WriterFails, vars
<1>3. ASSUME NEW b \in Blocks,
             render_queue' = Append(render_queue, b),
             UNCHANGED <<isRecording, videoWriter, starts, drawing, append_pixelBuffer_queue,
                         strays, slotLost>>
      PROVE  Control'
  <2>1. /\ render_queue' # <<>>
        /\ render_queue # <<>> => render_queue'[1] = render_queue[1]
    BY <1>3, AppendShape
  <2> QED BY <1>3, <2>1
<1>4. CASE Stop
  BY <1>3, <1>4 DEF Stop, RecordFinish, Blocks
<1>5. CASE RecordRunloop
  <2>1. \/ render_queue' = Append(render_queue, "frame")
        \/ UNCHANGED render_queue
    BY <1>5 DEF RecordRunloop
  <2>2. UNCHANGED <<isRecording, videoWriter, starts, drawing, append_pixelBuffer_queue,
                    strays, slotLost>>
    BY <1>5 DEF RecordRunloop
  <2> QED BY <1>3, <2>1, <2>2 DEF Blocks
<1>6. CASE RenderUnready
  BY <1>6 DEF RenderUnready, RenderQueueAt
<1>7. CASE RenderFrame
  BY <1>7, TailShape DEF RenderFrame, RenderQueueAt
<1>8. CASE RenderFinish
  <2>1. FinishBlock \in FrameBlocks /\ FinishBlock.file = Finish
    BY DEF FrameBlocks, FinishBlock, Finish
  <2>2. /\ append_pixelBuffer_queue' = Append(append_pixelBuffer_queue, FinishBlock)
        /\ render_queue # <<>> /\ render_queue[1] = "finish" /\ drawing = "no"
        /\ drawing' = "syncs"
        /\ UNCHANGED <<isRecording, videoWriter, starts, render_queue, strays, slotLost>>
    BY <1>8, TailShape DEF RenderFinish, RenderQueueAt
  <2> QED BY <2>1, <2>2, AppendShape
<1>9. CASE RenderHandsOn
  <2>1. /\ drawing = "drawn" /\ drawing' = "no"
        /\ UNCHANGED <<isRecording, videoWriter, starts, strays, slotLost>>
    BY <1>9 DEF RenderHandsOn
  <2>2. Open /\ starts # Finish
    BY <2>1 DEF Finish, StateTypes
  <2> DEFINE frame == [file |-> starts, time |-> time]
  <2>3. frame \in FrameBlocks /\ frame.file = starts
    BY DEF FrameBlocks, StateTypes, StampTypes
  <2> HIDE DEF frame
  <2>4. append_pixelBuffer_queue' \in
           {append_pixelBuffer_queue, Append(append_pixelBuffer_queue, frame)}
    BY <1>9 DEF RenderHandsOn, frame
  <2>5. \A k \in DOMAIN append_pixelBuffer_queue' :
           append_pixelBuffer_queue'[k].file = starts
    <3>1. \A k \in DOMAIN append_pixelBuffer_queue : append_pixelBuffer_queue[k].file = starts
      BY <2>1
    <3> QED BY <2>3, <2>4, <3>1, AppendShape
  <2> QED BY <2>1, <2>2, <2>5
<1>10. CASE AppendFrame
  <2>1. /\ append_pixelBuffer_queue # <<>>
        /\ append_pixelBuffer_queue' = Tail(append_pixelBuffer_queue)
        /\ append_pixelBuffer_queue[1].file # Finish /\ 1 \in DOMAIN append_pixelBuffer_queue
        /\ UNCHANGED <<isRecording, videoWriter, starts, render_queue, drawing>>
    BY <1>10, TailShape DEF AppendFrame
  <2>2. Open /\ append_pixelBuffer_queue[1].file = starts
    BY <2>1
  <2>3. strays' = 0 /\ ~slotLost'
    BY <1>10, <2>2, TailShape DEF AppendFrame
  <2>4. \A k \in DOMAIN append_pixelBuffer_queue' :
           /\ k + 1 \in DOMAIN append_pixelBuffer_queue
           /\ append_pixelBuffer_queue'[k] = append_pixelBuffer_queue[k + 1]
           /\ k + 1 = Len(append_pixelBuffer_queue) => k = Len(append_pixelBuffer_queue')
    BY <2>1, TailShape
  <2>5. ASSUME drawing = "syncs"
        PROVE  append_pixelBuffer_queue' # <<>> /\ ~IsFrame(Len(append_pixelBuffer_queue))'
    <3> DEFINE n == Len(append_pixelBuffer_queue)
    <3>1. n # 1 /\ n \in DOMAIN append_pixelBuffer_queue
      BY <2>1, <2>5, TailShape
    <3>2. /\ n - 1 \in DOMAIN append_pixelBuffer_queue' /\ n - 1 = Len(append_pixelBuffer_queue')
          /\ append_pixelBuffer_queue'[n - 1] = append_pixelBuffer_queue[n]
      BY <2>1, <3>1, TailShape
    <3>3. append_pixelBuffer_queue[n].file = Finish
      BY <2>5
    <3> HIDE DEF n
    <3> QED BY <3>2, <3>3
  <2> QED BY <2>1, <2>2, <2>3, <2>4, <2>5
<1>11. CASE AppendFinish
  <2>1. /\ append_pixelBuffer_queue # <<>>
        /\ append_pixelBuffer_queue' = Tail(append_pixelBuffer_queue)
        /\ append_pixelBuffer_queue[1].file = Finish /\ 1 \in DOMAIN append_pixelBuffer_queue
        /\ UNCHANGED <<isRecording, starts, strays, slotLost>>
        /\ videoWriter' = IF videoWriter = "writing" THEN "finishing" ELSE videoWriter
    BY <1>11, TailShape DEF AppendFinish
  <2>2. drawing = "syncs" /\ Len(append_pixelBuffer_queue) = 1
    BY <2>1
  <2>3. append_pixelBuffer_queue' = <<>>
    BY <2>1, <2>2, TailShape
  <2>4. drawing' = "no"
    BY <1>11, <2>2 DEF AppendFinish
  <2> QED BY <2>1, <2>3, <2>4
<1>12. CASE Reset \/ ResetEnds
  BY <1>12 DEF Reset, ResetEnds
<1> QED BY <1>1, <1>2, <1>4, <1>5, <1>6, <1>7, <1>8, <1>9, <1>10, <1>11, <1>12
       DEF Next, RenderStep, AppendStep

(* The semaphores and the frames they protect.                             *)
LEMMA SlotsStep ==
    ASSUME TypeOK, Control, Slots, [Next]_vars
    PROVE  Slots'
<1> USE ConstantsAssumption, TypesSplit
        DEF Slots, SlotsKept, Waits, ToSet, Frames, IsFrame, QueueTypes, queueVars, semaphoreVars,
            stampVars, linkVars, historyVars
<1>0. ~slotLost'
  BY ControlStep DEF Control
<1>1. CASE UNCHANGED <<semaphoreVars, render_queue, append_pixelBuffer_queue, unready>>
  BY <1>0, <1>1
<1>2. CASE \/ Start \/ StartRaises \/ Draw \/ RenderFrame \/ WriterFails \/ Reset \/ ResetEnds
           \/ UNCHANGED vars
  BY <1>1, <1>2 DEF Start, StartRaises, Draw, RenderFrame, WriterFails, Reset, ResetEnds, vars
<1>3. CASE Stop
  <2>1. /\ render_queue' = Append(render_queue, "finish") /\ "finish" \in Blocks
        /\ UNCHANGED <<semaphoreVars, append_pixelBuffer_queue, unready>>
    BY <1>3 DEF Stop, RecordFinish, Blocks
  <2>2. Waits' <=> Waits
    BY <2>1, AppendShape
  <2> QED BY <1>0, <2>1, <2>2
<1>4. CASE RecordRunloop
  <2>1. CASE isRecording /\ frameRenderingSemaphore = 1
    <3>1. /\ render_queue' = Append(render_queue, "frame") /\ "frame" \in Blocks
          /\ frameRenderingSemaphore' = 0
          /\ UNCHANGED <<pixelAppendSemaphore, append_pixelBuffer_queue, unready>>
      BY <1>4, <2>1 DEF RecordRunloop, Blocks
    <3>2. Waits'
      BY <3>1, AppendShape
    <3> QED BY <1>0, <3>1, <3>2
  <2>2. CASE ~(isRecording /\ frameRenderingSemaphore = 1)
    BY <1>1, <1>4, <2>2 DEF RecordRunloop
  <2> QED BY <2>1, <2>2
<1>5. CASE RenderUnready
  <2>1. /\ render_queue # <<>> /\ render_queue' = Tail(render_queue)
        /\ unready' = TRUE
        /\ UNCHANGED <<semaphoreVars, append_pixelBuffer_queue>>
    BY <1>5 DEF RenderUnready, RenderQueueAt
  <2>2. Waits' => Waits
    BY <2>1, TailShape
  <2> QED BY <1>0, <2>1, <2>2
<1>6. CASE RenderFinish
  <2>1. FinishBlock \in FrameBlocks /\ FinishBlock.file = Finish
    BY DEF FrameBlocks, FinishBlock, Finish
  <2>2. /\ append_pixelBuffer_queue' = Append(append_pixelBuffer_queue, FinishBlock)
        /\ UNCHANGED <<semaphoreVars, render_queue, unready>>
    BY <1>6 DEF RenderFinish
  <2>3. Frames' = Frames
    BY <2>1, <2>2, AppendShape
  <2> QED BY <1>0, <2>2, <2>3
<1>7. CASE RenderHandsOn
  <2>1. /\ render_queue # <<>> /\ render_queue[1] = "frame" /\ drawing = "drawn"
        /\ render_queue' = Tail(render_queue) /\ frameRenderingSemaphore' = 1
        /\ starts # Finish
    BY <1>7 DEF RenderHandsOn, SignalRendering, Control, Open, IsDrawing, Finish
  <2>2. \A k \in DOMAIN render_queue' : render_queue'[k] # "frame"
    BY <2>1, TailShape
  <2> DEFINE frame == [file |-> starts, time |-> time]
  <2>3. frame \in FrameBlocks /\ frame.file = starts
    BY DEF FrameBlocks, StateTypes, StampTypes
  <2> HIDE DEF frame
  <2>4. CASE pixelAppendSemaphore = 1
    <3>1. /\ append_pixelBuffer_queue' = Append(append_pixelBuffer_queue, frame)
          /\ pixelAppendSemaphore' = 0
      BY <1>7, <2>4 DEF RenderHandsOn, frame
    <3>2. append_pixelBuffer_queue = <<>>
      <4>1. \A k \in DOMAIN append_pixelBuffer_queue : IsFrame(k)
        BY <2>1 DEF Control
      <4>2. DOMAIN append_pixelBuffer_queue = {}
        BY <2>4, <4>1
      <4> QED BY <4>2, AppendShape, <2>3
    <3>3. Frames' = {1}
      BY <2>1, <2>3, <3>1, <3>2, AppendShape
    <3> QED BY <1>0, <2>1, <2>2, <3>1, <3>3
  <2>5. CASE pixelAppendSemaphore # 1
    <3>1. UNCHANGED <<append_pixelBuffer_queue, pixelAppendSemaphore>>
      BY <1>7, <2>5 DEF RenderHandsOn
    <3> QED BY <1>0, <2>1, <2>2, <3>1
  <2> QED BY <2>4, <2>5
<1>8. CASE AppendFrame
  <2>1. /\ append_pixelBuffer_queue # <<>>
        /\ append_pixelBuffer_queue' = Tail(append_pixelBuffer_queue)
        /\ append_pixelBuffer_queue[1].file # Finish /\ 1 \in DOMAIN append_pixelBuffer_queue
        /\ UNCHANGED <<frameRenderingSemaphore, render_queue, unready>>
    BY <1>8, TailShape DEF AppendFrame
  <2>2. isRecording
    BY <2>1 DEF Control
  <2>3. pixelAppendSemaphore' = 1
    BY <1>8, <2>2 DEF AppendFrame
  <2>4. Frames' = {}
    BY <2>1, TailShape
  <2> QED BY <1>0, <2>1, <2>3, <2>4
<1>9. CASE AppendFinish
  <2>1. /\ append_pixelBuffer_queue # <<>>
        /\ append_pixelBuffer_queue' = Tail(append_pixelBuffer_queue)
        /\ append_pixelBuffer_queue[1].file = Finish /\ 1 \in DOMAIN append_pixelBuffer_queue
        /\ UNCHANGED <<semaphoreVars, unready>>
    BY <1>9, TailShape DEF AppendFinish
  <2>2. drawing = "syncs"
    BY <2>1 DEF Control, IsFrame
  <2>3. /\ render_queue' = Tail(render_queue) /\ render_queue # <<>>
        /\ render_queue[1] = "finish"
    BY <1>9, <2>2 DEF AppendFinish, Control
  <2>4. Waits' <=> Waits
    <3>1. \A k \in DOMAIN render_queue' :
             k + 1 \in DOMAIN render_queue /\ render_queue'[k] = render_queue[k + 1]
      BY <2>3, TailShape
    <3>2. \A k \in DOMAIN render_queue : k # 1 =>
             k - 1 \in DOMAIN render_queue' /\ render_queue'[k - 1] = render_queue[k]
      BY <2>3, TailShape
    <3> QED BY <2>3, <3>1, <3>2
  <2>5. Frames = {} /\ Frames' = {}
    BY <2>1, TailShape
  <2> QED BY <1>0, <2>1, <2>4, <2>5
<1> QED BY <1>2, <1>3, <1>4, <1>5, <1>6, <1>7, <1>8, <1>9
       DEF Next, RenderStep, AppendStep

-----------------------------------------------------------------------------
(* Times.                                                                  *)

(* Where frames come into the render queue, and that taking its head out   *)
(* brings none.                                                            *)
LEMMA WaitsStep ==
    ASSUME TypeOK, Control, [Next]_vars, ~RecordRunloop, Waits'
    PROVE  Waits
<1> USE TypesSplit DEF Waits, QueueTypes
<1>1. CASE UNCHANGED render_queue
  BY <1>1
<1>2. CASE render_queue' = Append(render_queue, "finish")
  BY <1>2, AppendShape DEF Blocks
<1>3. CASE render_queue # <<>> /\ render_queue' = Tail(render_queue)
  BY <1>3, TailShape
<1>4. \/ UNCHANGED render_queue
      \/ render_queue' = Append(render_queue, "finish")
      \/ render_queue # <<>> /\ render_queue' = Tail(render_queue)
  <2>1. CASE \/ Start \/ StartRaises \/ Stop \/ Draw \/ WriterFails \/ Reset \/ ResetEnds
             \/ UNCHANGED vars
    BY <2>1 DEF Start, StartRaises, Stop, RecordFinish, Draw, WriterFails, Reset, ResetEnds, vars,
                queueVars
  <2>2. CASE RenderStep
    BY <2>2 DEF RenderStep, RenderUnready, RenderFrame, RenderHandsOn, RenderFinish,
                RenderQueueAt, Control
  <2>3. CASE AppendStep
    BY <2>3 DEF AppendStep, AppendFrame, AppendFinish, Control
  <2> QED BY <2>1, <2>2, <2>3 DEF Next
<1> QED BY <1>1, <1>2, <1>3, <1>4

(* Every step keeps the times of a file in order. *)
LEMMA StampsStep ==
    ASSUME TypeOK, Control, Slots, Stamps, [Next]_vars
    PROVE  Stamps'
<1> USE ConstantsAssumption, TypesSplit
        DEF StampTypes, Open, Waits, ToSet, IsDrawing, queueVars, semaphoreVars, stampVars, linkVars,
            historyVars
<1>0. ~RecordRunloop => (Waits' => Waits)
  BY WaitsStep
<1> USE DEF Stamps
<1>1. CASE Start
  <2>1. /\ videoWriter = "none" /\ timestamp' = 0
        /\ UNCHANGED <<previousStamp, validStamp, clock, render_queue, drawing>>
        /\ videoWriter' # "none"
    BY <1>1 DEF Start
  <2>2. ~early' => ~oldLink' /\ "frame" \notin ToSet(render_queue')
    BY <1>1, <2>1 DEF Start
  <2> QED BY <2>1, <2>2
<1>2. CASE StartRaises
  BY <1>2 DEF StartRaises
<1>3. CASE Stop
  <2>1. Waits' => Waits
    BY <1>0, <1>3 DEF Stop, RecordRunloop
  <2> QED BY <1>3, <2>1 DEF Stop
<1>4. CASE RecordRunloop
  BY <1>4 DEF RecordRunloop
<1>5. CASE Draw
  BY <1>5 DEF Draw
<1>6. CASE RenderUnready
  <2>1. Waits' => Waits
    BY <1>6, TailShape DEF RenderUnready, RenderQueueAt, QueueTypes
  <2> QED BY <1>6, <2>1 DEF RenderUnready, RenderQueueAt
<1>7. CASE RenderFrame
  BY <1>7 DEF RenderFrame
<1>8. CASE RenderFinish
  BY <1>8 DEF RenderFinish, RenderQueueAt
<1>9. CASE RenderHandsOn
  <2>1. frameRenderingSemaphore' = 1
    BY <1>9 DEF RenderHandsOn, SignalRendering
  <2>2. ~Waits'
    BY <2>1, SlotsStep DEF Slots
  <2> QED BY <1>9, <2>2 DEF RenderHandsOn
<1>10. CASE AppendFrame
  BY <1>10 DEF AppendFrame
<1>11. CASE AppendFinish
  <2>1. Waits' => Waits
    BY <1>0, <1>11 DEF AppendFinish, RecordRunloop
  <2> QED BY <1>11, <2>1 DEF AppendFinish
<1>12. CASE Reset
  BY <1>12 DEF Reset, Control
<1>13. CASE ResetEnds
  BY <1>13 DEF ResetEnds, ClearValidStamp
<1>14. CASE WriterFails \/ UNCHANGED vars
  BY <1>14 DEF WriterFails, vars
<1> QED BY <1>1, <1>2, <1>3, <1>4, <1>5, <1>6, <1>7, <1>8, <1>9, <1>10, <1>11, <1>12, <1>13, <1>14
       DEF Next, RenderStep, AppendStep

(* The times of one recording, from the frame written last to the frame    *)
(* being drawn.                                                            *)
LEMMA TimesStep ==
    ASSUME TypeOK, Control, Slots, Stamps, Times, [Next]_vars
    PROVE  Times'
<1> USE ConstantsAssumption, TypesSplit
        DEF StampTypes, Open, IsDrawing, queueVars, semaphoreVars, stampVars, linkVars, historyVars
<1>1. CASE Start
  <2>1. Frames = {} /\ ~IsDrawing /\ videoWriter = "none"
    BY <1>1 DEF Start, Control, Frames
  <2>2. Frames' = {} /\ ~IsDrawing'
    BY <1>1, <2>1 DEF Start, Frames, IsFrame
  <2>3. ~early' => ~resetting /\ previousStamp = 0 /\ validStamp = 0
    BY <1>1, <2>1 DEF Start, Stamps
  <2> QED BY <1>1, <2>2, <2>3 DEF Start, Times
<1>2. ASSUME UNCHANGED <<time, append_pixelBuffer_queue, stampVars, written, early>>,
             Open' => Open /\ resetting' = resetting,
             Open' => IsDrawing' = IsDrawing
      PROVE  Times'
  <2>1. Frames' = Frames
    BY <1>2 DEF Frames, IsFrame
  <2> QED BY <1>2, <2>1 DEF Times
<1>3. CASE StartRaises \/ WriterFails \/ UNCHANGED vars
  BY <1>2, <1>3 DEF StartRaises, WriterFails, vars
<1>4. CASE RecordRunloop
  BY <1>2, <1>4 DEF RecordRunloop
<1>5. CASE Draw
  BY <1>2, <1>5 DEF Draw
<1>6. CASE Stop
  BY <1>2, <1>6 DEF Stop, RecordFinish
<1>7. CASE RenderUnready
  BY <1>2, <1>7 DEF RenderUnready
<1>8. CASE Reset
  BY <1>8 DEF Reset, Times
<1>9. CASE ResetEnds
  BY <1>9 DEF ResetEnds, Times
<1>10. CASE RenderFrame
  <2> SUFFICES ASSUME Open, ~early
               PROVE  Times'
    BY <1>10 DEF RenderFrame, Times
  <2>1. /\ validStamp' = validStamp + (IF previousStamp = 0 THEN 0 ELSE timestamp - previousStamp)
        /\ previousStamp' = timestamp /\ time' = validStamp' /\ drawing = "no" /\ drawing' = "draws"
        /\ UNCHANGED <<videoWriter, early, written, resetting, append_pixelBuffer_queue>>
    BY <1>10 DEF RenderFrame, RenderQueueAt
  <2>2. previousStamp < timestamp
    <3>1. render_queue # <<>> /\ Head(render_queue) = "frame"
      BY <1>10 DEF RenderFrame, RenderQueueAt
    <3>2. "frame" \in ToSet(render_queue)
      BY <3>1, TailShape DEF ToSet, QueueTypes
    <3> QED BY <2>1, <3>2 DEF Stamps
  <2>3. Frames' = Frames
    BY <2>1 DEF Frames, IsFrame
  <2>4. CASE previousStamp = 0
    <3>1. validStamp = 0 /\ written = -1 /\ Frames = {}
      BY <2>4 DEF Times
    <3> QED BY <2>1, <2>2, <2>3, <2>4, <3>1 DEF Times
  <2>5. CASE previousStamp # 0
    <3>1. validStamp < validStamp' /\ timestamp # 0
      BY <2>1, <2>2, <2>5
    <3>2. ~(written = -1 /\ Frames = {}) /\ written <= validStamp
      BY <2>1, <2>5 DEF Times
    <3>3. Frames # {} => append_pixelBuffer_queue[1].time \in Int
      <4>1. Frames # {} => append_pixelBuffer_queue[1] \in FrameBlocks
        BY TailShape DEF Frames, QueueTypes
      <4> QED BY <4>1 DEF FrameBlocks
    <3> QED BY <2>1, <2>3, <3>1, <3>2, <3>3 DEF Times
  <2> QED BY <2>4, <2>5
<1>11. CASE RenderFinish
  <2>1. FinishBlock \in FrameBlocks /\ FinishBlock.file = Finish
    BY DEF FrameBlocks, FinishBlock, Finish
  <2>2. append_pixelBuffer_queue' = Append(append_pixelBuffer_queue, FinishBlock)
    BY <1>11 DEF RenderFinish
  <2>3. Frames' = Frames
    BY <2>1, <2>2, AppendShape DEF Frames, IsFrame, QueueTypes
  <2>4. Frames # {} => append_pixelBuffer_queue'[1] = append_pixelBuffer_queue[1]
    BY <2>1, <2>2, AppendShape DEF Frames, Slots, QueueTypes
  <2>5. ~IsDrawing /\ ~IsDrawing'
    BY <1>11 DEF RenderFinish, RenderQueueAt
  <2>6. UNCHANGED <<videoWriter, early, written, resetting, previousStamp, validStamp>>
    BY <1>11 DEF RenderFinish
  <2> QED BY <2>3, <2>4, <2>5, <2>6 DEF Times
<1>12. CASE RenderHandsOn
  <2> SUFFICES ASSUME Open, ~early
               PROVE  Times'
    BY <1>12 DEF RenderHandsOn, Times
  <2>1. /\ UNCHANGED <<videoWriter, early, written, resetting, previousStamp, validStamp>>
        /\ IsDrawing /\ ~IsDrawing' /\ starts # Finish
    BY <1>12 DEF RenderHandsOn, Control, Finish
  <2>2. /\ time = validStamp /\ written < time
        /\ written = -1 /\ Frames = {} => time = 0
        /\ previousStamp # 0 /\ ~resetting
    BY <2>1 DEF Times
  <2>3. CASE pixelAppendSemaphore = 1
    <3> DEFINE frame == [file |-> starts, time |-> time]
    <3>1. frame \in FrameBlocks /\ frame.file = starts /\ frame.time = time
      BY DEF FrameBlocks, StateTypes
    <3>2. append_pixelBuffer_queue' = Append(append_pixelBuffer_queue, frame)
      BY <1>12, <2>3 DEF RenderHandsOn
    <3>3. Frames = {} /\ drawing = "drawn"
      BY <1>12, <2>3 DEF Slots, RenderHandsOn
    <3>4. append_pixelBuffer_queue = <<>>
      <4>1. DOMAIN append_pixelBuffer_queue = {}
        BY <3>3 DEF Control, Frames
      <4> QED BY <3>1, <4>1, AppendShape DEF QueueTypes
    <3> HIDE DEF frame
    <3>5. Frames' # {} /\ append_pixelBuffer_queue'[1] = frame
      BY <2>1, <3>1, <3>2, <3>4, AppendShape DEF Frames, IsFrame
    <3> QED BY <2>1, <2>2, <3>1, <3>3, <3>5 DEF Times
  <2>4. CASE pixelAppendSemaphore # 1
    <3>1. UNCHANGED append_pixelBuffer_queue /\ Frames # {}
      BY <1>12, <2>4 DEF RenderHandsOn, Slots
    <3>2. Frames' = Frames
      BY <3>1 DEF Frames, IsFrame
    <3> QED BY <2>1, <3>1, <3>2 DEF Times
  <2> QED BY <2>3, <2>4
<1>13. CASE AppendFrame
  <2>1. /\ append_pixelBuffer_queue # <<>>
        /\ append_pixelBuffer_queue' = Tail(append_pixelBuffer_queue)
        /\ append_pixelBuffer_queue[1].file # Finish /\ 1 \in DOMAIN append_pixelBuffer_queue
        /\ Head(append_pixelBuffer_queue) = append_pixelBuffer_queue[1]
    BY <1>13, TailShape DEF AppendFrame, QueueTypes
  <2>2. isRecording /\ Open /\ Frames # {}
    BY <2>1 DEF Control, IsFrame, Frames
  <2>3. /\ written' = append_pixelBuffer_queue[1].time
        /\ UNCHANGED <<videoWriter, early, resetting, previousStamp, validStamp, time, drawing>>
    BY <1>13, <2>1, <2>2 DEF AppendFrame
  <2>4. Frames' = {}
    BY <2>1, TailShape DEF Frames, IsFrame, Slots, QueueTypes
  <2>5. append_pixelBuffer_queue[1].time \in 0..MaxTimestamp
    <3>1. append_pixelBuffer_queue[1] \in FrameBlocks
      BY <2>1 DEF QueueTypes
    <3> QED BY <3>1 DEF FrameBlocks
  <2> QED BY <2>2, <2>3, <2>4, <2>5 DEF Times
<1>14. CASE AppendFinish
  <2>1. CASE videoWriter = "writing"
    BY <1>14, <2>1 DEF AppendFinish, Times
  <2>2. CASE videoWriter # "writing"
    <3>1. /\ UNCHANGED <<videoWriter, early, written, resetting, time, previousStamp, validStamp>>
          /\ append_pixelBuffer_queue # <<>>
          /\ append_pixelBuffer_queue' = Tail(append_pixelBuffer_queue)
          /\ append_pixelBuffer_queue[1].file = Finish /\ 1 \in DOMAIN append_pixelBuffer_queue
      BY <1>14, <2>2, TailShape DEF AppendFinish, QueueTypes
    <3>2. drawing = "syncs" /\ drawing' = "no"
      BY <1>14, <3>1 DEF AppendFinish, Control, IsFrame
    <3>3. Frames = {} /\ Frames' = {}
      BY <3>1, TailShape DEF Frames, IsFrame, Slots, QueueTypes
    <3> QED BY <3>1, <3>2, <3>3 DEF Times
  <2> QED BY <2>1, <2>2
<1> QED BY <1>1, <1>3, <1>4, <1>5, <1>6, <1>7, <1>8, <1>9, <1>10, <1>11, <1>12, <1>13, <1>14
       DEF Next, RenderStep, AppendStep

-----------------------------------------------------------------------------
(* The theorems.                                                           *)

(* A new recorder has nothing in its queues.                               *)
LEMMA InitInv == Init => IInv
<1> SUFFICES ASSUME Init PROVE IInv
  OBVIOUS
<1> USE ConstantsAssumption DEF Init
<1>1. TypeOK
  <2>1. QueueTypes
    BY DEF QueueTypes
  <2>2. FlagTypes
    BY DEF FlagTypes
  <2>3. StateTypes /\ StampTypes
    BY DEF StateTypes, StampTypes
  <2> QED BY <2>1, <2>2, <2>3, TypesSplit
<1>2. Control /\ Slots
  BY DEF Control, Open, Slots, SlotsKept, Frames, IsDrawing
<1>3. Stamps /\ Times
  BY DEF Stamps, Times, Open, ToSet
<1> QED BY <1>1, <1>2, <1>3 DEF IInv

(* The inductive invariant holds in every reachable state of the recorder. *)
THEOREM Inductive == Spec => []IInv
<1>1. IInv /\ [Next]_vars => IInv'
  <2> SUFFICES ASSUME IInv, [Next]_vars
               PROVE  IInv'
    OBVIOUS
  <2>1. TypeOK /\ Control /\ Slots /\ Stamps /\ Times
    BY DEF IInv
  <2>2. TypeOK'
    <3>1. QueueTypes' /\ FlagTypes' /\ StateTypes' /\ StampTypes'
      BY <2>1, QueueTypesStep, FlagTypesStep, StateTypesStep, StampTypesStep
    <3> QED BY <3>1 DEF TypeOK, QueueTypes, FlagTypes, StateTypes, StampTypes, Blocks,
                        FrameBlocks
  <2> QED BY <2>1, <2>2, ControlStep, SlotsStep, StampsStep, TimesStep DEF IInv
<1> QED BY InitInv, <1>1, PTL DEF Spec

(* Every variable keeps its type: no semaphore rises above 1 or falls      *)
(* below 0, one frame at most waits to be drawn, and no presentation time  *)
(* leaves the range of the display's stamps (TypeOK, MediaRecorder.m).     *)
THEOREM TypeCorrect == Spec => []TypeOK
<1>1. IInv => TypeOK
  BY DEF IInv
<1> QED BY Inductive, <1>1, PTL

(* Neither semaphore is lost with a frame that is dropped, whatever stops, *)
(* second stops and new recordings come between the steps of the queues    *)
(* (renderFrame, appendPixelBuffer, recordFinish).                         *)
THEOREM SlotsAreKept == Spec => []SlotsKept
<1>1. IInv => SlotsKept
  BY DEF IInv, Slots
<1> QED BY Inductive, <1>1, PTL

(* No frame is appended to the file of another recording, or to a file     *)
(* that is being finished (recordFinish, the append queue's blocks).       *)
THEOREM NoStrayFrame == Spec => []FramesStayInTheirFile
<1>1. IInv => FramesStayInTheirFile
  BY DEF IInv, Control, FramesStayInTheirFile
<1> QED BY Inductive, <1>1, PTL

(* The first frame appended to a file has time 0 and every later one a     *)
(* greater time than the one before, for every number of recordings and    *)
(* every pattern of dropped frames.  A recording started during the reset  *)
(* of the last, or with a display link or a frame of it left, is left out  *)
(* (recordRunloop, resetRecorder).                                         *)
THEOREM TimesIncrease == Spec => PlayableTimes
<1> DEFINE A == Appends /\ ~early => IF written = -1 THEN written' = 0 ELSE written' > written
<1>1. IInv /\ [Next]_vars => [A]_vars
  <2> SUFFICES ASSUME IInv, Next, Appends, ~early
               PROVE  IF written = -1 THEN written' = 0 ELSE written' > written
    OBVIOUS
  <2> USE TypesSplit DEF IInv, QueueTypes, StampTypes
  <2>1. AppendFrame
    <3>1. append_pixelBuffer_queue # <<>> /\ append_pixelBuffer_queue' = Tail(append_pixelBuffer_queue)
          /\ Head(append_pixelBuffer_queue).file # Finish
      BY DEF Appends
    <3>2. Len(append_pixelBuffer_queue') < Len(append_pixelBuffer_queue)
      BY <3>1, TailShape
    <3>3. ~UNCHANGED append_pixelBuffer_queue
      BY <3>2
    <3>4. ASSUME NEW x \in FrameBlocks
          PROVE  append_pixelBuffer_queue' # Append(append_pixelBuffer_queue, x)
      BY <3>2, AppendShape
    <3>5. ~RenderFinish
      BY <3>4, ConstantsAssumption DEF RenderFinish, FinishBlock, Finish, FrameBlocks
    <3>6. ~RenderHandsOn
      <4>1. [file |-> starts, time |-> time] \in FrameBlocks
        BY DEF FrameBlocks, StateTypes
      <4> QED BY <3>3, <3>4, <4>1 DEF RenderHandsOn
    <3>7. ~AppendFinish
      BY <3>1 DEF AppendFinish
    <3> QED BY <3>3, <3>5, <3>6, <3>7
         DEF Next, Start, StartRaises, Stop, RecordFinish, RecordRunloop, Draw, RenderStep,
             RenderUnready, RenderFrame, WriterFails, AppendStep, Reset, ResetEnds, queueVars
  <2>2. /\ 1 \in DOMAIN append_pixelBuffer_queue
        /\ Head(append_pixelBuffer_queue) = append_pixelBuffer_queue[1] /\ IsFrame(1)
    BY <2>1, TailShape DEF AppendFrame, IsFrame
  <2>3. Open /\ isRecording /\ Frames # {}
    BY <2>2 DEF Control, Frames
  <2>4. written' = append_pixelBuffer_queue[1].time
    BY <2>1, <2>2, <2>3 DEF AppendFrame
  <2> QED BY <2>3, <2>4 DEF Times
<1> QED BY Inductive, <1>1, PTL DEF Spec, PlayableTimes
=============================================================================
