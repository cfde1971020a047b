--------------------------- MODULE MediaRecorder ---------------------------
(***************************************************************************)
(* MediaRecorder.m: a display link's frames are drawn by a serial render   *)
(* queue and written to a file by a serial append queue.  One semaphore    *)
(* lets one frame at a time be drawn, one lets one be written, and frames  *)
(* that find no place are dropped.  Stopping sends a block through both    *)
(* queues; the asset writer then calls back on a thread of its own.        *)
(* Left out: sizes, colours and the content of a frame.                    *)
(***************************************************************************)
EXTENDS Integers, Sequences, SequencesExt

CONSTANTS MaxStarts,     \* bound: recordings
          MaxTimestamp   \* bound: frames of the display

ASSUME ConstantsAssumption == MaxStarts \in Nat /\ MaxTimestamp \in Nat

VARIABLES
    isRecording,
    videoWriter,                \* "none", "writing", "finishing", "failed" while recording,
                                \* or "refused" to start
    frameRenderingSemaphore, pixelAppendSemaphore,
    render_queue,               \* blocks: "frame" and "finish"
    drawing,                    \* the head of render_queue: "no", "drawn" for it by the
                                \* main thread or about to be ("draws"), or "syncs" with
                                \* the append queue
    time,                       \* presentation time of the frame being drawn
    append_pixelBuffer_queue,   \* blocks: frames [file, time] and finishes [file |-> Finish]
    previousStamp, validStamp,
    clock,                      \* of the display
    timestamp,                  \* of displayLink, 0 before its first frame
    link, oldLink,              \* displayLink, or one it replaced, is on the run loop
    resetting,                  \* resetRecorder is half done
    raised,                     \* an exception or an assertion has ended the program
    starts,                     \* recordings so far; the last one's number names its file
    written,                    \* history: time of the last frame appended, -1 for none
    early,                      \* history: this recording was started while the last one was
                                \* being reset, or had left a frame or a display link behind
    unready,                    \* history: a frame found the writer not ready
    strays,                     \* history: frames appended to a file they are not of
    slotLost                    \* history: a frame was neither appended nor its slot freed

queueVars == <<render_queue, drawing, time, append_pixelBuffer_queue>>
semaphoreVars == <<frameRenderingSemaphore, pixelAppendSemaphore>>
stampVars == <<previousStamp, validStamp>>
linkVars == <<clock, timestamp, link, oldLink>>
historyVars == <<written, early, unready, strays, slotLost>>
vars == <<isRecording, videoWriter, semaphoreVars, queueVars, stampVars, linkVars, resetting,
          raised, starts, historyVars>>

Finish == 0
FinishBlock == [file |-> Finish, time |-> 0]

(* init *)
Init ==
    /\ isRecording = FALSE /\ videoWriter = "none"
    /\ frameRenderingSemaphore = 1 /\ pixelAppendSemaphore = 1
    /\ render_queue = <<>> /\ drawing = "no" /\ time = 0 /\ append_pixelBuffer_queue = <<>>
    /\ previousStamp = 0 /\ validStamp = 0
    /\ clock = 0 /\ timestamp = 0 /\ link = FALSE /\ oldLink = FALSE
    /\ resetting = FALSE /\ raised = FALSE /\ starts = 0
    /\ written = -1 /\ early = FALSE /\ unready = FALSE /\ strays = 0 /\ slotLost = FALSE

-----------------------------------------------------------------------------
(* Main thread. *)

(* startWithRecorderView:videoDuration: asserts that nothing is recorded,  *)
(* and a writer that refused is still there and takes no input.            *)
StartRaises ==
    /\ starts < MaxStarts
    /\ isRecording \/ videoWriter = "refused"
    /\ raised' = TRUE
    /\ UNCHANGED <<isRecording, videoWriter, semaphoreVars, queueVars, stampVars, linkVars,
                   resetting, starts, historyVars>>

(* startRecording: the writer may refuse to start.  The new display link   *)
(* has no timestamp yet, and an old one is not removed.                    *)
Start ==
    /\ starts < MaxStarts
    /\ ~isRecording /\ videoWriter = "none"
    /\ videoWriter' \in {"writing", "refused"}
    /\ isRecording' = (videoWriter' = "writing")
    /\ oldLink' = (oldLink \/ link) /\ link' = TRUE /\ timestamp' = 0
    /\ starts' = starts + 1
    /\ written' = -1 /\ early' = (resetting \/ oldLink' \/ "frame" \in ToSet(render_queue))
    /\ UNCHANGED <<semaphoreVars, queueVars, stampVars, clock, resetting, raised, unready,
                   strays, slotLost>>

(* Mutant: the end of the recording overtakes the frames being drawn. *)
RecordFinishAtOnce ==
    /\ append_pixelBuffer_queue' = Append(append_pixelBuffer_queue, FinishBlock)
    /\ UNCHANGED render_queue

(* recordFinish, first part. *)
RecordFinish ==
    /\ render_queue' = Append(render_queue, "finish")
    /\ UNCHANGED append_pixelBuffer_queue

(* stopRecording; a second call before the writer has finished does it all *)
(* again.  Bound: two stops under way.                                     *)
Finishes == {k \in DOMAIN render_queue : render_queue[k] = "finish"}
Stop ==
    /\ isRecording
    /\ \A j, k \in Finishes : j = k
    /\ RecordFinish
    /\ link' = FALSE
    /\ UNCHANGED <<isRecording, videoWriter, semaphoreVars, drawing, time, stampVars, clock,
                   timestamp, oldLink, resetting, raised, starts, historyVars>>

(* A frame of the display, from either link; only displayLink's timestamp  *)
(* is ever read.                                                           *)
RecordRunloop ==
    /\ \/ /\ link /\ clock < MaxTimestamp
          /\ clock' = clock + 1 /\ timestamp' = clock + 1
       \/ oldLink /\ UNCHANGED <<clock, timestamp>>
    /\ IF isRecording /\ frameRenderingSemaphore = 1
         THEN /\ frameRenderingSemaphore' = 0
              /\ render_queue' = Append(render_queue, "frame")
         ELSE UNCHANGED <<frameRenderingSemaphore, render_queue>>
    /\ UNCHANGED <<isRecording, videoWriter, pixelAppendSemaphore, drawing, time,
                   append_pixelBuffer_queue, stampVars, link, oldLink, resetting, raised, starts,
                   historyVars>>

(* The block the render queue waits for. *)
Draw ==
    /\ drawing = "draws" /\ drawing' = "drawn"
    /\ UNCHANGED <<isRecording, videoWriter, semaphoreVars, render_queue, time,
                   append_pixelBuffer_queue, stampVars, linkVars, resetting, raised, starts,
                   historyVars>>

-----------------------------------------------------------------------------
(* Render queue. *)

RenderQueueAt(block) == render_queue # <<>> /\ Head(render_queue) = block /\ drawing = "no"

(* A frame that finds the writer not ready returns with its semaphore.     *)
RenderUnready ==
    /\ RenderQueueAt("frame")
    /\ render_queue' = Tail(render_queue)
    /\ unready' = TRUE
    /\ UNCHANGED <<isRecording, videoWriter, semaphoreVars, drawing, time,
                   append_pixelBuffer_queue, stampVars, linkVars, resetting, raised, starts,
                   written, early, strays, slotLost>>

RenderFrame ==
    /\ RenderQueueAt("frame") /\ videoWriter \in {"writing", "failed"}
    /\ validStamp' = validStamp + (IF previousStamp = 0 THEN 0 ELSE timestamp - previousStamp)
    /\ previousStamp' = timestamp
    /\ time' = validStamp'
    /\ drawing' = "draws"
    /\ UNCHANGED <<isRecording, videoWriter, semaphoreVars, render_queue,
                   append_pixelBuffer_queue, linkVars, resetting, raised, starts, historyVars>>

(* Mutant: a frame dropped here keeps the semaphore. *)
SignalIfAppended == IF pixelAppendSemaphore = 1 THEN 1 ELSE 0

SignalRendering == 1

(* The frame drawn is handed on, or dropped when one is being written. *)
RenderHandsOn ==
    /\ drawing = "drawn" /\ drawing' = "no"
    /\ render_queue' = Tail(render_queue)
    /\ IF pixelAppendSemaphore = 1
         THEN /\ pixelAppendSemaphore' = 0
              /\ append_pixelBuffer_queue' =
                     Append(append_pixelBuffer_queue, [file |-> starts, time |-> time])
         ELSE UNCHANGED <<pixelAppendSemaphore, append_pixelBuffer_queue>>
    /\ frameRenderingSemaphore' = SignalRendering
    /\ time' = 0
    /\ UNCHANGED <<isRecording, videoWriter, stampVars, linkVars, resetting, raised, starts,
                   historyVars>>

(* Mutant: the end waits for the right to draw. *)
RenderFinishWhenDrawn ==
    /\ RenderQueueAt("finish") /\ frameRenderingSemaphore = 1
    /\ drawing' = "syncs"
    /\ append_pixelBuffer_queue' = Append(append_pixelBuffer_queue, FinishBlock)
    /\ UNCHANGED <<isRecording, videoWriter, semaphoreVars, render_queue, time, stampVars,
                   linkVars, resetting, raised, starts, historyVars>>

(* recordFinish, second part. *)
RenderFinish ==
    /\ RenderQueueAt("finish")
    /\ drawing' = "syncs"
    /\ append_pixelBuffer_queue' = Append(append_pixelBuffer_queue, FinishBlock)
    /\ UNCHANGED <<isRecording, videoWriter, semaphoreVars, render_queue, time, stampVars,
                   linkVars, resetting, raised, starts, historyVars>>

RenderStep == RenderUnready \/ RenderFrame \/ RenderHandsOn \/ RenderFinish

-----------------------------------------------------------------------------
(* Append queue. *)

(* appendPixelBuffer: says NO once the writer has failed. *)
WriterFails ==
    /\ videoWriter = "writing" /\ videoWriter' = "failed"
    /\ UNCHANGED <<isRecording, semaphoreVars, queueVars, stampVars, linkVars, resetting, raised,
                   starts, historyVars>>

(* A frame that comes after the recording keeps its slot and its buffer;   *)
(* one that a failed writer turns away is like one written.                *)
AppendFrame ==
    /\ append_pixelBuffer_queue # <<>> /\ Head(append_pixelBuffer_queue).file # Finish
    /\ append_pixelBuffer_queue' = Tail(append_pixelBuffer_queue)
    /\ LET frame == Head(append_pixelBuffer_queue) IN
        IF isRecording
          THEN /\ pixelAppendSemaphore' = 1
               /\ written' = frame.time
               /\ strays' = strays
                    + (IF frame.file = starts /\ videoWriter # "finishing" THEN 0 ELSE 1)
               /\ UNCHANGED slotLost
          ELSE /\ slotLost' = TRUE
               /\ UNCHANGED <<pixelAppendSemaphore, written, strays>>
    /\ UNCHANGED <<isRecording, videoWriter, frameRenderingSemaphore, render_queue, drawing, time,
                   stampVars, linkVars, resetting, raised, starts, early, unready>>

(* markAsFinished and finishWriting raise unless the writer is writing;    *)
(* the getter makes a new writer when there is none.                       *)
AppendFinish ==
    /\ append_pixelBuffer_queue # <<>> /\ Head(append_pixelBuffer_queue).file = Finish
    /\ append_pixelBuffer_queue' = Tail(append_pixelBuffer_queue)
    /\ IF videoWriter = "writing"
         THEN videoWriter' = "finishing" /\ UNCHANGED raised
         ELSE raised' = TRUE /\ UNCHANGED videoWriter
    /\ render_queue' = IF drawing = "syncs" THEN Tail(render_queue) ELSE render_queue
    /\ drawing' = IF drawing = "syncs" THEN "no" ELSE drawing
    /\ UNCHANGED <<isRecording, semaphoreVars, time, stampVars, linkVars, resetting, starts,
                   historyVars>>

AppendStep == AppendFrame \/ AppendFinish

-----------------------------------------------------------------------------
(* The writer's completion handler: resetRecorder, which frees the         *)
(* recorder before it clears the time, and finishBlock.  Left out: a       *)
(* handler that starts before the last one has ended.                      *)

Reset ==
    /\ videoWriter = "finishing" /\ ~resetting
    /\ videoWriter' = "none" /\ isRecording' = FALSE /\ previousStamp' = 0
    /\ resetting' = TRUE
    /\ UNCHANGED <<semaphoreVars, queueVars, validStamp, linkVars, raised, starts, historyVars>>

(* Mutant: the time of the recording is kept. *)
KeepValidStamp == validStamp

ClearValidStamp == 0

ResetEnds ==
    /\ resetting /\ resetting' = FALSE
    /\ previousStamp' = 0 /\ validStamp' = ClearValidStamp
    /\ UNCHANGED <<isRecording, videoWriter, semaphoreVars, queueVars, linkVars, raised, starts,
                   historyVars>>

-----------------------------------------------------------------------------
Next ==
    /\ ~raised
    /\ \/ Start \/ StartRaises \/ Stop \/ RecordRunloop \/ Draw
       \/ RenderStep \/ WriterFails \/ AppendStep \/ Reset \/ ResetEnds

(* The queues run their blocks, the main thread draws, and the writer      *)
(* finishes what it was told to finish.                                    *)
Fairness ==
    /\ WF_vars(~raised /\ RenderStep) /\ WF_vars(~raised /\ AppendStep)
    /\ WF_vars(~raised /\ Draw)
    /\ WF_vars(~raised /\ Reset) /\ WF_vars(~raised /\ ResetEnds)

Spec == Init /\ [][Next]_vars
FairSpec == Spec /\ Fairness

-----------------------------------------------------------------------------
(* Properties. *)

(* Types of the variables; both semaphores are made with 1 and hold no     *)
(* more (MediaRecorder.m:69-70).                                           *)
TypeOK ==
    /\ isRecording \in BOOLEAN
    /\ videoWriter \in {"none", "writing", "finishing", "failed", "refused"}
    /\ frameRenderingSemaphore \in 0..1 /\ pixelAppendSemaphore \in 0..1
    /\ render_queue \in Seq({"frame", "finish"})
    /\ \A j, k \in DOMAIN render_queue :
          render_queue[j] = "frame" /\ render_queue[k] = "frame" => j = k
    /\ drawing \in {"no", "draws", "drawn", "syncs"}
    /\ time \in 0..MaxTimestamp
    /\ append_pixelBuffer_queue \in Seq([file : 0..MaxStarts, time : 0..MaxTimestamp])
    /\ previousStamp \in 0..MaxTimestamp /\ validStamp \in 0..MaxTimestamp
    /\ clock \in 0..MaxTimestamp /\ timestamp \in 0..MaxTimestamp /\ link \in BOOLEAN /\ oldLink \in BOOLEAN
    /\ resetting \in BOOLEAN /\ raised \in BOOLEAN /\ starts \in 0..MaxStarts
    /\ written \in -1..MaxTimestamp /\ early \in BOOLEAN /\ unready \in BOOLEAN
    /\ strays \in Nat /\ slotLost \in BOOLEAN

(* The right to draw is free or a frame has it, unless a frame found the  *)
(* writer not ready; the right to append is never lost, though a frame     *)
(* appended after the recording would keep it for good: the end comes      *)
(* through both queues behind every frame (MediaRecorder.m:113-196).       *)
SlotsKept ==
    /\ \/ frameRenderingSemaphore = 1
       \/ "frame" \in ToSet(render_queue)
       \/ unready
    /\ ~slotLost
    /\ \/ pixelAppendSemaphore = 1
       \/ \E k \in DOMAIN append_pixelBuffer_queue : append_pixelBuffer_queue[k].file # Finish

(* A frame is appended to the file of the recording it was drawn for, and  *)
(* never once the file is being finished (MediaRecorder.m:117-127, 181).   *)
FramesStayInTheirFile == strays = 0

(* The first frame appended to a file has time 0 and every later one a     *)
(* greater time than the one before, else the writer fails.  Left out are  *)
(* recordings started before the last one was done with: during its reset, *)
(* whose time goes back to 0, or with a display link or a queued frame of  *)
(* it left.  An old link has frames drawn at timestamp 0, or twice at one  *)
(* (MediaRecorder.m:102-104, 152-158, 306-321).                            *)
Appends ==
    /\ isRecording /\ append_pixelBuffer_queue # <<>>
    /\ Head(append_pixelBuffer_queue).file # Finish
    /\ append_pixelBuffer_queue' = Tail(append_pixelBuffer_queue)

PlayableTimes ==
    [][Appends /\ ~early => IF written = -1 THEN written' = 0 ELSE written' > written]_vars

(* A recording that is stopped is finished and the recorder free for the   *)
(* next, unless a second stop, an early start or the end of a recording    *)
(* whose writer has failed raises (MediaRecorder.m:93, 107-129).           *)
StopsFinish == (Finishes # {}) ~> (raised \/ ~isRecording)
=============================================================================
