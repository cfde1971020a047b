-------------------------- MODULE URLDownloadTask ---------------------------
(***************************************************************************)
(* URLDownloadTask.m and its client URLSessionTaskCtl.m: a download that   *)
(* one button starts, pauses and continues in turn, and another one stops. *)
(*                                                                         *)
(* A pause cancels the task; what is needed to go on, the resume data,     *)
(* comes later in a block on the main queue, or does not come.  Continue   *)
(* makes a new task of the resume data kept, when the task it has is over, *)
(* and otherwise resumes that task.  A task is its state and the bytes of  *)
(* the resource it has, resume data the bytes had at the pause.            *)
(***************************************************************************)
EXTENDS Integers, Sequences

CONSTANTS
    Size,      \* bytes of the resource
    MaxTasks,  \* bound: tasks made
    MaxBlocks, \* bound: blocks on the main queue when a pause is asked for
    Faults     \* what the environment may do

FaultKinds ==
    { "stop",      \* the user presses the other button
      "fail",      \* a task fails
      "nothing" }  \* a pause yields no resume data

ASSUME SizeAssumption == Size \in Nat /\ MaxTasks \in Nat \ {0}
ASSUME BlocksAssumption == MaxBlocks \in Nat \ {0}
ASSUME FaultsAssumption == Faults \subseteq FaultKinds

NoData == -1

VARIABLES
    tasks,       \* the tasks made; downloadTask is the last one
    resumeData,
    selected,    \* the button says that the download runs
    main,        \* blocks on the main queue
    delivered,   \* the file is at destinationFullPath
    broken       \* something from which continue does not recover

vars == <<tasks, resumeData, selected, main, delivered, broken>>

States == {"suspended", "running", "canceling", "stopping", "completed"}
Data == {NoData} \cup 0 .. Size
Blocks == [event : {"data"}, data : Data] \cup [event : {"finish"}]
DataBlock(data) == [event |-> "data", data |-> data]
FinishBlock == [event |-> "finish"]

downloadTask == tasks[Len(tasks)]
DataIsComing == \E i \in DOMAIN main : main[i].event = "data"

(* setupTask, by the screen that opens.                                    *)
Init ==
    /\ tasks = << [state |-> "suspended", at |-> 0] >>
    /\ resumeData = NoData
    /\ selected = FALSE
    /\ main = <<>>
    /\ delivered = FALSE
    /\ broken = FALSE

Become(i, state) == tasks' = [tasks EXCEPT ![i].state = state]

-----------------------------------------------------------------------------
(* NSURLSession, as the delegate sees it.                                  *)

TaskReceives(i) ==
    /\ tasks[i].state = "running" /\ tasks[i].at < Size
    /\ tasks' = [tasks EXCEPT ![i].at = @ + 1]
    /\ UNCHANGED <<resumeData, selected, main, delivered, broken>>

TaskFinishes(i) ==
    /\ tasks[i].state = "running" /\ tasks[i].at = Size
    /\ Become(i, "completed")
    /\ main' = Append(main, FinishBlock)
    /\ UNCHANGED <<resumeData, selected, delivered, broken>>

(* The delegate only prints that.                                          *)
TaskFails(i) ==
    /\ "fail" \in Faults /\ tasks[i].state = "running"
    /\ Become(i, "completed")
    /\ broken' = TRUE
    /\ UNCHANGED <<resumeData, selected, main, delivered>>

CancelEnds(i) ==
    /\ Become(i, "completed")
    /\ \/ /\ tasks[i].state = "stopping"
          /\ UNCHANGED <<main, broken>>
       \/ /\ tasks[i].state = "canceling" /\ tasks[i].at > 0
          /\ main' = Append(main, DataBlock(tasks[i].at))
          /\ UNCHANGED broken
       \/ /\ tasks[i].state = "canceling"
          /\ tasks[i].at = 0 \/ "nothing" \in Faults
          /\ main' = Append(main, DataBlock(NoData))
          /\ broken' = TRUE
    /\ UNCHANGED <<resumeData, selected, delivered>>

-----------------------------------------------------------------------------
(* Mutant of pauseDownload: not while the data of another pause is kept.   *)
CancelsOnce ==
    downloadTask.state \in {"running", "suspended"} /\ resumeData = NoData

Cancels == downloadTask.state \in {"running", "suspended"}

(* loadBtnEvent on a button that is selected: pauseDownload.               *)
PauseDownload ==
    /\ Len(main) < MaxBlocks
    /\ selected /\ selected' = FALSE
    /\ IF Cancels
       THEN Become(Len(tasks), "canceling") /\ UNCHANGED <<main, broken>>
       ELSE \* nothing to cancel: the block gets nothing, or is not called
            /\ main' \in {main, Append(main, DataBlock(NoData))}
            /\ broken' = TRUE
            /\ UNCHANGED tasks
    /\ UNCHANGED <<resumeData, delivered>>

(* Mutant of continueDownload: a pause is taken to suspend the task.       *)
MakesTaskOfSuspended == downloadTask.state = "suspended" /\ resumeData # NoData

MakesTask == downloadTask.state = "completed" /\ resumeData # NoData

(* loadBtnEvent on a button that is not selected: continueDownload.  It    *)
(* comes too early when the pause it ends has not brought its data yet.    *)
ContinueDownload ==
    /\ ~ selected /\ selected' = TRUE
    /\ IF MakesTask
       THEN /\ Len(tasks) < MaxTasks
            /\ tasks' = Append(tasks, [state |-> "running", at |-> resumeData])
       ELSE IF downloadTask.state = "suspended"
       THEN Become(Len(tasks), "running")
       ELSE UNCHANGED tasks
    /\ broken' = (broken \/ DataIsComing \/ downloadTask.state = "canceling")
    /\ UNCHANGED <<resumeData, main, delivered>>

(* cancelBtnEvent: stopDownload.                                           *)
StopDownload ==
    /\ "stop" \in Faults /\ downloadTask.state \in {"running", "suspended"}
    /\ Become(Len(tasks), "stopping")
    /\ broken' = TRUE
    /\ UNCHANGED <<resumeData, selected, main, delivered>>

(* Mutant of the block of pauseDownload: the first data is kept.           *)
KeepFirstData(data) == IF resumeData = NoData THEN data ELSE resumeData

KeepData(data) == data

ResumeDataComes ==
    /\ main # <<>> /\ Head(main).event = "data"
    /\ main' = Tail(main)
    /\ resumeData' = KeepData(Head(main).data)
    /\ UNCHANGED <<tasks, selected, delivered, broken>>

(* didFinishDownloadingToURL: a file already there is left alone.          *)
DidFinishDownloading ==
    /\ main # <<>> /\ Head(main).event = "finish"
    /\ main' = Tail(main)
    /\ delivered' = TRUE
    /\ UNCHANGED <<tasks, resumeData, selected, broken>>

User == PauseDownload \/ ContinueDownload \/ StopDownload
Session ==
    \E i \in DOMAIN tasks :
        TaskReceives(i) \/ TaskFinishes(i) \/ TaskFails(i) \/ CancelEnds(i)
Delegate == ResumeDataComes \/ DidFinishDownloading

Next == User \/ Session \/ Delegate

Spec == Init /\ [][Next]_vars

(* A task that runs goes on, a cancelled one ends, blocks are run.         *)
Fairness == WF_vars(Session) /\ WF_vars(Delegate)
FairSpec == Spec /\ Fairness

-----------------------------------------------------------------------------
(* Properties                                                              *)

(* The types of the variables: a task is made of resume data that is there.*)
TypeOK ==
    /\ tasks \in Seq([state : States, at : 0 .. Size]) /\ tasks # <<>>
    /\ resumeData \in Data
    /\ selected \in BOOLEAN /\ delivered \in BOOLEAN /\ broken \in BOOLEAN
    /\ main \in Seq(Blocks)

(* Only the task that pauseDownload and stopDownload reach can be under    *)
(* way, so a download the button calls paused takes no more data, however  *)
(* the buttons were pressed and the blocks came.                           *)
PausedIsQuiet ==
    \A i \in DOMAIN tasks :
        tasks[i].state = "running" => i = Len(tasks) /\ selected

(* As long as no pause went without resume data and no continue came       *)
(* before it, a continued download starts where the paused one stopped.    *)
ResumesWhereItStopped ==
    [][Len(tasks') > Len(tasks) /\ ~ broken' =>
          tasks'[Len(tasks')].at = downloadTask.at]_vars

(* As long as that is so, a download that the user leaves running gets to  *)
(* the destination.                                                        *)
DownloadIsDelivered == selected ~> delivered \/ ~ selected \/ broken
=============================================================================
