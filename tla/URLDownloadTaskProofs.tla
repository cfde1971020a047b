----------------------- MODULE URLDownloadTaskProofs -----------------------
(***************************************************************************)
(* Theorems about URLDownloadTask, for every size of the resource, every   *)
(* number of tasks and blocks and every set of faults.                     *)
(***************************************************************************)
EXTENDS URLDownloadTask, TLAPS

(* Only the last task made is not over.                                    *)
EarlierAreOver == \A i \in 1 .. Len(tasks) - 1 : tasks[i].state = "completed"

(* As long as nothing is broken: a pause that is still under way ends a    *)
(* download the button calls paused, the resume data on the main queue are *)
(* those of the last task, and once they have come resumeData is.          *)
PauseKeepsPlace ==
    ~ broken =>
        /\ downloadTask.state = "canceling" => ~ selected
        /\ downloadTask.state # "stopping"
        /\ \A k \in DOMAIN main : main[k].event = "data" =>
              /\ main[k].data = downloadTask.at
              /\ downloadTask.state = "completed" /\ ~ selected
        /\ downloadTask.state = "completed" /\ ~ selected /\ ~ DataIsComing =>
              resumeData = downloadTask.at

(* The inductive invariant.                                                *)
IInv == TypeOK /\ EarlierAreOver /\ PausedIsQuiet /\ PauseKeepsPlace

-----------------------------------------------------------------------------
(* The list of tasks and the main queue.                                   *)

Tasks == [state : States, at : 0 .. Size]

(* The task made last has the highest number. *)
LEMMA LastTask ==
    ASSUME TypeOK
    PROVE  /\ Len(tasks) \in Nat \ {0} /\ DOMAIN tasks = 1 .. Len(tasks)
           /\ Len(tasks) \in DOMAIN tasks /\ downloadTask = tasks[Len(tasks)]
           /\ \A i \in DOMAIN tasks : /\ tasks[i] \in Tasks
                                      /\ tasks[i].state \in States /\ tasks[i].at \in 0 .. Size
<1>1. tasks \in Seq(Tasks) /\ tasks # <<>>
  BY DEF TypeOK, Tasks
<1>2. /\ Len(tasks) \in Nat \ {0} /\ DOMAIN tasks = 1 .. Len(tasks)
      /\ \A i \in DOMAIN tasks : tasks[i] \in Tasks
  BY <1>1
<1>3. \A t \in Tasks : t.state \in States /\ t.at \in 0 .. Size
  BY DEF Tasks
<1> QED BY <1>2, <1>3 DEF downloadTask

(* What changing the state or the bytes of one task leaves.                *)
LEMMA BecomeShape ==
    ASSUME TypeOK, NEW i \in DOMAIN tasks, NEW state \in States, Become(i, state)
    PROVE  /\ tasks' \in Seq(Tasks) /\ tasks' # <<>> /\ Len(tasks') = Len(tasks)
           /\ DOMAIN tasks' = DOMAIN tasks
           /\ \A j \in DOMAIN tasks : /\ tasks'[j].at = tasks[j].at
                                      /\ tasks'[j].state = IF j = i THEN state ELSE tasks[j].state
<1>1. tasks' = [tasks EXCEPT ![i] = [tasks[i] EXCEPT !.state = state]]
  BY DEF Become
<1>2. [tasks[i] EXCEPT !.state = state] \in Tasks
  BY LastTask DEF Tasks
<1>3. tasks \in Seq(Tasks) /\ tasks # <<>>
  BY DEF TypeOK, Tasks
<1>4. /\ tasks' \in Seq(Tasks) /\ tasks' # <<>> /\ Len(tasks') = Len(tasks)
      /\ DOMAIN tasks' = DOMAIN tasks
  BY <1>1, <1>2, <1>3
<1>5. \A j \in DOMAIN tasks :
         tasks'[j] = IF j = i THEN [tasks[i] EXCEPT !.state = state] ELSE tasks[j]
  BY <1>1
<1>6. /\ [tasks[i] EXCEPT !.state = state].at = tasks[i].at
      /\ [tasks[i] EXCEPT !.state = state].state = state
  BY LastTask DEF Tasks
<1> QED BY <1>4, <1>5, <1>6

(* A task that takes a byte: its count and nobody else's. *)
LEMMA ReceiveShape ==
    ASSUME TypeOK, NEW i \in DOMAIN tasks, TaskReceives(i)
    PROVE  /\ tasks' \in Seq(Tasks) /\ tasks' # <<>> /\ Len(tasks') = Len(tasks)
           /\ DOMAIN tasks' = DOMAIN tasks
           /\ \A j \in DOMAIN tasks : /\ tasks'[j].state = tasks[j].state
                                      /\ j # i => tasks'[j].at = tasks[j].at
<1> DEFINE new == [tasks[i] EXCEPT !.at = tasks[i].at + 1]
<1>1. tasks' = [tasks EXCEPT ![i] = new] /\ tasks[i].at < Size
  BY DEF TaskReceives
<1>2. new \in Tasks /\ new.state = tasks[i].state
  BY <1>1, LastTask, SizeAssumption DEF Tasks
<1>3. tasks \in Seq(Tasks) /\ tasks # <<>>
  BY DEF TypeOK, Tasks
<1> HIDE DEF new
<1>4. /\ tasks' \in Seq(Tasks) /\ tasks' # <<>> /\ Len(tasks') = Len(tasks)
      /\ DOMAIN tasks' = DOMAIN tasks
  BY <1>1, <1>2, <1>3
<1>5. \A j \in DOMAIN tasks : tasks'[j] = IF j = i THEN new ELSE tasks[j]
  BY <1>1
<1> QED BY <1>2, <1>4, <1>5

(* What each kind of block carries. *)
LEMMA BlockFacts ==
    /\ FinishBlock \in Blocks /\ FinishBlock.event = "finish"
    /\ \A d \in Data : /\ DataBlock(d) \in Blocks /\ DataBlock(d).event = "data"
                       /\ DataBlock(d).data = d
    /\ \A b \in Blocks : b.event = "data" => b.data \in Data
BY DEF Blocks, FinishBlock, DataBlock

(* A block posted to the end of the main queue: length, entries, head. *)
LEMMA AppendShape ==
    ASSUME TypeOK, NEW b \in Blocks
    PROVE  /\ Append(main, b) \in Seq(Blocks)
           /\ \A k \in DOMAIN Append(main, b) :
                 \/ k \in DOMAIN main /\ Append(main, b)[k] = main[k]
                 \/ Append(main, b)[k] = b
           /\ \A k \in DOMAIN main : k \in DOMAIN Append(main, b) /\ Append(main, b)[k] = main[k]
           /\ \E k \in DOMAIN Append(main, b) : Append(main, b)[k] = b
<1>1. main \in Seq(Blocks)
  BY DEF TypeOK
<1>2. /\ Append(main, b) \in Seq(Blocks) /\ Len(main) \in Nat
      /\ DOMAIN main = 1 .. Len(main) /\ DOMAIN Append(main, b) = 1 .. Len(main) + 1
      /\ \A k \in DOMAIN main : Append(main, b)[k] = main[k]
      /\ Append(main, b)[Len(main) + 1] = b
  BY <1>1
<1> QED BY <1>2

(* The main queue without its first block: length and entries. *)
LEMMA TailShape ==
    ASSUME TypeOK, main # <<>>
    PROVE  /\ Tail(main) \in Seq(Blocks)
           /\ 1 \in DOMAIN main /\ Head(main) = main[1] /\ main[1] \in Blocks
           /\ \A k \in DOMAIN Tail(main) : k + 1 \in DOMAIN main /\ Tail(main)[k] = main[k + 1]
           /\ \A k \in DOMAIN main : k # 1 =>
                 k - 1 \in DOMAIN Tail(main) /\ Tail(main)[k - 1] = main[k]
BY DEF TypeOK

-----------------------------------------------------------------------------
(* Types.                                                                  *)

(* Every step keeps the type invariant. *)
LEMMA TypeStep ==
    ASSUME TypeOK, [Next]_vars
    PROVE  TypeOK'
<1> USE BlockFacts, LastTask
<1> USE DEF States
<1>0. /\ tasks \in Seq(Tasks) /\ tasks # <<>> /\ resumeData \in Data /\ main \in Seq(Blocks)
      /\ selected \in BOOLEAN /\ delivered \in BOOLEAN /\ broken \in BOOLEAN
  BY DEF TypeOK, Tasks
<1>1. tasks' \in Seq(Tasks) /\ tasks' # <<>>
  <2>1. CASE UNCHANGED tasks
    BY <1>0, <2>1
  <2>2. ASSUME NEW i \in DOMAIN tasks, NEW state \in States, Become(i, state)
        PROVE  tasks' \in Seq(Tasks) /\ tasks' # <<>>
    BY <2>2, BecomeShape
  <2>3. ASSUME NEW i \in DOMAIN tasks, TaskReceives(i)
        PROVE  tasks' \in Seq(Tasks) /\ tasks' # <<>>
    BY <2>3, ReceiveShape
  <2>4. CASE ContinueDownload
    <3>1. CASE MakesTask
      <4>1. resumeData \in 0 .. Size
        BY <1>0, <3>1 DEF MakesTask, Data
      <4>2. [state |-> "running", at |-> resumeData] \in Tasks
        BY <4>1 DEF Tasks
      <4> QED BY SMTT(30), <1>0, <2>4, <3>1, <4>2 DEF ContinueDownload
    <3>2. CASE ~MakesTask
      BY <1>0, <2>2, <2>4, <3>2 DEF ContinueDownload
    <3> QED BY <3>1, <3>2
  <2>5. CASE Session
    BY <2>2, <2>3, <2>5 DEF Session, TaskFinishes, TaskFails, CancelEnds
  <2>6. CASE PauseDownload \/ StopDownload
    BY <2>1, <2>2, <2>6 DEF PauseDownload, StopDownload
  <2>7. CASE Delegate \/ UNCHANGED vars
    BY <2>1, <2>7 DEF Delegate, ResumeDataComes, DidFinishDownloading, vars
  <2> QED BY <2>4, <2>5, <2>6, <2>7 DEF Next, User
<1>2. main' \in Seq(Blocks)
  <2>1. ASSUME NEW b \in Blocks, main' = Append(main, b)
        PROVE  main' \in Seq(Blocks)
    BY <2>1, AppendShape
  <2>2. CASE UNCHANGED main
    BY <1>0, <2>2
  <2>3. CASE Session
    <3>1. PICK i \in DOMAIN tasks :
             TaskReceives(i) \/ TaskFinishes(i) \/ TaskFails(i) \/ CancelEnds(i)
      BY <2>3 DEF Session
    <3>2. tasks[i].at \in Data /\ NoData \in Data
      BY DEF Data
    <3>3. \/ UNCHANGED main \/ main' = Append(main, FinishBlock)
          \/ main' = Append(main, DataBlock(tasks[i].at)) \/ main' = Append(main, DataBlock(NoData))
      BY <3>1 DEF TaskReceives, TaskFinishes, TaskFails, CancelEnds
    <3> QED BY <2>1, <2>2, <3>2, <3>3
  <2>4. CASE PauseDownload
    <3>1. NoData \in Data
      BY DEF Data
    <3>2. UNCHANGED main \/ main' = Append(main, DataBlock(NoData))
      BY <2>4 DEF PauseDownload
    <3> QED BY <2>1, <2>2, <3>1, <3>2
  <2>5. CASE ContinueDownload \/ StopDownload \/ UNCHANGED vars
    BY <2>2, <2>5 DEF ContinueDownload, StopDownload, vars
  <2>6. CASE Delegate
    BY <2>6, TailShape DEF Delegate, ResumeDataComes, DidFinishDownloading
  <2> QED BY <2>3, <2>4, <2>5, <2>6 DEF Next, User
<1>3. resumeData' \in Data
  <2>1. CASE ResumeDataComes
    BY <2>1, TailShape DEF ResumeDataComes, KeepData
  <2>2. CASE ~ResumeDataComes
    <3>1. UNCHANGED resumeData
      BY <2>2 DEF Next, User, Session, Delegate, PauseDownload, ContinueDownload, StopDownload,
                  TaskReceives, TaskFinishes, TaskFails, CancelEnds, DidFinishDownloading, vars
    <3> QED BY <1>0, <3>1
  <2> QED BY <2>1, <2>2
<1>4. selected' \in BOOLEAN /\ delivered' \in BOOLEAN /\ broken' \in BOOLEAN
  <2>1. CASE User
    BY <1>0, <2>1 DEF User, PauseDownload, ContinueDownload, StopDownload
  <2>2. CASE Session
    BY <1>0, <2>2 DEF Session, TaskReceives, TaskFinishes, TaskFails, CancelEnds
  <2>3. CASE Delegate \/ UNCHANGED vars
    BY <1>0, <2>3 DEF Delegate, ResumeDataComes, DidFinishDownloading, vars
  <2> QED BY <2>1, <2>2, <2>3 DEF Next
<1> QED BY <1>1, <1>2, <1>3, <1>4 DEF TypeOK, Tasks

-----------------------------------------------------------------------------
(* Which task is under way.                                                *)

(* Every step keeps earlier tasks over, and a paused one from running. *)
LEMMA QuietStep ==
    ASSUME TypeOK, EarlierAreOver, PausedIsQuiet, [Next]_vars
    PROVE  EarlierAreOver' /\ PausedIsQuiet'
<1> USE LastTask DEF EarlierAreOver, PausedIsQuiet
<1>1. \A i \in DOMAIN tasks : tasks[i].state # "completed" => i = Len(tasks)
  OBVIOUS
<1>2. ASSUME NEW i \in DOMAIN tasks, NEW state \in States, Become(i, state),
             i # Len(tasks) => state = "completed",
             UNCHANGED selected \/ selected',
             state = "running" => selected'
      PROVE  EarlierAreOver' /\ PausedIsQuiet'
  <2>1. /\ Len(tasks') = Len(tasks) /\ DOMAIN tasks' = DOMAIN tasks
        /\ \A j \in DOMAIN tasks : tasks'[j].state = IF j = i THEN state ELSE tasks[j].state
    BY <1>2, BecomeShape
  <2>2. ASSUME NEW j \in 1 .. Len(tasks') - 1
        PROVE  tasks'[j].state = "completed"
    <3>0. Len(tasks') = Len(tasks) /\ Len(tasks) \in Nat
      BY <2>1
    <3>1. j \in 1 .. Len(tasks) - 1 /\ j # Len(tasks) /\ j \in 1 .. Len(tasks)
      <4> DEFINE n == Len(tasks)
      <4>1. j \in 1 .. n - 1 /\ n \in Nat
        BY <3>0
      <4> HIDE DEF n
      <4>2. j # n /\ j \in 1 .. n
        BY <4>1
      <4> QED BY <4>1, <4>2 DEF n
    <3>2. j \in DOMAIN tasks /\ tasks[j].state = "completed"
      BY <3>1
    <3> QED BY <1>2, <2>1, <3>1, <3>2
  <2>3. ASSUME NEW j \in DOMAIN tasks', tasks'[j].state = "running"
        PROVE  j = Len(tasks') /\ selected'
    <3>1. CASE j = i
      BY <1>2, <2>1, <2>3, <3>1
    <3>2. CASE j # i
      BY <1>2, <2>1, <2>3, <3>2
    <3> QED BY <3>1, <3>2
  <2> QED BY <2>2, <2>3
<1>3. ASSUME UNCHANGED <<tasks, selected>>
      PROVE  EarlierAreOver' /\ PausedIsQuiet'
  BY <1>3
<1>4. CASE PauseDownload
  <2>1. selected' = FALSE
    BY <1>4 DEF PauseDownload
  <2>2. CASE Cancels
    <3>1. Become(Len(tasks), "canceling") /\ "canceling" \in States
      BY <1>4, <2>2 DEF PauseDownload, States
    <3> QED BY SMTT(30), <1>1, <2>1, <3>1, BecomeShape
  <2>3. CASE ~Cancels
    <3>1. UNCHANGED tasks /\ downloadTask.state # "running"
      BY <1>4, <2>3 DEF PauseDownload, Cancels
    <3> QED BY <1>1, <3>1
  <2> QED BY <2>2, <2>3
<1>5. CASE ContinueDownload
  <2>1. selected' = TRUE
    BY <1>5 DEF ContinueDownload
  <2>2. CASE MakesTask
    <3> DEFINE new == [state |-> "running", at |-> resumeData]
    <3>1. tasks' = Append(tasks, new) /\ downloadTask.state = "completed"
      BY <1>5, <2>2 DEF ContinueDownload, MakesTask
    <3> HIDE DEF new
    <3>2. /\ Len(tasks') = Len(tasks) + 1 /\ DOMAIN tasks' = 1 .. Len(tasks) + 1
          /\ \A i \in DOMAIN tasks : tasks'[i] = tasks[i]
      BY <3>1 DEF TypeOK
    <3>3. \A i \in DOMAIN tasks : tasks[i].state = "completed"
      BY <1>1, <3>1
    <3> QED BY <2>1, <3>2, <3>3
  <2>3. CASE ~MakesTask
    <3>1. UNCHANGED tasks \/ Become(Len(tasks), "running")
      BY <1>5, <2>3 DEF ContinueDownload
    <3>2. "running" \in States
      BY DEF States
    <3> QED BY <1>2, <2>1, <3>1, <3>2
  <2> QED BY <2>2, <2>3
<1>6. CASE StopDownload
  <2>1. Become(Len(tasks), "stopping") /\ UNCHANGED selected /\ "stopping" \in States
    BY <1>6 DEF StopDownload, States
  <2> QED BY <1>2, <2>1
<1>7. CASE Session
  <2>1. PICK i \in DOMAIN tasks :
           TaskReceives(i) \/ TaskFinishes(i) \/ TaskFails(i) \/ CancelEnds(i)
    BY <1>7 DEF Session
  <2>2. UNCHANGED selected
    BY <2>1 DEF TaskReceives, TaskFinishes, TaskFails, CancelEnds
  <2>3. CASE TaskReceives(i)
    <3>1. /\ Len(tasks') = Len(tasks) /\ DOMAIN tasks' = DOMAIN tasks
          /\ \A j \in DOMAIN tasks : tasks'[j].state = tasks[j].state
      BY <2>3, ReceiveShape
    <3> QED BY <2>2, <3>1
  <2>4. CASE ~TaskReceives(i)
    <3>1. Become(i, "completed") /\ "completed" \in States
      BY <2>1, <2>4 DEF TaskFinishes, TaskFails, CancelEnds, States
    <3> QED BY <1>2, <2>2, <3>1
  <2> QED BY <2>3, <2>4
<1>8. CASE Delegate \/ UNCHANGED vars
  BY <1>3, <1>8 DEF Delegate, ResumeDataComes, DidFinishDownloading, vars
<1> QED BY <1>4, <1>5, <1>6, <1>7, <1>8 DEF Next, User

-----------------------------------------------------------------------------
(* The place of a pause.                                                   *)

(* Every step keeps the place a download goes on from. *)
LEMMA PlaceStep ==
    ASSUME TypeOK, EarlierAreOver, PausedIsQuiet, PauseKeepsPlace, [Next]_vars
    PROVE  PauseKeepsPlace'
<1> SUFFICES ASSUME ~ broken'
             PROVE  PauseKeepsPlace'
  BY DEF PauseKeepsPlace
<1>0. ~ broken
  BY DEF Next, User, PauseDownload, ContinueDownload, StopDownload, Session, TaskReceives,
         TaskFinishes, TaskFails, CancelEnds, Delegate, ResumeDataComes, DidFinishDownloading, vars
<1> USE <1>0, LastTask, BlockFacts DEF PauseKeepsPlace, DataIsComing
<1>1. downloadTask.state = "running" => selected
  BY DEF PausedIsQuiet
<1>2. selected => \A k \in DOMAIN main : main[k].event # "data"
  OBVIOUS
<1>3. ASSUME NEW state \in States, Become(Len(tasks), state)
      PROVE  downloadTask'.state = state /\ downloadTask'.at = downloadTask.at
  BY <1>3, BecomeShape DEF downloadTask
<1>4. CASE PauseDownload
  <2>1. Cancels /\ Become(Len(tasks), "canceling") /\ UNCHANGED main /\ selected /\ ~ selected'
    BY <1>4 DEF PauseDownload
  <2>2. downloadTask'.state = "canceling"
    BY <1>3, <2>1 DEF States
  <2> QED BY <1>2, <2>1, <2>2
<1>5. CASE ContinueDownload
  <2>1. selected' /\ UNCHANGED main /\ ~DataIsComing /\ downloadTask.state # "canceling"
    BY <1>5 DEF ContinueDownload
  <2>2. downloadTask'.state \notin {"canceling", "stopping"}
    <3>1. CASE MakesTask
      <4> DEFINE new == [state |-> "running", at |-> resumeData]
      <4>1. tasks' = Append(tasks, new) /\ new.state = "running"
        BY <1>5, <3>1 DEF ContinueDownload
      <4> HIDE DEF new
      <4>2. tasks'[Len(tasks')] = new
        BY <4>1 DEF TypeOK
      <4> QED BY <4>1, <4>2 DEF downloadTask
    <3>2. CASE ~MakesTask
      <4>1. CASE Become(Len(tasks), "running")
        BY <1>3, <4>1 DEF States
      <4>2. CASE UNCHANGED tasks
        BY <2>1, <4>2 DEF downloadTask
      <4> QED BY <1>5, <3>2, <4>1, <4>2 DEF ContinueDownload
    <3> QED BY <3>1, <3>2
  <2> QED BY <2>1, <2>2
<1>6. CASE StopDownload
  BY <1>6 DEF StopDownload
<1>7. CASE Session
  <2>1. PICK i \in DOMAIN tasks :
           TaskReceives(i) \/ TaskFinishes(i) \/ TaskFails(i) \/ CancelEnds(i)
    BY <1>7 DEF Session
  <2>2. UNCHANGED <<selected, resumeData>>
    BY <2>1 DEF TaskReceives, TaskFinishes, TaskFails, CancelEnds
  <2>3. i = Len(tasks)
    <3>1. tasks[i].state # "completed"
      BY <2>1 DEF TaskReceives, TaskFinishes, TaskFails, CancelEnds
    <3> QED BY <3>1 DEF EarlierAreOver
  <2>4. CASE TaskReceives(i)
    <3>1. tasks[i].state = "running" /\ UNCHANGED main
      BY <2>4 DEF TaskReceives
    <3>2. downloadTask'.state = "running"
      BY <2>3, <2>4, <3>1, ReceiveShape DEF downloadTask
    <3> QED BY <1>1, <1>2, <2>2, <2>3, <3>1, <3>2
  <2>5. CASE TaskFinishes(i)
    <3>1. selected /\ main' = Append(main, FinishBlock)
      BY <1>1, <2>3, <2>5 DEF TaskFinishes
    <3>2. downloadTask'.state = "completed"
      BY <1>3, <2>3, <2>5 DEF TaskFinishes, States
    <3>3. \A k \in DOMAIN main' : main'[k].event # "data"
      BY <1>2, <3>1, AppendShape
    <3> QED BY <2>2, <3>1, <3>2, <3>3
  <2>6. CASE TaskFails(i)
    BY <2>6 DEF TaskFails
  <2>7. CASE CancelEnds(i)
    <3>1. /\ tasks[i].state = "canceling" /\ main' = Append(main, DataBlock(tasks[i].at))
          /\ Become(i, "completed")
      BY <2>3, <2>7 DEF CancelEnds
    <3>2. downloadTask'.state = "completed" /\ downloadTask'.at = downloadTask.at
      BY <1>3, <2>3, <3>1 DEF States
    <3>3. tasks[i].at = downloadTask.at /\ downloadTask.at \in Data
      BY <2>3 DEF Data
    <3>4. ~ selected /\ \A k \in DOMAIN main : main[k].event # "data"
      BY <2>3, <3>1
    <3>5. \A k \in DOMAIN main' : main'[k].event = "data" => main'[k].data = downloadTask.at
      BY <3>1, <3>3, <3>4, AppendShape
    <3>6. DataIsComing'
      BY SMTT(30), <3>1, <3>3, AppendShape
    <3> QED BY <2>2, <3>2, <3>4, <3>5, <3>6
  <2> QED BY <2>1, <2>4, <2>5, <2>6, <2>7
<1>8. CASE ResumeDataComes
  <2>1. /\ main # <<>> /\ main[1].event = "data" /\ main' = Tail(main) /\ 1 \in DOMAIN main
        /\ resumeData' = main[1].data /\ UNCHANGED <<tasks, selected>>
    BY <1>8, TailShape DEF ResumeDataComes, KeepData
  <2>2. resumeData' = downloadTask.at /\ UNCHANGED downloadTask
    BY <2>1 DEF downloadTask
  <2> QED BY <2>1, <2>2, TailShape
<1>9. CASE DidFinishDownloading
  <2>1. /\ main # <<>> /\ main[1].event = "finish" /\ main' = Tail(main)
        /\ UNCHANGED <<tasks, selected, resumeData>>
    BY <1>9, TailShape DEF DidFinishDownloading
  <2>2. UNCHANGED downloadTask
    BY <2>1 DEF downloadTask
  <2>3. DataIsComing => DataIsComing'
    <3> SUFFICES ASSUME NEW k \in DOMAIN main, main[k].event = "data"
                 PROVE  DataIsComing'
      OBVIOUS
    <3>1. k - 1 \in DOMAIN main' /\ main'[k - 1] = main[k]
      BY <2>1, TailShape
    <3> QED BY <3>1
  <2> QED BY <2>1, <2>2, <2>3, TailShape
<1>10. CASE UNCHANGED vars
  BY <1>10 DEF vars, downloadTask
<1> QED BY <1>4, <1>5, <1>6, <1>7, <1>8, <1>9, <1>10 DEF Next, User, Delegate

-----------------------------------------------------------------------------
(* The theorems.                                                           *)

(* The screen has opened and nothing has been asked for.                   *)
LEMMA InitInv == Init => IInv
<1> SUFFICES ASSUME Init PROVE IInv
  OBVIOUS
<1> USE SizeAssumption DEF Init
<1> DEFINE first == [state |-> "suspended", at |-> 0]
<1>1. first \in [state : States, at : 0 .. Size] /\ first.state = "suspended"
  BY DEF States
<1>2. tasks = <<first>>
  OBVIOUS
<1> HIDE DEF first
<1>3. /\ tasks \in Seq([state : States, at : 0 .. Size]) /\ tasks # <<>>
      /\ Len(tasks) = 1 /\ DOMAIN tasks = {1} /\ tasks[1] = first
  BY <1>1, <1>2
<1>4. TypeOK
  <2>1. resumeData \in Data /\ main \in Seq(Blocks)
    BY DEF Data
  <2>2. selected \in BOOLEAN /\ delivered \in BOOLEAN /\ broken \in BOOLEAN
    OBVIOUS
  <2> QED BY <1>3, <2>1, <2>2 DEF TypeOK
<1>5. EarlierAreOver /\ PausedIsQuiet /\ PauseKeepsPlace
  BY <1>1, <1>3 DEF EarlierAreOver, PausedIsQuiet, PauseKeepsPlace, downloadTask
<1> QED BY <1>4, <1>5 DEF IInv

(* The inductive invariant holds in every reachable state of the task and its screen. *)
THEOREM Inductive == Spec => []IInv
<1>1. IInv /\ [Next]_vars => IInv'
  BY TypeStep, QuietStep, PlaceStep DEF IInv
<1> QED BY InitInv, <1>1, PTL DEF Spec

(* Every variable keeps its type: a task is only ever made of resume data  *)
(* that are there (TypeOK, URLDownloadTask.m).                             *)
THEOREM TypeCorrect == Spec => []TypeOK
<1>1. IInv => TypeOK
  BY DEF IInv
<1> QED BY Inductive, <1>1, PTL

(* A download the button calls paused takes no data, however the buttons   *)
(* were pressed, tasks failed and blocks came (pauseDownload,              *)
(* continueDownload, stopDownload).                                        *)
THEOREM Quiet == Spec => []PausedIsQuiet
<1>1. IInv => PausedIsQuiet
  BY DEF IInv
<1> QED BY Inductive, <1>1, PTL

(* A task made to continue starts at the byte where the paused one         *)
(* stopped, as long as every pause brought its resume data before the next *)
(* continue (pauseDownload's block, continueDownload).                     *)
THEOREM SamePlace == Spec => ResumesWhereItStopped
<1>1. IInv /\ [Next]_vars =>
         [Len(tasks') > Len(tasks) /\ ~ broken' => tasks'[Len(tasks')].at = downloadTask.at]_vars
  <2> SUFFICES ASSUME IInv, Next, Len(tasks') > Len(tasks), ~ broken'
               PROVE  tasks'[Len(tasks')].at = downloadTask.at
    OBVIOUS
  <2> USE LastTask DEF IInv
  <2>1. ASSUME NEW i \in DOMAIN tasks, NEW state \in States, Become(i, state)
        PROVE  FALSE
    BY <2>1, BecomeShape
  <2>2. tasks' # tasks
    OBVIOUS
  <2>3. ContinueDownload
    <3>1. CASE PauseDownload \/ StopDownload
      BY <2>1, <2>2, <3>1 DEF PauseDownload, StopDownload, States
    <3>2. CASE Session
      <4>1. PICK i \in DOMAIN tasks :
               TaskReceives(i) \/ TaskFinishes(i) \/ TaskFails(i) \/ CancelEnds(i)
        BY <3>2 DEF Session
      <4>2. ~TaskReceives(i)
        BY ReceiveShape
      <4> QED BY <2>1, <4>1, <4>2 DEF TaskFinishes, TaskFails, CancelEnds, States
    <3>3. CASE Delegate
      BY <2>2, <3>3 DEF Delegate, ResumeDataComes, DidFinishDownloading
    <3> QED BY <3>1, <3>2, <3>3 DEF Next, User
  <2>4. MakesTask
    BY <2>1, <2>2, <2>3 DEF ContinueDownload, States
  <2>5. resumeData = downloadTask.at
    BY <2>3, <2>4 DEF ContinueDownload, MakesTask, PauseKeepsPlace
  <2> DEFINE new == [state |-> "running", at |-> resumeData]
  <2>6. tasks' = Append(tasks, new) /\ new.at = resumeData
    BY <2>3, <2>4 DEF ContinueDownload
  <2> HIDE DEF new
  <2>7. tasks'[Len(tasks')] = new
    BY <2>6 DEF TypeOK
  <2> QED BY <2>5, <2>6, <2>7
<1> QED BY Inductive, <1>1, PTL DEF Spec, ResumesWhereItStopped
=============================================================================
