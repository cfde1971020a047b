------------------------ MODULE ResidentThreadProofs ------------------------
(***************************************************************************)
(* Theorems about ResidentThread, for every set of pushing threads, every  *)
(* set of action numbers and every number of pushes.                       *)
(***************************************************************************)
EXTENDS ResidentThread, FiniteSetTheorems, WellFoundedInduction, TLAPS

PusherLabels == {"idle", "test", "signal", "increment", "up"}

(* The labels of the worker between an action carried out and the next     *)
(* look at cancelAction.                                                   *)
AfterAction == {"actionWillDo", "test", "signal", "increment", "up", "loop", "ended"}

(* Where the threads may be, and what is known there.                      *)
Control ==
    /\ \A p \in Pushers : pc[p] \in PusherLabels
    /\ pc[Worker] # "idle"
    /\ pc[Worker] = "act" => minAction \in Actions
    /\ pc[Worker] = "ended" \/ cancelling => cancelAction

(* The threads that have signalled and not yet counted it, and the one the *)
(* worker has taken and not yet counted.                                   *)
Pending == {t \in Threads : pc[t] \in {"increment", "up"}}
Taken == IF pc[Worker] \in {"decrement", "down"} THEN 1 ELSE 0

(* What the counter may be: every thread that still has to count a signal  *)
(* keeps it one lower.                                                     *)
Room == sem + Taken - Cardinality(Pending)

Counted ==
    /\ IsFiniteSet(Pending)
    /\ ~lost /\ ~cancelAction =>
         /\ semaphoreCount <= Room
         /\ \A t \in Threads : pc[t] \in {"up", "down"} => read[t] <= Room

(* An action carried out after a cancel is followed by a look at the flag. *)
Cancelled ==
    /\ ~cancelAction => late = 0
    /\ late <= 1
    /\ late = 1 => pc[Worker] \in AfterAction

(* What has been carried out lies below currentIndex, and a wait that is   *)
(* over has been a whole one.                                              *)
Progress ==
    /\ \A b \in ran : b <= currentIndex
    /\ cancelAction => ran = {}
    /\ isNeedRefreshDirectly /\ ~cancelAction => waited

(* The inductive invariant.                                                *)
IInv == TypeOK /\ Control /\ Counted /\ Cancelled /\ Progress

-----------------------------------------------------------------------------
(* A set of natural numbers that is not empty has a least element.         *)
LEMMA MinIsThere ==
    ASSUME NEW S, S \subseteq Nat, S # {}
    PROVE  Min(S) \in S /\ \A y \in S : Min(S) <= y
<1>1. PICK x \in S : \A y \in S : ~ (<<y, x>> \in OpToRel(<, Nat))
  BY NatLessThanWellFounded, WFMin
<1>2. \A y \in S : x <= y
  <2> SUFFICES ASSUME NEW y \in S
               PROVE  x <= y
    OBVIOUS
  <2>1. x \in Nat /\ y \in Nat
    OBVIOUS
  <2>2. ~ (<<y, x>> \in OpToRel(<, Nat))
    BY <1>1
  <2>3. ~ (y < x)
    BY <2>1, <2>2 DEF OpToRel
  <2> QED BY <2>1, <2>3
<1> QED BY <1>1, <1>2 DEF Min

(* The worker is a thread and no pusher; actions are positive numbers. *)
LEMMA ThreadSets ==
    /\ Worker \in Threads /\ Worker \notin Pushers
    /\ \A p \in Pushers : p \in Threads /\ p # Worker
    /\ \A t \in Threads : t # Worker => t \in Pushers
    /\ Actions \subseteq Nat \ {0}
    /\ MaxPushes \in Nat
BY ConstantsAssumption DEF Threads
-----------------------------------------------------------------------------
(* Types and places.                                                       *)

(* Where start leaves the worker: where it is, unless it has ended or      *)
(* waits.                                                                  *)
LEMMA PlaceAfterStart ==
    ASSUME TypeOK, Control
    PROVE  /\ ThreadAfterStart \in Labels /\ ThreadAfterStart \notin {"idle", "ended"}
           /\ ThreadAfterStart = "act" => pc[Worker] = "act"
           /\ pc[Worker] \in AfterAction => ThreadAfterStart \in AfterAction
<1>1. sem = 0 \/ sem > 0
  BY DEF TypeOK
<1>2. pc[Worker] \in Labels /\ pc[Worker] # "idle"
  BY ThreadSets DEF TypeOK, Control
<1> USE DEF ThreadAfterStart, Labels, AfterAction
<1>3. CASE pc[Worker] = "ended"
  BY <1>3
<1>4. CASE pc[Worker] = "wait"
  BY <1>1, <1>4
<1>5. CASE pc[Worker] \notin {"ended", "wait"}
  <2>1. ThreadAfterStart = pc[Worker]
    BY <1>5
  <2> QED BY <1>2, <1>5, <2>1
<1> QED BY <1>3, <1>4, <1>5

(* Every step keeps the type invariant. *)
LEMMA TypeStep ==
    ASSUME TypeOK, Control, [Next]_vars
    PROVE  TypeOK' /\ Control'
<1> USE ThreadSets DEF TypeOK, Control, semaphoreVars, indexVars, cancelVars,
        localVars, historyVars
<1> USE DEF Labels, PusherLabels
<1>1. CASE UNCHANGED vars
  BY <1>1 DEF vars
<1>2. ASSUME NEW t \in Threads, SemaphoreCountAdd(t)
      PROVE  TypeOK' /\ Control'
  <2>1. CASE TestCount(t)
    BY <2>1 DEF TestCount, Return, Goto, OnlySemaphore
  <2>2. CASE Signal(t)
    BY <2>2 DEF Signal, Goto, OnlySemaphore
  <2>3. CASE ReadCount(t)
    BY <2>3 DEF ReadCount, Goto, OnlySemaphore
  <2>4. CASE CountUp(t)
    BY <2>4 DEF CountUp, Return, Goto, OnlySemaphore
  <2> QED BY <1>2, <2>1, <2>2, <2>3, <2>4 DEF SemaphoreCountAdd
<1>3. ASSUME NEW p \in Pushers, NEW a \in Actions, PushAction(p, a)
      PROVE  TypeOK' /\ Control'
  BY <1>3 DEF PushAction, Goto
<1>4. CASE Run
  BY <1>4 DEF Run, RunUnless, WorkerGoes, Goto
<1>5. CASE WaitDuration
  BY <1>5 DEF WaitDuration, WaitDurationIs, WorkerGoes, Goto
<1>6. CASE WaitReturns
  <2> USE DEF WaitReturns, Goto
  <2>1. /\ currentIndex' \in Actions \cup {-1} /\ minAction' \in Actions \cup {0}
        /\ actions' \subseteq Actions /\ ran' \subseteq Actions
    BY <1>6
  <2>2. /\ semaphoreCount' \in Int /\ sem' \in Nat /\ pushes' \in Nat /\ late' \in Nat
        /\ read' \in [Threads -> Int]
    BY <1>6
  <2>3. pc' \in [Threads -> Labels] /\ Control'
    BY <1>6
  <2>4. /\ isNeedRefreshDirectly' \in BOOLEAN /\ timer' \in BOOLEAN
        /\ cancelAction' \in BOOLEAN /\ cancelling' \in BOOLEAN /\ timed' \in BOOLEAN
        /\ waited' \in BOOLEAN /\ lost' \in BOOLEAN
    BY <1>6
  <2> QED BY <2>1, <2>2, <2>3, <2>4
<1>7. CASE WaitTimesOut
  BY <1>7 DEF WaitTimesOut, WorkerGoes, Goto
<1>8. CASE DoAction
  BY <1>8 DEF DoAction, WorkerGoes, Goto
<1>9. CASE PickAction
  BY <1>9, MinIsThere DEF PickAction, WorkerGoes, Goto
<1>10. CASE PickRaises
  BY <1>10 DEF PickRaises, WorkerGoes, Goto
<1>11. CASE CarryOut
  <2> USE DEF CarryOut, CarryOutIf, TakeOut, Goto
  <2>1. /\ currentIndex' \in Actions \cup {-1} /\ minAction' \in Actions \cup {0}
        /\ actions' \subseteq Actions /\ ran' \subseteq Actions
    BY <1>11
  <2>2. /\ semaphoreCount' \in Int /\ sem' \in Nat /\ pushes' \in Nat /\ late' \in Nat
        /\ read' \in [Threads -> Int]
    BY <1>11
  <2>3. pc' \in [Threads -> Labels] /\ Control'
    BY <1>11
  <2>4. /\ isNeedRefreshDirectly' \in BOOLEAN /\ timer' \in BOOLEAN
        /\ cancelAction' \in BOOLEAN /\ cancelling' \in BOOLEAN /\ timed' \in BOOLEAN
        /\ waited' \in BOOLEAN /\ lost' \in BOOLEAN
    BY <1>11
  <2> QED BY <2>1, <2>2, <2>3, <2>4
<1>12. CASE Discard
  BY <1>12 DEF Discard, TakeOut, Goto
<1>13. CASE ActionWillDo
  BY <1>13 DEF ActionWillDo, WorkerGoes, Goto
<1>14. CASE StartTimer
  BY <1>14 DEF StartTimer, Goto
<1>15. CASE TimerFire
  BY <1>15 DEF TimerFire, Goto
<1>16. CASE RunLoopEnds
  BY <1>16 DEF RunLoopEnds, WorkerGoes, Goto
<1>17. CASE Cancel
  <2> USE DEF Cancel
  <2>1. /\ currentIndex' \in Actions \cup {-1} /\ minAction' \in Actions \cup {0}
        /\ actions' \subseteq Actions /\ ran' \subseteq Actions
    BY <1>17
  <2>2. /\ semaphoreCount' \in Int /\ sem' \in Nat /\ pushes' \in Nat /\ late' \in Nat
        /\ read' \in [Threads -> Int]
    BY <1>17
  <2>3. pc' \in [Threads -> Labels] /\ Control'
    BY <1>17
  <2>4. /\ isNeedRefreshDirectly' \in BOOLEAN /\ timer' \in BOOLEAN
        /\ cancelAction' \in BOOLEAN /\ cancelling' \in BOOLEAN /\ timed' \in BOOLEAN
        /\ waited' \in BOOLEAN /\ lost' \in BOOLEAN
    BY <1>17
  <2> QED BY <2>1, <2>2, <2>3, <2>4
<1>18. CASE CancelEmpties
  BY <1>18 DEF CancelEmpties
<1>19. CASE Start
  <2> USE PlaceAfterStart DEF Start, Goto
  <2>1. /\ currentIndex' \in Actions \cup {-1} /\ minAction' \in Actions \cup {0}
        /\ actions' \subseteq Actions /\ ran' \subseteq Actions
    BY <1>19
  <2>2. /\ semaphoreCount' \in Int /\ sem' \in Nat /\ pushes' \in Nat /\ late' \in Nat
        /\ read' \in [Threads -> Int]
    BY <1>19
  <2>3. pc' \in [Threads -> Labels] /\ Control'
    BY <1>19
  <2>4. /\ isNeedRefreshDirectly' \in BOOLEAN /\ timer' \in BOOLEAN
        /\ cancelAction' \in BOOLEAN /\ cancelling' \in BOOLEAN /\ timed' \in BOOLEAN
        /\ waited' \in BOOLEAN /\ lost' \in BOOLEAN
    BY <1>19
  <2> QED BY <2>1, <2>2, <2>3, <2>4
<1>20. CASE CountDown
  BY <1>20 DEF CountDown, CountDownBy, Goto, OnlySemaphore
<1> QED BY <1>1, <1>2, <1>3, <1>4, <1>5, <1>6, <1>7, <1>8, <1>9, <1>10, <1>11, <1>12, <1>13, <1>14, <1>15, <1>16, <1>17, <1>18, <1>19, <1>20
       DEF Next, WorkerStep
-----------------------------------------------------------------------------
(* The counter.                                                            *)

(* What a step of one thread does to the threads that still have to count. *)
LEMMA PendingStep ==
    ASSUME TypeOK, IsFiniteSet(Pending), NEW t \in Threads, NEW label \in Labels,
           pc' = [pc EXCEPT ![t] = label]
    PROVE  /\ IsFiniteSet(Pending') /\ Cardinality(Pending) \in Nat
           /\ Cardinality(Pending') = Cardinality(Pending)
                + (IF label \in {"increment", "up"} THEN 1 ELSE 0)
                - (IF pc[t] \in {"increment", "up"} THEN 1 ELSE 0)
<1>1. \A u \in Threads : pc'[u] = IF u = t THEN label ELSE pc[u]
  BY DEF TypeOK
<1>2. Cardinality(Pending) \in Nat
  BY FS_CardinalityType
<1>3. CASE label \in {"increment", "up"} /\ pc[t] \notin {"increment", "up"}
  <2>1. Pending' = Pending \cup {t} /\ t \notin Pending
    BY <1>1, <1>3 DEF Pending
  <2> QED BY <1>2, <1>3, <2>1, FS_AddElement
<1>4. CASE label \notin {"increment", "up"} /\ pc[t] \in {"increment", "up"}
  <2>1. Pending' = Pending \ {t} /\ t \in Pending
    BY <1>1, <1>4 DEF Pending
  <2> QED BY <1>2, <1>4, <2>1, FS_RemoveElement
<1>5. CASE label \in {"increment", "up"} <=> pc[t] \in {"increment", "up"}
  <2>1. Pending' = Pending
    BY <1>1, <1>5 DEF Pending
  <2> QED BY <1>2, <1>5, <2>1
<1> QED BY <1>3, <1>4, <1>5

(* A step that moves one thread between places where it has nothing to     *)
(* count, or moves none, and leaves the counter alone.                     *)
LEMMA CountedByOthers ==
    ASSUME TypeOK, Control, Counted,
           UNCHANGED <<semaphoreVars, read, lost, cancelAction>>,
           \/ UNCHANGED pc
           \/ \E t \in Threads, label \in Labels :
                 /\ pc' = [pc EXCEPT ![t] = label]
                 /\ {pc[t], label} \cap {"increment", "up", "decrement", "down"} = {}
    PROVE  Counted'
<1> USE DEF semaphoreVars
<1>1. CASE UNCHANGED pc
  <2>1. UNCHANGED <<Pending, Taken>>
    BY <1>1 DEF Pending, Taken
  <2> QED BY <1>1, <2>1 DEF Counted, Room
<1>2. ASSUME NEW t \in Threads, NEW label \in Labels,
             pc' = [pc EXCEPT ![t] = label],
             {pc[t], label} \cap {"increment", "up", "decrement", "down"} = {}
      PROVE  Counted'
  <2>1. \A u \in Threads : pc'[u] = IF u = t THEN label ELSE pc[u]
    BY <1>2 DEF TypeOK
  <2>2. Pending' = Pending /\ Taken' = Taken
    BY <1>2, <2>1, ThreadSets DEF Pending, Taken
  <2>3. \A u \in Threads : pc'[u] \in {"up", "down"} => pc[u] \in {"up", "down"}
    BY <1>2, <2>1
  <2> QED BY <1>2, <2>2, <2>3 DEF Counted, Room
<1> QED BY <1>1, <1>2

(* The steps that change the bound, or what a thread will write.           *)
LEMMA CountedBySignal ==
    ASSUME TypeOK, Control, Counted, NEW t \in Threads, Signal(t)
    PROVE  Counted'
<1>1. /\ pc' = [pc EXCEPT ![t] = "increment"] /\ pc[t] = "signal"
      /\ sem' = sem + 1 /\ UNCHANGED <<semaphoreCount, read, lost, cancelAction>>
  BY DEF Signal, Goto, OnlySemaphore, cancelVars
<1>2. \A u \in Threads : pc'[u] = IF u = t THEN "increment" ELSE pc[u]
  BY <1>1 DEF TypeOK
<1>3. /\ IsFiniteSet(Pending') /\ Cardinality(Pending) \in Nat
      /\ Cardinality(Pending') = Cardinality(Pending) + 1
  <2>1. "increment" \in Labels /\ IsFiniteSet(Pending)
    BY DEF Labels, Counted
  <2>2. /\ IsFiniteSet(Pending') /\ Cardinality(Pending) \in Nat
        /\ Cardinality(Pending') = Cardinality(Pending)
             + (IF "increment" \in {"increment", "up"} THEN 1 ELSE 0)
             - (IF pc[t] \in {"increment", "up"} THEN 1 ELSE 0)
    BY <1>1, <2>1, PendingStep
  <2> QED BY <1>1, <2>2
<1>4. Taken' = Taken /\ Taken \in Nat
  BY <1>1, <1>2, ThreadSets DEF Taken
<1>5. Room' = Room
  BY <1>1, <1>3, <1>4 DEF Room, TypeOK
<1> QED BY <1>1, <1>2, <1>3, <1>5 DEF Counted

(* Reading the counter keeps it covered. *)
LEMMA CountedByRead ==
    ASSUME TypeOK, Control, Counted, NEW t \in Threads, ReadCount(t)
    PROVE  Counted'
<1> DEFINE label == IF pc[t] = "increment" THEN "up" ELSE "down"
<1>1. /\ pc' = [pc EXCEPT ![t] = label] /\ pc[t] \in {"increment", "decrement"}
      /\ read' = [read EXCEPT ![t] = semaphoreCount]
      /\ UNCHANGED <<semaphoreCount, sem, lost, cancelAction>>
  BY DEF ReadCount, Goto, OnlySemaphore, cancelVars, semaphoreVars
<1>2. \A u \in Threads : pc'[u] = IF u = t THEN label ELSE pc[u]
  BY <1>1 DEF TypeOK
<1>3. Pending' = Pending
  BY <1>1, <1>2 DEF Pending
<1>4. pc[t] = "decrement" => t = Worker
  BY ThreadSets DEF Control, PusherLabels
<1>5. Taken' = Taken
  BY <1>1, <1>2, <1>4, ThreadSets DEF Taken
<1>6. Room' = Room
  BY <1>1, <1>3, <1>5 DEF Room
<1>7. \A u \in Threads : read'[u] = IF u = t THEN semaphoreCount ELSE read[u]
  BY <1>1 DEF TypeOK
<1> QED BY <1>1, <1>2, <1>3, <1>6, <1>7 DEF Counted

(* A push that writes the counter keeps it covered. *)
LEMMA CountedByCountUp ==
    ASSUME TypeOK, Control, Counted, NEW t \in Threads, CountUp(t)
    PROVE  Counted'
<1> DEFINE label == IF t = Worker THEN "loop" ELSE "idle"
<1>1. /\ pc' = [pc EXCEPT ![t] = label] /\ pc[t] = "up"
      /\ semaphoreCount' = read[t] + 1
      /\ read' = [read EXCEPT ![t] = 0]
      /\ UNCHANGED <<sem, lost, cancelAction>>
  BY DEF CountUp, Return, Goto, OnlySemaphore, cancelVars
<1>2. \A u \in Threads : pc'[u] = IF u = t THEN label ELSE pc[u]
  BY <1>1 DEF TypeOK
<1>3. /\ IsFiniteSet(Pending') /\ Cardinality(Pending) \in Nat
      /\ Cardinality(Pending') = Cardinality(Pending) - 1
  <2>1. label \in Labels /\ IsFiniteSet(Pending)
    BY DEF Labels, Counted
  <2>2. /\ IsFiniteSet(Pending') /\ Cardinality(Pending) \in Nat
        /\ Cardinality(Pending') = Cardinality(Pending)
             + (IF label \in {"increment", "up"} THEN 1 ELSE 0)
             - (IF pc[t] \in {"increment", "up"} THEN 1 ELSE 0)
    BY <1>1, <2>1, PendingStep
  <2> QED BY <1>1, <2>2
<1>4. Taken' = Taken /\ Taken \in Nat
  BY <1>1, <1>2, ThreadSets DEF Taken
<1>5. Room' = Room + 1 /\ Room \in Int
  BY <1>1, <1>3, <1>4 DEF Room, TypeOK
<1>6. \A u \in Threads : read'[u] = (IF u = t THEN 0 ELSE read[u]) /\ read[u] \in Int
  BY <1>1 DEF TypeOK
<1> HIDE DEF label
<1>7. CASE lost \/ cancelAction
  BY <1>1, <1>3, <1>7 DEF Counted
<1>8. CASE ~lost /\ ~cancelAction
  <2>1. semaphoreCount' <= Room'
    BY <1>1, <1>5, <1>6, <1>8 DEF Counted
  <2>2. \A u \in Threads : pc'[u] \in {"up", "down"} => read'[u] <= Room'
    BY <1>2, <1>5, <1>6, <1>8 DEF Counted, label
  <2> QED BY <1>3, <2>1, <2>2 DEF Counted
<1> QED BY <1>7, <1>8

(* A wait that returns or times out: the worker has taken a signal, or the *)
(* counter will be lowered for nothing.                                    *)
LEMMA CountedByWait ==
    ASSUME TypeOK, Control, Counted, WaitReturns \/ WaitTimesOut
    PROVE  Counted'
<1>1. /\ pc' = [pc EXCEPT ![Worker] = "decrement"] /\ pc[Worker] \in {"wait", "waitOld"}
      /\ sem' \in {sem - 1, sem} /\ UNCHANGED <<semaphoreCount, read, lost, cancelAction>>
  BY DEF WaitReturns, WaitTimesOut, WorkerGoes, Goto, cancelVars, semaphoreVars, historyVars
<1>2. \A u \in Threads : pc'[u] = IF u = Worker THEN "decrement" ELSE pc[u]
  BY <1>1 DEF TypeOK
<1>3. Pending' = Pending /\ IsFiniteSet(Pending') /\ Cardinality(Pending) \in Nat
  <2>1. Pending' = Pending
    BY <1>1, <1>2, ThreadSets DEF Pending
  <2> QED BY <2>1, FS_CardinalityType DEF Counted
<1>4. Taken' = 1 /\ Taken = 0
  BY <1>1, <1>2, ThreadSets DEF Taken
<1>5. Room' \in {Room, Room + 1} /\ Room \in Int
  BY <1>1, <1>3, <1>4 DEF Room, TypeOK
<1>6. \A u \in Threads : pc'[u] \in {"up", "down"} => pc[u] \in {"up", "down"}
  BY <1>2
<1>7. semaphoreCount \in Int /\ \A u \in Threads : read[u] \in Int
  BY DEF TypeOK
<1> QED BY <1>1, <1>3, <1>5, <1>6, <1>7 DEF Counted

(* A worker that writes the counter keeps it covered. *)
LEMMA CountedByCountDown ==
    ASSUME TypeOK, Control, Counted, CountDown
    PROVE  Counted'
<1>1. /\ pc' = [pc EXCEPT ![Worker] = "doAction"] /\ pc[Worker] = "down"
      /\ semaphoreCount' = read[Worker] - 1
      /\ lost' = (lost \/ (~cancelAction /\ \E p \in Pushers : pc[p] = "up"))
      /\ UNCHANGED <<sem, cancelAction>>
  BY DEF CountDown, CountDownBy, Goto, OnlySemaphore, cancelVars
<1>2. \A u \in Threads : pc'[u] = IF u = Worker THEN "doAction" ELSE pc[u]
  BY <1>1 DEF TypeOK
<1>3. Pending' = Pending /\ IsFiniteSet(Pending') /\ Cardinality(Pending) \in Nat
  <2>1. Pending' = Pending
    BY <1>1, <1>2, ThreadSets DEF Pending
  <2> QED BY <2>1, FS_CardinalityType DEF Counted
<1>4. Taken' = 0 /\ Taken = 1
  BY <1>1, <1>2, ThreadSets DEF Taken
<1>5. Room' = Room - 1 /\ Room \in Int
  BY <1>1, <1>3, <1>4 DEF Room, TypeOK
<1>6. CASE lost' \/ cancelAction
  BY <1>1, <1>3, <1>6 DEF Counted
<1>7. CASE ~lost' /\ ~cancelAction
  <2>1. ~lost /\ \A p \in Pushers : pc[p] # "up"
    BY <1>1, <1>7
  <2>2. semaphoreCount' <= Room'
    <3>1. read[Worker] <= Room /\ read[Worker] \in Int
      BY <1>1, <1>7, <2>1, ThreadSets DEF Counted, TypeOK
    <3> QED BY <1>1, <1>5, <3>1
  <2>3. \A u \in Threads : pc'[u] \notin {"up", "down"}
    BY <1>2, <2>1, ThreadSets DEF Control, PusherLabels
  <2> QED BY <1>3, <2>2, <2>3 DEF Counted
<1> QED BY <1>6, <1>7

(* Every step keeps the counter covered by the semaphore. *)
LEMMA CountedStep ==
    ASSUME TypeOK, Control, Counted, [Next]_vars
    PROVE  Counted'
<1> USE DEF semaphoreVars, cancelVars, localVars, historyVars, Labels
<1>1. CASE UNCHANGED vars
  BY <1>1, CountedByOthers DEF vars
<1>2. ASSUME NEW t \in Threads, SemaphoreCountAdd(t)
      PROVE  Counted'
  <2>1. CASE TestCount(t)
    <3>1. UNCHANGED <<semaphoreVars, read, lost, cancelAction>>
      BY <2>1 DEF TestCount, OnlySemaphore
    <3>2. \E label \in Labels :
            /\ pc' = [pc EXCEPT ![t] = label]
            /\ {pc[t], label} \cap {"increment", "up", "decrement", "down"} = {}
      BY <2>1 DEF TestCount, Return, Goto
    <3> QED BY <3>1, <3>2, CountedByOthers
  <2> QED BY <1>2, <2>1, CountedBySignal, CountedByRead, CountedByCountUp
          DEF SemaphoreCountAdd
<1>3. ASSUME NEW p \in Pushers, NEW a \in Actions, PushAction(p, a)
      PROVE  Counted'
  <2>1. UNCHANGED <<semaphoreVars, read, lost, cancelAction>>
    BY <1>3 DEF PushAction
  <2>2. /\ pc' = [pc EXCEPT ![p] = "test"] /\ pc[p] = "idle" /\ p \in Threads
    BY <1>3, ThreadSets DEF PushAction, Goto
  <2>3. {pc[p], "test"} \cap {"increment", "up", "decrement", "down"} = {}
    BY <2>2
  <2> QED BY <2>1, <2>2, <2>3, CountedByOthers
<1>4. CASE Cancel
  <2>1. cancelAction' /\ Pending' = Pending
    BY <1>4 DEF Cancel, Pending
  <2> QED BY <2>1 DEF Counted
<1>5. CASE Start
  <2>1. cancelAction' /\ pc' = [pc EXCEPT ![Worker] = ThreadAfterStart]
    BY <1>5 DEF Start, Goto
  <2>2. ThreadAfterStart \in Labels /\ IsFiniteSet(Pending)
    BY PlaceAfterStart DEF Counted
  <2>3. IsFiniteSet(Pending')
    BY <2>1, <2>2, ThreadSets, PendingStep
  <2> QED BY <2>1, <2>3 DEF Counted
<1>6. CASE CancelEmpties
  BY <1>6, CountedByOthers DEF CancelEmpties
<1>7. ASSUME Run \/ WaitDuration \/ DoAction \/ PickAction \/ PickRaises \/ CarryOut \/ Discard
             \/ ActionWillDo \/ StartTimer \/ TimerFire \/ RunLoopEnds
      PROVE  Counted'
  <2>1. UNCHANGED <<semaphoreVars, read, lost, cancelAction>>
    BY <1>7 DEF Run, RunUnless, WaitDuration, WaitDurationIs, DoAction, PickAction, PickRaises,
                CarryOut, CarryOutIf, Discard, TakeOut, ActionWillDo, StartTimer, TimerFire,
                RunLoopEnds, WorkerGoes, indexVars
  <2>2. \E label \in Labels :
          /\ pc' = [pc EXCEPT ![Worker] = label]
          /\ {pc[Worker], label} \cap {"increment", "up", "decrement", "down"} = {}
    BY <1>7 DEF Run, RunUnless, WaitDuration, WaitDurationIs, DoAction, PickAction, PickRaises,
                CarryOut, CarryOutIf, Discard, TakeOut, ActionWillDo, StartTimer, TimerFire,
                RunLoopEnds, WorkerGoes, Goto
  <2> QED BY <2>1, <2>2, ThreadSets, CountedByOthers
<1> QED BY <1>1, <1>2, <1>3, <1>4, <1>5, <1>6, <1>7, CountedByWait, CountedByCountDown, ThreadSets
       DEF Next, WorkerStep

-----------------------------------------------------------------------------
(* Actions carried out.                                                    *)

(* Only CarryOut, Cancel, TimerFire and Start change what Progress speaks  *)
(* of.                                                                     *)
LEMMA ProgressStep ==
    ASSUME TypeOK, Control, Progress, [Next]_vars
    PROVE  Progress'
<1> USE DEF Progress, indexVars, cancelVars, historyVars
<1>1. CASE CarryOut
  <2>1. minAction \in Actions /\ minAction \in Nat \ {0} /\ currentIndex' = minAction
    BY <1>1, ThreadSets DEF CarryOut, CarryOutIf, TakeOut, Control
  <2>2. \A b \in ran : b \in Nat \ {0} /\ b <= currentIndex
    BY ThreadSets DEF TypeOK
  <2>3. currentIndex = -1 => ran = {}
    BY <2>2
  <2>4. currentIndex \in Int
    BY ThreadSets DEF TypeOK
  <2>5. currentIndex = -1 \/ minAction > currentIndex
    BY <1>1, <2>1, <2>4 DEF CarryOut, CarryOutIf, NextInLine, Ahead
  <2>6. \A b \in ran : b <= minAction
    BY <2>1, <2>2, <2>3, <2>4, <2>5
  <2>7. \A b \in ran' : b <= currentIndex'
    BY <1>1, <2>1, <2>6 DEF CarryOut, CarryOutIf
  <2> QED BY <1>1, <2>7 DEF CarryOut, CarryOutIf, TakeOut
<1>2. CASE Cancel
  BY <1>2 DEF Cancel
<1>3. CASE TimerFire
  BY <1>3 DEF TimerFire
<1>4. CASE Start
  BY <1>4 DEF Start, Control
<1>5. CASE UNCHANGED <<currentIndex, isNeedRefreshDirectly, cancelAction, ran, waited>>
  BY <1>5
<1>6. ASSUME ~ (CarryOut \/ Cancel \/ TimerFire \/ Start)
      PROVE  UNCHANGED <<currentIndex, isNeedRefreshDirectly, cancelAction, ran, waited>>
  <2> USE DEF WorkerGoes, OnlySemaphore
  <2>1. ASSUME NEW t \in Threads, SemaphoreCountAdd(t)
        PROVE  UNCHANGED <<currentIndex, isNeedRefreshDirectly, cancelAction, ran, waited>>
    BY <2>1 DEF SemaphoreCountAdd, TestCount, Signal, ReadCount, CountUp
  <2>2. ASSUME NEW p \in Pushers, NEW a \in Actions, PushAction(p, a)
        PROVE  UNCHANGED <<currentIndex, isNeedRefreshDirectly, cancelAction, ran, waited>>
    BY <2>2 DEF PushAction
  <2>3. CASE UNCHANGED vars \/ CountDown \/ CancelEmpties \/ RunLoopEnds
    BY <2>3 DEF vars, CountDown, CountDownBy, CancelEmpties, RunLoopEnds
  <2>4. CASE Run \/ WaitDuration \/ WaitReturns \/ WaitTimesOut
    BY <2>4 DEF Run, RunUnless, WaitDuration, WaitDurationIs, WaitReturns, WaitTimesOut
  <2>5. CASE DoAction \/ PickAction \/ PickRaises \/ Discard \/ ActionWillDo \/ StartTimer
    BY <2>5 DEF DoAction, PickAction, PickRaises, Discard, TakeOut, ActionWillDo, StartTimer
  <2> QED BY <1>6, <2>1, <2>2, <2>3, <2>4, <2>5, ThreadSets DEF Next, WorkerStep
<1> QED BY <1>1, <1>2, <1>3, <1>4, <1>5, <1>6

(* The worker leaves AfterAction only by the flag, which is up.            *)
LEMMA CancelledStep ==
    ASSUME TypeOK, Control, Cancelled, [Next]_vars
    PROVE  Cancelled'
<1> USE DEF Cancelled, AfterAction, cancelVars, historyVars, localVars
<1>1. CASE UNCHANGED vars
  BY <1>1 DEF vars
<1>2. ASSUME NEW t \in Threads, SemaphoreCountAdd(t)
      PROVE  Cancelled'
  <2>1. UNCHANGED <<late, cancelAction>>
    BY <1>2 DEF SemaphoreCountAdd, TestCount, Signal, ReadCount, CountUp, OnlySemaphore
  <2>2. pc[Worker] \in AfterAction => pc'[Worker] \in AfterAction
    BY <1>2, ThreadSets
       DEF SemaphoreCountAdd, TestCount, Signal, ReadCount, CountUp, Return, Goto, TypeOK
  <2> QED BY <2>1, <2>2
<1>3. ASSUME NEW p \in Pushers, NEW a \in Actions, PushAction(p, a)
      PROVE  Cancelled'
  BY <1>3, ThreadSets DEF PushAction, Goto, TypeOK
<1>4. CASE Run
  BY <1>4, ThreadSets DEF Run, RunUnless, WorkerGoes, Goto, TypeOK
<1>5. CASE CarryOut
  <2>1. pc[Worker] = "act" /\ pc'[Worker] = "actionWillDo" /\ UNCHANGED cancelAction
    BY <1>5, ThreadSets DEF CarryOut, CarryOutIf, TakeOut, Goto, TypeOK
  <2>2. late = 0
    BY <2>1 DEF TypeOK
  <2> QED BY <1>5, <2>1, <2>2 DEF CarryOut, CarryOutIf
<1>6. CASE Cancel \/ CancelEmpties \/ Start
  <2>1. CASE Start
    BY <2>1, PlaceAfterStart, ThreadSets DEF Start, Goto, TypeOK
  <2> QED BY <1>6, <2>1, ThreadSets DEF Cancel, CancelEmpties, TypeOK, Control
<1>7. CASE ActionWillDo
  BY <1>7, ThreadSets DEF ActionWillDo, WorkerGoes, Goto, TypeOK
<1>8. ASSUME CountDown \/ WaitDuration \/ WaitReturns \/ WaitTimesOut \/ DoAction \/ PickAction
             \/ PickRaises \/ Discard \/ StartTimer \/ TimerFire \/ RunLoopEnds
      PROVE  Cancelled'
  <2>1. UNCHANGED <<late, cancelAction>> /\ pc[Worker] \notin AfterAction
    BY <1>8 DEF CountDown, CountDownBy, OnlySemaphore, WaitDuration, WaitDurationIs, WaitReturns,
                WaitTimesOut, DoAction, PickAction, PickRaises, Discard, TakeOut, StartTimer,
                TimerFire, RunLoopEnds, WorkerGoes
  <2> QED BY <2>1 DEF TypeOK
<1> QED BY <1>1, <1>2, <1>3, <1>4, <1>5, <1>6, <1>7, <1>8, ThreadSets DEF Next, WorkerStep

-----------------------------------------------------------------------------
(* The theorems.                                                           *)

(* Nothing is pending, carried out or cancelled after the first start.     *)
LEMMA InitInv == Init => IInv
<1> SUFFICES ASSUME Init PROVE IInv
  OBVIOUS
<1> USE ThreadSets DEF Init
<1>1. TypeOK
  <2>1. /\ currentIndex \in Actions \cup {-1} /\ minAction \in Actions \cup {0}
        /\ actions \subseteq Actions /\ ran \subseteq Actions
    OBVIOUS
  <2>2. /\ semaphoreCount \in Int /\ sem \in Nat /\ pushes \in Nat /\ late \in Nat
        /\ read \in [Threads -> Int]
    OBVIOUS
  <2>3. pc \in [Threads -> Labels]
    BY DEF Labels
  <2>4. /\ isNeedRefreshDirectly \in BOOLEAN /\ timer \in BOOLEAN
        /\ cancelAction \in BOOLEAN /\ cancelling \in BOOLEAN /\ timed \in BOOLEAN
        /\ waited \in BOOLEAN /\ lost \in BOOLEAN
    OBVIOUS
  <2> QED BY <2>1, <2>2, <2>3, <2>4 DEF TypeOK
<1>2. Control
  BY DEF Control, PusherLabels
<1>3. Counted
  <2>1. \A t \in Threads : pc[t] \in {"idle", "loop"} /\ pc[Worker] = "loop"
    OBVIOUS
  <2>2. Pending = {}
    BY <2>1 DEF Pending
  <2>3. IsFiniteSet(Pending) /\ Cardinality(Pending) = 0
    BY <2>2, FS_EmptySet
  <2>4. Room = 0
    BY <2>1, <2>3 DEF Room, Taken
  <2> QED BY <2>1, <2>3, <2>4 DEF Counted
<1>4. Cancelled /\ Progress
  BY DEF Cancelled, Progress
<1> QED BY <1>1, <1>2, <1>3, <1>4 DEF IInv

(* IInv is inductive: each of its parts is kept with the help of the       *)
(* types, the places of the threads and itself.                            *)
THEOREM Inductive == Spec => []IInv
<1>1. IInv /\ [Next]_vars => IInv'
  BY TypeStep, CountedStep, CancelledStep, ProgressStep DEF IInv
<1> QED BY InitInv, <1>1, PTL DEF Spec

(* Every variable keeps its type, and no access to the list returns a      *)
(* number that was never pushed (TypeOK, all methods of ResidentThread.m). *)
THEOREM TypeCorrect == Spec => []TypeOK
<1>1. IInv => TypeOK
  BY DEF IInv
<1> QED BY Inductive, <1>1, PTL

(* For any number of pushing threads that race with the worker on the bare *)
(* counter, it claims no signal the semaphore does not have, as long as no *)
(* decrement was overwritten (semaphoreCountAdd:).                         *)
THEOREM CounterCovered == Spec => []CounterIsCovered
<1>1. IInv => CounterIsCovered
  <2> SUFFICES ASSUME IInv, ~lost, ~cancelAction
               PROVE  semaphoreCount <= sem + Taken
    BY DEF CounterIsCovered, Taken
  <2>1. semaphoreCount <= Room /\ Cardinality(Pending) \in Nat
    BY FS_CardinalityType DEF IInv, Counted
  <2>2. semaphoreCount \in Int /\ sem \in Nat /\ Taken \in Nat
    BY DEF IInv, TypeOK, Taken
  <2> QED BY <2>1, <2>2 DEF Room
<1> QED BY Inductive, <1>1, PTL

(* After a cancel at most one more action is carried out, however often    *)
(* the thread is started again (cancel, start, run).                       *)
THEOREM CancelFinal == Spec => []CancelIsFinal
<1>1. IInv => CancelIsFinal
  BY DEF IInv, Cancelled, CancelIsFinal
<1> QED BY Inductive, <1>1, PTL

(* Only doAction adds to what has been carried out, and only the action it *)
(* has picked.                                                             *)
LEMMA OnlyCarryOutRuns ==
    ASSUME Next, ran' # ran, ran' # {}
    PROVE  CarryOut
<1> USE DEF WorkerGoes, OnlySemaphore, historyVars
<1>1. ASSUME NEW t \in Threads, SemaphoreCountAdd(t)
      PROVE  FALSE
  BY <1>1 DEF SemaphoreCountAdd, TestCount, Signal, ReadCount, CountUp
<1>2. ASSUME NEW p \in Pushers, NEW a \in Actions, PushAction(p, a)
      PROVE  FALSE
  BY <1>2 DEF PushAction
<1>3. CASE Cancel \/ CancelEmpties \/ Start \/ CountDown \/ RunLoopEnds
  BY <1>3 DEF Cancel, CancelEmpties, Start, CountDown, CountDownBy, RunLoopEnds
<1>4. CASE Run \/ WaitDuration \/ WaitReturns \/ WaitTimesOut
  BY <1>4 DEF Run, RunUnless, WaitDuration, WaitDurationIs, WaitReturns, WaitTimesOut
<1>5. CASE DoAction \/ PickAction \/ PickRaises \/ Discard \/ ActionWillDo \/ StartTimer
           \/ TimerFire
  BY <1>5 DEF DoAction, PickAction, PickRaises, Discard, TakeOut, ActionWillDo, StartTimer,
              TimerFire
<1> QED BY <1>1, <1>2, <1>3, <1>4, <1>5, ThreadSets DEF Next, WorkerStep

(* What a step that carries an action out finds: the action is new, it is  *)
(* above all others, and a jump over missing numbers was waited for.       *)
LEMMA CarryOutInOrder ==
    ASSUME IInv, CarryOut, ran' # ran
    PROVE  /\ ran' = ran \cup {minAction} /\ currentIndex' = minAction
           /\ \A b \in ran : b < minAction
           /\ ran # {} /\ minAction > currentIndex + 1 => waited
<1>1. /\ ran' = ran \cup {minAction} /\ currentIndex' = minAction /\ ~cancelAction
      /\ NextInLine \/ (Ahead /\ isNeedRefreshDirectly)
  BY DEF CarryOut, CarryOutIf
<1>2. minAction \in Nat \ {0} /\ currentIndex \in Int
  BY ThreadSets DEF CarryOut, CarryOutIf, TakeOut, IInv, Control, TypeOK
<1>3. \A b \in ran : b \in Nat \ {0} /\ b <= currentIndex
  BY ThreadSets DEF IInv, TypeOK, Progress
<1>4. \A b \in ran : b < minAction
  BY <1>1, <1>2, <1>3 DEF NextInLine, Ahead
<1>5. ran # {} => currentIndex # -1
  BY <1>3
<1>6. isNeedRefreshDirectly => waited
  BY <1>1 DEF IInv, Progress
<1>7. ran # {} /\ minAction > currentIndex + 1 => waited
  BY <1>1, <1>2, <1>5, <1>6 DEF NextInLine
<1> QED BY <1>1, <1>4, <1>7

(* Actions are carried out in increasing order of their numbers until a    *)
(* cancel, whoever pushes them in whatever order (doAction).               *)
THEOREM InOrder == Spec => RunsInOrder
<1>1. IInv /\ [Next]_vars => [\A a \in ran' \ ran, b \in ran : b < a]_vars
  <2> SUFFICES ASSUME IInv, Next, NEW a \in ran' \ ran, NEW b \in ran
               PROVE  b < a
    OBVIOUS
  <2>1. ran' # ran /\ ran' # {}
    OBVIOUS
  <2> QED BY <2>1, OnlyCarryOutRuns, CarryOutInOrder
<1> QED BY Inductive, <1>1, PTL DEF Spec, RunsInOrder

(* A missing number is passed over only after a whole wait since the last  *)
(* action: one wait never licenses two jumps (doAction, timerFire).        *)
THEOREM JumpsWait == Spec => EveryJumpWaits
<1>1. IInv /\ [Next]_vars =>
        [(ran' \ ran # {} /\ ran # {} /\ currentIndex' > currentIndex + 1) => waited]_vars
  <2> SUFFICES ASSUME IInv, Next, ran' \ ran # {}, ran # {}, currentIndex' > currentIndex + 1
               PROVE  waited
    OBVIOUS
  <2>1. ran' # ran /\ ran' # {}
    OBVIOUS
  <2> QED BY <2>1, OnlyCarryOutRuns, CarryOutInOrder
<1> QED BY Inductive, <1>1, PTL DEF Spec, EveryJumpWaits
=============================================================================
