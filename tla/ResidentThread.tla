--------------------------- MODULE ResidentThread ---------------------------
(***************************************************************************)
(* ResidentThread.m: a thread that sleeps on a semaphore and carries out   *)
(* numbered actions in the order of their numbers.  Other threads push     *)
(* actions.  semaphoreCount is a plain int that all of them test and       *)
(* change, so every read and every write of it is a step of its own here.  *)
(* A thread's local variables are reset once their values have been used.  *)
(***************************************************************************)
EXTENDS Integers, FiniteSetsExt

CONSTANTS Pushers,       \* threads that call pushAction:
          Worker,        \* the resident thread
          Actions,       \* the numbers of actions, all above 0
          MaxPushes      \* bound: calls of pushAction:

ASSUME ConstantsAssumption ==
    /\ Worker \notin Pushers
    /\ Actions \subseteq Nat \ {0}
    /\ MaxPushes \in Nat

Threads == Pushers \cup {Worker}

VARIABLES
    actions,                \* numbers in the list; removeObject: takes out equal ones too
    semaphoreCount,         \* what the program thinks the semaphore's value is
    sem,                    \* the value of the semaphore
    currentIndex,           \* number carried out last, -1 for none
    isNeedRefreshDirectly,  \* the wait for a missing number is over
    timer,                  \* the timer of that wait is valid
    cancelAction,
    pc,                     \* what each thread does next
    read,                   \* the value of semaphoreCount a thread has read
    timed,                  \* the worker's wait is for 4 s, not for ever
    minAction,              \* the number doAction has picked
    cancelling,             \* cancel has set its flags and not yet emptied the list
    pushes,                 \* calls of pushAction: so far
    ran,                    \* history: numbers carried out, until a cancel
    waited,                 \* history: a whole wait has passed since the last of them
    late,                   \* history: actions carried out after a cancel
    lost                    \* history: a decrement of semaphoreCount was overwritten

semaphoreVars == <<semaphoreCount, sem>>
indexVars == <<currentIndex, isNeedRefreshDirectly>>
cancelVars == <<cancelAction, cancelling>>
localVars == <<read, timed, minAction>>
historyVars == <<ran, waited, late, lost>>
vars == <<actions, semaphoreVars, indexVars, timer, cancelVars, pc, localVars, pushes,
          historyVars>>

(* start, called the first time. *)
Init ==
    /\ actions = {} /\ semaphoreCount = 0 /\ sem = 0
    /\ currentIndex = -1 /\ isNeedRefreshDirectly = FALSE /\ timer = FALSE
    /\ cancelAction = FALSE /\ cancelling = FALSE
    /\ pc = [t \in Threads |-> IF t = Worker THEN "loop" ELSE "idle"]
    /\ read = [t \in Threads |-> 0] /\ timed = FALSE /\ minAction = 0
    /\ pushes = 0
    /\ ran = {} /\ waited = FALSE /\ late = 0 /\ lost = FALSE

Goto(t, label) == pc' = [pc EXCEPT ![t] = label]

(* A step of thread t that touches nothing but its place and the semaphore. *)
OnlySemaphore == UNCHANGED <<actions, indexVars, timer, cancelVars, timed, minAction, pushes,
                             ran, waited, late>>

(* A step of the worker that changes its place only. *)
WorkerGoes(label) ==
    /\ Goto(Worker, label)
    /\ UNCHANGED <<actions, semaphoreVars, indexVars, timer, cancelVars, read, pushes,
                   historyVars>>

-----------------------------------------------------------------------------
(* semaphoreCountAdd:, by any thread. *)

(* Where semaphoreCountAdd:YES returns to. *)
Return(t) == Goto(t, IF t = Worker THEN "loop" ELSE "idle")

TestCount(t) ==
    /\ pc[t] = "test"
    /\ IF semaphoreCount < 1 THEN Goto(t, "signal") ELSE Return(t)
    /\ UNCHANGED <<semaphoreVars, read, lost>> /\ OnlySemaphore

Signal(t) ==
    /\ pc[t] = "signal"
    /\ sem' = sem + 1
    /\ Goto(t, "increment")
    /\ UNCHANGED <<semaphoreCount, read, lost>> /\ OnlySemaphore

(* semaphoreCount++ and semaphoreCount-- read the counter and then write it. *)
ReadCount(t) ==
    /\ pc[t] \in {"increment", "decrement"}
    /\ read' = [read EXCEPT ![t] = semaphoreCount]
    /\ Goto(t, IF pc[t] = "increment" THEN "up" ELSE "down")
    /\ UNCHANGED <<semaphoreVars, lost>> /\ OnlySemaphore

CountUp(t) ==
    /\ pc[t] = "up"
    /\ semaphoreCount' = read[t] + 1
    /\ read' = [read EXCEPT ![t] = 0]
    /\ Return(t)
    /\ UNCHANGED <<sem, lost>> /\ OnlySemaphore

(* After the wait.  A thread that has read the counter and not yet written *)
(* it is going to overwrite this decrement.                                *)
CountDownBy(n) ==
    /\ pc[Worker] = "down"
    /\ semaphoreCount' = read[Worker] - n
    /\ lost' = (lost \/ (~cancelAction /\ \E p \in Pushers : pc[p] = "up"))
    /\ read' = [read EXCEPT ![Worker] = 0]
    /\ Goto(Worker, "doAction")
    /\ UNCHANGED sem /\ OnlySemaphore

CountDownForgotten == CountDownBy(0)                    \* mutant

CountDown == CountDownBy(1)

-----------------------------------------------------------------------------
(* Callers. *)

PushAction(p, a) ==
    /\ pc[p] = "idle"
    /\ pushes < MaxPushes
    /\ pushes' = pushes + 1
    /\ actions' = actions \cup {a}
    /\ Goto(p, "test")
    /\ UNCHANGED <<semaphoreVars, indexVars, timer, cancelVars, localVars, historyVars>>

(* cancel sets its flags, then empties the list and stops the timer.  It   *)
(* does not signal the semaphore.  It may be called again.                 *)
Cancel ==
    /\ ~cancelling
    /\ cancelAction' = TRUE /\ cancelling' = TRUE
    /\ currentIndex' = -1
    /\ semaphoreCount' = 0
    /\ ran' = {} /\ waited' = FALSE /\ lost' = FALSE
    /\ UNCHANGED <<actions, sem, isNeedRefreshDirectly, timer, pc, localVars, pushes, late>>

CancelEmpties ==
    /\ cancelling
    /\ cancelling' = FALSE
    /\ actions' = {} /\ timer' = FALSE
    /\ UNCHANGED <<semaphoreVars, indexVars, cancelAction, pc, localVars, pushes, historyVars>>

(* start again, which a client does after a cancel: everything is new but  *)
(* cancelAction.  If the old thread has not ended the new one does so at   *)
(* once; the old one finds everything new but the semaphore it waits on.   *)
ThreadAfterStart ==
    CASE pc[Worker] = "ended"           -> "loop"
      [] pc[Worker] = "wait" /\ sem = 0 -> "waitOld"
      [] pc[Worker] = "wait" /\ sem > 0 -> "decrement"
      [] OTHER                          -> pc[Worker]

Start ==
    /\ cancelAction /\ ~cancelling
    /\ actions' = {} /\ semaphoreCount' = 0 /\ sem' = 0
    /\ currentIndex' = -1 /\ isNeedRefreshDirectly' = FALSE
    /\ Goto(Worker, ThreadAfterStart)
    /\ timed' = (timed /\ ThreadAfterStart = "waitOld")
    /\ UNCHANGED <<timer, cancelVars, read, minAction, pushes, historyVars>>

-----------------------------------------------------------------------------
(* The resident thread. *)

(* run: the flag is looked at here only. *)
RunUnless(flag) ==
    /\ pc[Worker] = "loop"
    /\ WorkerGoes(IF flag THEN "ended" ELSE "waitDuration")
    /\ UNCHANGED <<timed, minAction>>

RunUncancelled == RunUnless(FALSE)                      \* mutant

Run == RunUnless(cancelAction)

WaitDurationIs(short) ==
    /\ pc[Worker] = "waitDuration"
    /\ timed' = short
    /\ WorkerGoes("wait")
    /\ UNCHANGED minAction

WaitForEver == WaitDurationIs(FALSE)                    \* mutant

WaitDuration == WaitDurationIs(actions # {})

WaitReturns ==
    /\ pc[Worker] = "wait" /\ sem > 0
    /\ sem' = sem - 1
    /\ timed' = FALSE
    /\ Goto(Worker, "decrement")
    /\ UNCHANGED <<actions, semaphoreCount, indexVars, timer, cancelVars, read, minAction,
                   pushes, historyVars>>

(* The counter is decremented after a timeout too: it falls below the value *)
(* of the semaphore.                                                        *)
WaitTimesOut ==
    /\ timed
    /\ pc[Worker] = "waitOld" \/ (pc[Worker] = "wait" /\ sem = 0)
    /\ timed' = FALSE
    /\ WorkerGoes("decrement")
    /\ UNCHANGED minAction

DoAction ==
    /\ pc[Worker] = "doAction"
    /\ WorkerGoes(IF actions = {} THEN "loop" ELSE "pick")
    /\ UNCHANGED <<timed, minAction>>

(* getMinIndex: and the access to the list with the index it returned.     *)
PickAction ==
    /\ pc[Worker] = "pick" /\ actions # {}
    /\ minAction' = Min(actions)
    /\ WorkerGoes("act")
    /\ UNCHANGED timed

(* A cancel has emptied the list since doAction's test: the access raises, *)
(* and the process ends.  What other threads still do tells nothing.       *)
PickRaises ==
    /\ pc[Worker] = "pick" /\ actions = {}
    /\ WorkerGoes("raised")
    /\ UNCHANGED <<timed, minAction>>

(* Takes the action out of the list; the rest of actionWillDo: is below. *)
TakeOut ==
    /\ pc[Worker] = "act"
    /\ actions' = actions \ {minAction}
    /\ minAction' = 0
    /\ Goto(Worker, "actionWillDo")
    /\ UNCHANGED <<semaphoreVars, timer, cancelVars, read, timed, pushes, lost>>

NextInLine == currentIndex = -1 \/ minAction = currentIndex + 1
Passed == ~NextInLine /\ minAction <= currentIndex
Ahead == ~NextInLine /\ minAction > currentIndex + 1

CarryOutIf(test, refresh) ==
    /\ test
    /\ TakeOut
    /\ currentIndex' = minAction
    /\ isNeedRefreshDirectly' = refresh
    /\ waited' = FALSE
    /\ IF cancelAction THEN late' = late + 1 /\ UNCHANGED ran
                       ELSE ran' = ran \cup {minAction} /\ UNCHANGED late

(* Mutants: numbers already passed are carried out when a wait is over; the *)
(* end of one wait serves for all later gaps.                               *)
CarryOutPassed == CarryOutIf(NextInLine \/ isNeedRefreshDirectly, FALSE)
CarryOutUnreset ==
    CarryOutIf(NextInLine \/ (Ahead /\ isNeedRefreshDirectly), isNeedRefreshDirectly)

CarryOut == CarryOutIf(NextInLine \/ (Ahead /\ isNeedRefreshDirectly), FALSE)

Discard ==
    /\ Passed
    /\ TakeOut
    /\ UNCHANGED <<indexVars, ran, waited, late>>

ActionWillDo ==
    /\ pc[Worker] = "actionWillDo"
    /\ WorkerGoes(IF actions = {} THEN "loop" ELSE "test")
    /\ UNCHANGED <<timed, minAction>>

(* startTimer: the timer is never valid here, since the run loop it starts *)
(* only ends when its timer has been invalidated.                          *)
StartTimer ==
    /\ pc[Worker] = "act" /\ Ahead /\ ~isNeedRefreshDirectly
    /\ timer' = TRUE
    /\ minAction' = 0
    /\ Goto(Worker, "runLoop")
    /\ UNCHANGED <<actions, semaphoreVars, indexVars, cancelVars, read, timed, pushes,
                   historyVars>>

(* timerFire, the second time, 4 s later: the run loop has nothing left. *)
TimerFire ==
    /\ pc[Worker] = "runLoop" /\ timer
    /\ timer' = FALSE
    /\ isNeedRefreshDirectly' = TRUE
    /\ waited' = ~cancelAction
    /\ Goto(Worker, "loop")
    /\ UNCHANGED <<actions, semaphoreVars, currentIndex, cancelVars, localVars, pushes, ran,
                   late, lost>>

(* cancel has invalidated the timer from another thread: the run loop may   *)
(* notice, or sleep on.                                                     *)
RunLoopEnds ==
    /\ pc[Worker] = "runLoop" /\ ~timer
    /\ WorkerGoes("loop")
    /\ UNCHANGED <<timed, minAction>>

-----------------------------------------------------------------------------
SemaphoreCountAdd(t) == TestCount(t) \/ Signal(t) \/ ReadCount(t) \/ CountUp(t)

WorkerStep ==
    \/ SemaphoreCountAdd(Worker) \/ CountDown
    \/ Run \/ WaitDuration \/ WaitReturns \/ WaitTimesOut
    \/ DoAction \/ PickAction \/ PickRaises \/ CarryOut \/ Discard \/ ActionWillDo
    \/ StartTimer \/ TimerFire

Next ==
    \/ WorkerStep \/ RunLoopEnds
    \/ \E p \in Pushers : SemaphoreCountAdd(p) \/ \E a \in Actions : PushAction(p, a)
    \/ Cancel \/ CancelEmpties \/ Start

(* Threads that can run are run, waits time out and timers fire.  Nobody   *)
(* has to push, cancel or start, and a run loop need not notice a cancel.  *)
Fairness ==
    /\ WF_vars(WorkerStep)
    /\ \A p \in Pushers : WF_vars(SemaphoreCountAdd(p))

Spec == Init /\ [][Next]_vars
FairSpec == Spec /\ Fairness

-----------------------------------------------------------------------------
(* Properties. *)

Labels == {"idle", "test", "signal", "increment", "up", "loop", "waitDuration", "wait",
           "waitOld", "decrement", "down", "doAction", "pick", "act", "actionWillDo", "runLoop",
           "ended", "raised"}

(* Types of the variables (ResidentThread.m:12-27). *)
TypeOK ==
    /\ actions \subseteq Actions
    /\ semaphoreCount \in Int /\ sem \in Nat
    /\ currentIndex \in Actions \cup {-1}
    /\ isNeedRefreshDirectly \in BOOLEAN /\ timer \in BOOLEAN
    /\ cancelAction \in BOOLEAN /\ cancelling \in BOOLEAN
    /\ pc \in [Threads -> Labels]
    /\ read \in [Threads -> Int]
    /\ timed \in BOOLEAN
    /\ minAction \in Actions \cup {0}
    /\ pushes \in Nat
    /\ ran \subseteq Actions /\ waited \in BOOLEAN /\ late \in Nat /\ lost \in BOOLEAN

(* The counter never claims a signal the semaphore does not have (but for *)
(* the one the worker has just taken), however many waits timed out: so a  *)
(* push that finds it at 1 may return without signalling                   *)
(* (ResidentThread.m:169).  Only a decrement lost between two threads      *)
(* breaks this.                                                            *)
CounterIsCovered ==
    (~lost /\ ~cancelAction) =>
        semaphoreCount <= sem + (IF pc[Worker] \in {"decrement", "down"} THEN 1 ELSE 0)

(* Actions are carried out in increasing order until a cancel, whoever     *)
(* pushes what in whatever order (ResidentThread.m:134-156).               *)
RunsInOrder == [][\A a \in ran' \ ran, b \in ran : b < a]_vars

(* Each number that is passed over has been waited for: one wait licenses  *)
(* one jump, not those after it (ResidentThread.m:140, comment).           *)
EveryJumpWaits ==
    [][(ran' \ ran # {} /\ ran # {} /\ currentIndex' > currentIndex + 1) => waited]_vars

(* After a cancel at most one more action is carried out: a push can wake  *)
(* the sleeping worker before it looks at the flag, and a second start     *)
(* does not clear the flag (ResidentThread.m:55, 113).                     *)
CancelIsFinal == late <= 1

(* Every action pushed is carried out or discarded, for all the time the   *)
(* worker spends asleep, in a timed wait or in its run loop, as long as no *)
(* decrement is lost (ResidentThread.m:95, 185).                           *)
ActionsAreHandled ==
    \A a \in Actions : (a \in actions) ~> (a \notin actions \/ cancelAction \/ lost)
=============================================================================
