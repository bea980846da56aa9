-------------------------- MODULE ThreadPoolProofs --------------------------
(***************************************************************************)
(* Proofs about ThreadPool, for any number of slots, tasks and callers.    *)
(* The argument: types (with two small facts that types alone do not give),*)
(* then the ownership of m_mutex, then what a worker knows between its     *)
(* tests and its takeTask because it owns m_mutex, then the counters; and  *)
(* last the refinement of TaskPool.                                        *)
(***************************************************************************)
EXTENDS ThreadPool, TLAPS, FiniteSetTheorems

\* A signal moves at most one worker, from "waiting" to "woken".
LEMMA SignalEffect ==
    ASSUME wpc \in [Slots -> WorkerPCs], Signal
    PROVE  /\ wpc' \in [Slots -> WorkerPCs]
           /\ \A w \in Slots : \/ wpc'[w] = wpc[w]
                               \/ wpc[w] = "waiting" /\ wpc'[w] = "woken"
BY DEF Signal, Waiting, WorkerPCs

\* A worker that returns from pthread_cond_wait retires or owns m_mutex.
LEMMA WakeEffect ==
    ASSUME NEW w \in Slots, WorkerWake(w),
           m_exitNum \in Int, m_aliveNum \in Int, wpc \in [Slots -> WorkerPCs]
    PROVE  /\ wpc[w] = "woken" /\ m_mutex = Nobody
           /\ wpc' \in [Slots -> WorkerPCs]
           /\ \A v \in Slots \ {w} : wpc'[v] = wpc[v]
           /\ \/ m_mutex' = Nobody /\ wpc'[w] = "retire"
              \/ m_mutex' = w /\ wpc'[w] = "check"
           /\ m_exitNum' \in Int /\ m_aliveNum' \in Int
           /\ UNCHANGED <<m_taskQ, m_busyNum, held, mpc, msnap, mscan, msig, cpc, ctask,
                          m_end, dpc, dsig, finished, lateStarts>>
<1> USE DEF WorkerPCs
<1>1. /\ wpc[w] = "woken" /\ m_mutex = Nobody
      /\ UNCHANGED <<m_taskQ, m_busyNum, held, mpc, msnap, mscan, msig, cpc, ctask,
                     m_end, dpc, dsig, finished, lateStarts>>
    BY DEF WorkerWake, manager, callers, owner, history
<1>2. CASE m_exitNum > 0 /\ MayRetire
    BY <1>1, <1>2 DEF WorkerWake
<1>3. CASE m_exitNum > 0 /\ ~MayRetire
    BY <1>1, <1>3 DEF WorkerWake
<1>4. CASE ~(m_exitNum > 0)
    BY <1>1, <1>4 DEF WorkerWake
<1>5. QED
    BY <1>2, <1>3, <1>4

\* One turn of the manager's loop fills the slot, or leaves the workers alone.
LEMMA ScanEffect ==
    ASSUME ManagerScanSlot, m_aliveNum \in Int, wpc \in [Slots -> WorkerPCs],
           mscan \in [i : 0 .. MaxNum, num : 0 .. NUMBER]
    PROVE  /\ mpc = "scan"
           /\ mscan.i \in Slots
           /\ mscan' \in [i : 0 .. MaxNum, num : 0 .. NUMBER]
           /\ wpc' \in [Slots -> WorkerPCs]
           /\ \A w \in Slots : wpc'[w] = wpc[w] \/ (wpc[w] = "none" /\ wpc'[w] = "lock")
           /\ m_aliveNum' = m_aliveNum \/ (m_aliveNum < MaxNum /\ m_aliveNum' = m_aliveNum + 1)
           /\ UNCHANGED <<m_mutex, m_taskQ, m_busyNum, m_exitNum, held, mpc, msnap, msig, cpc,
                          ctask, m_end, dpc, dsig, finished, lateStarts>>
<1> USE SizeAssumption
<1>1. /\ mscan.i \in Slots /\ m_aliveNum < MaxNum
      /\ mscan.i + 1 \in 0 .. MaxNum /\ mscan.num + 1 \in 0 .. NUMBER
    BY DEF ManagerScanSlot, ScanGoesOn, NUMBER, Slots
<1>2. /\ mpc = "scan"
      /\ UNCHANGED <<m_mutex, m_taskQ, m_busyNum, m_exitNum, held, mpc, msnap, msig, cpc,
                     ctask, m_end, dpc, dsig, finished, lateStarts>>
    BY DEF ManagerScanSlot, callers, owner, history
<1>3. CASE wpc[mscan.i] = "none"
    <2>1. /\ wpc' = [wpc EXCEPT ![mscan.i] = "lock"] /\ m_aliveNum' = m_aliveNum + 1
          /\ mscan' = [i |-> mscan.i + 1, num |-> mscan.num + 1]
        BY <1>3 DEF ManagerScanSlot
    <2>2. mscan' \in [i : 0 .. MaxNum, num : 0 .. NUMBER]
        BY <1>1, <2>1
    <2>3. /\ wpc' \in [Slots -> WorkerPCs]
          /\ \A w \in Slots : wpc'[w] = wpc[w] \/ (wpc[w] = "none" /\ wpc'[w] = "lock")
        BY <1>1, <1>3, <2>1 DEF WorkerPCs
    <2>4. QED
        BY <1>1, <1>2, <2>1, <2>2, <2>3
<1>4. CASE wpc[mscan.i] # "none"
    <2>1. UNCHANGED <<wpc, m_aliveNum>> /\ mscan' = [mscan EXCEPT !.i = mscan.i + 1]
        BY <1>4 DEF ManagerScanSlot
    <2>2. mscan' \in [i : 0 .. MaxNum, num : 0 .. NUMBER]
        BY <1>1, <2>1
    <2>3. QED
        BY <1>1, <1>2, <2>1, <2>2
<1>5. QED
    BY <1>3, <1>4
-----------------------------------------------------------------------------
(***************************************************************************)
(* Types.                                                                  *)
(***************************************************************************)

\* A caller about to push holds a task, and a manager about to signal has a
\* signal left to send.
CallerHoldsTask == \A c \in Callers : cpc[c] = "push" => ctask[c] \in Tasks
SignalsLeft == mpc = "signal" => msig > 0

TypeInv == TypeOK /\ CallerHoldsTask /\ SignalsLeft

LEMMA TypeInit == Init => TypeInv
<1> SUFFICES ASSUME Init
             PROVE  TypeInv
    OBVIOUS
<1> USE SizeAssumption, GarbageAssumption DEF Init, TypeInv, TypeOK
<1>1. /\ m_aliveNum \in Int /\ m_busyNum \in Int /\ m_exitNum \in Int
      /\ m_mutex \in Slots \cup {Manager, Nobody}
    BY DEF Nobody
<1>2. m_taskQ \in Seq(Tasks) /\ finished \subseteq Tasks \cup {NoTask}
    OBVIOUS
<1>3. wpc \in [Slots -> WorkerPCs] /\ held \in [Slots -> Tasks \cup {NoTask}]
    BY DEF WorkerPCs
<1>4. /\ msnap \in [qSize : Nat, liveNum : Int, busyNum : Int]
      /\ mscan \in [i : 0 .. MaxNum, num : 0 .. NUMBER]
      /\ msig \in 0 .. NUMBER
    BY DEF NoSnapshot, NUMBER
<1>5. CallerHoldsTask /\ SignalsLeft
    BY DEF CallerHoldsTask, SignalsLeft
<1>6. QED
    BY <1>1, <1>2, <1>3, <1>4, <1>5

LEMMA TypeStep == TypeInv /\ [Next]_vars => TypeInv'
<1> SUFFICES ASSUME TypeInv, [Next]_vars
             PROVE  TypeInv'
    OBVIOUS
<1> USE SizeAssumption, TaskAssumption
    DEF TypeInv, TypeOK, CallerHoldsTask, SignalsLeft, counters, manager, callers, owner, history
<1>1. ASSUME NEW w \in Slots, Worker(w)
      PROVE  TypeInv'
    <2> USE DEF Slots, Nobody, Manager, WorkerPCs
    <2>1. CASE WorkerLock(w)
        BY <2>1 DEF WorkerLock
    <2>2. CASE WorkerCheck(w)
        BY <2>2 DEF WorkerCheck
    <2>3. CASE WorkerSleep(w)
        BY <2>3 DEF WorkerSleep
    <2>4. CASE WorkerWake(w)
        <3>1. /\ wpc' \in [Slots -> WorkerPCs] /\ m_mutex' \in Slots \cup {Nobody}
              /\ m_exitNum' \in Int /\ m_aliveNum' \in Int
            BY <2>4, WakeEffect
        <3>2. UNCHANGED <<m_taskQ, m_busyNum, held, mpc, msnap, mscan, msig, cpc, ctask,
                          m_end, dpc, dsig, finished, lateStarts>>
            BY <2>4, WakeEffect
        <3>3. QED
            BY <3>1, <3>2
    <2>5. CASE WorkerLeaveWait(w)
        BY <2>5 DEF WorkerLeaveWait
    <2>6. CASE WorkerTakeTask(w)
        <3>1. FrontTask \in Tasks \cup {NoTask} /\ PoppedQueue \in Seq(Tasks)
            BY DEF FrontTask, PoppedQueue
        <3>2. QED
            BY <2>6, <3>1 DEF WorkerTakeTask
    <2>7. CASE WorkerFinishTask(w)
        BY <2>7 DEF WorkerFinishTask
    <2>8. CASE ThreadExit(w)
        BY <2>8 DEF ThreadExit
    <2>9. QED
        BY <1>1, <2>1, <2>2, <2>3, <2>4, <2>5, <2>6, <2>7, <2>8 DEF Worker
<1>2. ASSUME NEW w \in Slots, SpuriousWakeup(w)
      PROVE  TypeInv'
    BY <1>2 DEF SpuriousWakeup, WorkerPCs
<1>3. CASE ManagerStep
    <2>1. CASE ManagerTest
        BY <2>1 DEF ManagerTest
    <2>2. CASE ManagerSnapshot
        <3>1. mpc' \in {"grow", "shrink", "test"}
            BY <2>2 DEF ManagerSnapshot, AfterGrow
        <3>2. msnap' \in [qSize : Nat, liveNum : Int, busyNum : Int]
            BY <2>2 DEF ManagerSnapshot
        <3>3. QED
            BY <2>2, <3>1, <3>2 DEF ManagerSnapshot
    <2>3. CASE ManagerGrowLock
        BY <2>3 DEF ManagerGrowLock, NUMBER
    <2>4. CASE ManagerScanSlot
        <3>1. m_aliveNum' \in Int
            BY <2>4, ScanEffect
        <3>2. QED
            BY <2>4, <3>1, ScanEffect
    <2>5. CASE ManagerGrowUnlock
        BY <2>5 DEF ManagerGrowUnlock, AfterGrow
    <2>6. CASE ManagerShrink
        BY <2>6 DEF ManagerShrink, NUMBER
    <2>7. CASE ManagerSignal
        BY <2>7, SignalEffect DEF ManagerSignal, NUMBER
    <2>8. QED
        BY <1>3, <2>1, <2>2, <2>3, <2>4, <2>5, <2>6, <2>7 DEF ManagerStep
<1>4. ASSUME NEW c \in Callers, AddTaskRest(c) \/ \E t \in Tasks : AddTaskEnter(c, t)
      PROVE  TypeInv'
    <2>1. CASE AddTaskPush(c)
        BY <2>1 DEF AddTaskPush
    <2>2. CASE AddTaskSignal(c)
        BY <2>2, SignalEffect DEF AddTaskSignal
    <2>3. ASSUME NEW t \in Tasks, AddTaskEnter(c, t)
          PROVE  TypeInv'
        BY <2>3 DEF AddTaskEnter
    <2>4. QED
        BY <1>4, <2>1, <2>2, <2>3 DEF AddTaskRest
<1>5. CASE DestructorBegin
    BY <1>5 DEF DestructorBegin
<1>6. CASE DestructorRest
    <2>1. CASE DestructorJoin
        BY <2>1 DEF DestructorJoin
    <2>2. CASE DestructorSignal
        BY <2>2, SignalEffect DEF DestructorSignal
    <2>3. CASE DestructorFree
        BY <2>3 DEF DestructorFree
    <2>4. QED
        BY <1>6, <2>1, <2>2, <2>3 DEF DestructorRest
<1>7. CASE UNCHANGED vars
    BY <1>7 DEF vars
<1>8. QED
    BY <1>1, <1>2, <1>3, <1>4, <1>5, <1>6, <1>7 DEF Next, Deleted

LEMMA TypeInvariant == Spec => []TypeInv
BY TypeInit, TypeStep, PTL DEF Spec

\* Every variable keeps its type: in particular the manager's loop index stays
\* inside m_threadIDs and it sends no more than NUMBER signals.
THEOREM TypeCorrect == Spec => []TypeOK
<1>1. TypeInv => TypeOK
    BY DEF TypeInv
<1>2. QED
    BY <1>1, TypeInvariant, PTL
-----------------------------------------------------------------------------
(***************************************************************************)
(* The mutex.                                                              *)
(***************************************************************************)

LEMMA MutexStep ==
    TypeInv /\ MutualExclusion /\ [Next]_vars => MutualExclusion'
<1> SUFFICES ASSUME TypeInv, MutualExclusion, [Next]_vars
             PROVE  MutualExclusion'
    OBVIOUS
<1> USE SizeAssumption
    DEF TypeInv, TypeOK, MutualExclusion, InCritical, Slots, Manager, Nobody, WorkerPCs,
        counters, manager, callers, owner, history
<1>1. ASSUME NEW w \in Slots, Worker(w)
      PROVE  MutualExclusion'
    <2>1. CASE WorkerLock(w)
        BY <2>1 DEF WorkerLock
    <2>2. CASE WorkerCheck(w)
        BY <2>2 DEF WorkerCheck
    <2>3. CASE WorkerSleep(w)
        BY <2>3 DEF WorkerSleep
    <2>4. CASE WorkerWake(w)
        <3>1. /\ wpc[w] = "woken" /\ m_mutex = Nobody /\ mpc' = mpc
              /\ \A v \in Slots \ {w} : wpc'[v] = wpc[v]
              /\ \/ m_mutex' = Nobody /\ wpc'[w] = "retire"
                 \/ m_mutex' = w /\ wpc'[w] = "check"
            BY <2>4, WakeEffect
        <3>2. \A v \in Slots : ~InCritical(v) /\ m_mutex # v
            BY <3>1
        <3>3. \A v \in Slots \ {w} : ~InCritical(v)' /\ m_mutex' # v
            BY <3>1, <3>2
        <3>4. InCritical(w)' <=> m_mutex' = w
            BY <3>1
        <3>5. mpc' = "scan" <=> m_mutex' = Manager
            BY <3>1
        <3>6. QED
            BY <3>3, <3>4, <3>5
    <2>5. CASE WorkerLeaveWait(w)
        <3>1. /\ wpc[w] = "leave" /\ mpc' = mpc
              /\ \A v \in Slots \ {w} : wpc'[v] = wpc[v]
              /\ \/ m_mutex' = Nobody /\ wpc'[w] = "quit"
                 \/ m_mutex' = m_mutex /\ wpc'[w] = "take"
            BY <2>5 DEF WorkerLeaveWait
        <3>2. QED
            BY <3>1
    <2>6. CASE WorkerTakeTask(w)
        BY <2>6 DEF WorkerTakeTask
    <2>7. CASE WorkerFinishTask(w)
        BY <2>7 DEF WorkerFinishTask
    <2>8. CASE ThreadExit(w)
        BY <2>8 DEF ThreadExit
    <2>9. QED
        BY <1>1, <2>1, <2>2, <2>3, <2>4, <2>5, <2>6, <2>7, <2>8 DEF Worker
<1>2. ASSUME NEW w \in Slots, SpuriousWakeup(w)
      PROVE  MutualExclusion'
    BY <1>2 DEF SpuriousWakeup
<1>3. CASE ManagerStep
    <2>1. CASE ManagerTest
        BY <2>1 DEF ManagerTest
    <2>2. CASE ManagerSnapshot
        BY <2>2 DEF ManagerSnapshot, AfterGrow
    <2>3. CASE ManagerGrowLock
        BY <2>3 DEF ManagerGrowLock
    <2>4. CASE ManagerScanSlot
        BY <2>4, ScanEffect
    <2>5. CASE ManagerGrowUnlock
        BY <2>5 DEF ManagerGrowUnlock, AfterGrow
    <2>6. CASE ManagerShrink
        BY <2>6 DEF ManagerShrink
    <2>7. CASE ManagerSignal
        BY <2>7, SignalEffect DEF ManagerSignal
    <2>8. QED
        BY <1>3, <2>1, <2>2, <2>3, <2>4, <2>5, <2>6, <2>7 DEF ManagerStep
<1>4. ASSUME NEW c \in Callers, AddTaskRest(c) \/ \E t \in Tasks : AddTaskEnter(c, t)
      PROVE  MutualExclusion'
    <2>1. CASE AddTaskPush(c)
        BY <2>1 DEF AddTaskPush
    <2>2. CASE AddTaskSignal(c)
        BY <2>2, SignalEffect DEF AddTaskSignal
    <2>3. ASSUME NEW t \in Tasks, AddTaskEnter(c, t)
          PROVE  MutualExclusion'
        BY <2>3 DEF AddTaskEnter
    <2>4. QED
        BY <1>4, <2>1, <2>2, <2>3 DEF AddTaskRest
<1>5. CASE DestructorBegin
    BY <1>5 DEF DestructorBegin
<1>6. CASE DestructorRest
    <2>1. CASE DestructorJoin
        BY <2>1 DEF DestructorJoin
    <2>2. CASE DestructorSignal
        BY <2>2, SignalEffect DEF DestructorSignal
    <2>3. CASE DestructorFree
        BY <2>3 DEF DestructorFree
    <2>4. QED
        BY <1>6, <2>1, <2>2, <2>3 DEF DestructorRest
<1>7. CASE UNCHANGED vars
    BY <1>7 DEF vars
<1>8. QED
    BY <1>1, <1>2, <1>3, <1>4, <1>5, <1>6, <1>7 DEF Next, Deleted

\* m_mutex is owned by exactly the thread that is inside a section it protects.
THEOREM MutexCorrect == Spec => []MutualExclusion
<1>1. Init => MutualExclusion
    BY SizeAssumption DEF Init, MutualExclusion, InCritical, Slots, Manager, Nobody
<1>2. QED
    BY <1>1, MutexStep, TypeInvariant, PTL DEF Spec

-----------------------------------------------------------------------------
(***************************************************************************)
(* The size of the pool.                                                   *)
(***************************************************************************)

LEMMA AliveStep ==
    TypeInv /\ AliveBounds /\ [Next]_vars => AliveBounds'
<1> SUFFICES ASSUME TypeInv, AliveBounds, [Next]_vars
             PROVE  AliveBounds'
    OBVIOUS
<1> USE SizeAssumption
    DEF TypeInv, TypeOK, AliveBounds, counters, manager, callers, owner, history
<1>1. ASSUME NEW w \in Slots, Worker(w)
      PROVE  AliveBounds'
    <2>1. CASE WorkerLock(w)
        BY <2>1 DEF WorkerLock
    <2>2. CASE WorkerCheck(w)
        BY <2>2 DEF WorkerCheck
    <2>3. CASE WorkerSleep(w)
        BY <2>3 DEF WorkerSleep
    <2>4. CASE WorkerWake(w)
        BY <2>4 DEF WorkerWake, MayRetire
    <2>5. CASE WorkerLeaveWait(w)
        BY <2>5 DEF WorkerLeaveWait
    <2>6. CASE WorkerTakeTask(w)
        BY <2>6 DEF WorkerTakeTask
    <2>7. CASE WorkerFinishTask(w)
        BY <2>7 DEF WorkerFinishTask
    <2>8. CASE ThreadExit(w)
        BY <2>8 DEF ThreadExit
    <2>9. QED
        BY <1>1, <2>1, <2>2, <2>3, <2>4, <2>5, <2>6, <2>7, <2>8 DEF Worker
<1>2. ASSUME NEW w \in Slots, SpuriousWakeup(w)
      PROVE  AliveBounds'
    BY <1>2 DEF SpuriousWakeup
<1>3. CASE ManagerStep
    <2>1. CASE ManagerTest
        BY <2>1 DEF ManagerTest
    <2>2. CASE ManagerSnapshot
        BY <2>2 DEF ManagerSnapshot
    <2>3. CASE ManagerGrowLock
        BY <2>3 DEF ManagerGrowLock
    <2>4. CASE ManagerScanSlot
        <3>1. \/ m_aliveNum' = m_aliveNum
              \/ m_aliveNum < MaxNum /\ m_aliveNum' = m_aliveNum + 1
            BY <2>4, ScanEffect
        <3>2. QED
            BY <3>1
    <2>5. CASE ManagerGrowUnlock
        BY <2>5 DEF ManagerGrowUnlock
    <2>6. CASE ManagerShrink
        BY <2>6 DEF ManagerShrink
    <2>7. CASE ManagerSignal
        BY <2>7, SignalEffect DEF ManagerSignal
    <2>8. QED
        BY <1>3, <2>1, <2>2, <2>3, <2>4, <2>5, <2>6, <2>7 DEF ManagerStep
<1>4. ASSUME NEW c \in Callers, AddTaskRest(c) \/ \E t \in Tasks : AddTaskEnter(c, t)
      PROVE  AliveBounds'
    <2>1. CASE AddTaskPush(c)
        BY <2>1 DEF AddTaskPush
    <2>2. CASE AddTaskSignal(c)
        BY <2>2, SignalEffect DEF AddTaskSignal
    <2>3. ASSUME NEW t \in Tasks, AddTaskEnter(c, t)
          PROVE  AliveBounds'
        BY <2>3 DEF AddTaskEnter
    <2>4. QED
        BY <1>4, <2>1, <2>2, <2>3 DEF AddTaskRest
<1>5. CASE DestructorBegin
    BY <1>5 DEF DestructorBegin
<1>6. CASE DestructorRest
    <2>1. CASE DestructorJoin
        BY <2>1 DEF DestructorJoin
    <2>2. CASE DestructorSignal
        BY <2>2, SignalEffect DEF DestructorSignal
    <2>3. CASE DestructorFree
        BY <2>3 DEF DestructorFree
    <2>4. QED
        BY <1>6, <2>1, <2>2, <2>3 DEF DestructorRest
<1>7. CASE UNCHANGED vars
    BY <1>7 DEF vars
<1>8. QED
    BY <1>1, <1>2, <1>3, <1>4, <1>5, <1>6, <1>7 DEF Next, Deleted

\* minNum <= m_aliveNum <= maxNum, whatever the uninitialised m_exitNum holds and
\* however old the sizes are on which the manager decides.
THEOREM AliveBoundsHold == Spec => []AliveBounds
<1>1. Init => AliveBounds
    BY SizeAssumption DEF Init, AliveBounds
<1>2. QED
    BY <1>1, AliveStep, TypeInvariant, PTL DEF Spec

-----------------------------------------------------------------------------
(***************************************************************************)
(* What a worker that owns m_mutex knows between its tests of the queue    *)
(* and of m_end and its takeTask.                                          *)
(***************************************************************************)
Committed ==
    \A w \in Slots :
        /\ wpc[w] = "leave" => m_taskQ # <<>> \/ m_end
        /\ wpc[w] = "take" => m_taskQ # <<>>
        /\ wpc[w] = "work" => held[w] \in Tasks

LEMMA CommittedStep ==
    TypeInv /\ MutualExclusion /\ Committed /\ [Next]_vars => Committed'
<1> SUFFICES ASSUME TypeInv, MutualExclusion, Committed, [Next]_vars
             PROVE  Committed'
    OBVIOUS
<1> USE SizeAssumption
    DEF TypeInv, TypeOK, MutualExclusion, InCritical, Committed, Slots, Manager, Nobody,
        WorkerPCs, counters, manager, callers, owner, history
<1>1. ASSUME NEW w \in Slots, Worker(w)
      PROVE  Committed'
    <2>1. CASE WorkerLock(w)
        BY <2>1 DEF WorkerLock
    <2>2. CASE WorkerCheck(w)
        BY <2>2 DEF WorkerCheck, NothingToDo
    <2>3. CASE WorkerSleep(w)
        BY <2>3 DEF WorkerSleep
    <2>4. CASE WorkerWake(w)
        BY <2>4 DEF WorkerWake
    <2>5. CASE WorkerLeaveWait(w)
        BY <2>5 DEF WorkerLeaveWait
    <2>6. CASE WorkerTakeTask(w)
        BY <2>6 DEF WorkerTakeTask, FrontTask, PoppedQueue
    <2>7. CASE WorkerFinishTask(w)
        BY <2>7 DEF WorkerFinishTask
    <2>8. CASE ThreadExit(w)
        BY <2>8 DEF ThreadExit
    <2>9. QED
        BY <1>1, <2>1, <2>2, <2>3, <2>4, <2>5, <2>6, <2>7, <2>8 DEF Worker
<1>2. ASSUME NEW w \in Slots, SpuriousWakeup(w)
      PROVE  Committed'
    BY <1>2 DEF SpuriousWakeup
<1>3. CASE ManagerStep
    <2>1. CASE ManagerTest
        BY <2>1 DEF ManagerTest
    <2>2. CASE ManagerSnapshot
        BY <2>2 DEF ManagerSnapshot, AfterGrow
    <2>3. CASE ManagerGrowLock
        BY <2>3 DEF ManagerGrowLock
    <2>4. CASE ManagerScanSlot
        BY <2>4, ScanEffect
    <2>5. CASE ManagerGrowUnlock
        BY <2>5 DEF ManagerGrowUnlock
    <2>6. CASE ManagerShrink
        BY <2>6 DEF ManagerShrink
    <2>7. CASE ManagerSignal
        BY <2>7, SignalEffect DEF ManagerSignal
    <2>8. QED
        BY <1>3, <2>1, <2>2, <2>3, <2>4, <2>5, <2>6, <2>7 DEF ManagerStep
<1>4. ASSUME NEW c \in Callers, AddTaskRest(c) \/ \E t \in Tasks : AddTaskEnter(c, t)
      PROVE  Committed'
    <2>1. CASE AddTaskPush(c)
        BY <2>1 DEF AddTaskPush
    <2>2. CASE AddTaskSignal(c)
        BY <2>2, SignalEffect DEF AddTaskSignal
    <2>3. ASSUME NEW t \in Tasks, AddTaskEnter(c, t)
          PROVE  Committed'
        BY <2>3 DEF AddTaskEnter
    <2>4. QED
        BY <1>4, <2>1, <2>2, <2>3 DEF AddTaskRest
<1>5. CASE DestructorBegin
    BY <1>5 DEF DestructorBegin
<1>6. CASE DestructorRest
    <2>1. CASE DestructorJoin
        BY <2>1 DEF DestructorJoin
    <2>2. CASE DestructorSignal
        BY <2>2, SignalEffect DEF DestructorSignal
    <2>3. CASE DestructorFree
        BY <2>3 DEF DestructorFree
    <2>4. QED
        BY <1>6, <2>1, <2>2, <2>3 DEF DestructorRest
<1>7. CASE UNCHANGED vars
    BY <1>7 DEF vars
<1>8. QED
    BY <1>1, <1>2, <1>3, <1>4, <1>5, <1>6, <1>7 DEF Next, Deleted

LEMMA CommittedInvariant == Spec => []Committed
<1>1. Init => Committed
    BY SizeAssumption DEF Init, Committed, Slots
<1>2. QED
    BY <1>1, CommittedStep, TypeInvariant, MutexCorrect, PTL DEF Spec

\* A worker never calls the null function of the empty Task that takeTask
\* returns for an empty queue, although addTask changes the queue without
\* m_mutex and a worker can wake up for no reason.
THEOREM NullTaskNeverCalled == Spec => []NoNullTask
<1>1. Committed => NoNullTask
    BY TaskAssumption DEF Committed, NoNullTask, Busy
<1>2. QED
    BY <1>1, CommittedInvariant, PTL

-----------------------------------------------------------------------------
(***************************************************************************)
(* Closing the pool.                                                       *)
(***************************************************************************)
Late ==
    /\ ~m_end => lateStarts = 0
    /\ lateStarts <= 1
    /\ lateStarts = 1 => \A w \in Slots : wpc[w] # "take"

LEMMA LateStep ==
    TypeInv /\ MutualExclusion /\ Late /\ [Next]_vars => Late'
<1> SUFFICES ASSUME TypeInv, MutualExclusion, Late, [Next]_vars
             PROVE  Late'
    OBVIOUS
<1> USE SizeAssumption
    DEF TypeInv, TypeOK, MutualExclusion, InCritical, Late, Slots, Manager, Nobody,
        WorkerPCs, counters, manager, callers, owner, history
<1>1. ASSUME NEW w \in Slots, Worker(w)
      PROVE  Late'
    <2>1. CASE WorkerLock(w)
        BY <2>1 DEF WorkerLock
    <2>2. CASE WorkerCheck(w)
        BY <2>2 DEF WorkerCheck
    <2>3. CASE WorkerSleep(w)
        BY <2>3 DEF WorkerSleep
    <2>4. CASE WorkerWake(w)
        BY <2>4 DEF WorkerWake
    <2>5. CASE WorkerLeaveWait(w)
        BY <2>5 DEF WorkerLeaveWait
    <2>6. CASE WorkerTakeTask(w)
        BY <2>6 DEF WorkerTakeTask
    <2>7. CASE WorkerFinishTask(w)
        BY <2>7 DEF WorkerFinishTask
    <2>8. CASE ThreadExit(w)
        BY <2>8 DEF ThreadExit
    <2>9. QED
        BY <1>1, <2>1, <2>2, <2>3, <2>4, <2>5, <2>6, <2>7, <2>8 DEF Worker
<1>2. ASSUME NEW w \in Slots, SpuriousWakeup(w)
      PROVE  Late'
    BY <1>2 DEF SpuriousWakeup
<1>3. CASE ManagerStep
    <2>1. CASE ManagerTest
        BY <2>1 DEF ManagerTest
    <2>2. CASE ManagerSnapshot
        BY <2>2 DEF ManagerSnapshot, AfterGrow
    <2>3. CASE ManagerGrowLock
        BY <2>3 DEF ManagerGrowLock
    <2>4. CASE ManagerScanSlot
        <3>1. \A w \in Slots : wpc'[w] = wpc[w] \/ wpc'[w] = "lock"
            BY <2>4, ScanEffect
        <3>2. UNCHANGED <<m_end, lateStarts>>
            BY <2>4, ScanEffect
        <3>3. QED
            BY <3>1, <3>2
    <2>5. CASE ManagerGrowUnlock
        BY <2>5 DEF ManagerGrowUnlock
    <2>6. CASE ManagerShrink
        BY <2>6 DEF ManagerShrink
    <2>7. CASE ManagerSignal
        BY <2>7, SignalEffect DEF ManagerSignal
    <2>8. QED
        BY <1>3, <2>1, <2>2, <2>3, <2>4, <2>5, <2>6, <2>7 DEF ManagerStep
<1>4. ASSUME NEW c \in Callers, AddTaskRest(c) \/ \E t \in Tasks : AddTaskEnter(c, t)
      PROVE  Late'
    <2>1. CASE AddTaskPush(c)
        BY <2>1 DEF AddTaskPush
    <2>2. CASE AddTaskSignal(c)
        BY <2>2, SignalEffect DEF AddTaskSignal
    <2>3. ASSUME NEW t \in Tasks, AddTaskEnter(c, t)
          PROVE  Late'
        BY <2>3 DEF AddTaskEnter
    <2>4. QED
        BY <1>4, <2>1, <2>2, <2>3 DEF AddTaskRest
<1>5. CASE DestructorBegin
    BY <1>5 DEF DestructorBegin
<1>6. CASE DestructorRest
    <2>1. CASE DestructorJoin
        BY <2>1 DEF DestructorJoin
    <2>2. CASE DestructorSignal
        BY <2>2, SignalEffect DEF DestructorSignal
    <2>3. CASE DestructorFree
        BY <2>3 DEF DestructorFree
    <2>4. QED
        BY <1>6, <2>1, <2>2, <2>3 DEF DestructorRest
<1>7. CASE UNCHANGED vars
    BY <1>7 DEF vars
<1>8. QED
    BY <1>1, <1>2, <1>3, <1>4, <1>5, <1>6, <1>7 DEF Next, Deleted

\* Once the owner has set m_end at most one more task is started: only the
\* owner of m_mutex can be between its test of m_end and its takeTask.
THEOREM LateStartsBounded == Spec => []AtMostOneLateStart
<1>1. Init => Late
    BY DEF Init, Late
<1>2. Late => AtMostOneLateStart
    BY DEF Late, AtMostOneLateStart
<1>3. QED
    BY <1>1, <1>2, LateStep, TypeInvariant, MutexCorrect, PTL DEF Spec

-----------------------------------------------------------------------------
(***************************************************************************)
(* The counters.  Most steps leave the sets Busy and Live as they are; the *)
(* four that do not change the counter by one with the set.                *)
(***************************************************************************)
BusyExact == m_busyNum = Cardinality(Busy)
LiveExact == ~m_end => m_aliveNum = Cardinality(Live)
QuitAfterEnd == \A w \in Slots : wpc[w] = "quit" => m_end

LEMMA FiniteSlots == \A S \in SUBSET Slots : IsFiniteSet(S) /\ Cardinality(S) \in Nat
<1>1. IsFiniteSet(Slots)
    BY SizeAssumption, FS_Interval DEF Slots
<1>2. QED
    BY <1>1, FS_Subset, FS_CardinalityType

LEMMA CountInit == Init => BusyExact /\ LiveExact /\ QuitAfterEnd
<1> SUFFICES ASSUME Init
             PROVE  BusyExact /\ LiveExact /\ QuitAfterEnd
    OBVIOUS
<1>1. Busy = {}
    BY DEF Init, Busy
<1>2. Live = 0 .. MinNum - 1
    BY SizeAssumption DEF Init, Live, Slots
<1>3. Cardinality(0 .. MinNum - 1) = MinNum
    BY SizeAssumption, FS_Interval
<1>4. QED
    BY <1>1, <1>2, <1>3, FS_EmptySet DEF Init, BusyExact, LiveExact, QuitAfterEnd

LEMMA QuitStep == TypeInv /\ QuitAfterEnd /\ [Next]_vars => QuitAfterEnd'
<1> SUFFICES ASSUME TypeInv, QuitAfterEnd, [Next]_vars
             PROVE  QuitAfterEnd'
    OBVIOUS
<1> USE DEF TypeInv, TypeOK, QuitAfterEnd, WorkerPCs, counters, manager, callers, owner, history
<1>1. ASSUME NEW w \in Slots, Worker(w)
      PROVE  QuitAfterEnd'
    <2>1. CASE WorkerLock(w)
        BY <2>1 DEF WorkerLock
    <2>2. CASE WorkerCheck(w)
        BY <2>2 DEF WorkerCheck
    <2>3. CASE WorkerSleep(w)
        BY <2>3 DEF WorkerSleep
    <2>4. CASE WorkerWake(w)
        BY <2>4 DEF WorkerWake
    <2>5. CASE WorkerLeaveWait(w)
        BY <2>5 DEF WorkerLeaveWait
    <2>6. CASE WorkerTakeTask(w)
        BY <2>6 DEF WorkerTakeTask
    <2>7. CASE WorkerFinishTask(w)
        BY <2>7 DEF WorkerFinishTask
    <2>8. CASE ThreadExit(w)
        BY <2>8 DEF ThreadExit
    <2>9. QED
        BY <1>1, <2>1, <2>2, <2>3, <2>4, <2>5, <2>6, <2>7, <2>8 DEF Worker
<1>2. ASSUME NEW w \in Slots, SpuriousWakeup(w)
      PROVE  QuitAfterEnd'
    BY <1>2 DEF SpuriousWakeup
<1>3. CASE ManagerStep
    <2>1. CASE ManagerTest
        BY <2>1 DEF ManagerTest
    <2>2. CASE ManagerSnapshot
        BY <2>2 DEF ManagerSnapshot
    <2>3. CASE ManagerGrowLock
        BY <2>3 DEF ManagerGrowLock
    <2>4. CASE ManagerScanSlot
        BY <2>4 DEF ManagerScanSlot
    <2>5. CASE ManagerGrowUnlock
        BY <2>5 DEF ManagerGrowUnlock
    <2>6. CASE ManagerShrink
        BY <2>6 DEF ManagerShrink
    <2>7. CASE ManagerSignal
        BY <2>7, SignalEffect DEF ManagerSignal
    <2>8. QED
        BY <1>3, <2>1, <2>2, <2>3, <2>4, <2>5, <2>6, <2>7 DEF ManagerStep
<1>4. ASSUME NEW c \in Callers, AddTaskRest(c) \/ \E t \in Tasks : AddTaskEnter(c, t)
      PROVE  QuitAfterEnd'
    <2>1. CASE AddTaskPush(c)
        BY <2>1 DEF AddTaskPush
    <2>2. CASE AddTaskSignal(c)
        BY <2>2, SignalEffect DEF AddTaskSignal
    <2>3. ASSUME NEW t \in Tasks, AddTaskEnter(c, t)
          PROVE  QuitAfterEnd'
        BY <2>3 DEF AddTaskEnter
    <2>4. QED
        BY <1>4, <2>1, <2>2, <2>3 DEF AddTaskRest
<1>5. CASE DestructorBegin
    BY <1>5 DEF DestructorBegin
<1>6. CASE DestructorRest
    <2>1. CASE DestructorJoin
        BY <2>1 DEF DestructorJoin
    <2>2. CASE DestructorSignal
        BY <2>2, SignalEffect DEF DestructorSignal
    <2>3. CASE DestructorFree
        BY <2>3 DEF DestructorFree
    <2>4. QED
        BY <1>6, <2>1, <2>2, <2>3 DEF DestructorRest
<1>7. CASE UNCHANGED vars
    BY <1>7 DEF vars
<1>8. QED
    BY <1>1, <1>2, <1>3, <1>4, <1>5, <1>6, <1>7 DEF Next, Deleted

LEMMA BusyStep == TypeInv /\ BusyExact /\ [Next]_vars => BusyExact'
<1> SUFFICES ASSUME TypeInv, BusyExact, [Next]_vars
             PROVE  BusyExact'
    OBVIOUS
<1>a. ASSUME Busy' = Busy, m_busyNum' = m_busyNum
      PROVE  BusyExact'
    BY <1>a DEF BusyExact
<1>b. IsFiniteSet(Busy) /\ Cardinality(Busy) \in Nat
    BY FiniteSlots DEF Busy
<1> USE DEF TypeInv, TypeOK, WorkerPCs, counters, manager, callers, owner, history
<1>1. ASSUME NEW w \in Slots, Worker(w)
      PROVE  BusyExact'
    <2>1. CASE WorkerLock(w)
        <3>1. Busy' = Busy /\ m_busyNum' = m_busyNum
            BY <2>1 DEF WorkerLock, Busy
        <3>2. QED
            BY <3>1, <1>a
    <2>2. CASE WorkerCheck(w)
        <3>1. Busy' = Busy /\ m_busyNum' = m_busyNum
            BY <2>2 DEF WorkerCheck, Busy
        <3>2. QED
            BY <3>1, <1>a
    <2>3. CASE WorkerSleep(w)
        <3>1. Busy' = Busy /\ m_busyNum' = m_busyNum
            BY <2>3 DEF WorkerSleep, Busy
        <3>2. QED
            BY <3>1, <1>a
    <2>4. CASE WorkerWake(w)
        <3>1. Busy' = Busy /\ m_busyNum' = m_busyNum
            BY <2>4 DEF WorkerWake, Busy
        <3>2. QED
            BY <3>1, <1>a
    <2>5. CASE WorkerLeaveWait(w)
        <3>1. Busy' = Busy /\ m_busyNum' = m_busyNum
            BY <2>5 DEF WorkerLeaveWait, Busy
        <3>2. QED
            BY <3>1, <1>a
    <2>6. CASE WorkerTakeTask(w)
        <3>1. Busy' = Busy \cup {w} /\ w \notin Busy
            BY <2>6 DEF WorkerTakeTask, Busy
        <3>2. QED
            BY <2>6, <3>1, <1>b, FS_AddElement DEF WorkerTakeTask, BusyExact
    <2>7. CASE WorkerFinishTask(w)
        <3>1. Busy' = Busy \ {w} /\ w \in Busy
            BY <2>7 DEF WorkerFinishTask, Busy
        <3>2. QED
            BY <2>7, <3>1, <1>b, FS_RemoveElement DEF WorkerFinishTask, BusyExact
    <2>8. CASE ThreadExit(w)
        <3>1. Busy' = Busy /\ m_busyNum' = m_busyNum
            BY <2>8 DEF ThreadExit, Busy
        <3>2. QED
            BY <3>1, <1>a
    <2>9. QED
        BY <1>1, <2>1, <2>2, <2>3, <2>4, <2>5, <2>6, <2>7, <2>8 DEF Worker
<1>2. ASSUME NEW w \in Slots, SpuriousWakeup(w)
      PROVE  BusyExact'
    <2>1. Busy' = Busy /\ m_busyNum' = m_busyNum
        BY <1>2 DEF SpuriousWakeup, Busy
    <2>2. QED
        BY <2>1, <1>a
<1>3. CASE ManagerStep
    <2>1. CASE ManagerTest
        <3>1. Busy' = Busy /\ m_busyNum' = m_busyNum
            BY <2>1 DEF ManagerTest, Busy
        <3>2. QED
            BY <3>1, <1>a
    <2>2. CASE ManagerSnapshot
        <3>1. Busy' = Busy /\ m_busyNum' = m_busyNum
            BY <2>2 DEF ManagerSnapshot, Busy
        <3>2. QED
            BY <3>1, <1>a
    <2>3. CASE ManagerGrowLock
        <3>1. Busy' = Busy /\ m_busyNum' = m_busyNum
            BY <2>3 DEF ManagerGrowLock, Busy
        <3>2. QED
            BY <3>1, <1>a
    <2>4. CASE ManagerScanSlot
        <3>1. Busy' = Busy /\ m_busyNum' = m_busyNum
            BY <2>4 DEF ManagerScanSlot, Busy
        <3>2. QED
            BY <3>1, <1>a
    <2>5. CASE ManagerGrowUnlock
        <3>1. Busy' = Busy /\ m_busyNum' = m_busyNum
            BY <2>5 DEF ManagerGrowUnlock, Busy
        <3>2. QED
            BY <3>1, <1>a
    <2>6. CASE ManagerShrink
        <3>1. Busy' = Busy /\ m_busyNum' = m_busyNum
            BY <2>6 DEF ManagerShrink, Busy
        <3>2. QED
            BY <3>1, <1>a
    <2>7. CASE ManagerSignal
        <3>1. Busy' = Busy /\ m_busyNum' = m_busyNum
            BY <2>7, SignalEffect DEF ManagerSignal, Busy
        <3>2. QED
            BY <3>1, <1>a
    <2>8. QED
        BY <1>3, <2>1, <2>2, <2>3, <2>4, <2>5, <2>6, <2>7 DEF ManagerStep
<1>4. ASSUME NEW c \in Callers, AddTaskRest(c) \/ \E t \in Tasks : AddTaskEnter(c, t)
      PROVE  BusyExact'
    <2>1. CASE AddTaskPush(c)
        <3>1. Busy' = Busy /\ m_busyNum' = m_busyNum
            BY <2>1 DEF AddTaskPush, Busy
        <3>2. QED
            BY <3>1, <1>a
    <2>2. CASE AddTaskSignal(c)
        <3>1. Busy' = Busy /\ m_busyNum' = m_busyNum
            BY <2>2, SignalEffect DEF AddTaskSignal, Busy
        <3>2. QED
            BY <3>1, <1>a
    <2>3. ASSUME NEW t \in Tasks, AddTaskEnter(c, t)
          PROVE  BusyExact'
        BY <2>3, <1>a DEF AddTaskEnter, Busy
    <2>4. QED
        BY <1>4, <2>1, <2>2, <2>3 DEF AddTaskRest
<1>5. CASE DestructorBegin
    BY <1>5, <1>a DEF DestructorBegin, Busy
<1>6. CASE DestructorRest
    <2>1. CASE DestructorJoin
        <3>1. Busy' = Busy /\ m_busyNum' = m_busyNum
            BY <2>1 DEF DestructorJoin, Busy
        <3>2. QED
            BY <3>1, <1>a
    <2>2. CASE DestructorSignal
        <3>1. Busy' = Busy /\ m_busyNum' = m_busyNum
            BY <2>2, SignalEffect DEF DestructorSignal, Busy
        <3>2. QED
            BY <3>1, <1>a
    <2>3. CASE DestructorFree
        <3>1. Busy' = Busy /\ m_busyNum' = m_busyNum
            BY <2>3 DEF DestructorFree, Busy
        <3>2. QED
            BY <3>1, <1>a
    <2>4. QED
        BY <1>6, <2>1, <2>2, <2>3 DEF DestructorRest
<1>7. CASE UNCHANGED vars
    BY <1>7, <1>a DEF vars, Busy
<1>8. QED
    BY <1>1, <1>2, <1>3, <1>4, <1>5, <1>6, <1>7 DEF Next, Deleted

LEMMA LiveStep ==
    TypeInv /\ QuitAfterEnd /\ LiveExact /\ [Next]_vars => LiveExact'
<1> SUFFICES ASSUME TypeInv, QuitAfterEnd, LiveExact, [Next]_vars
             PROVE  LiveExact'
    OBVIOUS
<1>a. ASSUME Live' = Live, m_aliveNum' = m_aliveNum, m_end' = m_end
      PROVE  LiveExact'
    BY <1>a DEF LiveExact
<1>b. IsFiniteSet(Live) /\ Cardinality(Live) \in Nat
    BY FiniteSlots DEF Live
<1> USE DEF TypeInv, TypeOK, WorkerPCs, counters, manager, callers, owner, history
<1>1. ASSUME NEW w \in Slots, Worker(w)
      PROVE  LiveExact'
    <2>1. CASE WorkerLock(w)
        <3>1. Live' = Live /\ m_aliveNum' = m_aliveNum /\ m_end' = m_end
            BY <2>1 DEF WorkerLock, Live
        <3>2. QED
            BY <3>1, <1>a
    <2>2. CASE WorkerCheck(w)
        <3>1. Live' = Live /\ m_aliveNum' = m_aliveNum /\ m_end' = m_end
            BY <2>2 DEF WorkerCheck, Live
        <3>2. QED
            BY <3>1, <1>a
    <2>3. CASE WorkerSleep(w)
        <3>1. Live' = Live /\ m_aliveNum' = m_aliveNum /\ m_end' = m_end
            BY <2>3 DEF WorkerSleep, Live
        <3>2. QED
            BY <3>1, <1>a
    <2>4. CASE WorkerWake(w)
        <3>1. CASE wpc'[w] = "retire"
            <4>1. Live' = Live \ {w} /\ w \in Live /\ m_aliveNum' = m_aliveNum - 1 /\ m_end' = m_end
                BY <2>4, <3>1 DEF WorkerWake, Live
            <4>2. QED
                BY <4>1, <1>b, FS_RemoveElement DEF LiveExact
        <3>2. CASE wpc'[w] # "retire"
            <4>1. Live' = Live /\ m_aliveNum' = m_aliveNum /\ m_end' = m_end
                BY <2>4, <3>2 DEF WorkerWake, Live
            <4>2. QED
                BY <4>1, <1>a
        <3>3. QED
            BY <3>1, <3>2
    <2>5. CASE WorkerLeaveWait(w)
        <3>1. Live' = Live /\ m_aliveNum' = m_aliveNum /\ m_end' = m_end
            BY <2>5 DEF WorkerLeaveWait, Live
        <3>2. QED
            BY <3>1, <1>a
    <2>6. CASE WorkerTakeTask(w)
        <3>1. Live' = Live /\ m_aliveNum' = m_aliveNum /\ m_end' = m_end
            BY <2>6 DEF WorkerTakeTask, Live
        <3>2. QED
            BY <3>1, <1>a
    <2>7. CASE WorkerFinishTask(w)
        <3>1. Live' = Live /\ m_aliveNum' = m_aliveNum /\ m_end' = m_end
            BY <2>7 DEF WorkerFinishTask, Live
        <3>2. QED
            BY <3>1, <1>a
    <2>8. CASE ThreadExit(w)
        <3>1. CASE wpc[w] = "quit"
            BY <2>8, <3>1 DEF ThreadExit, QuitAfterEnd, LiveExact
        <3>2. CASE wpc[w] = "retire"
            <4>1. Live' = Live /\ m_aliveNum' = m_aliveNum /\ m_end' = m_end
                BY <2>8, <3>2 DEF ThreadExit, Live
            <4>2. QED
                BY <4>1, <1>a
        <3>3. QED
            BY <2>8, <3>1, <3>2 DEF ThreadExit
    <2>9. QED
        BY <1>1, <2>1, <2>2, <2>3, <2>4, <2>5, <2>6, <2>7, <2>8 DEF Worker
<1>2. ASSUME NEW w \in Slots, SpuriousWakeup(w)
      PROVE  LiveExact'
    <2>1. Live' = Live /\ m_aliveNum' = m_aliveNum /\ m_end' = m_end
        BY <1>2 DEF SpuriousWakeup, Live
    <2>2. QED
        BY <2>1, <1>a
<1>3. CASE ManagerStep
    <2>1. CASE ManagerTest
        <3>1. Live' = Live /\ m_aliveNum' = m_aliveNum /\ m_end' = m_end
            BY <2>1 DEF ManagerTest, Live
        <3>2. QED
            BY <3>1, <1>a
    <2>2. CASE ManagerSnapshot
        <3>1. Live' = Live /\ m_aliveNum' = m_aliveNum /\ m_end' = m_end
            BY <2>2 DEF ManagerSnapshot, Live
        <3>2. QED
            BY <3>1, <1>a
    <2>3. CASE ManagerGrowLock
        <3>1. Live' = Live /\ m_aliveNum' = m_aliveNum /\ m_end' = m_end
            BY <2>3 DEF ManagerGrowLock, Live
        <3>2. QED
            BY <3>1, <1>a
    <2>4. CASE ManagerScanSlot
        <3>1. mscan.i \in Slots
            BY <2>4, SizeAssumption DEF ManagerScanSlot, ScanGoesOn, NUMBER, Slots
        <3>2. CASE wpc[mscan.i] = "none"
            <4>1. wpc' = [wpc EXCEPT ![mscan.i] = "lock"] /\ m_aliveNum' = m_aliveNum + 1 /\ m_end' = m_end
                BY <2>4, <3>2 DEF ManagerScanSlot
            <4>2. Live' = Live \cup {mscan.i} /\ mscan.i \notin Live
                BY <3>1, <3>2, <4>1 DEF Live
            <4>3. QED
                BY <4>1, <4>2, <1>b, FS_AddElement DEF LiveExact
        <3>3. CASE wpc[mscan.i] # "none"
            <4>1. wpc' = wpc /\ m_aliveNum' = m_aliveNum /\ m_end' = m_end
                BY <2>4, <3>3 DEF ManagerScanSlot
            <4>2. QED
                BY <4>1, <1>a DEF Live
        <3>4. QED
            BY <3>2, <3>3
    <2>5. CASE ManagerGrowUnlock
        <3>1. Live' = Live /\ m_aliveNum' = m_aliveNum /\ m_end' = m_end
            BY <2>5 DEF ManagerGrowUnlock, Live
        <3>2. QED
            BY <3>1, <1>a
    <2>6. CASE ManagerShrink
        <3>1. Live' = Live /\ m_aliveNum' = m_aliveNum /\ m_end' = m_end
            BY <2>6 DEF ManagerShrink, Live
        <3>2. QED
            BY <3>1, <1>a
    <2>7. CASE ManagerSignal
        <3>1. Live' = Live /\ m_aliveNum' = m_aliveNum /\ m_end' = m_end
            BY <2>7, SignalEffect DEF ManagerSignal, Live
        <3>2. QED
            BY <3>1, <1>a
    <2>8. QED
        BY <1>3, <2>1, <2>2, <2>3, <2>4, <2>5, <2>6, <2>7 DEF ManagerStep
<1>4. ASSUME NEW c \in Callers, AddTaskRest(c) \/ \E t \in Tasks : AddTaskEnter(c, t)
      PROVE  LiveExact'
    <2>1. CASE AddTaskPush(c)
        <3>1. Live' = Live /\ m_aliveNum' = m_aliveNum /\ m_end' = m_end
            BY <2>1 DEF AddTaskPush, Live
        <3>2. QED
            BY <3>1, <1>a
    <2>2. CASE AddTaskSignal(c)
        <3>1. Live' = Live /\ m_aliveNum' = m_aliveNum /\ m_end' = m_end
            BY <2>2, SignalEffect DEF AddTaskSignal, Live
        <3>2. QED
            BY <3>1, <1>a
    <2>3. ASSUME NEW t \in Tasks, AddTaskEnter(c, t)
          PROVE  LiveExact'
        BY <2>3, <1>a DEF AddTaskEnter, Live
    <2>4. QED
        BY <1>4, <2>1, <2>2, <2>3 DEF AddTaskRest
<1>5. CASE DestructorBegin
    BY <1>5 DEF DestructorBegin, LiveExact
<1>6. CASE DestructorRest
    <2>1. CASE DestructorJoin
        <3>1. Live' = Live /\ m_aliveNum' = m_aliveNum /\ m_end' = m_end
            BY <2>1 DEF DestructorJoin, Live
        <3>2. QED
            BY <3>1, <1>a
    <2>2. CASE DestructorSignal
        <3>1. Live' = Live /\ m_aliveNum' = m_aliveNum /\ m_end' = m_end
            BY <2>2, SignalEffect DEF DestructorSignal, Live
        <3>2. QED
            BY <3>1, <1>a
    <2>3. CASE DestructorFree
        <3>1. Live' = Live /\ m_aliveNum' = m_aliveNum /\ m_end' = m_end
            BY <2>3 DEF DestructorFree, Live
        <3>2. QED
            BY <3>1, <1>a
    <2>4. QED
        BY <1>6, <2>1, <2>2, <2>3 DEF DestructorRest
<1>7. CASE UNCHANGED vars
    BY <1>7, <1>a DEF vars, Live
<1>8. QED
    BY <1>1, <1>2, <1>3, <1>4, <1>5, <1>6, <1>7 DEF Next, Deleted

\* m_busyNum counts the workers inside a task and, until the pool is closed,
\* m_aliveNum counts the workers that have not decided to exit.
THEOREM CountsCorrect == Spec => []AccurateCounts
<1>1. BusyExact /\ LiveExact => AccurateCounts
    BY DEF BusyExact, LiveExact, AccurateCounts
<1>2. QED
    BY <1>1, CountInit, QuitStep, BusyStep, LiveStep, TypeInvariant, PTL DEF Spec

-----------------------------------------------------------------------------
(***************************************************************************)
(* The threads of ThreadPool implement TaskPool.  A pop is the abstract    *)
(* Start, the end of a task Finish, a push Submit and the first step of    *)
(* the destructor Close; every other step is a stutter.  What has to be    *)
(* shown is that a task is never in two places at once.                    *)
(***************************************************************************)
\* A caller of addTask, the queue and the workers never share a task, and each
\* has a task once.
DistinctTasks ==
    /\ \A i, j \in DOMAIN m_taskQ : m_taskQ[i] = m_taskQ[j] => i = j
    /\ \A w \in Slots : held[w] # NoTask => wpc[w] = "work" /\ ~InQueue(held[w])
    /\ \A v, w \in Slots : held[v] # NoTask /\ held[v] = held[w] => v = w
    /\ \A c \in Callers : ctask[c] # NoTask =>
           /\ ~InQueue(ctask[c])
           /\ ctask[c] \notin finished
           /\ \A w \in Slots : held[w] # ctask[c]
    /\ \A b, c \in Callers : ctask[b] # NoTask /\ ctask[b] = ctask[c] => b = c

\* What a pop and a push do to a queue without repetitions.
LEMMA PoppedSequence ==
    ASSUME NEW S, NEW q \in Seq(S), q # <<>>,
           \A i, j \in DOMAIN q : q[i] = q[j] => i = j
    PROVE  /\ \A i, j \in DOMAIN Tail(q) : Tail(q)[i] = Tail(q)[j] => i = j
           /\ \A i \in DOMAIN Tail(q) : Tail(q)[i] # Head(q) /\ \E j \in DOMAIN q : q[j] = Tail(q)[i]
           /\ \E j \in DOMAIN q : q[j] = Head(q)
<1>1. /\ Len(q) \in Nat \ {0} /\ DOMAIN q = 1 .. Len(q)
      /\ Len(Tail(q)) = Len(q) - 1 /\ DOMAIN Tail(q) = 1 .. Len(q) - 1
      /\ \A i \in 1 .. Len(q) - 1 : Tail(q)[i] = q[i + 1]
      /\ Head(q) = q[1]
    OBVIOUS
<1>2. QED
    BY <1>1

LEMMA PushedSequence ==
    ASSUME NEW S, NEW q \in Seq(S), NEW t \in S,
           \A i, j \in DOMAIN q : q[i] = q[j] => i = j,
           \A i \in DOMAIN q : q[i] # t
    PROVE  /\ \A i, j \in DOMAIN Append(q, t) : Append(q, t)[i] = Append(q, t)[j] => i = j
           /\ \A i \in DOMAIN Append(q, t) :
                 Append(q, t)[i] = t \/ \E j \in DOMAIN q : q[j] = Append(q, t)[i]
<1>1. /\ Len(q) \in Nat /\ DOMAIN q = 1 .. Len(q)
      /\ DOMAIN Append(q, t) = 1 .. Len(q) + 1
      /\ \A i \in 1 .. Len(q) : Append(q, t)[i] = q[i]
      /\ Append(q, t)[Len(q) + 1] = t
    OBVIOUS
<1>2. QED
    BY <1>1

LEMMA DistinctStep ==
    TypeInv /\ Committed /\ DistinctTasks /\ [Next]_vars => DistinctTasks'
<1> SUFFICES ASSUME TypeInv, Committed, DistinctTasks, [Next]_vars
             PROVE  DistinctTasks'
    OBVIOUS
<1> USE TaskAssumption
    DEF TypeInv, TypeOK, DistinctTasks, InQueue, WorkerPCs,
        counters, manager, callers, owner, history
<1>1. ASSUME NEW w \in Slots, Worker(w)
      PROVE  DistinctTasks'
    <2>1. CASE WorkerLock(w)
        BY <2>1 DEF WorkerLock
    <2>2. CASE WorkerCheck(w)
        BY <2>2 DEF WorkerCheck
    <2>3. CASE WorkerSleep(w)
        BY <2>3 DEF WorkerSleep
    <2>4. CASE WorkerWake(w)
        BY <2>4 DEF WorkerWake
    <2>5. CASE WorkerLeaveWait(w)
        BY <2>5 DEF WorkerLeaveWait
    <2>6. CASE WorkerTakeTask(w)
        <3>1. m_taskQ # <<>> /\ m_taskQ \in Seq(Tasks)
            BY <2>6 DEF WorkerTakeTask, Committed
        <3>2. /\ m_taskQ' = Tail(m_taskQ) /\ held' = [held EXCEPT ![w] = Head(m_taskQ)]
              /\ wpc' = [wpc EXCEPT ![w] = "work"] /\ UNCHANGED <<ctask, finished>>
            BY <2>6, <3>1 DEF WorkerTakeTask, FrontTask, PoppedQueue
        <3>3. \A v \in Slots \ {w} : held'[v] = held[v] /\ wpc'[v] = wpc[v]
            BY <3>2
        <3>4. /\ \A i, j \in DOMAIN m_taskQ' : m_taskQ'[i] = m_taskQ'[j] => i = j
              /\ \A t : InQueue(t)' => InQueue(t) /\ t # Head(m_taskQ)
              /\ InQueue(Head(m_taskQ))
            <4>1. \A i, j \in DOMAIN m_taskQ : m_taskQ[i] = m_taskQ[j] => i = j
                OBVIOUS
            <4>2. m_taskQ' = Tail(m_taskQ)
                BY <3>2
            <4>3. QED
                BY ONLY <3>1, <4>1, <4>2, PoppedSequence DEF InQueue
        <3>5. held'[w] = Head(m_taskQ) /\ wpc'[w] = "work"
            BY <3>2
        <3>6. \A v \in Slots \ {w} : held[v] # NoTask => held[v] # Head(m_taskQ)
            BY <3>4
        <3>7. \A c \in Callers : ctask[c] # NoTask => ctask[c] # Head(m_taskQ)
            BY <3>4
        <3>8. \A v \in Slots : held'[v] # NoTask => wpc'[v] = "work" /\ ~InQueue(held[v])'
            <4>1. ~InQueue(held[w])' /\ wpc'[w] = "work"
                BY <3>4, <3>5
            <4>2. ASSUME NEW v \in Slots \ {w}, held'[v] # NoTask
                  PROVE  wpc'[v] = "work" /\ ~InQueue(held[v])'
                <5>1. held[v] # NoTask /\ held'[v] = held[v] /\ wpc'[v] = wpc[v]
                    BY <3>3, <4>2
                <5>2. wpc[v] = "work" /\ ~InQueue(held[v])
                    BY <5>1
                <5>3. \A i \in DOMAIN m_taskQ' : m_taskQ'[i] # held[v]
                    BY ONLY <3>4, <5>2 DEF InQueue
                <5>4. QED
                    BY ONLY <5>1, <5>2, <5>3 DEF InQueue
            <4>3. QED
                BY <4>1, <4>2
        <3>9. \A u, v \in Slots : held'[u] # NoTask /\ held'[u] = held'[v] => u = v
            BY <3>3, <3>5, <3>6
        <3>10. \A c \in Callers : ctask'[c] # NoTask =>
                   /\ ~InQueue(ctask[c])'
                   /\ ctask'[c] \notin finished'
                   /\ \A v \in Slots : held'[v] # ctask'[c]
            BY <3>2, <3>3, <3>4, <3>5, <3>7
        <3>11. QED
            BY <3>2, <3>4, <3>8, <3>9, <3>10
    <2>7. CASE WorkerFinishTask(w)
        BY <2>7 DEF WorkerFinishTask
    <2>8. CASE ThreadExit(w)
        BY <2>8 DEF ThreadExit
    <2>9. QED
        BY <1>1, <2>1, <2>2, <2>3, <2>4, <2>5, <2>6, <2>7, <2>8 DEF Worker
<1>2. ASSUME NEW w \in Slots, SpuriousWakeup(w)
      PROVE  DistinctTasks'
    BY <1>2 DEF SpuriousWakeup
<1>3. CASE ManagerStep
    <2>1. CASE ManagerTest
        BY <2>1 DEF ManagerTest
    <2>2. CASE ManagerSnapshot
        BY <2>2 DEF ManagerSnapshot
    <2>3. CASE ManagerGrowLock
        BY <2>3 DEF ManagerGrowLock
    <2>4. CASE ManagerScanSlot
        <3>1. \A w \in Slots : wpc'[w] = "work" <=> wpc[w] = "work"
            BY <2>4, ScanEffect
        <3>2. UNCHANGED <<m_taskQ, held, ctask, finished>>
            BY <2>4, ScanEffect
        <3>3. QED
            BY <3>1, <3>2
    <2>5. CASE ManagerGrowUnlock
        BY <2>5 DEF ManagerGrowUnlock
    <2>6. CASE ManagerShrink
        BY <2>6 DEF ManagerShrink
    <2>7. CASE ManagerSignal
        BY <2>7, SignalEffect DEF ManagerSignal
    <2>8. QED
        BY <1>3, <2>1, <2>2, <2>3, <2>4, <2>5, <2>6, <2>7 DEF ManagerStep
<1>4. ASSUME NEW c \in Callers, AddTaskRest(c) \/ \E t \in Tasks : AddTaskEnter(c, t)
      PROVE  DistinctTasks'
    <2>1. CASE AddTaskPush(c)
        <3>1. /\ m_taskQ \in Seq(Tasks) /\ ctask[c] \in Tasks
              /\ m_taskQ' = Append(m_taskQ, ctask[c]) /\ ctask' = [ctask EXCEPT ![c] = NoTask]
              /\ UNCHANGED <<wpc, held, finished>>
            BY <2>1 DEF AddTaskPush, CallerHoldsTask
        <3>2. QED
            BY <3>1, PushedSequence
    <2>2. CASE AddTaskSignal(c)
        BY <2>2, SignalEffect DEF AddTaskSignal
    <2>3. ASSUME NEW t \in Tasks, AddTaskEnter(c, t)
          PROVE  DistinctTasks'
        BY <2>3 DEF AddTaskEnter, Unused
    <2>4. QED
        BY <1>4, <2>1, <2>2, <2>3 DEF AddTaskRest
<1>5. CASE DestructorBegin
    BY <1>5 DEF DestructorBegin
<1>6. CASE DestructorRest
    <2>1. CASE DestructorJoin
        BY <2>1 DEF DestructorJoin
    <2>2. CASE DestructorSignal
        BY <2>2, SignalEffect DEF DestructorSignal
    <2>3. CASE DestructorFree
        BY <2>3 DEF DestructorFree
    <2>4. QED
        BY <1>6, <2>1, <2>2, <2>3 DEF DestructorRest
<1>7. CASE UNCHANGED vars
    BY <1>7 DEF vars
<1>8. QED
    BY <1>1, <1>2, <1>3, <1>4, <1>5, <1>6, <1>7 DEF Next, Deleted

LEMMA DistinctInvariant == Spec => []DistinctTasks
<1>1. Init => DistinctTasks
    BY DEF Init, DistinctTasks
<1>2. QED
    BY <1>1, DistinctStep, TypeInvariant, CommittedInvariant, PTL DEF Spec

-----------------------------------------------------------------------------
(***************************************************************************)
(* The step simulation.                                                    *)
(***************************************************************************)
Stutter == UNCHANGED <<m_taskQ, held, finished, m_end, lateStarts>>

LEMMA StutterStep == Stutter => UNCHANGED Abstract!vars
BY DEF Stutter, Abstract!vars

LEMMA SimulationStep ==
    TypeInv /\ Committed /\ Late /\ DistinctTasks /\ [Next]_vars
        => [Abstract!Next]_(Abstract!vars)
<1> SUFFICES ASSUME TypeInv, Committed, Late, DistinctTasks, [Next]_vars
             PROVE  [Abstract!Next]_(Abstract!vars)
    OBVIOUS
<1>a. ASSUME Stutter PROVE [Abstract!Next]_(Abstract!vars)
    BY <1>a, StutterStep
<1> USE DEF counters, manager, callers, owner, history
<1>1. ASSUME NEW w \in Slots, Worker(w)
      PROVE  [Abstract!Next]_(Abstract!vars)
    <2>1. CASE WorkerLock(w)
        BY <2>1, <1>a DEF WorkerLock, Stutter
    <2>2. CASE WorkerCheck(w)
        BY <2>2, <1>a DEF WorkerCheck, Stutter
    <2>3. CASE WorkerSleep(w)
        BY <2>3, <1>a DEF WorkerSleep, Stutter
    <2>4. CASE WorkerWake(w)
        BY <2>4, <1>a DEF WorkerWake, Stutter
    <2>5. CASE WorkerLeaveWait(w)
        BY <2>5, <1>a DEF WorkerLeaveWait, Stutter
    <2>6. CASE WorkerTakeTask(w)
        <3>1. m_taskQ # <<>> /\ m_taskQ \in Seq(Tasks) /\ (m_end => lateStarts = 0)
            BY <2>6 DEF WorkerTakeTask, Committed, Late, TypeInv, TypeOK
        <3>2. held[w] = NoTask /\ \A v \in Slots : held[v] # Head(m_taskQ)
            <4>1. \E j \in DOMAIN m_taskQ : m_taskQ[j] = Head(m_taskQ)
                BY <3>1
            <4>2. InQueue(Head(m_taskQ)) /\ Head(m_taskQ) # NoTask
                BY <3>1, <4>1, TaskAssumption DEF InQueue
            <4>3. QED
                BY <2>6, <4>2 DEF WorkerTakeTask, DistinctTasks
        <3>3. /\ m_taskQ' = Tail(m_taskQ) /\ held' = [held EXCEPT ![w] = Head(m_taskQ)]
              /\ lateStarts' = IF m_end THEN lateStarts + 1 ELSE lateStarts
              /\ UNCHANGED <<m_end, finished>>
            BY <2>6, <3>1 DEF WorkerTakeTask, FrontTask, PoppedQueue
        <3>4. Head(m_taskQ) \in Tasks /\ Head(m_taskQ) # NoTask
            BY <3>1, TaskAssumption
        <3>5. {held'[v] : v \in Slots} \ {NoTask} = ({held[v] : v \in Slots} \ {NoTask}) \cup {Head(m_taskQ)}
            BY <3>2, <3>3, <3>4 DEF TypeInv, TypeOK
        <3>6. Abstract!Start
            BY <3>1, <3>2, <3>3, <3>5 DEF Abstract!Start
        <3>7. QED
            BY <3>6 DEF Abstract!Next
    <2>7. CASE WorkerFinishTask(w)
        <3>1. held[w] \in Tasks /\ held[w] # NoTask
            BY <2>7, TaskAssumption DEF WorkerFinishTask, Committed
        <3>2. /\ held' = [held EXCEPT ![w] = NoTask] /\ finished' = finished \cup {held[w]}
              /\ UNCHANGED <<m_taskQ, m_end, lateStarts>>
            BY <2>7 DEF WorkerFinishTask
        <3>3. \A v \in Slots : held[v] = held[w] => v = w
            BY <3>1 DEF DistinctTasks
        <3>4. {held'[v] : v \in Slots} \ {NoTask} = ({held[v] : v \in Slots} \ {NoTask}) \ {held[w]}
            BY <3>1, <3>2, <3>3 DEF TypeInv, TypeOK
        <3>5. PICK t \in Tasks : t = held[w]
            BY <3>1
        <3>6. Abstract!Finish(t)
            <4>1. t \in {held[v] : v \in Slots} \ {NoTask}
                BY <3>1, <3>5
            <4>2. QED
                BY <3>2, <3>4, <3>5, <4>1 DEF Abstract!Finish
        <3>7. QED
            BY <3>6 DEF Abstract!Next
    <2>8. CASE ThreadExit(w)
        BY <2>8, <1>a DEF ThreadExit, Stutter
    <2>9. QED
        BY <1>1, <2>1, <2>2, <2>3, <2>4, <2>5, <2>6, <2>7, <2>8 DEF Worker
<1>2. ASSUME NEW w \in Slots, SpuriousWakeup(w)
      PROVE  [Abstract!Next]_(Abstract!vars)
    BY <1>2, <1>a DEF SpuriousWakeup, Stutter
<1>3. CASE ManagerStep
    <2>1. CASE ManagerTest
        BY <2>1, <1>a DEF ManagerTest, Stutter
    <2>2. CASE ManagerSnapshot
        BY <2>2, <1>a DEF ManagerSnapshot, Stutter
    <2>3. CASE ManagerGrowLock
        BY <2>3, <1>a DEF ManagerGrowLock, Stutter
    <2>4. CASE ManagerScanSlot
        BY <2>4, <1>a DEF ManagerScanSlot, Stutter
    <2>5. CASE ManagerGrowUnlock
        BY <2>5, <1>a DEF ManagerGrowUnlock, Stutter
    <2>6. CASE ManagerShrink
        BY <2>6, <1>a DEF ManagerShrink, Stutter
    <2>7. CASE ManagerSignal
        BY <2>7, <1>a DEF ManagerSignal, Stutter
    <2>8. QED
        BY <1>3, <2>1, <2>2, <2>3, <2>4, <2>5, <2>6, <2>7 DEF ManagerStep
<1>4. ASSUME NEW c \in Callers, AddTaskRest(c) \/ \E t \in Tasks : AddTaskEnter(c, t)
      PROVE  [Abstract!Next]_(Abstract!vars)
    <2>1. CASE AddTaskPush(c)
        <3>1. PICK t \in Tasks : t = ctask[c] /\ t # NoTask
            BY <2>1, TaskAssumption DEF AddTaskPush, TypeInv, CallerHoldsTask
        <3>2. /\ m_taskQ' = Append(m_taskQ, t)
              /\ UNCHANGED <<held, finished, m_end, lateStarts>>
            BY <2>1, <3>1 DEF AddTaskPush
        <3>3. Abstract!Submit(t)
            BY <3>1, <3>2 DEF Abstract!Submit, DistinctTasks, InQueue
        <3>4. QED
            BY <3>3 DEF Abstract!Next
    <2>2. CASE AddTaskSignal(c)
        BY <2>2, <1>a DEF AddTaskSignal, Stutter
    <2>3. ASSUME NEW t \in Tasks, AddTaskEnter(c, t)
          PROVE  [Abstract!Next]_(Abstract!vars)
        BY <2>3, <1>a DEF AddTaskEnter, Stutter
    <2>4. QED
        BY <1>4, <2>1, <2>2, <2>3 DEF AddTaskRest
<1>5. CASE DestructorBegin
    <2>1. CASE m_end
        BY <1>5, <2>1, <1>a DEF DestructorBegin, Stutter, TypeInv, TypeOK
    <2>2. CASE ~m_end
        <3>1. Abstract!Close
            BY <1>5, <2>2 DEF DestructorBegin, Abstract!Close
        <3>2. QED
            BY <3>1 DEF Abstract!Next
    <2>3. QED
        BY <2>1, <2>2
<1>6. CASE DestructorRest
    <2>1. CASE DestructorJoin
        BY <2>1, <1>a DEF DestructorJoin, Stutter
    <2>2. CASE DestructorSignal
        BY <2>2, <1>a DEF DestructorSignal, Stutter
    <2>3. CASE DestructorFree
        BY <2>3, <1>a DEF DestructorFree, Stutter
    <2>4. QED
        BY <1>6, <2>1, <2>2, <2>3 DEF DestructorRest
<1>7. CASE UNCHANGED vars
    BY <1>7, <1>a DEF vars, Stutter
<1>8. QED
    BY <1>1, <1>2, <1>3, <1>4, <1>5, <1>6, <1>7 DEF Next, Deleted

\* The threads, the lock and the condition variable implement TaskPool: tasks
\* are started in submission order, each at most once, none is dropped before
\* the pool is closed, and at most one is started after that.
THEOREM ThreadPoolImplementsTaskPool == Spec => ImplementsTaskPool
<1>1. Init => Abstract!Init
    BY DEF Init, Abstract!Init
<1>2. Spec => []Late
    <2>1. Init => Late
        BY DEF Init, Late
    <2>2. QED
        BY <2>1, LateStep, TypeInvariant, MutexCorrect, PTL DEF Spec
<1>3. QED
    BY <1>1, <1>2, SimulationStep, TypeInvariant, CommittedInvariant, DistinctInvariant, PTL
    DEF Spec, Abstract!Spec, ImplementsTaskPool
=============================================================================
