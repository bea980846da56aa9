----------------------------- MODULE ThreadPool -----------------------------
(***************************************************************************)
(* The pool of src/src/ThreadPool: worker threads, one manager thread that *)
(* grows and shrinks the pool, threads that call addTask, and the owner    *)
(* that runs the destructor.  A step of the model is what one thread does  *)
(* between two points where another thread can observe or disturb it:      *)
(* m_mutex, the condition variable m_cond and the reads and writes that    *)
(* the code makes without holding m_mutex (m_end, the queue in addTask,    *)
(* m_aliveNum in the destructor, m_threadIDs in threadExit).               *)
(*                                                                         *)
(* A worker is named by its slot in m_threadIDs: the slot holds -1 exactly *)
(* when wpc is "none", since pthread_create fills it before the thread     *)
(* runs and threadExit clears it as the last access to the pool.           *)
(***************************************************************************)
EXTENDS Integers, Sequences, FiniteSets

CONSTANTS
    MaxNum,   \* maxNum of the constructor
    MinNum,   \* minNum of the constructor
    Tasks,    \* the tasks that are ever submitted (bounds the model)
    NoTask,   \* the empty Task: function = nullptr
    Callers,  \* the threads that call addTask
    Garbage   \* values the uninitialised m_exitNum may hold

ASSUME SizeAssumption ==
    /\ MinNum \in Nat
    /\ MaxNum \in Nat \ {0}
    /\ MinNum <= MaxNum
ASSUME TaskAssumption == NoTask \notin Tasks
ASSUME GarbageAssumption == Garbage \subseteq Int

\* The manager's constant NUMBER: threads added or dismissed in one round.
NUMBER == 2

Slots == 0 .. MaxNum - 1
Manager == MaxNum   \* the manager as owner of m_mutex
Nobody == -1        \* m_mutex is unlocked

VARIABLES
    m_mutex,     \* the owner of the pool's mutex
    m_taskQ,     \* the task queue; TaskQueue's own mutex makes push and pop atomic
    m_aliveNum,
    m_busyNum,
    m_exitNum,
    m_end,
    wpc,         \* where each worker is; "none" is an empty slot
    held,        \* the task each worker is executing
    mpc,         \* where the manager is
    msnap,       \* the sizes the manager read in its last round
    mscan,       \* its loop over the slots: the index i and the count num
    msig,        \* signals it still has to send
    cpc,         \* where each caller of addTask is
    ctask,       \* the task it is adding
    dpc,         \* where the destructor is; "up" before it starts
    dsig,        \* signals the destructor has sent
    finished,    \* history: tasks whose function has returned
    lateStarts   \* history: tasks taken after m_end was set

counters == <<m_aliveNum, m_busyNum, m_exitNum>>
manager == <<mpc, msnap, mscan, msig>>
callers == <<cpc, ctask>>
owner == <<m_end, dpc, dsig>>
history == <<finished, lateStarts>>
vars == <<m_mutex, m_taskQ, counters, wpc, held, manager, callers, owner, history>>

NoSnapshot == [qSize |-> 0, liveNum |-> 0, busyNum |-> 0]

WorkerPCs == {"none", "lock", "check", "sleep", "waiting", "woken", "leave",
              "take", "work", "retire", "quit"}

(***************************************************************************)
(* The constructor: minNum workers and the manager.  m_exitNum has no      *)
(* initialiser and is not assigned here.                                   *)
(***************************************************************************)
Init ==
    /\ m_mutex = Nobody
    /\ m_taskQ = <<>>
    /\ m_aliveNum = MinNum
    /\ m_busyNum = 0
    /\ m_exitNum \in Garbage
    /\ m_end = FALSE
    /\ wpc = [w \in Slots |-> IF w < MinNum THEN "lock" ELSE "none"]
    /\ held = [w \in Slots |-> NoTask]
    /\ mpc = "test"
    /\ msnap = NoSnapshot
    /\ mscan = [i |-> 0, num |-> 0]
    /\ msig = 0
    /\ cpc = [c \in Callers |-> "idle"]
    /\ ctask = [c \in Callers |-> NoTask]
    /\ dpc = "up"
    /\ dsig = 0
    /\ finished = {}
    /\ lateStarts = 0

(***************************************************************************)
(* pthread_cond_signal(&m_cond): wakes one thread that is waiting now, and *)
(* is lost when none is.  The wake-up is external (pthread): the woken     *)
(* thread still has to get m_mutex back before pthread_cond_wait returns.  *)
(***************************************************************************)
Waiting == {w \in Slots : wpc[w] = "waiting"}

Signal ==
    IF Waiting = {}
    THEN UNCHANGED wpc
    ELSE \E w \in Waiting : wpc' = [wpc EXCEPT ![w] = "woken"]

\* POSIX allows pthread_cond_wait to return without a signal.
SpuriousWakeup(w) ==
    /\ wpc[w] = "waiting"
    /\ wpc' = [wpc EXCEPT ![w] = "woken"]
    /\ UNCHANGED <<m_mutex, m_taskQ, counters, held, manager, callers, owner, history>>
-----------------------------------------------------------------------------
(***************************************************************************)
(* The worker thread.                                                      *)
(***************************************************************************)

\* The top of the loop: pthread_mutex_lock.
WorkerLock(w) ==
    /\ wpc[w] = "lock"
    /\ m_mutex = Nobody
    /\ m_mutex' = w
    /\ wpc' = [wpc EXCEPT ![w] = "check"]
    /\ UNCHANGED <<m_taskQ, counters, held, manager, callers, owner, history>>

\* The condition on which a worker goes to sleep.
NothingToDo == m_taskQ = <<>> /\ ~m_end

\* The test of the inner while.  addTask and the destructor do not take
\* m_mutex, so they can run between this test and the wait.
WorkerCheck(w) ==
    /\ wpc[w] = "check"
    /\ wpc' = [wpc EXCEPT ![w] = IF NothingToDo THEN "sleep" ELSE "leave"]
    /\ UNCHANGED <<m_mutex, m_taskQ, counters, held, manager, callers, owner, history>>

\* pthread_cond_wait: joins the waiters and releases m_mutex in one step.
WorkerSleep(w) ==
    /\ wpc[w] = "sleep"
    /\ m_mutex' = Nobody
    /\ wpc' = [wpc EXCEPT ![w] = "waiting"]
    /\ UNCHANGED <<m_taskQ, counters, held, manager, callers, owner, history>>

\* Faulty: trusts the manager's decision.
MayRetire_Unchecked == TRUE

\* The worker's own test that the pool is still larger than minNum.
MayRetire == m_aliveNum > MinNum

\* Faulty: "if" in place of the inner while, the queue is not tested again.
WorkerWake_NoRetest(w) ==
    /\ wpc[w] = "woken"
    /\ m_mutex = Nobody
    /\ m_mutex' = w
    /\ wpc' = [wpc EXCEPT ![w] = "leave"]
    /\ UNCHANGED <<m_taskQ, counters, held, manager, callers, owner, history>>

\* pthread_cond_wait returns with m_mutex held and the worker looks whether it
\* is to exit.  A retiring worker unlocks before it calls threadExit.
WorkerWake(w) ==
    /\ wpc[w] = "woken"
    /\ m_mutex = Nobody
    /\ IF m_exitNum > 0
       THEN /\ m_exitNum' = m_exitNum - 1
            /\ IF MayRetire
               THEN /\ m_aliveNum' = m_aliveNum - 1
                    /\ wpc' = [wpc EXCEPT ![w] = "retire"]
                    /\ UNCHANGED m_mutex
               ELSE /\ m_mutex' = w
                    /\ wpc' = [wpc EXCEPT ![w] = "check"]
                    /\ UNCHANGED m_aliveNum
       ELSE /\ m_mutex' = w
            /\ wpc' = [wpc EXCEPT ![w] = "check"]
            /\ UNCHANGED <<m_aliveNum, m_exitNum>>
    /\ UNCHANGED <<m_taskQ, m_busyNum, held, manager, callers, owner, history>>

\* Faulty: m_end is not tested after the wait.
WorkerLeaveWait_NoTest(w) ==
    /\ wpc[w] = "leave"
    /\ wpc' = [wpc EXCEPT ![w] = "take"]
    /\ UNCHANGED <<m_mutex, m_taskQ, counters, held, manager, callers, owner, history>>

\* After the inner while: m_end is read once more, on its own.
WorkerLeaveWait(w) ==
    /\ wpc[w] = "leave"
    /\ IF m_end
       THEN /\ m_mutex' = Nobody
            /\ wpc' = [wpc EXCEPT ![w] = "quit"]
       ELSE /\ wpc' = [wpc EXCEPT ![w] = "take"]
            /\ UNCHANGED m_mutex
    /\ UNCHANGED <<m_taskQ, counters, held, manager, callers, owner, history>>

\* Faulty: the newest task is taken first.
FrontTask_Newest == IF m_taskQ = <<>> THEN NoTask ELSE m_taskQ[Len(m_taskQ)]

\* TaskQueue::takeTask returns an empty Task when there is nothing to take.
FrontTask == IF m_taskQ = <<>> THEN NoTask ELSE Head(m_taskQ)
PoppedQueue == IF m_taskQ = <<>> THEN <<>> ELSE Tail(m_taskQ)

WorkerTakeTask(w) ==
    /\ wpc[w] = "take"
    /\ held' = [held EXCEPT ![w] = FrontTask]
    /\ m_taskQ' = PoppedQueue
    /\ m_busyNum' = m_busyNum + 1
    /\ m_mutex' = Nobody
    /\ wpc' = [wpc EXCEPT ![w] = "work"]
    /\ lateStarts' = IF m_end THEN lateStarts + 1 ELSE lateStarts
    /\ UNCHANGED <<m_aliveNum, m_exitNum, manager, callers, owner, finished>>

\* Faulty: waits for a signal before it looks at the queue again.
WorkerFinishTask_SleepFirst(w) ==
    /\ wpc[w] = "work"
    /\ m_mutex = Nobody
    /\ finished' = finished \cup {held[w]}
    /\ held' = [held EXCEPT ![w] = NoTask]
    /\ m_busyNum' = m_busyNum - 1
    /\ wpc' = [wpc EXCEPT ![w] = "waiting"]
    /\ UNCHANGED <<m_mutex, m_taskQ, m_aliveNum, m_exitNum, manager, callers, owner, lateStarts>>

\* The task's function returns and the worker decrements m_busyNum under m_mutex.
WorkerFinishTask(w) ==
    /\ wpc[w] = "work"
    /\ m_mutex = Nobody
    /\ finished' = finished \cup {held[w]}
    /\ held' = [held EXCEPT ![w] = NoTask]
    /\ m_busyNum' = m_busyNum - 1
    /\ wpc' = [wpc EXCEPT ![w] = "lock"]
    /\ UNCHANGED <<m_mutex, m_taskQ, m_aliveNum, m_exitNum, manager, callers, owner, lateStarts>>

\* Clears the slot without m_mutex, then pthread_exit.
ThreadExit(w) ==
    /\ wpc[w] \in {"retire", "quit"}
    /\ wpc' = [wpc EXCEPT ![w] = "none"]
    /\ UNCHANGED <<m_mutex, m_taskQ, counters, held, manager, callers, owner, history>>

Worker(w) ==
    \/ WorkerLock(w)
    \/ WorkerCheck(w)
    \/ WorkerSleep(w)
    \/ WorkerWake(w)
    \/ WorkerLeaveWait(w)
    \/ WorkerTakeTask(w)
    \/ WorkerFinishTask(w)
    \/ ThreadExit(w)
-----------------------------------------------------------------------------
(***************************************************************************)
(* The manager thread.  Both decisions of a round are taken on the sizes   *)
(* read at its start, after m_mutex was released.                          *)
(***************************************************************************)
GrowWanted(s) == s.qSize > s.liveNum /\ s.liveNum < MaxNum
ShrinkWanted(s) == s.busyNum * 2 < s.liveNum /\ s.liveNum > MinNum
AfterGrow(s) == IF ShrinkWanted(s) THEN "shrink" ELSE "test"

\* Faulty: the manager does not look at m_end.
ManagerTest_Forever ==
    /\ mpc = "test"
    /\ mpc' = "snapshot"
    /\ UNCHANGED <<m_mutex, m_taskQ, counters, wpc, held, msnap, mscan, msig, callers, owner, history>>

\* The test of the manager's loop; the sleep(5) that follows changes nothing.
ManagerTest ==
    /\ mpc = "test"
    /\ mpc' = IF m_end THEN "done" ELSE "snapshot"
    /\ UNCHANGED <<m_mutex, m_taskQ, counters, wpc, held, msnap, mscan, msig, callers, owner, history>>

\* Reads the three sizes under m_mutex.
ManagerSnapshot ==
    /\ mpc = "snapshot"
    /\ m_mutex = Nobody
    /\ msnap' = [qSize |-> Len(m_taskQ), liveNum |-> m_aliveNum, busyNum |-> m_busyNum]
    /\ mpc' = IF GrowWanted(msnap') THEN "grow" ELSE AfterGrow(msnap')
    /\ UNCHANGED <<m_mutex, m_taskQ, counters, wpc, held, mscan, msig, callers, owner, history>>

ManagerGrowLock ==
    /\ mpc = "grow"
    /\ m_mutex = Nobody
    /\ m_mutex' = Manager
    /\ mscan' = [i |-> 0, num |-> 0]
    /\ mpc' = "scan"
    /\ UNCHANGED <<m_taskQ, counters, wpc, held, msnap, msig, callers, owner, history>>

\* The loop condition, with the current m_aliveNum rather than the one read before.
ScanGoesOn == mscan.i < MaxNum /\ mscan.num < NUMBER /\ m_aliveNum < MaxNum

\* Faulty: a new thread is not counted.
ManagerScanSlot_NotCounted ==
    /\ mpc = "scan"
    /\ ScanGoesOn
    /\ IF wpc[mscan.i] = "none"
       THEN /\ wpc' = [wpc EXCEPT ![mscan.i] = "lock"]
            /\ mscan' = [i |-> mscan.i + 1, num |-> mscan.num + 1]
       ELSE /\ mscan' = [mscan EXCEPT !.i = @ + 1]
            /\ UNCHANGED wpc
    /\ UNCHANGED <<m_mutex, m_taskQ, counters, held, mpc, msnap, msig, callers, owner, history>>

\* One slot of the loop: an empty slot gets a new thread.
ManagerScanSlot ==
    /\ mpc = "scan"
    /\ ScanGoesOn
    /\ IF wpc[mscan.i] = "none"
       THEN /\ wpc' = [wpc EXCEPT ![mscan.i] = "lock"]
            /\ mscan' = [i |-> mscan.i + 1, num |-> mscan.num + 1]
            /\ m_aliveNum' = m_aliveNum + 1
       ELSE /\ mscan' = [mscan EXCEPT !.i = @ + 1]
            /\ UNCHANGED <<wpc, m_aliveNum>>
    /\ UNCHANGED <<m_mutex, m_taskQ, m_busyNum, m_exitNum, held, mpc, msnap, msig, callers, owner, history>>

ManagerGrowUnlock ==
    /\ mpc = "scan"
    /\ ~ScanGoesOn
    /\ m_mutex' = Nobody
    /\ mpc' = AfterGrow(msnap)
    /\ UNCHANGED <<m_taskQ, counters, wpc, held, msnap, mscan, msig, callers, owner, history>>

\* Faulty: wakes the workers without asking any of them to exit.
ManagerShrink_NoRequest ==
    /\ mpc = "shrink"
    /\ m_mutex = Nobody
    /\ msig' = NUMBER
    /\ mpc' = "signal"
    /\ UNCHANGED <<m_mutex, m_taskQ, counters, wpc, held, msnap, mscan, callers, owner, history>>

\* Asks for NUMBER exits; a request that was not consumed yet is overwritten.
ManagerShrink ==
    /\ mpc = "shrink"
    /\ m_mutex = Nobody
    /\ m_exitNum' = NUMBER
    /\ msig' = NUMBER
    /\ mpc' = "signal"
    /\ UNCHANGED <<m_mutex, m_taskQ, m_aliveNum, m_busyNum, wpc, held, msnap, mscan, callers, owner, history>>

\* The signals of the shrink branch, sent after m_mutex was released.
ManagerSignal ==
    /\ mpc = "signal"
    /\ Signal
    /\ msig' = msig - 1
    /\ mpc' = IF msig = 1 THEN "test" ELSE "signal"
    /\ UNCHANGED <<m_mutex, m_taskQ, counters, held, msnap, mscan, callers, owner, history>>

ManagerStep ==
    \/ ManagerTest
    \/ ManagerSnapshot
    \/ ManagerGrowLock
    \/ ManagerScanSlot
    \/ ManagerGrowUnlock
    \/ ManagerShrink
    \/ ManagerSignal
-----------------------------------------------------------------------------
(***************************************************************************)
(* addTask.  It takes no lock of the pool: the queue has its own.          *)
(***************************************************************************)
InQueue(t) == \E i \in DOMAIN m_taskQ : m_taskQ[i] = t
Unused(t) ==
    /\ ~InQueue(t)
    /\ t \notin finished
    /\ \A w \in Slots : held[w] # t
    /\ \A c \in Callers : ctask[c] # t

\* Passes the test of m_end.  A call made when m_end is set returns at once.
AddTaskEnter(c, t) ==
    /\ cpc[c] = "idle"
    /\ ~m_end
    /\ Unused(t)
    /\ cpc' = [cpc EXCEPT ![c] = "push"]
    /\ ctask' = [ctask EXCEPT ![c] = t]
    /\ UNCHANGED <<m_mutex, m_taskQ, counters, wpc, held, manager, owner, history>>

AddTaskPush(c) ==
    /\ cpc[c] = "push"
    /\ m_taskQ' = Append(m_taskQ, ctask[c])
    /\ ctask' = [ctask EXCEPT ![c] = NoTask]
    /\ cpc' = [cpc EXCEPT ![c] = "signal"]
    /\ UNCHANGED <<m_mutex, counters, wpc, held, manager, owner, history>>

AddTaskSignal(c) ==
    /\ cpc[c] = "signal"
    /\ Signal
    /\ cpc' = [cpc EXCEPT ![c] = "idle"]
    /\ UNCHANGED <<m_mutex, m_taskQ, counters, held, manager, ctask, owner, history>>

AddTaskRest(c) == AddTaskPush(c) \/ AddTaskSignal(c)
-----------------------------------------------------------------------------
(***************************************************************************)
(* The destructor.  It takes no lock either, and it does not join the      *)
(* workers: once the queue and the slots are deleted the model stops,      *)
(* whatever the workers were doing.                                        *)
(***************************************************************************)
DestructorBegin ==
    /\ dpc = "up"
    /\ m_end' = TRUE
    /\ dpc' = "join"
    /\ UNCHANGED <<m_mutex, m_taskQ, counters, wpc, held, manager, callers, dsig, history>>

DestructorJoin ==
    /\ dpc = "join"
    /\ mpc = "done"
    /\ dpc' = "signal"
    /\ UNCHANGED <<m_mutex, m_taskQ, counters, wpc, held, manager, callers, m_end, dsig, history>>

\* One turn of the loop; its bound m_aliveNum is read again at each turn.
DestructorSignal ==
    /\ dpc = "signal"
    /\ dsig < m_aliveNum
    /\ Signal
    /\ dsig' = dsig + 1
    /\ UNCHANGED <<m_mutex, m_taskQ, counters, held, manager, callers, m_end, dpc, history>>

DestructorFree ==
    /\ dpc = "signal"
    /\ dsig >= m_aliveNum
    /\ dpc' = "gone"
    /\ UNCHANGED <<m_mutex, m_taskQ, counters, wpc, held, manager, callers, m_end, dsig, history>>

DestructorRest == DestructorJoin \/ DestructorSignal \/ DestructorFree
-----------------------------------------------------------------------------
\* Nothing is said of the pool's memory after it is deleted.
Deleted == dpc = "gone" /\ UNCHANGED vars

Next ==
    \/ /\ dpc # "gone"
       /\ \/ \E w \in Slots : Worker(w) \/ SpuriousWakeup(w)
          \/ ManagerStep
          \/ \E c \in Callers : AddTaskRest(c) \/ \E t \in Tasks : AddTaskEnter(c, t)
          \/ DestructorBegin
          \/ DestructorRest
    \/ Deleted

Spec == Init /\ [][Next]_vars

\* Every thread that can take a step eventually does; nobody is obliged to call
\* addTask or to destroy the pool, and spurious wake-ups never have to happen.
Fairness ==
    /\ \A w \in Slots : WF_vars(dpc # "gone" /\ Worker(w))
    /\ WF_vars(dpc # "gone" /\ ManagerStep)
    /\ \A c \in Callers : WF_vars(dpc # "gone" /\ AddTaskRest(c))
    /\ WF_vars(DestructorRest)

FairSpec == Spec /\ Fairness
-----------------------------------------------------------------------------
(***************************************************************************)
(* Safety.                                                                 *)
(***************************************************************************)
TypeOK ==
    /\ m_mutex \in Slots \cup {Manager, Nobody}
    /\ m_taskQ \in Seq(Tasks)
    /\ m_aliveNum \in Int /\ m_busyNum \in Int /\ m_exitNum \in Int
    /\ m_end \in BOOLEAN
    /\ wpc \in [Slots -> WorkerPCs]
    /\ held \in [Slots -> Tasks \cup {NoTask}]
    /\ mpc \in {"test", "snapshot", "grow", "scan", "shrink", "signal", "done"}
    /\ msnap \in [qSize : Nat, liveNum : Int, busyNum : Int]
    /\ mscan \in [i : 0 .. MaxNum, num : 0 .. NUMBER]
    /\ msig \in 0 .. NUMBER
    /\ cpc \in [Callers -> {"idle", "push", "signal"}]
    /\ ctask \in [Callers -> Tasks \cup {NoTask}]
    /\ dpc \in {"up", "join", "signal", "gone"}
    /\ dsig \in Nat
    /\ finished \subseteq Tasks \cup {NoTask}
    /\ lateStarts \in Nat

\* The places where a thread owns m_mutex.
InCritical(w) == wpc[w] \in {"check", "sleep", "leave", "take"}

\* m_mutex serialises the sections that read and write the counters: its owner
\* is the one thread inside such a section.
MutualExclusion ==
    /\ \A w \in Slots : InCritical(w) <=> m_mutex = w
    /\ mpc = "scan" <=> m_mutex = Manager

\* The pool never shrinks below minNum or grows beyond maxNum, although the
\* manager decides on sizes it read before it unlocked (82-89, 104) and a stale
\* or uninitialised m_exitNum may ask for more exits than the pool can afford.
AliveBounds == MinNum <= m_aliveNum /\ m_aliveNum <= MaxNum

\* The counters tell the truth: m_busyNum is the number of workers inside a
\* task, and until the pool is closed m_aliveNum is the number of workers that
\* have not decided to exit.
Live == {w \in Slots : wpc[w] \notin {"none", "retire"}}
Busy == {w \in Slots : wpc[w] = "work"}
AccurateCounts ==
    /\ m_busyNum = Cardinality(Busy)
    /\ ~m_end => m_aliveNum = Cardinality(Live)

\* A worker never calls the null function of an empty Task (line 147): between
\* the test of the queue (123) and takeTask (142) nobody else empties it.
NoNullTask == \A w \in Busy : held[w] # NoTask

\* After the owner sets m_end at most one more task is started, by the worker
\* that had passed its own test of m_end (137) and not yet taken its task.
AtMostOneLateStart == lateStarts <= 1

\* addTask and the comment on its line 54: a task that is added while a worker
\* is idle wakes one.  A task is stranded when no call of addTask is under way
\* and every live worker sleeps in pthread_cond_wait.
Stranded ==
    /\ m_taskQ # <<>>
    /\ ~m_end
    /\ \A c \in Callers : cpc[c] = "idle"
    /\ \A w \in Slots : wpc[w] \in {"none", "waiting"}
NoStrandedTask == ~Stranded

(***************************************************************************)
(* What the pool promises its user: see TaskPool.                          *)
(***************************************************************************)
Abstract == INSTANCE TaskPool WITH
    pending <- m_taskQ,
    running <- {held[w] : w \in Slots} \ {NoTask},
    open <- ~m_end,
    late <- lateStarts

\* Every behaviour of the threads is one of TaskPool: tasks start first come
\* first served, none is lost from the queue, run twice or run after the close.
ImplementsTaskPool == Abstract!Spec

(***************************************************************************)
(* Liveness, under FairSpec.                                               *)
(***************************************************************************)

\* The destructor returns: the manager leaves its loop although it may be
\* anywhere in a round, and the loop over m_aliveNum ends.
DestructorReturns == m_end ~> dpc = "gone"

\* The code that keeps a lost wake-up from losing more than one round: while
\* some worker is executing a task the queue is going to be emptied, since a
\* worker that ends a task tests the queue before it sleeps.
BusyWorkerDrainsQueue == Busy # {} ~> (m_taskQ = <<>> \/ m_end)

\* The manager brings the pool back to minNum workers, however its exit requests
\* and signals interleave with those of addTask, unless spurious wake-ups never
\* end (they could keep m_mutex from the manager for ever).
ShrinksToMin ==
    <>[][\A w \in Slots : ~SpuriousWakeup(w)]_vars => []<>(m_aliveNum = MinNum \/ m_end)
=============================================================================
