--------------------------- MODULE ThreadPoolProofs ---------------------------
(***************************************************************************)
(* Invariants of the thread pool, for every number of threads, length of   *)
(* the queue, set of tasks and set of callers.                             *)
(*                                                                         *)
(* And the pool implements the bounded first-in-first-out queue of         *)
(* TaskQueue: its initial states are initial states of the queue, and      *)
(* every step of the pool is one of the queue or none.                     *)
(***************************************************************************)
EXTENDS ThreadPoolProperties, FiniteSetTheorems, SequenceTheorems, TLAPS

USE DEF Slot, Cell

\* The sets of workers the counters count are finite.
LEMMA SlotsFinite ==
    /\ IsFiniteSet(Slot)
    /\ Cardinality(Slot) = MaxThr
    /\ \A S \in SUBSET Slot : /\ IsFiniteSet(S)
                              /\ Cardinality(S) \in Nat
                              /\ Cardinality(S) <= MaxThr
<1>1. IsFiniteSet(Slot) /\ Cardinality(Slot) = MaxThr
  BY FS_Interval, PoolAssumption
<1>2. ASSUME NEW S \in SUBSET Slot
      PROVE  IsFiniteSet(S) /\ Cardinality(S) <= MaxThr /\ Cardinality(S) \in Nat
  BY <1>1, FS_Subset, FS_CardinalityType
<1>. QED
  BY <1>1, <1>2

\* An index of the ring stays one when it is advanced.
LEMMA FollowingInCell ==
    ASSUME NEW k \in Cell
    PROVE  Following(k) \in Cell
BY PoolAssumption DEF Following
-----------------------------------------------------------------------------
(* busy_thr_num                                                            *)

\* An action that moves no worker into or out of a task keeps the count.
LEMMA SameRunning ==
    ASSUME BusyThreadsCounted, busy_thr_num' = busy_thr_num,
           \A w \in Slot : wpc'[w] = "running" <=> wpc[w] = "running"
    PROVE  BusyThreadsCounted'
<1>1. At("running")' = At("running")
  BY DEF At
<1>. QED
  BY <1>1 DEF BusyThreadsCounted

LEMMA BusyStep == TypeOK /\ BusyThreadsCounted /\ [Next]_vars => BusyThreadsCounted'
<1>. SUFFICES ASSUME TypeOK, BusyThreadsCounted, [Next]_vars
              PROVE  BusyThreadsCounted'
  OBVIOUS
<1>. USE SameRunning DEF counters, queue, worker, admin, caller, destroy, TypeOK
<1>1. ASSUME NEW w \in Slot, Worker(w) PROVE BusyThreadsCounted'
  <2>1. CASE WorkerLock(w)
    BY <2>1 DEF WorkerLock, Park, Quit, Take
  <2>2. CASE WorkerWait(w)
    BY <2>2 DEF WorkerWait
  <2>3. CASE WorkerRetire(w)
    BY <2>3 DEF WorkerRetire
  <2>4. CASE WorkerResume(w)
    BY <2>4 DEF WorkerResume, Park, Quit, Take
  <2>5. CASE WorkerStart(w)
    <3>1. At("running")' = At("running") \union {w} /\ w \notin At("running")
      BY <2>5 DEF WorkerStart, At
    <3>2. IsFiniteSet(At("running"))
      BY SlotsFinite DEF At
    <3>. QED
      BY <2>5, <3>1, <3>2, FS_AddElement DEF WorkerStart, BusyThreadsCounted
  <2>6. CASE WorkerFinish(w)
    <3>1. At("running")' = At("running") \ {w} /\ w \in At("running")
      BY <2>6 DEF WorkerFinish, At
    <3>2. IsFiniteSet(At("running"))
      BY SlotsFinite DEF At
    <3>. QED
      BY <2>6, <3>1, <3>2, FS_RemoveElement DEF WorkerFinish, BusyThreadsCounted
  <2>7. CASE WorkerExit(w)
    BY <2>7 DEF WorkerExit
  <2>. QED
    BY <1>1, <2>1, <2>2, <2>3, <2>4, <2>5, <2>6, <2>7 DEF Worker
<1>2. ASSUME NEW c \in Caller, Calling(c) PROVE BusyThreadsCounted'
  BY <1>2 DEF Calling, CallerWait, CallerResume, CallerSignal, Block, Refuse,
              Enqueue, SignalNotEmpty, NotEmptyWaiters
<1>3. ASSUME NEW c \in Caller, NEW t \in Task, AddTask(c, t)
      PROVE  BusyThreadsCounted'
  BY <1>3 DEF AddTask
<1>4. CASE SpuriousWake
  BY <1>4 DEF SpuriousWake
<1>5. CASE Admin
  BY <1>5 DEF Admin, AdminCheck, AdminSample, AdminReadBusy, AdminGrow, AdminShrink,
              AdminSignal, SignalNotEmpty, NotEmptyWaiters, Vacant
<1>6. CASE DestroyCall \/ Destroying
  BY <1>6 DEF DestroyCall, Destroying, JoinAdmin, Broadcast, Join, Free,
              BroadcastNotEmpty
<1>7. CASE UNCHANGED vars
  BY <1>7 DEF vars
<1>. QED
  BY <1>1, <1>2, <1>3, <1>4, <1>5, <1>6, <1>7 DEF Next
-----------------------------------------------------------------------------
(* Types and the bounds of the counters.                                   *)

CountBounds ==
    /\ MinThr <= live_thr_num /\ live_thr_num <= MaxThr
    /\ apc = "signal" => asig > 0

\* What a worker does with the lock once it has it: wait, leave or take a task.
LEMMA ProceedTypes ==
    ASSUME TypeOK, NEW w \in Slot, Park(w) \/ Quit(w) \/ Take(w)
    PROVE  /\ lock' \in Slot \union Caller \union {NoOne}
           /\ queue_front' \in Cell
           /\ queue_rear' \in Cell
           /\ queue_size' \in 0..QueueMax
           /\ task_queue' \in [Cell -> Task \union {NoTask}]
           /\ wpc' \in [Slot -> WorkerPC]
           /\ wtask' \in [Slot -> Task \union {NoTask}]
           /\ ppc' \in [Caller -> CallerPC]
           /\ ptask' \in [Caller -> Task \union {NoTask}]
           /\ fate' \in [Task -> Fate]
<1>. USE PoolAssumption DEF TypeOK, WorkerPC, CallerPC, queue, caller
<1>1. CASE Park(w)
  BY <1>1 DEF Park
<1>2. CASE Quit(w)
  BY <1>2 DEF Quit
<1>3. CASE Take(w)
  BY <1>3, FollowingInCell DEF Take, BroadcastNotFull
<1>. QED
  BY <1>1, <1>2, <1>3

LEMMA WorkerTypes ==
    ASSUME TypeOK, CountBounds, BusyThreadsCounted', NEW w \in Slot, Worker(w)
    PROVE  TypeOK' /\ CountBounds'
<1>. USE PoolAssumption DEF TypeOK, CountBounds, counters, queue, worker, admin, caller,
                            destroy
<1>1. CASE WorkerLock(w)
  BY <1>1, ProceedTypes DEF WorkerLock
<1>2. CASE WorkerWait(w)
  BY <1>2 DEF WorkerWait, WorkerPC
<1>3. CASE WorkerRetire(w)
  BY <1>3 DEF WorkerRetire, WorkerPC
<1>4. CASE WorkerResume(w)
  <2>1. wait_exit_thr_num' \in 0..DEFAULT_THREAD_NUM
    BY <1>4 DEF WorkerResume
  <2>. QED
    BY <1>4, <2>1, ProceedTypes DEF WorkerResume
<1>5. busy_thr_num' \in 0..MaxThr
  BY SlotsFinite DEF BusyThreadsCounted, At
<1>6. CASE WorkerStart(w)
  BY <1>5, <1>6 DEF WorkerStart, WorkerPC
<1>7. CASE WorkerFinish(w)
  BY <1>5, <1>7 DEF WorkerFinish, WorkerPC, Fate
<1>8. CASE WorkerExit(w)
  BY <1>8 DEF WorkerExit, WorkerPC
<1>. QED
  BY <1>1, <1>2, <1>3, <1>4, <1>6, <1>7, <1>8 DEF Worker

LEMMA CallerTypes ==
    ASSUME TypeOK, CountBounds, NEW c \in Caller,
           Calling(c) \/ \E t \in Task : AddTask(c, t)
    PROVE  TypeOK' /\ CountBounds'
<1>. USE PoolAssumption DEF TypeOK, CountBounds, counters, queue, worker, admin, caller,
                            destroy
<1>1. ASSUME NEW t \in Task \union {NoTask}, Block(c, t) \/ Refuse(c, t) \/ Enqueue(c, t)
      PROVE  /\ lock' \in Slot \union Caller \union {NoOne}
             /\ queue_front' \in Cell
             /\ queue_rear' \in Cell
             /\ queue_size' \in 0..QueueMax
             /\ task_queue' \in [Cell -> Task \union {NoTask}]
             /\ ppc' \in [Caller -> CallerPC]
             /\ ptask' \in [Caller -> Task \union {NoTask}]
             /\ fate' \in [Task -> Fate]
  <2>1. CASE Block(c, t)
    BY <1>1, <2>1 DEF Block, CallerPC, Fate
  <2>2. CASE Refuse(c, t)
    BY <1>1, <2>2 DEF Refuse, CallerPC, Fate
  <2>3. CASE Enqueue(c, t)
    <3>1. queue_rear' \in Cell /\ queue_size' \in 0..QueueMax
      BY <2>3, FollowingInCell DEF Enqueue
    <3>2. task_queue' \in [Cell -> Task \union {NoTask}]
      BY <2>3 DEF Enqueue
    <3>. QED
      BY <2>3, <3>1, <3>2 DEF Enqueue, CallerPC, Fate
  <2>. QED
    BY <1>1, <2>1, <2>2, <2>3
<1>2. CASE \E t \in Task : AddTask(c, t)
  BY <1>1, <1>2 DEF AddTask
<1>3. CASE CallerWait(c)
  BY <1>3 DEF CallerWait, CallerPC
<1>4. CASE CallerResume(c)
  BY <1>1, <1>4 DEF CallerResume
<1>5. CASE CallerSignal(c)
  BY <1>5 DEF CallerSignal, SignalNotEmpty, NotEmptyWaiters, CallerPC, WorkerPC
<1>. QED
  BY <1>2, <1>3, <1>4, <1>5 DEF Calling

LEMMA AdminTypes ==
    ASSUME TypeOK, CountBounds, Admin
    PROVE  TypeOK' /\ CountBounds'
<1>. USE PoolAssumption DEF TypeOK, CountBounds, counters, queue, worker, admin, caller,
                            destroy
<1>1. CASE AdminCheck
  BY <1>1 DEF AdminCheck, AdminPC
<1>2. CASE AdminSample
  BY <1>2 DEF AdminSample, AdminPC, Sample
<1>3. CASE AdminReadBusy
  <2>1. [seen EXCEPT !.busy = busy_thr_num] \in Sample
    BY DEF Sample
  <2>2. NoSample \in Sample
    BY DEF NoSample, Sample
  <2>3. apc' \in {"grow", "shrink", "check"} /\ seen' \in Sample
    BY <1>3, <2>1, <2>2 DEF AdminReadBusy, AfterGrow
  <2>. QED
    BY <1>3, <2>3 DEF AdminReadBusy, AdminPC
<1>4. CASE AdminGrow
  <2>1. PICK new \in SUBSET Vacant :
          /\ Cardinality(new) =
               Smaller(Cardinality(Vacant),
                       Smaller(DEFAULT_THREAD_NUM, MaxThr - live_thr_num))
          /\ live_thr_num' = live_thr_num + Cardinality(new)
          /\ wpc' = [w \in Slot |-> IF w \in new THEN "top" ELSE wpc[w]]
    BY <1>4 DEF AdminGrow
  <2>2. Cardinality(new) \in Nat /\ Cardinality(Vacant) \in Nat
    BY SlotsFinite DEF Vacant
  <2>3. live_thr_num' \in MinThr..MaxThr
    BY <2>1, <2>2 DEF Smaller
  <2>4. wpc' \in [Slot -> WorkerPC]
    BY <2>1 DEF WorkerPC
  <2>5. apc' \in {"shrink", "check"} /\ seen' \in Sample
    BY <1>4 DEF AdminGrow, AfterGrow, NoSample, Sample
  <2>. QED
    BY <1>4, <2>3, <2>4, <2>5 DEF AdminGrow, AdminPC
<1>5. CASE AdminShrink
  BY <1>5 DEF AdminShrink, AdminPC, NoSample, Sample
<1>6. CASE AdminSignal
  <2>1. wpc' \in [Slot -> WorkerPC]
    BY <1>6 DEF AdminSignal, SignalNotEmpty, NotEmptyWaiters, WorkerPC
  <2>2. /\ UNCHANGED <<lock, shutdown, counters, queue, wtask, seen, caller, destroy, fate>>
        /\ apc = "signal" /\ apc' \in {"check", "signal"} /\ asig' = asig - 1
        /\ asig = 1 => apc' = "check"
        /\ asig # 1 => apc' = "signal"
    BY <1>6 DEF AdminSignal
  <2>. QED
    BY <2>1, <2>2 DEF AdminPC
<1>. QED
  BY <1>1, <1>2, <1>3, <1>4, <1>5, <1>6 DEF Admin

LEMMA DestroyTypes ==
    ASSUME TypeOK, CountBounds, DestroyCall \/ Destroying
    PROVE  TypeOK' /\ CountBounds'
<1>. USE PoolAssumption DEF TypeOK, CountBounds, DestroyPC, counters, queue, worker,
                            admin, caller, destroy
<1>1. CASE DestroyCall
  BY <1>1 DEF DestroyCall
<1>2. CASE JoinAdmin
  BY <1>2 DEF JoinAdmin
<1>3. CASE Broadcast
  BY <1>3 DEF Broadcast, BroadcastNotEmpty, WorkerPC
<1>4. CASE Join
  BY <1>4 DEF Join
<1>5. CASE Free
  BY <1>5 DEF Free
<1>. QED
  BY <1>1, <1>2, <1>3, <1>4, <1>5 DEF Destroying

\* The part of the inductive invariant every other one rests on.
PoolTypes == TypeOK /\ CountBounds /\ BusyThreadsCounted

LEMMA InitTypes == Init => PoolTypes
<1>. SUFFICES ASSUME Init PROVE PoolTypes
  OBVIOUS
<1>1. TypeOK /\ CountBounds
  <2>1. seen \in Sample
    BY PoolAssumption DEF Init, Sample, NoSample
  <2>2. wpc \in [Slot -> WorkerPC] /\ ppc \in [Caller -> CallerPC]
    BY DEF Init, WorkerPC, CallerPC
  <2>3. apc \in AdminPC /\ dpc \in DestroyPC /\ fate \in [Task -> Fate]
    BY DEF Init, AdminPC, DestroyPC, Fate
  <2>4. /\ task_queue \in [Cell -> Task \union {NoTask}]
        /\ wtask \in [Slot -> Task \union {NoTask}]
        /\ ptask \in [Caller -> Task \union {NoTask}]
    BY DEF Init
  <2>5. queue_front \in Cell /\ queue_rear \in Cell
    BY PoolAssumption DEF Init
  <2>6. /\ live_thr_num \in 0..MaxThr /\ busy_thr_num \in 0..MaxThr
        /\ wait_exit_thr_num \in 0..DEFAULT_THREAD_NUM
        /\ queue_size \in 0..QueueMax
        /\ asig \in 0..DEFAULT_THREAD_NUM /\ di \in 0..MaxThr
        /\ CountBounds
    BY PoolAssumption DEF Init, CountBounds
  <2>. QED
    BY <2>1, <2>2, <2>3, <2>4, <2>5, <2>6 DEF Init, TypeOK
<1>2. At("running") = {}
  BY DEF Init, At
<1>. QED
  BY <1>1, <1>2, FS_EmptySet DEF PoolTypes, BusyThreadsCounted, Init

LEMMA StepTypes == PoolTypes /\ [Next]_vars => PoolTypes'
<1>. SUFFICES ASSUME PoolTypes, [Next]_vars
              PROVE  PoolTypes'
  OBVIOUS
<1>. USE DEF PoolTypes
<1>1. BusyThreadsCounted'
  BY BusyStep
<1>2. ASSUME NEW w \in Slot, Worker(w) PROVE TypeOK' /\ CountBounds'
  BY <1>1, <1>2, WorkerTypes
<1>3. ASSUME NEW c \in Caller, Calling(c) \/ \E t \in Task : AddTask(c, t)
      PROVE  TypeOK' /\ CountBounds'
  BY <1>3, CallerTypes
<1>4. CASE SpuriousWake
  BY <1>1, <1>4 DEF SpuriousWake, TypeOK, CountBounds, WorkerPC, CallerPC, counters, queue,
              admin, destroy
<1>5. CASE Admin
  BY <1>1, <1>5, AdminTypes
<1>6. CASE DestroyCall \/ Destroying
  BY <1>1, <1>6, DestroyTypes
<1>7. CASE UNCHANGED vars
  BY <1>1, <1>7 DEF vars, TypeOK, CountBounds, counters, queue, worker, admin, caller, destroy
<1>. QED
  BY <1>1, <1>2, <1>3, <1>4, <1>5, <1>6, <1>7 DEF Next

\* Every variable keeps its type; in particular no counter of the struct goes
\* below zero or over its bound, whatever the threads' interleaving.
THEOREM TypeCorrect == Spec => []TypeOK
<1>1. PoolTypes => TypeOK
  BY DEF PoolTypes
<1>. QED
  BY InitTypes, StepTypes, <1>1, PTL DEF Spec

\* busy_thr_num counts the workers inside a task's function
\* (handlerthread.c:299-309), for any number of workers.
THEOREM BusyCounted == Spec => []BusyThreadsCounted
<1>1. PoolTypes => BusyThreadsCounted
  BY DEF PoolTypes
<1>. QED
  BY InitTypes, StepTypes, <1>1, PTL DEF Spec
-----------------------------------------------------------------------------
(* The lock and the two wait sets.                                         *)

Waiting == WaitConditionStillHolds /\ BlockedOnlyWhenFull

LEMMA WaitingStep == PoolTypes /\ Waiting /\ [Next]_vars => Waiting'
<1>. SUFFICES ASSUME TypeOK, Waiting, [Next]_vars
              PROVE  Waiting'
  BY DEF PoolTypes
<1>. USE PoolAssumption DEF TypeOK, Waiting, WaitConditionStillHolds,
         BlockedOnlyWhenFull, counters, queue, worker, admin, caller, destroy
<1>1. ASSUME NEW w \in Slot, lock = NoOne, Park(w) \/ Quit(w) \/ Take(w)
      PROVE  Waiting'
  <2>1. CASE Park(w)
    BY <1>1, <2>1 DEF Park
  <2>2. CASE Quit(w)
    BY <1>1, <2>2 DEF Quit
  <2>3. CASE Take(w)
    BY <1>1, <2>3 DEF Take, BroadcastNotFull
  <2>. QED
    BY <1>1, <2>1, <2>2, <2>3
<1>2. ASSUME NEW w \in Slot, Worker(w) PROVE Waiting'
  <2>1. CASE WorkerLock(w) \/ WorkerResume(w)
    BY <1>1, <2>1 DEF WorkerLock, WorkerResume
  <2>2. CASE WorkerWait(w)
    BY <2>2 DEF WorkerWait
  <2>3. CASE WorkerRetire(w) \/ WorkerExit(w)
    BY <2>3 DEF WorkerRetire, WorkerExit
  <2>4. CASE WorkerStart(w) \/ WorkerFinish(w)
    BY <2>4 DEF WorkerStart, WorkerFinish
  <2>. QED
    BY <1>2, <2>1, <2>2, <2>3, <2>4 DEF Worker
<1>3. ASSUME NEW c \in Caller, NEW t \in Task \union {NoTask}, lock = NoOne, wpc' = wpc,
             Block(c, t) \/ Refuse(c, t) \/ Enqueue(c, t)
      PROVE  Waiting'
  <2>1. CASE Block(c, t)
    BY <1>3, <2>1 DEF Block
  <2>2. CASE Refuse(c, t)
    BY <1>3, <2>2 DEF Refuse
  <2>3. CASE Enqueue(c, t)
    BY <1>3, <2>3 DEF Enqueue
  <2>. QED
    BY <1>3, <2>1, <2>2, <2>3
<1>4. ASSUME NEW c \in Caller, NEW t \in Task, AddTask(c, t) PROVE Waiting'
  BY <1>3, <1>4 DEF AddTask
<1>5. ASSUME NEW c \in Caller, Calling(c) PROVE Waiting'
  <2>1. CASE CallerWait(c)
    BY <2>1 DEF CallerWait
  <2>2. CASE CallerResume(c)
    BY <1>3, <2>2 DEF CallerResume
  <2>3. CASE CallerSignal(c)
    BY <2>3 DEF CallerSignal, SignalNotEmpty, NotEmptyWaiters
  <2>. QED
    BY <1>5, <2>1, <2>2, <2>3 DEF Calling
<1>6. CASE SpuriousWake
  BY <1>6 DEF SpuriousWake
<1>7. CASE Admin
  <2>1. CASE AdminGrow
    BY <2>1 DEF AdminGrow, Vacant
  <2>2. CASE AdminSignal
    BY <2>2 DEF AdminSignal, SignalNotEmpty, NotEmptyWaiters
  <2>3. CASE AdminCheck \/ AdminSample \/ AdminReadBusy \/ AdminShrink
    BY <2>3 DEF AdminCheck, AdminSample, AdminReadBusy, AdminShrink
  <2>. QED
    BY <1>7, <2>1, <2>2, <2>3 DEF Admin
<1>8. CASE DestroyCall \/ Destroying
  BY <1>8 DEF DestroyCall, Destroying, JoinAdmin, Broadcast, BroadcastNotEmpty, Join, Free
<1>9. CASE UNCHANGED vars
  BY <1>9 DEF vars
<1>. QED
  BY <1>2, <1>4, <1>5, <1>6, <1>7, <1>8, <1>9 DEF Next

\* The window between the test of a waiting condition and pthread_cond_wait
\* (handlerthread.c:260-262, 320-321) is closed to every other thread that
\* takes the lock, and a call sleeps only while the queue is full.
THEOREM NoMissedWakeup == Spec => [](WaitConditionStillHolds /\ BlockedOnlyWhenFull)
<1>1. Init => Waiting
  BY DEF Init, Waiting, WaitConditionStillHolds, BlockedOnlyWhenFull
<1>2. Waiting => WaitConditionStillHolds /\ BlockedOnlyWhenFull
  BY DEF Waiting
<1>. QED
  BY InitTypes, StepTypes, <1>1, <1>2, WaitingStep, PTL DEF Spec
-----------------------------------------------------------------------------
(* A pool of fixed size attends to its queue.                              *)

\* Until it is shut down nobody leaves a pool of fixed size: the test before a
\* worker retires, live_thr_num > min_thr_num, never holds.
Staffed ==
    FixedSize /\ ~shutdown =>
        \A w \in Slot : wpc[w] \notin {"none", "exiting", "exited"}

LEMMA StaffedStep == PoolTypes /\ Staffed /\ [Next]_vars => Staffed'
<1>. SUFFICES ASSUME TypeOK, CountBounds, Staffed, [Next]_vars, FixedSize, ~shutdown',
                     NEW v \in Slot
              PROVE  wpc'[v] \notin {"none", "exiting", "exited"}
  BY DEF PoolTypes, Staffed, FixedSize
<1>. USE DEF TypeOK, CountBounds, Staffed, FixedSize, counters, queue, worker, admin,
             caller, destroy
<1>1. ASSUME NEW w \in Slot, Worker(w)
      PROVE  wpc'[v] \notin {"none", "exiting", "exited"}
  <2>1. CASE WorkerLock(w) \/ WorkerResume(w)
    BY <2>1 DEF WorkerLock, WorkerResume, Park, Quit, Take
  <2>2. ~WorkerRetire(w)
    BY PoolAssumption DEF WorkerRetire
  <2>3. CASE WorkerExit(w)
    BY <2>3 DEF WorkerExit
  <2>4. CASE WorkerWait(w) \/ WorkerStart(w) \/ WorkerFinish(w)
    BY <2>4 DEF WorkerWait, WorkerStart, WorkerFinish
  <2>. QED
    BY <1>1, <2>1, <2>2, <2>3, <2>4 DEF Worker
<1>2. ASSUME NEW c \in Caller, Calling(c) \/ \E t \in Task : AddTask(c, t)
      PROVE  wpc'[v] \notin {"none", "exiting", "exited"}
  BY <1>2 DEF Calling, CallerWait, CallerResume, CallerSignal, AddTask,
              SignalNotEmpty, NotEmptyWaiters
<1>3. CASE SpuriousWake
  BY <1>3 DEF SpuriousWake
<1>4. CASE Admin
  <2>1. CASE AdminGrow
    BY <2>1 DEF AdminGrow
  <2>2. CASE AdminSignal
    BY <2>2 DEF AdminSignal, SignalNotEmpty, NotEmptyWaiters
  <2>3. CASE AdminCheck \/ AdminSample \/ AdminReadBusy \/ AdminShrink
    BY <2>3 DEF AdminCheck, AdminSample, AdminReadBusy, AdminShrink
  <2>. QED
    BY <1>4, <2>1, <2>2, <2>3 DEF Admin
<1>5. CASE DestroyCall \/ Destroying
  BY <1>5 DEF DestroyCall, Destroying, JoinAdmin, Broadcast, BroadcastNotEmpty, Join,
              Free
<1>6. CASE UNCHANGED vars
  BY <1>6 DEF vars
<1>. QED
  BY <1>1, <1>2, <1>3, <1>4, <1>5, <1>6 DEF Next

\* pool->shutdown is never cleared.
LEMMA ShutdownForGood ==
    ASSUME [Next]_vars, ~shutdown'
    PROVE  ~shutdown
BY DEF Next, Worker, WorkerLock, WorkerWait, WorkerRetire, WorkerResume, WorkerStart,
       WorkerFinish, WorkerExit, Calling, CallerWait, CallerResume, CallerSignal,
       AddTask, SpuriousWake, Admin, AdminCheck, AdminSample, AdminReadBusy,
       AdminGrow, AdminShrink, AdminSignal, DestroyCall, Destroying, JoinAdmin,
       Broadcast, Join, Free, vars

Coming(w) == wpc[w] \in {"top", "woken", "taken", "running"}
Attended ==
    queue_size > 0 => \/ \E w \in Slot : Coming(w)
                      \/ \E c \in Caller : ppc[c] = "signal"

LEMMA AttendedStep ==
    ASSUME PoolTypes, Waiting, Staffed, [Next]_vars, FixedSize, ~shutdown', Attended
    PROVE  Attended'
<1>. USE PoolAssumption DEF PoolTypes, TypeOK, CountBounds, Attended, Coming, FixedSize,
         counters, queue, worker, admin, caller, destroy
<1>1. ~shutdown
  BY ShutdownForGood
<1>2. ASSUME NEW w \in Slot, Worker(w) PROVE Attended'
  <2>1. CASE WorkerLock(w) \/ WorkerResume(w)
    BY <1>1, <2>1 DEF WorkerLock, WorkerResume, Park, Quit, Take
  <2>2. CASE WorkerWait(w)
    BY <2>2 DEF WorkerWait, Waiting, WaitConditionStillHolds
  <2>3. CASE WorkerRetire(w) \/ WorkerExit(w)
    BY <1>1, <2>3 DEF WorkerRetire, WorkerExit, Staffed
  <2>4. CASE WorkerStart(w) \/ WorkerFinish(w)
    BY <2>4 DEF WorkerStart, WorkerFinish
  <2>. QED
    BY <1>2, <2>1, <2>2, <2>3, <2>4 DEF Worker
<1>3. ASSUME NEW c \in Caller, NEW t \in Task \union {NoTask}, wpc' = wpc,
             ppc[c] # "signal", Block(c, t) \/ Refuse(c, t) \/ Enqueue(c, t)
      PROVE  Attended'
  BY <1>1, <1>3 DEF Block, Refuse, Enqueue
<1>4. ASSUME NEW c \in Caller, NEW t \in Task, AddTask(c, t) PROVE Attended'
  BY <1>3, <1>4 DEF AddTask
<1>5. ASSUME NEW c \in Caller, Calling(c) PROVE Attended'
  <2>1. CASE CallerWait(c)
    BY <2>1 DEF CallerWait
  <2>2. CASE CallerResume(c)
    BY <1>3, <2>2 DEF CallerResume
  <2>3. CASE CallerSignal(c)
    <3>1. CASE NotEmptyWaiters = {}
      <4>1. ASSUME queue_size > 0 PROVE Coming(0) /\ 0 \in Slot
        BY <1>1, <3>1, <4>1
           DEF NotEmptyWaiters, Staffed, Waiting, WaitConditionStillHolds, WorkerPC
      <4>. QED
        BY <2>3, <3>1, <4>1 DEF CallerSignal, SignalNotEmpty
    <3>2. CASE NotEmptyWaiters # {}
      BY <2>3, <3>2 DEF CallerSignal, SignalNotEmpty, NotEmptyWaiters
    <3>. QED
      BY <3>1, <3>2
  <2>. QED
    BY <1>5, <2>1, <2>2, <2>3 DEF Calling
<1>6. CASE SpuriousWake
  BY <1>6 DEF SpuriousWake
<1>7. CASE Admin
  <2>1. CASE AdminGrow
    BY <2>1 DEF AdminGrow
  <2>2. CASE AdminSignal
    BY <2>2 DEF AdminSignal, SignalNotEmpty, NotEmptyWaiters
  <2>3. CASE AdminCheck \/ AdminSample \/ AdminReadBusy \/ AdminShrink
    BY <2>3 DEF AdminCheck, AdminSample, AdminReadBusy, AdminShrink
  <2>. QED
    BY <1>7, <2>1, <2>2, <2>3 DEF Admin
<1>8. CASE DestroyCall \/ Destroying
  BY <1>8 DEF DestroyCall, Destroying, JoinAdmin, Broadcast, BroadcastNotEmpty, Join, Free
<1>9. CASE UNCHANGED vars
  BY <1>9 DEF vars
<1>. QED
  BY <1>2, <1>4, <1>5, <1>6, <1>7, <1>8, <1>9 DEF Next

\* In a pool created with min_thr_num = max_thr_num > 0 no lost wakeup leaves a
\* queued task with every worker asleep (handlerthread.c:260-262, 341-343).
THEOREM NothingStranded == Spec => []NoStrandedTask
<1>1. Init => Staffed /\ NoStrandedTask
  BY PoolAssumption DEF Init, Staffed, NoStrandedTask, FixedSize
<1>2. Init => Waiting
  BY DEF Init, Waiting, WaitConditionStillHolds, BlockedOnlyWhenFull
<1>3. PoolTypes /\ Waiting /\ Staffed /\ NoStrandedTask /\ [Next]_vars => NoStrandedTask'
  <2>. SUFFICES ASSUME PoolTypes, Waiting, Staffed, NoStrandedTask, [Next]_vars,
                       FixedSize, ~shutdown'
                PROVE  Attended'
    BY DEF NoStrandedTask, Attended, Coming, FixedSize
  <2>1. ~shutdown
    BY ShutdownForGood
  <2>2. Attended
    BY <2>1 DEF NoStrandedTask, Attended, Coming, FixedSize
  <2>. QED
    BY <2>2, AttendedStep
<1>. QED
  BY InitTypes, StepTypes, <1>1, <1>2, <1>3, WaitingStep, StaffedStep, PTL DEF Spec
-----------------------------------------------------------------------------
(* live_thr_num                                                            *)

LiveCounted ==
    /\ Cardinality(Alive) <= live_thr_num
    /\ ~shutdown => Cardinality(Alive) = live_thr_num

\* The two facts a step has to be looked at for: which workers live on, and
\* what live_thr_num becomes.
LEMMA SameAlive ==
    ASSUME LiveCounted, live_thr_num' = live_thr_num, shutdown' = shutdown \/ shutdown',
           \A w \in Slot : wpc'[w] \notin {"none", "exiting", "exited"}
                           <=> wpc[w] \notin {"none", "exiting", "exited"}
    PROVE  LiveCounted'
<1>1. Alive' = Alive
  BY DEF Alive
<1>. QED
  BY <1>1 DEF LiveCounted

LEMMA LiveStep == PoolTypes /\ LiveCounted /\ [Next]_vars => LiveCounted'
<1>. SUFFICES ASSUME PoolTypes, LiveCounted, [Next]_vars
              PROVE  LiveCounted'
  OBVIOUS
<1>. USE DEF PoolTypes, TypeOK, counters, queue, worker, admin, caller, destroy
<1>1. ASSUME NEW w \in Slot, Worker(w) PROVE LiveCounted'
  <2>1. ASSUME shutdown' = shutdown, live_thr_num' = live_thr_num, wpc[w] \in {"top", "woken"},
               Park(w) \/ Quit(w) \/ Take(w)
        PROVE  LiveCounted'
    <3>1. CASE Park(w) \/ Take(w)
      BY <2>1, <3>1, SameAlive DEF Park, Take
    <3>2. CASE Quit(w)
      <4>1. Alive' = Alive \ {w} /\ w \in Alive
        BY <2>1, <3>2 DEF Quit, Alive
      <4>2. IsFiniteSet(Alive) /\ Cardinality(Alive) \in Nat
        BY SlotsFinite DEF Alive
      <4>3. Cardinality(Alive') = Cardinality(Alive) - 1
        BY <4>1, <4>2, FS_RemoveElement
      <4>. QED
        BY <2>1, <3>2, <4>2, <4>3 DEF Quit, LiveCounted
    <3>. QED
      BY <2>1, <3>1, <3>2
  <2>2. CASE WorkerLock(w) \/ WorkerResume(w)
    BY <2>1, <2>2 DEF WorkerLock, WorkerResume
  <2>3. CASE WorkerRetire(w)
    <3>1. Alive' = Alive \ {w} /\ w \in Alive
      BY <2>3 DEF WorkerRetire, Alive
    <3>2. IsFiniteSet(Alive) /\ Cardinality(Alive) \in Nat
      BY SlotsFinite DEF Alive
    <3>3. Cardinality(Alive') = Cardinality(Alive) - 1
      BY <3>1, <3>2, FS_RemoveElement
    <3>. QED
      BY <2>3, <3>2, <3>3 DEF WorkerRetire, LiveCounted
  <2>4. CASE WorkerWait(w) \/ WorkerStart(w) \/ WorkerFinish(w) \/ WorkerExit(w)
    BY <2>4, SameAlive DEF WorkerWait, WorkerStart, WorkerFinish, WorkerExit
  <2>. QED
    BY <1>1, <2>2, <2>3, <2>4 DEF Worker
<1>2. ASSUME NEW c \in Caller, Calling(c) \/ \E t \in Task : AddTask(c, t)
      PROVE  LiveCounted'
  BY <1>2, SameAlive DEF Calling, CallerWait, CallerResume, CallerSignal, AddTask,
                         SignalNotEmpty, NotEmptyWaiters
<1>3. CASE SpuriousWake
  BY <1>3, SameAlive DEF SpuriousWake
<1>4. CASE Admin
  <2>1. CASE AdminGrow
    <3>1. PICK new \in SUBSET Vacant :
            /\ live_thr_num' = live_thr_num + Cardinality(new)
            /\ wpc' = [w \in Slot |-> IF w \in new THEN "top" ELSE wpc[w]]
      BY <2>1 DEF AdminGrow
    <3>2. Alive' = Alive \union new /\ Alive \intersect new = {}
      BY <3>1 DEF Alive, Vacant
    <3>3. /\ IsFiniteSet(Alive) /\ Cardinality(Alive) \in Nat
          /\ IsFiniteSet(new) /\ Cardinality(new) \in Nat
      BY SlotsFinite DEF Alive, Vacant
    <3>4. Cardinality(Alive') = Cardinality(Alive) + Cardinality(new)
      <4>1. Cardinality({}) = 0
        BY FS_EmptySet
      <4>2. Cardinality(Alive \union new) =
              Cardinality(Alive) + Cardinality(new) - Cardinality(Alive \intersect new)
        BY <3>3, FS_Union
      <4>3. Cardinality(Alive \intersect new) = 0
        BY <3>2, <4>1
      <4>4. Cardinality(Alive \union new) = Cardinality(Alive) + Cardinality(new)
        BY <3>3, <4>2, <4>3
      <4>. QED
        BY <3>2, <4>4
    <3>. QED
      BY <2>1, <3>1, <3>3, <3>4 DEF AdminGrow, LiveCounted
  <2>2. CASE AdminSignal
    BY <2>2, SameAlive DEF AdminSignal, SignalNotEmpty, NotEmptyWaiters
  <2>3. CASE AdminCheck \/ AdminSample \/ AdminReadBusy \/ AdminShrink
    BY <2>3, SameAlive DEF AdminCheck, AdminSample, AdminReadBusy, AdminShrink
  <2>. QED
    BY <1>4, <2>1, <2>2, <2>3 DEF Admin
<1>5. CASE DestroyCall \/ Destroying
  BY <1>5, SameAlive DEF DestroyCall, Destroying, JoinAdmin, Broadcast,
                         BroadcastNotEmpty, Join, Free
<1>6. CASE UNCHANGED vars
  BY <1>6, SameAlive DEF vars
<1>. QED
  BY <1>1, <1>2, <1>3, <1>4, <1>5, <1>6 DEF Next

\* live_thr_num stays within min_thr_num..max_thr_num and counts the live
\* workers, however they retire, quit and are started (handlerthread.c:212-217,
\* 268-273, 278-282).
THEOREM LiveThreadsAreCounted == Spec => []LiveThreadsCounted
<1>1. Init => LiveCounted
  <2>. SUFFICES ASSUME Init PROVE LiveCounted
    OBVIOUS
  <2>1. Alive = 0..(MinThr - 1)
    BY PoolAssumption DEF Init, Alive
  <2>2. Cardinality(0..(MinThr - 1)) = MinThr
    BY PoolAssumption, FS_Interval
  <2>. QED
    BY <2>1, <2>2, PoolAssumption DEF Init, LiveCounted
<1>2. PoolTypes /\ LiveCounted => LiveThreadsCounted
  BY DEF PoolTypes, CountBounds, LiveCounted, LiveThreadsCounted
<1>. QED
  BY InitTypes, StepTypes, <1>1, <1>2, LiveStep, PTL DEF Spec
-----------------------------------------------------------------------------
(* One wakeup on its way for every queued task.                            *)

OnTheWay == At("top") \union At("woken")

\* What WakeupPerTask says of the pool, while it is staffed and not shut down.
Awaited ==
    NotEmptyWaiters # {} => queue_size <= Cardinality(OnTheWay) + Cardinality(Signalling)

LEMMA OnTheWayFinite ==
    /\ IsFiniteSet(OnTheWay) /\ Cardinality(OnTheWay) \in Nat
    /\ IsFiniteSet(Signalling) /\ Cardinality(Signalling) \in Nat
    /\ Cardinality(OnTheWay) = Cardinality(At("top")) + Cardinality(At("woken"))
<1>1. /\ IsFiniteSet(At("top")) /\ Cardinality(At("top")) \in Nat
      /\ IsFiniteSet(At("woken")) /\ Cardinality(At("woken")) \in Nat
  BY SlotsFinite DEF At
<1>2. IsFiniteSet(OnTheWay) /\ Cardinality(OnTheWay) \in Nat
  BY SlotsFinite DEF At, OnTheWay
<1>3. IsFiniteSet(Signalling) /\ Cardinality(Signalling) \in Nat
  BY PoolAssumption, FS_Subset, FS_CardinalityType DEF Signalling
<1>4. Cardinality(At("top") \intersect At("woken")) = 0
  <2>1. At("top") \intersect At("woken") = {}
    BY DEF At
  <2>. QED
    BY <2>1, FS_EmptySet
<1>5. Cardinality(OnTheWay) = Cardinality(At("top")) + Cardinality(At("woken"))
                                - Cardinality(At("top") \intersect At("woken"))
  BY <1>1, FS_Union DEF OnTheWay
<1>. QED
  BY <1>1, <1>2, <1>3, <1>4, <1>5

\* A step that takes nobody off the way and adds no task keeps it so.
LEMMA NobodyTurnsBack ==
    ASSUME TypeOK, TypeOK', Awaited, queue_size' = queue_size,
           NotEmptyWaiters' # {} => NotEmptyWaiters # {},
           \A w \in Slot : wpc[w] \in {"top", "woken"} => wpc'[w] \in {"top", "woken"},
           \A c \in Caller : ppc[c] = "signal" => ppc'[c] = "signal"
    PROVE  Awaited'
<1>1. OnTheWay \subseteq OnTheWay' /\ Signalling \subseteq Signalling'
  BY DEF OnTheWay, At, Signalling
<1>2. /\ IsFiniteSet(OnTheWay') /\ IsFiniteSet(Signalling')
      /\ Cardinality(OnTheWay') \in Nat /\ Cardinality(Signalling') \in Nat
  <2>1. OnTheWay' \in SUBSET Slot /\ Signalling' \in SUBSET Caller
    BY DEF OnTheWay, At, Signalling
  <2>. QED
    BY <2>1, SlotsFinite, PoolAssumption, FS_Subset, FS_CardinalityType
<1>3. /\ Cardinality(OnTheWay) <= Cardinality(OnTheWay')
      /\ Cardinality(Signalling) <= Cardinality(Signalling')
  BY <1>1, <1>2, FS_Subset
<1>4. ASSUME NotEmptyWaiters' # {}
      PROVE  queue_size' <= Cardinality(OnTheWay') + Cardinality(Signalling')
  <2>1. queue_size \in Nat /\ queue_size <= Cardinality(OnTheWay) + Cardinality(Signalling)
    BY <1>4, PoolAssumption DEF Awaited, TypeOK
  <2>2. PICK a \in Nat, b \in Nat : a = Cardinality(OnTheWay) /\ b = Cardinality(Signalling)
    BY OnTheWayFinite
  <2>3. PICK c \in Nat, d \in Nat : c = Cardinality(OnTheWay') /\ d = Cardinality(Signalling')
    BY <1>2
  <2>4. a <= c /\ b <= d
    BY <1>3, <2>2, <2>3
  <2>5. queue_size' <= c + d
    BY <2>1, <2>2, <2>4
  <2>. QED
    BY <2>3, <2>5
<1>. QED
  BY <1>4 DEF Awaited

LEMMA AwaitedStep ==
    ASSUME PoolTypes, PoolTypes', Waiting, Staffed, [Next]_vars, FixedSize, ~shutdown', Awaited
    PROVE  Awaited'
<1>. USE DEF counters, queue, worker, admin, caller, destroy
<1>0. TypeOK /\ TypeOK' /\ CountBounds /\ ~shutdown /\ queue_size \in Nat
  <2>1. TypeOK /\ TypeOK' /\ CountBounds
    BY DEF PoolTypes
  <2>2. queue_size \in Nat
    BY <2>1, PoolAssumption DEF TypeOK
  <2>3. ~shutdown
    BY <2>1, ShutdownForGood
  <2>. QED
    BY <2>1, <2>2, <2>3
<1>1. ASSUME NEW w \in Slot, wpc[w] \in {"top", "woken"}, UNCHANGED <<shutdown, ppc>> \/ Take(w),
             Park(w) \/ Quit(w) \/ Take(w)
      PROVE  Awaited'
  <2>1. CASE Park(w)
    <3>1. queue_size' = 0
      BY <2>1 DEF Park
    <3>2. Cardinality(OnTheWay') \in Nat /\ Cardinality(Signalling') \in Nat
      <4>1. OnTheWay' \in SUBSET Slot /\ Signalling' \in SUBSET Caller
        BY DEF OnTheWay, At, Signalling
      <4>. QED
        BY <4>1, SlotsFinite, PoolAssumption, FS_Subset, FS_CardinalityType
    <3>. QED
      BY <3>1, <3>2 DEF Awaited
  <2>2. ~Quit(w)
    BY <1>0 DEF Quit
  <2>3. CASE Take(w)
    <3>1. OnTheWay' = OnTheWay \ {w} /\ w \in OnTheWay
      BY <1>0, <1>1, <2>3 DEF Take, OnTheWay, At, TypeOK
    <3>2. Signalling' = Signalling
      BY <1>0, <2>3 DEF Take, BroadcastNotFull, Signalling, TypeOK
    <3>3. Cardinality(OnTheWay') = Cardinality(OnTheWay) - 1
      BY <3>1, OnTheWayFinite, FS_RemoveElement
    <3>4. NotEmptyWaiters' \subseteq NotEmptyWaiters /\ queue_size' = queue_size - 1
      BY <1>0, <2>3 DEF Take, NotEmptyWaiters, TypeOK
    <3>. QED
      BY <1>0, <3>2, <3>3, <3>4, OnTheWayFinite DEF Awaited
  <2>. QED
    BY <1>1, <2>1, <2>2, <2>3
<1>2. ASSUME NEW w \in Slot, Worker(w) PROVE Awaited'
  <2>1. CASE WorkerLock(w) \/ WorkerResume(w)
    BY <1>1, <2>1 DEF WorkerLock, WorkerResume, Park, Quit
  <2>2. CASE WorkerWait(w)
    <3>1. queue_size' = 0
      BY <2>2 DEF WorkerWait, Waiting, WaitConditionStillHolds
    <3>2. Cardinality(OnTheWay') \in Nat /\ Cardinality(Signalling') \in Nat
      <4>1. OnTheWay' \in SUBSET Slot /\ Signalling' \in SUBSET Caller
        BY DEF OnTheWay, At, Signalling
      <4>. QED
        BY <4>1, SlotsFinite, PoolAssumption, FS_Subset, FS_CardinalityType
    <3>. QED
      BY <3>1, <3>2 DEF Awaited
  <2>3. ~WorkerRetire(w) /\ ~WorkerExit(w)
    BY <1>0, PoolAssumption DEF WorkerRetire, WorkerExit, Staffed, FixedSize, CountBounds, TypeOK
  <2>4. CASE WorkerStart(w) \/ WorkerFinish(w)
    <3>1. /\ wpc[w] \in {"taken", "running"} /\ wpc' \in {[wpc EXCEPT ![w] = pc] : pc \in {"running", "top"}}
          /\ queue_size' = queue_size /\ ppc' = ppc
      BY <2>4 DEF WorkerStart, WorkerFinish
    <3>2. PICK pc \in {"running", "top"} : wpc' = [wpc EXCEPT ![w] = pc]
      BY <3>1
    <3>3. \A v \in Slot : wpc'[v] = IF v = w THEN pc ELSE wpc[v]
      BY <1>0, <3>2 DEF TypeOK
    <3>4. NotEmptyWaiters' \subseteq NotEmptyWaiters
      BY <3>3 DEF NotEmptyWaiters
    <3>5. \A v \in Slot : wpc[v] \in {"top", "woken"} => wpc'[v] \in {"top", "woken"}
      BY <3>1, <3>3
    <3>. QED
      BY <1>0, <3>1, <3>4, <3>5, NobodyTurnsBack
  <2>. QED
    BY <1>2, <2>1, <2>2, <2>3, <2>4 DEF Worker
<1>3. ASSUME NEW c \in Caller, NEW t \in Task \union {NoTask}, wpc' = wpc,
             ppc[c] # "signal", Block(c, t) \/ Refuse(c, t) \/ Enqueue(c, t)
      PROVE  Awaited'
  <2>1. CASE Block(c, t)
    <3>1. queue_size' = queue_size /\ NotEmptyWaiters' = NotEmptyWaiters
      BY <1>3, <2>1 DEF Block, NotEmptyWaiters
    <3>2. \A d \in Caller : ppc[d] = "signal" => ppc'[d] = "signal"
      BY <1>0, <1>3, <2>1 DEF Block, TypeOK
    <3>3. \A w \in Slot : wpc[w] \in {"top", "woken"} => wpc'[w] \in {"top", "woken"}
      BY <1>3
    <3>. QED
      BY <1>0, <3>1, <3>2, <3>3, NobodyTurnsBack
  <2>2. ~Refuse(c, t)
    BY <1>0 DEF Refuse
  <2>3. CASE Enqueue(c, t)
    <3>a. \A d \in Caller : ppc'[d] = IF d = c THEN "signal" ELSE ppc[d]
      BY <1>0, <2>3 DEF Enqueue, TypeOK
    <3>1. Signalling' = Signalling \union {c} /\ c \notin Signalling
      BY <1>3, <3>a DEF Signalling
    <3>2. Cardinality(Signalling') = Cardinality(Signalling) + 1
      BY <3>1, OnTheWayFinite, FS_AddElement
    <3>3. OnTheWay' = OnTheWay /\ NotEmptyWaiters' = NotEmptyWaiters
      BY <1>3 DEF OnTheWay, At, NotEmptyWaiters
    <3>4. queue_size' = queue_size + 1
      BY <2>3 DEF Enqueue
    <3>. QED
      BY <1>0, <3>2, <3>3, <3>4, OnTheWayFinite DEF Awaited
  <2>. QED
    BY <1>3, <2>1, <2>2, <2>3
<1>4. ASSUME NEW c \in Caller, NEW t \in Task, AddTask(c, t) PROVE Awaited'
  BY <1>3, <1>4 DEF AddTask
<1>5. ASSUME NEW c \in Caller, Calling(c) PROVE Awaited'
  <2>1. CASE CallerWait(c)
    BY <1>0, <2>1, NobodyTurnsBack DEF CallerWait, NotEmptyWaiters, TypeOK
  <2>2. CASE CallerResume(c)
    BY <1>0, <1>3, <2>2 DEF CallerResume, TypeOK
  <2>3. CASE CallerSignal(c)
    <3>1. CASE NotEmptyWaiters = {}
      BY <2>3, <3>1 DEF CallerSignal, SignalNotEmpty, NotEmptyWaiters, Awaited
    <3>2. CASE NotEmptyWaiters # {}
      <4>1. PICK w \in NotEmptyWaiters : wpc' = [wpc EXCEPT ![w] = "woken"]
        BY <2>3, <3>2 DEF CallerSignal, SignalNotEmpty
      <4>2. OnTheWay' = OnTheWay \union {w} /\ w \notin OnTheWay
        BY <1>0, <4>1 DEF OnTheWay, At, NotEmptyWaiters, TypeOK
      <4>3. Signalling' = Signalling \ {c} /\ c \in Signalling
        BY <1>0, <2>3 DEF CallerSignal, Signalling, TypeOK
      <4>4. /\ Cardinality(OnTheWay') = Cardinality(OnTheWay) + 1
            /\ Cardinality(Signalling') = Cardinality(Signalling) - 1
        BY <4>2, <4>3, OnTheWayFinite, FS_AddElement, FS_RemoveElement
      <4>5. queue_size' = queue_size
        BY <2>3 DEF CallerSignal
      <4>. QED
        BY <1>0, <3>2, <4>4, <4>5, OnTheWayFinite DEF Awaited
    <3>. QED
      BY <3>1, <3>2
  <2>. QED
    BY <1>5, <2>1, <2>2, <2>3 DEF Calling
<1>6. CASE SpuriousWake
  BY <1>0, <1>6, NobodyTurnsBack DEF SpuriousWake, NotEmptyWaiters, TypeOK
<1>7. CASE Admin
  <2>1. CASE AdminGrow
    BY <1>0, <2>1, NobodyTurnsBack DEF AdminGrow, Vacant, NotEmptyWaiters, TypeOK
  <2>2. CASE AdminSignal
    BY <1>0, <2>2, NobodyTurnsBack DEF AdminSignal, SignalNotEmpty, NotEmptyWaiters, TypeOK
  <2>3. CASE AdminCheck \/ AdminSample \/ AdminReadBusy \/ AdminShrink
    BY <1>0, <2>3, NobodyTurnsBack
       DEF AdminCheck, AdminSample, AdminReadBusy, AdminShrink, NotEmptyWaiters
  <2>. QED
    BY <1>7, <2>1, <2>2, <2>3 DEF Admin
<1>8. CASE DestroyCall \/ Destroying
  BY <1>0, <1>8, NobodyTurnsBack DEF DestroyCall, Destroying, JoinAdmin, Broadcast,
     BroadcastNotEmpty, Join, Free, NotEmptyWaiters, TypeOK
<1>9. CASE UNCHANGED vars
  BY <1>0, <1>9, NobodyTurnsBack DEF vars, NotEmptyWaiters
<1>. QED
  BY <1>2, <1>4, <1>5, <1>6, <1>7, <1>8, <1>9 DEF Next

\* In a pool of fixed size a signal is sent for every task queued while workers
\* sleep, and none of them is used up by a task it was not sent for: there are
\* always as many wakeups on their way as tasks waiting (handlerthread.c:260-262,
\* 341-343).
THEOREM WakeupForEveryTask == Spec => []WakeupPerTask
<1>. DEFINE Fixed == FixedSize /\ ~shutdown => Awaited
<1>1. Init => Staffed /\ Fixed
  BY PoolAssumption DEF Init, Staffed, Awaited, NotEmptyWaiters, FixedSize
<1>2. Init => Waiting
  BY DEF Init, Waiting, WaitConditionStillHolds, BlockedOnlyWhenFull
<1>3. Fixed => WakeupPerTask
  BY OnTheWayFinite DEF WakeupPerTask, Awaited
<1>4. PoolTypes /\ PoolTypes' /\ Waiting /\ Staffed /\ Fixed /\ [Next]_vars => Fixed'
  <2>. SUFFICES ASSUME PoolTypes, PoolTypes', Waiting, Staffed, Fixed, [Next]_vars,
                       FixedSize, ~shutdown'
                PROVE  Awaited'
    BY DEF FixedSize
  <2>1. Awaited
    BY ShutdownForGood
  <2>. QED
    BY <2>1, AwaitedStep
<1>. QED
  BY InitTypes, StepTypes, <1>1, <1>2, <1>3, <1>4, WaitingStep, StaffedStep, PTL DEF Spec
-----------------------------------------------------------------------------
(* The end of the pool.                                                    *)

Gone(w) == wpc[w] \in {"exited", "none"}

\* How far threadpool_destroy has come, and who is gone by then.
Retreat ==
    /\ dpc # "idle" => shutdown /\ \A c \in Caller : ppc[c] = "idle"
    /\ dpc \notin {"idle", "join_admin"} => apc = "exited"
    /\ dpc = "join" => \A w \in Slot : w < di => Gone(w)
    /\ dpc \in {"free", "freed"} => \A w \in Slot : Gone(w)

\* Workers that are gone stay so once the admin thread has exited.
LEMMA RetreatKept ==
    ASSUME Retreat, UNCHANGED destroy, shutdown => shutdown',
           dpc # "idle" => UNCHANGED ppc,
           apc = "exited" => apc' = "exited",
           apc = "exited" => \A w \in Slot : Gone(w) => Gone(w)'
    PROVE  Retreat'
BY DEF Retreat, destroy

LEMMA RetreatStep ==
    ASSUME PoolTypes, Retreat, [Next]_vars, FixedSize, QuiescentDestroy
    PROVE  Retreat'
<1>. USE DEF PoolTypes, TypeOK, Gone, counters, queue, worker, admin, caller, destroy
<1>1. ASSUME NEW w \in Slot, Worker(w) PROVE Retreat'
  <2>1. CASE WorkerLock(w) \/ WorkerResume(w)
    <3>1. ASSUME dpc # "idle" PROVE UNCHANGED ppc
      BY <2>1, <3>1 DEF WorkerLock, WorkerResume, Park, Quit, Take, Retreat
    <3>. QED
      BY <2>1, <3>1, RetreatKept DEF WorkerLock, WorkerResume, Park, Quit, Take
  <2>2. CASE WorkerWait(w) \/ WorkerRetire(w) \/ WorkerStart(w) \/ WorkerFinish(w)
             \/ WorkerExit(w)
    BY <2>2, RetreatKept
       DEF WorkerWait, WorkerRetire, WorkerStart, WorkerFinish, WorkerExit
  <2>. QED
    BY <1>1, <2>1, <2>2 DEF Worker
<1>2. ASSUME NEW c \in Caller, NEW t \in Task, AddTask(c, t) PROVE Retreat'
  BY <1>2, RetreatKept DEF AddTask
<1>3. ASSUME NEW c \in Caller, Calling(c) PROVE Retreat'
  <2>1. dpc = "idle"
    BY <1>3 DEF Calling, CallerWait, CallerResume, CallerSignal, Retreat
  <2>. QED
    BY <1>3, <2>1 DEF Calling, CallerWait, CallerResume, CallerSignal, Retreat
<1>4. CASE SpuriousWake
  BY <1>4, RetreatKept DEF SpuriousWake, Retreat
<1>5. CASE Admin
  <2>1. apc # "exited"
    BY <1>5 DEF Admin, AdminCheck, AdminSample, AdminReadBusy, AdminGrow, AdminShrink,
                AdminSignal
  <2>. QED
    BY <1>5, <2>1, RetreatKept DEF Admin, AdminCheck, AdminSample, AdminReadBusy,
       AdminGrow, AdminShrink, AdminSignal
<1>6. CASE DestroyCall
  BY <1>6 DEF DestroyCall, Retreat
<1>7. CASE JoinAdmin \/ Broadcast
  BY <1>7 DEF JoinAdmin, Broadcast, BroadcastNotEmpty, Retreat
<1>8. CASE Join
  <2>1. CASE di < live_thr_num
    BY <1>8, <2>1, PoolAssumption DEF Join, Retreat
  <2>2. CASE ~(di < live_thr_num)
    <3>1. \A w \in Slot : w < di
      BY <2>2, PoolAssumption DEF FixedSize, CountBounds
    <3>. QED
      BY <1>8, <2>2, <3>1 DEF Join, Retreat
  <2>. QED
    BY <2>1, <2>2
<1>9. CASE Free
  BY <1>9 DEF Free, Retreat
<1>10. CASE UNCHANGED vars
  BY <1>10, RetreatKept DEF vars
<1>. QED
  BY <1>1, <1>2, <1>3, <1>4, <1>5, <1>6, <1>7, <1>8, <1>9, <1>10 DEF Next, Destroying

\* In a pool of fixed size that is destroyed when no call is under way, as
\* unInit() does, threadpool_free comes after the last worker and the admin
\* thread have ended (handlerthread.c:169-184).
THEOREM FreedLast ==
    ASSUME FixedSize, QuiescentDestroy
    PROVE  Spec => []NoUseAfterFree
<1>1. Init => Retreat
  BY DEF Init, Retreat
<1>2. PoolTypes /\ Retreat /\ [Next]_vars => Retreat'
  BY RetreatStep
<1>3. Retreat => NoUseAfterFree
  BY DEF Retreat, NoUseAfterFree, Alive, Gone
<1>. QED
  BY InitTypes, StepTypes, <1>1, <1>2, <1>3, PTL DEF Spec
-----------------------------------------------------------------------------
(* The refinement.  First, sequences.                                      *)

HIDE DEF Slot

LEMMA FunctionIsSeq ==
    ASSUME NEW S, NEW n \in Nat, NEW f \in [1..n -> S]
    PROVE  f \in Seq(S) /\ Len(f) = n
OBVIOUS

LEMMA IsAppend ==
    ASSUME NEW S, NEW s \in Seq(S), NEW t \in Seq(S), NEW e \in S,
           Len(t) = Len(s) + 1, t[Len(s) + 1] = e, \A i \in 1..Len(s) : t[i] = s[i]
    PROVE  t = Append(s, e)
OBVIOUS

LEMMA IsTail ==
    ASSUME NEW S, NEW s \in Seq(S), NEW t \in Seq(S), s # <<>>,
           Len(t) = Len(s) - 1, \A i \in 1..Len(t) : t[i] = s[i + 1]
    PROVE  t = Tail(s)
OBVIOUS
-----------------------------------------------------------------------------
(* The ring: a queue of n entries in the cells of q, the oldest in cell f. *)

Entry == Task \union {NoTask}
Ring(q, f, n) == [i \in 1..n |-> q[(f + i - 1) % QueueMax]]

\* An index past the end of the ring goes on at its beginning.
LEMMA Wrap ==
    ASSUME NEW k \in 0..(2 * QueueMax - 1)
    PROVE  k % QueueMax = IF k < QueueMax THEN k ELSE k - QueueMax
BY PoolAssumption

LEMMA PlaceInCell ==
    ASSUME NEW k \in Cell, NEW i \in 0..QueueMax
    PROVE  (k + i) % QueueMax \in Cell
BY Wrap, PoolAssumption

\* The entries are in different cells.
LEMMA PlacesDiffer ==
    ASSUME NEW k \in Cell, NEW i \in 0..(QueueMax - 1), NEW j \in 0..(QueueMax - 1),
           (k + i) % QueueMax = (k + j) % QueueMax
    PROVE  i = j
BY Wrap, PoolAssumption

\* Counting from the next cell is counting one further.
LEMMA NextPlace ==
    ASSUME NEW k \in Cell, NEW i \in 0..(QueueMax - 1)
    PROVE  (((k + 1) % QueueMax) + i) % QueueMax = (k + (i + 1)) % QueueMax
<1>1. (k + 1) % QueueMax = IF k + 1 < QueueMax THEN k + 1 ELSE k + 1 - QueueMax
  BY Wrap, PoolAssumption
<1>2. CASE k + 1 < QueueMax
  BY <1>1, <1>2
<1>3. CASE k + 1 >= QueueMax
  BY <1>1, <1>3, Wrap, PoolAssumption
<1>. QED
  BY <1>2, <1>3, PoolAssumption

\* So is advancing from the cell i places on.
LEMMA PreviousPlace ==
    ASSUME NEW k \in Cell, NEW i \in 0..(QueueMax - 1)
    PROVE  (((k + i) % QueueMax) + 1) % QueueMax = (k + (i + 1)) % QueueMax
<1>1. (k + i) % QueueMax = IF k + i < QueueMax THEN k + i ELSE k + i - QueueMax
  BY Wrap, PoolAssumption
<1>2. CASE k + i < QueueMax
  BY <1>1, <1>2
<1>3. CASE k + i >= QueueMax
  BY <1>1, <1>3, Wrap, PoolAssumption
<1>. QED
  BY <1>2, <1>3, PoolAssumption

LEMMA RingIsSeq ==
    ASSUME NEW q \in [Cell -> Entry], NEW f \in Cell, NEW n \in 0..QueueMax
    PROVE  /\ Ring(q, f, n) \in Seq(Entry)
           /\ Len(Ring(q, f, n)) = n
           /\ \A i \in 1..n :
                 /\ (f + (i - 1)) % QueueMax \in Cell
                 /\ Ring(q, f, n)[i] = q[(f + (i - 1)) % QueueMax]
<1>1. ASSUME NEW i \in 1..n
      PROVE  (f + (i - 1)) % QueueMax \in Cell /\ f + i - 1 = f + (i - 1)
  <2>1. i - 1 \in 0..QueueMax /\ f + i - 1 = f + (i - 1)
    BY PoolAssumption
  <2>. QED
    BY <2>1, PlaceInCell
<1>2. Ring(q, f, n) \in [1..n -> Entry]
  BY <1>1 DEF Ring
<1>3. n \in Nat
  BY PoolAssumption
<1>4. Ring(q, f, n) \in Seq(Entry) /\ Len(Ring(q, f, n)) = n
  BY <1>2, <1>3, FunctionIsSeq
<1>5. ASSUME NEW i \in 1..n
      PROVE  Ring(q, f, n)[i] = q[(f + (i - 1)) % QueueMax]
  <2>1. Ring(q, f, n)[i] = q[(f + i - 1) % QueueMax]
    BY DEF Ring
  <2>. QED
    BY <1>1, <2>1
<1>. QED
  BY <1>1, <1>4, <1>5

\* Writing the cell after the newest entry appends one.
LEMMA RingAppend ==
    ASSUME NEW q \in [Cell -> Entry], NEW f \in Cell, NEW n \in 0..(QueueMax - 1),
           NEW e \in Entry
    PROVE  Ring([q EXCEPT ![(f + n) % QueueMax] = e], f, n + 1) = Append(Ring(q, f, n), e)
<1>. DEFINE r  == (f + n) % QueueMax
            qq == [q EXCEPT ![r] = e]
<1>1. r \in Cell /\ n \in 0..QueueMax /\ n + 1 \in 0..QueueMax
  BY PlaceInCell, PoolAssumption
<1>2. /\ qq \in [Cell -> Entry] /\ qq[r] = e
      /\ \A k \in Cell : k # r => qq[k] = q[k]
  BY <1>1
<1>. HIDE DEF qq
<1>3. /\ Ring(q, f, n) \in Seq(Entry) /\ Len(Ring(q, f, n)) = n
      /\ Ring(qq, f, n + 1) \in Seq(Entry) /\ Len(Ring(qq, f, n + 1)) = n + 1
  BY <1>1, <1>2, RingIsSeq
<1>4. ASSUME NEW i \in 1..n
      PROVE  Ring(qq, f, n + 1)[i] = Ring(q, f, n)[i]
  <2>1. i - 1 \in 0..(QueueMax - 1) /\ i - 1 # n /\ i \in 1..(n + 1)
    BY PoolAssumption
  <2>2. (f + (i - 1)) % QueueMax \in Cell
    BY <1>1, RingIsSeq
  <2>3. (f + (i - 1)) % QueueMax # r
    BY <2>1, PlacesDiffer
  <2>4. qq[(f + (i - 1)) % QueueMax] = q[(f + (i - 1)) % QueueMax]
    BY <1>2, <2>2, <2>3
  <2>5. Ring(qq, f, n + 1)[i] = qq[(f + (i - 1)) % QueueMax]
    BY <1>1, <1>2, <2>1, RingIsSeq
  <2>6. Ring(q, f, n)[i] = q[(f + (i - 1)) % QueueMax]
    BY <1>1, RingIsSeq
  <2>. QED
    BY <2>4, <2>5, <2>6
<1>5. Ring(qq, f, n + 1)[n + 1] = e
  <2>1. n + 1 \in 1..(n + 1) /\ (n + 1) - 1 = n
    OBVIOUS
  <2>2. Ring(qq, f, n + 1)[n + 1] = qq[(f + ((n + 1) - 1)) % QueueMax]
    BY <1>1, <1>2, <2>1, RingIsSeq
  <2>. QED
    BY <1>2, <2>1, <2>2
<1>6. Ring(qq, f, n + 1) = Append(Ring(q, f, n), e)
  BY <1>3, <1>4, <1>5, IsAppend
<1>. QED
  BY <1>6 DEF qq

\* Advancing the first cell takes the oldest entry away.
LEMMA RingTail ==
    ASSUME NEW q \in [Cell -> Entry], NEW f \in Cell, NEW n \in 1..QueueMax
    PROVE  /\ Ring(q, f, n) # <<>>
           /\ Head(Ring(q, f, n)) = q[f]
           /\ Ring(q, (f + 1) % QueueMax, n - 1) = Tail(Ring(q, f, n))
<1>. DEFINE g == (f + 1) % QueueMax
<1>1. g \in Cell /\ n \in 0..QueueMax /\ n - 1 \in 0..QueueMax
  BY PlaceInCell, PoolAssumption
<1>2. /\ Ring(q, f, n) \in Seq(Entry) /\ Len(Ring(q, f, n)) = n
      /\ Ring(q, g, n - 1) \in Seq(Entry) /\ Len(Ring(q, g, n - 1)) = n - 1
  BY <1>1, RingIsSeq
<1>3. Ring(q, f, n)[1] = q[f]
  <2>1. f + (1 - 1) = f /\ f \in 0..(2 * QueueMax - 1) /\ 1 \in 1..n
    BY PoolAssumption
  <2>2. f % QueueMax = f
    BY <2>1, Wrap, PoolAssumption
  <2>3. Ring(q, f, n)[1] = q[(f + (1 - 1)) % QueueMax]
    BY <1>1, <2>1, RingIsSeq
  <2>. QED
    BY <2>1, <2>2, <2>3
<1>4. Ring(q, f, n) # <<>> /\ Head(Ring(q, f, n)) = q[f]
  BY <1>2, <1>3
<1>5. ASSUME NEW i \in 1..(n - 1)
      PROVE  Ring(q, g, n - 1)[i] = Ring(q, f, n)[i + 1]
  <2>1. i - 1 \in 0..(QueueMax - 1) /\ i + 1 \in 1..n /\ (i - 1) + 1 = (i + 1) - 1
    BY PoolAssumption
  <2>2. (g + (i - 1)) % QueueMax = (f + ((i + 1) - 1)) % QueueMax
    BY <2>1, NextPlace
  <2>3. Ring(q, g, n - 1)[i] = q[(g + (i - 1)) % QueueMax]
    BY <1>1, RingIsSeq
  <2>4. Ring(q, f, n)[i + 1] = q[(f + ((i + 1) - 1)) % QueueMax]
    BY <1>1, <2>1, RingIsSeq
  <2>. QED
    BY <2>2, <2>3, <2>4
<1>. QED
  BY <1>2, <1>4, <1>5, IsTail
-----------------------------------------------------------------------------
(* Where a task is.  Its fate is the history of the call that offered it.  *)

Offering(c) == ppc[c] \in {"parking", "waiting", "woken"}

\* The next free cell is the one after the newest task; what is queued has been
\* accepted, each task once.
QueuedOnce ==
    /\ queue_rear = (queue_front + queue_size) % QueueMax
    /\ \A i \in 1..queue_size : Pending[i] \in Task /\ fate[Pending[i]] = "accepted"
    /\ \A i, j \in 1..queue_size : Pending[i] = Pending[j] => i = j

\* A task a worker has taken was accepted, is no longer queued and is with no
\* other worker.
TakenOnce ==
    \A w \in Slot : Holding(w) =>
        /\ wtask[w] \in Task /\ fate[wtask[w]] = "accepted"
        /\ \A i \in 1..queue_size : Pending[i] # wtask[w]
        /\ \A v \in Slot : Holding(v) /\ wtask[v] = wtask[w] => v = w

\* A task that waits for room is offered by one call.
OfferedOnce ==
    \A c \in Caller : Offering(c) =>
        /\ ptask[c] \in Task /\ fate[ptask[c]] = "offered"
        /\ \A b \in Caller : Offering(b) /\ ptask[b] = ptask[c] => b = c

\* threadpool_destroy is called once.
ClosedOnce == dpc = "idle" <=> ~shutdown

QueueInv == QueuedOnce /\ TakenOnce /\ OfferedOnce /\ ClosedOnce

\* A step that moves no task leaves the queue of TaskQueue as it is.
LEMMA QuietStep ==
    ASSUME QueueInv, UNCHANGED <<queue, wtask, ptask, fate, shutdown>>,
           dpc' = "idle" <=> dpc = "idle",
           \A w \in Slot : Holding(w)' <=> Holding(w),
           \A c \in Caller : Offering(c)' => Offering(c)
    PROVE  QueueInv' /\ UNCHANGED Pool!qvars
<1>1. Pending' = Pending /\ Running' = Running
  BY DEF queue, Pending, Running
<1>2. \A f : Met(f)' = Met(f)
  BY DEF Met
<1>3. QueueInv'
  BY <1>1 DEF QueueInv, QueuedOnce, TakenOnce, OfferedOnce, ClosedOnce, queue
<1>. QED
  BY <1>1, <1>2, <1>3 DEF Pool!qvars

\* The ring as a sequence.
LEMMA PendingSeq ==
    TypeOK => /\ Pending \in Seq(Entry)
              /\ Len(Pending) = queue_size
              /\ Pending = Ring(task_queue, queue_front, queue_size)
<1>1. Pending = Ring(task_queue, queue_front, queue_size)
  BY DEF Pending, Ring
<1>. QED
  BY <1>1, RingIsSeq DEF TypeOK, Entry

\* A worker starts the oldest task, and nobody has it but that worker.
LEMMA TakeStep ==
    ASSUME TypeOK, QueueInv, NEW w \in Slot, ~Holding(w), Take(w), UNCHANGED dpc,
           UNCHANGED shutdown
    PROVE  QueueInv' /\ Pool!Start
<1>1. /\ queue_size \in 1..QueueMax /\ queue_front \in Cell
      /\ task_queue \in [Cell -> Entry]
  BY PoolAssumption DEF TypeOK, Take, Entry
<1>2. /\ Pending \in Seq(Entry) /\ Len(Pending) = queue_size
      /\ Pending = Ring(task_queue, queue_front, queue_size)
  BY PendingSeq
<1>3. Pending' = Ring(task_queue, (queue_front + 1) % QueueMax, queue_size - 1)
  BY DEF Pending, Ring, Take, Following
<1>4. /\ Pending # <<>> /\ Head(Pending) = task_queue[queue_front]
      /\ Pending' = Tail(Pending)
  BY <1>1, <1>2, <1>3, RingTail
<1>5. /\ Pending[1] = Head(Pending) /\ queue_size' = queue_size - 1
      /\ \A i \in 1..queue_size' : i + 1 \in 1..queue_size /\ Pending'[i] = Pending[i + 1]
  BY <1>1, <1>2, <1>4 DEF Take
<1>6. /\ wtask' = [wtask EXCEPT ![w] = Pending[1]]
      /\ wpc' = [wpc EXCEPT ![w] = "taken"]
  BY <1>4, <1>5 DEF Take
<1>7. /\ \A v \in Slot : Holding(v)' <=> Holding(v) \/ v = w
      /\ \A v \in Slot : v # w => wtask'[v] = wtask[v]
      /\ wtask'[w] = Pending[1]
  BY <1>6 DEF TypeOK, Holding
<1>8. queue_rear' = (queue_front' + queue_size') % QueueMax
  <2>1. queue_size - 1 \in 0..(QueueMax - 1)
    BY <1>1, PoolAssumption
  <2>2. (((queue_front + 1) % QueueMax) + (queue_size - 1)) % QueueMax
          = (queue_front + ((queue_size - 1) + 1)) % QueueMax
    BY <1>1, <2>1, NextPlace
  <2>3. (queue_size - 1) + 1 = queue_size
    BY <1>1
  <2>4. queue_rear = (queue_front + queue_size) % QueueMax
    BY DEF QueueInv, QueuedOnce
  <2>5. /\ queue_rear' = queue_rear /\ queue_size' = queue_size - 1
        /\ queue_front' = (queue_front + 1) % QueueMax
    BY DEF Take, Following
  <2>6. (queue_front' + queue_size') % QueueMax = (queue_front + queue_size) % QueueMax
    BY <2>2, <2>3, <2>5, Zenon
  <2>. QED
    BY <2>4, <2>5, <2>6, Zenon
<1>9. QueuedOnce'
  <2>1. /\ \A i \in 1..queue_size : Pending[i] \in Task /\ fate[Pending[i]] = "accepted"
        /\ \A i, j \in 1..queue_size : Pending[i] = Pending[j] => i = j
        /\ fate' = fate
    BY DEF QueueInv, QueuedOnce, Take
  <2>2. \A i \in 1..queue_size' : Pending'[i] \in Task /\ fate'[Pending'[i]] = "accepted"
    BY <1>5, <2>1
  <2>3. ASSUME NEW i \in 1..queue_size', NEW j \in 1..queue_size', Pending'[i] = Pending'[j]
        PROVE  i = j
    <3>1. i + 1 = j + 1
      BY <1>5, <2>1, <2>3
    <3>. QED
      BY <3>1, <1>1, <1>5
  <2>. QED
    BY <1>8, <2>2, <2>3, Zenon DEF QueuedOnce
<1>10. TakenOnce'
  <2>1. /\ Pending[1] \in Task /\ fate[Pending[1]] = "accepted"
        /\ \A i \in 1..queue_size' : Pending'[i] # Pending[1]
        /\ \A v \in Slot : Holding(v) => wtask[v] # Pending[1]
    BY <1>1, <1>5 DEF QueueInv, QueuedOnce, TakenOnce
  <2>2. ASSUME NEW v \in Slot, Holding(v)
        PROVE  /\ wtask[v] \in Task /\ fate[wtask[v]] = "accepted"
               /\ \A i \in 1..queue_size' : Pending'[i] # wtask[v]
    BY <1>5, <2>2 DEF QueueInv, TakenOnce
  <2>3. fate' = fate
    BY DEF Take
  <2>. QED
    BY <1>7, <2>1, <2>2, <2>3 DEF QueueInv, TakenOnce, Holding
<1>11. OfferedOnce' /\ ClosedOnce'
  BY DEF QueueInv, OfferedOnce, ClosedOnce, Offering, Take, BroadcastNotFull, TypeOK
<1>12. Running' = Running \union {Head(Pending)}
  <2>1. ASSUME NEW v \in Slot, Holding(v)'
        PROVE  wtask'[v] \in Running \union {Head(Pending)}
    BY <1>5, <1>7, <2>1 DEF Running, Holding
  <2>2. ASSUME NEW v \in Slot, Holding(v)
        PROVE  wtask[v] \in Running'
    BY <1>7, <2>2 DEF Running, Holding
  <2>3. Head(Pending) \in Running'
    BY <1>5, <1>7 DEF Running, Holding
  <2>. QED
    BY <2>1, <2>2, <2>3 DEF Running, Holding
<1>13. \A f : Met(f)' = Met(f)
  BY DEF Met, Take
<1>14. ~shutdown
  BY DEF Take
<1>. QED
  BY <1>4, <1>9, <1>10, <1>11, <1>12, <1>13, <1>14 DEF QueueInv, Pool!Start

\* The task whose function returns was with that worker alone.
LEMMA FinishStep ==
    ASSUME TypeOK, QueueInv, NEW w \in Slot, WorkerFinish(w)
    PROVE  QueueInv' /\ \E t \in Task : Pool!Finish(t)
<1>. DEFINE t == wtask[w]
<1>1. /\ Holding(w) /\ t \in Task /\ fate[t] = "accepted"
      /\ \A i \in 1..queue_size : Pending[i] # t
      /\ \A v \in Slot : Holding(v) /\ wtask[v] = t => v = w
  BY DEF QueueInv, TakenOnce, WorkerFinish, Holding
<1>2. /\ \A v \in Slot : Holding(v)' <=> Holding(v) /\ v # w
      /\ \A v \in Slot : v # w => wtask'[v] = wtask[v]
  BY <1>1 DEF WorkerFinish, Holding, TypeOK
<1>3. /\ fate'[t] = "done" /\ fate' \in [Task -> Fate]
      /\ \A u \in Task : u # t => fate'[u] = fate[u]
  BY <1>1 DEF WorkerFinish, TypeOK, Fate
<1>4. UNCHANGED <<queue, caller, shutdown, dpc>> /\ Pending' = Pending
  BY DEF WorkerFinish, queue, destroy, Pending
<1>5. QueuedOnce' /\ OfferedOnce' /\ ClosedOnce'
  BY <1>1, <1>3, <1>4
     DEF QueueInv, QueuedOnce, OfferedOnce, ClosedOnce, Offering, queue, caller
<1>6. TakenOnce'
  BY <1>1, <1>2, <1>3, <1>4 DEF QueueInv, TakenOnce, queue
<1>7. Running' = Running \ {t} /\ t \in Running
  <2>1. ASSUME NEW v \in Slot, Holding(v)' PROVE wtask'[v] \in Running \ {t}
    BY <1>1, <1>2, <2>1 DEF Running
  <2>2. ASSUME NEW v \in Slot, Holding(v), wtask[v] # t PROVE wtask[v] \in Running'
    BY <1>2, <2>2 DEF Running
  <2>. QED
    BY <1>1, <2>1, <2>2 DEF Running
<1>8. Met("done")' = Met("done") \union {t} /\ Met("refused")' = Met("refused")
  BY <1>1, <1>3 DEF Met
<1>9. Pool!Finish(t)
  BY <1>4, <1>7, <1>8 DEF Pool!Finish
<1>. QED
  BY <1>1, <1>5, <1>6, <1>9 DEF QueueInv

\* A call offers its task: it is kept waiting, refused or accepted, and nobody
\* else offers that task.
LEMMA OfferStep ==
    ASSUME TypeOK, QueueInv, NEW c \in Caller, NEW t \in Task,
           (~Offering(c) /\ fate[t] = "new") \/ (Offering(c) /\ t = ptask[c]),
           UNCHANGED <<worker, shutdown, dpc>>,
           Block(c, t) \/ Refuse(c, t) \/ Enqueue(c, t)
    PROVE  QueueInv' /\ [Pool!QNext]_(Pool!qvars)
<1>1. /\ fate[t] \in {"new", "offered"}
      /\ \A b \in Caller : Offering(b) /\ b # c => ptask[b] # t
      /\ \A i \in 1..queue_size : Pending[i] # t
      /\ \A w \in Slot : Holding(w) => wtask[w] # t
  BY DEF QueueInv, OfferedOnce, QueuedOnce, TakenOnce
<1>2. /\ ClosedOnce' /\ Running' = Running
      /\ \A w \in Slot : (Holding(w)' <=> Holding(w)) /\ wtask'[w] = wtask[w]
  BY DEF QueueInv, ClosedOnce, Running, Holding, worker
<1>3. /\ \A b \in Caller : b # c => (Offering(b)' <=> Offering(b)) /\ ptask'[b] = ptask[b]
      /\ \A u \in Task : u # t => fate'[u] = fate[u]
  BY DEF Block, Refuse, Enqueue, Offering, TypeOK
<1>4. t \notin Pool!Known
  <2>1. t \notin Pool!Queued
    <3>1. Len(Pending) = queue_size
      BY PendingSeq
    <3>. QED
      BY <1>1, <3>1 DEF Pool!Queued
  <2>. QED
    BY <1>1, <2>1 DEF Pool!Known, Running, Met
<1>5. ASSUME UNCHANGED queue, UNCHANGED fate \/ fate'[t] \in {"offered", "refused"}
      PROVE  QueuedOnce' /\ TakenOnce' /\ Pending' = Pending
  <2>1. Pending' = Pending /\ queue_size' = queue_size
    BY <1>5 DEF queue, Pending
  <2>2. QueuedOnce'
    BY <1>1, <1>3, <1>5, <2>1 DEF QueueInv, QueuedOnce, queue
  <2>3. TakenOnce'
    BY <1>1, <1>2, <1>3, <2>1 DEF QueueInv, TakenOnce
  <2>. QED
    BY <2>1, <2>2, <2>3
<1>6. CASE Block(c, t)
  <2>1. UNCHANGED queue /\ fate'[t] = "offered" /\ ptask'[c] = t
    BY <1>6 DEF Block, TypeOK
  <2>2. OfferedOnce'
    BY <1>1, <1>3, <2>1 DEF QueueInv, OfferedOnce
  <2>3. Met("done")' = Met("done") /\ Met("refused")' = Met("refused")
    BY <1>1, <1>3, <2>1 DEF Met
  <2>. QED
    BY <1>2, <1>5, <2>1, <2>2, <2>3 DEF QueueInv, Pool!qvars
<1>7. CASE Refuse(c, t)
  <2>1. UNCHANGED queue /\ fate'[t] = "refused" /\ ~Offering(c)' /\ shutdown
    BY <1>7 DEF Refuse, TypeOK, Offering
  <2>2. OfferedOnce'
    BY <1>1, <1>3, <2>1 DEF QueueInv, OfferedOnce
  <2>3. Met("done")' = Met("done") /\ Met("refused")' = Met("refused") \union {t}
    BY <1>1, <1>3, <2>1 DEF Met
  <2>4. Pool!Refuse(t)
    BY <1>2, <1>4, <1>5, <2>1, <2>3 DEF Pool!Refuse
  <2>. QED
    BY <1>2, <1>5, <2>1, <2>2, <2>4 DEF QueueInv, Pool!QNext
<1>8. CASE Enqueue(c, t)
  <2>1. /\ fate'[t] = "accepted" /\ ~Offering(c)' /\ ~shutdown
        /\ queue_front' = queue_front /\ queue_size' = queue_size + 1
        /\ queue_size \in 0..(QueueMax - 1) /\ queue_front \in Cell
        /\ task_queue \in [Cell -> Entry] /\ t \in Entry
    BY <1>8, PoolAssumption DEF Enqueue, TypeOK, Offering, Entry
  <2>2. Pending \in Seq(Entry) /\ Len(Pending) = queue_size
    BY PendingSeq
  <2>3. Pending' = Append(Pending, t)
    <3>1. task_queue' = [task_queue EXCEPT ![(queue_front + queue_size) % QueueMax] = t]
      BY <1>8 DEF Enqueue, QueueInv, QueuedOnce
    <3>2. Pending = Ring(task_queue, queue_front, queue_size)
      BY PendingSeq
    <3>3. Pending' = Ring(task_queue', queue_front, queue_size + 1)
      BY <2>1 DEF Pending, Ring
    <3>. QED
      BY <2>1, <3>1, <3>2, <3>3, RingAppend
  <2>4. /\ \A i \in 1..queue_size : Pending'[i] = Pending[i]
        /\ Pending'[queue_size + 1] = t
    BY <2>1, <2>2, <2>3
  <2>5. \A i \in 1..queue_size' : i \in 1..queue_size \/ i = queue_size + 1
    BY <2>1
  <2>6. queue_rear' = (queue_front' + queue_size') % QueueMax
    <3>1. (queue_front + queue_size) % QueueMax = queue_rear /\ queue_rear \in Cell
      BY DEF QueueInv, QueuedOnce, TypeOK
    <3>2. queue_rear' = (queue_rear + 1) % QueueMax
      BY <1>8 DEF Enqueue, Following
    <3>3. (((queue_front + queue_size) % QueueMax) + 1) % QueueMax
            = (queue_front + (queue_size + 1)) % QueueMax
      BY <2>1, PreviousPlace
    <3>. QED
      BY <2>1, <3>1, <3>2, <3>3
  <2>7. QueuedOnce'
    BY <1>1, <1>3, <2>1, <2>4, <2>5, <2>6 DEF QueueInv, QueuedOnce
  <2>8. TakenOnce'
    BY <1>1, <1>2, <1>3, <2>4, <2>5 DEF QueueInv, TakenOnce
  <2>9. OfferedOnce'
    BY <1>1, <1>3, <2>1 DEF QueueInv, OfferedOnce
  <2>10. Met("done")' = Met("done") /\ Met("refused")' = Met("refused")
    BY <1>1, <1>3, <2>1 DEF Met
  <2>11. Len(Pending) < QueueMax
    BY <2>1, <2>2, PoolAssumption
  <2>12. Pool!Accept(t)
    BY <1>2, <1>4, <2>1, <2>3, <2>10, <2>11 DEF Pool!Accept
  <2>. QED
    BY <1>2, <2>7, <2>8, <2>9, <2>12 DEF QueueInv, Pool!QNext
<1>. QED
  BY <1>6, <1>7, <1>8
-----------------------------------------------------------------------------
(* Every step of the pool is a step of the queue or leaves it as it is.    *)

LEMMA SimulationStep ==
    TypeOK /\ QueueInv /\ [Next]_vars => QueueInv' /\ [Pool!QNext]_(Pool!qvars)
<1>. SUFFICES ASSUME TypeOK, QueueInv, [Next]_vars
              PROVE  QueueInv' /\ [Pool!QNext]_(Pool!qvars)
  OBVIOUS
<1>. USE DEF counters, queue, worker, admin, caller, destroy
<1>1. ASSUME NEW w \in Slot, Worker(w)
      PROVE  QueueInv' /\ [Pool!QNext]_(Pool!qvars)
  <2>1. ASSUME wpc[w] \in {"top", "woken"}, UNCHANGED <<dpc, shutdown>>,
               Park(w) \/ Quit(w) \/ Take(w)
        PROVE  QueueInv' /\ [Pool!QNext]_(Pool!qvars)
    <3>1. CASE Park(w) \/ Quit(w)
      BY <2>1, <3>1, QuietStep DEF Park, Quit, Holding, Offering, TypeOK
    <3>2. CASE Take(w)
      BY <2>1, <3>2, TakeStep DEF Holding, Pool!QNext
    <3>. QED
      BY <2>1, <3>1, <3>2
  <2>2. CASE WorkerLock(w) \/ WorkerResume(w)
    BY <2>1, <2>2 DEF WorkerLock, WorkerResume
  <2>3. CASE WorkerWait(w) \/ WorkerRetire(w) \/ WorkerStart(w) \/ WorkerExit(w)
    BY <2>3, QuietStep
       DEF WorkerWait, WorkerRetire, WorkerStart, WorkerExit, Holding, Offering, TypeOK
  <2>4. CASE WorkerFinish(w)
    BY <2>4, FinishStep DEF Pool!QNext
  <2>. QED
    BY <1>1, <2>2, <2>3, <2>4 DEF Worker
<1>2. ASSUME NEW c \in Caller, NEW t \in Task, AddTask(c, t)
      PROVE  QueueInv' /\ [Pool!QNext]_(Pool!qvars)
  BY <1>2, OfferStep DEF AddTask, Offering
<1>3. ASSUME NEW c \in Caller, Calling(c)
      PROVE  QueueInv' /\ [Pool!QNext]_(Pool!qvars)
  <2>1. CASE CallerResume(c)
    <3>1. Offering(c) /\ ptask[c] \in Task
      BY <2>1 DEF CallerResume, Offering, QueueInv, OfferedOnce
    <3>. QED
      BY <2>1, <3>1, OfferStep DEF CallerResume
  <2>2. CASE CallerWait(c)
    BY <2>2, QuietStep DEF CallerWait, Holding, Offering, TypeOK
  <2>3. CASE CallerSignal(c)
    BY <2>3, QuietStep
       DEF CallerSignal, SignalNotEmpty, NotEmptyWaiters, Holding, Offering, TypeOK
  <2>. QED
    BY <1>3, <2>1, <2>2, <2>3 DEF Calling
<1>4. CASE SpuriousWake
  BY <1>4, QuietStep DEF SpuriousWake, Holding, Offering, TypeOK
<1>5. CASE Admin
  <2>1. CASE AdminGrow
    BY <2>1, QuietStep DEF AdminGrow, Vacant, Holding, Offering, TypeOK
  <2>2. CASE AdminSignal
    BY <2>2, QuietStep
       DEF AdminSignal, SignalNotEmpty, NotEmptyWaiters, Holding, Offering, TypeOK
  <2>3. CASE AdminCheck \/ AdminSample \/ AdminReadBusy \/ AdminShrink
    BY <2>3, QuietStep
       DEF AdminCheck, AdminSample, AdminReadBusy, AdminShrink, Holding, Offering
  <2>. QED
    BY <1>5, <2>1, <2>2, <2>3 DEF Admin
<1>6. CASE DestroyCall
  <2>1. /\ ~shutdown /\ shutdown' /\ dpc' # "idle"
        /\ UNCHANGED <<queue, wpc, wtask, ppc, ptask, fate>>
    BY <1>6 DEF DestroyCall, QueueInv, ClosedOnce
  <2>2. Pending' = Pending /\ Running' = Running /\ \A f : Met(f)' = Met(f)
    BY <2>1 DEF Pending, Running, Holding, Met
  <2>3. QueueInv'
    BY <2>1, <2>2
       DEF QueueInv, QueuedOnce, TakenOnce, OfferedOnce, ClosedOnce, Holding, Offering
  <2>4. shutdown' = TRUE
    BY <1>6 DEF DestroyCall
  <2>5. Pool!Close
    BY <2>1, <2>2, <2>4 DEF Pool!Close
  <2>. QED
    BY <2>3, <2>5 DEF Pool!QNext
<1>7. CASE Destroying
  BY <1>7, QuietStep DEF Destroying, JoinAdmin, Broadcast, BroadcastNotEmpty, Join, Free,
                         Holding, Offering, TypeOK
<1>8. CASE UNCHANGED vars
  BY <1>8, QuietStep DEF vars, Holding, Offering
<1>. QED
  BY <1>1, <1>2, <1>3, <1>4, <1>5, <1>6, <1>7, <1>8 DEF Next

LEMMA InitialQueue == Init => QueueInv /\ Pool!QInit
<1>. SUFFICES ASSUME Init PROVE QueueInv /\ Pool!QInit
  OBVIOUS
<1>1. /\ queue_size = 0 /\ queue_front = 0 /\ queue_rear = 0 /\ ~shutdown
      /\ dpc = "idle" /\ shutdown = FALSE
      /\ \A w \in Slot : ~Holding(w)
      /\ \A c \in Caller : ~Offering(c)
      /\ \A t \in Task : fate[t] = "new"
  BY DEF Init, Holding, Offering
<1>2. (0 + 0) % QueueMax = 0
  BY Wrap, PoolAssumption
<1>3. Pending = <<>>
  BY <1>1 DEF Pending
<1>4. Running = {} /\ Met("done") = {} /\ Met("refused") = {}
  BY <1>1 DEF Running, Met
<1>5. QueueInv
  BY <1>1, <1>2 DEF QueueInv, QueuedOnce, TakenOnce, OfferedOnce, ClosedOnce
<1>6. Pool!QInit
  BY <1>1, <1>3, <1>4 DEF Pool!QInit
<1>. QED
  BY <1>5, <1>6

\* The thread pool is a bounded queue of tasks that starts them in the order they
\* were accepted, each once, and nothing once it is shut down
\* (handlerthread.c:285-291, 320-340), however many threads share the ring.
THEOREM Refinement == Spec => IsTaskQueue
<1>1. PoolTypes => TypeOK
  BY DEF PoolTypes
<1>. QED
  BY InitTypes, StepTypes, <1>1, InitialQueue, SimulationStep, PTL
     DEF Spec, IsTaskQueue, Pool!QSpec
=============================================================================
