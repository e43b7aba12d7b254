------------------------------ MODULE ThreadPool ------------------------------
(***************************************************************************)
(* The thread pool of libutils/handlerthread.c (demo/SpeechPersistentDemo/ *)
(* threadpool.c is the same file): min_thr_num..max_thr_num workers, an    *)
(* admin thread that grows and shrinks them, callers of                    *)
(* threadpool_add_task and one thread that calls threadpool_destroy.       *)
(*                                                                         *)
(* A step is what a thread does between two points at which another thread *)
(* can act on the state it reads: a critical section of pool->lock is one  *)
(* step, except that testing a waiting condition and joining the wait set  *)
(* (pthread_cond_wait) are two, because pool->shutdown is written and the  *)
(* conditions are signalled without the lock.  `lock` is therefore held    *)
(* across steps only by a thread that is "parking".                        *)
(*                                                                         *)
(* A worker is named by its index in pool->threads; admin_thread may start *)
(* another thread in the slot of one that has exited.                      *)
(***************************************************************************)
EXTENDS Integers, FiniteSets

CONSTANTS MinThr,             (* min_thr_num                                  *)
          MaxThr,             (* max_thr_num                                  *)
          QueueMax,           (* queue_max_size                               *)
          MIN_WAIT_TASK_NUM,  (* queue length that makes admin_thread grow    *)
          DEFAULT_THREAD_NUM, (* threads added or retired in one admin round  *)
          Task,               (* the calls of threadpool_add_task to come     *)
          Caller,             (* the threads that make them                   *)
          ExitedIsESRCH,      (* does this libc's pthread_kill say ESRCH of a
                                 thread that has exited and is not joined?    *)
          QuiescentDestroy,   (* is threadpool_destroy only called when no
                                 call of threadpool_add_task is under way, and
                                 none made after it, as unInit() does?        *)
          NoTask, NoOne       (* neither a task; nor a thread                 *)

Slot == 0..(MaxThr - 1)       \* indices of pool->threads
Cell == 0..(QueueMax - 1)     \* indices of pool->task_queue

ASSUME PoolAssumption ==
    /\ MinThr \in Nat /\ MaxThr \in Nat /\ MinThr <= MaxThr
    /\ QueueMax \in Nat \ {0}
    /\ MIN_WAIT_TASK_NUM \in Nat \ {0}
    /\ DEFAULT_THREAD_NUM \in Nat \ {0}
    /\ ExitedIsESRCH \in BOOLEAN
    /\ QuiescentDestroy \in BOOLEAN
    /\ IsFiniteSet(Caller)
    /\ NoTask \notin Task
    /\ NoOne \notin Slot \union Caller
    /\ Slot \intersect Caller = {}

VARIABLES
    \* struct threadpool_t
    lock,              \* who holds pool->lock between two steps
    shutdown,
    live_thr_num, busy_thr_num, wait_exit_thr_num,
    queue_front, queue_rear, queue_size,
    task_queue,
    \* threads: where each one is, and its locals
    wpc, wtask,        \* threadpool_thread, and the task it took
    apc, seen, asig,   \* admin_thread, its samples, the signals left to send
    ppc, ptask,        \* threadpool_add_task, and its argument
    dpc, di,           \* threadpool_destroy, and its loop counter
    \* history: what became of each call of threadpool_add_task
    fate

counters == <<live_thr_num, busy_thr_num, wait_exit_thr_num>>
queue    == <<queue_front, queue_rear, queue_size, task_queue>>
worker   == <<wpc, wtask>>
admin    == <<apc, seen, asig>>
caller   == <<ppc, ptask>>
destroy  == <<dpc, di>>
vars == <<lock, shutdown, counters, queue, worker, admin, caller, destroy, fate>>
-----------------------------------------------------------------------------
(* Program counters.  "woken" has been taken out of a wait set and has to  *)
(* lock again; "exiting" has unlocked for the last time.                   *)

WorkerPC == {"none", "top", "parking", "waiting", "woken", "taken", "running",
             "exiting", "exited"}
AdminPC  == {"check", "sleep", "busy", "grow", "shrink", "signal", "exited"}
CallerPC == {"idle", "parking", "waiting", "woken", "signal"}
DestroyPC == {"idle", "join_admin", "broadcast", "join", "free", "freed"}
Fate == {"new", "offered", "accepted", "refused", "done"}

Sample == [size : 0..QueueMax, live : 0..MaxThr, busy : 0..MaxThr]
NoSample == [size |-> 0, live |-> 0, busy |-> 0]

TypeOK ==
    /\ lock \in Slot \union Caller \union {NoOne}
    /\ shutdown \in BOOLEAN
    /\ live_thr_num \in 0..MaxThr
    /\ busy_thr_num \in 0..MaxThr
    /\ wait_exit_thr_num \in 0..DEFAULT_THREAD_NUM
    /\ queue_front \in Cell
    /\ queue_rear \in Cell
    /\ queue_size \in 0..QueueMax
    /\ task_queue \in [Cell -> Task \union {NoTask}]
    /\ wpc \in [Slot -> WorkerPC]
    /\ wtask \in [Slot -> Task \union {NoTask}]
    /\ apc \in AdminPC
    /\ seen \in Sample
    /\ asig \in 0..DEFAULT_THREAD_NUM
    /\ ppc \in [Caller -> CallerPC]
    /\ ptask \in [Caller -> Task \union {NoTask}]
    /\ dpc \in DestroyPC
    /\ di \in 0..MaxThr
    /\ fate \in [Task -> Fate]

\* The state threadpool_create leaves: min_thr_num workers and the admin
\* thread are started, nothing is queued.
Init ==
    /\ lock = NoOne
    /\ shutdown = FALSE
    /\ live_thr_num = MinThr
    /\ busy_thr_num = 0
    /\ wait_exit_thr_num = 0
    /\ queue_front = 0 /\ queue_rear = 0 /\ queue_size = 0
    /\ task_queue = [k \in Cell |-> NoTask]
    /\ wpc = [w \in Slot |-> IF w < MinThr THEN "top" ELSE "none"]
    /\ wtask = [w \in Slot |-> NoTask]
    /\ apc = "check" /\ seen = NoSample /\ asig = 0
    /\ ppc = [c \in Caller |-> "idle"]
    /\ ptask = [c \in Caller |-> NoTask]
    /\ dpc = "idle" /\ di = 0
    /\ fate = [t \in Task |-> "new"]
-----------------------------------------------------------------------------
(* The two condition variables.                                            *)

NotEmptyWaiters == {w \in Slot : wpc[w] = "waiting"}

\* Mutant: the signal is forgotten.
SignalNobody == UNCHANGED wpc

\* Mutant: only the call that makes the queue non-empty signals.
SignalWhenFirst ==
    IF queue_size = 1 /\ NotEmptyWaiters # {}
    THEN \E w \in NotEmptyWaiters : wpc' = [wpc EXCEPT ![w] = "woken"]
    ELSE UNCHANGED wpc

\* pthread_cond_signal(&queue_not_empty): one waiter, if there is one.
SignalNotEmpty ==
    \/ NotEmptyWaiters = {} /\ UNCHANGED wpc
    \/ \E w \in NotEmptyWaiters : wpc' = [wpc EXCEPT ![w] = "woken"]

\* pthread_cond_broadcast(&queue_not_empty)
BroadcastNotEmpty ==
    wpc' = [w \in Slot |-> IF wpc[w] = "waiting" THEN "woken" ELSE wpc[w]]

\* Mutant: nobody is told that the queue has room again.
TellNobody == UNCHANGED ppc

\* pthread_cond_broadcast(&queue_not_full)
BroadcastNotFull ==
    ppc' = [c \in Caller |-> IF ppc[c] = "waiting" THEN "woken" ELSE ppc[c]]

\* threadpool_free has not run: the struct may still be used.
PoolExists == dpc # "freed"
-----------------------------------------------------------------------------
(* threadpool_thread                                                       *)

\* Mutant: the index is not wrapped.
FollowingUnwrapped(k) == k + 1

Following(k) == (k + 1) % QueueMax

\* The waiting condition holds: the worker is about to call pthread_cond_wait.
Park(w) ==
    /\ queue_size = 0 /\ ~shutdown
    /\ lock' = w
    /\ wpc' = [wpc EXCEPT ![w] = "parking"]
    /\ UNCHANGED <<queue, wtask, caller, fate>>

\* The pool is closed: unlock and pthread_exit.
Quit(w) ==
    /\ shutdown
    /\ wpc' = [wpc EXCEPT ![w] = "exiting"]
    /\ UNCHANGED <<lock, queue, wtask, caller, fate>>

\* Mutant: a worker goes on taking tasks after shutdown.
TakeThoughShutdown(w) ==
    /\ queue_size > 0
    /\ wtask' = [wtask EXCEPT ![w] = task_queue[queue_front]]
    /\ queue_front' = Following(queue_front)
    /\ queue_size' = queue_size - 1
    /\ BroadcastNotFull
    /\ wpc' = [wpc EXCEPT ![w] = "taken"]
    /\ UNCHANGED <<lock, queue_rear, task_queue, ptask, fate>>

\* Dequeue, tell the blocked callers, unlock.
Take(w) ==
    /\ queue_size > 0 /\ ~shutdown
    /\ wtask' = [wtask EXCEPT ![w] = task_queue[queue_front]]
    /\ queue_front' = Following(queue_front)
    /\ queue_size' = queue_size - 1
    /\ BroadcastNotFull
    /\ wpc' = [wpc EXCEPT ![w] = "taken"]
    /\ UNCHANGED <<lock, queue_rear, task_queue, ptask, fate>>

WorkerLock(w) ==
    /\ PoolExists
    /\ wpc[w] = "top" /\ lock = NoOne
    /\ Park(w) \/ Quit(w) \/ Take(w)
    /\ UNCHANGED <<shutdown, counters, admin, destroy>>

\* pthread_cond_wait joins the wait set and releases the lock.
WorkerWait(w) ==
    /\ PoolExists
    /\ wpc[w] = "parking"
    /\ lock' = NoOne
    /\ wpc' = [wpc EXCEPT ![w] = "waiting"]
    /\ UNCHANGED <<shutdown, counters, queue, wtask, admin, caller, destroy, fate>>

\* Mutant: the floor min_thr_num is not tested before retiring.
WorkerRetireBelowFloor(w) ==
    /\ PoolExists
    /\ wpc[w] = "woken" /\ lock = NoOne
    /\ wait_exit_thr_num > 0
    /\ wait_exit_thr_num' = wait_exit_thr_num - 1
    /\ live_thr_num' = live_thr_num - 1
    /\ wpc' = [wpc EXCEPT ![w] = "exiting"]
    /\ UNCHANGED <<lock, shutdown, busy_thr_num, queue, wtask, admin, caller,
                   destroy, fate>>

\* pthread_cond_wait returns and the thread finds that it is one too many.
WorkerRetire(w) ==
    /\ PoolExists
    /\ wpc[w] = "woken" /\ lock = NoOne
    /\ wait_exit_thr_num > 0 /\ live_thr_num > MinThr
    /\ wait_exit_thr_num' = wait_exit_thr_num - 1
    /\ live_thr_num' = live_thr_num - 1
    /\ wpc' = [wpc EXCEPT ![w] = "exiting"]
    /\ UNCHANGED <<lock, shutdown, busy_thr_num, queue, wtask, admin, caller,
                   destroy, fate>>

\* pthread_cond_wait returns and the thread goes on.
WorkerResume(w) ==
    /\ PoolExists
    /\ wpc[w] = "woken" /\ lock = NoOne
    /\ \/ /\ wait_exit_thr_num > 0 /\ live_thr_num <= MinThr
          /\ wait_exit_thr_num' = wait_exit_thr_num - 1
       \/ wait_exit_thr_num = 0 /\ UNCHANGED wait_exit_thr_num
    /\ Park(w) \/ Quit(w) \/ Take(w)
    /\ UNCHANGED <<shutdown, live_thr_num, busy_thr_num, admin, destroy>>

\* Mutant: the increment is lost when another worker is also busy.
WorkerStartLosesUpdate(w) ==
    /\ PoolExists
    /\ wpc[w] = "taken"
    /\ busy_thr_num' = 1
    /\ wpc' = [wpc EXCEPT ![w] = "running"]
    /\ UNCHANGED <<lock, shutdown, live_thr_num, wait_exit_thr_num, queue, wtask,
                   admin, caller, destroy, fate>>

WorkerStart(w) ==
    /\ PoolExists
    /\ wpc[w] = "taken"
    /\ busy_thr_num' = busy_thr_num + 1
    /\ wpc' = [wpc EXCEPT ![w] = "running"]
    /\ UNCHANGED <<lock, shutdown, live_thr_num, wait_exit_thr_num, queue, wtask,
                   admin, caller, destroy, fate>>

\* The task's function returns.
WorkerFinish(w) ==
    /\ PoolExists
    /\ wpc[w] = "running"
    /\ busy_thr_num' = busy_thr_num - 1
    /\ wpc' = [wpc EXCEPT ![w] = "top"]
    /\ wtask' = [wtask EXCEPT ![w] = NoTask]
    /\ fate' = [fate EXCEPT ![wtask[w]] = "done"]
    /\ UNCHANGED <<lock, shutdown, live_thr_num, wait_exit_thr_num, queue, admin,
                   caller, destroy>>

\* pthread_exit: the thread is gone, nobody has joined it.
WorkerExit(w) ==
    /\ wpc[w] = "exiting"
    /\ wpc' = [wpc EXCEPT ![w] = "exited"]
    /\ UNCHANGED <<lock, shutdown, counters, queue, wtask, admin, caller, destroy,
                   fate>>

Worker(w) ==
    \/ WorkerLock(w) \/ WorkerWait(w) \/ WorkerRetire(w) \/ WorkerResume(w)
    \/ WorkerStart(w) \/ WorkerFinish(w) \/ WorkerExit(w)

\* POSIX lets pthread_cond_wait return with nobody having signalled.
SpuriousWake ==
    /\ PoolExists
    /\ \/ /\ \E w \in Slot : wpc[w] = "waiting" /\ wpc' = [wpc EXCEPT ![w] = "woken"]
          /\ UNCHANGED ppc
       \/ /\ \E c \in Caller : ppc[c] = "waiting" /\ ppc' = [ppc EXCEPT ![c] = "woken"]
          /\ UNCHANGED wpc
    /\ UNCHANGED <<lock, shutdown, counters, queue, wtask, admin, ptask, destroy, fate>>
-----------------------------------------------------------------------------
(* threadpool_add_task                                                     *)

\* Mutant: a full queue is waited for though the pool is shut down.
BlockThoughShutdown(c, t) ==
    /\ queue_size = QueueMax
    /\ lock' = c
    /\ ppc' = [ppc EXCEPT ![c] = "parking"]
    /\ ptask' = [ptask EXCEPT ![c] = t]
    /\ fate' = [fate EXCEPT ![t] = "offered"]
    /\ UNCHANGED queue

\* The call, from the moment it holds the lock, with task t.
Block(c, t) ==
    /\ queue_size = QueueMax /\ ~shutdown
    /\ lock' = c
    /\ ppc' = [ppc EXCEPT ![c] = "parking"]
    /\ ptask' = [ptask EXCEPT ![c] = t]
    /\ fate' = [fate EXCEPT ![t] = "offered"]
    /\ UNCHANGED queue

\* return -1
Refuse(c, t) ==
    /\ shutdown
    /\ ppc' = [ppc EXCEPT ![c] = "idle"]
    /\ ptask' = [ptask EXCEPT ![c] = NoTask]
    /\ fate' = [fate EXCEPT ![t] = "refused"]
    /\ UNCHANGED <<lock, queue>>

Enqueue(c, t) ==
    /\ queue_size # QueueMax /\ ~shutdown
    /\ task_queue' = [task_queue EXCEPT ![queue_rear] = t]
    /\ queue_rear' = Following(queue_rear)
    /\ queue_size' = queue_size + 1
    /\ ppc' = [ppc EXCEPT ![c] = "signal"]
    /\ ptask' = [ptask EXCEPT ![c] = NoTask]
    /\ fate' = [fate EXCEPT ![t] = "accepted"]
    /\ UNCHANGED <<lock, queue_front>>

\* Tasks are named in the order they are offered: their names stand for nothing.
NextTask == CHOOSE t \in Task : fate[t] = "new"

\* Mutant: the call does not lock the pool.
AddTaskUnlocked(c, t) ==
    /\ PoolExists /\ (QuiescentDestroy => dpc = "idle")
    /\ ppc[c] = "idle" /\ fate[t] = "new" /\ t = NextTask
    /\ Block(c, t) \/ Refuse(c, t) \/ Enqueue(c, t)
    /\ UNCHANGED <<shutdown, counters, worker, admin, destroy>>

AddTask(c, t) ==
    /\ PoolExists /\ (QuiescentDestroy => dpc = "idle")
    /\ ppc[c] = "idle" /\ fate[t] = "new" /\ t = NextTask /\ lock = NoOne
    /\ Block(c, t) \/ Refuse(c, t) \/ Enqueue(c, t)
    /\ UNCHANGED <<shutdown, counters, worker, admin, destroy>>

CallerWait(c) ==
    /\ PoolExists
    /\ ppc[c] = "parking"
    /\ lock' = NoOne
    /\ ppc' = [ppc EXCEPT ![c] = "waiting"]
    /\ UNCHANGED <<shutdown, counters, queue, worker, admin, ptask, destroy, fate>>

CallerResume(c) ==
    /\ PoolExists
    /\ ppc[c] = "woken" /\ lock = NoOne
    /\ Block(c, ptask[c]) \/ Refuse(c, ptask[c]) \/ Enqueue(c, ptask[c])
    /\ UNCHANGED <<shutdown, counters, worker, admin, destroy>>

\* The lock is released; one worker is signalled and the call returns 0.
CallerSignal(c) ==
    /\ PoolExists
    /\ ppc[c] = "signal"
    /\ SignalNotEmpty
    /\ ppc' = [ppc EXCEPT ![c] = "idle"]
    /\ UNCHANGED <<lock, shutdown, counters, queue, wtask, admin, ptask, destroy, fate>>

\* A call that has been made goes on.
Calling(c) == CallerWait(c) \/ CallerResume(c) \/ CallerSignal(c)
-----------------------------------------------------------------------------
(* admin_thread                                                            *)

Smaller(a, b) == IF a < b THEN a ELSE b

\* while (!pool->shutdown), read without the lock
AdminCheck ==
    /\ apc = "check"
    /\ apc' = IF shutdown THEN "exited" ELSE "sleep"
    /\ UNCHANGED <<lock, shutdown, counters, queue, worker, seen, asig, caller,
                   destroy, fate>>

\* sleep(DEFAULT_TIME) is over: sample the queue and the live threads.
AdminSample ==
    /\ apc = "sleep" /\ lock = NoOne
    /\ apc' = "busy"
    /\ seen' = [size |-> queue_size, live |-> live_thr_num, busy |-> 0]
    /\ UNCHANGED <<lock, shutdown, counters, queue, worker, asig, caller, destroy, fate>>

TooFewThreads(s) == s.size >= MIN_WAIT_TASK_NUM /\ s.live <= MaxThr
\* Mutant: off by one, the last surplus thread is never retired.
TooManyThreadsByOne(s) == s.busy * 2 < s.live /\ s.live > MinThr + 1

TooManyThreads(s) == s.busy * 2 < s.live /\ s.live > MinThr

\* Where a round goes after the grow branch; its samples die with it.
AfterGrow(s) ==
    IF TooManyThreads(s) THEN apc' = "shrink" /\ seen' = s
                         ELSE apc' = "check" /\ seen' = NoSample

\* Sample the busy threads, under the other mutex, and decide.
AdminReadBusy ==
    /\ apc = "busy"
    /\ LET s == [seen EXCEPT !.busy = busy_thr_num]
       IN  IF TooFewThreads(s) THEN apc' = "grow" /\ seen' = s
                               ELSE AfterGrow(s)
    /\ UNCHANGED <<lock, shutdown, counters, queue, worker, asig, caller, destroy, fate>>

\* threads[i] == 0 || !is_thread_alive(threads[i])
Vacant == {w \in Slot : \/ wpc[w] = "none"
                        \/ ExitedIsESRCH /\ wpc[w] = "exited"}

\* Start threads in the first vacant slots.
AdminGrow ==
    /\ apc = "grow" /\ lock = NoOne
    /\ \E new \in SUBSET Vacant :
        /\ Cardinality(new) =
             Smaller(Cardinality(Vacant),
                     Smaller(DEFAULT_THREAD_NUM, MaxThr - live_thr_num))
        /\ \A v \in new, w \in Vacant \ new : v < w
        /\ live_thr_num' = live_thr_num + Cardinality(new)
        /\ wpc' = [w \in Slot |-> IF w \in new THEN "top" ELSE wpc[w]]
    /\ AfterGrow(seen)
    /\ UNCHANGED <<lock, shutdown, busy_thr_num, wait_exit_thr_num, queue, wtask,
                   asig, caller, destroy, fate>>

AdminShrink ==
    /\ apc = "shrink" /\ lock = NoOne
    /\ wait_exit_thr_num' = DEFAULT_THREAD_NUM
    /\ apc' = "signal" /\ asig' = DEFAULT_THREAD_NUM /\ seen' = NoSample
    /\ UNCHANGED <<lock, shutdown, live_thr_num, busy_thr_num, queue, worker, caller,
                   destroy, fate>>

\* One iteration of the signalling loop, without the lock.
AdminSignal ==
    /\ apc = "signal"
    /\ SignalNotEmpty
    /\ asig' = asig - 1
    /\ apc' = IF asig = 1 THEN "check" ELSE "signal"
    /\ UNCHANGED <<lock, shutdown, counters, queue, wtask, seen, caller, destroy, fate>>

Admin ==
    /\ PoolExists
    /\ \/ AdminCheck \/ AdminSample \/ AdminReadBusy
       \/ AdminGrow \/ AdminShrink \/ AdminSignal
-----------------------------------------------------------------------------
(* threadpool_destroy                                                      *)

\* pool->shutdown = true, without the lock.
DestroyCall ==
    /\ dpc = "idle"
    /\ QuiescentDestroy => \A c \in Caller : ppc[c] = "idle"
    /\ shutdown' = TRUE
    /\ dpc' = "join_admin"
    /\ UNCHANGED <<lock, counters, queue, worker, admin, caller, di, fate>>

JoinAdmin ==
    /\ dpc = "join_admin" /\ apc = "exited"
    /\ dpc' = "broadcast" /\ di' = 0
    /\ UNCHANGED <<lock, shutdown, counters, queue, worker, admin, caller, fate>>

\* for (i=0; i<pool->live_thr_num; i++) broadcast: the bound is read each time.
Broadcast ==
    /\ dpc = "broadcast"
    /\ IF di < live_thr_num
       THEN BroadcastNotEmpty /\ di' = di + 1 /\ UNCHANGED dpc
       ELSE dpc' = "join" /\ di' = 0 /\ UNCHANGED wpc
    /\ UNCHANGED <<lock, shutdown, counters, queue, wtask, admin, caller, fate>>

\* Mutant: the last worker is not joined.
JoinAllButLast ==
    /\ dpc = "join"
    /\ IF di < live_thr_num - 1
       THEN wpc[di] \in {"exited", "none"} /\ di' = di + 1 /\ UNCHANGED dpc
       ELSE dpc' = "free" /\ UNCHANGED di
    /\ UNCHANGED <<lock, shutdown, counters, queue, worker, admin, caller, fate>>

\* for (i=0; i<pool->live_thr_num; i++) pthread_join(threads[i])
Join ==
    /\ dpc = "join"
    /\ IF di < live_thr_num
       THEN wpc[di] \in {"exited", "none"} /\ di' = di + 1 /\ UNCHANGED dpc
       ELSE dpc' = "free" /\ UNCHANGED di
    /\ UNCHANGED <<lock, shutdown, counters, queue, worker, admin, caller, fate>>

\* threadpool_free takes the lock once more, destroys it and frees the pool.
Free ==
    /\ dpc = "free" /\ lock = NoOne
    /\ dpc' = "freed" /\ di' = 0
    /\ UNCHANGED <<lock, shutdown, counters, queue, worker, admin, caller, fate>>

\* A destroy that has been called goes on.
Destroying == JoinAdmin \/ Broadcast \/ Join \/ Free
-----------------------------------------------------------------------------
Next ==
    \/ \E w \in Slot : Worker(w)
    \/ \E c \in Caller : Calling(c) \/ \E t \in Task : AddTask(c, t)
    \/ SpuriousWake
    \/ Admin
    \/ DestroyCall \/ Destroying

Spec == Init /\ [][Next]_vars

(***************************************************************************)
(* Every thread keeps running, and a thread that wants the lock gets it at *)
(* some point when it is released again and again.  Nobody has to call the *)
(* pool, and no spurious wakeup is ever promised.                          *)
(***************************************************************************)
Fairness ==
    /\ \A w \in Slot : SF_vars(Worker(w))
    /\ \A c \in Caller : SF_vars(Calling(c))
    /\ SF_vars(Admin)
    /\ SF_vars(Destroying)

FairSpec == Spec /\ Fairness
=============================================================================
