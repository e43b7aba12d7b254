------------------------- MODULE ThreadPoolProperties -------------------------
(***************************************************************************)
(* What the thread pool of ThreadPool guarantees, and what its comments    *)
(* say of it that it does not.                                             *)
(***************************************************************************)
EXTENDS ThreadPool, Sequences

\* threadpool_create(n, n, ...) with n > 0, the only way the repository calls
\* it: admin_thread then never retires a worker.
FixedSize == MinThr = MaxThr /\ MaxThr > 0

Alive == {w \in Slot : wpc[w] \notin {"none", "exiting", "exited"}}
At(pc) == {w \in Slot : wpc[w] = pc}
Signalling == {c \in Caller : ppc[c] = "signal"}
-----------------------------------------------------------------------------
(* Safety.                                                                 *)

\* live_thr_num, which bounds the loops of threadpool_destroy and decides who
\* may retire, stays between min_thr_num and max_thr_num and counts the live
\* workers; once the pool is shut down workers leave without counting down.
LiveThreadsCounted ==
    /\ MinThr <= live_thr_num /\ live_thr_num <= MaxThr
    /\ Cardinality(Alive) <= live_thr_num
    /\ ~shutdown => Cardinality(Alive) = live_thr_num

\* busy_thr_num, kept under a mutex of its own, is exactly the number of
\* workers inside a task's function: no interleaving loses an update.
BusyThreadsCounted == busy_thr_num = Cardinality(At("running"))

\* A thread that is between its test of a waiting condition and
\* pthread_cond_wait holds the lock, it is the only one there, and what it
\* tested is still so (its condition on shutdown is not under the lock).
WaitConditionStillHolds ==
    /\ \A w \in Slot : wpc[w] = "parking" => lock = w /\ queue_size = 0
    /\ \A c \in Caller : ppc[c] = "parking" => lock = c /\ queue_size = QueueMax
    /\ lock # NoOne => \/ \E w \in Slot : lock = w /\ wpc[w] = "parking"
                       \/ \E c \in Caller : lock = c /\ ppc[c] = "parking"

\* A call sleeps on queue_not_full only while the queue is full: the broadcast
\* in threadpool_thread misses nobody.
BlockedOnlyWhenFull ==
    \A c \in Caller : ppc[c] = "waiting" => queue_size = QueueMax

\* In a pool of fixed size a queued task always has somebody who will come for
\* it: a worker that is not asleep, or a call about to signal one.
NoStrandedTask ==
    FixedSize /\ ~shutdown /\ queue_size > 0 =>
        \/ \E w \in Slot : wpc[w] \in {"top", "woken", "taken", "running"}
        \/ \E c \in Caller : ppc[c] = "signal"

\* Stronger: while workers of such a pool sleep, the workers on their way to
\* the queue and the signals not yet sent are no fewer than the queued tasks,
\* so tasks run in parallel as soon as there are threads for them.
WakeupPerTask ==
    FixedSize /\ ~shutdown /\ NotEmptyWaiters # {} =>
        queue_size <= Cardinality(At("top")) + Cardinality(At("woken"))
                        + Cardinality(Signalling)

\* threadpool_destroy frees the pool only when no thread can use it again:
\* its join loop has waited for every worker and no call is under way.
NoUseAfterFree ==
    dpc = "freed" => /\ Alive = {}
                     /\ \A c \in Caller : ppc[c] = "idle"
                     /\ apc = "exited"
-----------------------------------------------------------------------------
(* Refinement: the pool is a bounded first-in-first-out queue of tasks.    *)

\* The ring as a sequence of tasks, the oldest first, and the tasks with a worker.
Pending == [i \in 1..queue_size |-> task_queue[(queue_front + i - 1) % QueueMax]]
Holding(w) == wpc[w] \in {"taken", "running"}
Running == {wtask[w] : w \in {v \in Slot : Holding(v)}}
Met(f) == {t \in Task : fate[t] = f}

Pool == INSTANCE TaskQueue WITH
    Capacity <- QueueMax,
    pending  <- Pending,
    running  <- Running,
    finished <- Met("done"),
    refused  <- Met("refused"),
    closed   <- shutdown

\* Tasks are accepted up to queue_max_size and run in the order of acceptance,
\* each once; none is lost or duplicated in the ring, when a worker retires or
\* when the pool grows; none is accepted or taken after shutdown.
IsTaskQueue == Pool!QSpec
-----------------------------------------------------------------------------
(* Liveness.                                                               *)

\* "After adding a task the queue is not empty, wake one thread of the pool"
\* (handlerthread.c:342): an accepted task is run, unless the pool is destroyed.
TaskServed ==
    \A t \in Task : fate[t] = "accepted" ~> fate[t] = "done" \/ shutdown

\* A call of threadpool_add_task returns, unless the pool is destroyed under it.
\* Of the calls a destroy meets, those that are awake return too, also when the
\* queue is full, unless the pool is freed before they go on; one asleep on
\* queue_not_full is woken by nobody.
CallReturns ==
    \A c \in Caller :
        LET awake == ppc[c] \in {"woken", "signal"}
        IN  /\ ppc[c] # "idle" ~> ppc[c] = "idle" \/ shutdown
            /\ shutdown /\ awake ~> ppc[c] = "idle" \/ (dpc = "freed" /\ awake)

\* admin_thread brings a pool with nothing left to do back to min_thr_num.
IdlePoolShrinks == []<>(live_thr_num = MinThr \/ shutdown)

\* threadpool_destroy returns: "tell all threads to kill themselves, wait for
\* them to end" (handlerthread.c:174, 179).
DestroyReturns == dpc # "idle" ~> dpc = "freed"

\* It returns when no worker is between its test and pthread_cond_wait as the
\* broadcasts begin: every worker is then asleep and woken, or will see
\* shutdown before it sleeps.
DestroyReturnsUnlessParking ==
    dpc = "broadcast" /\ di = 0 /\ At("parking") = {} ~> dpc = "freed"
=============================================================================
