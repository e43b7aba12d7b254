------------------------------ MODULE TaskQueue ------------------------------
(***************************************************************************)
(* What threadpool.h promises a client of the pool, with no thread, lock   *)
(* or condition variable in sight: a bounded first-in-first-out queue of   *)
(* tasks.  A task is offered once (one call of threadpool_add_task); it is *)
(* accepted or refused; accepted tasks are started in the order they were  *)
(* accepted, each at most once; nothing is accepted or started once the    *)
(* service is closed.  ThreadPool is shown to implement this module.       *)
(***************************************************************************)
EXTENDS Naturals, Sequences

CONSTANTS Task,      (* the tasks, one per call of threadpool_add_task *)
          Capacity   (* queue_max_size                                 *)

VARIABLES pending,   (* accepted and not yet started, oldest first         *)
          running,   (* started and not yet returned                       *)
          finished,  (* returned                                           *)
          refused,   (* threadpool_add_task returned -1                    *)
          closed     (* threadpool_destroy has begun                       *)

qvars == <<pending, running, finished, refused, closed>>

Queued == {pending[i] : i \in 1..Len(pending)}

\* Tasks that have been offered to the service.
Known == Queued \union running \union finished \union refused
-----------------------------------------------------------------------------
QInit ==
    /\ pending = <<>>
    /\ running = {}
    /\ finished = {}
    /\ refused = {}
    /\ closed = FALSE

Accept(t) ==
    /\ ~closed
    /\ t \notin Known
    /\ Len(pending) < Capacity
    /\ pending' = Append(pending, t)
    /\ UNCHANGED <<running, finished, refused, closed>>

Refuse(t) ==
    /\ closed
    /\ t \notin Known
    /\ refused' = refused \union {t}
    /\ UNCHANGED <<pending, running, finished, closed>>

Start ==
    /\ ~closed
    /\ pending # <<>>
    /\ running' = running \union {Head(pending)}
    /\ pending' = Tail(pending)
    /\ UNCHANGED <<finished, refused, closed>>

Finish(t) ==
    /\ t \in running
    /\ running' = running \ {t}
    /\ finished' = finished \union {t}
    /\ UNCHANGED <<pending, refused, closed>>

Close ==
    /\ ~closed
    /\ closed' = TRUE
    /\ UNCHANGED <<pending, running, finished, refused>>

QNext ==
    \/ \E t \in Task : Accept(t) \/ Refuse(t) \/ Finish(t)
    \/ Start
    \/ Close

QSpec == QInit /\ [][QNext]_qvars
=============================================================================
