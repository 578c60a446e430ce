------------------------------ MODULE WorkQueue ------------------------------
(***************************************************************************)
(* The router's work queue, sr_work_queue.c: a singly-linked FIFO of      *)
(* work_t cells with head and tail pointers under wq->lock, a pool of     *)
(* worker threads waiting on wq->cond_work, and wq_destroy, which sets    *)
(* done, frees the queued cells, broadcasts, and waits at most            *)
(* SHUTDOWN_TIME one-second sleeps for wq->workers to drop to zero        *)
(* before destroying the mutex.                                           *)
(*                                                                         *)
(* A locked region is one step.  The producer (the packet-receive         *)
(* collaborator, outside src/) enqueues before wq_destroy is called, as    *)
(* in spec scenario D.  Cell k is the k-th work_t enqueued; its payload    *)
(* plays no part in the queue's behaviour.                                 *)
(***************************************************************************)
EXTENDS Naturals, Sequences, SequencesExt, FiniteSets

CONSTANTS
    Workers,        \* the worker threads (NUM_WORKER_THREADS of them)
    MaxWork,        \* bound on wq_enqueue calls
    ShutdownTime    \* SHUTDOWN_TIME (sr_common.h), in one-second sleeps

Nil == 0
Cells == 1..MaxWork

VARIABLES
    head, tail, next,   \* wq->head, wq->tail and the cells' next pointers
    done,               \* wq->done
    workers,            \* wq->workers
    wpc,                \* each worker's place in wq_wait_for_work
    held,               \* the cell a worker is handling, or Nil
    enq,                \* cells enqueued so far
    ppc,                \* the producer: "idle" or about to signal
    dpc, timeLeft,      \* wq_destroy's place and its time_left
    lockDestroyed,      \* pthread_mutex_destroy(&wq->lock) has run
    runs,               \* history: times func_do_work ran on each cell
    discarded           \* history: cells freed unprocessed by wq_destroy

vars == <<head, tail, next, done, workers, wpc, held, enq, ppc, dpc,
          timeLeft, lockDestroyed, runs, discarded>>

\* The cells reachable from wq->head along next.
RECURSIVE Chain(_, _)
Chain(c, fuel) == IF c = Nil \/ fuel = 0 THEN <<>> ELSE <<c>> \o Chain(next[c], fuel - 1)
Queue == Chain(head, MaxWork + 1)

\* Mutant: workers set one short of num_workers.
InitOffByOne ==
    /\ head = Nil /\ tail = Nil /\ next = [c \in Cells |-> Nil]
    /\ done = FALSE
    /\ workers = Cardinality(Workers) - 1
    /\ wpc = [w \in Workers |-> "top"] /\ held = [w \in Workers |-> Nil]
    /\ enq = 0 /\ ppc = "idle" /\ dpc = "idle" /\ timeLeft = ShutdownTime
    /\ lockDestroyed = FALSE
    /\ runs = [c \in Cells |-> 0] /\ discarded = {}

\* wq_init, lines 19-35: an empty queue, and every worker spawned into
\* wq_wait_for_work.
Init ==
    /\ head = Nil /\ tail = Nil /\ next = [c \in Cells |-> Nil]
    /\ done = FALSE
    /\ workers = Cardinality(Workers)
    /\ wpc = [w \in Workers |-> "top"] /\ held = [w \in Workers |-> Nil]
    /\ enq = 0 /\ ppc = "idle" /\ dpc = "idle" /\ timeLeft = ShutdownTime
    /\ lockDestroyed = FALSE
    /\ runs = [c \in Cells |-> 0] /\ discarded = {}

Waiting == {w \in Workers : wpc[w] = "wait"}

\* wq->lock is free: only an exiting worker holds it between steps.
LockFree == \A w \in Workers : wpc[w] # "exiting"

\* Mutant: the tail is appended to, but pushed at the head (a LIFO).
EnqueueAtHead ==
    /\ ppc = "idle" /\ dpc = "idle" /\ enq < MaxWork /\ LockFree
    /\ LET w == enq + 1 IN
       /\ next' = [next EXCEPT ![w] = head]
       /\ head' = w
       /\ tail' = IF tail = Nil THEN w ELSE tail
       /\ enq' = w
    /\ ppc' = "signal"
    /\ UNCHANGED <<done, workers, wpc, held, dpc, timeLeft, lockDestroyed,
                   runs, discarded>>

\* wq_enqueue, lines 76-92: link a new cell after the tail under the lock.
Enqueue ==
    /\ ppc = "idle" /\ dpc = "idle" /\ enq < MaxWork /\ LockFree
    /\ LET w == enq + 1 IN
       /\ next' = IF tail # Nil THEN [next EXCEPT ![tail] = w, ![w] = Nil]
                  ELSE [next EXCEPT ![w] = Nil]
       /\ head' = IF tail # Nil THEN head ELSE w
       /\ tail' = w
       /\ enq' = w
    /\ ppc' = "signal"
    /\ UNCHANGED <<done, workers, wpc, held, dpc, timeLeft, lockDestroyed,
                   runs, discarded>>


\* Mutant: the signal wakes nobody (pthread_cond_signal left out).
NoSignal == wpc

\* pthread_cond_signal(&wq->cond_work): wakes one waiting worker, if any.
Signal == IF Waiting = {} THEN wpc
          ELSE [wpc EXCEPT ![CHOOSE w \in Waiting : TRUE] = "woken"]

\* wq_enqueue line 95, after the unlock.
EnqueueSignal ==
    /\ ppc = "signal"
    /\ ppc' = "idle"
    /\ wpc' = Signal
    /\ UNCHANGED <<head, tail, next, done, workers, held, enq, dpc, timeLeft,
                   lockDestroyed, runs, discarded>>

\* Mutant: the tail is not cleared when the last cell is taken.
TakeNoTailReset(w) ==
    /\ held' = [held EXCEPT ![w] = head]
    /\ head' = next[head]
    /\ UNCHANGED tail

\* Lines 130-133: take the head cell; an emptied queue gets tail = NULL.
Take(w) ==
    /\ held' = [held EXCEPT ![w] = head]
    /\ head' = next[head]
    /\ tail' = IF next[head] = Nil THEN Nil ELSE tail

\* wq_wait_for_work lines 113-136, entered at the top of the loop or on
\* return from pthread_cond_wait: with the lock, wait while there is no
\* work and no stop; on done, count this worker out (still holding the
\* lock); else take the head cell and release the lock to handle it.
WorkerLock(w) ==
    /\ wpc[w] \in {"top", "woken"}
    /\ ~lockDestroyed /\ LockFree
    /\ IF done
       THEN /\ workers' = workers - 1
            /\ wpc' = [wpc EXCEPT ![w] = "exiting"]
            /\ UNCHANGED <<head, tail, held>>
       ELSE IF head = Nil
       THEN /\ wpc' = [wpc EXCEPT ![w] = "wait"]
            /\ UNCHANGED <<head, tail, held, workers>>
       ELSE /\ Take(w)
            /\ wpc' = [wpc EXCEPT ![w] = "work"]
            /\ UNCHANGED workers
    /\ UNCHANGED <<next, done, enq, ppc, dpc, timeLeft, lockDestroyed,
                   runs, discarded>>

\* Lines 123-124: unlock and return from the thread.
WorkerUnlock(w) ==
    /\ wpc[w] = "exiting"
    /\ wpc' = [wpc EXCEPT ![w] = "exited"]
    /\ UNCHANGED <<head, tail, next, done, workers, held, enq, ppc, dpc,
                   timeLeft, lockDestroyed, runs, discarded>>

\* Lines 139-142: func_do_work(work) and myfree(work), without the lock.
WorkerFinish(w) ==
    /\ wpc[w] = "work"
    /\ runs' = [runs EXCEPT ![held[w]] = @ + 1]
    /\ held' = [held EXCEPT ![w] = Nil]
    /\ wpc' = [wpc EXCEPT ![w] = "top"]
    /\ UNCHANGED <<head, tail, next, done, workers, enq, ppc, dpc, timeLeft,
                   lockDestroyed, discarded>>

\* pthread_cond_wait may return without a signal.
SpuriousWakeup(w) ==
    /\ wpc[w] = "wait"
    /\ wpc' = [wpc EXCEPT ![w] = "woken"]
    /\ UNCHANGED <<head, tail, next, done, workers, held, enq, ppc, dpc,
                   timeLeft, lockDestroyed, runs, discarded>>

\* wq_destroy lines 41-56: under the lock, set done and free every queued
\* cell; wq->tail is left as it was.
DestroyLock ==
    /\ dpc = "idle" /\ LockFree
    /\ done' = TRUE
    /\ discarded' = ToSet(Queue)
    /\ head' = Nil
    /\ dpc' = "broadcast"
    /\ UNCHANGED <<tail, next, workers, wpc, held, enq, ppc, timeLeft,
                   lockDestroyed, runs>>

\* Line 57, after the unlock: wake every waiting worker.
DestroyBroadcast ==
    /\ dpc = "broadcast"
    /\ wpc' = [w \in Workers |-> IF wpc[w] = "wait" THEN "woken" ELSE wpc[w]]
    /\ dpc' = "grace"
    /\ UNCHANGED <<head, tail, next, done, workers, held, enq, ppc, timeLeft,
                   lockDestroyed, runs, discarded>>

\* Lines 60-70: while time is left and wq->workers > 0 (read unlocked),
\* sleep a second; then destroy the mutex and the condition.
DestroyWait ==
    /\ dpc = "grace"
    /\ IF timeLeft > 0 /\ workers > 0
       THEN /\ timeLeft' = timeLeft - 1
            /\ UNCHANGED <<dpc, lockDestroyed>>
       ELSE /\ lockDestroyed' = TRUE
            /\ dpc' = "destroyed"
            /\ UNCHANGED timeLeft
    /\ UNCHANGED <<head, tail, next, done, workers, wpc, held, enq, ppc,
                   runs, discarded>>

Next ==
    \/ Enqueue \/ EnqueueSignal
    \/ \E w \in Workers : WorkerLock(w) \/ WorkerUnlock(w) \/ WorkerFinish(w)
                         \/ SpuriousWakeup(w)
    \/ DestroyLock \/ DestroyBroadcast \/ DestroyWait

\* The OS schedules runnable threads; wq_destroy, once called, runs on.
\* Neither the producer nor the call of wq_destroy is assumed to happen.
Fairness ==
    /\ \A w \in Workers : WF_vars(WorkerLock(w)) /\ WF_vars(WorkerUnlock(w))
                           /\ WF_vars(WorkerFinish(w))
    /\ WF_vars(EnqueueSignal) /\ WF_vars(DestroyBroadcast) /\ WF_vars(DestroyWait)

Spec == Init /\ [][Next]_vars /\ Fairness

-----------------------------------------------------------------------------
(* Properties.                                                             *)

TypeOK ==
    /\ head \in Cells \cup {Nil} /\ tail \in Cells \cup {Nil}
    /\ next \in [Cells -> Cells \cup {Nil}]
    /\ workers \in 0..Cardinality(Workers)
    /\ wpc \in [Workers -> {"top", "wait", "woken", "work", "exiting", "exited"}]
    /\ held \in [Workers -> Cells \cup {Nil}]
    /\ dpc \in {"idle", "broadcast", "grace", "destroyed"}
    /\ runs \in [Cells -> Nat]

\* Until wq_destroy stops the queue, wq->tail is the last cell reachable
\* from wq->head (NULL exactly when the queue is empty), and the list ends:
\* enqueue and the workers' dequeue keep the two pointers consistent.
QueueIntact ==
    ~done => /\ Len(Queue) <= MaxWork
             /\ IF Queue = <<>> THEN tail = Nil
                ELSE tail = Last(Queue) /\ next[tail] = Nil

\* The queue implements WorkQueueFIFO: cells are taken in enqueue order,
\* each by one worker once, none after wq_destroy sets done, and the cells
\* still queued then are discarded (wq_enqueue, wq_wait_for_work,
\* wq_destroy).
FIFO == INSTANCE WorkQueueFIFO WITH
    Items <- Cells,
    q <- Queue,
    taken <- {held[w] : w \in {x \in Workers : wpc[x] = "work"}},
    finished <- {c \in Cells : runs[c] > 0},
    discarded <- discarded,
    stopped <- done
ImplementsFIFO == FIFO!Spec

\* Every enqueued cell is eventually handled by a worker or discarded by
\* wq_destroy: the signal after each enqueue and the workers' re-check of
\* the queue leave no cell behind.
ItemEventuallyHandled ==
    \A c \in Cells : (enq >= c) ~> (runs[c] > 0 \/ c \in discarded)

\* When wq_destroy destroys the mutex, every worker has counted itself out
\* and returned: none is handling a cell, holding wq->lock, or about to
\* lock it again
\* (spec: "the worker count reaches zero within the grace period").
DrainOnDestroy ==
    lockDestroyed => \A w \in Workers : wpc[w] = "exited"

=============================================================================
