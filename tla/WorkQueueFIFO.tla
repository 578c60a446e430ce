---------------------------- MODULE WorkQueueFIFO ---------------------------
(***************************************************************************)
(* What the work queue promises (spec: WorkQueue, WorkItem): items are     *)
(* taken in the order they were put, each by one worker, at most once;     *)
(* once stopped, nothing more is taken and the items still queued are      *)
(* discarded unprocessed.  sr_work_queue.c is shown to implement it in     *)
(* WorkQueue.tla.                                                          *)
(***************************************************************************)
EXTENDS Sequences, SequencesExt

CONSTANT Items

VARIABLES
    q,          \* items put and not yet taken, oldest first
    taken,      \* items handed to a worker and still being handled
    finished,   \* items whose handling has completed
    discarded,  \* items dropped by the stop
    stopped     \* the stop flag

vars == <<q, taken, finished, discarded, stopped>>

Seen == ToSet(q) \cup taken \cup finished \cup discarded

Init ==
    /\ q = <<>>
    /\ taken = {} /\ finished = {} /\ discarded = {}
    /\ stopped = FALSE

Put(i) ==
    /\ ~stopped
    /\ i \notin Seen
    /\ q' = Append(q, i)
    /\ UNCHANGED <<taken, finished, discarded, stopped>>

Take ==
    /\ ~stopped
    /\ q # <<>>
    /\ taken' = taken \cup {Head(q)}
    /\ q' = Tail(q)
    /\ UNCHANGED <<finished, discarded, stopped>>

Finish(i) ==
    /\ i \in taken
    /\ taken' = taken \ {i}
    /\ finished' = finished \cup {i}
    /\ UNCHANGED <<q, discarded, stopped>>

Stop ==
    /\ ~stopped
    /\ stopped' = TRUE
    /\ discarded' = discarded \cup ToSet(q)
    /\ q' = <<>>
    /\ UNCHANGED <<taken, finished>>

Next == (\E i \in Items : Put(i) \/ Finish(i)) \/ Take \/ Stop

Spec == Init /\ [][Next]_vars

=============================================================================
