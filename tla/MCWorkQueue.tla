---------------------------- MODULE MCWorkQueue ----------------------------
(* WorkQueue instantiated for TLC: the two worker threads of              *)
(* NUM_WORKER_THREADS (sr_router.h).                                       *)
EXTENDS WorkQueue

CONSTANTS w1, w2

MCWorkers == {w1, w2}

=============================================================================
