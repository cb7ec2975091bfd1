---------------------------- MODULE MCWorkerPool ----------------------------
(* Small instances of the worker pool for TLC. *)
EXTENDS WorkerPool, TLC

CONSTANTS w1, w2, w3, k1, k2

=============================================================================
