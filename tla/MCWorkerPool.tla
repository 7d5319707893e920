---------------------------- MODULE MCWorkerPool ----------------------------
(* Small instances of WorkerPool for TLC. *)
EXTENDS WorkerPool, TLC

CONSTANTS w1, w2, w3, w4

(* Workers are interchangeable; used for safety only. *)
MCSymmetry == Permutations(Workers)

=============================================================================
