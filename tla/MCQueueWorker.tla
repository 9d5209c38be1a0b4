---------------------------- MODULE MCQueueWorker ----------------------------
(* QueueWorker for TLC: sets of model values and their symmetries.         *)
EXTENDS QueueWorker, TLC

CONSTANTS w1, w2, pr1, r1, r2

RowSymmetry == Permutations({r1, r2})
=============================================================================
