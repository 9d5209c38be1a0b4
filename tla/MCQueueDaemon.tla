---------------------------- MODULE MCQueueDaemon ----------------------------
(* QueueDaemon for TLC: one daemon d, one prune command, two rows.         *)
EXTENDS QueueDaemon

CONSTANTS d, pr1, r1, r2
=============================================================================
