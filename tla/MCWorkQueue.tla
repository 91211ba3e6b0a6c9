---------------------------- MODULE MCWorkQueue ----------------------------
(* The instance of WorkQueue for TLC: a retryable and a poison job, two    *)
(* workers and a retry worker.                                            *)
EXTENDS WorkQueueRefinement

CONSTANTS j1, j2, s1, s2, s3, s4, w1, w2, r1
=============================================================================
