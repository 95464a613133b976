---------------------------- MODULE MCWorkerPool ----------------------------
(* Two workers, channels of one slot and three tasks: one that may be retried *)
(* twice, one that may be retried once, one whose type has no handler.        *)
EXTENDS WorkerPool

CONSTANTS t1, t2, t3

MCTask == {t1, t2, t3}
MCMaxRetries == [t \in MCTask |-> IF t = t1 THEN 2 ELSE IF t = t2 THEN 1 ELSE 0]
=============================================================================
