---------------------------- MODULE MCWorkerPool ----------------------------
(* All kinds of fuzzer, three resource units, exits at every point.        *)
EXTENDS WorkerPool
=============================================================================
