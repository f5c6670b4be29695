-------------------------- MODULE MCBatchEvaluator --------------------------
(* Three seeds over two edges, two jobs, with and without a timeout.       *)
EXTENDS BatchEvaluator
=============================================================================
