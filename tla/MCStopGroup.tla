---------------------------- MODULE MCStopGroup ----------------------------
(* A small process tree: a root and two descendants.                       *)
EXTENDS StopGroup
=============================================================================
