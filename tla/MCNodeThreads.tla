-------------------------- MODULE MCNodeThreads --------------------------
(* TLC instance of NodeThreads: every role, one parameter of two values.   *)
EXTENDS NodeThreads

MCParams == {"a"}
MCValues == {"v0", "v1"}
=============================================================================
