---------------------------- MODULE MCRpcRouter ----------------------------
(* Small instances of RpcRouter for TLC. *)
EXTENDS RpcRouter, TLC

CONSTANTS p1, p2, t1, t2

ThreadSymmetry == Permutations(Threads)
=============================================================================
