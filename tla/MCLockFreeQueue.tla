-------------------------- MODULE MCLockFreeQueue ---------------------------
(* Small instances of LockFreeQueue: the cfg files give the threads, the   *)
(* capacity and the bound on pushes.                                       *)
EXTENDS LockFreeQueue
=============================================================================
