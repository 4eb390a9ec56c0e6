----------------------------- MODULE MCLifecycle ------------------------------
(***************************************************************************)
(* The two parts of the program that start threads and have to come to an  *)
(* end, each on a small instance: a behaviour is one of them at work and   *)
(* the other at rest.                                                      *)
(***************************************************************************)
EXTENDS Session, ThreadPool

VARIABLE subject

lifecycleVars == <<subject, vars, poolVars>>

LifecycleInit ==
  /\ subject \in {"session", "pool"}
  /\ Init /\ (subject = "pool" => disk = 0)
  /\ PoolInit

LifecycleNext ==
  /\ UNCHANGED subject
  /\ \/ subject = "session" /\ Next /\ UNCHANGED poolVars
     \/ subject = "pool" /\ PoolNext /\ UNCHANGED vars

LifecycleSpec ==
  /\ LifecycleInit
  /\ [][LifecycleNext]_lifecycleVars
  /\ (subject = "session") => SessionFairness
  /\ (subject = "pool") => PoolFairness
=============================================================================
