------------------------------ MODULE MCReplay -------------------------------
(* Small instances of Replay.                                              *)
EXTENDS Replay
=============================================================================
