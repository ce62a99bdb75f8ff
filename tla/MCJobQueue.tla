---------------------------- MODULE MCJobQueue ----------------------------
(* JobQueue for TLC: two threads in Pop with a context each, two in Enqueue. *)
EXTENDS JobQueue
=============================================================================
