-------------------------- MODULE MCPoserThreads --------------------------
(* PoserThreads on a small instance.                                       *)
EXTENDS PoserThreads
=============================================================================
