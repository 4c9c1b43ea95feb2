---------------------------- MODULE MCSimpleApi ----------------------------
(* SimpleApi on a small instance.                                          *)
EXTENDS SimpleApi
=============================================================================
