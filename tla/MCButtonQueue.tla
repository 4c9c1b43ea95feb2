--------------------------- MODULE MCButtonQueue ---------------------------
(* ButtonQueue on a small instance.                                        *)
EXTENDS ButtonQueue
=============================================================================
