---------------------------- MODULE MCFrontend ----------------------------
(* Two lines of code, buffers of two and three entries. *)
EXTENDS Frontend

CONSTANTS l1, l2
=============================================================================
