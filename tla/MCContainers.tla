---------------------------- MODULE MCContainers ----------------------------
(* Three packets of two addresses for the ring. *)
EXTENDS Containers

CONSTANTS p1, p2, p3, a, b

MCAddressOf == [p \in Packet |-> IF p = p3 THEN b ELSE a]
=============================================================================
