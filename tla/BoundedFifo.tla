---------------------------- MODULE BoundedFifo ----------------------------
(* What the users of a packet queue rely on: a bounded first-in first-out  *)
(* queue that can be asked for the oldest packet of an address.  The other *)
(* modules hold their queues in sequences on the strength of it.           *)
EXTENDS Integers, Sequences

CONSTANTS Packet, Address, AddressOf, SIZE

VARIABLES queue,        \* oldest packet first
          found         \* place of the packet last asked for, 0 when it has none

vars == <<queue, found>>

Init == queue = <<>> /\ found = 0

Add(p) ==
    /\ Len(queue) < SIZE
    /\ queue' = Append(queue, p)
    /\ found' = 0

Remove ==
    /\ queue # <<>>
    /\ queue' = Tail(queue)
    /\ found' = 0

Matches(a, k) == k \in 1 .. Len(queue) /\ AddressOf[queue[k]] = a

Find(a) ==
    /\ \/ found' = 0 /\ \A k \in 1 .. Len(queue) : ~ Matches(a, k)
       \/ Matches(a, found') /\ \A k \in 1 .. found' - 1 : ~ Matches(a, k)
    /\ UNCHANGED queue

Next == \/ \E p \in Packet : Add(p)
        \/ Remove
        \/ \E a \in Address : Find(a)

Spec == Init /\ [][Next]_vars
=============================================================================
