---------------------------- MODULE PacketQueue ----------------------------
(***************************************************************************)
(* PACKET_QUEUE of src/block.cc, the ring behind every FIFO queue of the   *)
(* caches, the page table walker and the core: entry, head, tail and       *)
(* occupancy.  A user checks occupancy before it adds or removes, and      *)
(* removes at the head only; MSHR and DRAM queues, which free any entry,   *)
(* are not FIFO and do not go through here.                                *)
(***************************************************************************)
EXTENDS Integers, Sequences

CONSTANTS Packet, Address, AddressOf, Empty, SIZE

ASSUME PacketQueueAssumption ==
    /\ SIZE \in Nat \ {0}
    /\ AddressOf \in [Packet -> Address]
    /\ Empty \notin Packet

VARIABLES entry, head, tail, occupancy,
          index         \* what check_queue returned last, -1 after another call

vars == <<entry, head, tail, occupancy, index>>

Slot == 0 .. SIZE - 1

Init ==
    /\ entry = [i \in Slot |-> Empty]
    /\ head = 0 /\ tail = 0 /\ occupancy = 0
    /\ index = -1

(* The slots from lo to hi that hold a packet of address a. *)
Matching(a, lo, hi) ==
    {i \in Slot : i \in lo .. hi /\ entry[i] \in Packet /\ AddressOf[entry[i]] = a}

First(slots) == CHOOSE i \in slots : \A j \in slots : i <= j

MutScanned(a) ==
    IF head = tail /\ occupancy = 0 THEN -1
    ELSE LET found == IF head < tail THEN Matching(a, head, tail - 1)
                      ELSE Matching(a, head, SIZE - 1) \cup Matching(a, 0, tail - 1)
         IN  IF found = {} THEN -1 ELSE First(found)

(* The scan of check_queue: from head to tail, or to the end of the array  *)
(* and then from its start.                                                *)
Scanned(a) ==
    IF head = tail /\ occupancy = 0 THEN -1
    ELSE LET found == IF head < tail THEN Matching(a, head, tail - 1)
                      ELSE Matching(a, head, SIZE - 1)
             wrapped == IF head < tail THEN {} ELSE Matching(a, 0, tail - 1)
         IN  IF found # {} THEN First(found)
             ELSE IF wrapped # {} THEN First(wrapped) ELSE -1

check_queue(a) ==
    /\ index' = Scanned(a)
    /\ UNCHANGED <<entry, head, tail, occupancy>>

(* The slot after slot i - 1 of the ring. *)
Wrapped(i) == IF i >= SIZE THEN 0 ELSE i

add_queue(p) ==
    /\ occupancy < SIZE
    /\ entry' = [entry EXCEPT ![tail] = p]
    /\ occupancy' = occupancy + 1
    /\ tail' = Wrapped(tail + 1)
    /\ index' = -1
    /\ UNCHANGED head

MutRemoveUncounted ==
    /\ ~ (occupancy = 0 /\ head = tail)
    /\ entry' = [entry EXCEPT ![head] = Empty]
    /\ occupancy' = IF head = tail THEN 0 ELSE occupancy
    /\ head' = Wrapped(head + 1)
    /\ index' = -1
    /\ UNCHANGED tail

MutRemoveKeepsEntry ==
    /\ occupancy > 0
    /\ occupancy' = occupancy - 1
    /\ head' = Wrapped(head + 1)
    /\ index' = -1
    /\ UNCHANGED <<entry, tail>>

remove_queue ==
    /\ occupancy > 0
    /\ entry' = [entry EXCEPT ![head] = Empty]
    /\ occupancy' = occupancy - 1
    /\ head' = Wrapped(head + 1)
    /\ index' = -1
    /\ UNCHANGED tail

Next == \/ \E a \in Address : check_queue(a)
        \/ \E p \in Packet : add_queue(p)
        \/ remove_queue

Spec == Init /\ [][Next]_vars

-----------------------------------------------------------------------------
(* Properties *)

(* The slot of the k-th oldest packet. *)
At(k) == IF head + k - 1 < SIZE THEN head + k - 1 ELSE head + k - 1 - SIZE

TypeOK ==
    /\ entry \in [Slot -> Packet \cup {Empty}]
    /\ head \in Slot /\ tail \in Slot /\ occupancy \in 0 .. SIZE
    /\ index \in Slot \cup {-1}

(* add_queue and remove_queue assert on head, tail and occupancy together  *)
(* what their callers have found out from occupancy alone.  The two agree  *)
(* in every state: the head meets the tail when the ring is empty or full  *)
(* and at no other time.                                                   *)
AssertionsHold == (head = tail) <=> occupancy \in {0, SIZE}

(* Packets stand in the occupied slots and in no other, so no empty slot   *)
(* is ever taken for a packet and no packet is left behind.                *)
OccupiedSlots ==
    {i \in Slot : entry[i] # Empty} = {At(k) : k \in 1 .. occupancy}

Fifo == INSTANCE BoundedFifo
    WITH queue <- [k \in 1 .. occupancy |-> entry[At(k)]],
         found <- IF index = -1 THEN 0
                  ELSE IF index >= head THEN index - head + 1
                  ELSE index - head + 1 + SIZE

(* The ring is a bounded FIFO queue, and check_queue answers with the      *)
(* oldest packet of the address, wherever the ring wraps.                  *)
ImplementsFifo == Fifo!Spec
=============================================================================
