------------------------- MODULE Containers_proofs -------------------------
(***************************************************************************)
(* Proofs about the two containers, for every size: both forms of a        *)
(* dependency set act as one set, and the ring of PACKET_QUEUE is a        *)
(* bounded FIFO queue.                                                     *)
(***************************************************************************)
EXTENDS Containers, FiniteSetTheorems, SequenceTheorems, WellFoundedInduction, TLAPS

(* A set of numbers that is not empty has a least element. *)
LEMMA LeastNumber ==
    ASSUME NEW T \in SUBSET Nat, T # {}
    PROVE  \E x \in T : \A y \in T : x <= y
<1>1. PICK x \in T : \A y \in T : ~ (<<y, x>> \in OpToRel(<, Nat))
  BY NatLessThanWellFounded, WFMin
<1>2. \A y \in Nat : y < x => <<y, x>> \in OpToRel(<, Nat)
  BY DEF OpToRel
<1>3. \A y \in T : ~ (y < x)
  BY <1>1, <1>2, Zenon
<1> QED BY <1>3

-----------------------------------------------------------------------------
(* PACKET_QUEUE.  The inductive invariant adds to the checked ones where   *)
(* the tail stands, which the code keeps only by moving three counters     *)
(* alike.                                                                  *)

(* The tail is the slot after the youngest packet. *)
TailFollows == tail = At(occupancy + 1)

IInv == TypeOK /\ TailFollows /\ OccupiedSlots

(* A set of slots that is not empty has a first one, and First finds it. *)
LEMMA FirstIsLeast ==
    ASSUME NEW T \in SUBSET Slot, T # {}
    PROVE  First(T) \in T /\ \A j \in T : First(T) <= j
<1>1. T \in SUBSET Nat
  BY DEF Slot
<1> QED
  BY <1>1, LeastNumber DEF First

(* At numbers the slots from the head on, each of them once. *)
LEMMA AtIsBijection ==
    ASSUME TypeOK
    PROVE  /\ \A k \in 1 .. SIZE : At(k) \in Slot
           /\ \A j, k \in 1 .. SIZE : At(j) = At(k) => j = k
           /\ \A i \in Slot : \E k \in 1 .. SIZE : i = At(k)
<1> USE PacketQueueAssumption
<1>1. \A i \in Slot : \E k \in 1 .. SIZE : i = At(k)
  <2> TAKE i \in Slot
  <2> DEFINE n == IF i >= head THEN i - head + 1 ELSE i - head + 1 + SIZE
  <2>1. n \in 1 .. SIZE /\ i = At(n)
    BY DEF TypeOK, Slot, At
  <2> QED
    BY <2>1
<1> QED
  BY <1>1 DEF TypeOK, Slot, At

LEMMA InitIInv == Init => IInv
  BY PacketQueueAssumption DEF Init, IInv, TypeOK, TailFollows, OccupiedSlots, At, Slot

(* What the scan returns is a slot or -1. *)
LEMMA ScannedType ==
    ASSUME TypeOK, NEW a \in Address
    PROVE  Scanned(a) \in Slot \cup {-1}
<1>1. \A lo, hi : Matching(a, lo, hi) \in SUBSET Slot
  BY DEF Matching
<1> QED
  BY <1>1, FirstIsLeast DEF Scanned

LEMMA StepIInv == IInv /\ [Next]_vars => IInv'
<1> SUFFICES ASSUME IInv, [Next]_vars
             PROVE  IInv'
  OBVIOUS
<1> USE PacketQueueAssumption
<1>1. CASE UNCHANGED vars
  BY <1>1, ZenonT(40) DEF IInv, TypeOK, TailFollows, OccupiedSlots, At, vars
<1>2. ASSUME NEW a \in Address, check_queue(a)
      PROVE  IInv'
  BY <1>2, ScannedType, ZenonT(40) DEF IInv, TypeOK, TailFollows, OccupiedSlots, At, check_queue
<1>3. ASSUME NEW p \in Packet, add_queue(p)
      PROVE  IInv'
  <2>1. TypeOK'
    BY <1>3 DEF IInv, TypeOK, add_queue, Slot, Wrapped
  <2>2. TailFollows'
    BY <1>3 DEF IInv, TypeOK, TailFollows, add_queue, Slot, Wrapped, At
  <2>3. OccupiedSlots'
    <3>1. \A k : At(k)' = At(k)
      BY <1>3 DEF add_queue, At
    <3>2. {i \in Slot : entry'[i] # Empty} = {i \in Slot : entry[i] # Empty} \cup {tail}
      BY <1>3 DEF IInv, TypeOK, add_queue
    <3>3. 1 .. occupancy' = (1 .. occupancy) \cup {occupancy + 1}
      BY <1>3 DEF IInv, TypeOK, add_queue
    <3> QED
      BY <3>1, <3>2, <3>3 DEF IInv, OccupiedSlots, TailFollows
  <2> QED
    BY <2>1, <2>2, <2>3 DEF IInv
<1>4. ASSUME remove_queue
      PROVE  IInv'
  <2>1. TypeOK'
    BY <1>4 DEF IInv, TypeOK, remove_queue, Slot, Wrapped
  <2>2. \A k \in 1 .. occupancy' + 1 : At(k)' = At(k + 1)
    BY <1>4 DEF IInv, TypeOK, remove_queue, Slot, Wrapped, At
  <2>3. TailFollows'
    BY <1>4, <2>2 DEF IInv, TypeOK, TailFollows, remove_queue
  <2>4. OccupiedSlots'
    <3>1. {i \in Slot : entry'[i] # Empty} = {i \in Slot : entry[i] # Empty} \ {At(1)}
      BY <1>4 DEF IInv, TypeOK, remove_queue, At, Slot
    <3>2. \A k \in 1 .. occupancy : At(k) = At(1) => k = 1
      BY AtIsBijection DEF IInv, TypeOK
    <3>3. {At(k) : k \in 1 .. occupancy} \ {At(1)} = {At(k) : k \in 2 .. occupancy}
      BY <3>2, <1>4 DEF IInv, TypeOK, remove_queue
    <3>4. {At(k) : k \in 2 .. occupancy} = {At(k + 1) : k \in 1 .. occupancy'}
      <4>1. \A k \in 2 .. occupancy : k - 1 \in 1 .. occupancy' /\ k = (k - 1) + 1
        BY <1>4 DEF IInv, TypeOK, remove_queue
      <4>2. \A k \in 1 .. occupancy' : k + 1 \in 2 .. occupancy
        BY <1>4 DEF IInv, TypeOK, remove_queue
      <4> QED
        BY <4>1, <4>2
    <3>5. {At(k + 1) : k \in 1 .. occupancy'} = {At(k)' : k \in 1 .. occupancy'}
      <4>1. \A k \in 1 .. occupancy' : k \in 1 .. occupancy' + 1
        BY <1>4 DEF IInv, TypeOK, remove_queue
      <4> QED
        BY <4>1, <2>2
    <3> QED
      BY <3>1, <3>3, <3>4, <3>5 DEF IInv, OccupiedSlots
  <2> QED
    BY <2>1, <2>3, <2>4 DEF IInv
<1> QED
  BY <1>1, <1>2, <1>3, <1>4 DEF Next

LEMMA Invariant == Spec => []IInv
<1> QED
  BY InitIInv, StepIInv, PTL DEF Spec

-----------------------------------------------------------------------------

(* In every ring head, tail and occupancy are in range.                    *)
THEOREM TypeCorrect == Spec => []TypeOK
  BY Invariant, PTL DEF IInv

(* For every size: the head meets the tail in the empty and the full ring  *)
(* only, so the assertions of add_queue and remove_queue cannot fail for a *)
(* caller that looked at occupancy.                                        *)
THEOREM NeverAsserts == Spec => []AssertionsHold
<1>1. IInv => AssertionsHold
  BY PacketQueueAssumption DEF IInv, TypeOK, TailFollows, AssertionsHold, At, Slot
<1> QED
  BY <1>1, Invariant, PTL

(* For every size: packets stand in the occupied slots and in no other.    *)
THEOREM NoPacketLeftBehind == Spec => []OccupiedSlots
  BY Invariant, PTL DEF IInv

(***************************************************************************)
(* The refinement: the sequence of the packets from the head on.           *)
(***************************************************************************)
Queue == [k \in 1 .. occupancy |-> entry[At(k)]]

Found == IF index = -1 THEN 0
         ELSE IF index >= head THEN index - head + 1
         ELSE index - head + 1 + SIZE

QueueOK == /\ Queue \in Seq(Packet)
           /\ Len(Queue) = occupancy
           /\ \A k \in 1 .. occupancy : Queue[k] = entry[At(k)]

LEMMA QueueIsSeq == IInv => QueueOK
<1> SUFFICES ASSUME IInv PROVE QueueOK
  OBVIOUS
<1>1. \A k \in 1 .. occupancy : entry[At(k)] \in Packet
  <2> TAKE k \in 1 .. occupancy
  <2>1. At(k) \in {i \in Slot : entry[i] # Empty}
    BY DEF IInv, OccupiedSlots
  <2> QED
    BY <2>1 DEF IInv, TypeOK
<1>2. Queue \in [1 .. occupancy -> Packet]
  BY <1>1 DEF Queue
<1>3. occupancy \in Nat
  BY DEF IInv, TypeOK
<1>4. Queue \in Seq(Packet)
  BY <1>2, <1>3, SeqDef
<1>5. DOMAIN Queue = 1 .. occupancy
  BY <1>2
<1>6. Len(Queue) = occupancy
  BY <1>3, <1>4, <1>5, LenProperties
<1> QED
  BY <1>4, <1>6 DEF Queue, QueueOK

LEMMA AddRefines ==
    ASSUME IInv, QueueOK, QueueOK', NEW p \in Packet, add_queue(p)
    PROVE  Len(Queue) < SIZE /\ Queue' = Append(Queue, p)
<1>1. \A k : At(k)' = At(k)
  BY DEF add_queue, At
<1>2. occupancy' = occupancy + 1 /\ occupancy \in Nat
  BY DEF add_queue, IInv, TypeOK
<1>3. Queue' \in Seq(Packet) /\ Len(Queue') = occupancy + 1
  BY <1>2 DEF QueueOK
<1>4. Append(Queue, p) \in Seq(Packet) /\ Len(Append(Queue, p)) = occupancy + 1
  BY AppendProperties DEF QueueOK
<1>5. \A k \in 1 .. occupancy + 1 : Queue'[k] = Append(Queue, p)[k]
  <2> TAKE k \in 1 .. occupancy + 1
  <2>1. Queue'[k] = entry'[At(k)]
    BY <1>1, <1>2 DEF Queue
  <2>2. CASE k = occupancy + 1
    <3>1. entry'[At(k)] = p
      BY <2>2 DEF add_queue, IInv, TypeOK, TailFollows
    <3>2. Append(Queue, p)[k] = p
      BY <2>2, AppendProperties DEF QueueOK
    <3> QED
      BY <2>1, <3>1, <3>2
  <2>3. CASE k \in 1 .. occupancy
    <3>1. At(k) # tail
      <4>1. k \in 1 .. SIZE /\ occupancy + 1 \in 1 .. SIZE /\ k # occupancy + 1
        BY <2>3, PacketQueueAssumption DEF add_queue, IInv, TypeOK
      <4> QED
        BY <4>1, AtIsBijection DEF IInv, TailFollows
    <3>2. entry'[At(k)] = entry[At(k)]
      BY <3>1, <2>3, AtIsBijection DEF add_queue, IInv, TypeOK
    <3>3. Append(Queue, p)[k] = entry[At(k)]
      BY <2>3, AppendProperties DEF QueueOK
    <3> QED
      BY <2>1, <3>2, <3>3
  <2>4. k = occupancy + 1 \/ k \in 1 .. occupancy
    BY <1>2
  <2> QED
    BY <2>2, <2>3, <2>4
<1>6. Queue' = Append(Queue, p)
  BY <1>3, <1>4, <1>5, SeqEqual
<1> QED
  BY <1>6 DEF add_queue, QueueOK

LEMMA RemoveRefines ==
    ASSUME IInv, QueueOK, QueueOK', remove_queue
    PROVE  Queue # <<>> /\ Queue' = Tail(Queue)
<1>1. occupancy' = occupancy - 1 /\ occupancy \in 1 .. SIZE
  BY PacketQueueAssumption DEF remove_queue, IInv, TypeOK
<1>2. Queue # <<>>
  BY <1>1, EmptySeq DEF QueueOK
<1>3. Tail(Queue) \in Seq(Packet) /\ Len(Tail(Queue)) = occupancy - 1
  BY <1>2, HeadTailProperties DEF QueueOK
<1>4. \A k \in 1 .. occupancy - 1 : Queue'[k] = Tail(Queue)[k]
  <2> TAKE k \in 1 .. occupancy - 1
  <2>1. At(k)' = At(k + 1)
    BY <1>1, PacketQueueAssumption DEF remove_queue, IInv, TypeOK, Slot, Wrapped, At
  <2>2. Queue'[k] = entry'[At(k + 1)]
    BY <1>1, <2>1 DEF QueueOK
  <2>3. At(k + 1) # head /\ At(k + 1) \in Slot
    <3>1. k + 1 \in 1 .. SIZE /\ 1 \in 1 .. SIZE /\ k + 1 # 1
      BY <1>1, PacketQueueAssumption
    <3>2. At(1) = head
      BY PacketQueueAssumption DEF IInv, TypeOK, Slot, At
    <3> QED
      BY <3>1, <3>2, AtIsBijection DEF IInv
  <2>4. entry'[At(k + 1)] = entry[At(k + 1)]
    BY <2>3 DEF remove_queue, IInv, TypeOK
  <2>5. Tail(Queue)[k] = Queue[k + 1]
    BY <1>2, <1>3, HeadTailProperties DEF QueueOK
  <2>6. Queue[k + 1] = entry[At(k + 1)]
    <3>1. k + 1 \in 1 .. occupancy
      BY <1>1
    <3> QED
      BY <3>1 DEF QueueOK
  <2> QED
    BY <2>2, <2>4, <2>5, <2>6
<1>5. Queue' = Tail(Queue)
  BY <1>1, <1>3, <1>4, SeqEqual DEF QueueOK
<1> QED
  BY <1>2, <1>5

(* A packet of address a is the k-th oldest. *)
Hit(a, k) == AddressOf[entry[At(k)]] = a

(* The scan of check_queue finds the oldest packet of the address. *)
LEMMA ScanFindsOldest ==
    ASSUME IInv, QueueOK, NEW a \in Address
    PROVE  \/ Scanned(a) = -1 /\ \A k \in 1 .. occupancy : ~ Hit(a, k)
           \/ \E k \in 1 .. occupancy : /\ Scanned(a) = At(k) /\ Hit(a, k)
                                       /\ \A j \in 1 .. k - 1 : ~ Hit(a, j)
<1> USE PacketQueueAssumption
<1>1. \A lo, hi : Matching(a, lo, hi) \in SUBSET Slot
  BY DEF Matching
<1>2. \A k \in 1 .. occupancy : entry[At(k)] \in Packet /\ At(k) \in Slot
  <2> TAKE k \in 1 .. occupancy
  <2>1. At(k) \in {i \in Slot : entry[i] # Empty}
    BY DEF IInv, OccupiedSlots
  <2> QED
    BY <2>1 DEF IInv, TypeOK
<1>3. CASE occupancy = 0
  <2>1. head = tail
    BY <1>3 DEF IInv, TypeOK, TailFollows, At, Slot
  <2> QED
    BY <1>3, <2>1 DEF Scanned
<1>4. CASE head < tail
  <2> DEFINE found == Matching(a, head, tail - 1)
  <2>1. tail = head + occupancy
    BY <1>4 DEF IInv, TypeOK, TailFollows, At, Slot
  <2>2. \A k \in 1 .. occupancy : At(k) = head + k - 1 /\ At(k) \in head .. tail - 1
    BY <2>1 DEF IInv, TypeOK, Slot, At
  <2>3. \A k \in 1 .. occupancy : Hit(a, k) <=> At(k) \in found
    BY <1>2, <2>2 DEF Hit, Matching
  <2>4. \A i \in found : i - head + 1 \in 1 .. occupancy /\ At(i - head + 1) = i
    BY <2>1 DEF Matching, IInv, TypeOK, Slot, At
  <2>5. CASE found = {}
    <3>1. Scanned(a) = -1
      BY <1>4, <2>5 DEF Scanned
    <3> QED
      BY <3>1, <2>3, <2>5
  <2>6. CASE found # {}
    <3>1. Scanned(a) = First(found)
      BY <1>4, <2>6 DEF Scanned, IInv, TypeOK, Slot
    <3>2. First(found) \in found /\ \A j \in found : First(found) <= j
      BY <1>1, <2>6, FirstIsLeast
    <3> DEFINE k == First(found) - head + 1
    <3>3. k \in 1 .. occupancy /\ At(k) = First(found)
      BY <3>2, <2>4
    <3>4. \A j \in 1 .. k - 1 : At(j) < First(found) /\ j \in 1 .. occupancy
      BY <2>2, <3>3 DEF IInv, TypeOK, Slot
    <3>5. \A j \in 1 .. k - 1 : ~ Hit(a, j)
      <4> TAKE j \in 1 .. k - 1
      <4>1. At(j) \in Slot /\ First(found) \in Slot
        BY <1>2, <3>3, <3>4
      <4> QED
        BY <2>3, <3>2, <3>4, <4>1 DEF Slot
    <3>6. Hit(a, k)
      BY <2>3, <3>2, <3>3
    <3> HIDE DEF k
    <3> QED
      BY <3>1, <3>3, <3>5, <3>6
  <2> QED
    BY <2>5, <2>6
<1>5. CASE occupancy # 0 /\ ~ (head < tail)
  <2> DEFINE found == Matching(a, head, SIZE - 1)
  <2> DEFINE wrapped == Matching(a, 0, tail - 1)
  <2> DEFINE last == SIZE - head
  <2>1. tail = head + occupancy - SIZE /\ last \in 1 .. occupancy
    BY <1>5 DEF IInv, TypeOK, TailFollows, At, Slot
  <2>2. \A k \in 1 .. last : At(k) = head + k - 1 /\ At(k) \in head .. SIZE - 1
    BY DEF IInv, TypeOK, Slot, At
  <2>3. \A k \in last + 1 .. occupancy : At(k) = k - last - 1 /\ At(k) \in 0 .. tail - 1
    BY <2>1 DEF IInv, TypeOK, Slot, At
  <2>4. \A k \in 1 .. last : k \in 1 .. occupancy /\ (Hit(a, k) <=> At(k) \in found)
    <3>1. \A k \in 1 .. last : k \in 1 .. occupancy
      BY <2>1 DEF IInv, TypeOK
    <3> QED
      BY <1>2, <2>2, <3>1 DEF Hit, Matching
  <2>5. \A k \in last + 1 .. occupancy :
            k \in 1 .. occupancy /\ (Hit(a, k) <=> At(k) \in wrapped)
    <3>1. \A k \in last + 1 .. occupancy : k \in 1 .. occupancy
      BY <2>1 DEF IInv, TypeOK
    <3> QED
      BY <1>2, <2>3, <3>1 DEF Hit, Matching
  <2>6. \A i \in found : i - head + 1 \in 1 .. last /\ At(i - head + 1) = i
    BY DEF Matching, IInv, TypeOK, Slot, At
  <2>7. \A i \in wrapped : i + last + 1 \in last + 1 .. occupancy /\ At(i + last + 1) = i
    BY <2>1 DEF Matching, IInv, TypeOK, Slot, At
  <2>8. \A k \in 1 .. occupancy : k \in 1 .. last \/ k \in last + 1 .. occupancy
    BY <2>1 DEF IInv, TypeOK
  <2>9. Scanned(a) = IF found # {} THEN First(found)
                     ELSE IF wrapped # {} THEN First(wrapped) ELSE -1
    BY <1>5 DEF Scanned
  <2>10. CASE found # {}
    <3>1. First(found) \in found /\ \A j \in found : First(found) <= j
      BY <1>1, <2>10, FirstIsLeast
    <3> DEFINE k == First(found) - head + 1
    <3>2. k \in 1 .. last /\ At(k) = First(found)
      BY <3>1, <2>6
    <3>3. \A j \in 1 .. k - 1 : At(j) < First(found) /\ j \in 1 .. last
      BY <2>2, <3>2 DEF IInv, TypeOK, Slot
    <3>4. \A j \in 1 .. k - 1 : ~ Hit(a, j)
      <4> TAKE j \in 1 .. k - 1
      <4>1. At(j) \in Slot /\ First(found) \in Slot
        BY <1>2, <2>4, <3>2, <3>3
      <4> QED
        BY <2>4, <3>1, <3>3, <4>1 DEF Slot
    <3>5. Hit(a, k) /\ k \in 1 .. occupancy
      BY <2>4, <3>1, <3>2
    <3> HIDE DEF k
    <3> QED
      BY <2>9, <2>10, <3>2, <3>4, <3>5
  <2>11. CASE found = {} /\ wrapped # {}
    <3>1. First(wrapped) \in wrapped /\ \A j \in wrapped : First(wrapped) <= j
      BY <1>1, <2>11, FirstIsLeast
    <3> DEFINE k == First(wrapped) + last + 1
    <3>2. k \in last + 1 .. occupancy /\ At(k) = First(wrapped)
      BY <3>1, <2>7
    <3>3. \A j \in last + 1 .. k - 1 : At(j) < First(wrapped) /\ j \in last + 1 .. occupancy
      BY <2>1, <2>3, <3>2 DEF IInv, TypeOK, Slot
    <3>4. \A j \in last + 1 .. k - 1 : ~ Hit(a, j)
      <4> TAKE j \in last + 1 .. k - 1
      <4>1. At(j) \in Slot /\ First(wrapped) \in Slot
        BY <1>2, <2>5, <3>2, <3>3
      <4> QED
        BY <2>5, <3>1, <3>3, <4>1 DEF Slot
    <3>5. \A j \in 1 .. last : ~ Hit(a, j)
      BY <2>4, <2>11
    <3>6. \A j \in 1 .. k - 1 : j \in 1 .. last \/ j \in last + 1 .. k - 1
      BY <2>1, <3>2 DEF IInv, TypeOK
    <3>7. Hit(a, k) /\ k \in 1 .. occupancy
      BY <2>5, <3>1, <3>2
    <3> HIDE DEF k
    <3> QED
      BY <2>9, <2>11, <3>2, <3>4, <3>5, <3>6, <3>7
  <2>12. CASE found = {} /\ wrapped = {}
    <3>1. \A k \in 1 .. occupancy : ~ Hit(a, k)
      BY <2>4, <2>5, <2>8, <2>12
    <3> QED
      BY <3>1, <2>9, <2>12
  <2> QED
    BY <2>10, <2>11, <2>12
<1> QED
  BY <1>3, <1>4, <1>5

LEMMA FindRefines ==
    ASSUME IInv, IInv', QueueOK, NEW a \in Address, check_queue(a)
    PROVE  Fifo!Find(a)
<1>1. Queue' = Queue
  BY DEF check_queue, Queue, At
<1>2. \A k \in 1 .. occupancy : Queue[k] = entry[At(k)]
  BY DEF QueueOK
<1>3. \A k : Fifo!Matches(a, k) <=> (k \in 1 .. occupancy /\ Hit(a, k))
  BY <1>2 DEF Fifo!Matches, Hit, Queue, QueueOK
<1>4. index' = Scanned(a) /\ head' = head
  BY DEF check_queue
<1>5. CASE Scanned(a) = -1 /\ \A k \in 1 .. occupancy : ~ Hit(a, k)
  <2>1. Found' = 0
    BY <1>4, <1>5 DEF Found
  <2>2. Found' = 0 /\ \A k \in 1 .. Len(Queue) : ~ Fifo!Matches(a, k)
    BY <1>3, <1>5, <2>1 DEF QueueOK
  <2> QED
    BY <1>1, <2>2 DEF Fifo!Find, Queue, Found
<1>6. ASSUME NEW k \in 1 .. occupancy, Scanned(a) = At(k), Hit(a, k),
             \A j \in 1 .. k - 1 : ~ Hit(a, j)
      PROVE  Fifo!Find(a)
  <2>1. Found' = k
    BY <1>4, <1>6, PacketQueueAssumption DEF Found, At, IInv, TypeOK, Slot
  <2>2. \A j \in 1 .. k - 1 : ~ Fifo!Matches(a, j)
    BY <1>3, <1>6
  <2>3. Fifo!Matches(a, Found') /\ \A j \in 1 .. Found' - 1 : ~ Fifo!Matches(a, j)
    BY <1>3, <1>6, <2>1, <2>2
  <2> QED
    BY <1>1, <2>3 DEF Fifo!Find, Queue, Found
<1> QED
  BY <1>5, <1>6, ScanFindsOldest

LEMMA StepRefines == IInv /\ IInv' /\ QueueOK /\ QueueOK' /\ [Next]_vars
                        => [Fifo!Next]_Fifo!vars
<1> SUFFICES ASSUME IInv, IInv', QueueOK, QueueOK', [Next]_vars
             PROVE  [Fifo!Next]_Fifo!vars
  OBVIOUS
<1>1. CASE UNCHANGED vars
  BY <1>1 DEF vars, Fifo!vars, At
<1>2. ASSUME NEW a \in Address, check_queue(a)
      PROVE  Fifo!Next
  BY <1>2, FindRefines DEF Fifo!Next
<1>3. ASSUME NEW p \in Packet, add_queue(p)
      PROVE  Fifo!Next
  <2>1. Found' = 0
    BY <1>3 DEF add_queue, Found
  <2>2. Fifo!Add(p)
    BY <1>3, <2>1, AddRefines DEF Fifo!Add, Queue, Found
  <2> QED
    BY <2>2 DEF Fifo!Next
<1>4. ASSUME remove_queue
      PROVE  Fifo!Next
  <2>1. Found' = 0
    BY <1>4 DEF remove_queue, Found
  <2>2. Fifo!Remove
    BY <1>4, <2>1, RemoveRefines DEF Fifo!Remove, Queue, Found
  <2> QED
    BY <2>2 DEF Fifo!Next
<1> QED
  BY <1>1, <1>2, <1>3, <1>4 DEF Next

LEMMA InitRefines == Init => Fifo!Init
<1> SUFFICES ASSUME Init PROVE Queue = <<>> /\ Found = 0
  BY DEF Fifo!Init, Queue, Found
<1>1. QueueOK
  BY InitIInv, QueueIsSeq
<1>2. Queue = <<>>
  BY <1>1, EmptySeq DEF QueueOK, Init
<1> QED
  BY <1>2 DEF Found, Init

(* For every size, packets and addresses: the ring implements the bounded  *)
(* FIFO queue, with check_queue finding the oldest packet of an address.   *)
THEOREM RingImplementsFifo == Spec => ImplementsFifo
<1>1. IInv /\ IInv' /\ [Next]_vars => [Fifo!Next]_Fifo!vars
  <2>1. IInv => QueueOK
    BY QueueIsSeq
  <2>2. IInv' => QueueOK'
    BY <2>1, PTL
  <2> QED
    BY <2>1, <2>2, StepRefines
<1> QED
  BY <1>1, InitRefines, Invariant, PTL DEF Spec, ImplementsFifo, Fifo!Spec

-----------------------------------------------------------------------------
(* fastset                                                                 *)

FastSetType == [card : 0 .. SMALL_SIZE, values : Seq(Elem), bits : SUBSET Elem]

Ascending(v) == \A i, j \in DOMAIN v : i < j => v[i] < v[j]

(* A small set is the sorted array of its elements. *)
WellFormed(s) == /\ s \in FastSetType
                 /\ s.card < SMALL_SIZE => Len(s.values) = s.card /\ Ascending(s.values)

(* The elements of an array *)
LEMMA ArrayFacts ==
    ASSUME NEW v \in Seq(Elem)
    PROVE  /\ Len(v) \in Nat /\ DOMAIN v = 1 .. Len(v)
           /\ \A k \in 1 .. Len(v) : v[k] \in Elem /\ v[k] \in Nat
           /\ ToSet(v) = {v[k] : k \in 1 .. Len(v)} /\ ToSet(v) \subseteq Elem
<1>1. Len(v) \in Nat /\ DOMAIN v = 1 .. Len(v) /\ v \in [1 .. Len(v) -> Elem]
  BY LenProperties
<1>2. ToSet(v) = {v[k] : k \in 1 .. Len(v)}
  BY <1>1 DEF ToSet
<1>3. \A k \in 1 .. Len(v) : v[k] \in Elem
  BY <1>1
<1>4. \A x \in Elem : x \in Nat
  BY FastSetAssumption DEF Elem
<1> QED BY <1>1, <1>2, <1>3, <1>4

(* In a sorted array the smaller elements stand first, and counting them   *)
(* finds the place of x.                                                   *)
LEMMA SmallerFirst ==
    ASSUME NEW v \in Seq(Elem), Ascending(v), NEW x \in Elem
    PROVE  \E m \in 0 .. Len(v) :
              /\ Cardinality({k \in 1 .. Len(v) : v[k] < x}) = m
              /\ \A k \in 1 .. Len(v) : v[k] < x <=> k <= m
<1> DEFINE T == {k \in 1 .. Len(v) + 1 : k = Len(v) + 1 \/ ~ (v[k] < x)}
<1>1. /\ Len(v) \in Nat /\ DOMAIN v = 1 .. Len(v)
      /\ \A k \in 1 .. Len(v) : v[k] \in Nat
      /\ x \in Nat
  BY ArrayFacts, FastSetAssumption DEF Elem
<1>2. T \in SUBSET Nat /\ Len(v) + 1 \in T
  BY <1>1
<1>3. PICK p \in T : \A y \in T : p <= y
  BY <1>2, LeastNumber
<1>4. p \in 1 .. Len(v) + 1 /\ p - 1 \in 0 .. Len(v)
  BY <1>1, <1>3
<1>5. \A k \in 1 .. Len(v) : v[k] < x <=> k <= p - 1
  <2> SUFFICES ASSUME NEW k \in 1 .. Len(v) PROVE v[k] < x <=> k <= p - 1
    OBVIOUS
  <2>1. ASSUME ~ (v[k] < x) PROVE ~ (k <= p - 1)
    BY <1>1, <1>3, <2>1
  <2>2. ASSUME v[k] < x, ~ (k <= p - 1) PROVE FALSE
    <3>1. p <= k /\ p # Len(v) + 1 /\ p \in 1 .. Len(v)
      BY <1>1, <1>4, <2>2
    <3>2. ~ (v[p] < x)
      BY <1>3, <3>1
    <3>3. p = k \/ v[p] < v[k]
      BY <1>1, <3>1 DEF Ascending
    <3> QED BY <1>1, <2>2, <3>1, <3>2, <3>3
  <2> QED BY <2>1, <2>2
<1>6. {k \in 1 .. Len(v) : v[k] < x} = 1 .. p - 1
  BY <1>1, <1>4, <1>5
<1>7. Cardinality(1 .. p - 1) = p - 1
  BY <1>4, FS_Interval
<1> QED BY <1>4, <1>5, <1>6, <1>7

(* InsertAt puts an element between others. *)
LEMMA InsertAtPlaces ==
    ASSUME NEW v \in Seq(Elem), NEW x \in Elem, NEW m \in 0 .. Len(v)
    PROVE  /\ InsertAt(v, m + 1, x) \in Seq(Elem)
           /\ Len(InsertAt(v, m + 1, x)) = Len(v) + 1
           /\ \A j \in 1 .. Len(v) + 1 :
                 InsertAt(v, m + 1, x)[j] = IF j <= m THEN v[j] ELSE IF j = m + 1 THEN x ELSE v[j - 1]
<1>1. Len(v) \in Nat /\ \A k \in 1 .. Len(v) : v[k] \in Elem
  BY ArrayFacts
<1> DEFINE front == SubSeq(v, 1, m)
           back == SubSeq(v, m + 1, Len(v))
<1>2. /\ front \in Seq(Elem) /\ Len(front) = m
      /\ \A j \in 1 .. m : front[j] = v[j]
  <2>1. m \in Int /\ \A j \in 1 .. m : v[j] \in Elem
    BY <1>1
  <2>2. /\ front \in Seq(Elem)
        /\ Len(front) = IF 1 <= m THEN m - 1 + 1 ELSE 0
        /\ \A j \in 1 .. m - 1 + 1 : front[j] = v[1 + j - 1]
    BY <2>1, SubSeqProperties
  <2> QED BY <1>1, <2>2
<1>3. /\ back \in Seq(Elem) /\ Len(back) = Len(v) - m
      /\ \A j \in 1 .. Len(v) - m : back[j] = v[m + j]
  <2>1. m + 1 \in Int /\ Len(v) \in Int /\ \A j \in m + 1 .. Len(v) : v[j] \in Elem
    BY <1>1
  <2>2. /\ back \in Seq(Elem)
        /\ Len(back) = IF m + 1 <= Len(v) THEN Len(v) - (m + 1) + 1 ELSE 0
        /\ \A j \in 1 .. Len(v) - (m + 1) + 1 : back[j] = v[(m + 1) + j - 1]
    BY <2>1, SubSeqProperties
  <2> QED BY <1>1, <2>2
<1>4. InsertAt(v, m + 1, x) = (front \o <<x>>) \o back
  <2>1. InsertAt(v, m + 1, x) =
            (SubSeq(v, 1, (m + 1) - 1) \o <<x>>) \o SubSeq(v, m + 1, Len(v))
    BY DEF InsertAt
  <2>2. (m + 1) - 1 = m
    BY <1>1
  <2> QED BY <2>1, <2>2, Zenon
<1> HIDE DEF front, back
<1>5. <<x>> \in Seq(Elem) /\ Len(<<x>>) = 1 /\ <<x>>[1] = x
  OBVIOUS
<1>6. /\ front \o <<x>> \in Seq(Elem) /\ Len(front \o <<x>>) = m + 1
      /\ \A j \in 1 .. m + 1 : (front \o <<x>>)[j] = IF j <= m THEN v[j] ELSE x
  <2>1. /\ front \o <<x>> \in Seq(Elem) /\ Len(front \o <<x>>) = m + 1
        /\ \A j \in 1 .. m + 1 : (front \o <<x>>)[j] = IF j <= m THEN front[j] ELSE <<x>>[j - m]
    BY <1>2, <1>5, ConcatProperties
  <2> QED BY <1>1, <1>2, <1>5, <2>1
<1> DEFINE most == front \o <<x>>
<1> HIDE DEF most
<1>7. /\ most \o back \in Seq(Elem) /\ Len(most \o back) = Len(v) + 1
      /\ \A j \in 1 .. Len(v) + 1 :
            (most \o back)[j] = IF j <= m + 1 THEN most[j] ELSE back[j - (m + 1)]
  <2>1. most \in Seq(Elem) /\ Len(most) = m + 1
    BY <1>6 DEF most
  <2>2. /\ most \o back \in Seq(Elem) /\ Len(most \o back) = Len(most) + Len(back)
        /\ \A j \in 1 .. Len(most) + Len(back) :
              (most \o back)[j] = IF j <= Len(most) THEN most[j] ELSE back[j - Len(most)]
    BY <1>3, <2>1, ConcatProperties
  <2>3. Len(most) + Len(back) = Len(v) + 1
    BY <1>1, <1>3, <2>1
  <2> QED BY <2>1, <2>2, <2>3
<1>8. \A j \in 1 .. Len(v) + 1 :
         (most \o back)[j] = IF j <= m THEN v[j] ELSE IF j = m + 1 THEN x ELSE v[j - 1]
  <2> SUFFICES ASSUME NEW j \in 1 .. Len(v) + 1
               PROVE  (most \o back)[j] = IF j <= m THEN v[j] ELSE IF j = m + 1 THEN x ELSE v[j - 1]
    OBVIOUS
  <2>1. CASE j <= m + 1
    <3>1. (most \o back)[j] = most[j]
      BY <1>7, <2>1
    <3>2. j \in 1 .. m + 1
      BY <1>1, <2>1
    <3>3. most[j] = IF j <= m THEN v[j] ELSE x
      BY <1>6, <3>2 DEF most
    <3> QED BY <1>1, <3>1, <3>2, <3>3
  <2>2. CASE j > m + 1
    <3>1. j - (m + 1) \in 1 .. Len(v) - m /\ m + (j - (m + 1)) = j - 1
      BY <1>1, <2>2
    <3>2. (most \o back)[j] = back[j - (m + 1)]
      BY <1>1, <1>7, <2>2
    <3>3. back[j - (m + 1)] = v[j - 1]
      BY <1>3, <3>1
    <3> QED BY <1>1, <2>2, <3>2, <3>3
  <2>3. j <= m + 1 \/ j > m + 1
    BY <1>1
  <2> QED BY <2>1, <2>2, <2>3, Zenon
<1>9. InsertAt(v, m + 1, x) = most \o back
  BY <1>4 DEF most
<1>10. \A j \in 1 .. Len(v) + 1 :
          InsertAt(v, m + 1, x)[j] = IF j <= m THEN v[j] ELSE IF j = m + 1 THEN x ELSE v[j - 1]
  BY ONLY <1>8, <1>9
<1> QED BY <1>7, <1>9, <1>10

(* insert_small keeps the array sorted and adds the element. *)
LEMMA InsertSmallAdds ==
    ASSUME NEW s \in FastSetType, NEW x \in Elem, s.card < SMALL_SIZE,
           Len(s.values) = s.card, Ascending(s.values)
    PROVE  /\ insert_small(s, x) \in FastSetType
           /\ Len(insert_small(s, x).values) = insert_small(s, x).card
           /\ Ascending(insert_small(s, x).values)
           /\ ToSet(insert_small(s, x).values) = ToSet(s.values) \cup {x}
<1> DEFINE v == s.values
<1>1. /\ v \in Seq(Elem) /\ s.card \in Nat /\ Len(v) = s.card
      /\ s.card \in 0 .. SMALL_SIZE /\ SMALL_SIZE \in Nat
  BY FastSetAssumption DEF FastSetType
<1>2. CASE x \in ToSet(v)
  BY <1>2 DEF insert_small
<1>3. CASE x \notin ToSet(v)
  <2> HIDE DEF v
  <2>1. PICK m \in 0 .. Len(v) :
              /\ Cardinality({k \in 1 .. Len(v) : v[k] < x}) = m
              /\ \A k \in 1 .. Len(v) : v[k] < x <=> k <= m
    BY <1>1, SmallerFirst DEF v
  <2> DEFINE w == InsertAt(v, m + 1, x)
  <2>2. insert_small(s, x) = [s EXCEPT !.values = w, !.card = s.card + 1]
    BY <1>1, <1>3, <2>1 DEF insert_small, v
  <2>3. /\ w \in Seq(Elem) /\ Len(w) = Len(v) + 1
        /\ \A j \in 1 .. Len(v) + 1 :
              w[j] = IF j <= m THEN v[j] ELSE IF j = m + 1 THEN x ELSE v[j - 1]
    BY <1>1, InsertAtPlaces, ZenonT(40)
  <2> HIDE DEF w
  <2>4. /\ insert_small(s, x) \in FastSetType
        /\ insert_small(s, x).values = w /\ insert_small(s, x).card = s.card + 1
    <3>1. s.card + 1 \in 0 .. SMALL_SIZE
      BY <1>1
    <3> QED BY <2>2, <2>3, <3>1 DEF FastSetType
  <2>5. /\ Len(v) \in Nat /\ DOMAIN v = 1 .. Len(v) /\ DOMAIN w = 1 .. Len(v) + 1
        /\ \A k \in 1 .. Len(v) : v[k] \in Nat
        /\ ToSet(v) = {v[k] : k \in 1 .. Len(v)}
        /\ ToSet(w) = {w[k] : k \in 1 .. Len(v) + 1}
        /\ x \in Nat
    <3>1. x \in Nat
      BY FastSetAssumption DEF Elem
    <3> QED BY <1>1, <2>3, <3>1, ArrayFacts
  <2>6. \A k \in 1 .. Len(v) : v[k] # x
    BY <1>3, <2>5
  <2>7. Ascending(w)
    <3> SUFFICES ASSUME NEW i \in 1 .. Len(v) + 1, NEW j \in 1 .. Len(v) + 1, i < j
                 PROVE  w[i] < w[j]
      BY <2>5 DEF Ascending
    <3>1. \A k, n \in 1 .. Len(v) : k < n => v[k] < v[n]
      BY <2>5 DEF Ascending, v
    <3>2. CASE j <= m
      BY <2>3, <2>5, <3>1, <3>2
    <3>3. CASE j = m + 1
      BY <2>1, <2>3, <2>5, <3>3
    <3>4. CASE j > m + 1 /\ i <= m
      BY <2>3, <2>5, <3>1, <3>4
    <3>5. CASE j > m + 1 /\ i = m + 1
      <4>1. j - 1 \in 1 .. Len(v) /\ ~ (v[j - 1] < x) /\ v[j - 1] # x
        BY <2>1, <2>5, <2>6, <3>5
      <4> QED BY <2>3, <2>5, <3>5, <4>1, SMTT(30)
    <3>6. CASE j > m + 1 /\ i > m + 1
      <4>1. j - 1 \in 1 .. Len(v) /\ i - 1 \in 1 .. Len(v) /\ i - 1 < j - 1
        BY <2>1, <2>5, <3>6
      <4> QED BY <2>3, <2>5, <3>1, <3>6, <4>1
    <3> QED BY <2>1, <2>5, <3>2, <3>3, <3>4, <3>5, <3>6
  <2>8. ToSet(w) = ToSet(v) \cup {x}
    <3>1. \A j \in 1 .. Len(v) + 1 : w[j] \in ToSet(v) \cup {x}
      <4> SUFFICES ASSUME NEW j \in 1 .. Len(v) + 1 PROVE w[j] \in ToSet(v) \cup {x}
        OBVIOUS
      <4>1. CASE j <= m
        BY <2>1, <2>3, <2>5, <4>1
      <4>2. CASE j = m + 1
        BY <2>3, <4>2
      <4>3. CASE j > m + 1
        <5>1. j - 1 \in 1 .. Len(v)
          BY <2>1, <2>5, <4>3
        <5> QED BY <2>3, <2>5, <4>3, <5>1
      <4> QED BY <2>1, <2>5, <4>1, <4>2, <4>3
    <3>2. \A k \in 1 .. Len(v) : v[k] \in ToSet(w)
      <4> SUFFICES ASSUME NEW k \in 1 .. Len(v) PROVE v[k] \in ToSet(w)
        OBVIOUS
      <4>1. CASE k <= m
        <5>1. k \in 1 .. Len(v) + 1 /\ w[k] = v[k]
          BY <2>3, <2>5, <4>1
        <5> QED BY <2>5, <5>1
      <4>2. CASE k > m
        <5>1. k + 1 \in 1 .. Len(v) + 1 /\ ~ (k + 1 <= m) /\ k + 1 # m + 1 /\ (k + 1) - 1 = k
          BY <2>1, <2>5, <4>2
        <5>2. w[k + 1] = v[k]
          BY <2>3, <5>1
        <5> QED BY <2>5, <5>1, <5>2
      <4> QED BY <2>1, <2>5, <4>1, <4>2
    <3>3. x \in ToSet(w)
      <4>1. m + 1 \in 1 .. Len(v) + 1 /\ w[m + 1] = x
        BY <2>1, <2>3, <2>5
      <4> QED BY <2>5, <4>1
    <3> QED BY <2>5, <3>1, <3>2, <3>3
  <2> QED BY <1>1, <2>3, <2>4, <2>7, <2>8 DEF v
<1> QED BY <1>2, <1>3

(* insert adds the element and keeps the form. *)
LEMMA InsertAdds ==
    ASSUME NEW s, WellFormed(s), NEW x \in Elem
    PROVE  WellFormed(insert(s, x)) /\ expand(insert(s, x)) = expand(s) \cup {x}
<1>1. /\ s \in FastSetType /\ s.card \in 0 .. SMALL_SIZE /\ s.values \in Seq(Elem)
      /\ s.bits \in SUBSET Elem /\ SMALL_SIZE \in Nat /\ SMALL_SIZE > 1
  BY FastSetAssumption DEF WellFormed, FastSetType
<1>2. CASE s.card = 0
  <2> DEFINE t == [s EXCEPT !.values = <<x>>, !.card = 1]
  <2>1. insert(s, x) = t
    BY <1>2 DEF insert
  <2>2. <<x>> \in Seq(Elem) /\ Len(<<x>>) = 1 /\ ToSet(<<x>>) = {x} /\ Ascending(<<x>>)
    BY DEF ToSet, Ascending
  <2>3. t \in FastSetType /\ t.card = 1 /\ t.values = <<x>>
    <3> DEFINE one == <<x>>
    <3>1. one \in Seq(Elem) /\ 1 \in 0 .. SMALL_SIZE
      BY <1>1, <2>2
    <3>2. t = [s EXCEPT !.values = one, !.card = 1]
      OBVIOUS
    <3> HIDE DEF one, t
    <3>3. t \in FastSetType /\ t.card = 1 /\ t.values = one
      BY <1>1, <3>1, <3>2 DEF FastSetType
    <3> QED BY <3>3 DEF one
  <2> HIDE DEF t
  <2>4. Len(s.values) = 0 /\ s.card < SMALL_SIZE
    BY <1>1, <1>2 DEF WellFormed
  <2>5. ToSet(s.values) = {}
    BY <1>1, <2>4, ArrayFacts
  <2>6. expand(s) = {} /\ expand(t) = {x}
    BY <1>1, <2>2, <2>3, <2>4, <2>5 DEF expand
  <2> QED BY <1>1, <2>1, <2>2, <2>3, <2>6 DEF WellFormed
<1>3. CASE s.card # 0 /\ s.card < SMALL_SIZE
  <2> DEFINE t == insert_small(s, x)
  <2>1. Len(s.values) = s.card /\ Ascending(s.values) /\ expand(s) = ToSet(s.values)
    BY <1>3 DEF WellFormed, expand
  <2>2. /\ t \in FastSetType /\ Len(t.values) = t.card /\ Ascending(t.values)
        /\ ToSet(t.values) = ToSet(s.values) \cup {x}
    BY <1>1, <1>3, <2>1, InsertSmallAdds
  <2>3. insert(s, x) = IF t.card = SMALL_SIZE THEN smalltobit(t) ELSE t
    BY <1>3 DEF insert
  <2> HIDE DEF t
  <2>4. CASE t.card = SMALL_SIZE
    <3> DEFINE u == smalltobit(t)
    <3>1. ToSet(t.values) \in SUBSET Elem /\ <<>> \in Seq(Elem)
      BY <2>2, ArrayFacts DEF FastSetType
    <3>2. u \in FastSetType /\ u.card = SMALL_SIZE /\ u.bits = ToSet(t.values)
      BY <2>2, <2>4, <3>1 DEF smalltobit, FastSetType
    <3>3. insert(s, x) = u
      BY <2>3, <2>4
    <3> HIDE DEF u
    <3>4. WellFormed(u) /\ expand(u) = u.bits
      BY <1>1, <3>2 DEF WellFormed, expand
    <3> QED BY <2>1, <2>2, <3>2, <3>3, <3>4
  <2>5. CASE t.card # SMALL_SIZE
    <3>1. t.card < SMALL_SIZE
      BY <1>1, <2>2, <2>5 DEF FastSetType
    <3> QED BY <2>1, <2>2, <2>3, <2>5, <3>1 DEF WellFormed, expand
  <2> QED BY <2>4, <2>5
<1>4. CASE ~ (s.card < SMALL_SIZE)
  <2> DEFINE t == [s EXCEPT !.bits = s.bits \cup {x}]
  <2>1. insert(s, x) = t
    BY <1>1, <1>4 DEF insert
  <2>2. t \in FastSetType /\ t.card = s.card /\ t.bits = s.bits \cup {x}
    <3>1. s.bits \cup {x} \in SUBSET Elem
      BY <1>1
    <3> HIDE DEF t
    <3>2. t = [s EXCEPT !.bits = s.bits \cup {x}]
      BY DEF t
    <3> QED BY <1>1, <3>1, <3>2 DEF FastSetType
  <2> HIDE DEF t
  <2> QED BY <1>4, <2>1, <2>2 DEF WellFormed, expand
<1> QED BY <1>1, <1>2, <1>3, <1>4

(* after[k] is the set with the first k elements of an array inserted. *)
Inserting(s, values, after, n) ==
    after = [k \in 0 .. n |-> IF k = 0 THEN s ELSE insert(after[k - 1], values[k])]

(* There is such a function. *)
LEMMA InsertingExists ==
    ASSUME NEW s, NEW values, NEW n \in Nat
    PROVE  \E after : Inserting(s, values, after, n)
<1> DEFINE T == {k \in Nat : ~ \E after : Inserting(s, values, after, k)}
<1>1. SUFFICES ASSUME T # {} PROVE FALSE
  OBVIOUS
<1>2. PICK k \in T : \A y \in T : k <= y
  BY <1>1, LeastNumber
<1>3. k \in Nat /\ ~ \E after : Inserting(s, values, after, k)
  OBVIOUS
<1>4. CASE k = 0
  <2> DEFINE f == [j \in 0 .. 0 |-> s]
  <2>1. f = [j \in 0 .. 0 |-> IF j = 0 THEN s ELSE insert(f[j - 1], values[j])]
    OBVIOUS
  <2> QED BY <1>3, <1>4, <2>1 DEF Inserting
<1>5. CASE k # 0
  <2>1. k - 1 \in Nat /\ k - 1 \notin T
    BY <1>2, <1>3, <1>5
  <2>2. PICK f : Inserting(s, values, f, k - 1)
    BY <2>1
  <2> DEFINE g == [j \in 0 .. k |-> IF j = k THEN insert(f[k - 1], values[k]) ELSE f[j]]
  <2>3. \A j \in 0 .. k : g[j] = IF j = 0 THEN s ELSE insert(g[j - 1], values[j])
    <3> SUFFICES ASSUME NEW j \in 0 .. k
                 PROVE  g[j] = IF j = 0 THEN s ELSE insert(g[j - 1], values[j])
      OBVIOUS
    <3>1. CASE j = k
      <4>1. g[k] = insert(f[k - 1], values[k]) /\ g[k - 1] = f[k - 1]
        BY <1>3, <1>5
      <4> QED BY <1>5, <3>1, <4>1
    <3>2. CASE j # k /\ j = 0
      BY <1>3, <2>1, <2>2, <3>2 DEF Inserting
    <3>3. CASE j # k /\ j # 0
      <4>1. j \in 0 .. k - 1 /\ j - 1 \in 0 .. k - 1 /\ j - 1 # k /\ j - 1 \in 0 .. k
        BY <1>3, <3>3
      <4>2. g[j] = f[j] /\ g[j - 1] = f[j - 1]
        BY <3>3, <4>1
      <4>3. f[j] = insert(f[j - 1], values[j])
        BY <2>2, <3>3, <4>1 DEF Inserting
      <4> QED BY <3>3, <4>2, <4>3
    <3> QED BY <3>1, <3>2, <3>3
  <2>4. g = [j \in 0 .. k |-> g[j]]
    OBVIOUS
  <2> HIDE DEF g
  <2>5. Inserting(s, values, g, k)
    BY <2>3, <2>4 DEF Inserting
  <2> QED BY <1>3, <2>5
<1> QED BY <1>4, <1>5

(* insert_each is the last value of such a function. *)
LEMMA InsertEachIs ==
    ASSUME NEW s, NEW values, Len(values) \in Nat
    PROVE  \E after : /\ Inserting(s, values, after, Len(values))
                      /\ insert_each(s, values) = after[Len(values)]
<1> DEFINE after == CHOOSE f : Inserting(s, values, f, Len(values))
<1>1. Inserting(s, values, after, Len(values))
  BY InsertingExists, Zenon
<1>2. insert_each(s, values) = after[Len(values)]
  BY DEF insert_each, Inserting
<1> QED BY <1>1, <1>2, Zenon

(* Inserting the elements of an array adds them. *)
LEMMA InsertEachAdds ==
    ASSUME NEW s, WellFormed(s), NEW v \in Seq(Elem)
    PROVE  /\ WellFormed(insert_each(s, v))
           /\ expand(insert_each(s, v)) = expand(s) \cup ToSet(v)
<1>1. /\ Len(v) \in Nat /\ \A k \in 1 .. Len(v) : v[k] \in Elem
      /\ ToSet(v) = {v[k] : k \in 1 .. Len(v)}
  BY ArrayFacts
<1>2. PICK after : /\ Inserting(s, v, after, Len(v))
                   /\ insert_each(s, v) = after[Len(v)]
  BY <1>1, InsertEachIs
<1> DEFINE Good(k) == /\ WellFormed(after[k])
                      /\ expand(after[k]) = expand(s) \cup {v[j] : j \in 1 .. k}
           T == {k \in 0 .. Len(v) : ~ Good(k)}
<1>3. \A k \in 0 .. Len(v) : Good(k)
  <2>1. SUFFICES ASSUME T # {} PROVE FALSE
    OBVIOUS
  <2>2. PICK k \in T : \A y \in T : k <= y
    <3>1. T \in SUBSET Nat
      BY <1>1
    <3> QED BY <2>1, <3>1, LeastNumber
  <2>3. k \in 0 .. Len(v) /\ ~ Good(k)
    BY <2>2
  <2>4. CASE k = 0
    <3>1. after[0] = s
      BY <1>1, <1>2 DEF Inserting
    <3>2. {v[j] : j \in 1 .. 0} = {}
      OBVIOUS
    <3> QED BY <2>3, <2>4, <3>1, <3>2
  <2>5. CASE k # 0
    <3>1. k - 1 \in 0 .. Len(v) /\ k - 1 \notin T /\ k \in 1 .. Len(v)
      BY <1>1, <2>2, <2>3, <2>5
    <3>2. Good(k - 1)
      BY <3>1
    <3>3. after[k] = insert(after[k - 1], v[k]) /\ v[k] \in Elem
      BY <1>1, <1>2, <2>3, <2>5, <3>1 DEF Inserting
    <3>4. /\ WellFormed(after[k])
          /\ expand(after[k]) = expand(after[k - 1]) \cup {v[k]}
      BY <3>2, <3>3, InsertAdds
    <3>5. {v[j] : j \in 1 .. k} = {v[j] : j \in 1 .. k - 1} \cup {v[k]}
      BY <1>1, <3>1
    <3> QED BY <2>3, <3>2, <3>4, <3>5
  <2> QED BY <2>4, <2>5
<1>4. Good(Len(v))
  BY <1>1, <1>3
<1> QED BY <1>1, <1>2, <1>4

(* join adds the elements of the other set and keeps the form. *)
LEMMA JoinAdds ==
    ASSUME NEW s, NEW other, WellFormed(s), WellFormed(other)
    PROVE  WellFormed(join(s, other)) /\ expand(join(s, other)) = expand(s) \cup expand(other)
<1>1. /\ s \in FastSetType /\ s.card \in 0 .. SMALL_SIZE /\ s.values \in Seq(Elem)
      /\ s.bits \in SUBSET Elem /\ other.bits \in SUBSET Elem /\ other.values \in Seq(Elem)
      /\ SMALL_SIZE \in Nat
  BY FastSetAssumption DEF WellFormed, FastSetType
<1>2. CASE other.card < SMALL_SIZE
  BY <1>1, <1>2, InsertEachAdds DEF join, expand
<1>3. CASE ~ (other.card < SMALL_SIZE) /\ s.card < SMALL_SIZE
  <2> DEFINE u == [smalltobit(s) EXCEPT !.card = SMALL_SIZE, !.bits = @ \cup other.bits]
  <2>1. join(s, other) = u
    BY <1>3 DEF join
  <2>2. ToSet(s.values) \in SUBSET Elem /\ <<>> \in Seq(Elem)
    BY <1>1, ArrayFacts
  <2>3. /\ smalltobit(s) \in FastSetType /\ smalltobit(s).bits = ToSet(s.values)
    BY <1>1, <2>2 DEF smalltobit, FastSetType
  <2>4. ToSet(s.values) \cup other.bits \in SUBSET Elem /\ SMALL_SIZE \in 0 .. SMALL_SIZE
    BY <1>1, <2>2
  <2>5. u \in FastSetType /\ u.card = SMALL_SIZE /\ u.bits = ToSet(s.values) \cup other.bits
    BY <2>3, <2>4 DEF FastSetType
  <2> HIDE DEF u
  <2>6. WellFormed(u) /\ expand(u) = u.bits
    BY <1>1, <2>5 DEF WellFormed, expand
  <2> QED BY <1>3, <2>1, <2>5, <2>6 DEF expand
<1>4. CASE ~ (other.card < SMALL_SIZE) /\ ~ (s.card < SMALL_SIZE)
  <2> DEFINE u == [s EXCEPT !.bits = s.bits \cup other.bits]
  <2>1. join(s, other) = u
    BY <1>4 DEF join
  <2>2. s.bits \cup other.bits \in SUBSET Elem
    BY <1>1
  <2>3. u \in FastSetType /\ u.card = s.card /\ u.bits = s.bits \cup other.bits
    BY <1>1, <2>2 DEF FastSetType
  <2> HIDE DEF u
  <2> QED BY <1>4, <2>1, <2>3 DEF WellFormed, expand
<1> QED BY <1>2, <1>3, <1>4

(* The binary search                                                       *)

Windows(s) == {w \in (0 .. s.card) \X (0 .. s.card) : w[1] + w[2] <= s.card}

(* x stands in the window. *)
Inside(s, x, w) == \E i \in 1 .. s.card : w[1] < i /\ i <= w[1] + w[2] /\ s.values[i] = x

Middle(w) == (w[1] + w[1] + w[2] - 1) \div 2

(* One step of the search, whatever the answers for smaller windows *)
Step(s, x, w, found) ==
    /\ w[2] # 0
    /\ IF x < s.values[Middle(w) + 1] THEN found[<<w[1], Middle(w) - w[1]>>]
       ELSE IF x > s.values[Middle(w) + 1]
            THEN found[<<Middle(w) + 1, w[1] + w[2] - 1 - Middle(w)>>]
       ELSE TRUE

(* The windows a step goes on with are smaller windows of the array. *)
LEMMA Narrower ==
    ASSUME NEW s, s.card \in Nat, NEW w \in Windows(s), w[2] # 0
    PROVE  /\ Middle(w) \in Nat /\ w[1] <= Middle(w) /\ Middle(w) < w[1] + w[2]
           /\ Middle(w) + 1 \in 1 .. s.card
           /\ <<w[1], Middle(w) - w[1]>> \in Windows(s) /\ Middle(w) - w[1] < w[2]
           /\ <<Middle(w) + 1, w[1] + w[2] - 1 - Middle(w)>> \in Windows(s)
           /\ w[1] + w[2] - 1 - Middle(w) < w[2]
<1>1. /\ w[1] \in Nat /\ w[2] \in Nat /\ w[1] + w[2] <= s.card /\ w[2] > 0
  BY DEF Windows
<1> DEFINE m == Middle(w)
<1>2. m \in Nat /\ w[1] <= m /\ m < w[1] + w[2]
  BY <1>1 DEF Middle
<1> HIDE DEF m
<1>3. /\ m + 1 \in 1 .. s.card /\ m + 1 \in 0 .. s.card
      /\ w[1] \in 0 .. s.card /\ m - w[1] \in 0 .. s.card /\ m - w[1] < w[2]
      /\ w[1] + (m - w[1]) <= s.card
      /\ w[1] + w[2] - 1 - m \in 0 .. s.card /\ w[1] + w[2] - 1 - m < w[2]
      /\ (m + 1) + (w[1] + w[2] - 1 - m) <= s.card
  BY <1>1, <1>2
<1>4. <<w[1], m - w[1]>> \in Windows(s)
  BY <1>3 DEF Windows
<1>5. <<m + 1, w[1] + w[2] - 1 - m>> \in Windows(s)
  BY <1>3 DEF Windows
<1> QED BY <1>2, <1>3, <1>4, <1>5 DEF m

(* A step finds x in its window when its smaller windows do so.            *)
LEMMA StepFinds ==
    ASSUME NEW s \in FastSetType, Len(s.values) = s.card, Ascending(s.values),
           NEW x \in Elem, NEW found, NEW w \in Windows(s),
           \A u \in Windows(s) : u[2] < w[2] => (found[u] <=> Inside(s, x, u))
    PROVE  Step(s, x, w, found) <=> Inside(s, x, w)
<1>1. /\ s.card \in Nat /\ x \in Nat /\ s.values \in Seq(Elem)
      /\ w[1] \in Nat /\ w[2] \in Nat /\ w[1] + w[2] <= s.card
  BY FastSetAssumption DEF FastSetType, Elem, Windows
<1>2. /\ \A i \in 1 .. s.card : s.values[i] \in Nat
      /\ DOMAIN s.values = 1 .. s.card
  BY <1>1, ArrayFacts
<1>3. CASE w[2] = 0
  <2>1. ~ Inside(s, x, w)
    BY <1>1, <1>3 DEF Inside
  <2> QED BY <1>3, <2>1 DEF Step
<1>4. CASE w[2] # 0
  <2> DEFINE m == Middle(w)
             left == <<w[1], m - w[1]>>
             right == <<m + 1, w[1] + w[2] - 1 - m>>
             y == s.values[m + 1]
  <2>1. /\ m \in Nat /\ w[1] <= m /\ m < w[1] + w[2] /\ m + 1 \in 1 .. s.card
        /\ left \in Windows(s) /\ left[2] < w[2] /\ right \in Windows(s) /\ right[2] < w[2]
    BY <1>1, <1>4, Narrower
  <2>2. /\ left[1] = w[1] /\ left[2] = m - w[1]
        /\ right[1] = m + 1 /\ right[2] = w[1] + w[2] - 1 - m
    OBVIOUS
  <2>3. Step(s, x, w, found) <=>
           IF x < y THEN found[left] ELSE IF x > y THEN found[right] ELSE TRUE
    BY <1>4 DEF Step
  <2> HIDE DEF m, left, right
  <2>4. y \in Nat /\ \A i \in 1 .. s.card : /\ i < m + 1 => s.values[i] < y
                                            /\ i > m + 1 => y < s.values[i]
    BY <1>2, <2>1 DEF Ascending
  <2> HIDE DEF y
  <2>5. CASE x < y
    <3>1. Inside(s, x, w) => Inside(s, x, left)
      <4> SUFFICES ASSUME NEW i \in 1 .. s.card, w[1] < i, i <= w[1] + w[2], s.values[i] = x
                   PROVE  w[1] < i /\ i <= w[1] + (m - w[1])
        BY <2>2, Zenon DEF Inside
      <4> QED BY <1>1, <1>2, <2>1, <2>4, <2>5, SMTT(30) DEF y
    <3>2. Inside(s, x, left) => Inside(s, x, w)
      <4> SUFFICES ASSUME NEW i \in 1 .. s.card, w[1] < i, i <= w[1] + (m - w[1]), s.values[i] = x
                   PROVE  w[1] < i /\ i <= w[1] + w[2]
        BY <2>2, Zenon DEF Inside
      <4> QED BY <1>1, <2>1
    <3>3. found[left] <=> Inside(s, x, left)
      BY <2>1
    <3> QED BY <2>3, <2>5, <3>1, <3>2, <3>3
  <2>6. CASE x > y
    <3>1. Inside(s, x, w) => Inside(s, x, right)
      <4> SUFFICES ASSUME NEW i \in 1 .. s.card, w[1] < i, i <= w[1] + w[2], s.values[i] = x
                   PROVE  right[1] < i /\ i <= right[1] + right[2]
        BY Zenon DEF Inside
      <4>1. i \in Nat /\ i # m + 1
        BY <1>1, <2>4, <2>6 DEF y
      <4>2. ~ (i < m + 1)
        <5>1. i < m + 1 => s.values[i] < y
          BY <2>4
        <5>2. ~ (x < y)
          BY <1>1, <2>4, <2>6
        <5> QED BY <5>1, <5>2
      <4>3. m + 1 < i
        BY <2>1, <4>1, <4>2
      <4>4. i <= (m + 1) + (w[1] + w[2] - 1 - m)
        BY <1>1, <2>1, <4>1, SMTT(30)
      <4> QED BY <2>2, <4>3, <4>4
    <3>2. Inside(s, x, right) => Inside(s, x, w)
      <4> SUFFICES ASSUME NEW i \in 1 .. s.card, m + 1 < i,
                          i <= (m + 1) + (w[1] + w[2] - 1 - m), s.values[i] = x
                   PROVE  w[1] < i /\ i <= w[1] + w[2]
        BY <2>2, Zenon DEF Inside
      <4> QED BY <1>1, <2>1, SMTT(30)
    <3>3. found[right] <=> Inside(s, x, right)
      BY <2>1
    <3>4. ~ (x < y)
      BY <1>1, <2>4, <2>6
    <3> QED BY <2>3, <2>6, <3>1, <3>2, <3>3, <3>4
  <2>7. CASE x = y
    <3>1. ~ (x < y) /\ ~ (x > y)
      BY <1>1, <2>7
    <3>2. w[1] < m + 1 /\ m + 1 <= w[1] + w[2] /\ s.values[m + 1] = x
      BY <1>1, <2>1, <2>7 DEF y
    <3>3. Inside(s, x, w)
      BY <2>1, <3>2 DEF Inside
    <3> QED BY <2>3, <3>1, <3>3
  <2>8. x < y \/ x > y \/ x = y
    BY <1>1, <2>4
  <2> QED BY <2>5, <2>6, <2>7, <2>8
<1> QED BY <1>3, <1>4

(* found is what the binary search answers for each window. *)
Searching(s, x, found) == found = [w \in Windows(s) |-> Step(s, x, w, found)]

(* There is such a function, and it finds x where x stands. *)
LEMMA SearchingFinds ==
    ASSUME NEW s \in FastSetType, Len(s.values) = s.card, Ascending(s.values), NEW x \in Elem
    PROVE  /\ \E found : Searching(s, x, found)
           /\ \A found : Searching(s, x, found) =>
                 \A w \in Windows(s) : found[w] <=> Inside(s, x, w)
<1>1. \E found : Searching(s, x, found)
  <2> DEFINE f == [w \in Windows(s) |-> Inside(s, x, w)]
  <2>1. \A w \in Windows(s) : f[w] = Inside(s, x, w)
    OBVIOUS
  <2>2. \A w \in Windows(s) : Step(s, x, w, f) <=> Inside(s, x, w)
    <3> SUFFICES ASSUME NEW w \in Windows(s) PROVE Step(s, x, w, f) <=> Inside(s, x, w)
      OBVIOUS
    <3> HIDE DEF f
    <3> QED BY <2>1, StepFinds
  <2>3. \A w \in Windows(s) : Step(s, x, w, f) = Inside(s, x, w)
    BY <2>2 DEF Step, Inside
  <2>4. f = [w \in Windows(s) |-> Step(s, x, w, f)]
    BY <2>3
  <2> HIDE DEF f
  <2> QED BY <2>4, Zenon DEF Searching
<1>2. ASSUME NEW found, Searching(s, x, found), NEW v \in Windows(s)
      PROVE  found[v] <=> Inside(s, x, v)
  <2>1. \A w \in Windows(s) : w[2] \in Nat /\ (found[w] <=> Step(s, x, w, found))
    <3>1. \A w \in Windows(s) : found[w] = Step(s, x, w, found)
      BY <1>2, Zenon DEF Searching
    <3>2. \A w \in Windows(s) : w[2] \in Nat
      BY DEF Windows
    <3> QED BY <3>1, <3>2
  <2> DEFINE T == {n \in Nat : \E w \in Windows(s) : w[2] = n /\ ~ (found[w] <=> Inside(s, x, w))}
  <2>2. SUFFICES ASSUME T # {} PROVE FALSE
    BY <1>2, <2>1
  <2>3. PICK n \in T : \A k \in T : n <= k
    BY <2>2, LeastNumber
  <2>4. PICK w \in Windows(s) : w[2] = n /\ ~ (found[w] <=> Inside(s, x, w))
    OBVIOUS
  <2>5. \A u \in Windows(s) : u[2] < w[2] => (found[u] <=> Inside(s, x, u))
    BY <2>1, <2>3, <2>4
  <2>6. Step(s, x, w, found) <=> Inside(s, x, w)
    BY <2>5, StepFinds
  <2> QED BY <2>1, <2>4, <2>6
<1> QED BY <1>1, <1>2

(* The binary search finds x in a sorted array when it is there. *)
LEMMA BisectFinds ==
    ASSUME NEW s \in FastSetType, Len(s.values) = s.card, Ascending(s.values), NEW x \in Elem
    PROVE  bisect(s, x) <=> x \in ToSet(s.values)
<1> DEFINE found == CHOOSE f : Searching(s, x, f)
<1>1. Searching(s, x, found)
  BY SearchingFinds, Zenon
<1>2. bisect(s, x) = found[<<0, s.card>>]
  BY DEF bisect, Searching, Step, Windows, Middle
<1> HIDE DEF found
<1>3. s.card \in Nat /\ <<0, s.card>> \in Windows(s)
  BY FastSetAssumption DEF Windows, FastSetType
<1>4. found[<<0, s.card>>] <=> Inside(s, x, <<0, s.card>>)
  BY <1>1, <1>3, SearchingFinds
<1>5. s.values \in Seq(Elem)
  BY DEF FastSetType
<1>6. ToSet(s.values) = {s.values[k] : k \in 1 .. s.card}
  BY <1>5, ArrayFacts
<1>7. Inside(s, x, <<0, s.card>>) <=> x \in ToSet(s.values)
  BY <1>3, <1>6 DEF Inside
<1> QED BY <1>2, <1>4, <1>7

(* search answers membership in the set, in each of its forms. *)
LEMMA SearchFinds ==
    ASSUME NEW s, WellFormed(s), NEW x \in Elem
    PROVE  search(s, x) <=> x \in expand(s)
<1>1. /\ s \in FastSetType /\ s.card \in Nat /\ s.values \in Seq(Elem)
      /\ SMALL_SIZE \in Nat /\ SMALL_SIZE > 1 /\ SMALLER_SIZE \in Nat /\ SMALLER_SIZE <= SMALL_SIZE
      /\ x \in Nat
  BY FastSetAssumption DEF WellFormed, FastSetType, Elem
<1>2. CASE s.card < SMALL_SIZE
  <2>1. Len(s.values) = s.card /\ Ascending(s.values)
    BY <1>2 DEF WellFormed
  <2>2. /\ expand(s) = {s.values[k] : k \in 1 .. s.card}
        /\ DOMAIN s.values = 1 .. s.card /\ \A k \in 1 .. s.card : s.values[k] \in Nat
    BY <1>1, <1>2, <2>1, ArrayFacts DEF expand
  <2>3. CASE s.card = 0
    BY <2>2, <2>3 DEF search
  <2>4. CASE s.card = 1
    <3>1. search(s, x) <=> s.values[1] = x
      BY <2>4 DEF search
    <3> QED BY <2>2, <2>4, <3>1
  <2>5. CASE s.card > 1 /\ s.card < SMALLER_SIZE
    <3>1. search(s, x) <=> search_small_linear(s, x)
      BY <1>1, <2>5 DEF search
    <3>2. search_small_linear(s, x) => x \in expand(s)
      BY <2>2 DEF search_small_linear
    <3>3. ASSUME NEW k \in 1 .. s.card, s.values[k] = x
          PROVE  \A j \in 1 .. k - 1 : s.values[j] < x
      <4> SUFFICES ASSUME NEW j \in 1 .. k - 1 PROVE s.values[j] < x
        OBVIOUS
      <4>1. j \in 1 .. s.card /\ j < k
        BY <1>1
      <4> QED BY <2>1, <2>2, <3>3, <4>1 DEF Ascending
    <3>4. x \in expand(s) => search_small_linear(s, x)
      BY <2>2, <3>3 DEF search_small_linear
    <3> QED BY <3>1, <3>2, <3>4
  <2>6. CASE s.card > 1 /\ ~ (s.card < SMALLER_SIZE)
    <3>1. search(s, x) <=> bisect(s, x)
      BY <1>1, <1>2, <2>6 DEF search
    <3>2. bisect(s, x) <=> x \in ToSet(s.values)
      BY <1>1, <2>1, BisectFinds
    <3> QED BY <1>2, <3>1, <3>2 DEF expand
  <2> QED BY <1>1, <2>3, <2>4, <2>5, <2>6
<1>3. CASE ~ (s.card < SMALL_SIZE)
  <2>1. s.card # 0 /\ s.card # 1 /\ ~ (s.card < SMALLER_SIZE)
    BY <1>1, <1>3
  <2> QED BY <1>3, <2>1 DEF search, expand
<1> QED BY <1>2, <1>3

-----------------------------------------------------------------------------
(* Each set has its form and holds what was put in. *)
SetInv == /\ fs = [n \in Names |-> fs[n]] /\ mem = [n \in Names |-> mem[n]]
          /\ \A n \in Names : WellFormed(fs[n]) /\ expand(fs[n]) = mem[n]

(* A set acts as the set of the indices inserted into it or joined to it.  *)
THEOREM SetsAct == SetSpec => []ActsAsSet
<1>1. SetInit => SetInv
  <2> SUFFICES ASSUME SetInit PROVE SetInv
    OBVIOUS
  <2>1. WellFormed(NewSet) /\ expand(NewSet) = {}
    <3>1. /\ NewSet.card = 0 /\ NewSet.values = <<>> /\ NewSet.bits = {}
          /\ 0 < SMALL_SIZE /\ SMALL_SIZE \in Nat
      BY FastSetAssumption DEF NewSet
    <3>2. <<>> \in Seq(Elem) /\ Len(<<>>) = 0
      OBVIOUS
    <3>3. ToSet(<<>>) = {} /\ Ascending(<<>>)
      BY DEF ToSet, Ascending
    <3>4. NewSet \in FastSetType
      BY <3>1, <3>2 DEF NewSet, FastSetType
    <3> QED BY <3>1, <3>2, <3>3, <3>4 DEF WellFormed, expand
  <2> QED BY <2>1 DEF SetInit, SetInv
<1>2. SetInv /\ [SetNext]_setVars => SetInv'
  <2> SUFFICES ASSUME SetInv, [SetNext]_setVars PROVE SetInv'
    OBVIOUS
  <2>1. ASSUME NEW n \in Names, NEW x \in Elem, Insert(n, x) PROVE SetInv'
    <3>1. WellFormed(insert(fs[n], x)) /\ expand(insert(fs[n], x)) = mem[n] \cup {x}
      BY InsertAdds DEF SetInv
    <3>2. /\ fs' = [fs EXCEPT ![n] = insert(fs[n], x)]
          /\ mem' = [mem EXCEPT ![n] = mem[n] \cup {x}]
      BY <2>1 DEF Insert
    <3> QED BY <3>1, <3>2 DEF SetInv
  <2>2. ASSUME NEW n \in Names, NEW o \in Names, Join(n, o) PROVE SetInv'
    <3>1. WellFormed(join(fs[n], fs[o])) /\ expand(join(fs[n], fs[o])) = mem[n] \cup mem[o]
      BY JoinAdds DEF SetInv
    <3>2. /\ fs' = [fs EXCEPT ![n] = join(fs[n], fs[o])]
          /\ mem' = [mem EXCEPT ![n] = mem[n] \cup mem[o]]
      BY <2>2 DEF Join
    <3> QED BY <3>1, <3>2 DEF SetInv
  <2>3. CASE UNCHANGED setVars
    <3>1. fs' = fs /\ mem' = mem
      BY <2>3 DEF setVars
    <3> QED BY <3>1 DEF SetInv
  <2> QED BY <2>1, <2>2, <2>3 DEF SetNext
<1>3. SetInv => ActsAsSet
  BY SearchFinds DEF SetInv, ActsAsSet
<1> QED BY <1>1, <1>2, <1>3, PTL DEF SetSpec

=============================================================================
