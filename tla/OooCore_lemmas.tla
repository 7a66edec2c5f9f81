--------------------------- MODULE OooCore_lemmas ---------------------------
(***************************************************************************)
(* The inductive invariant of OooCore, for every trace and every size of   *)
(* the ROB, the load queue and the store queue: a part for the ring of     *)
(* entries, one for the registers, and one each for the load queue, the    *)
(* store queue, the data of loads and the counters.  All actions but those *)
(* of OooCore_proofs are shown to preserve it here.                        *)
(***************************************************************************)
EXTENDS OooCore, FiniteSetTheorems, SequenceTheorems, WellFoundedInduction, TLAPS

Phase == {"NO", "INFLIGHT", "COMPLETED"}

EntryType ==
    [instr_id : Int, instr : Instruction, scheduled : Phase, executed : Phase,
     reg_ready : BOOLEAN, num_reg_dependent : Int,
     registers_depend_on_me : SUBSET (RobIndex \X Source),
     memory_instrs_depend_on_me : SUBSET RobIndex, num_mem_ops : Int,
     lq_index : [Source -> LqIndex \cup {None}],
     sq_index : [Destination -> SqIndex \cup {None}],
     expects : [Source -> Int], value : [Source -> Int]]
LoadType == [instr_id : Int, address : Addr \cup {NoAddr}, rob_index : RobIndex,
             data_index : Source, producer_id : Int, fetched : Phase]
StoreType == [instr_id : Int, address : Addr \cup {NoAddr}, rob_index : RobIndex,
              fetched : Phase]

In(q, p) == \E m \in DOMAIN q : q[m] = p
Distinct(f) == \A m, n \in DOMAIN f : f[m] = f[n] => m = n

RobTyped == /\ rob \in [RobIndex -> EntryType]
            /\ next \in Nat /\ retired \in Nat
            /\ rte0 \in Seq(RobIndex) /\ rte1 \in Seq(RobIndex)
            /\ inflight \in [reg : Int, mem : Int]
            /\ last_store \in [Addr -> Int] /\ memory \in [Addr -> Int]
QueuesTyped == /\ lq \in [LqIndex -> LoadType] /\ lq_occupancy \in Int
               /\ rtl0 \in Seq(LqIndex)
               /\ sq \in [SqIndex -> StoreType] /\ sq_tail \in SqIndex
               /\ sq_occupancy \in Int
               /\ sta \in Seq(Int) /\ rts0 \in Seq(SqIndex)

Blank(e) == /\ e.instr_id = None /\ e.instr = NoInstruction
            /\ e.scheduled = "NO" /\ e.executed = "NO"

(* The entries in use stand one after another from the head on. *)
Ring == /\ retired <= next /\ next <= retired + ROB_SIZE
        /\ \A i \in RobIndex : IF Age(i) < next - retired
                               THEN rob[i].instr_id = retired + Age(i)
                               ELSE Blank(rob[i])

-----------------------------------------------------------------------------
(* Registers *)

RegWriters(i, j) ==
    {p \in Before(i) : rob[i].instr.source_registers[j] \in rob[p].instr.destination_registers}

(* The dependences entry i waits for *)
DepsOf(i) == {d \in RobIndex \X Source :
                 /\ d[1] \in Before(i) /\ Used(d[1]) /\ rob[d[1]].executed # "COMPLETED"
                 /\ <<i, d[2]>> \in rob[d[1]].registers_depend_on_me}

Registered ==
    \A p, i \in RobIndex : \A j \in Source : <<i, j>> \in rob[p].registers_depend_on_me =>
        p \in Before(i) /\ Used(i) /\ rob[i].scheduled # "NO"

NearestKnown ==
    \A i \in RobIndex : \A j \in Source :
        (Used(i) /\ rob[i].scheduled # "NO" /\ RegWriters(i, j) # {}
         /\ rob[Nearest(RegWriters(i, j))].executed # "COMPLETED")
            => <<i, j>> \in rob[Nearest(RegWriters(i, j))].registers_depend_on_me

DependencesCounted ==
    \A i \in RobIndex : rob[i].num_reg_dependent = Cardinality(DepsOf(i))

Phases ==
    \A i \in RobIndex :
        /\ rob[i].reg_ready <=> rob[i].scheduled # "NO" /\ rob[i].num_reg_dependent = 0
        /\ Started(rob[i]) => rob[i].reg_ready
        /\ ~ is_memory(rob[i]) => rob[i].scheduled # "INFLIGHT"
        /\ is_memory(rob[i]) /\ Used(i) =>
              /\ rob[i].scheduled = "COMPLETED" <=> AllAdded(rob[i])
              /\ rob[i].executed # "NO" <=> rob[i].scheduled = "COMPLETED"
        /\ rob[i].executed = "COMPLETED" => rob[i].num_mem_ops = 0

ReadyToExecute(i) == /\ Used(i) /\ ~ is_memory(rob[i])
                     /\ rob[i].reg_ready /\ rob[i].executed = "NO"

ReadyQueues == /\ \A p \in RobIndex : In(rte0, p) \/ In(rte1, p) => ReadyToExecute(p)
               /\ Distinct(rte0) /\ Distinct(rte1)
               /\ \A p \in RobIndex : ~ (In(rte0, p) /\ In(rte1, p))

RegCounted == inflight.reg = Cardinality({i \in RobIndex : ~ is_memory(rob[i])
                                             /\ rob[i].executed = "INFLIGHT"})

-----------------------------------------------------------------------------
(* The load and the store queue: `r`, `q` and `s` stand for rob, lq and sq *)
(* while do_memory_scheduling adds one operand after another.              *)

LoadSlots(r, q) ==
    \A l \in LqIndex :
        IF q[l].address = NoAddr THEN q[l] = FreeLoad
        ELSE LET e == r[q[l].rob_index]
             IN  /\ e.instr_id = q[l].instr_id /\ e.instr_id # None
                 /\ e.lq_index[q[l].data_index] = l
                 /\ e.instr.source_memory[q[l].data_index] = q[l].address
                 /\ q[l].fetched # "COMPLETED"

LoadIndices(r) ==
    \A i \in RobIndex : \A j \in Source :
        r[i].lq_index[j] # None => r[i].instr.source_memory[j] # NoAddr

ReadyLoads(q, t) == /\ Distinct(t)
                    /\ \A m \in DOMAIN t : /\ q[t[m]].address # NoAddr
                                           /\ q[t[m]].producer_id = None
                                           /\ q[t[m]].fetched = "NO"

StoreSlots(r, s) ==
    \A k \in SqIndex :
        IF s[k].address = NoAddr THEN s[k] = FreeStore
        ELSE /\ \E j \in Destination : r[s[k].rob_index].sq_index[j] = k
             /\ s[k].fetched # "INFLIGHT"

StoreIndices(r, s) ==
    \A i \in RobIndex : \A j \in Destination :
        r[i].sq_index[j] # None =>
            LET k == r[i].sq_index[j]
            IN  /\ r[i].instr.destination_memory[j] = s[k].address /\ s[k].address # NoAddr
                /\ s[k].rob_index = i /\ s[k].instr_id = r[i].instr_id
                /\ \A d \in Destination : r[i].sq_index[d] = k => d = j

ReadyStores(s, t) == /\ Distinct(t)
                     /\ \A m \in DOMAIN t : s[t[m]].address # NoAddr /\ s[t[m]].fetched = "NO"

(* How far back from the tail of the store queue a slot is *)
Back(k, t) == (t - 1 - k) % SQ_SIZE

(* The slots in use stand one after another up to the tail, in the order   *)
(* of the trace, and those of STA come after them.                         *)
StoreOrder(s, t, n, a) ==
    /\ 0 <= n /\ n <= SQ_SIZE
    /\ \A k \in SqIndex : s[k].address # NoAddr <=> Back(k, t) < n
    /\ \A k, m \in SqIndex : Back(k, t) < Back(m, t) /\ Back(m, t) < n
                                => s[m].instr_id <= s[k].instr_id
    /\ \A x, y \in DOMAIN a : x < y => a[x] <= a[y]
    /\ \A x \in DOMAIN a : /\ a[x] < next
                           /\ \A k \in SqIndex : s[k].address # NoAddr => s[k].instr_id <= a[x]

-----------------------------------------------------------------------------
(* Data and counters *)

StoreWriters(i, a) == {p \in Before(i) : Writes(rob[p], a)}
AllWriters(a) == {p \in RobIndex : Writes(rob[p], a)}

(* What a load must get, and what the next one must get *)
Expected ==
    \A i \in RobIndex : \A j \in Source :
        LET a == rob[i].instr.source_memory[j]
        IN  a # NoAddr =>
              rob[i].expects[j] = IF StoreWriters(i, a) = {} THEN memory[a]
                                  ELSE rob[Nearest(StoreWriters(i, a))].instr_id
LastStores ==
    \A a \in Addr : last_store[a] = IF AllWriters(a) = {} THEN memory[a]
                                    ELSE rob[Nearest(AllWriters(a))].instr_id

LoadOut(r, q, i, j) ==
    /\ r[i].instr.source_memory[j] # NoAddr
    /\ r[i].lq_index[j] # None => /\ q[r[i].lq_index[j]].instr_id = r[i].instr_id
                                  /\ q[r[i].lq_index[j]].data_index = j
StoreOut(r, s, i, j) ==
    /\ r[i].instr.destination_memory[j] # NoAddr
    /\ r[i].sq_index[j] # None => s[r[i].sq_index[j]].fetched = "NO"

Values(r, q) ==
    \A i \in RobIndex : \A j \in Source :
        (r[i].instr.source_memory[j] # NoAddr /\ ~ LoadOut(r, q, i, j))
            => r[i].value[j] = r[i].expects[j]

OperationsCounted(r, q, s) ==
    \A i \in RobIndex : r[i].num_mem_ops = Cardinality({j \in Source : LoadOut(r, q, i, j)})
                                   + Cardinality({j \in Destination : StoreOut(r, s, i, j)})

(* A load that waits is in the list of the nearest store to its address,   *)
(* which has not executed; the others have no store before them.           *)
Producers(r, q, s) ==
    \A l \in LqIndex : q[l].address # NoAddr =>
        LET d == q[l].rob_index
            a == q[l].address
            p == Nearest(StoreWriters(d, a))
        IN  IF q[l].producer_id = None THEN StoreWriters(d, a) = {}
            ELSE /\ StoreWriters(d, a) # {} /\ q[l].producer_id = rob[p].instr_id
                 /\ d \in r[p].memory_instrs_depend_on_me
                 /\ q[l].fetched = "NO"
                 /\ \A j \in Destination : rob[p].instr.destination_memory[j] = a
                                             => StoreOut(r, s, p, j)

MemoryListed(r) ==
    \A p, d \in RobIndex : d \in r[p].memory_instrs_depend_on_me => p \in Before(d) /\ Used(d)

MemCounted == inflight.mem = Cardinality({i \in RobIndex : is_memory(rob[i])
                                    /\ rob[i].num_mem_ops = 0 /\ rob[i].executed = "INFLIGHT"})

SlotsCounted(q, n) == n = Cardinality({l \in LqIndex : q[l].address # NoAddr})

Failures == failed \subseteq {"producer_id"}

RegInv == Registered /\ NearestKnown /\ DependencesCounted /\ Phases /\ ReadyQueues /\ RegCounted
LoadInv == /\ LoadSlots(rob, lq) /\ LoadIndices(rob) /\ ReadyLoads(lq, rtl0)
           /\ SlotsCounted(lq, lq_occupancy)
StoreInv == /\ StoreSlots(rob, sq) /\ StoreIndices(rob, sq) /\ ReadyStores(sq, rts0)
            /\ StoreOrder(sq, sq_tail, sq_occupancy, sta)
DataInv == /\ Expected /\ LastStores /\ Values(rob, lq) /\ OperationsCounted(rob, lq, sq)
           /\ Producers(rob, lq, sq) /\ MemoryListed(rob) /\ MemCounted

IInv == RobTyped /\ QueuesTyped /\ Ring /\ RegInv /\ LoadInv /\ StoreInv /\ DataInv /\ Failures

-----------------------------------------------------------------------------
(* Arithmetic of rings *)

(* A remainder is an index of the ring.                                    *)
LEMMA ModRange == ASSUME NEW N \in Nat \ {0}, NEW a \in Int PROVE a % N \in 0 .. N - 1
OBVIOUS

(* Division with remainder                                                 *)
LEMMA DivMod ==
    ASSUME NEW N \in Nat \ {0}, NEW a \in Int
    PROVE  \E q \in Int : a = N * q + (a % N)
<1>1. (a \div N) \in Int /\ a = N * (a \div N) + (a % N)
  OBVIOUS
<1> QED BY <1>1

(* A multiple of N between -N and N is 0.                                  *)
LEMMA SmallMultiple ==
    ASSUME NEW N \in Nat \ {0}, NEW q \in Int, NEW r \in Int, -N < r, r < N, N * q = r
    PROVE  q = 0 /\ r = 0
<1>1. CASE q >= 1
  <2>1. N * q >= N
    BY <1>1
  <2> QED BY <2>1
<1>2. CASE q <= -1
  <2>1. N * q <= -N
    BY <1>2
  <2> QED BY <2>1
<1> QED BY <1>1, <1>2

(* The remainder is the only number of the range that differs from a by a  *)
(* multiple of N.                                                          *)
LEMMA ModIs ==
    ASSUME NEW N \in Nat \ {0}, NEW a \in Int, NEW q \in Int, NEW r \in 0 .. N - 1,
           a = N * q + r
    PROVE  a % N = r
<1> DEFINE m == a % N
<1>1. PICK p \in Int : a = N * p + m
  BY DivMod
<1>2. m \in 0 .. N - 1
  BY ModRange
<1> HIDE DEF m
<1>3. N * (p - q) = r - m
  BY <1>1, <1>2
<1>4. p - q \in Int /\ r - m \in Int /\ -N < r - m /\ r - m < N
  BY <1>1, <1>2
<1>5. r - m = 0
  BY <1>3, <1>4, SmallMultiple
<1> QED BY <1>2, <1>5 DEF m

(* Two numbers less than N apart have different remainders.                *)
LEMMA ModInjective ==
    ASSUME NEW N \in Nat \ {0}, NEW a \in Int, NEW b \in Int, a % N = b % N,
           -N < a - b, a - b < N
    PROVE  a = b
<1> DEFINE m == a % N
<1>1. PICK p \in Int : a = N * p + m
  BY DivMod
<1>2. PICK q \in Int : b = N * q + m
  BY DivMod
<1>3. m \in 0 .. N - 1
  BY ModRange
<1> HIDE DEF m
<1>4. N * (p - q) = a - b
  BY <1>1, <1>2, <1>3
<1>5. p - q \in Int /\ a - b \in Int
  BY <1>1, <1>2
<1>6. a - b = 0
  BY <1>4, <1>5, SmallMultiple
<1> QED BY <1>6

(* Subtracting a remainder is as good as subtracting the number. *)
LEMMA ModMinus ==
    ASSUME NEW N \in Nat \ {0}, NEW i \in Int, NEW s \in Int
    PROVE  (i - (s % N)) % N = (i - s) % N
<1> DEFINE h == s % N
           k == (i - s) % N
           c == i - s
           d == i - h
<1>1. PICK p \in Int : s = N * p + h
  BY DivMod
<1>2. h \in 0 .. N - 1 /\ c \in Int /\ k \in 0 .. N - 1
  BY ModRange
<1>3. PICK q \in Int : c = N * q + k
  BY <1>2, DivMod
<1> HIDE DEF h, k
<1>4. d = N * (p + q) + k /\ p + q \in Int /\ d \in Int
  BY <1>1, <1>2, <1>3
<1> HIDE DEF d
<1>5. d % N = k
  BY <1>2, <1>4, ModIs
<1> QED BY <1>5 DEF d, h, k

(* Once around the ring is no move.                                        *)
LEMMA ModShift ==
    ASSUME NEW N \in Nat \ {0}, NEW a \in Int
    PROVE  (a + N) % N = a % N
<1> DEFINE k == a % N
           b == a + N
<1>1. k \in 0 .. N - 1
  BY ModRange
<1>2. PICK q \in Int : a = N * q + k
  BY DivMod
<1> HIDE DEF k
<1>3. b = N * (q + 1) + k /\ q + 1 \in Int /\ b \in Int
  BY <1>1, <1>2
<1> HIDE DEF b
<1>4. b % N = k
  BY <1>1, <1>3, ModIs
<1> QED BY <1>4 DEF b, k

(* An index is its own remainder.                                          *)
LEMMA ModSmall == ASSUME NEW N \in Nat \ {0}, NEW a \in 0 .. N - 1 PROVE a % N = a
<1>1. a = N * 0 + a /\ a \in Int
  OBVIOUS
<1> QED BY <1>1, ModIs

(* One step further, or round to the start *)
LEMMA ModNext ==
    ASSUME NEW N \in Nat \ {0}, NEW a \in Int
    PROVE  (a + 1) % N = IF a % N = N - 1 THEN 0 ELSE (a % N) + 1
<1> DEFINE k == a % N
           b == a + 1
<1>1. k \in 0 .. N - 1
  BY ModRange
<1>2. PICK q \in Int : a = N * q + k
  BY DivMod
<1> HIDE DEF k
<1>3. CASE k = N - 1
  <2>1. b = N * (q + 1) + 0 /\ q + 1 \in Int /\ b \in Int /\ 0 \in 0 .. N - 1
    BY <1>1, <1>2, <1>3
  <2> HIDE DEF b
  <2>2. b % N = 0
    BY <2>1, ModIs
  <2> QED BY <1>3, <2>2 DEF b, k
<1>4. CASE k # N - 1
  <2>1. b = N * q + (k + 1) /\ b \in Int /\ k + 1 \in 0 .. N - 1
    BY <1>1, <1>2, <1>4
  <2> DEFINE r == k + 1
  <2> HIDE DEF b, r
  <2>2. b % N = r
    BY <1>2, <2>1, ModIs DEF r
  <2> QED BY <1>4, <2>2 DEF b, k, r
<1> QED BY <1>3, <1>4

(* The sizes are positive and the index sets finite.                       *)
LEMMA Sizes ==
    /\ ROB_SIZE \in Nat \ {0} /\ LQ_SIZE \in Nat \ {0} /\ SQ_SIZE \in Nat \ {0}
    /\ RobIndex \subseteq Nat /\ LqIndex \subseteq Nat /\ SqIndex \subseteq Nat
    /\ IsFiniteSet(RobIndex) /\ IsFiniteSet(LqIndex) /\ IsFiniteSet(SqIndex)
    /\ Cardinality(RobIndex) = ROB_SIZE
<1>1. ROB_SIZE \in Nat \ {0} /\ LQ_SIZE \in Nat \ {0} /\ SQ_SIZE \in Nat \ {0}
  BY CoreAssumption
<1>2. \A n \in Nat : n - 1 \in Int /\ 0 \in Int
  OBVIOUS
<1>3. \A n \in Nat : IsFiniteSet(0 .. n - 1) /\ Cardinality(0 .. n - 1) = n
  BY <1>2, FS_Interval
<1>4. \A n \in Nat : 0 .. n - 1 \subseteq Nat
  OBVIOUS
<1> QED BY <1>1, <1>3, <1>4 DEF RobIndex, LqIndex, SqIndex

(* An age is an index: the distance from the entry retired next.           *)
LEMMA AgeIs ==
    ASSUME retired \in Nat, NEW i \in RobIndex
    PROVE  Age(i) \in RobIndex /\ Age(i) = (i - retired) % ROB_SIZE
<1>1. i \in Int /\ ROB_SIZE \in Nat \ {0} /\ retired \in Int
  BY Sizes
<1>2. Age(i) = (i - retired) % ROB_SIZE
  BY <1>1, ModMinus DEF Age, head
<1> DEFINE d == i - retired
<1>3. d \in Int
  BY <1>1
<1> HIDE DEF d
<1>4. d % ROB_SIZE \in 0 .. ROB_SIZE - 1
  BY <1>1, <1>3, ModRange
<1> QED BY <1>2, <1>4 DEF d, RobIndex

(* No two entries have the same age.                                       *)
LEMMA AgeInjective ==
    ASSUME retired \in Nat, NEW i \in RobIndex, NEW j \in RobIndex, Age(i) = Age(j)
    PROVE  i = j
<1> DEFINE a == i - retired
           b == j - retired
<1>1. /\ a \in Int /\ b \in Int /\ ROB_SIZE \in Nat \ {0}
      /\ -ROB_SIZE < a - b /\ a - b < ROB_SIZE
  BY Sizes DEF RobIndex
<1>2. a % ROB_SIZE = b % ROB_SIZE
  BY AgeIs
<1> HIDE DEF a, b
<1>3. a = b
  BY <1>1, <1>2, ModInjective
<1> QED BY <1>3, Sizes DEF a, b, RobIndex

(* Where the instruction with a given number stands *)
LEMMA PlaceOf ==
    ASSUME retired \in Nat, NEW n \in Nat, retired <= n, n < retired + ROB_SIZE
    PROVE  (n % ROB_SIZE) \in RobIndex /\ Age(n % ROB_SIZE) = n - retired
<1> DEFINE p == n % ROB_SIZE
           c == p - retired
           k == n - retired
<1>0. ROB_SIZE \in Nat \ {0}
  BY Sizes
<1>1. p \in RobIndex
  BY <1>0, ModRange DEF RobIndex
<1>6. n \in Int
  OBVIOUS
<1>2. PICK q \in Int : n = ROB_SIZE * q + p
  BY <1>0, <1>6, DivMod
<1> HIDE DEF p
<1>3. k \in 0 .. ROB_SIZE - 1 /\ p \in Int
  BY <1>0, <1>1 DEF RobIndex
<1>4. c = ROB_SIZE * (-q) + k /\ -q \in Int /\ c \in Int
  BY <1>0, <1>2, <1>3
<1> HIDE DEF c, k
<1>5. c % ROB_SIZE = k
  BY <1>0, <1>3, <1>4, ModIs
<1> QED BY <1>1, <1>5, AgeIs DEF c, k, p

(* The head is the oldest entry.                                           *)
LEMMA HeadAge == ASSUME retired \in Nat PROVE head \in RobIndex /\ Age(head) = 0
<1>1. retired < retired + ROB_SIZE
  BY Sizes
<1> QED BY <1>1, PlaceOf DEF head

(* The entry filled next is as old as there are instructions in the ROB.   *)
LEMMA TailAge ==
    ASSUME retired \in Nat, next \in Nat, retired <= next, next < retired + ROB_SIZE
    PROVE  tail \in RobIndex /\ Age(tail) = next - retired
BY PlaceOf DEF tail

(* Ages only change when an instruction retires.                           *)
LEMMA AgeKept == ASSUME UNCHANGED retired PROVE \A i : Age(i)' = Age(i)
BY DEF Age, head

(* Retirement makes the head the youngest place and moves the others up.   *)
LEMMA AgeRetired ==
    ASSUME retired \in Nat, retired' = retired + 1, NEW i \in RobIndex
    PROVE  Age(i)' = IF i = head THEN ROB_SIZE - 1 ELSE Age(i) - 1
<1>0. ROB_SIZE \in Nat \ {0} /\ i \in Int
  BY Sizes
<1> DEFINE c == i - (retired + 1)
           h == retired + 1
<1>1. Age(i)' = (i - (h % ROB_SIZE)) % ROB_SIZE
  BY DEF Age, head
<1>2. c \in Int /\ h \in Int /\ c = i - h
  BY <1>0
<1> HIDE DEF h
<1>3. Age(i)' = c % ROB_SIZE
  BY <1>0, <1>1, <1>2, ModMinus, ZenonT(40)
<1>4. Age(i) = (c + 1) % ROB_SIZE
  <2>1. c + 1 = i - retired
    BY <1>0
  <2> QED BY <2>1, AgeIs
<1> HIDE DEF c
<1> DEFINE m == c % ROB_SIZE
<1>5. Age(i) = IF m = ROB_SIZE - 1 THEN 0 ELSE m + 1
  BY <1>0, <1>2, <1>4, ModNext
<1>6. m \in 0 .. ROB_SIZE - 1
  BY <1>0, <1>2, ModRange
<1> HIDE DEF m
<1>7. i = head <=> Age(i) = 0
  BY HeadAge, AgeInjective
<1> QED BY <1>0, <1>3, <1>5, <1>6, <1>7 DEF m

-----------------------------------------------------------------------------
(* Sets of entries *)

(* Every non-empty set of numbers has a least element.                     *)
LEMMA LeastOfNat ==
    ASSUME NEW S \in SUBSET Nat, S # {}
    PROVE  \E x \in S : \A y \in S : x <= y
<1> DEFINE R == {ss \in Nat \X Nat : ss[1] < ss[2]}
<1>1. IsWellFoundedOn(R, Nat)
  BY NatLessThanWellFounded DEF OpToRel
<1> HIDE DEF R
<1>2. \E x \in S : \A y \in S : ~ (<<y, x>> \in R)
  BY <1>1, WFMin
<1>3. \A x, y \in Nat : ~ (<<y, x>> \in R) => x <= y
  <2> SUFFICES ASSUME NEW x \in Nat, NEW y \in Nat, y < x PROVE <<y, x>> \in R
    OBVIOUS
  <2>1. <<y, x>> \in Nat \X Nat /\ <<y, x>>[1] = y /\ <<y, x>>[2] = x
    OBVIOUS
  <2> QED BY <2>1 DEF R
<1> QED BY <1>2, <1>3

(* Min finds the least number.                                             *)
LEMMA MinIsLeast ==
    ASSUME NEW S \in SUBSET Nat, S # {} PROVE Min(S) \in S /\ \A y \in S : Min(S) <= y
BY LeastOfNat DEF Min

(* Nearest finds the entry of greatest age. *)
LEMMA NearestIs ==
    ASSUME retired \in Nat, NEW S \in SUBSET RobIndex, S # {}
    PROVE  /\ Nearest(S) \in S
           /\ \A o \in S : Age(o) <= Age(Nearest(S))
<1> DEFINE T == {ROB_SIZE - Age(o) : o \in S}
<1>1. \A o \in S : Age(o) \in 0 .. ROB_SIZE - 1
  BY AgeIs DEF RobIndex
<1>7. \A n \in 0 .. ROB_SIZE - 1 : ROB_SIZE - n \in Nat
  BY Sizes
<1>2. T \in SUBSET Nat /\ T # {}
  BY <1>1, <1>7
<1>3. PICK x \in T : \A y \in T : x <= y
  BY <1>2, LeastOfNat
<1>4. PICK p \in S : x = ROB_SIZE - Age(p)
  BY <1>3
<1>5. \A o \in S : ROB_SIZE - Age(p) <= ROB_SIZE - Age(o)
  BY <1>3, <1>4
<1>6. \A o \in S : Age(o) <= Age(p)
  BY <1>1, <1>5, Sizes
<1> QED BY <1>6 DEF Nearest

(* Only one entry of a set has the greatest age.                           *)
LEMMA NearestUnique ==
    ASSUME retired \in Nat, NEW S \in SUBSET RobIndex, NEW p \in S,
           \A o \in S : Age(o) <= Age(p)
    PROVE  Nearest(S) = p
<1>1. Nearest(S) \in S /\ \A o \in S : Age(o) <= Age(Nearest(S))
  BY NearestIs
<1>2. Age(p) \in Nat /\ Age(Nearest(S)) \in Nat
  BY <1>1, AgeIs, Sizes
<1>3. Age(p) = Age(Nearest(S))
  BY <1>1, <1>2
<1> QED BY <1>1, <1>3, AgeInjective

(* The nearest entry only changes when an instruction retires.             *)
LEMMA NearestKept ==
    ASSUME UNCHANGED retired, NEW S PROVE Nearest(S)' = Nearest(S)
BY AgeKept DEF Nearest

(* The elements of a set of entries in ascending order *)
LEMMA AscendingIs ==
    ASSUME NEW S \in SUBSET RobIndex
    PROVE  /\ Cardinality(S) \in Nat
           /\ Ascending(S) \in [1 .. Cardinality(S) -> S]
           /\ \A m, n \in 1 .. Cardinality(S) : Ascending(S)[m] = Ascending(S)[n] => m = n
           /\ \A x \in S : \E m \in 1 .. Cardinality(S) : Ascending(S)[m] = x
<1> DEFINE c == Cardinality(S)
           Below(x) == {y \in S : y < x}
           rank == [x \in S |-> Cardinality(Below(x)) + 1]
<1>1. S \subseteq Nat /\ IsFiniteSet(S) /\ c \in Nat
  BY Sizes, FS_Subset, FS_CardinalityType
<1>2. \A x \in S : IsFiniteSet(Below(x)) /\ Cardinality(Below(x)) \in 0 .. c - 1
  <2> SUFFICES ASSUME NEW x \in S
               PROVE  IsFiniteSet(Below(x)) /\ Cardinality(Below(x)) \in 0 .. c - 1
    OBVIOUS
  <2>1. x \notin Below(x)
    BY <1>1
  <2>2. Below(x) \in SUBSET (S \ {x})
    BY <2>1
  <2>3. IsFiniteSet(S \ {x}) /\ Cardinality(S \ {x}) = c - 1
    BY <1>1, FS_RemoveElement
  <2> HIDE DEF Below
  <2>4. IsFiniteSet(Below(x)) /\ Cardinality(Below(x)) <= c - 1
    BY <2>2, <2>3, FS_Subset
  <2>5. Cardinality(Below(x)) \in Nat
    BY <2>4, FS_CardinalityType
  <2> QED BY <1>1, <2>4, <2>5
<1>3. ASSUME NEW x \in S, NEW y \in S, x < y
      PROVE  Cardinality(Below(x)) < Cardinality(Below(y))
  <2>0. x \in Nat /\ y \in Nat /\ \A z \in S : z \in Nat
    BY <1>1
  <2>6. \A z \in S : z < x => z < y
    BY <2>0, <1>3
  <2>7. x \in Below(y) /\ x \notin Below(x)
    BY <2>0, <1>3
  <2>1. Below(x) \in SUBSET Below(y) /\ x \in Below(y) /\ x \notin Below(x)
    BY <2>6, <2>7
  <2>2. Below(x) # Below(y)
    BY <2>1
  <2>3. IsFiniteSet(Below(y)) /\ IsFiniteSet(Below(x))
    BY <1>2
  <2> HIDE DEF Below
  <2>4. Cardinality(Below(x)) <= Cardinality(Below(y)) /\ Cardinality(Below(x)) # Cardinality(Below(y))
    BY <2>1, <2>2, <2>3, FS_Subset
  <2> QED BY <1>2, <2>4
<1> HIDE DEF Below
<1>4. /\ rank \in [S -> 1 .. c]
      /\ \A x, y \in S : x < y => rank[x] < rank[y]
  <2>1. \A x \in S : rank[x] \in 1 .. c
    BY <1>1, <1>2
  <2>2. \A x, y \in S : x < y => rank[x] < rank[y]
    BY <1>2, <1>3
  <2> QED BY <2>1, <2>2
<1> HIDE DEF rank
<1>5. \A x, y \in S : rank[x] = rank[y] => x = y
  <2>1. \A x \in S : rank[x] \in Nat /\ x \in Nat
    BY <1>1, <1>4
  <2> QED BY <1>4, <2>1
<1>6. IsFiniteSet(1 .. c) /\ Cardinality(1 .. c) = c
  BY <1>1, FS_Interval
<1>7. rank \in Injection(S, 1 .. c)
  BY <1>4, <1>5 DEF Injection, IsInjective
<1> DEFINE T == 1 .. c
<1>8. rank \in Surjection(S, T)
  <2>1. rank \in Injection(S, T) /\ IsFiniteSet(T) /\ Cardinality(S) = Cardinality(T)
    BY <1>6, <1>7
  <2> HIDE DEF T, c
  <2> QED BY <2>1, FS_Injection
<1>9. \A m \in 1 .. c : \E x \in S : rank[x] = m
  BY <1>8 DEF Surjection
<1> DEFINE f == [m \in 1 .. c |-> CHOOSE x \in S : rank[x] = m]
<1>10. f \in [1 .. c -> S] /\ \A m \in 1 .. c : rank[f[m]] = m
  BY <1>9
<1> HIDE DEF f
<1>11. \A m, n \in DOMAIN f : m < n => f[m] < f[n]
  <2> SUFFICES ASSUME NEW m \in 1 .. c, NEW n \in 1 .. c, m < n PROVE f[m] < f[n]
    BY <1>10
  <2>1. f[m] \in S /\ f[n] \in S /\ rank[f[m]] = m /\ rank[f[n]] = n
    BY <1>10
  <2>2. f[m] \in Nat /\ f[n] \in Nat
    BY <1>1, <2>1
  <2>4. m \in Nat /\ n \in Nat
    BY <1>1
  <2>5. f[n] < f[m] => n < m
    BY <1>4, <2>1
  <2>3. f[m] # f[n] /\ ~ (f[n] < f[m])
    BY <2>1, <2>4, <2>5
  <2> QED BY <2>2, <2>3
<1> DEFINE g == Ascending(S)
<1>12. g \in [1 .. c -> S] /\ \A m, n \in DOMAIN g : m < n => g[m] < g[n]
  BY <1>10, <1>11 DEF Ascending
<1> HIDE DEF g
<1>13. \A m, n \in 1 .. c : g[m] = g[n] => m = n
  <2> SUFFICES ASSUME NEW m \in 1 .. c, NEW n \in 1 .. c, m # n PROVE g[m] # g[n]
    OBVIOUS
  <2>1. m < n \/ n < m
    BY <1>1
  <2>2. g[m] \in Nat /\ g[n] \in Nat
    BY <1>1, <1>12
  <2>3. g[m] < g[n] \/ g[n] < g[m]
    BY <1>12, <2>1
  <2> QED BY <2>2, <2>3
<1>14. g \in Surjection(T, S)
  <2>1. g \in Injection(T, S)
    BY <1>12, <1>13 DEF Injection, IsInjective
  <2>2. IsFiniteSet(T) /\ Cardinality(T) = Cardinality(S) /\ IsFiniteSet(S)
    BY <1>1, <1>6
  <2> HIDE DEF T, c
  <2> QED BY <2>1, <2>2, FS_Injection
<1>15. \A x \in S : \E m \in 1 .. c : g[m] = x
  BY <1>14 DEF Surjection
<1> QED BY <1>1, <1>12, <1>13, <1>15 DEF g

-----------------------------------------------------------------------------
(* What an entry keeps *)

SameInstr(d, e) == d.instr_id = e.instr_id /\ d.instr = e.instr

SameDeps(d, e) ==
    /\ SameInstr(d, e)
    /\ d.num_reg_dependent = e.num_reg_dependent
    /\ d.registers_depend_on_me = e.registers_depend_on_me
    /\ d.scheduled = "NO" <=> e.scheduled = "NO"
    /\ d.executed = "COMPLETED" <=> e.executed = "COMPLETED"

SameRegs(d, e) == /\ SameDeps(d, e)
                  /\ d.reg_ready <=> e.reg_ready
                  /\ ~ is_memory(d) => d.executed = e.executed

SameMem(d, e) ==
    /\ SameInstr(d, e)
    /\ d.memory_instrs_depend_on_me = e.memory_instrs_depend_on_me
    /\ d.num_mem_ops = e.num_mem_ops
    /\ d.lq_index = e.lq_index /\ d.sq_index = e.sq_index
    /\ d.expects = e.expects /\ d.value = e.value

(* What an entry reads and writes depends on its instruction alone.        *)
LEMMA SameMemoryKind ==
    ASSUME NEW d, NEW e, SameInstr(d, e)
    PROVE  /\ is_memory(d) <=> is_memory(e)
           /\ \A a : Writes(d, a) <=> Writes(e, a)
BY DEF SameInstr, is_memory, Writes

(* The older entries only change when an instruction retires.              *)
LEMMA BeforeKept ==
    ASSUME UNCHANGED retired PROVE \A i : Before(i)' = Before(i)
BY AgeKept DEF Before

(* The sets the dependences are taken from *)
LEMMA SameWriters ==
    ASSUME UNCHANGED retired, \A p \in RobIndex : SameInstr(rob[p], rob'[p])
    PROVE  /\ \A p \in RobIndex : Used(p)' <=> Used(p)
           /\ \A p \in RobIndex : is_memory(rob'[p]) <=> is_memory(rob[p])
           /\ \A i \in RobIndex, j \in Source :
                 /\ RegWriters(i, j)' = RegWriters(i, j)
                 /\ Nearest(RegWriters(i, j))' = Nearest(RegWriters(i, j))
           /\ \A i \in RobIndex, a \in Addr :
                 /\ StoreWriters(i, a)' = StoreWriters(i, a)
                 /\ Nearest(StoreWriters(i, a))' = Nearest(StoreWriters(i, a))
           /\ \A a \in Addr : /\ AllWriters(a)' = AllWriters(a)
                              /\ Nearest(AllWriters(a))' = Nearest(AllWriters(a))
<1>1. \A i : Before(i)' = Before(i) /\ Before(i) \subseteq RobIndex
  BY BeforeKept DEF Before
<1>2. \A p, q : (Age(p) <= Age(q))' <=> Age(p) <= Age(q)
  BY AgeKept
<1>3. \A p \in RobIndex : (Used(p)' <=> Used(p)) /\ (is_memory(rob'[p]) <=> is_memory(rob[p]))
  BY SameMemoryKind DEF Used, SameInstr
<1>4. ASSUME NEW i \in RobIndex, NEW j \in Source PROVE RegWriters(i, j)' = RegWriters(i, j)
  BY <1>1 DEF RegWriters, SameInstr
<1>5. ASSUME NEW i \in RobIndex, NEW a \in Addr PROVE StoreWriters(i, a)' = StoreWriters(i, a)
  BY <1>1, SameMemoryKind DEF StoreWriters
<1>6. ASSUME NEW a \in Addr PROVE AllWriters(a)' = AllWriters(a)
  BY SameMemoryKind DEF AllWriters
<1>7. ASSUME NEW i \in RobIndex, NEW j \in Source
      PROVE  Nearest(RegWriters(i, j))' = Nearest(RegWriters(i, j))
  BY <1>4, <1>2 DEF Nearest
<1>8. ASSUME NEW i \in RobIndex, NEW a \in Addr
      PROVE  Nearest(StoreWriters(i, a))' = Nearest(StoreWriters(i, a))
  BY <1>5, <1>2 DEF Nearest
<1>9. ASSUME NEW a \in Addr PROVE Nearest(AllWriters(a))' = Nearest(AllWriters(a))
  BY <1>6, <1>2 DEF Nearest
<1> QED BY <1>3, <1>4, <1>5, <1>6, <1>7, <1>8, <1>9

(* The nearest writer is a writer.                                         *)
LEMMA NearestIn ==
    ASSUME retired \in Nat
    PROVE  /\ \A i \in RobIndex, j \in Source : RegWriters(i, j) # {} =>
                 Nearest(RegWriters(i, j)) \in RegWriters(i, j)
           /\ \A i \in RobIndex, a \in Addr : StoreWriters(i, a) # {} =>
                 Nearest(StoreWriters(i, a)) \in StoreWriters(i, a)
           /\ \A a \in Addr : AllWriters(a) # {} => Nearest(AllWriters(a)) \in AllWriters(a)
           /\ \A i \in RobIndex, j \in Source : RegWriters(i, j) \in SUBSET RobIndex
           /\ \A i \in RobIndex, a \in Addr : StoreWriters(i, a) \in SUBSET RobIndex
           /\ \A a \in Addr : AllWriters(a) \in SUBSET RobIndex
<1>1. /\ \A i \in RobIndex, j \in Source : RegWriters(i, j) \in SUBSET RobIndex
      /\ \A i \in RobIndex, a \in Addr : StoreWriters(i, a) \in SUBSET RobIndex
      /\ \A a \in Addr : AllWriters(a) \in SUBSET RobIndex
  BY DEF RegWriters, StoreWriters, AllWriters, Before
<1> QED BY <1>1, NearestIs

(* A step that leaves the dependences of registers *)
LEMMA SameDependences ==
    ASSUME UNCHANGED retired, \A p \in RobIndex : SameDeps(rob[p], rob'[p]), RobTyped,
           Registered, NearestKnown, DependencesCounted
    PROVE  Registered' /\ NearestKnown' /\ DependencesCounted'
<1>0. retired \in Nat
  BY DEF RobTyped
<1>1. \A p \in RobIndex : SameInstr(rob[p], rob'[p])
  BY DEF SameDeps
<1>2. \A i : Before(i)' = Before(i)
  BY BeforeKept
<1>3. /\ \A p \in RobIndex : Used(p)' <=> Used(p)
      /\ \A i \in RobIndex, j \in Source :
            /\ RegWriters(i, j)' = RegWriters(i, j)
            /\ Nearest(RegWriters(i, j))' = Nearest(RegWriters(i, j))
  BY <1>0, <1>1, SameWriters
<1>4. Registered'
  BY <1>2, <1>3 DEF Registered, SameDeps
<1>5. NearestKnown'
  <2> SUFFICES ASSUME NEW i \in RobIndex, NEW j \in Source,
                      Used(i)', rob'[i].scheduled # "NO", RegWriters(i, j)' # {},
                      rob'[Nearest(RegWriters(i, j))'].executed # "COMPLETED"
               PROVE  <<i, j>> \in rob'[Nearest(RegWriters(i, j))'].registers_depend_on_me
    BY DEF NearestKnown
  <2> DEFINE p == Nearest(RegWriters(i, j))
  <2>1. RegWriters(i, j) # {} /\ p \in RobIndex /\ Nearest(RegWriters(i, j))' = p
    BY <1>0, <1>3, NearestIn
  <2>2. SameDeps(rob[p], rob'[p]) /\ SameDeps(rob[i], rob'[i])
    BY <2>1
  <2>3. Used(i) /\ rob[i].scheduled # "NO" /\ rob[p].executed # "COMPLETED"
    BY <1>3, <2>1, <2>2 DEF SameDeps
  <2>4. <<i, j>> \in rob[p].registers_depend_on_me
    BY <2>1, <2>3 DEF NearestKnown
  <2> QED BY <2>1, <2>2, <2>4 DEF SameDeps
<1>6. DependencesCounted'
  <2>1. ASSUME NEW i \in RobIndex PROVE DepsOf(i)' = DepsOf(i)
    <3>1. \A d \in RobIndex \X Source : d[1] \in RobIndex
      OBVIOUS
    <3>2. \A d \in RobIndex \X Source :
             /\ rob'[d[1]].registers_depend_on_me = rob[d[1]].registers_depend_on_me
             /\ rob'[d[1]].executed = "COMPLETED" <=> rob[d[1]].executed = "COMPLETED"
             /\ Used(d[1])' <=> Used(d[1])
      BY <1>3, <3>1 DEF SameDeps
    <3> QED BY <1>2, <3>2 DEF DepsOf
  <2> QED BY <2>1 DEF DependencesCounted, SameDeps
<1> QED BY <1>4, <1>5, <1>6

(* A step that leaves what the registers are about *)
LEMMA SameRegisters ==
    ASSUME UNCHANGED <<next, retired, rte0, rte1>>, inflight'.reg = inflight.reg,
           \A p \in RobIndex : SameRegs(rob[p], rob'[p]), RobTyped,
           Registered, NearestKnown, DependencesCounted, ReadyQueues, RegCounted
    PROVE  Registered' /\ NearestKnown' /\ DependencesCounted' /\ ReadyQueues' /\ RegCounted'
<1>0. retired' = retired /\ rte0' = rte0 /\ rte1' = rte1
  OBVIOUS
<1>1. \A p \in RobIndex : SameDeps(rob[p], rob'[p]) /\ SameInstr(rob[p], rob'[p])
  BY DEF SameRegs, SameDeps
<1>2. Registered' /\ NearestKnown' /\ DependencesCounted'
  BY <1>0, <1>1, SameDependences
<1>3. /\ \A p \in RobIndex : Used(p)' <=> Used(p)
      /\ \A p \in RobIndex : is_memory(rob'[p]) <=> is_memory(rob[p])
  BY <1>0, <1>1, SameWriters
<1>7. ReadyQueues'
  <2>1. \A i \in RobIndex : ReadyToExecute(i) => ReadyToExecute(i)'
    BY <1>3 DEF ReadyToExecute, SameRegs
  <2> QED BY <1>0, <2>1 DEF ReadyQueues
<1>8. RegCounted'
  <2>1. {i \in RobIndex : ~ is_memory(rob'[i]) /\ rob'[i].executed = "INFLIGHT"}
          = {i \in RobIndex : ~ is_memory(rob[i]) /\ rob[i].executed = "INFLIGHT"}
    BY <1>3 DEF SameRegs
  <2> QED BY <2>1 DEF RegCounted
<1> QED BY <1>2, <1>7, <1>8

(* A step that leaves the memory operands and the queues *)
LEMMA SameMemory ==
    ASSUME UNCHANGED <<next, retired, lq, lq_occupancy, rtl0, sq, sq_tail, sq_occupancy,
                       sta, rts0, last_store, memory>>,
           \A p \in RobIndex : SameMem(rob[p], rob'[p]),
           RobTyped, RobTyped', QueuesTyped, LoadInv, StoreInv,
           Expected, LastStores, Values(rob, lq), OperationsCounted(rob, lq, sq),
           Producers(rob, lq, sq), MemoryListed(rob)
    PROVE  /\ QueuesTyped' /\ LoadInv' /\ StoreInv'
           /\ Expected' /\ LastStores' /\ Values(rob, lq)' /\ OperationsCounted(rob, lq, sq)'
           /\ Producers(rob, lq, sq)' /\ MemoryListed(rob)'
<1>0. /\ next' = next /\ retired' = retired /\ lq' = lq /\ lq_occupancy' = lq_occupancy
      /\ rtl0' = rtl0 /\ sq' = sq /\ sq_tail' = sq_tail /\ sq_occupancy' = sq_occupancy
      /\ sta' = sta /\ rts0' = rts0 /\ last_store' = last_store /\ memory' = memory
  OBVIOUS
<1>1. \A p \in RobIndex : SameInstr(rob[p], rob'[p])
  BY DEF SameMem
<1>2. \A i : Before(i)' = Before(i)
  BY <1>0, BeforeKept
<1>3. /\ \A p \in RobIndex : Used(p)' <=> Used(p)
      /\ \A i \in RobIndex, a \in Addr :
            /\ StoreWriters(i, a)' = StoreWriters(i, a)
            /\ Nearest(StoreWriters(i, a))' = Nearest(StoreWriters(i, a))
      /\ \A a \in Addr : /\ AllWriters(a)' = AllWriters(a)
                         /\ Nearest(AllWriters(a))' = Nearest(AllWriters(a))
  BY <1>0, <1>1, SameWriters
<1>4. retired \in Nat
  BY DEF RobTyped
<1>5. QueuesTyped'
  BY <1>0 DEF QueuesTyped
<1>6. \A l \in LqIndex : lq[l].rob_index \in RobIndex /\ lq[l].data_index \in Source
  BY DEF QueuesTyped, LoadType
<1>7. \A k \in SqIndex : sq[k].rob_index \in RobIndex
  BY DEF QueuesTyped, StoreType
<1>8. LoadInv'
  <2>1. LoadSlots(rob', lq)
    BY <1>6 DEF LoadInv, LoadSlots, SameMem, SameInstr
  <2>2. LoadIndices(rob')
    BY DEF LoadInv, LoadIndices, SameMem, SameInstr
  <2>3. ReadyLoads(lq, rtl0) /\ SlotsCounted(lq, lq_occupancy)
    BY DEF LoadInv
  <2> QED BY <1>0, <2>1, <2>2, <2>3 DEF LoadInv
<1>9. StoreInv'
  <2>1. StoreSlots(rob', sq)
    BY <1>7 DEF StoreInv, StoreSlots, SameMem
  <2>2. StoreIndices(rob', sq)
    BY DEF StoreInv, StoreIndices, SameMem, SameInstr
  <2>3. ReadyStores(sq, rts0) /\ StoreOrder(sq, sq_tail, sq_occupancy, sta)
    BY DEF StoreInv
  <2> QED BY <1>0, <2>1, <2>2, <2>3 DEF StoreInv, StoreOrder
<1>10. Expected'
  <2> SUFFICES ASSUME NEW i \in RobIndex, NEW j \in Source, NEW a,
                      a = rob'[i].instr.source_memory[j], a # NoAddr
               PROVE  rob'[i].expects[j] = IF StoreWriters(i, a)' = {} THEN memory[a]
                                           ELSE rob'[Nearest(StoreWriters(i, a))'].instr_id
    BY <1>0 DEF Expected
  <2>1. a = rob[i].instr.source_memory[j] /\ rob'[i].expects[j] = rob[i].expects[j]
    BY DEF SameMem, SameInstr
  <2>2. a \in Addr
    BY <2>1, SMTT(30) DEF RobTyped, EntryType, Instruction
  <2>3. rob[i].expects[j] = IF StoreWriters(i, a) = {} THEN memory[a]
                            ELSE rob[Nearest(StoreWriters(i, a))].instr_id
    BY <2>1 DEF Expected
  <2>4. StoreWriters(i, a) # {} => Nearest(StoreWriters(i, a)) \in RobIndex
    BY <1>4, <2>2, NearestIn
  <2> QED BY <1>3, <2>1, <2>2, <2>3, <2>4 DEF SameMem, SameInstr
<1>11. LastStores'
  <2>1. \A a \in Addr : AllWriters(a) # {} => Nearest(AllWriters(a)) \in RobIndex
    BY <1>4, NearestIn
  <2> QED BY <1>0, <1>3, <2>1 DEF LastStores, SameMem, SameInstr
<1>12. \A i \in RobIndex, j \in Source : LoadOut(rob', lq, i, j) <=> LoadOut(rob, lq, i, j)
  BY DEF LoadOut, SameMem, SameInstr
<1>13. \A i \in RobIndex, j \in Destination : StoreOut(rob', sq, i, j) <=> StoreOut(rob, sq, i, j)
  BY DEF StoreOut, SameMem, SameInstr
<1>14. Values(rob', lq)
  BY <1>12 DEF Values, SameMem, SameInstr
<1>15. OperationsCounted(rob', lq, sq)
  <2> SUFFICES ASSUME NEW i \in RobIndex
               PROVE  rob'[i].num_mem_ops
                        = Cardinality({j \in Source : LoadOut(rob', lq, i, j)})
                          + Cardinality({j \in Destination : StoreOut(rob', sq, i, j)})
    BY DEF OperationsCounted
  <2>1. {j \in Source : LoadOut(rob', lq, i, j)} = {j \in Source : LoadOut(rob, lq, i, j)}
    BY <1>12
  <2>2. {j \in Destination : StoreOut(rob', sq, i, j)}
          = {j \in Destination : StoreOut(rob, sq, i, j)}
    BY <1>13
  <2> QED BY <2>1, <2>2 DEF OperationsCounted, SameMem
<1>16. Producers(rob, lq, sq)'
  <2> SUFFICES ASSUME NEW l \in LqIndex, lq[l].address # NoAddr, NEW d, d = lq[l].rob_index,
                      NEW a, a = lq[l].address
               PROVE  IF lq[l].producer_id = None THEN StoreWriters(d, a)' = {}
                      ELSE /\ StoreWriters(d, a)' # {}
                           /\ lq[l].producer_id = rob'[Nearest(StoreWriters(d, a))'].instr_id
                           /\ d \in rob'[Nearest(StoreWriters(d, a))'].memory_instrs_depend_on_me
                           /\ lq[l].fetched = "NO"
                           /\ \A j \in Destination :
                                rob'[Nearest(StoreWriters(d, a))'].instr.destination_memory[j] = a
                                  => StoreOut(rob', sq, Nearest(StoreWriters(d, a))', j)
    BY <1>0 DEF Producers
  <2>1. d \in RobIndex /\ a \in Addr
    BY <1>6 DEF QueuesTyped, LoadType
  <2> DEFINE p == Nearest(StoreWriters(d, a))
  <2>2. /\ StoreWriters(d, a)' = StoreWriters(d, a) /\ Nearest(StoreWriters(d, a))' = p
        /\ StoreWriters(d, a) # {} => p \in RobIndex
    BY <1>3, <1>4, <2>1, NearestIn
  <2>3. IF lq[l].producer_id = None THEN StoreWriters(d, a) = {}
        ELSE /\ StoreWriters(d, a) # {} /\ lq[l].producer_id = rob[p].instr_id
             /\ d \in rob[p].memory_instrs_depend_on_me
             /\ lq[l].fetched = "NO"
             /\ \A j \in Destination : rob[p].instr.destination_memory[j] = a
                                         => StoreOut(rob, sq, p, j)
    BY DEF Producers
  <2> HIDE DEF p
  <2> QED BY <1>13, <2>2, <2>3 DEF SameMem, SameInstr
<1>17. MemoryListed(rob)'
  BY <1>2, <1>3 DEF MemoryListed, SameMem
<1>18. Values(rob, lq)'
  BY <1>0, <1>14 DEF Values, LoadOut
<1>19. OperationsCounted(rob, lq, sq)'
  BY <1>0, <1>15 DEF OperationsCounted, LoadOut, StoreOut
<1> QED BY <1>5, <1>8, <1>9, <1>10, <1>11, <1>16, <1>17, <1>18, <1>19

-----------------------------------------------------------------------------
(* Entries *)

(* What init_rob leaves in an entry                                        *)
LEMMA FreeFields ==
    /\ FreeEntry.instr_id = None /\ FreeEntry.scheduled = "NO" /\ FreeEntry.executed = "NO"
    /\ ~ FreeEntry.reg_ready /\ FreeEntry.num_reg_dependent = 0
    /\ FreeEntry.registers_depend_on_me = {} /\ FreeEntry.memory_instrs_depend_on_me = {}
    /\ FreeEntry.num_mem_ops = 0
    /\ \A j \in Source : /\ FreeEntry.lq_index[j] = None
                         /\ FreeEntry.instr.source_registers[j] = NoReg
                         /\ FreeEntry.instr.source_memory[j] = NoAddr
    /\ \A j \in Destination : /\ FreeEntry.sq_index[j] = None
                              /\ FreeEntry.instr.destination_memory[j] = NoAddr
    /\ FreeEntry.instr.destination_registers = {}
    /\ FreeEntry \in EntryType
<1> DEFINE k == NoInstruction
           n == Cardinality({j \in Source : k.source_memory[j] # NoAddr})
                  + Cardinality({j \in Destination : k.destination_memory[j] # NoAddr})
           x == [j \in Source |-> IF k.source_memory[j] = NoAddr THEN None
                                  ELSE last_store[k.source_memory[j]]]
<1>1. FreeEntry =
         [instr_id |-> None, instr |-> k, scheduled |-> "NO", executed |-> "NO",
          reg_ready |-> FALSE, num_reg_dependent |-> 0, registers_depend_on_me |-> {},
          memory_instrs_depend_on_me |-> {}, num_mem_ops |-> n,
          lq_index |-> [j \in Source |-> None], sq_index |-> [j \in Destination |-> None],
          expects |-> x, value |-> [j \in Source |-> None]]
  BY DEF FreeEntry, Entry
<1>2. /\ k \in Instruction /\ k.destination_registers = {}
      /\ \A j \in Source : k.source_registers[j] = NoReg /\ k.source_memory[j] = NoAddr
      /\ \A j \in Destination : k.destination_memory[j] = NoAddr
  BY DEF NoInstruction, Instruction
<1>3. n = 0
  <2>1. /\ {j \in Source : k.source_memory[j] # NoAddr} = {}
        /\ {j \in Destination : k.destination_memory[j] # NoAddr} = {}
    BY <1>2
  <2> QED BY <2>1, FS_EmptySet
<1>4. x \in [Source -> Int]
  BY <1>2 DEF None
<1> HIDE DEF k, n, x
<1>5. FreeEntry \in EntryType
  BY <1>1, <1>2, <1>3, <1>4 DEF EntryType, Phase, None
<1> QED BY <1>1, <1>2, <1>3, <1>5

(* The entries in use are those between head and tail. *)
LEMMA UsedIs ==
    ASSUME RobTyped, Ring
    PROVE  /\ \A p \in RobIndex : Used(p) <=> Age(p) < next - retired
           /\ \A p \in RobIndex : ~ Used(p) => Blank(rob[p])
           /\ \A i \in RobIndex : Used(i) => \A p \in Before(i) : Used(p)
           /\ \A p \in RobIndex : Used(p) => rob[p].instr_id = retired + Age(p)
           /\ \A p \in RobIndex : Age(p) \in 0 .. ROB_SIZE - 1
<1>1. \A p \in RobIndex : Age(p) \in 0 .. ROB_SIZE - 1
  BY AgeIs DEF RobTyped, RobIndex
<1>2. retired \in Nat /\ next \in Nat /\ ROB_SIZE \in Nat
  BY Sizes DEF RobTyped
<1>3. \A p \in RobIndex : Used(p) <=> Age(p) < next - retired
  BY <1>1, <1>2 DEF Ring, Used, None, Blank
<1>4. \A i \in RobIndex : Used(i) => \A p \in Before(i) : Used(p)
  BY <1>1, <1>2, <1>3 DEF Before
<1>5. \A p \in RobIndex : ~ Used(p) => Blank(rob[p])
  BY <1>3 DEF Ring
<1>6. \A p \in RobIndex : Used(p) => rob[p].instr_id = retired + Age(p)
  BY <1>3 DEF Ring
<1> QED BY <1>1, <1>3, <1>4, <1>5, <1>6

(* A blank entry reads, writes and waits for nothing.                      *)
LEMMA BlankFields ==
    ASSUME NEW e \in EntryType, Blank(e)
    PROVE  /\ ~ is_memory(e) /\ e.instr.destination_registers = {}
           /\ \A j \in Source : /\ e.instr.source_registers[j] = NoReg
                               /\ e.instr.source_memory[j] = NoAddr
           /\ \A j \in Destination : e.instr.destination_memory[j] = NoAddr
           /\ \A a \in Addr : ~ Writes(e, a)
BY CoreAssumption DEF Blank, NoInstruction, is_memory, Writes

(* The ring, for a step that keeps the instructions and their phases where *)
(* nothing is in use                                                       *)
LEMMA RingKept ==
    ASSUME UNCHANGED <<next, retired>>, RobTyped, Ring,
           \A p \in RobIndex : SameInstr(rob[p], rob'[p]),
           \A p \in RobIndex : ~ Used(p) => /\ rob'[p].scheduled = rob[p].scheduled
                                           /\ rob'[p].executed = rob[p].executed
    PROVE  Ring'
<1>1. \A p : Age(p)' = Age(p)
  BY AgeKept
<1>2. \A p \in RobIndex : Used(p) <=> Age(p) < next - retired
  BY UsedIs
<1> QED BY <1>1, <1>2 DEF Ring, Blank, SameInstr

-----------------------------------------------------------------------------
(* Scheduling *)

(* The operands of an instruction are finitely many.                       *)
LEMMA FiniteOperands ==
    /\ IsFiniteSet(Source) /\ Cardinality(Source) = 4
    /\ IsFiniteSet(Destination) /\ Cardinality(Destination) = 2
<1>1. 1 \in Int /\ 2 \in Int /\ 4 \in Int
  OBVIOUS
<1>2. IsFiniteSet(1 .. 4) /\ Cardinality(1 .. 4) = IF 1 > 4 THEN 0 ELSE 4 - 1 + 1
  BY <1>1, FS_Interval
<1>3. IsFiniteSet(1 .. 2) /\ Cardinality(1 .. 2) = IF 1 > 2 THEN 0 ELSE 2 - 1 + 1
  BY <1>1, FS_Interval
<1> QED BY <1>2, <1>3 DEF Source, Destination

(* A queue of distinct entries leaves room for the entries not in it. *)
LEMMA RoomFor ==
    ASSUME NEW q \in Seq(RobIndex), Distinct(q), NEW S \in SUBSET RobIndex,
           \A p \in S : ~ In(q, p)
    PROVE  Len(q) + Cardinality(S) <= ROB_SIZE
<1> DEFINE n == Len(q)
           T == 1 .. n
           R == RobIndex \ S
<1>1. n \in Nat /\ DOMAIN q = T
  OBVIOUS
<1>2. /\ IsFiniteSet(R) /\ Cardinality(R) = ROB_SIZE - Cardinality(S)
      /\ Cardinality(S) \in Nat /\ Cardinality(R) \in Nat /\ ROB_SIZE \in Nat
  <2>1. IsFiniteSet(S) /\ Cardinality(S) \in Nat /\ RobIndex \cap S = S
    BY Sizes, FS_Subset, FS_CardinalityType
  <2>2. IsFiniteSet(R) /\ Cardinality(R) = Cardinality(RobIndex) - Cardinality(RobIndex \cap S)
    BY Sizes, FS_Difference
  <2> QED BY <2>1, <2>2, Sizes, FS_CardinalityType
<1>3. q \in [T -> R] /\ \A x, y \in T : q[x] = q[y] => x = y
  BY <1>1 DEF Distinct, In
<1>4. q \in Injection(T, R)
  BY <1>3 DEF Injection, IsInjective
<1>5. IsFiniteSet(T) /\ Cardinality(T) = n
  BY <1>1, FS_Interval, SMTT(30)
<1> HIDE DEF T, R, n
<1>6. Cardinality(T) <= Cardinality(R)
  BY <1>2, <1>4, FS_Injection
<1>7. n <= ROB_SIZE - Cardinality(S)
  BY <1>2, <1>5, <1>6
<1> QED BY <1>1, <1>2, <1>7 DEF n

(* A queue of indices after a push                                         *)
LEMMA AppendItems ==
    ASSUME NEW X, NEW q \in Seq(X), NEW i \in X
    PROVE  /\ Append(q, i) \in Seq(X)
           /\ \A p : In(Append(q, i), p) <=> In(q, p) \/ p = i
           /\ Distinct(q) /\ ~ In(q, i) => Distinct(Append(q, i))
<1> DEFINE n == Len(q)
           r == Append(q, i)
<1>1. /\ n \in Nat /\ DOMAIN q = 1 .. n /\ DOMAIN r = 1 .. n + 1 /\ r \in Seq(X)
      /\ \A m \in 1 .. n : r[m] = q[m]
      /\ r[n + 1] = i
  OBVIOUS
<1>2. /\ \A m \in 1 .. n + 1 : m \in 1 .. n \/ m = n + 1
      /\ n + 1 \in 1 .. n + 1 /\ \A m \in 1 .. n : m \in 1 .. n + 1
  BY <1>1
<1> HIDE DEF n, r
<1>3. \A p : In(r, p) <=> In(q, p) \/ p = i
  BY <1>1, <1>2 DEF In
<1>4. Distinct(q) /\ ~ In(q, i) => Distinct(r)
  BY <1>1, <1>2 DEF In, Distinct
<1> QED BY <1>1, <1>3, <1>4 DEF r

(* A queue of indices after a pop                                          *)
LEMMA TailItems ==
    ASSUME NEW X, NEW q \in Seq(X), q # <<>>, Distinct(q)
    PROVE  /\ Tail(q) \in Seq(X) /\ Head(q) \in X /\ In(q, Head(q))
           /\ \A p : In(Tail(q), p) <=> In(q, p) /\ p # Head(q)
           /\ Distinct(Tail(q))
<1> DEFINE n == Len(q)
           r == Tail(q)
<1>1. /\ n \in Nat \ {0} /\ DOMAIN q = 1 .. n /\ DOMAIN r = 1 .. n - 1 /\ r \in Seq(X)
      /\ \A m \in 1 .. n - 1 : r[m] = q[m + 1]
      /\ Head(q) = q[1] /\ q[1] \in X
  OBVIOUS
<1>2. /\ 1 \in 1 .. n /\ \A m \in 1 .. n - 1 : m + 1 \in 1 .. n /\ m + 1 # 1
      /\ \A m \in 1 .. n : m = 1 \/ (m - 1 \in 1 .. n - 1 /\ m = m - 1 + 1)
      /\ \A x, y \in 1 .. n - 1 : x + 1 = y + 1 => x = y
  BY <1>1
<1> HIDE DEF n, r
<1>6. \A x, y \in 1 .. n : q[x] = q[y] => x = y
  BY <1>1 DEF Distinct
<1>3. ASSUME NEW p PROVE In(r, p) <=> In(q, p) /\ p # q[1]
  <2>1. ASSUME NEW m \in 1 .. n - 1, r[m] = p PROVE In(q, p) /\ p # q[1]
    <3>1. m + 1 \in 1 .. n /\ q[m + 1] = p /\ m + 1 # 1
      BY <1>1, <1>2, <2>1
    <3> QED BY <1>1, <1>2, <1>6, <3>1 DEF In
  <2>2. ASSUME NEW m \in 1 .. n, q[m] = p, p # q[1] PROVE In(r, p)
    <3>1. m - 1 \in 1 .. n - 1 /\ m = m - 1 + 1
      BY <1>2, <2>2
    <3>2. r[m - 1] = q[m - 1 + 1]
      BY <1>1, <3>1
    <3> QED BY <1>1, <2>2, <3>1, <3>2 DEF In
  <2> QED BY <1>1, <2>1, <2>2 DEF In
<1>4. Distinct(r)
  <2> SUFFICES ASSUME NEW x \in 1 .. n - 1, NEW y \in 1 .. n - 1, r[x] = r[y] PROVE x = y
    BY <1>1 DEF Distinct
  <2>1. x + 1 \in 1 .. n /\ y + 1 \in 1 .. n /\ q[x + 1] = q[y + 1]
    BY <1>1, <1>2
  <2>2. x + 1 = y + 1
    BY <1>6, <2>1
  <2> QED BY <1>2, <2>2
<1>5. In(q, q[1])
  BY <1>1, <1>2 DEF In
<1> QED BY <1>1, <1>3, <1>4, <1>5 DEF r

(* The writers of a source register that have not completed *)
OpenWriters(i, j) == {p \in RegWriters(i, j) : rob[p].executed # "COMPLETED"}

(* reg_dependency finds the nearest writer still to complete.              *)
LEMMA ProducersAre ==
    ASSUME retired \in Nat, NEW i \in RobIndex, NEW d, d = reg_dependency(i)
    PROVE  /\ DOMAIN d = {j \in Source : OpenWriters(i, j) # {}}
           /\ \A j \in DOMAIN d : d[j] = Nearest(OpenWriters(i, j)) /\ d[j] \in OpenWriters(i, j)
<1>1. \A j : OpenWriters(i, j) = {p \in Before(i) :
            /\ rob[p].executed # "COMPLETED"
            /\ rob[i].instr.source_registers[j] \in rob[p].instr.destination_registers}
  BY DEF OpenWriters, RegWriters
<1>2. d = [j \in {j \in Source : OpenWriters(i, j) # {}} |-> Nearest(OpenWriters(i, j))]
  BY <1>1 DEF reg_dependency
<1>3. \A j : OpenWriters(i, j) \in SUBSET RobIndex
  BY <1>1 DEF Before
<1> QED BY <1>2, <1>3, NearestIs

(* do_scheduling, field by field                                           *)
LEMMA SchedulingRob ==
    ASSUME IInv, NEW i \in RobIndex, do_scheduling(i), NEW d, d = reg_dependency(i)
    PROVE  /\ RobTyped' /\ \A p \in RobIndex : SameMem(rob[p], rob'[p])
           /\ Used(i) /\ rob[i].scheduled = "NO"
           /\ rob'[i].reg_ready <=> DOMAIN d = {}
           /\ rob'[i].num_reg_dependent = Cardinality(DOMAIN d)
           /\ rob'[i].scheduled = IF is_memory(rob[i]) THEN "INFLIGHT" ELSE "COMPLETED"
           /\ \A p \in RobIndex : rob'[p].executed = rob[p].executed
           /\ \A p \in RobIndex \ {i} : /\ rob'[p].scheduled = rob[p].scheduled
                                        /\ rob'[p].reg_ready = rob[p].reg_ready
                                        /\ rob'[p].num_reg_dependent = rob[p].num_reg_dependent
           /\ \A p, q \in RobIndex, j \in Source :
                 <<q, j>> \in rob'[p].registers_depend_on_me
                   <=> \/ <<q, j>> \in rob[p].registers_depend_on_me
                       \/ q = i /\ j \in DOMAIN d /\ d[j] = p
<1> DEFINE New(p) == {<<i, j>> : j \in {k \in DOMAIN d : d[k] = p}}
           ready == DOMAIN d = {}
           f == [p \in RobIndex |->
                   IF p = i THEN [rob[i] EXCEPT !.reg_ready = ready,
                                                !.num_reg_dependent = Cardinality(DOMAIN d),
                                                !.scheduled = IF is_memory(rob[i]) THEN "INFLIGHT"
                                                              ELSE "COMPLETED"]
                   ELSE [rob[p] EXCEPT !.registers_depend_on_me = @ \cup New(p)]]
<1>1. rob \in [RobIndex -> EntryType] /\ retired \in Nat
  BY DEF IInv, RobTyped
<1>2. /\ rob' = f /\ Used(i) /\ rob[i].scheduled = "NO"
      /\ next' = next /\ retired' = retired /\ rte0' = rte0 /\ inflight' = inflight
      /\ last_store' = last_store /\ memory' = memory
      /\ rte1' = rte1 \/ rte1' = PushReady(rte1, i)
  BY DEF do_scheduling
<1>3. /\ DOMAIN d \in SUBSET Source
      /\ \A j \in DOMAIN d : d[j] \in RobIndex /\ d[j] # i
  <2>1. i \notin Before(i) /\ Before(i) \subseteq RobIndex
    BY <1>1, AgeIs, Sizes DEF Before
  <2>2. /\ DOMAIN d = {j \in Source : OpenWriters(i, j) # {}}
        /\ \A j \in DOMAIN d : d[j] \in OpenWriters(i, j)
    BY <1>1, ProducersAre
  <2>3. \A j : OpenWriters(i, j) \subseteq Before(i)
    BY DEF OpenWriters, RegWriters
  <2> QED BY <2>1, <2>2, <2>3
<1>4. Cardinality(DOMAIN d) \in Int
  <2> QED BY <1>3, FiniteOperands, FS_Subset, FS_CardinalityType
<1>5. \A p \in RobIndex : New(p) \in SUBSET (RobIndex \X Source)
  BY <1>3
<1>6. \A q, p \in RobIndex, j \in Source : <<q, j>> \in New(p) <=> q = i /\ j \in DOMAIN d /\ d[j] = p
  OBVIOUS
<1> HIDE DEF New, ready
<1>7. rob'[i] = [rob[i] EXCEPT !.reg_ready = ready,
                               !.num_reg_dependent = Cardinality(DOMAIN d),
                               !.scheduled = IF is_memory(rob[i]) THEN "INFLIGHT"
                                             ELSE "COMPLETED"]
  BY <1>2
<1>8. \A p \in RobIndex \ {i} :
         rob'[p] = [rob[p] EXCEPT !.registers_depend_on_me = @ \cup New(p)]
  BY <1>2
<1>9. ready \in BOOLEAN /\ (ready <=> DOMAIN d = {})
  BY DEF ready
<1>10. rob[i] \in EntryType
  BY <1>1
<1>11. /\ rob'[i] \in EntryType /\ SameMem(rob[i], rob'[i])
       /\ rob'[i].reg_ready = ready /\ rob'[i].executed = rob[i].executed
       /\ rob'[i].num_reg_dependent = Cardinality(DOMAIN d)
       /\ rob'[i].registers_depend_on_me = rob[i].registers_depend_on_me
       /\ rob'[i].scheduled = IF is_memory(rob[i]) THEN "INFLIGHT" ELSE "COMPLETED"
  BY <1>4, <1>7, <1>9, <1>10 DEF EntryType, Phase, SameMem, SameInstr
<1>12. ASSUME NEW p \in RobIndex \ {i}
       PROVE  /\ rob'[p] \in EntryType /\ SameMem(rob[p], rob'[p])
              /\ rob'[p].reg_ready = rob[p].reg_ready /\ rob'[p].executed = rob[p].executed
              /\ rob'[p].num_reg_dependent = rob[p].num_reg_dependent
              /\ rob'[p].registers_depend_on_me = rob[p].registers_depend_on_me \cup New(p)
              /\ rob'[p].scheduled = rob[p].scheduled
  <2>1. rob[p] \in EntryType /\ New(p) \in SUBSET (RobIndex \X Source)
    BY <1>1, <1>5
  <2> DEFINE n == rob[p].registers_depend_on_me \cup New(p)
  <2>2. n \in SUBSET (RobIndex \X Source)
    BY <2>1 DEF EntryType
  <2>3. rob'[p] = [rob[p] EXCEPT !.registers_depend_on_me = n]
    BY <1>8, <2>1 DEF EntryType
  <2> HIDE DEF n
  <2>4. rob'[p] \in EntryType /\ rob'[p].registers_depend_on_me = n
    BY <2>1, <2>2, <2>3 DEF EntryType
  <2>5. SameMem(rob[p], rob'[p])
    BY <2>1, <2>3 DEF EntryType, SameMem, SameInstr
  <2>6. /\ rob'[p].reg_ready = rob[p].reg_ready /\ rob'[p].executed = rob[p].executed
        /\ rob'[p].num_reg_dependent = rob[p].num_reg_dependent
        /\ rob'[p].scheduled = rob[p].scheduled
    BY <2>1, <2>3 DEF EntryType
  <2> QED BY <2>4, <2>5, <2>6 DEF n
<1>13. rob' \in [RobIndex -> EntryType]
  <2>1. rob' \in [RobIndex -> EntryType] <=> \A p \in RobIndex : rob'[p] \in EntryType
    BY <1>2
  <2> QED BY <2>1, <1>11, <1>12
<1>14. PushReady(rte1, i) \in Seq(RobIndex)
  BY DEF PushReady, IInv, RobTyped
<1>15. RobTyped'
  BY <1>2, <1>13, <1>14 DEF IInv, RobTyped
<1>16. \A q \in RobIndex, j \in Source : <<q, j>> \notin New(i)
  BY <1>3, <1>6
<1> QED BY <1>2, <1>6, <1>9, <1>11, <1>12, <1>15, <1>16

(* do_scheduling registers each dependence and counts it.                  *)
LEMMA SchedulingDeps ==
    ASSUME IInv, NEW i \in RobIndex, do_scheduling(i)
    PROVE  Registered' /\ NearestKnown' /\ DependencesCounted'
<1> DEFINE d == reg_dependency(i)
<1>1. /\ RobTyped' /\ \A p \in RobIndex : SameMem(rob[p], rob'[p])
      /\ Used(i) /\ rob[i].scheduled = "NO"
      /\ rob'[i].num_reg_dependent = Cardinality(DOMAIN d)
      /\ rob'[i].scheduled # "NO"
      /\ \A p \in RobIndex : rob'[p].executed = rob[p].executed
      /\ \A p \in RobIndex \ {i} : /\ rob'[p].scheduled = rob[p].scheduled
                                   /\ rob'[p].num_reg_dependent = rob[p].num_reg_dependent
      /\ \A p, q \in RobIndex, j \in Source :
            <<q, j>> \in rob'[p].registers_depend_on_me
              <=> \/ <<q, j>> \in rob[p].registers_depend_on_me
                  \/ q = i /\ j \in DOMAIN d /\ d[j] = p
  BY SchedulingRob
<1>2. retired' = retired /\ retired \in Nat
  BY DEF do_scheduling, IInv, RobTyped
<1>3. /\ DOMAIN d = {j \in Source : OpenWriters(i, j) # {}}
      /\ \A j \in DOMAIN d : d[j] = Nearest(OpenWriters(i, j)) /\ d[j] \in OpenWriters(i, j)
  BY <1>2, ProducersAre
<1> HIDE DEF d
<1>4. /\ \A k : Before(k)' = Before(k)
      /\ \A p \in RobIndex : SameInstr(rob[p], rob'[p])
  BY <1>1, <1>2, BeforeKept DEF SameMem
<1>5. /\ \A p \in RobIndex : Used(p)' <=> Used(p)
      /\ \A k \in RobIndex, j \in Source :
            /\ RegWriters(k, j)' = RegWriters(k, j)
            /\ Nearest(RegWriters(k, j))' = Nearest(RegWriters(k, j))
  BY <1>2, <1>4, SameWriters
<1>6. Registered /\ NearestKnown /\ DependencesCounted
  BY DEF IInv, RegInv
<1>7. \A j \in DOMAIN d : d[j] \in Before(i) /\ d[j] \in RobIndex
                          /\ rob[d[j]].executed # "COMPLETED"
  BY <1>3 DEF OpenWriters, RegWriters, Before
<1>8. Registered'
  BY <1>1, <1>4, <1>5, <1>6, <1>7 DEF Registered
<1>9. NearestKnown'
  <2> SUFFICES ASSUME NEW k \in RobIndex, NEW j \in Source,
                      Used(k)', rob'[k].scheduled # "NO", RegWriters(k, j)' # {},
                      rob'[Nearest(RegWriters(k, j))'].executed # "COMPLETED"
               PROVE  <<k, j>> \in rob'[Nearest(RegWriters(k, j))'].registers_depend_on_me
    BY DEF NearestKnown
  <2> DEFINE p == Nearest(RegWriters(k, j))
  <2>1. /\ RegWriters(k, j) # {} /\ p \in RobIndex /\ Nearest(RegWriters(k, j))' = p
        /\ p \in RegWriters(k, j) /\ RegWriters(k, j) \in SUBSET RobIndex
        /\ \A o \in RegWriters(k, j) : Age(o) <= Age(p)
    BY <1>2, <1>5, NearestIn, NearestIs
  <2> HIDE DEF p
  <2>2. rob[p].executed # "COMPLETED"
    BY <1>1, <2>1
  <2>3. CASE k = i
    <3>1. p \in OpenWriters(i, j) /\ OpenWriters(i, j) \in SUBSET RobIndex
          /\ \A o \in OpenWriters(i, j) : Age(o) <= Age(p)
      BY <2>1, <2>2, <2>3 DEF OpenWriters
    <3>2. Nearest(OpenWriters(i, j)) = p
      BY <1>2, <3>1, NearestUnique
    <3>3. j \in DOMAIN d /\ d[j] = p
      BY <1>3, <3>1, <3>2
    <3> QED BY <1>1, <2>1, <2>3, <3>3
  <2>4. CASE k # i
    <3>1. Used(k) /\ rob[k].scheduled # "NO"
      BY <1>1, <1>5, <2>4
    <3>2. <<k, j>> \in rob[p].registers_depend_on_me
      BY <1>6, <2>1, <2>2, <3>1 DEF NearestKnown, p
    <3> QED BY <1>1, <2>1, <3>2
  <2> QED BY <2>3, <2>4
<1>10. DependencesCounted'
  <2> SUFFICES ASSUME NEW k \in RobIndex
               PROVE  rob'[k].num_reg_dependent = Cardinality(DepsOf(k)')
    BY DEF DependencesCounted
  <2>1. DepsOf(k)' = {e \in RobIndex \X Source :
                        /\ e[1] \in Before(k) /\ Used(e[1]) /\ rob[e[1]].executed # "COMPLETED"
                        /\ \/ <<k, e[2]>> \in rob[e[1]].registers_depend_on_me
                           \/ k = i /\ e[2] \in DOMAIN d /\ d[e[2]] = e[1]}
    <3>1. \A e \in RobIndex \X Source : e[1] \in RobIndex /\ e[2] \in Source
      OBVIOUS
    <3> QED BY <1>1, <1>4, <1>5, <3>1 DEF DepsOf
  <2>2. CASE k # i
    <3>1. DepsOf(k)' = DepsOf(k)
      BY <2>1, <2>2 DEF DepsOf
    <3> QED BY <1>1, <1>6, <2>2, <3>1 DEF DependencesCounted
  <2>3. CASE k = i
    <3> DEFINE f == [j \in DOMAIN d |-> <<d[j], j>>]
               S == DOMAIN d
               T == DepsOf(k)'
    <3>1. \A p \in RobIndex, j \in Source : <<i, j>> \notin rob[p].registers_depend_on_me
      BY <1>1, <1>6 DEF Registered
    <3>2. \A e \in RobIndex \X Source :
             e \in T <=> /\ e[1] \in Before(i) /\ Used(e[1]) /\ rob[e[1]].executed # "COMPLETED"
                         /\ e[2] \in DOMAIN d /\ d[e[2]] = e[1]
      <4>1. \A e \in RobIndex \X Source : <<i, e[2]>> \notin rob[e[1]].registers_depend_on_me
        BY <3>1
      <4> QED BY <2>1, <2>3, <4>1
    <3>3. \A p \in Before(i) : Used(p)
      BY <1>1, UsedIs DEF IInv
    <3>4. T \in SUBSET (RobIndex \X Source) /\ S \in SUBSET Source
      BY <1>3, <2>1
    <3>5. f \in [S -> T]
      <4>1. ASSUME NEW j \in S PROVE <<d[j], j>> \in T
        <5>1. <<d[j], j>> \in RobIndex \X Source
          BY <1>7, <3>4
        <5>2. <<d[j], j>>[1] = d[j] /\ <<d[j], j>>[2] = j
          OBVIOUS
        <5> QED BY <1>7, <3>2, <3>3, <5>1, <5>2
      <4> QED BY <4>1
    <3>6. \A x, y \in S : f[x] = f[y] => x = y
      OBVIOUS
    <3>7. \A t \in T : \E j \in S : f[j] = t
      <4> SUFFICES ASSUME NEW t \in T PROVE f[t[2]] = t /\ t[2] \in S
        OBVIOUS
      <4>1. t \in RobIndex \X Source
        BY <3>4
      <4>2. t = <<t[1], t[2]>>
        BY <4>1
      <4>3. t[2] \in DOMAIN d /\ d[t[2]] = t[1]
        BY <3>2, <4>1
      <4> QED BY <4>2, <4>3
    <3> HIDE DEF T, f
    <3>8. f \in Bijection(S, T)
      BY <3>5, <3>6, <3>7 DEF Bijection, Injection, IsInjective, Surjection
    <3>9. IsFiniteSet(S) /\ ExistsBijection(S, T)
      BY <3>4, <3>8, FiniteOperands, FS_Subset DEF ExistsBijection
    <3> HIDE DEF S
    <3>10. Cardinality(T) = Cardinality(S)
      BY <3>9, FS_Bijection
    <3> QED BY <1>1, <2>3, <3>10 DEF S, T
  <2> QED BY <2>2, <2>3
<1> QED BY <1>8, <1>9, <1>10

(* do_scheduling preserves the invariant.                                  *)
LEMMA SchedulingKeeps == ASSUME IInv, NEW i \in RobIndex, do_scheduling(i) PROVE IInv'
<1> DEFINE d == reg_dependency(i)
<1>1. /\ RobTyped' /\ \A p \in RobIndex : SameMem(rob[p], rob'[p])
      /\ Used(i) /\ rob[i].scheduled = "NO"
      /\ rob'[i].reg_ready <=> DOMAIN d = {}
      /\ rob'[i].num_reg_dependent = Cardinality(DOMAIN d)
      /\ rob'[i].scheduled = IF is_memory(rob[i]) THEN "INFLIGHT" ELSE "COMPLETED"
      /\ \A p \in RobIndex : rob'[p].executed = rob[p].executed
      /\ \A p \in RobIndex \ {i} : /\ rob'[p].scheduled = rob[p].scheduled
                                   /\ rob'[p].reg_ready = rob[p].reg_ready
                                   /\ rob'[p].num_reg_dependent = rob[p].num_reg_dependent
  BY SchedulingRob
<1>2. /\ retired' = retired /\ next' = next /\ rte0' = rte0
      /\ lq' = lq /\ lq_occupancy' = lq_occupancy /\ rtl0' = rtl0
      /\ sq' = sq /\ sq_tail' = sq_tail /\ sq_occupancy' = sq_occupancy /\ sta' = sta
      /\ rts0' = rts0 /\ inflight' = inflight /\ last_store' = last_store /\ memory' = memory
      /\ IF DOMAIN d = {} /\ ~ is_memory(rob[i])
         THEN rte1' = PushReady(rte1, i) /\ failed' = failed \cup RingFull(rte1)
         ELSE rte1' = rte1 /\ failed' = failed
  BY DEF do_scheduling, loadVars, storeVars
<1>3. DOMAIN d \in SUBSET Source
  <2>1. retired \in Nat
    BY DEF IInv, RobTyped
  <2> QED BY <2>1, ProducersAre
<1> HIDE DEF d
<1>4. retired \in Nat /\ RobTyped /\ Ring /\ RegInv /\ QueuesTyped /\ LoadInv /\ StoreInv /\ DataInv
      /\ Failures
  BY DEF IInv, RobTyped
<1>5. /\ \A p \in RobIndex : SameInstr(rob[p], rob'[p])
      /\ \A p \in RobIndex : Used(p)' <=> Used(p)
      /\ \A p \in RobIndex : is_memory(rob'[p]) <=> is_memory(rob[p])
  <2>1. \A p \in RobIndex : SameInstr(rob[p], rob'[p])
    BY <1>1 DEF SameMem
  <2> QED BY <1>2, <2>1, SameWriters
<1>6. Ring'
  <2>1. UNCHANGED <<next, retired>>
    BY <1>2
  <2>2. \A p \in RobIndex : ~ Used(p) => /\ rob'[p].scheduled = rob[p].scheduled
                                         /\ rob'[p].executed = rob[p].executed
    BY <1>1
  <2> QED BY <1>4, <1>5, <2>1, <2>2, RingKept
<1>7. Registered' /\ NearestKnown' /\ DependencesCounted'
  BY SchedulingDeps
<1>8. Phases'
  <2> SUFFICES ASSUME NEW p \in RobIndex
               PROVE  /\ rob'[p].reg_ready
                           <=> rob'[p].scheduled # "NO" /\ rob'[p].num_reg_dependent = 0
                      /\ Started(rob'[p]) => rob'[p].reg_ready
                      /\ ~ is_memory(rob'[p]) => rob'[p].scheduled # "INFLIGHT"
                      /\ is_memory(rob'[p]) /\ Used(p)' =>
                            /\ rob'[p].scheduled = "COMPLETED" <=> AllAdded(rob'[p])
                            /\ rob'[p].executed # "NO" <=> rob'[p].scheduled = "COMPLETED"
                      /\ rob'[p].executed = "COMPLETED" => rob'[p].num_mem_ops = 0
    BY DEF Phases
  <2>1. /\ rob[p].reg_ready <=> rob[p].scheduled # "NO" /\ rob[p].num_reg_dependent = 0
        /\ Started(rob[p]) => rob[p].reg_ready
        /\ ~ is_memory(rob[p]) => rob[p].scheduled # "INFLIGHT"
        /\ is_memory(rob[p]) /\ Used(p) =>
              /\ rob[p].scheduled = "COMPLETED" <=> AllAdded(rob[p])
              /\ rob[p].executed # "NO" <=> rob[p].scheduled = "COMPLETED"
        /\ rob[p].executed = "COMPLETED" => rob[p].num_mem_ops = 0
    BY <1>4 DEF RegInv, Phases
  <2>2. /\ Started(rob'[p]) <=> Started(rob[p])
        /\ AllAdded(rob'[p]) <=> AllAdded(rob[p])
        /\ rob'[p].num_mem_ops = rob[p].num_mem_ops
    BY <1>1 DEF Started, AllAdded, SameMem, SameInstr
  <2>3. CASE p = i
    <3>1. IsFiniteSet(DOMAIN d)
      BY <1>3, FiniteOperands, FS_Subset
    <3>2. Cardinality(DOMAIN d) = 0 <=> DOMAIN d = {}
      BY <3>1, FS_EmptySet
    <3> QED BY <1>1, <1>5, <2>1, <2>2, <2>3, <3>2
  <2>4. CASE p # i
    BY <1>1, <1>5, <2>1, <2>2, <2>4
  <2> QED BY <2>3, <2>4
<1>9. /\ \A p \in RobIndex : ReadyToExecute(p) => ReadyToExecute(p)'
      /\ ~ ReadyToExecute(i)
      /\ DOMAIN d = {} /\ ~ is_memory(rob[i]) => ReadyToExecute(i)'
  <2>1. ~ rob[i].reg_ready /\ rob[i].executed = "NO"
    BY <1>1, <1>4 DEF RegInv, Phases, Started, RobTyped, EntryType, Phase
  <2> QED BY <1>1, <1>5, <2>1 DEF ReadyToExecute
<1>10. rte0 \in Seq(RobIndex) /\ rte1 \in Seq(RobIndex) /\ ReadyQueues
  BY <1>4 DEF RobTyped, RegInv
<1>11. ReadyQueues' /\ failed' = failed
  <2>1. ~ In(rte0, i) /\ ~ In(rte1, i)
    BY <1>9, <1>10 DEF ReadyQueues
  <2>2. CASE rte1' = rte1 /\ failed' = failed
    BY <1>2, <1>9, <1>10, <2>2 DEF ReadyQueues
  <2>3. CASE /\ rte1' = PushReady(rte1, i) /\ failed' = failed \cup RingFull(rte1)
             /\ DOMAIN d = {} /\ ~ is_memory(rob[i])
    <3>1. Len(rte1) + Cardinality({i}) <= ROB_SIZE
      BY <1>10, <2>1, RoomFor DEF ReadyQueues
    <3>2. Len(rte1) # ROB_SIZE
      <4>1. Cardinality({i}) = 1
        BY FS_Singleton
      <4> QED BY <1>10, <3>1, <4>1, Sizes
    <3>3. rte1' = Append(rte1, i) /\ failed' = failed
      BY <2>3, <3>2 DEF PushReady, RingFull
    <3>4. /\ \A p : In(Append(rte1, i), p) <=> In(rte1, p) \/ p = i
          /\ Distinct(Append(rte1, i))
      BY <1>10, <2>1, AppendItems DEF ReadyQueues
    <3> QED BY <1>2, <1>9, <1>10, <2>1, <2>3, <3>3, <3>4 DEF ReadyQueues
  <2> QED BY <1>2, <2>2, <2>3
<1>12. RegCounted'
  <2>1. {p \in RobIndex : ~ is_memory(rob'[p]) /\ rob'[p].executed = "INFLIGHT"}
          = {p \in RobIndex : ~ is_memory(rob[p]) /\ rob[p].executed = "INFLIGHT"}
    BY <1>1, <1>5
  <2> QED BY <1>2, <1>4, <2>1 DEF RegCounted, RegInv
<1>13. MemCounted'
  <2>1. {p \in RobIndex : is_memory(rob'[p]) /\ rob'[p].num_mem_ops = 0
                            /\ rob'[p].executed = "INFLIGHT"}
          = {p \in RobIndex : is_memory(rob[p]) /\ rob[p].num_mem_ops = 0
                                /\ rob[p].executed = "INFLIGHT"}
    BY <1>1, <1>5 DEF SameMem
  <2> QED BY <1>2, <1>4, <2>1 DEF MemCounted, DataInv
<1>14. /\ QueuesTyped' /\ LoadInv' /\ StoreInv'
       /\ Expected' /\ LastStores' /\ Values(rob, lq)' /\ OperationsCounted(rob, lq, sq)'
       /\ Producers(rob, lq, sq)' /\ MemoryListed(rob)'
  BY <1>1, <1>2, <1>4, SameMemory DEF DataInv
<1>15. RegInv' /\ DataInv' /\ Failures'
  BY <1>4, <1>7, <1>8, <1>11, <1>12, <1>13, <1>14 DEF RegInv, DataInv, Failures
<1> QED BY <1>1, <1>6, <1>14, <1>15 DEF IInv

-----------------------------------------------------------------------------
(* Execution *)

(* What the step from ready to executing leaves of the entries             *)
LEMMA ExecutionRob ==
    ASSUME IInv, NEW i \in RobIndex, do_execution(i), ReadyToExecute(i),
           rte0' \in Seq(RobIndex), rte1' \in Seq(RobIndex)
    PROVE  /\ RobTyped' /\ \A p \in RobIndex : SameMem(rob[p], rob'[p])
           /\ rob'[i].executed = "INFLIGHT"
           /\ \A p \in RobIndex : /\ SameDeps(rob[p], rob'[p])
                                  /\ rob'[p].reg_ready <=> rob[p].reg_ready
                                  /\ rob'[p].scheduled = rob[p].scheduled
                                  /\ p # i => rob'[p].executed = rob[p].executed
<1>1. rob \in [RobIndex -> EntryType] /\ inflight \in [reg : Int, mem : Int]
  BY DEF IInv, RobTyped
<1>2. /\ rob' = [rob EXCEPT ![i].executed = "INFLIGHT"]
      /\ inflight' = [inflight EXCEPT !.reg = @ + 1]
      /\ next' = next /\ retired' = retired /\ last_store' = last_store /\ memory' = memory
  BY DEF do_execution
<1>3. rob[i].executed = "NO"
  BY DEF ReadyToExecute
<1>4. rob[i] \in EntryType /\ rob'[i] = [rob[i] EXCEPT !.executed = "INFLIGHT"]
  BY <1>1, <1>2
<1>5. \A p \in RobIndex : p # i => rob'[p] = rob[p]
  BY <1>1, <1>2
<1>6. /\ rob'[i] \in EntryType /\ SameMem(rob[i], rob'[i]) /\ SameDeps(rob[i], rob'[i])
      /\ rob'[i].reg_ready = rob[i].reg_ready /\ rob'[i].scheduled = rob[i].scheduled
      /\ rob'[i].executed = "INFLIGHT"
  BY <1>3, <1>4 DEF EntryType, Phase, SameMem, SameDeps, SameInstr
<1>7. \A p \in RobIndex : p # i => SameMem(rob[p], rob'[p]) /\ SameDeps(rob[p], rob'[p])
  BY <1>5 DEF SameMem, SameDeps, SameInstr
<1>8. rob' \in [RobIndex -> EntryType]
  BY <1>1, <1>2, <1>6
<1>9. inflight' \in [reg : Int, mem : Int]
  BY <1>1, <1>2
<1>10. RobTyped'
  BY <1>2, <1>8, <1>9 DEF IInv, RobTyped
<1> QED BY <1>5, <1>6, <1>7, <1>10

(* do_execution preserves the invariant whichever queue it pops.           *)
LEMMA ExecutionKeeps ==
    ASSUME IInv, NEW i \in RobIndex, do_execution(i), ReadyToExecute(i),
           rte0' \in Seq(RobIndex), rte1' \in Seq(RobIndex), Distinct(rte0'), Distinct(rte1'),
           \A p \in RobIndex : In(rte0', p) => In(rte0, p) /\ p # i,
           \A p \in RobIndex : In(rte1', p) => In(rte1, p) /\ p # i
    PROVE  IInv'
<1>1. /\ RobTyped' /\ \A p \in RobIndex : SameMem(rob[p], rob'[p])
      /\ rob'[i].executed = "INFLIGHT"
      /\ \A p \in RobIndex : /\ SameDeps(rob[p], rob'[p])
                             /\ rob'[p].reg_ready <=> rob[p].reg_ready
                             /\ rob'[p].scheduled = rob[p].scheduled
                             /\ p # i => rob'[p].executed = rob[p].executed
  BY ExecutionRob
<1>2. /\ retired' = retired /\ next' = next
      /\ lq' = lq /\ lq_occupancy' = lq_occupancy /\ rtl0' = rtl0
      /\ sq' = sq /\ sq_tail' = sq_tail /\ sq_occupancy' = sq_occupancy /\ sta' = sta
      /\ rts0' = rts0 /\ last_store' = last_store /\ memory' = memory /\ failed' = failed
      /\ inflight' = [inflight EXCEPT !.reg = @ + 1]
  BY DEF do_execution, loadVars, storeVars
<1>3. retired \in Nat /\ RobTyped /\ Ring /\ RegInv /\ QueuesTyped /\ LoadInv /\ StoreInv
      /\ DataInv /\ Failures /\ ReadyQueues
  BY DEF IInv, RobTyped, RegInv
<1>4. /\ Used(i) /\ ~ is_memory(rob[i]) /\ rob[i].executed = "NO" /\ rob[i].reg_ready
      /\ inflight'.reg = inflight.reg + 1 /\ inflight'.mem = inflight.mem
  BY <1>2, <1>3 DEF ReadyToExecute, RobTyped
<1>5. /\ \A p \in RobIndex : SameInstr(rob[p], rob'[p])
      /\ \A p \in RobIndex : Used(p)' <=> Used(p)
      /\ \A p \in RobIndex : is_memory(rob'[p]) <=> is_memory(rob[p])
  <2>1. \A p \in RobIndex : SameInstr(rob[p], rob'[p])
    BY <1>1 DEF SameMem
  <2> QED BY <1>2, <2>1, SameWriters
<1>6. Ring'
  <2>1. UNCHANGED <<next, retired>>
    BY <1>2
  <2>2. \A p \in RobIndex : ~ Used(p) => /\ rob'[p].scheduled = rob[p].scheduled
                                         /\ rob'[p].executed = rob[p].executed
    BY <1>1, <1>4
  <2> QED BY <1>3, <1>5, <2>1, <2>2, RingKept
<1>7. Registered' /\ NearestKnown' /\ DependencesCounted'
  BY <1>1, <1>2, <1>3, SameDependences DEF RegInv
<1>8. Phases'
  <2> SUFFICES ASSUME NEW p \in RobIndex
               PROVE  /\ rob'[p].reg_ready
                           <=> rob'[p].scheduled # "NO" /\ rob'[p].num_reg_dependent = 0
                      /\ Started(rob'[p]) => rob'[p].reg_ready
                      /\ ~ is_memory(rob'[p]) => rob'[p].scheduled # "INFLIGHT"
                      /\ is_memory(rob'[p]) /\ Used(p)' =>
                            /\ rob'[p].scheduled = "COMPLETED" <=> AllAdded(rob'[p])
                            /\ rob'[p].executed # "NO" <=> rob'[p].scheduled = "COMPLETED"
                      /\ rob'[p].executed = "COMPLETED" => rob'[p].num_mem_ops = 0
    BY DEF Phases
  <2>1. /\ rob[p].reg_ready <=> rob[p].scheduled # "NO" /\ rob[p].num_reg_dependent = 0
        /\ Started(rob[p]) => rob[p].reg_ready
        /\ ~ is_memory(rob[p]) => rob[p].scheduled # "INFLIGHT"
        /\ is_memory(rob[p]) /\ Used(p) =>
              /\ rob[p].scheduled = "COMPLETED" <=> AllAdded(rob[p])
              /\ rob[p].executed # "NO" <=> rob[p].scheduled = "COMPLETED"
        /\ rob[p].executed = "COMPLETED" => rob[p].num_mem_ops = 0
    BY <1>3 DEF RegInv, Phases
  <2>2. /\ AllAdded(rob'[p]) <=> AllAdded(rob[p])
        /\ rob'[p].num_mem_ops = rob[p].num_mem_ops
        /\ rob'[p].num_reg_dependent = rob[p].num_reg_dependent
    BY <1>1 DEF AllAdded, SameMem, SameInstr, SameDeps
  <2>3. CASE p = i
    BY <1>1, <1>4, <1>5, <2>1, <2>2, <2>3
  <2>4. CASE p # i
    <3>1. Started(rob'[p]) <=> Started(rob[p])
      BY <1>1, <2>4 DEF Started, SameMem
    <3> QED BY <1>1, <1>5, <2>1, <2>2, <2>4, <3>1
  <2> QED BY <2>3, <2>4
<1>9. ReadyQueues'
  <2>1. \A p \in RobIndex : p # i /\ ReadyToExecute(p) => ReadyToExecute(p)'
    BY <1>1, <1>5 DEF ReadyToExecute
  <2> QED BY <1>3, <2>1 DEF ReadyQueues
<1>10. RegCounted'
  <2> DEFINE S == {p \in RobIndex : ~ is_memory(rob[p]) /\ rob[p].executed = "INFLIGHT"}
             T == {p \in RobIndex : ~ is_memory(rob'[p]) /\ rob'[p].executed = "INFLIGHT"}
  <2>1. T = S \cup {i} /\ i \notin S
    BY <1>1, <1>4, <1>5
  <2>2. IsFiniteSet(S)
    BY Sizes, FS_Subset
  <2>3. inflight.reg = Cardinality(S)
    BY <1>3 DEF RegInv, RegCounted
  <2> HIDE DEF S
  <2>4. Cardinality(S \cup {i}) = Cardinality(S) + 1
    BY <2>1, <2>2, FS_AddElement
  <2>5. inflight'.reg = Cardinality(T)
    BY <1>4, <2>1, <2>3, <2>4
  <2> QED BY <2>5 DEF RegCounted
<1>11. MemCounted'
  <2>1. {p \in RobIndex : is_memory(rob'[p]) /\ rob'[p].num_mem_ops = 0
                            /\ rob'[p].executed = "INFLIGHT"}
          = {p \in RobIndex : is_memory(rob[p]) /\ rob[p].num_mem_ops = 0
                                /\ rob[p].executed = "INFLIGHT"}
    BY <1>1, <1>4, <1>5 DEF SameMem
  <2> QED BY <1>3, <1>4, <2>1 DEF MemCounted, DataInv
<1>12. /\ QueuesTyped' /\ LoadInv' /\ StoreInv'
       /\ Expected' /\ LastStores' /\ Values(rob, lq)' /\ OperationsCounted(rob, lq, sq)'
       /\ Producers(rob, lq, sq)' /\ MemoryListed(rob)'
  BY <1>1, <1>2, <1>3, SameMemory DEF DataInv
<1>13. RegInv' /\ DataInv' /\ Failures'
  BY <1>2, <1>3, <1>7, <1>8, <1>9, <1>10, <1>11, <1>12 DEF RegInv, DataInv, Failures
<1> QED BY <1>1, <1>6, <1>12, <1>13 DEF IInv

(* Both queues of execute_instruction preserve the invariant.              *)
LEMMA ExecuteKeeps == ASSUME IInv, ExecuteRte0 \/ ExecuteRte1 PROVE IInv'
<1>1. /\ rte0 \in Seq(RobIndex) /\ rte1 \in Seq(RobIndex) /\ ReadyQueues
      /\ Distinct(rte0) /\ Distinct(rte1)
  BY DEF IInv, RobTyped, RegInv, ReadyQueues
<1>2. CASE ExecuteRte0
  <2> DEFINE i == Head(rte0)
  <2>1. rte0 # <<>> /\ rte0' = Tail(rte0) /\ rte1' = rte1 /\ do_execution(i)
    BY <1>2 DEF ExecuteRte0
  <2>2. /\ Tail(rte0) \in Seq(RobIndex) /\ i \in RobIndex /\ In(rte0, i)
        /\ \A p : In(Tail(rte0), p) <=> In(rte0, p) /\ p # i
        /\ Distinct(Tail(rte0))
    BY <1>1, <2>1, TailItems
  <2> HIDE DEF i
  <2>3. ReadyToExecute(i) /\ ~ In(rte1, i)
    BY <1>1, <2>2 DEF ReadyQueues
  <2>4. /\ \A p \in RobIndex : In(rte0', p) => In(rte0, p) /\ p # i
        /\ \A p \in RobIndex : In(rte1', p) => In(rte1, p) /\ p # i
    BY <2>1, <2>2, <2>3
  <2>5. rte0' \in Seq(RobIndex) /\ rte1' \in Seq(RobIndex) /\ Distinct(rte0') /\ Distinct(rte1')
    BY <1>1, <2>1, <2>2
  <2> QED BY <2>1, <2>2, <2>3, <2>4, <2>5, ExecutionKeeps
<1>3. CASE ExecuteRte1
  <2> DEFINE i == Head(rte1)
  <2>1. rte1 # <<>> /\ rte1' = Tail(rte1) /\ rte0' = rte0 /\ do_execution(i)
    BY <1>3 DEF ExecuteRte1
  <2>2. /\ Tail(rte1) \in Seq(RobIndex) /\ i \in RobIndex /\ In(rte1, i)
        /\ \A p : In(Tail(rte1), p) <=> In(rte1, p) /\ p # i
        /\ Distinct(Tail(rte1))
    BY <1>1, <2>1, TailItems
  <2> HIDE DEF i
  <2>3. ReadyToExecute(i) /\ ~ In(rte0, i)
    BY <1>1, <2>2 DEF ReadyQueues
  <2>4. /\ \A p \in RobIndex : In(rte0', p) => In(rte0, p) /\ p # i
        /\ \A p \in RobIndex : In(rte1', p) => In(rte1, p) /\ p # i
    BY <2>1, <2>2, <2>3
  <2>5. rte0' \in Seq(RobIndex) /\ rte1' \in Seq(RobIndex) /\ Distinct(rte0') /\ Distinct(rte1')
    BY <1>1, <2>1, <2>2
  <2> QED BY <2>1, <2>2, <2>3, <2>4, <2>5, ExecutionKeeps
<1> QED BY <1>2, <1>3

-----------------------------------------------------------------------------
(* Completion *)

(* A queue of indices after several pushes                                 *)
LEMMA ConcatItems ==
    ASSUME NEW X, NEW q \in Seq(X), NEW c \in Nat, NEW f \in [1 .. c -> X],
           Distinct(q), \A m, n \in 1 .. c : f[m] = f[n] => m = n,
           \A m \in 1 .. c : ~ In(q, f[m])
    PROVE  /\ q \o f \in Seq(X) /\ Len(f) = c /\ Distinct(q \o f)
           /\ \A x : In(q \o f, x) <=> In(q, x) \/ \E m \in 1 .. c : f[m] = x
<1> DEFINE n == Len(q)
           r == q \o f
<1>1. f \in Seq(X) /\ Len(f) = c /\ n \in Nat /\ DOMAIN q = 1 .. n /\ DOMAIN f = 1 .. c
  OBVIOUS
<1>2. r \in Seq(X) /\ Len(r) = n + c
  BY <1>1, ConcatProperties
<1>3. DOMAIN r = 1 .. n + c /\ \A m \in 1 .. n + c : r[m] = IF m <= n THEN q[m] ELSE f[m - n]
  BY <1>1, <1>2
<1>4. /\ \A m \in 1 .. n : m \in 1 .. n + c /\ r[m] = q[m]
      /\ \A m \in 1 .. c : n + m \in 1 .. n + c /\ r[n + m] = f[m]
  BY <1>1, <1>3
<1>5. \A m \in 1 .. n + c : m \in 1 .. n \/ \E k \in 1 .. c : m = n + k
  <2> SUFFICES ASSUME NEW m \in 1 .. n + c, m \notin 1 .. n
               PROVE  m - n \in 1 .. c /\ m = n + (m - n)
    OBVIOUS
  <2> QED BY <1>1
<1> HIDE DEF n, r
<1>6. \A x : In(r, x) <=> In(q, x) \/ \E m \in 1 .. c : f[m] = x
  <2> SUFFICES ASSUME NEW x PROVE In(r, x) <=> In(q, x) \/ \E m \in 1 .. c : f[m] = x
    OBVIOUS
  <2>1. ASSUME NEW m \in 1 .. n + c, r[m] = x PROVE In(q, x) \/ \E k \in 1 .. c : f[k] = x
    <3>1. CASE m \in 1 .. n
      BY <1>1, <1>4, <2>1, <3>1 DEF In
    <3>2. ASSUME NEW k \in 1 .. c, m = n + k PROVE f[k] = x
      BY <1>4, <2>1, <3>2
    <3> QED BY <1>5, <3>1, <3>2
  <2>2. ASSUME NEW m \in 1 .. n, q[m] = x PROVE In(r, x)
    <3>1. m \in 1 .. n + c /\ r[m] = x
      BY <1>4, <2>2
    <3> QED BY <1>3, <3>1 DEF In
  <2>3. ASSUME NEW k \in 1 .. c, f[k] = x PROVE In(r, x)
    <3>1. n + k \in 1 .. n + c /\ r[n + k] = x
      BY <1>4, <2>3
    <3> QED BY <1>3, <3>1 DEF In
  <2> QED BY <1>1, <1>3, <2>1, <2>2, <2>3 DEF In
<1>7. Distinct(r)
  <2> SUFFICES ASSUME NEW x \in 1 .. n + c, NEW y \in 1 .. n + c, r[x] = r[y] PROVE x = y
    BY <1>3 DEF Distinct
  <2>1. CASE x \in 1 .. n /\ y \in 1 .. n
    BY <1>1, <1>4, <2>1 DEF Distinct
  <2>2. ASSUME NEW k \in 1 .. c, x = n + k, y \in 1 .. n PROVE FALSE
    <3>1. q[y] = f[k]
      BY <1>4, <2>2
    <3> QED BY <1>1, <2>2, <3>1 DEF In
  <2>3. ASSUME NEW k \in 1 .. c, y = n + k, x \in 1 .. n PROVE FALSE
    <3>1. q[x] = f[k]
      BY <1>4, <2>3
    <3> QED BY <1>1, <2>3, <3>1 DEF In
  <2>4. ASSUME NEW k \in 1 .. c, NEW m \in 1 .. c, x = n + k, y = n + m PROVE x = y
    BY <1>4, <2>4
  <2> QED BY <1>5, <2>1, <2>2, <2>3, <2>4
<1> QED BY <1>1, <1>2, <1>6, <1>7 DEF r

(* The entries p's completion wakes *)
WokenBy(p) == {i \in RobIndex : /\ ReleasedBy(p, i) # {}
                                /\ rob[i].num_reg_dependent = Cardinality(ReleasedBy(p, i))}

(* The operands an entry wakes are finitely many and wait for it.          *)
LEMMA ReleasedAre ==
    ASSUME IInv, NEW p \in RobIndex, NEW i \in RobIndex
    PROVE  /\ ReleasedBy(p, i) \in SUBSET Source /\ IsFiniteSet(ReleasedBy(p, i))
           /\ Cardinality(ReleasedBy(p, i)) \in Nat
           /\ Cardinality(ReleasedBy(p, i)) = 0 <=> ReleasedBy(p, i) = {}
           /\ ReleasedBy(p, i) # {} => p \in Before(i) /\ Used(i) /\ rob[i].scheduled # "NO" /\ p # i
<1>1. ReleasedBy(p, i) \in SUBSET Source
  BY DEF ReleasedBy
<1>2. IsFiniteSet(ReleasedBy(p, i))
  BY <1>1, FiniteOperands, FS_Subset
<1>3. ReleasedBy(p, i) # {} => p \in Before(i) /\ Used(i) /\ rob[i].scheduled # "NO"
  BY DEF IInv, RegInv, Registered, ReleasedBy
<1>4. i \notin Before(i)
  BY UsedIs DEF IInv, Before
<1> QED BY <1>1, <1>2, <1>3, <1>4, FS_CardinalityType, FS_EmptySet

(* complete_execution, field by field                                      *)
LEMMA CompletionRob ==
    ASSUME IInv, NEW p \in RobIndex, complete_execution(p)
    PROVE  /\ rob' \in [RobIndex -> EntryType] /\ \A i \in RobIndex : SameMem(rob[i], rob'[i])
           /\ Used(p) /\ rob[p].executed = "INFLIGHT" /\ rob'[p].executed = "COMPLETED"
           /\ LET woken == Ascending({i \in WokenBy(p) : ~ is_memory(rob[i])})
              IN  /\ rte0' = rte0 \o woken
                  /\ failed' = failed \cup (IF Len(rte0) + Len(woken) > ROB_SIZE
                                            THEN {"ready queue full"} ELSE {})
           /\ \A i \in RobIndex :
                 /\ rob'[i].registers_depend_on_me = rob[i].registers_depend_on_me
                 /\ rob'[i].num_reg_dependent
                       = rob[i].num_reg_dependent - Cardinality(ReleasedBy(p, i))
                 /\ i # p => rob'[i].executed = rob[i].executed
                 /\ IF i \in WokenBy(p)
                    THEN /\ rob'[i].reg_ready
                         /\ rob'[i].scheduled = IF is_memory(rob[i]) THEN "INFLIGHT"
                                                ELSE "COMPLETED"
                    ELSE /\ rob'[i].reg_ready <=> rob[i].reg_ready
                         /\ rob'[i].scheduled = rob[i].scheduled
<1> DEFINE Num(i) == rob[i].num_reg_dependent - Cardinality(ReleasedBy(p, i))
           Released(i) == [rob[i] EXCEPT !.num_reg_dependent = Num(i)]
           Ready(i) == [rob[i] EXCEPT !.num_reg_dependent = Num(i), !.reg_ready = TRUE,
                                      !.scheduled = IF is_memory(rob[i]) THEN "INFLIGHT"
                                                    ELSE "COMPLETED"]
<1>1. rob \in [RobIndex -> EntryType]
  BY DEF IInv, RobTyped
<1>2. \A i \in RobIndex : rob[i] \in EntryType /\ Num(i) \in Int
  <2> SUFFICES ASSUME NEW i \in RobIndex PROVE rob[i] \in EntryType /\ Num(i) \in Int
    OBVIOUS
  <2>1. rob[i] \in EntryType /\ rob[i].num_reg_dependent \in Int
    BY <1>1 DEF EntryType
  <2>2. Cardinality(ReleasedBy(p, i)) \in Nat
    BY ReleasedAre
  <2> QED BY <2>1, <2>2
<1>3. ReleasedBy(p, p) = {} /\ p \notin WokenBy(p)
  BY ReleasedAre DEF WokenBy
<1>4. \A i \in RobIndex : i \in WokenBy(p) <=> ReleasedBy(p, i) # {} /\ Num(i) = 0
  <2> SUFFICES ASSUME NEW i \in RobIndex
               PROVE  rob[i].num_reg_dependent = Cardinality(ReleasedBy(p, i)) <=> Num(i) = 0
    BY DEF WokenBy
  <2>1. rob[i].num_reg_dependent \in Int /\ Cardinality(ReleasedBy(p, i)) \in Nat
    BY <1>2, ReleasedAre DEF EntryType
  <2> QED BY <2>1
<1> DEFINE waked == {i \in RobIndex : ReleasedBy(p, i) # {} /\ Released(i).num_reg_dependent = 0}
<1>5. \A i \in RobIndex : Released(i).num_reg_dependent = Num(i)
  BY <1>2 DEF EntryType
<1>6. waked = WokenBy(p)
  <2>1. waked = {i \in RobIndex : ReleasedBy(p, i) # {} /\ Num(i) = 0}
    BY <1>5
  <2> QED BY <1>4, <2>1 DEF WokenBy
<1>7. /\ Used(p) /\ rob[p].executed = "INFLIGHT"
      /\ rob' = [i \in RobIndex |-> IF i = p THEN [rob[p] EXCEPT !.executed = "COMPLETED"]
                   ELSE IF i \in waked
                        THEN [Released(i) EXCEPT !.reg_ready = TRUE,
                                                 !.scheduled = IF is_memory(rob[i])
                                                               THEN "INFLIGHT"
                                                               ELSE "COMPLETED"]
                        ELSE Released(i)]
      /\ LET woken == Ascending({i \in waked : ~ is_memory(rob[i])})
         IN  /\ rte0' = rte0 \o woken
             /\ failed' = failed \cup (IF Len(rte0) + Len(woken) > ROB_SIZE
                                       THEN {"ready queue full"} ELSE {})
  BY DEF complete_execution
<1> HIDE DEF waked
<1>8. rob' = [i \in RobIndex |-> IF i = p THEN [rob[p] EXCEPT !.executed = "COMPLETED"]
                ELSE IF i \in WokenBy(p) THEN Ready(i) ELSE Released(i)]
  <2>1. \A i \in RobIndex :
          [Released(i) EXCEPT !.reg_ready = TRUE,
                              !.scheduled = IF is_memory(rob[i]) THEN "INFLIGHT" ELSE "COMPLETED"]
            = Ready(i)
    BY <1>2 DEF EntryType
  <2> QED BY <1>6, <1>7, <2>1
<1> HIDE DEF Num
<1>9. ASSUME NEW i \in RobIndex, i # p
      PROVE  /\ rob'[i] \in EntryType /\ SameMem(rob[i], rob'[i])
             /\ rob'[i].registers_depend_on_me = rob[i].registers_depend_on_me
             /\ rob'[i].num_reg_dependent = Num(i)
             /\ rob'[i].executed = rob[i].executed
             /\ IF i \in WokenBy(p)
                THEN /\ rob'[i].reg_ready
                     /\ rob'[i].scheduled = IF is_memory(rob[i]) THEN "INFLIGHT" ELSE "COMPLETED"
                ELSE /\ rob'[i].reg_ready = rob[i].reg_ready
                     /\ rob'[i].scheduled = rob[i].scheduled
  <2>1. rob[i] \in EntryType /\ Num(i) \in Int
    BY <1>2
  <2>2. CASE i \in WokenBy(p)
    <3>1. rob'[i] = Ready(i)
      BY <1>8, <1>9, <2>2
    <3> QED BY <2>1, <2>2, <3>1 DEF EntryType, Phase, SameMem, SameInstr
  <2>3. CASE i \notin WokenBy(p)
    <3>1. rob'[i] = Released(i)
      BY <1>8, <1>9, <2>3
    <3> QED BY <2>1, <2>3, <3>1 DEF EntryType, SameMem, SameInstr
  <2> QED BY <2>2, <2>3
<1>10. /\ rob'[p] \in EntryType /\ SameMem(rob[p], rob'[p])
       /\ rob'[p].registers_depend_on_me = rob[p].registers_depend_on_me
       /\ rob'[p].num_reg_dependent = Num(p)
       /\ rob'[p].executed = "COMPLETED"
       /\ rob'[p].reg_ready = rob[p].reg_ready
       /\ rob'[p].scheduled = rob[p].scheduled
  <2>1. rob'[p] = [rob[p] EXCEPT !.executed = "COMPLETED"] /\ rob[p] \in EntryType
    BY <1>1, <1>8
  <2>2. Num(p) = rob[p].num_reg_dependent
    <3>1. Cardinality(ReleasedBy(p, p)) = 0
      BY <1>3, ReleasedAre
    <3> QED BY <1>2, <3>1 DEF Num, EntryType
  <2> QED BY <2>1, <2>2 DEF EntryType, Phase, SameMem, SameInstr
<1>11. rob' \in [RobIndex -> EntryType]
  <2>1. rob' \in [RobIndex -> EntryType] <=> \A i \in RobIndex : rob'[i] \in EntryType
    BY <1>8
  <2> QED BY <2>1, <1>9, <1>10
<1>12. ASSUME NEW i \in RobIndex
       PROVE  /\ SameMem(rob[i], rob'[i])
              /\ rob'[i].registers_depend_on_me = rob[i].registers_depend_on_me
              /\ rob'[i].num_reg_dependent = Num(i)
              /\ i # p => rob'[i].executed = rob[i].executed
              /\ IF i \in WokenBy(p)
                 THEN /\ rob'[i].reg_ready
                      /\ rob'[i].scheduled = IF is_memory(rob[i]) THEN "INFLIGHT" ELSE "COMPLETED"
                 ELSE /\ rob'[i].reg_ready <=> rob[i].reg_ready
                      /\ rob'[i].scheduled = rob[i].scheduled
  BY <1>3, <1>9, <1>10
<1> QED BY <1>6, <1>7, <1>10, <1>11, <1>12 DEF Num

(* An entry without memory operands waits for no operation. *)
LEMMA NoOperations ==
    ASSUME NEW r, NEW q, NEW s, OperationsCounted(r, q, s), NEW i \in RobIndex, ~ is_memory(r[i])
    PROVE  r[i].num_mem_ops = 0
<1>1. /\ {j \in Source : LoadOut(r, q, i, j)} = {}
      /\ {j \in Destination : StoreOut(r, s, i, j)} = {}
  BY DEF is_memory, LoadOut, StoreOut
<1>2. r[i].num_mem_ops = Cardinality({j \in Source : LoadOut(r, q, i, j)})
                          + Cardinality({j \in Destination : StoreOut(r, s, i, j)})
  BY DEF OperationsCounted
<1> QED BY <1>1, <1>2, FS_EmptySet

(* An entry wakes dependences that were counted, each once.                *)
LEMMA ReleasedDeps ==
    ASSUME IInv, NEW p \in RobIndex, NEW i \in RobIndex, Used(p), rob[p].executed # "COMPLETED"
    PROVE  /\ ({p} \X ReleasedBy(p, i)) \in SUBSET DepsOf(i)
           /\ IsFiniteSet(DepsOf(i)) /\ Cardinality(DepsOf(i)) \in Nat
           /\ Cardinality({p} \X ReleasedBy(p, i)) = Cardinality(ReleasedBy(p, i))
           /\ ReleasedBy(p, i) # {} => /\ rob[i].num_reg_dependent # 0
                                       /\ ~ rob[i].reg_ready /\ ~ Started(rob[i])
<1>1. /\ ReleasedBy(p, i) \in SUBSET Source /\ IsFiniteSet(ReleasedBy(p, i))
      /\ Cardinality(ReleasedBy(p, i)) \in Nat
      /\ ReleasedBy(p, i) # {} => p \in Before(i)
  BY ReleasedAre
<1>2. ASSUME NEW j \in ReleasedBy(p, i) PROVE <<p, j>> \in DepsOf(i)
  <2>1. /\ j \in Source /\ <<p, j>> \in RobIndex \X Source /\ <<i, j>> \in rob[p].registers_depend_on_me
        /\ <<p, j>>[1] = p /\ <<p, j>>[2] = j /\ p \in Before(i)
    BY <1>1 DEF ReleasedBy
  <2> QED BY <2>1 DEF DepsOf
<1>3. ({p} \X ReleasedBy(p, i)) \in SUBSET DepsOf(i)
  BY <1>2
<1>4. IsFiniteSet(DepsOf(i)) /\ Cardinality(DepsOf(i)) \in Nat
  <2>1. IsFiniteSet(RobIndex \X Source)
    BY Sizes, FiniteOperands, FS_Product
  <2>2. DepsOf(i) \in SUBSET (RobIndex \X Source)
    BY DEF DepsOf
  <2> QED BY <2>1, <2>2, FS_Subset, FS_CardinalityType
<1>5. Cardinality({p} \X ReleasedBy(p, i)) = Cardinality(ReleasedBy(p, i))
  <2>1. IsFiniteSet({p}) /\ Cardinality({p}) = 1
    BY FS_Singleton
  <2>2. Cardinality({p} \X ReleasedBy(p, i)) = 1 * Cardinality(ReleasedBy(p, i))
    BY <1>1, <2>1, FS_Product
  <2> QED BY <1>1, <2>2
<1>6. ASSUME ReleasedBy(p, i) # {}
      PROVE  rob[i].num_reg_dependent # 0 /\ ~ rob[i].reg_ready /\ ~ Started(rob[i])
  <2>1. DepsOf(i) # {}
    BY <1>2, <1>6
  <2>2. Cardinality(DepsOf(i)) # 0
    BY <1>4, <2>1, FS_EmptySet
  <2> QED BY <2>2 DEF IInv, RegInv, DependencesCounted, Phases
<1> QED BY <1>3, <1>4, <1>5, <1>6

(* complete_execution takes what it wakes from the counts.                 *)
LEMMA CompletionDeps ==
    ASSUME IInv, NEW p \in RobIndex, complete_execution(p)
    PROVE  Registered' /\ NearestKnown' /\ DependencesCounted'
<1>1. /\ \A i \in RobIndex : SameMem(rob[i], rob'[i])
      /\ Used(p) /\ rob[p].executed = "INFLIGHT" /\ rob'[p].executed = "COMPLETED"
      /\ \A i \in RobIndex :
            /\ rob'[i].registers_depend_on_me = rob[i].registers_depend_on_me
            /\ rob'[i].num_reg_dependent = rob[i].num_reg_dependent - Cardinality(ReleasedBy(p, i))
            /\ i # p => rob'[i].executed = rob[i].executed
  BY CompletionRob
<1>2. \A i \in RobIndex : rob'[i].scheduled # "NO" <=> rob[i].scheduled # "NO"
  <2> SUFFICES ASSUME NEW i \in RobIndex PROVE rob'[i].scheduled # "NO" <=> rob[i].scheduled # "NO"
    OBVIOUS
  <2>1. IF i \in WokenBy(p)
        THEN rob'[i].scheduled = IF is_memory(rob[i]) THEN "INFLIGHT" ELSE "COMPLETED"
        ELSE rob'[i].scheduled = rob[i].scheduled
    BY CompletionRob
  <2>2. i \in WokenBy(p) => rob[i].scheduled # "NO"
    BY ReleasedAre DEF WokenBy
  <2> QED BY <2>1, <2>2
<1>3. retired' = retired /\ retired \in Nat
  BY DEF complete_execution, IInv, RobTyped
<1>4. \A i \in RobIndex : SameInstr(rob[i], rob'[i])
  BY <1>1 DEF SameMem
<1>5. \A i : Before(i)' = Before(i)
  BY <1>3, BeforeKept
<1>6. /\ \A i \in RobIndex : Used(i)' <=> Used(i)
      /\ \A i \in RobIndex, j \in Source :
            /\ RegWriters(i, j)' = RegWriters(i, j)
            /\ Nearest(RegWriters(i, j))' = Nearest(RegWriters(i, j))
  BY <1>3, <1>4, SameWriters
<1>7. Registered'
  BY <1>1, <1>2, <1>5, <1>6 DEF IInv, RegInv, Registered
<1>8. NearestKnown'
  <2> SUFFICES ASSUME NEW i \in RobIndex, NEW j \in Source,
                      Used(i)', rob'[i].scheduled # "NO", RegWriters(i, j)' # {},
                      rob'[Nearest(RegWriters(i, j))'].executed # "COMPLETED"
               PROVE  <<i, j>> \in rob'[Nearest(RegWriters(i, j))'].registers_depend_on_me
    BY DEF NearestKnown
  <2> DEFINE n == Nearest(RegWriters(i, j))
  <2>1. RegWriters(i, j) # {} /\ n \in RobIndex /\ Nearest(RegWriters(i, j))' = n
    BY <1>3, <1>6, NearestIn
  <2>2. n # p /\ rob[n].executed # "COMPLETED" /\ Used(i) /\ rob[i].scheduled # "NO"
    BY <1>1, <1>2, <1>6, <2>1
  <2>3. <<i, j>> \in rob[n].registers_depend_on_me
    BY <2>1, <2>2 DEF IInv, RegInv, NearestKnown
  <2> QED BY <1>1, <2>1, <2>3
<1>9. DependencesCounted'
  <2> SUFFICES ASSUME NEW i \in RobIndex
               PROVE  rob'[i].num_reg_dependent = Cardinality(DepsOf(i)')
    BY DEF DependencesCounted
  <2> DEFINE R == {p} \X ReleasedBy(p, i)
             D == DepsOf(i)
  <2>1. DepsOf(i)' = D \ R
    <3>1. \A d \in RobIndex \X Source : d[1] \in RobIndex /\ d[2] \in Source /\ d = <<d[1], d[2]>>
      OBVIOUS
    <3>2. ASSUME NEW d \in RobIndex \X Source PROVE d \in DepsOf(i)' <=> d \in D /\ d \notin R
      <4>1. d \in R <=> d[1] = p /\ <<i, d[2]>> \in rob[p].registers_depend_on_me
        BY <3>1 DEF ReleasedBy
      <4>2. d \in D <=> /\ d[1] \in Before(i) /\ Used(d[1]) /\ rob[d[1]].executed # "COMPLETED"
                        /\ <<i, d[2]>> \in rob[d[1]].registers_depend_on_me
        BY DEF DepsOf
      <4>3. d \in DepsOf(i)' <=>
              /\ d[1] \in Before(i) /\ Used(d[1]) /\ rob'[d[1]].executed # "COMPLETED"
              /\ <<i, d[2]>> \in rob[d[1]].registers_depend_on_me
        BY <1>1, <1>5, <1>6, <3>1 DEF DepsOf
      <4>4. CASE d[1] = p
        BY <1>1, <4>1, <4>2, <4>3, <4>4
      <4>5. CASE d[1] # p
        <5>1. rob'[d[1]].executed = rob[d[1]].executed
          BY <1>1, <3>1, <4>5
        <5> QED BY <4>1, <4>2, <4>3, <4>5, <5>1
      <4> QED BY <4>4, <4>5
    <3>3. DepsOf(i)' \in SUBSET (RobIndex \X Source) /\ D \in SUBSET (RobIndex \X Source)
      BY DEF DepsOf
    <3> HIDE DEF D, R
    <3> QED BY <3>2, <3>3
  <2>2. /\ R \in SUBSET D /\ IsFiniteSet(D) /\ Cardinality(D) \in Nat
        /\ Cardinality(R) = Cardinality(ReleasedBy(p, i))
    BY <1>1, ReleasedDeps
  <2>3. rob[i].num_reg_dependent = Cardinality(D)
    BY DEF IInv, RegInv, DependencesCounted
  <2>4. rob'[i].num_reg_dependent = Cardinality(D) - Cardinality(R)
    BY <1>1, <2>2, <2>3
  <2> HIDE DEF D, R
  <2>5. D \cap R = R
    BY <2>2
  <2>6. Cardinality(D \ R) = Cardinality(D) - Cardinality(D \cap R)
    BY <2>2, FS_Difference
  <2> QED BY <2>1, <2>4, <2>5, <2>6
<1> QED BY <1>7, <1>8, <1>9

(* An entry is ready exactly when its last producer has completed.         *)
LEMMA CompletionPhases ==
    ASSUME IInv, NEW p \in RobIndex, complete_execution(p) PROVE Phases'
<1>1. /\ \A i \in RobIndex : SameMem(rob[i], rob'[i])
      /\ Used(p) /\ rob[p].executed = "INFLIGHT" /\ rob'[p].executed = "COMPLETED"
      /\ \A i \in RobIndex :
            /\ rob'[i].num_reg_dependent = rob[i].num_reg_dependent - Cardinality(ReleasedBy(p, i))
            /\ i # p => rob'[i].executed = rob[i].executed
  BY CompletionRob
<1>2. retired' = retired
  BY DEF complete_execution
<1>3. \A i \in RobIndex : SameInstr(rob[i], rob'[i])
  BY <1>1 DEF SameMem
<1>4. /\ \A i \in RobIndex : Used(i)' <=> Used(i)
      /\ \A i \in RobIndex : is_memory(rob'[i]) <=> is_memory(rob[i])
  BY <1>2, <1>3, SameWriters
<1> SUFFICES ASSUME NEW i \in RobIndex
             PROVE  /\ rob'[i].reg_ready
                         <=> rob'[i].scheduled # "NO" /\ rob'[i].num_reg_dependent = 0
                    /\ Started(rob'[i]) => rob'[i].reg_ready
                    /\ ~ is_memory(rob'[i]) => rob'[i].scheduled # "INFLIGHT"
                    /\ is_memory(rob'[i]) /\ Used(i)' =>
                          /\ rob'[i].scheduled = "COMPLETED" <=> AllAdded(rob'[i])
                          /\ rob'[i].executed # "NO" <=> rob'[i].scheduled = "COMPLETED"
                    /\ rob'[i].executed = "COMPLETED" => rob'[i].num_mem_ops = 0
  BY DEF Phases
<1>5. /\ rob[i].reg_ready <=> rob[i].scheduled # "NO" /\ rob[i].num_reg_dependent = 0
      /\ Started(rob[i]) => rob[i].reg_ready
      /\ ~ is_memory(rob[i]) => rob[i].scheduled # "INFLIGHT"
      /\ is_memory(rob[i]) /\ Used(i) =>
            /\ rob[i].scheduled = "COMPLETED" <=> AllAdded(rob[i])
            /\ rob[i].executed # "NO" <=> rob[i].scheduled = "COMPLETED"
      /\ rob[i].executed = "COMPLETED" => rob[i].num_mem_ops = 0
  BY DEF IInv, RegInv, Phases
<1>6. /\ AllAdded(rob'[i]) <=> AllAdded(rob[i])
      /\ rob'[i].num_mem_ops = rob[i].num_mem_ops
      /\ rob'[i].executed = rob[i].executed => (Started(rob'[i]) <=> Started(rob[i]))
  BY <1>1 DEF Started, AllAdded, SameMem, SameInstr
<1>7. /\ Cardinality(ReleasedBy(p, i)) \in Nat /\ rob[i].num_reg_dependent \in Int
      /\ Cardinality(ReleasedBy(p, i)) = 0 <=> ReleasedBy(p, i) = {}
      /\ ReleasedBy(p, i) # {} => /\ p # i /\ rob[i].num_reg_dependent # 0
                                  /\ ~ rob[i].reg_ready /\ ~ Started(rob[i])
  <2>1. rob[i].num_reg_dependent \in Int
    BY DEF IInv, RobTyped, EntryType
  <2>2. rob[p].executed # "COMPLETED"
    BY <1>1
  <2> QED BY <1>1, <2>1, <2>2, ReleasedAre, ReleasedDeps
<1>8. IF i \in WokenBy(p)
      THEN /\ rob'[i].reg_ready
           /\ rob'[i].scheduled = IF is_memory(rob[i]) THEN "INFLIGHT" ELSE "COMPLETED"
      ELSE /\ rob'[i].reg_ready <=> rob[i].reg_ready
           /\ rob'[i].scheduled = rob[i].scheduled
  BY CompletionRob
<1>9. CASE i \in WokenBy(p)
  <2>1. ReleasedBy(p, i) # {} /\ rob[i].num_reg_dependent = Cardinality(ReleasedBy(p, i))
    BY <1>9 DEF WokenBy
  <2>2. p # i /\ ~ Started(rob[i]) /\ rob'[i].num_reg_dependent = 0
    BY <1>1, <1>7, <2>1
  <2>3. rob[i].executed = "NO" /\ rob'[i].executed = "NO"
    BY <1>1, <2>2 DEF Started
  <2>4. is_memory(rob[i]) => ~ AllAdded(rob[i])
    BY <2>2 DEF is_memory, AllAdded, Started
  <2> QED BY <1>4, <1>6, <1>8, <1>9, <2>2, <2>3, <2>4
<1>10. CASE i \notin WokenBy(p)
  <2>1. rob'[i].reg_ready <=> rob[i].reg_ready
    BY <1>8, <1>10
  <2>2. rob'[i].scheduled = rob[i].scheduled
    BY <1>8, <1>10
  <2>3. ReleasedBy(p, i) = {} => rob'[i].num_reg_dependent = rob[i].num_reg_dependent
    <3> DEFINE r == Cardinality(ReleasedBy(p, i))
               n == rob[i].num_reg_dependent
    <3>1. n \in Int /\ r \in Nat /\ (ReleasedBy(p, i) = {} => r = 0)
      BY <1>7
    <3>2. rob'[i].num_reg_dependent = n - r
      BY <1>1
    <3> HIDE DEF n, r
    <3>3. ReleasedBy(p, i) = {} => n - r = n
      BY <3>1
    <3> QED BY <3>2, <3>3 DEF n
  <2>4. ReleasedBy(p, i) # {} => rob'[i].num_reg_dependent # 0
    <3>1. ReleasedBy(p, i) # {} => rob[i].num_reg_dependent # Cardinality(ReleasedBy(p, i))
      BY <1>10 DEF WokenBy
    <3> QED BY <1>1, <1>7, <3>1
  <2>5. rob'[i].reg_ready <=> rob'[i].scheduled # "NO" /\ rob'[i].num_reg_dependent = 0
    BY <1>5, <1>7, <2>1, <2>2, <2>3, <2>4
  <2>6. CASE i # p
    BY <1>1, <1>4, <1>5, <1>6, <2>1, <2>2, <2>5, <2>6
  <2>7. CASE i = p
    <3>1. Started(rob[p]) /\ rob[p].executed # "NO"
      BY <1>1 DEF Started
    <3>2. rob[p].num_mem_ops = 0
      <4>1. CASE is_memory(rob[p])
        BY <4>1 DEF complete_execution
      <4>2. CASE ~ is_memory(rob[p])
        BY <4>2, NoOperations DEF IInv, DataInv
      <4> QED BY <4>1, <4>2
    <3> QED BY <1>1, <1>4, <1>5, <1>6, <2>1, <2>2, <2>5, <2>7, <3>1, <3>2
  <2> QED BY <2>6, <2>7
<1> QED BY <1>9, <1>10

(* complete_execution queues an entry at most once.                        *)
LEMMA CompletionQueues ==
    ASSUME IInv, NEW p \in RobIndex, complete_execution(p)
    PROVE  ReadyQueues' /\ rte0' \in Seq(RobIndex) /\ failed' = failed
<1> DEFINE W == {i \in WokenBy(p) : ~ is_memory(rob[i])}
           c == Cardinality(W)
           f == Ascending(W)
<1>1. /\ \A i \in RobIndex : SameMem(rob[i], rob'[i])
      /\ Used(p) /\ rob[p].executed = "INFLIGHT"
      /\ \A i \in RobIndex : i # p => rob'[i].executed = rob[i].executed
      /\ rte0' = rte0 \o f
      /\ failed' = failed \cup (IF Len(rte0) + Len(f) > ROB_SIZE
                                THEN {"ready queue full"} ELSE {})
  BY CompletionRob
<1>2. retired' = retired /\ rte1' = rte1
  BY DEF complete_execution
<1>3. \A i \in RobIndex : SameInstr(rob[i], rob'[i])
  BY <1>1 DEF SameMem
<1>4. /\ \A i \in RobIndex : Used(i)' <=> Used(i)
      /\ \A i \in RobIndex : is_memory(rob'[i]) <=> is_memory(rob[i])
  BY <1>2, <1>3, SameWriters
<1>5. rte0 \in Seq(RobIndex) /\ rte1 \in Seq(RobIndex) /\ ReadyQueues
  BY DEF IInv, RobTyped, RegInv
<1>6. W \in SUBSET RobIndex
  BY DEF WokenBy
<1>7. ASSUME NEW i \in W
      PROVE  /\ i \in RobIndex /\ ~ In(rte0, i) /\ ~ In(rte1, i) /\ ReadyToExecute(i)'
  <2>1. i \in RobIndex /\ i \in WokenBy(p) /\ ReleasedBy(p, i) # {} /\ ~ is_memory(rob[i])
    BY DEF WokenBy
  <2>2. p # i /\ Used(i) /\ ~ rob[i].reg_ready /\ ~ Started(rob[i])
    <3>1. rob[p].executed # "COMPLETED"
      BY <1>1
    <3> QED BY <1>1, <2>1, <3>1, ReleasedAre, ReleasedDeps
  <2>3. ~ In(rte0, i) /\ ~ In(rte1, i)
    BY <1>5, <2>1, <2>2 DEF ReadyQueues, ReadyToExecute
  <2>4. rob'[i].executed = "NO"
    BY <1>1, <2>1, <2>2 DEF Started
  <2>5. rob'[i].reg_ready
    BY <2>1, CompletionRob
  <2> QED BY <1>4, <2>1, <2>2, <2>3, <2>4, <2>5 DEF ReadyToExecute
<1>8. ASSUME NEW i \in RobIndex, ReadyToExecute(i) PROVE ReadyToExecute(i)'
  <2>1. i # p
    BY <1>1, <1>8 DEF ReadyToExecute
  <2>2. rob'[i].reg_ready
    <3>1. IF i \in WokenBy(p) THEN rob'[i].reg_ready ELSE rob'[i].reg_ready <=> rob[i].reg_ready
      BY CompletionRob
    <3> QED BY <1>8, <3>1 DEF ReadyToExecute
  <2> QED BY <1>1, <1>4, <1>8, <2>1, <2>2 DEF ReadyToExecute
<1>9. /\ c \in Nat /\ f \in [1 .. c -> W]
      /\ \A m, n \in 1 .. c : f[m] = f[n] => m = n
  BY <1>6, AscendingIs
<1> HIDE DEF W, c, f
<1>10. f \in [1 .. c -> RobIndex]
  BY <1>6, <1>9
<1>11. \A m \in 1 .. c : ~ In(rte0, f[m])
  BY <1>7, <1>9
<1>12. Distinct(rte0) /\ Distinct(rte1)
  BY <1>5 DEF ReadyQueues
<1>13. /\ rte0 \o f \in Seq(RobIndex) /\ Len(f) = c /\ Distinct(rte0 \o f)
       /\ \A x : In(rte0 \o f, x) <=> In(rte0, x) \/ \E m \in 1 .. c : f[m] = x
  <2>1. /\ c \in Nat /\ rte0 \in Seq(RobIndex) /\ Distinct(rte0)
        /\ \A m, n \in 1 .. c : f[m] = f[n] => m = n
    BY <1>5, <1>9, <1>12
  <2> QED BY <1>10, <1>11, <2>1, ConcatItems
<1>14. \A x : In(rte0 \o f, x) => In(rte0, x) \/ x \in W
  BY <1>9, <1>13
<1>15. Len(rte0) + c <= ROB_SIZE
  BY <1>5, <1>6, <1>7, <1>12, RoomFor DEF c
<1>16. failed' = failed
  <2>1. Len(rte0) \in Nat /\ ROB_SIZE \in Nat
    BY <1>5, Sizes
  <2>2. ~ (Len(rte0) + Len(f) > ROB_SIZE)
    BY <1>9, <1>13, <1>15, <2>1
  <2> QED BY <1>1, <2>2
<1>17. ReadyQueues'
  <2>1. ASSUME NEW x \in RobIndex, In(rte0', x) \/ In(rte1', x) PROVE ReadyToExecute(x)'
    BY <1>1, <1>2, <1>5, <1>7, <1>8, <1>14, <2>1 DEF ReadyQueues
  <2>2. ASSUME NEW x \in RobIndex, In(rte0', x), In(rte1', x) PROVE FALSE
    BY <1>1, <1>2, <1>5, <1>7, <1>14, <2>2 DEF ReadyQueues
  <2> QED BY <1>1, <1>2, <1>12, <1>13, <2>1, <2>2 DEF ReadyQueues
<1> QED BY <1>1, <1>13, <1>16, <1>17

(* complete_execution preserves the invariant.                             *)
LEMMA CompletionKeeps == ASSUME IInv, NEW p \in RobIndex, complete_execution(p) PROVE IInv'
<1>1. /\ rob' \in [RobIndex -> EntryType] /\ \A i \in RobIndex : SameMem(rob[i], rob'[i])
      /\ Used(p) /\ rob[p].executed = "INFLIGHT" /\ rob'[p].executed = "COMPLETED"
      /\ \A i \in RobIndex : i # p => rob'[i].executed = rob[i].executed
  BY CompletionRob
<1>2. /\ retired' = retired /\ next' = next /\ rte1' = rte1
      /\ lq' = lq /\ lq_occupancy' = lq_occupancy /\ rtl0' = rtl0
      /\ sq' = sq /\ sq_tail' = sq_tail /\ sq_occupancy' = sq_occupancy /\ sta' = sta
      /\ rts0' = rts0 /\ last_store' = last_store /\ memory' = memory
      /\ inflight' = [inflight EXCEPT ![IF is_memory(rob[p]) THEN "mem" ELSE "reg"] = @ - 1]
      /\ is_memory(rob[p]) => rob[p].num_mem_ops = 0
  BY DEF complete_execution, loadVars, storeVars
<1>3. /\ retired \in Nat /\ RobTyped /\ Ring /\ RegInv /\ QueuesTyped /\ LoadInv /\ StoreInv
      /\ DataInv /\ Failures /\ inflight \in [reg : Int, mem : Int]
  BY DEF IInv, RobTyped
<1>4. /\ inflight' \in [reg : Int, mem : Int]
      /\ inflight'.reg = IF is_memory(rob[p]) THEN inflight.reg ELSE inflight.reg - 1
      /\ inflight'.mem = IF is_memory(rob[p]) THEN inflight.mem - 1 ELSE inflight.mem
  BY <1>2, <1>3
<1>5. ReadyQueues' /\ rte0' \in Seq(RobIndex) /\ failed' = failed
  BY CompletionQueues
<1>6. RobTyped'
  BY <1>1, <1>2, <1>3, <1>4, <1>5 DEF RobTyped
<1>7. /\ \A i \in RobIndex : SameInstr(rob[i], rob'[i])
      /\ \A i \in RobIndex : Used(i)' <=> Used(i)
      /\ \A i \in RobIndex : is_memory(rob'[i]) <=> is_memory(rob[i])
  <2>1. \A i \in RobIndex : SameInstr(rob[i], rob'[i])
    BY <1>1 DEF SameMem
  <2> QED BY <1>2, <2>1, SameWriters
<1>8. Ring'
  <2>1. UNCHANGED <<next, retired>>
    BY <1>2
  <2>2. \A i \in RobIndex : ~ Used(i) => /\ rob'[i].scheduled = rob[i].scheduled
                                         /\ rob'[i].executed = rob[i].executed
    <3> SUFFICES ASSUME NEW i \in RobIndex, ~ Used(i)
                 PROVE  rob'[i].scheduled = rob[i].scheduled /\ rob'[i].executed = rob[i].executed
      OBVIOUS
    <3>1. i \notin WokenBy(p)
      BY ReleasedAre DEF WokenBy
    <3>2. IF i \in WokenBy(p) THEN TRUE ELSE rob'[i].scheduled = rob[i].scheduled
      BY CompletionRob
    <3> QED BY <1>1, <3>1, <3>2
  <2> QED BY <1>3, <1>7, <2>1, <2>2, RingKept
<1>9. RegCounted'
  <2> DEFINE S == {i \in RobIndex : ~ is_memory(rob[i]) /\ rob[i].executed = "INFLIGHT"}
             T == {i \in RobIndex : ~ is_memory(rob'[i]) /\ rob'[i].executed = "INFLIGHT"}
  <2>1. T = S \ {p} /\ (p \in S <=> ~ is_memory(rob[p]))
    BY <1>1, <1>7
  <2>2. IsFiniteSet(S) /\ inflight.reg = Cardinality(S)
    <3>1. IsFiniteSet(S)
      BY Sizes, FS_Subset
    <3> QED BY <1>3, <3>1 DEF RegInv, RegCounted
  <2> HIDE DEF S
  <2>3. p \in S => Cardinality(S \ {p}) = Cardinality(S) - 1
    BY <2>2, FS_RemoveElement
  <2>4. p \notin S => S \ {p} = S
    OBVIOUS
  <2>5. inflight'.reg = Cardinality(T)
    BY <1>4, <2>1, <2>2, <2>3, <2>4
  <2> QED BY <2>5 DEF RegCounted
<1>10. MemCounted'
  <2> DEFINE S == {i \in RobIndex : is_memory(rob[i]) /\ rob[i].num_mem_ops = 0
                                      /\ rob[i].executed = "INFLIGHT"}
             T == {i \in RobIndex : is_memory(rob'[i]) /\ rob'[i].num_mem_ops = 0
                                      /\ rob'[i].executed = "INFLIGHT"}
  <2>1. T = S \ {p} /\ (p \in S <=> is_memory(rob[p]))
    BY <1>1, <1>2, <1>7 DEF SameMem
  <2>2. IsFiniteSet(S) /\ inflight.mem = Cardinality(S)
    <3>1. IsFiniteSet(S)
      BY Sizes, FS_Subset
    <3> QED BY <1>3, <3>1 DEF DataInv, MemCounted
  <2> HIDE DEF S
  <2>3. p \in S => Cardinality(S \ {p}) = Cardinality(S) - 1
    BY <2>2, FS_RemoveElement
  <2>4. p \notin S => S \ {p} = S
    OBVIOUS
  <2>5. inflight'.mem = Cardinality(T)
    BY <1>4, <2>1, <2>2, <2>3, <2>4
  <2> QED BY <2>5 DEF MemCounted
<1>11. /\ QueuesTyped' /\ LoadInv' /\ StoreInv'
       /\ Expected' /\ LastStores' /\ Values(rob, lq)' /\ OperationsCounted(rob, lq, sq)'
       /\ Producers(rob, lq, sq)' /\ MemoryListed(rob)'
  BY <1>1, <1>2, <1>3, <1>6, SameMemory DEF DataInv
<1>12. RegInv' /\ DataInv' /\ Failures'
  BY <1>3, <1>5, <1>9, <1>10, <1>11, CompletionDeps, CompletionPhases
     DEF RegInv, DataInv, Failures
<1> QED BY <1>6, <1>8, <1>11, <1>12 DEF IInv

-----------------------------------------------------------------------------
(* Dispatch *)

Operations(k) == Cardinality({j \in Source : k.source_memory[j] # NoAddr})
                 + Cardinality({j \in Destination : k.destination_memory[j] # NoAddr})

(* What add_to_rob writes in an entry                                      *)
LEMMA EntryFields ==
    ASSUME last_store \in [Addr -> Int], NEW n \in Nat, NEW k \in Kind, NEW e, e = Entry(n, k)
    PROVE  /\ e \in EntryType /\ e.instr_id = n /\ e.instr = k /\ k \in Instruction
           /\ e.scheduled = "NO" /\ e.executed = "NO" /\ ~ e.reg_ready
           /\ e.num_reg_dependent = 0 /\ e.registers_depend_on_me = {}
           /\ e.memory_instrs_depend_on_me = {}
           /\ e.num_mem_ops = Operations(k)
           /\ \A j \in Source : e.lq_index[j] = None
           /\ \A j \in Destination : e.sq_index[j] = None
           /\ \A j \in Source : k.source_memory[j] # NoAddr
                                  => e.expects[j] = last_store[k.source_memory[j]]
<1> DEFINE S == {j \in Source : k.source_memory[j] # NoAddr}
           D == {j \in Destination : k.destination_memory[j] # NoAddr}
           m == Cardinality(S) + Cardinality(D)
           x == [j \in Source |-> IF k.source_memory[j] = NoAddr THEN None
                                  ELSE last_store[k.source_memory[j]]]
<1>1. e =
         [instr_id |-> n, instr |-> k, scheduled |-> "NO", executed |-> "NO",
          reg_ready |-> FALSE, num_reg_dependent |-> 0, registers_depend_on_me |-> {},
          memory_instrs_depend_on_me |-> {}, num_mem_ops |-> m,
          lq_index |-> [j \in Source |-> None], sq_index |-> [j \in Destination |-> None],
          expects |-> x, value |-> [j \in Source |-> None]]
  BY DEF Entry
<1>2. k \in Instruction
  BY CoreAssumption
<1>3. m \in Int
  <2>1. S \in SUBSET Source /\ D \in SUBSET Destination
    OBVIOUS
  <2>2. Cardinality(S) \in Nat /\ Cardinality(D) \in Nat
    BY <2>1, FiniteOperands, FS_Subset, FS_CardinalityType
  <2> QED BY <2>2
<1>4. /\ x \in [Source -> Int]
      /\ \A j \in Source : k.source_memory[j] # NoAddr => x[j] = last_store[k.source_memory[j]]
  BY <1>2 DEF None, Instruction
<1> HIDE DEF m, x
<1>5. e \in EntryType
  BY <1>1, <1>2, <1>3, <1>4 DEF EntryType, Phase, None
<1> QED BY <1>1, <1>2, <1>4, <1>5 DEF m, Operations

(* The new entry stands behind all the others; they stay as they are. *)
LEMMA DispatchRob ==
    ASSUME IInv, NEW k \in Kind, add_to_rob(k)
    PROVE  /\ tail \in RobIndex /\ ~ Used(tail) /\ Age(tail) = next - retired
           /\ \A p \in RobIndex : Used(p) <=> Age(p) < Age(tail)
           /\ rob' = [rob EXCEPT ![tail] = Entry(next, k)]
           /\ rob'[tail] = Entry(next, k)
           /\ \A p \in RobIndex : p # tail => rob'[p] = rob[p]
           /\ failed' = failed /\ retired' = retired /\ next' = next + 1
           /\ RobTyped'
<1>1. /\ RobTyped /\ Ring /\ retired \in Nat /\ next \in Nat
      /\ rob \in [RobIndex -> EntryType] /\ last_store \in [Addr -> Int] /\ ROB_SIZE \in Nat
  BY Sizes DEF IInv, RobTyped
<1>2. /\ next - retired < ROB_SIZE /\ retired <= next
      /\ rob' = [rob EXCEPT ![tail] = Entry(next, k)]
      /\ next' = next + 1 /\ retired' = retired /\ rte0' = rte0 /\ rte1' = rte1
      /\ inflight' = inflight /\ memory' = memory
      /\ last_store' = [a \in Addr |-> IF \E j \in Destination : k.destination_memory[j] = a
                                       THEN next ELSE last_store[a]]
      /\ failed' = failed \cup (IF Used(tail) THEN {"add_to_rob"} ELSE {})
  BY <1>1 DEF add_to_rob, occupancy, readyVars, Ring
<1>3. tail \in RobIndex /\ Age(tail) = next - retired
  <2>1. next < retired + ROB_SIZE
    BY <1>1, <1>2
  <2> QED BY <1>1, <1>2, <2>1, TailAge
<1>4. \A p \in RobIndex : Used(p) <=> Age(p) < Age(tail)
  BY <1>1, <1>3, UsedIs
<1>5. ~ Used(tail)
  <2>1. Age(tail) \in Int
    BY <1>1, <1>3
  <2> QED BY <1>3, <1>4, <2>1
<1>6. Entry(next, k) \in EntryType
  BY <1>1, EntryFields
<1>7. /\ rob' \in [RobIndex -> EntryType] /\ rob'[tail] = Entry(next, k)
      /\ \A p \in RobIndex : p # tail => rob'[p] = rob[p]
  BY <1>1, <1>2, <1>3, <1>6
<1>8. last_store' \in [Addr -> Int]
  BY <1>1, <1>2
<1>9. RobTyped'
  BY <1>1, <1>2, <1>7, <1>8 DEF RobTyped
<1> QED BY <1>2, <1>3, <1>4, <1>5, <1>7, <1>9

(* Seen from an entry in use nothing changes. *)
LEMMA DispatchBefore ==
    ASSUME IInv, NEW k \in Kind, add_to_rob(k), NEW i \in RobIndex, Used(i)
    PROVE  /\ i # tail /\ rob'[i] = rob[i] /\ Used(i)' /\ Before(i)' = Before(i)
           /\ \A p \in Before(i) : p \in RobIndex /\ p # tail /\ rob'[p] = rob[p] /\ Used(p)
           /\ \A j \in Source : /\ RegWriters(i, j)' = RegWriters(i, j)
                                /\ Nearest(RegWriters(i, j))' = Nearest(RegWriters(i, j))
           /\ \A a \in Addr : /\ StoreWriters(i, a)' = StoreWriters(i, a)
                              /\ Nearest(StoreWriters(i, a))' = Nearest(StoreWriters(i, a))
<1>1. /\ ~ Used(tail) /\ \A p \in RobIndex : p # tail => rob'[p] = rob[p]
      /\ retired' = retired
  BY DispatchRob
<1>2. i # tail /\ rob'[i] = rob[i] /\ Used(i)'
  <2>1. i # tail
    BY <1>1
  <2> QED BY <1>1, <2>1 DEF Used
<1>3. Before(i)' = Before(i)
  BY <1>1, BeforeKept
<1>4. \A p \in Before(i) : p \in RobIndex /\ p # tail /\ rob'[p] = rob[p] /\ Used(p)
  <2>1. \A p \in Before(i) : p \in RobIndex /\ Used(p)
    BY UsedIs DEF IInv, Before
  <2> QED BY <1>1, <2>1
<1>5. \A j \in Source : RegWriters(i, j)' = RegWriters(i, j)
  BY <1>2, <1>3, <1>4 DEF RegWriters
<1>6. \A a \in Addr : StoreWriters(i, a)' = StoreWriters(i, a)
  BY <1>3, <1>4 DEF StoreWriters
<1>7. \A p, q : (Age(p) <= Age(q))' <=> Age(p) <= Age(q)
  BY <1>1, AgeKept
<1>8. \A j \in Source : Nearest(RegWriters(i, j))' = Nearest(RegWriters(i, j))
  BY <1>5, <1>7 DEF Nearest
<1>9. \A a \in Addr : Nearest(StoreWriters(i, a))' = Nearest(StoreWriters(i, a))
  BY <1>6, <1>7 DEF Nearest
<1> QED BY <1>2, <1>3, <1>4, <1>5, <1>6, <1>8, <1>9

(* add_to_rob: a new instruction waits for no one and is in no list.       *)
LEMMA DispatchRegisters ==
    ASSUME IInv, NEW k \in Kind, add_to_rob(k)
    PROVE  Ring' /\ RegInv' /\ MemoryListed(rob)' /\ MemCounted'
<1>1. /\ tail \in RobIndex /\ ~ Used(tail) /\ Age(tail) = next - retired
      /\ \A p \in RobIndex : Used(p) <=> Age(p) < Age(tail)
      /\ rob'[tail] = Entry(next, k)
      /\ \A p \in RobIndex : p # tail => rob'[p] = rob[p]
      /\ failed' = failed /\ retired' = retired /\ next' = next + 1
  BY DispatchRob
<1>2. /\ RobTyped /\ Ring /\ RegInv /\ DataInv /\ retired \in Nat /\ next \in Nat /\ ROB_SIZE \in Nat
      /\ rob \in [RobIndex -> EntryType] /\ last_store \in [Addr -> Int]
  BY Sizes DEF IInv, RobTyped
<1>3. rte0' = rte0 /\ rte1' = rte1 /\ inflight' = inflight /\ next - retired < ROB_SIZE
  BY DEF add_to_rob, occupancy, readyVars
<1> DEFINE e == Entry(next, k)
<1>4. /\ e.instr_id = next /\ e.instr = k /\ k \in Instruction
      /\ e.scheduled = "NO" /\ e.executed = "NO" /\ ~ e.reg_ready
      /\ e.num_reg_dependent = 0 /\ e.registers_depend_on_me = {}
      /\ e.memory_instrs_depend_on_me = {}
      /\ \A j \in Source : e.lq_index[j] = None
      /\ \A j \in Destination : e.sq_index[j] = None
  <2>1. last_store \in [Addr -> Int] /\ next \in Nat /\ e = Entry(next, k)
    BY <1>2
  <2> HIDE DEF e
  <2> QED BY <2>1, EntryFields
<1>5. Blank(rob[tail]) /\ ~ is_memory(rob[tail]) /\ rob[tail].executed = "NO"
  <2>1. Blank(rob[tail])
    BY <1>1, <1>2, UsedIs
  <2>2. rob[tail] \in EntryType
    BY <1>1, <1>2
  <2> QED BY <2>1, <2>2, BlankFields DEF Blank
<1>6. ASSUME NEW i \in RobIndex, Used(i)
      PROVE  /\ i # tail /\ rob'[i] = rob[i] /\ Used(i)' /\ Before(i)' = Before(i)
             /\ \A p \in Before(i) : p \in RobIndex /\ p # tail /\ rob'[p] = rob[p] /\ Used(p)
             /\ \A j \in Source : /\ RegWriters(i, j)' = RegWriters(i, j)
                                  /\ Nearest(RegWriters(i, j))' = Nearest(RegWriters(i, j))
  BY <1>6, DispatchBefore
<1>7. \A i \in RobIndex : i # tail => (Used(i)' <=> Used(i))
  BY <1>1 DEF Used
<1> HIDE DEF e
<1>8. rob'[tail] = e
  BY <1>1 DEF e
<1>9. Ring'
  <2>1. retired' <= next' /\ next' <= retired' + ROB_SIZE
    BY <1>1, <1>2, <1>3 DEF Ring
  <2>2. ASSUME NEW i \in RobIndex
        PROVE  IF Age(i)' < next' - retired' THEN rob'[i].instr_id = retired' + Age(i)'
                                             ELSE Blank(rob'[i])
    <3>1. Age(i)' = Age(i) /\ Age(i) \in Int
      <4>1. Age(i) \in 0 .. ROB_SIZE - 1
        BY <1>2, UsedIs
      <4> QED BY <1>1, <4>1, AgeKept
    <3>2. CASE i = tail
      <4>1. Age(i)' < next' - retired' /\ retired' + Age(i)' = next
        BY <1>1, <1>2, <3>1, <3>2
      <4> QED BY <1>4, <1>8, <3>2, <4>1
    <3>3. CASE i # tail
      <4>1. Age(i) # Age(tail)
        BY <1>1, <1>2, <3>3, AgeInjective
      <4>2. Age(i) < next' - retired' <=> Age(i) < next - retired
        BY <1>1, <1>2, <3>1, <4>1
      <4> QED BY <1>1, <1>2, <3>1, <3>3, <4>2 DEF Ring
    <3> QED BY <3>2, <3>3
  <2> QED BY <2>1, <2>2 DEF Ring, Blank
<1>10. Registered'
  <2> SUFFICES ASSUME NEW p \in RobIndex, NEW i \in RobIndex, NEW j \in Source,
                      <<i, j>> \in rob'[p].registers_depend_on_me
               PROVE  p \in Before(i)' /\ Used(i)' /\ rob'[i].scheduled # "NO"
    BY DEF Registered
  <2>1. p # tail
    BY <1>4, <1>8
  <2>2. p \in Before(i) /\ Used(i) /\ rob[i].scheduled # "NO"
    BY <1>1, <1>2, <2>1 DEF RegInv, Registered
  <2> QED BY <1>6, <2>2
<1>11. NearestKnown'
  <2> SUFFICES ASSUME NEW i \in RobIndex, NEW j \in Source,
                      Used(i)', rob'[i].scheduled # "NO", RegWriters(i, j)' # {},
                      rob'[Nearest(RegWriters(i, j))'].executed # "COMPLETED"
               PROVE  <<i, j>> \in rob'[Nearest(RegWriters(i, j))'].registers_depend_on_me
    BY DEF NearestKnown
  <2> DEFINE n == Nearest(RegWriters(i, j))
  <2>1. i # tail
    BY <1>4, <1>8
  <2>2. Used(i) /\ rob[i].scheduled # "NO"
    BY <1>1, <1>7, <2>1
  <2>3. RegWriters(i, j) # {} /\ n \in RegWriters(i, j) /\ Nearest(RegWriters(i, j))' = n
    BY <1>2, <1>6, <2>2, NearestIn
  <2>4. n \in Before(i) /\ rob'[n] = rob[n]
    BY <1>6, <2>2, <2>3 DEF RegWriters
  <2>5. <<i, j>> \in rob[n].registers_depend_on_me
    BY <1>2, <2>2, <2>3, <2>4 DEF RegInv, NearestKnown
  <2> QED BY <2>3, <2>4, <2>5
<1>12. DependencesCounted'
  <2> SUFFICES ASSUME NEW i \in RobIndex
               PROVE  rob'[i].num_reg_dependent = Cardinality(DepsOf(i)')
    BY DEF DependencesCounted
  <2>1. \A d \in RobIndex \X Source : d[1] \in RobIndex /\ d[2] \in Source
    OBVIOUS
  <2>2. Before(i)' = Before(i)
    BY <1>1, BeforeKept
  <2>3. CASE i = tail
    <3>1. ASSUME NEW d \in RobIndex \X Source PROVE d \notin DepsOf(i)'
      <4>1. <<i, d[2]>> \notin rob[d[1]].registers_depend_on_me
        BY <1>1, <1>2, <2>1, <2>3 DEF RegInv, Registered
      <4>2. <<i, d[2]>> \notin rob'[d[1]].registers_depend_on_me
        BY <1>1, <1>4, <1>8, <2>1, <4>1
      <4> QED BY <4>2 DEF DepsOf
    <3>2. DepsOf(i)' = {}
      BY <3>1 DEF DepsOf
    <3> QED BY <1>4, <1>8, <2>3, <3>2, FS_EmptySet
  <2>4. CASE i # tail
    <3>1. ASSUME NEW d \in RobIndex \X Source PROVE d \in DepsOf(i)' <=> d \in DepsOf(i)
      <4>1. CASE d[1] = tail
        <5>1. d \notin DepsOf(i)' /\ d \notin DepsOf(i)
          BY <1>1, <1>4, <1>8, <4>1 DEF DepsOf
        <5> QED BY <5>1
      <4>2. CASE d[1] # tail
        BY <1>1, <1>7, <2>1, <2>2, <4>2 DEF DepsOf
      <4> QED BY <4>1, <4>2
    <3>2. DepsOf(i)' = DepsOf(i)
      BY <3>1 DEF DepsOf
    <3> QED BY <1>1, <1>2, <2>4, <3>2 DEF RegInv, DependencesCounted
  <2> QED BY <2>3, <2>4
<1>13. Phases'
  <2> SUFFICES ASSUME NEW i \in RobIndex
               PROVE  /\ rob'[i].reg_ready
                           <=> rob'[i].scheduled # "NO" /\ rob'[i].num_reg_dependent = 0
                      /\ Started(rob'[i]) => rob'[i].reg_ready
                      /\ ~ is_memory(rob'[i]) => rob'[i].scheduled # "INFLIGHT"
                      /\ is_memory(rob'[i]) /\ Used(i)' =>
                            /\ rob'[i].scheduled = "COMPLETED" <=> AllAdded(rob'[i])
                            /\ rob'[i].executed # "NO" <=> rob'[i].scheduled = "COMPLETED"
                      /\ rob'[i].executed = "COMPLETED" => rob'[i].num_mem_ops = 0
    BY DEF Phases
  <2>1. CASE i = tail
    <3>1. ~ Started(e)
      BY <1>4 DEF Started
    <3>2. is_memory(e) => ~ AllAdded(e)
      BY <1>4 DEF is_memory, AllAdded
    <3> QED BY <1>4, <1>8, <2>1, <3>1, <3>2
  <2>2. CASE i # tail
    BY <1>1, <1>2, <1>7, <2>2 DEF RegInv, Phases
  <2> QED BY <2>1, <2>2
<1>14. ReadyQueues'
  <2>1. \A i \in RobIndex : ReadyToExecute(i) => ReadyToExecute(i)'
    BY <1>6 DEF ReadyToExecute
  <2> QED BY <1>2, <1>3, <2>1 DEF RegInv, ReadyQueues
<1>15. RegCounted'
  <2>1. {i \in RobIndex : ~ is_memory(rob'[i]) /\ rob'[i].executed = "INFLIGHT"}
          = {i \in RobIndex : ~ is_memory(rob[i]) /\ rob[i].executed = "INFLIGHT"}
    BY <1>1, <1>4, <1>5, <1>8
  <2> QED BY <1>2, <1>3, <2>1 DEF RegInv, RegCounted
<1>16. MemCounted'
  <2>1. {i \in RobIndex : is_memory(rob'[i]) /\ rob'[i].num_mem_ops = 0
                            /\ rob'[i].executed = "INFLIGHT"}
          = {i \in RobIndex : is_memory(rob[i]) /\ rob[i].num_mem_ops = 0
                                /\ rob[i].executed = "INFLIGHT"}
    BY <1>1, <1>4, <1>5, <1>8
  <2> QED BY <1>2, <1>3, <2>1 DEF DataInv, MemCounted
<1>17. MemoryListed(rob)'
  <2> SUFFICES ASSUME NEW p \in RobIndex, NEW d \in RobIndex,
                      d \in rob'[p].memory_instrs_depend_on_me
               PROVE  p \in Before(d)' /\ Used(d)'
    BY DEF MemoryListed
  <2>1. p # tail
    BY <1>4, <1>8
  <2>2. p \in Before(d) /\ Used(d)
    BY <1>1, <1>2, <2>1 DEF DataInv, MemoryListed
  <2> QED BY <1>6, <2>2
<1> QED BY <1>9, <1>10, <1>11, <1>12, <1>13, <1>14, <1>15, <1>16, <1>17 DEF RegInv

(* The queue of the stores still to come gets the new ones. *)
LEMMA DispatchStores ==
    ASSUME IInv, NEW k \in Kind, add_to_rob(k) PROVE QueuesTyped' /\ StoreInv'
<1>1. /\ tail \in RobIndex /\ ~ Used(tail)
      /\ rob'[tail] = Entry(next, k)
      /\ \A p \in RobIndex : p # tail => rob'[p] = rob[p]
      /\ next' = next + 1
  BY DispatchRob
<1>2. /\ RobTyped /\ Ring /\ QueuesTyped /\ StoreInv /\ next \in Nat /\ retired \in Nat
      /\ rob \in [RobIndex -> EntryType] /\ last_store \in [Addr -> Int] /\ sta \in Seq(Int)
  BY DEF IInv, RobTyped, QueuesTyped
<1>3. /\ lq' = lq /\ lq_occupancy' = lq_occupancy /\ rtl0' = rtl0
      /\ sq' = sq /\ sq_tail' = sq_tail /\ sq_occupancy' = sq_occupancy /\ rts0' = rts0
  BY DEF add_to_rob, loadVars
<1> DEFINE c == Cardinality({j \in Destination : k.destination_memory[j] # NoAddr})
           f == [m \in 1 .. c |-> next]
           n == Len(sta)
<1>4. c \in Nat
  <2>1. {j \in Destination : k.destination_memory[j] # NoAddr} \in SUBSET Destination
    OBVIOUS
  <2> QED BY <2>1, FiniteOperands, FS_Subset, FS_CardinalityType
<1>5. sta' = sta \o f
  BY DEF add_to_rob
<1> HIDE DEF c
<1>6. f \in Seq(Int) /\ Len(f) = c /\ \A m \in 1 .. c : f[m] = next
  BY <1>2, <1>4
<1> HIDE DEF f
<1>7. sta \o f \in Seq(Int) /\ Len(sta \o f) = n + c /\ n \in Nat /\ DOMAIN sta = 1 .. n
  <2>1. n \in Nat /\ DOMAIN sta = 1 .. n
    BY <1>2
  <2>2. sta \o f \in Seq(Int) /\ Len(sta \o f) = Len(sta) + Len(f)
    BY <1>2, <1>6, ConcatProperties
  <2> QED BY <1>6, <2>1, <2>2
<1>8. DOMAIN sta' = 1 .. n + c
  BY <1>5, <1>7
<1>9. \A m \in 1 .. n : sta'[m] = sta[m]
  BY <1>2, <1>4, <1>5, <1>6, <1>7, ConcatProperties
<1>10. \A m \in 1 .. n + c : m \in 1 .. n \/ sta'[m] = next
  <2> SUFFICES ASSUME NEW m \in 1 .. n + c, m \notin 1 .. n PROVE sta'[m] = next
    OBVIOUS
  <2>1. m - n \in 1 .. c
    BY <1>4, <1>7
  <2>2. sta'[m] = f[m - n]
    BY <1>2, <1>4, <1>5, <1>6, <1>7, ConcatProperties
  <2> QED BY <1>6, <2>1, <2>2
<1>11. QueuesTyped'
  BY <1>2, <1>3, <1>5, <1>7 DEF QueuesTyped
<1> HIDE DEF n
<1>12. /\ StoreSlots(rob, sq) /\ StoreIndices(rob, sq) /\ ReadyStores(sq, rts0)
       /\ StoreOrder(sq, sq_tail, sq_occupancy, sta)
  BY <1>2 DEF StoreInv
<1>13. /\ \A j \in Destination : rob[tail].instr.destination_memory[j] = NoAddr
       /\ \A j \in Destination : rob'[tail].sq_index[j] = None
  <2>1. Blank(rob[tail]) /\ rob[tail] \in EntryType
    BY <1>1, <1>2, UsedIs
  <2>2. \A j \in Destination : rob[tail].instr.destination_memory[j] = NoAddr
    BY <2>1, BlankFields
  <2>3. \A j \in Destination : rob'[tail].sq_index[j] = None
    <3> DEFINE e == rob'[tail]
    <3>1. last_store \in [Addr -> Int] /\ next \in Nat /\ e = Entry(next, k)
      BY <1>1, <1>2
    <3> HIDE DEF e
    <3>2. \A j \in Destination : e.sq_index[j] = None
      BY <3>1, EntryFields
    <3> QED BY <3>2 DEF e
  <2> QED BY <2>2, <2>3
<1>14. \A s \in SqIndex : s # None /\ sq[s].rob_index \in RobIndex
  BY <1>2, Sizes DEF QueuesTyped, StoreType, None
<1>15. ASSUME NEW s \in SqIndex, sq[s].address # NoAddr
       PROVE  /\ sq[s].rob_index # tail
              /\ sq[s].instr_id < next
  <2> DEFINE i == sq[s].rob_index
  <2>1. PICK j \in Destination : rob[i].sq_index[j] = s
    BY <1>12, <1>15 DEF StoreSlots
  <2>2. i \in RobIndex /\ s # None
    BY <1>14
  <2>3. rob[i].instr.destination_memory[j] # NoAddr /\ sq[s].instr_id = rob[i].instr_id
    BY <1>12, <2>1, <2>2 DEF StoreIndices
  <2>4. Used(i)
    BY <1>2, <2>2, <2>3, UsedIs, BlankFields
  <2>5. rob[i].instr_id = retired + Age(i) /\ Age(i) < next - retired /\ Age(i) \in 0 .. ROB_SIZE - 1
    BY <1>2, <2>2, <2>4, UsedIs
  <2>6. rob[i].instr_id < next
    BY <1>2, <2>5, Sizes
  <2> QED BY <1>13, <2>3, <2>6
<1>16. StoreSlots(rob', sq)
  <2> SUFFICES ASSUME NEW s \in SqIndex, sq[s].address # NoAddr
               PROVE  (\E j \in Destination : rob'[sq[s].rob_index].sq_index[j] = s)
                      /\ sq[s].fetched # "INFLIGHT"
    BY <1>12 DEF StoreSlots
  <2>1. rob'[sq[s].rob_index] = rob[sq[s].rob_index]
    BY <1>1, <1>14, <1>15
  <2> QED BY <1>12, <2>1 DEF StoreSlots
<1>17. StoreIndices(rob', sq)
  BY <1>1, <1>12, <1>13 DEF StoreIndices
<1>18. StoreOrder(sq, sq_tail, sq_occupancy, sta)'
  <2>1. /\ \A x, y \in DOMAIN sta : x < y => sta[x] <= sta[y]
        /\ \A x \in DOMAIN sta : sta[x] < next /\ sta[x] \in Int
                                 /\ \A s \in SqIndex : sq[s].address # NoAddr => sq[s].instr_id <= sta[x]
    BY <1>2, <1>12 DEF StoreOrder
  <2>2. \A x, y \in DOMAIN sta' : x < y => sta'[x] <= sta'[y]
    <3> SUFFICES ASSUME NEW x \in 1 .. n + c, NEW y \in 1 .. n + c, x < y
                 PROVE  sta'[x] <= sta'[y]
      BY <1>8
    <3>1. y \in 1 .. n => x \in 1 .. n
      BY <1>4, <1>7
    <3>2. x \in 1 .. n => sta'[x] = sta[x] /\ sta[x] < next /\ sta[x] \in Int
      BY <1>7, <1>9, <2>1
    <3>3. CASE y \in 1 .. n
      BY <1>7, <1>9, <2>1, <3>1, <3>3
    <3>4. CASE y \notin 1 .. n
      BY <1>2, <1>10, <3>2, <3>4
    <3> QED BY <3>3, <3>4
  <2>3. \A x \in DOMAIN sta' : /\ sta'[x] < next'
                               /\ \A s \in SqIndex : sq[s].address # NoAddr => sq[s].instr_id <= sta'[x]
    <3> SUFFICES ASSUME NEW x \in 1 .. n + c
                 PROVE  /\ sta'[x] < next'
                        /\ \A s \in SqIndex : sq[s].address # NoAddr => sq[s].instr_id <= sta'[x]
      BY <1>8
    <3>1. CASE x \in 1 .. n
      <4>1. x \in DOMAIN sta /\ sta'[x] = sta[x]
        BY <1>7, <1>9, <3>1
      <4>2. sta[x] < next /\ sta[x] \in Int
        BY <2>1, <4>1
      <4>3. sta[x] < next + 1
        BY <1>2, <4>2
      <4> QED BY <1>1, <2>1, <4>1, <4>3
    <3>2. CASE x \notin 1 .. n
      <4>1. sta'[x] = next
        BY <1>10, <3>2
      <4>2. \A s \in SqIndex : sq[s].instr_id \in Int
        BY <1>2 DEF QueuesTyped, StoreType
      <4> QED BY <1>1, <1>2, <1>15, <4>1, <4>2
    <3> QED BY <3>1, <3>2
  <2> QED BY <1>3, <1>12, <2>2, <2>3 DEF StoreOrder
<1>19. StoreSlots(rob, sq)' /\ StoreIndices(rob, sq)' /\ ReadyStores(sq, rts0)'
  BY <1>3, <1>12, <1>16, <1>17
<1> QED BY <1>11, <1>18, <1>19 DEF StoreInv

(* add_to_rob leaves the load queue alone.                                 *)
LEMMA DispatchLoads == ASSUME IInv, NEW k \in Kind, add_to_rob(k) PROVE LoadInv'
<1>1. /\ tail \in RobIndex /\ ~ Used(tail)
      /\ rob'[tail] = Entry(next, k)
      /\ \A p \in RobIndex : p # tail => rob'[p] = rob[p]
  BY DispatchRob
<1>2. /\ last_store \in [Addr -> Int] /\ next \in Nat /\ LoadInv /\ QueuesTyped
  BY DEF IInv, RobTyped
<1>3. lq' = lq /\ lq_occupancy' = lq_occupancy /\ rtl0' = rtl0
  BY DEF add_to_rob, loadVars
<1>4. \A j \in Source : rob'[tail].lq_index[j] = None
  <2> DEFINE e == rob'[tail]
  <2>1. last_store \in [Addr -> Int] /\ next \in Nat /\ e = Entry(next, k)
    BY <1>1, <1>2
  <2> HIDE DEF e
  <2>2. \A j \in Source : e.lq_index[j] = None
    BY <2>1, EntryFields
  <2> QED BY <2>2 DEF e
<1>5. \A l \in LqIndex : lq[l].rob_index \in RobIndex
  BY <1>2 DEF QueuesTyped, LoadType
<1>6. LoadSlots(rob', lq)
  <2> SUFFICES ASSUME NEW l \in LqIndex, lq[l].address # NoAddr
               PROVE  rob'[lq[l].rob_index] = rob[lq[l].rob_index]
    BY <1>2 DEF LoadInv, LoadSlots
  <2>1. Used(lq[l].rob_index)
    BY <1>2 DEF LoadInv, LoadSlots, Used
  <2> QED BY <1>1, <1>5, <2>1
<1>7. LoadIndices(rob')
  BY <1>1, <1>2, <1>4 DEF LoadInv, LoadIndices
<1> QED BY <1>2, <1>3, <1>6, <1>7 DEF LoadInv

(* What the loads must get: the new instruction has before it all that is  *)
(* in use, and its stores are the last ones.                               *)
LEMMA DispatchExpected ==
    ASSUME IInv, NEW k \in Kind, add_to_rob(k) PROVE Expected' /\ LastStores'
<1>0. PICK t \in RobIndex : t = tail
  BY DispatchRob
<1>1. /\ ~ Used(t)
      /\ \A p \in RobIndex : Used(p) <=> Age(p) < Age(t)
      /\ rob'[t] = Entry(next, k)
      /\ \A p \in RobIndex : p # t => rob'[p] = rob[p]
      /\ retired' = retired
  BY <1>0, DispatchRob
<1>2. /\ RobTyped /\ Ring /\ Expected /\ LastStores /\ retired \in Nat
      /\ rob \in [RobIndex -> EntryType]
  BY DEF IInv, RobTyped, DataInv
<1>3. /\ memory' = memory
      /\ last_store' = [a \in Addr |-> IF \E j \in Destination : k.destination_memory[j] = a
                                       THEN next ELSE last_store[a]]
  BY DEF add_to_rob
<1> DEFINE e == rob'[t]
<1>4. /\ e.instr_id = next /\ e.instr = k /\ k \in Instruction
      /\ \A j \in Source : k.source_memory[j] # NoAddr
                             => e.expects[j] = last_store[k.source_memory[j]]
  <2>1. last_store \in [Addr -> Int] /\ next \in Nat /\ e = Entry(next, k)
    BY <1>1, <1>2 DEF RobTyped
  <2> HIDE DEF e
  <2> QED BY <2>1, EntryFields
<1>5. \A p \in RobIndex : ~ Used(p) => /\ \A a \in Addr : ~ Writes(rob[p], a)
                                       /\ \A j \in Source : rob[p].instr.source_memory[j] = NoAddr
  BY <1>2, UsedIs, BlankFields
<1>6. \A p : Age(p)' = Age(p)
  BY <1>1, AgeKept
<1>7. Before(t)' = {p \in RobIndex : Used(p)} /\ \A i : Before(i)' = Before(i)
  BY <1>1, <1>6 DEF Before
<1>8. \A a \in Addr : StoreWriters(t, a)' = AllWriters(a)
  <2> SUFFICES ASSUME NEW a \in Addr PROVE StoreWriters(t, a)' = AllWriters(a)
    OBVIOUS
  <2>1. \A p \in RobIndex : Used(p) => rob'[p] = rob[p]
    BY <1>1
  <2>2. StoreWriters(t, a)' = {p \in RobIndex : Used(p) /\ Writes(rob[p], a)}
    BY <1>7, <2>1 DEF StoreWriters
  <2> QED BY <1>5, <2>2 DEF AllWriters
<1>9. \A a \in Addr : /\ AllWriters(a) \in SUBSET RobIndex
                      /\ \A p \in AllWriters(a) : Used(p) /\ p # t /\ rob'[p] = rob[p]
                      /\ AllWriters(a) # {} => Nearest(AllWriters(a)) \in AllWriters(a)
  <2>1. \A a \in Addr : \A p \in AllWriters(a) : p \in RobIndex /\ Used(p)
    BY <1>5 DEF AllWriters
  <2> QED BY <1>1, <1>2, <2>1, NearestIn
<1>10. \A a \in Addr : Nearest(StoreWriters(t, a))' = Nearest(AllWriters(a))
  BY <1>6, <1>8 DEF Nearest
<1>11. Expected'
  <2> SUFFICES ASSUME NEW i \in RobIndex, NEW j \in Source, NEW a,
                      a = rob'[i].instr.source_memory[j], a # NoAddr
               PROVE  rob'[i].expects[j] = IF StoreWriters(i, a)' = {} THEN memory[a]
                                           ELSE rob'[Nearest(StoreWriters(i, a))'].instr_id
    BY <1>3 DEF Expected
  <2>1. CASE i = t
    <3>1. a = k.source_memory[j] /\ a \in Addr
      BY <1>4, <2>1 DEF Instruction
    <3>2. rob'[i].expects[j] = last_store[a]
      BY <1>4, <2>1, <3>1
    <3>3. last_store[a] = IF AllWriters(a) = {} THEN memory[a]
                          ELSE rob[Nearest(AllWriters(a))].instr_id
      BY <1>2, <3>1 DEF LastStores
    <3> QED BY <1>8, <1>9, <1>10, <2>1, <3>1, <3>2, <3>3
  <2>2. CASE i # t
    <3>1. rob'[i] = rob[i] /\ a = rob[i].instr.source_memory[j]
      BY <1>1, <2>2
    <3>2. a \in Addr /\ Used(i)
      BY <1>2, <1>5, <3>1 DEF EntryType, Instruction
    <3>3. /\ \A p \in Before(i) : rob'[p] = rob[p]
          /\ StoreWriters(i, a)' = StoreWriters(i, a)
          /\ Nearest(StoreWriters(i, a))' = Nearest(StoreWriters(i, a))
      BY <3>2, DispatchBefore
    <3>4. StoreWriters(i, a) # {} => Nearest(StoreWriters(i, a)) \in Before(i)
      BY <1>2, <3>2, NearestIn DEF StoreWriters
    <3>5. rob[i].expects[j] = IF StoreWriters(i, a) = {} THEN memory[a]
                              ELSE rob[Nearest(StoreWriters(i, a))].instr_id
      BY <1>2, <2>2, <3>1 DEF Expected
    <3> QED BY <3>1, <3>3, <3>4, <3>5
  <2> QED BY <2>1, <2>2
<1>12. LastStores'
  <2> SUFFICES ASSUME NEW a \in Addr
               PROVE  last_store'[a] = IF AllWriters(a)' = {} THEN memory[a]
                                       ELSE rob'[Nearest(AllWriters(a))'].instr_id
    BY <1>3 DEF LastStores
  <2>1. \A p \in RobIndex : p # t => (p \in AllWriters(a)' <=> p \in AllWriters(a))
    BY <1>1 DEF AllWriters
  <2>2. AllWriters(a)' \in SUBSET RobIndex
    BY DEF AllWriters
  <2>3. CASE \E j \in Destination : k.destination_memory[j] = a
    <3>1. t \in AllWriters(a)'
      BY <1>1, <1>4, <2>3 DEF AllWriters, Writes
    <3>2. \A p \in AllWriters(a)' : Age(p) <= Age(t)
      <4> SUFFICES ASSUME NEW p \in AllWriters(a)' PROVE Age(p) <= Age(t)
        OBVIOUS
      <4>1. p = t \/ p \in AllWriters(a)
        BY <2>1, <2>2
      <4>2. p \in RobIndex /\ Age(p) \in 0 .. ROB_SIZE - 1 /\ Age(t) \in 0 .. ROB_SIZE - 1
        BY <1>1, <1>2, <2>2, UsedIs
      <4> QED BY <1>1, <1>9, <4>1, <4>2
    <3>3. Nearest(AllWriters(a))' = t
      <4> DEFINE S == AllWriters(a)'
      <4>1. S \in SUBSET RobIndex /\ t \in S /\ \A p \in S : Age(p) <= Age(t)
        BY <2>2, <3>1, <3>2
      <4> HIDE DEF S
      <4>2. Nearest(S) = t
        BY <1>2, <4>1, NearestUnique
      <4>3. Nearest(S) = Nearest(AllWriters(a))'
        BY <1>6 DEF Nearest, S
      <4> QED BY <4>2, <4>3
    <3>4. last_store'[a] = next
      BY <1>3, <2>3
    <3> QED BY <1>4, <3>1, <3>3, <3>4
  <2>4. CASE ~ \E j \in Destination : k.destination_memory[j] = a
    <3>1. t \notin AllWriters(a)'
      BY <1>4, <2>4 DEF AllWriters, Writes
    <3>2. AllWriters(a)' = AllWriters(a)
      BY <1>9, <2>1, <2>2, <3>1
    <3>3. Nearest(AllWriters(a))' = Nearest(AllWriters(a))
      BY <1>6, <3>2 DEF Nearest
    <3>4. last_store'[a] = last_store[a]
      BY <1>3, <2>4
    <3> QED BY <1>2, <1>9, <3>2, <3>3, <3>4 DEF LastStores
  <2> QED BY <2>3, <2>4
<1> QED BY <1>11, <1>12

(* add_to_rob: a new instruction has all its operations outstanding.       *)
LEMMA DispatchData ==
    ASSUME IInv, NEW k \in Kind, add_to_rob(k)
    PROVE  /\ Values(rob, lq)' /\ OperationsCounted(rob, lq, sq)' /\ Producers(rob, lq, sq)'
<1>1. /\ tail \in RobIndex /\ ~ Used(tail)
      /\ rob'[tail] = Entry(next, k)
      /\ \A p \in RobIndex : p # tail => rob'[p] = rob[p]
  BY DispatchRob
<1>2. /\ last_store \in [Addr -> Int] /\ next \in Nat /\ retired \in Nat /\ LoadInv /\ QueuesTyped
      /\ Values(rob, lq) /\ OperationsCounted(rob, lq, sq) /\ Producers(rob, lq, sq)
  BY DEF IInv, RobTyped, DataInv
<1>3. lq' = lq /\ sq' = sq
  BY DEF add_to_rob, loadVars
<1> DEFINE e == rob'[tail]
<1>4. /\ e.instr = k /\ e.num_mem_ops = Operations(k)
      /\ \A j \in Source : e.lq_index[j] = None
      /\ \A j \in Destination : e.sq_index[j] = None
  <2>1. last_store \in [Addr -> Int] /\ next \in Nat /\ e = Entry(next, k)
    BY <1>1, <1>2
  <2> HIDE DEF e
  <2> QED BY <2>1, EntryFields
<1>5. /\ \A j \in Source : LoadOut(rob', lq, tail, j) <=> k.source_memory[j] # NoAddr
      /\ \A j \in Destination : StoreOut(rob', sq, tail, j) <=> k.destination_memory[j] # NoAddr
  BY <1>4 DEF LoadOut, StoreOut
<1>6. \A i \in RobIndex : i # tail =>
         /\ \A j \in Source : LoadOut(rob', lq, i, j) <=> LoadOut(rob, lq, i, j)
         /\ \A j \in Destination : StoreOut(rob', sq, i, j) <=> StoreOut(rob, sq, i, j)
  BY <1>1 DEF LoadOut, StoreOut
<1>7. Values(rob', lq)
  <2> SUFFICES ASSUME NEW i \in RobIndex, NEW j \in Source,
                      rob'[i].instr.source_memory[j] # NoAddr, ~ LoadOut(rob', lq, i, j)
               PROVE  rob'[i].value[j] = rob'[i].expects[j]
    BY DEF Values
  <2>1. i # tail
    BY <1>4, <1>5
  <2>2. rob'[i] = rob[i] /\ ~ LoadOut(rob, lq, i, j)
    BY <1>1, <1>6, <2>1
  <2> QED BY <1>2, <2>2 DEF Values
<1>8. OperationsCounted(rob', lq, sq)
  <2> SUFFICES ASSUME NEW i \in RobIndex
               PROVE  rob'[i].num_mem_ops
                        = Cardinality({j \in Source : LoadOut(rob', lq, i, j)})
                          + Cardinality({j \in Destination : StoreOut(rob', sq, i, j)})
    BY DEF OperationsCounted
  <2>1. CASE i = tail
    <3>1. /\ {j \in Source : LoadOut(rob', lq, i, j)} = {j \in Source : k.source_memory[j] # NoAddr}
          /\ {j \in Destination : StoreOut(rob', sq, i, j)}
                = {j \in Destination : k.destination_memory[j] # NoAddr}
      BY <1>5, <2>1
    <3> QED BY <1>4, <2>1, <3>1 DEF Operations
  <2>2. CASE i # tail
    <3>1. /\ {j \in Source : LoadOut(rob', lq, i, j)} = {j \in Source : LoadOut(rob, lq, i, j)}
          /\ {j \in Destination : StoreOut(rob', sq, i, j)}
                = {j \in Destination : StoreOut(rob, sq, i, j)}
      BY <1>6, <2>2
    <3> QED BY <1>1, <1>2, <2>2, <3>1 DEF OperationsCounted
  <2> QED BY <2>1, <2>2
<1>9. Producers(rob, lq, sq)'
  <2> SUFFICES ASSUME NEW l \in LqIndex, lq[l].address # NoAddr, NEW d, d = lq[l].rob_index,
                      NEW a, a = lq[l].address
               PROVE  IF lq[l].producer_id = None THEN StoreWriters(d, a)' = {}
                      ELSE /\ StoreWriters(d, a)' # {}
                           /\ lq[l].producer_id = rob'[Nearest(StoreWriters(d, a))'].instr_id
                           /\ d \in rob'[Nearest(StoreWriters(d, a))'].memory_instrs_depend_on_me
                           /\ lq[l].fetched = "NO"
                           /\ \A j \in Destination :
                                rob'[Nearest(StoreWriters(d, a))'].instr.destination_memory[j] = a
                                  => StoreOut(rob', sq, Nearest(StoreWriters(d, a))', j)
    BY <1>3 DEF Producers
  <2>1. d \in RobIndex /\ a \in Addr
    BY <1>2 DEF QueuesTyped, LoadType
  <2>2. Used(d)
    BY <1>2 DEF LoadInv, LoadSlots, Used
  <2> DEFINE p == Nearest(StoreWriters(d, a))
  <2>3. /\ StoreWriters(d, a)' = StoreWriters(d, a) /\ Nearest(StoreWriters(d, a))' = p
        /\ \A b \in Before(d) : b \in RobIndex /\ b # tail /\ rob'[b] = rob[b]
    BY <2>1, <2>2, DispatchBefore
  <2>4. StoreWriters(d, a) # {} => p \in RobIndex /\ p # tail /\ rob'[p] = rob[p]
    <3>1. StoreWriters(d, a) # {} => p \in Before(d)
      BY <1>2, <2>1, NearestIn DEF StoreWriters
    <3> QED BY <2>3, <3>1
  <2>5. IF lq[l].producer_id = None THEN StoreWriters(d, a) = {}
        ELSE /\ StoreWriters(d, a) # {} /\ lq[l].producer_id = rob[p].instr_id
             /\ d \in rob[p].memory_instrs_depend_on_me
             /\ lq[l].fetched = "NO"
             /\ \A j \in Destination : rob[p].instr.destination_memory[j] = a
                                         => StoreOut(rob, sq, p, j)
    BY <1>2 DEF Producers
  <2> HIDE DEF p
  <2> QED BY <1>6, <2>3, <2>4, <2>5
<1>10. Values(rob, lq)'
  BY <1>3, <1>7 DEF Values, LoadOut
<1>11. OperationsCounted(rob, lq, sq)'
  BY <1>3, <1>8 DEF OperationsCounted, LoadOut, StoreOut
<1> QED BY <1>9, <1>10, <1>11

(* add_to_rob preserves the invariant.                                     *)
LEMMA DispatchKeeps == ASSUME IInv, NEW k \in Kind, add_to_rob(k) PROVE IInv'
<1>1. failed' = failed /\ RobTyped'
  BY DispatchRob
<1>2. Failures'
  BY <1>1 DEF IInv, Failures
<1>3. DataInv'
  BY DispatchRegisters, DispatchExpected, DispatchData DEF DataInv
<1> QED BY <1>1, <1>2, <1>3, DispatchRegisters, DispatchStores, DispatchLoads DEF IInv

-----------------------------------------------------------------------------
(* Places in the store queue *)

(* Sets between which there is a bijection have the same size.             *)
LEMMA SameSize ==
    ASSUME NEW S, NEW T, IsFiniteSet(S), NEW f \in [S -> T],
           \A x, y \in S : f[x] = f[y] => x = y, \A b \in T : \E x \in S : f[x] = b
    PROVE  IsFiniteSet(T) /\ Cardinality(T) = Cardinality(S)
<1>1. f \in Bijection(S, T)
  BY DEF Bijection, Injection, Surjection, IsInjective
<1> QED BY <1>1, FS_Bijection DEF ExistsBijection

(* Back numbers the slots of the store queue.                              *)
LEMMA BackIs ==
    ASSUME NEW t \in SqIndex
    PROVE  /\ \A k \in SqIndex : Back(k, t) \in SqIndex
           /\ \A k, m \in SqIndex : Back(k, t) = Back(m, t) => k = m
           /\ \A b \in SqIndex : \E k \in SqIndex : Back(k, t) = b
<1> DEFINE N == SQ_SIZE
<1>1. N \in Nat \ {0} /\ SqIndex = 0 .. N - 1 /\ SqIndex \subseteq Int
  BY Sizes DEF SqIndex
<1>2. t \in Int /\ t - 1 \in Int
  BY <1>1
<1> HIDE DEF N
<1>3. \A k \in SqIndex : Back(k, t) = (t - 1 - k) % N /\ t - 1 - k \in Int
  BY <1>1, <1>2 DEF Back, N
<1>4. \A k \in SqIndex : Back(k, t) \in SqIndex
  BY <1>1, <1>3, ModRange
<1>5. ASSUME NEW k \in SqIndex, NEW m \in SqIndex, Back(k, t) = Back(m, t) PROVE k = m
  <2> DEFINE a == t - 1 - k
             b == t - 1 - m
  <2>1. a \in Int /\ b \in Int /\ -N < a - b /\ a - b < N
    BY <1>1, <1>2
  <2>2. a % N = b % N
    BY <1>3, <1>5
  <2>3. k \in Int /\ m \in Int
    BY <1>1
  <2> HIDE DEF a, b
  <2>4. a = b
    BY <1>1, <2>1, <2>2, ModInjective
  <2> QED BY <1>2, <2>3, <2>4 DEF a, b
<1>6. ASSUME NEW b \in SqIndex PROVE \E k \in SqIndex : Back(k, t) = b
  <2> DEFINE i == t - 1
             s == i - b
             k == s % N
  <2>1. i \in Int /\ s \in Int /\ b \in Int /\ i - s = b
    BY <1>1, <1>2
  <2> HIDE DEF i, s
  <2>2. k \in SqIndex
    BY <1>1, <2>1, ModRange
  <2>3. (i - k) % N = (i - s) % N
    BY <1>1, <2>1, ModMinus
  <2>4. b % N = b
    BY <1>1, ModSmall
  <2> HIDE DEF k
  <2>5. Back(k, t) = b
    BY <1>3, <2>1, <2>2, <2>3, <2>4 DEF i
  <2> QED BY <2>2, <2>5
<1> QED BY <1>4, <1>5, <1>6

(* A range of places holds as many slots as it is long. *)
LEMMA BackCount ==
    ASSUME NEW t \in SqIndex, NEW m \in Nat, NEW n \in Nat, m <= n, n <= SQ_SIZE
    PROVE  Cardinality({k \in SqIndex : m <= Back(k, t) /\ Back(k, t) < n}) = n - m
<1> DEFINE S == {k \in SqIndex : m <= Back(k, t) /\ Back(k, t) < n}
           T == m .. n - 1
           f == [k \in S |-> Back(k, t)]
<1>1. SqIndex = 0 .. SQ_SIZE - 1 /\ SQ_SIZE \in Nat /\ IsFiniteSet(SqIndex)
  BY Sizes DEF SqIndex
<1>2. T \subseteq SqIndex /\ \A b \in SqIndex : m <= b /\ b < n <=> b \in T
  BY <1>1
<1>3. IsFiniteSet(S)
  BY <1>1, FS_Subset
<1>4. IsFiniteSet(T) /\ Cardinality(T) = n - m
  <2>1. m \in Int /\ n - 1 \in Int
    OBVIOUS
  <2>2. IsFiniteSet(T) /\ Cardinality(T) = IF m > n - 1 THEN 0 ELSE (n - 1) - m + 1
    BY <2>1, FS_Interval
  <2> QED BY <2>2
<1>5. f \in [S -> T]
  BY <1>2, BackIs
<1>6. \A x, y \in S : f[x] = f[y] => x = y
  BY BackIs
<1>7. \A b \in T : \E k \in S : f[k] = b
  <2> SUFFICES ASSUME NEW b \in T PROVE \E k \in S : f[k] = b
    OBVIOUS
  <2>1. PICK k \in SqIndex : Back(k, t) = b
    BY <1>2, BackIs
  <2>2. k \in S
    BY <1>2, <2>1
  <2> QED BY <2>1, <2>2
<1> HIDE DEF S, T, f
<1>8. Cardinality(S) = Cardinality(T)
  BY <1>3, <1>5, <1>6, <1>7, SameSize
<1> QED BY <1>4, <1>8 DEF S

(* The slots of a set closed towards the oldest are the oldest ones. *)
LEMMA OldestSlots ==
    ASSUME NEW t \in SqIndex, NEW n \in Nat, n <= SQ_SIZE, NEW S \in SUBSET SqIndex,
           \A k \in S : Back(k, t) < n,
           \A k \in S, m \in SqIndex : Back(k, t) < Back(m, t) /\ Back(m, t) < n => m \in S
    PROVE  /\ n - Cardinality(S) \in Nat
           /\ \A k \in SqIndex : Back(k, t) < n /\ k \notin S <=> Back(k, t) < n - Cardinality(S)
<1>1. /\ \A k \in SqIndex : Back(k, t) \in Nat
      /\ \A k, m \in SqIndex : Back(k, t) = Back(m, t) => k = m
  BY BackIs, Sizes
<1>2. CASE S = {}
  <2>1. Cardinality(S) = 0
    BY <1>2, FS_EmptySet
  <2> QED BY <1>1, <1>2, <2>1
<1>3. CASE S # {}
  <2> DEFINE B == {Back(k, t) : k \in S}
  <2>1. B \in SUBSET Nat /\ B # {}
    BY <1>1, <1>3
  <2>2. PICK m \in B : \A b \in B : m <= b
    BY <2>1, LeastOfNat
  <2>3. PICK o \in S : m = Back(o, t)
    BY <2>2
  <2>4. m \in Nat /\ m < n
    BY <1>1, <2>3
  <2>5. ASSUME NEW k \in SqIndex PROVE k \in S <=> m <= Back(k, t) /\ Back(k, t) < n
    <3>1. k \in S => m <= Back(k, t) /\ Back(k, t) < n
      BY <2>2
    <3>2. CASE Back(k, t) = m
      BY <1>1, <2>3, <2>4, <3>2
    <3>3. CASE m < Back(k, t) /\ Back(k, t) < n
      <4>1. o \in SqIndex /\ Back(o, t) < Back(k, t)
        BY <2>3, <3>3
      <4>2. k \in S
        BY <3>3, <4>1
      <4> QED BY <1>1, <2>4, <3>3, <4>2
    <3>4. Back(k, t) \in Nat
      BY <1>1
    <3> QED BY <2>4, <3>1, <3>2, <3>3, <3>4
  <2>6. S = {k \in SqIndex : m <= Back(k, t) /\ Back(k, t) < n}
    BY <2>5
  <2>7. Cardinality(S) = n - m
    BY <2>4, <2>6, BackCount
  <2>8. n - Cardinality(S) = m
    BY <2>4, <2>7
  <2> QED BY <1>1, <2>4, <2>5, <2>8
<1> QED BY <1>2, <1>3

-----------------------------------------------------------------------------
(* Retirement *)

(* An entry with no operation left *)
LEMMA NothingOut ==
    ASSUME NEW r, NEW q, NEW s, OperationsCounted(r, q, s), NEW i \in RobIndex,
           r[i].num_mem_ops = 0
    PROVE  /\ \A j \in Source : ~ LoadOut(r, q, i, j)
           /\ \A j \in Destination : ~ StoreOut(r, s, i, j)
<1> DEFINE L == {j \in Source : LoadOut(r, q, i, j)}
           S == {j \in Destination : StoreOut(r, s, i, j)}
<1>1. IsFiniteSet(L) /\ IsFiniteSet(S)
  <2>1. L \in SUBSET Source /\ S \in SUBSET Destination
    OBVIOUS
  <2> QED BY <2>1, FiniteOperands, FS_Subset
<1>2. Cardinality(L) + Cardinality(S) = 0
  BY DEF OperationsCounted
<1>3. (\A j \in Source : LoadOut(r, q, i, j) => j \in L)
      /\ (\A j \in Destination : StoreOut(r, s, i, j) => j \in S)
  OBVIOUS
<1> HIDE DEF L, S
<1>4. Cardinality(L) \in Nat /\ Cardinality(S) \in Nat
  BY <1>1, FS_CardinalityType
<1>5. Cardinality(L) = 0 /\ Cardinality(S) = 0
  BY <1>2, <1>4
<1>6. L = {} /\ S = {}
  BY <1>1, <1>5, FS_EmptySet
<1> QED BY <1>3, <1>6

(* retire_rob: the head leaves and is before no entry any more.            *)
LEMMA RetireAges ==
    ASSUME retired \in Nat, retired' = retired + 1, NEW h \in RobIndex, h = head
    PROVE  /\ Age(h) = 0 /\ Before(h) = {}
           /\ \A i \in RobIndex : Age(i)' = IF i = h THEN ROB_SIZE - 1 ELSE Age(i) - 1
           /\ \A i \in RobIndex : i # h => Before(i)' = Before(i) \ {h} /\ h \in Before(i)
           /\ \A T \in SUBSET RobIndex : T # {} /\ h \notin T =>
                 /\ Nearest(T)' = Nearest(T) /\ Nearest(T \cup {h}) = Nearest(T)
                 /\ Nearest(T) \in T
<1>1. \A i \in RobIndex : Age(i) \in 0 .. ROB_SIZE - 1
  BY AgeIs DEF RobIndex
<1>2. ROB_SIZE \in Nat \ {0} /\ Age(h) = 0
  BY Sizes, HeadAge
<1>3. \A i \in RobIndex : i # h => Age(i) \in 1 .. ROB_SIZE - 1
  <2> SUFFICES ASSUME NEW i \in RobIndex, i # h PROVE Age(i) # 0
    BY <1>1
  <2> QED BY <1>2, AgeInjective
<1>4. \A i \in RobIndex : Age(i)' = IF i = h THEN ROB_SIZE - 1 ELSE Age(i) - 1
  BY AgeRetired
<1>5. Before(h) = {}
  BY <1>1, <1>2 DEF Before
<1>6. ASSUME NEW i \in RobIndex, i # h PROVE Before(i)' = Before(i) \ {h} /\ h \in Before(i)
  <2>1. h \in Before(i)
    BY <1>2, <1>3, <1>6 DEF Before
  <2>2. ASSUME NEW p \in RobIndex PROVE p \in Before(i)' <=> p \in Before(i) /\ p # h
    <3>1. CASE p = h
      <4>1. Age(p)' = ROB_SIZE - 1 /\ Age(i)' = Age(i) - 1
        BY <1>4, <1>6, <3>1
      <4>2. ~ (Age(p)' < Age(i)')
        BY <1>2, <1>3, <1>6, <4>1
      <4> QED BY <3>1, <4>2 DEF Before
    <3>2. CASE p # h
      <4>1. Age(p)' = Age(p) - 1 /\ Age(i)' = Age(i) - 1
        BY <1>4, <1>6, <3>2
      <4>2. Age(p)' < Age(i)' <=> Age(p) < Age(i)
        BY <1>1, <4>1
      <4> QED BY <3>2, <4>2 DEF Before
    <3> QED BY <3>1, <3>2
  <2>3. Before(i)' \subseteq RobIndex /\ Before(i) \subseteq RobIndex
    BY DEF Before
  <2> QED BY <2>1, <2>2, <2>3
<1>7. ASSUME NEW T \in SUBSET RobIndex, T # {}, h \notin T
      PROVE  /\ Nearest(T)' = Nearest(T) /\ Nearest(T \cup {h}) = Nearest(T)
             /\ Nearest(T) \in T
  <2>1. \A p, o \in T : (Age(o) <= Age(p))' <=> Age(o) <= Age(p)
    <3>1. \A p \in T : Age(p)' = Age(p) - 1 /\ Age(p) \in Int
      BY <1>3, <1>4, <1>7
    <3> QED BY <3>1
  <2>2. \A p \in T : (\A o \in T : (Age(o) <= Age(p))') <=> (\A o \in T : Age(o) <= Age(p))
    BY <2>1
  <2>3. Nearest(T)' = Nearest(T)
    BY <2>2 DEF Nearest
  <2>4. Nearest(T) \in T /\ \A o \in T : Age(o) <= Age(Nearest(T))
    BY <1>7, NearestIs
  <2> DEFINE n == Nearest(T)
             U == T \cup {h}
  <2>5. n \in U /\ U \in SUBSET RobIndex /\ \A o \in U : Age(o) <= Age(n)
    BY <1>2, <1>3, <1>7, <2>4
  <2> HIDE DEF n, U
  <2>6. Nearest(U) = n
    BY <2>5, NearestUnique
  <2> QED BY <2>3, <2>4, <2>6 DEF n, U
<1> QED BY <1>2, <1>4, <1>5, <1>6, <1>7

(* The head leaves nothing behind it, and the others stay as they are. *)
LEMMA RetireRob ==
    ASSUME IInv, retire_rob, NEW h, h = head
    PROVE  /\ h \in RobIndex /\ retired \in Nat /\ retired' = retired + 1
           /\ Used(h) /\ rob[h].executed = "COMPLETED"
           /\ rob'[h] = FreeEntry /\ \A i \in RobIndex : i # h => rob'[i] = rob[i]
           /\ \A j \in Source : ~ LoadOut(rob, lq, h, j)
           /\ \A j \in Destination : ~ StoreOut(rob, sq, h, j)
           /\ \A i \in RobIndex : Used(i)' <=> Used(i) /\ i # h
           /\ rob' \in [RobIndex -> EntryType]
<1>1. /\ RobTyped /\ retired \in Nat /\ rob \in [RobIndex -> EntryType]
      /\ OperationsCounted(rob, lq, sq) /\ Phases
  BY DEF IInv, RobTyped, RegInv, DataInv
<1>2. /\ Used(h) /\ rob[h].executed = "COMPLETED" /\ retired' = retired + 1
      /\ rob' = [rob EXCEPT ![h] = FreeEntry]
  BY DEF retire_rob
<1>3. h \in RobIndex
  BY <1>1, HeadAge
<1>4. rob[h].num_mem_ops = 0
  BY <1>1, <1>2, <1>3 DEF Phases
<1>5. /\ \A j \in Source : ~ LoadOut(rob, lq, h, j)
      /\ \A j \in Destination : ~ StoreOut(rob, sq, h, j)
  BY <1>1, <1>3, <1>4, NothingOut
<1>6. rob'[h] = FreeEntry /\ \A i \in RobIndex : i # h => rob'[i] = rob[i]
  BY <1>1, <1>2, <1>3
<1>7. rob' \in [RobIndex -> EntryType]
  BY <1>1, <1>2, FreeFields
<1>8. \A i \in RobIndex : Used(i)' <=> Used(i) /\ i # h
  BY <1>6, FreeFields DEF Used
<1> QED BY <1>1, <1>2, <1>3, <1>5, <1>6, <1>7, <1>8

(* retire_rob: no dependence is lost with the head.                        *)
LEMMA RetireRegisters ==
    ASSUME IInv, retire_rob
    PROVE  Ring' /\ RegInv' /\ MemoryListed(rob)' /\ MemCounted'
<1>0. PICK h \in RobIndex : h = head
  BY RetireRob
<1>1. /\ retired \in Nat /\ retired' = retired + 1
      /\ Used(h) /\ rob[h].executed = "COMPLETED"
      /\ rob'[h] = FreeEntry /\ \A i \in RobIndex : i # h => rob'[i] = rob[i]
      /\ \A i \in RobIndex : Used(i)' <=> Used(i) /\ i # h
  BY <1>0, RetireRob
<1>2. /\ Age(h) = 0 /\ Before(h) = {}
      /\ \A i \in RobIndex : Age(i)' = IF i = h THEN ROB_SIZE - 1 ELSE Age(i) - 1
      /\ \A i \in RobIndex : i # h => Before(i)' = Before(i) \ {h} /\ h \in Before(i)
      /\ \A T \in SUBSET RobIndex : T # {} /\ h \notin T =>
            /\ Nearest(T)' = Nearest(T) /\ Nearest(T \cup {h}) = Nearest(T)
            /\ Nearest(T) \in T
  BY <1>0, <1>1, RetireAges
<1>3. /\ RobTyped /\ Ring /\ RegInv /\ DataInv /\ next \in Nat /\ ROB_SIZE \in Nat \ {0}
  BY Sizes DEF IInv, RobTyped
<1>4. next' = next /\ rte0' = rte0 /\ rte1' = rte1 /\ inflight' = inflight
  BY DEF retire_rob, readyVars
<1>5. /\ FreeEntry.instr_id = None /\ FreeEntry.scheduled = "NO" /\ FreeEntry.executed = "NO"
      /\ ~ FreeEntry.reg_ready /\ FreeEntry.num_reg_dependent = 0
      /\ FreeEntry.registers_depend_on_me = {} /\ FreeEntry.memory_instrs_depend_on_me = {}
      /\ \A j \in Source : FreeEntry.lq_index[j] = None
                           /\ FreeEntry.instr.source_memory[j] = NoAddr
      /\ \A j \in Destination : FreeEntry.sq_index[j] = None
                                /\ FreeEntry.instr.destination_memory[j] = NoAddr
  BY FreeFields
<1>6. FreeEntry.instr = NoInstruction
  BY DEF FreeEntry, Entry
<1>7. ~ is_memory(FreeEntry) /\ ~ Started(FreeEntry)
  BY <1>5 DEF is_memory, Started
<1>8. Ring'
  <2>1. \A i \in RobIndex : Age(i) \in 0 .. ROB_SIZE - 1
    BY <1>3, UsedIs
  <2>2. 0 < next - retired
    BY <1>1, <1>2, <1>3, UsedIs
  <2>3. retired' <= next' /\ next' <= retired' + ROB_SIZE
    BY <1>1, <1>3, <1>4, <2>2 DEF Ring
  <2>4. ASSUME NEW i \in RobIndex
        PROVE  IF Age(i)' < next' - retired' THEN rob'[i].instr_id = retired' + Age(i)'
                                             ELSE Blank(rob'[i])
    <3>1. CASE i = h
      <4>1. next - retired <= ROB_SIZE
        BY <1>1, <1>3 DEF Ring
      <4>2. ~ (Age(i)' < next' - retired')
        BY <1>1, <1>2, <1>3, <1>4, <3>1, <4>1
      <4> QED BY <1>1, <1>5, <1>6, <3>1, <4>2 DEF Blank
    <3>2. CASE i # h
      <4>1. Age(i)' = Age(i) - 1 /\ Age(i) \in Int
        BY <1>2, <2>1, <3>2
      <4>2. Age(i)' < next' - retired' <=> Age(i) < next - retired
        BY <1>1, <1>3, <1>4, <4>1
      <4>3. retired' + Age(i)' = retired + Age(i)
        BY <1>1, <4>1
      <4> QED BY <1>1, <1>3, <3>2, <4>2, <4>3 DEF Ring
    <3> QED BY <3>1, <3>2
  <2> QED BY <2>3, <2>4 DEF Ring, Blank
<1>9. Registered'
  <2> SUFFICES ASSUME NEW p \in RobIndex, NEW i \in RobIndex, NEW j \in Source,
                      <<i, j>> \in rob'[p].registers_depend_on_me
               PROVE  p \in Before(i)' /\ Used(i)' /\ rob'[i].scheduled # "NO"
    BY DEF Registered
  <2>1. p # h
    BY <1>1, <1>5
  <2>2. p \in Before(i) /\ Used(i) /\ rob[i].scheduled # "NO"
    BY <1>1, <1>3, <2>1 DEF RegInv, Registered
  <2>3. i # h
    BY <1>2, <2>2
  <2> QED BY <1>1, <1>2, <2>1, <2>2, <2>3
<1>10. \A i \in RobIndex, j \in Source : i # h =>
          /\ RegWriters(i, j)' = RegWriters(i, j) \ {h}
          /\ RegWriters(i, j)' # {} => /\ Nearest(RegWriters(i, j))' = Nearest(RegWriters(i, j))
                                       /\ Nearest(RegWriters(i, j)) # h
  <2> SUFFICES ASSUME NEW i \in RobIndex, NEW j \in Source, i # h
               PROVE  /\ RegWriters(i, j)' = RegWriters(i, j) \ {h}
                      /\ RegWriters(i, j)' # {} =>
                            /\ Nearest(RegWriters(i, j))' = Nearest(RegWriters(i, j))
                            /\ Nearest(RegWriters(i, j)) # h
    OBVIOUS
  <2>1. PICK S : S = RegWriters(i, j)
    OBVIOUS
  <2>2. PICK T : T = S \ {h}
    OBVIOUS
  <2>3. RegWriters(i, j)' = T
    <3>1. \A p \in Before(i) : p \in RobIndex
      BY DEF Before
    <3>2. rob'[i] = rob[i] /\ Before(i)' = Before(i) \ {h}
      BY <1>1, <1>2
    <3> QED BY <1>1, <2>1, <2>2, <3>1, <3>2 DEF RegWriters
  <2>4. T \in SUBSET RobIndex /\ h \notin T /\ (S = T \/ S = T \cup {h})
    BY <2>1, <2>2 DEF RegWriters, Before
  <2>5. Nearest(RegWriters(i, j))' = Nearest(T)'
    BY <2>3 DEF Nearest
  <2>6. T # {} => Nearest(T)' = Nearest(S) /\ Nearest(S) \in T
    BY <1>2, <2>4
  <2> QED BY <2>1, <2>2, <2>3, <2>4, <2>5, <2>6
<1>11. NearestKnown'
  <2> SUFFICES ASSUME NEW i \in RobIndex, NEW j \in Source,
                      Used(i)', rob'[i].scheduled # "NO", RegWriters(i, j)' # {},
                      rob'[Nearest(RegWriters(i, j))'].executed # "COMPLETED"
               PROVE  <<i, j>> \in rob'[Nearest(RegWriters(i, j))'].registers_depend_on_me
    BY DEF NearestKnown
  <2> DEFINE n == Nearest(RegWriters(i, j))
  <2>1. i # h /\ Used(i) /\ rob[i].scheduled # "NO"
    BY <1>1
  <2>2. /\ RegWriters(i, j) # {} /\ n \in RobIndex /\ Nearest(RegWriters(i, j))' = n
        /\ n # h
    BY <1>1, <1>10, <2>1, NearestIn
  <2> QED BY <1>1, <1>3, <2>1, <2>2 DEF RegInv, NearestKnown
<1>12. DependencesCounted'
  <2> SUFFICES ASSUME NEW i \in RobIndex
               PROVE  rob'[i].num_reg_dependent = Cardinality(DepsOf(i)')
    BY DEF DependencesCounted
  <2>1. \A d \in RobIndex \X Source : d[1] \in RobIndex /\ d[2] \in Source
    OBVIOUS
  <2>2. CASE i = h
    <3>1. ASSUME NEW d \in RobIndex \X Source PROVE d \notin DepsOf(i)'
      <4>1. <<i, d[2]>> \notin rob[d[1]].registers_depend_on_me
        BY <1>2, <1>3, <2>1, <2>2 DEF RegInv, Registered
      <4>2. <<i, d[2]>> \notin rob'[d[1]].registers_depend_on_me
        BY <1>1, <1>5, <2>1, <4>1
      <4> QED BY <4>2 DEF DepsOf
    <3>2. DepsOf(i)' = {}
      BY <3>1 DEF DepsOf
    <3> QED BY <1>1, <1>5, <2>2, <3>2, FS_EmptySet
  <2>3. CASE i # h
    <3>1. ASSUME NEW d \in RobIndex \X Source PROVE d \in DepsOf(i)' <=> d \in DepsOf(i)
      <4>1. CASE d[1] = h
        <5>1. d \notin DepsOf(i)' /\ d \notin DepsOf(i)
          BY <1>1, <1>5, <4>1 DEF DepsOf
        <5> QED BY <5>1
      <4>2. CASE d[1] # h
        <5>1. rob'[d[1]] = rob[d[1]] /\ (Used(d[1])' <=> Used(d[1]))
          BY <1>1, <2>1, <4>2
        <5>2. d[1] \in Before(i)' <=> d[1] \in Before(i)
          BY <1>2, <2>3, <4>2
        <5> QED BY <5>1, <5>2 DEF DepsOf
      <4> QED BY <4>1, <4>2
    <3>2. DepsOf(i)' = DepsOf(i)
      BY <3>1 DEF DepsOf
    <3> QED BY <1>1, <1>3, <2>3, <3>2 DEF RegInv, DependencesCounted
  <2> QED BY <2>2, <2>3
<1>13. Phases'
  <2> SUFFICES ASSUME NEW i \in RobIndex
               PROVE  /\ rob'[i].reg_ready
                           <=> rob'[i].scheduled # "NO" /\ rob'[i].num_reg_dependent = 0
                      /\ Started(rob'[i]) => rob'[i].reg_ready
                      /\ ~ is_memory(rob'[i]) => rob'[i].scheduled # "INFLIGHT"
                      /\ is_memory(rob'[i]) /\ Used(i)' =>
                            /\ rob'[i].scheduled = "COMPLETED" <=> AllAdded(rob'[i])
                            /\ rob'[i].executed # "NO" <=> rob'[i].scheduled = "COMPLETED"
                      /\ rob'[i].executed = "COMPLETED" => rob'[i].num_mem_ops = 0
    BY DEF Phases
  <2>1. CASE i = h
    BY <1>1, <1>5, <1>7, <2>1
  <2>2. CASE i # h
    BY <1>1, <1>3, <2>2 DEF RegInv, Phases
  <2> QED BY <2>1, <2>2
<1>14. ReadyQueues'
  <2>1. \A i \in RobIndex : ReadyToExecute(i) => ReadyToExecute(i)'
    BY <1>1 DEF ReadyToExecute
  <2> QED BY <1>3, <1>4, <2>1 DEF RegInv, ReadyQueues
<1>15. RegCounted'
  <2>1. {i \in RobIndex : ~ is_memory(rob'[i]) /\ rob'[i].executed = "INFLIGHT"}
          = {i \in RobIndex : ~ is_memory(rob[i]) /\ rob[i].executed = "INFLIGHT"}
    BY <1>1, <1>5
  <2> QED BY <1>3, <1>4, <2>1 DEF RegInv, RegCounted
<1>16. MemCounted'
  <2>1. {i \in RobIndex : is_memory(rob'[i]) /\ rob'[i].num_mem_ops = 0
                            /\ rob'[i].executed = "INFLIGHT"}
          = {i \in RobIndex : is_memory(rob[i]) /\ rob[i].num_mem_ops = 0
                                /\ rob[i].executed = "INFLIGHT"}
    BY <1>1, <1>5
  <2> QED BY <1>3, <1>4, <2>1 DEF DataInv, MemCounted
<1>17. MemoryListed(rob)'
  <2> SUFFICES ASSUME NEW p \in RobIndex, NEW d \in RobIndex,
                      d \in rob'[p].memory_instrs_depend_on_me
               PROVE  p \in Before(d)' /\ Used(d)'
    BY DEF MemoryListed
  <2>1. p # h
    BY <1>1, <1>5
  <2>2. p \in Before(d) /\ Used(d)
    BY <1>1, <1>3, <2>1 DEF DataInv, MemoryListed
  <2>3. d # h
    BY <1>2, <2>2
  <2> QED BY <1>1, <1>2, <2>1, <2>2, <2>3
<1> QED BY <1>8, <1>9, <1>11, <1>12, <1>13, <1>14, <1>15, <1>16, <1>17 DEF RegInv

(* The slots of entry i *)
SlotsOf(i) == {k \in SqIndex : sq[k].address # NoAddr /\ sq[k].rob_index = i}

(* The slots update_sq frees are those the entry points at.                *)
LEMMA SlotsAre ==
    ASSUME RobTyped, QueuesTyped, StoreInv, NEW i \in RobIndex
    PROVE  SlotsOf(i) = {rob[i].sq_index[j] : j \in Destination} \ {None}
<1> DEFINE S == {rob[i].sq_index[j] : j \in Destination} \ {None}
<1>1. \A k \in SqIndex : k # None
  BY Sizes DEF None
<1>2. StoreSlots(rob, sq) /\ StoreIndices(rob, sq)
  BY DEF StoreInv
<1>3. ASSUME NEW k \in SlotsOf(i) PROVE k \in S
  <2>1. k \in SqIndex /\ sq[k].address # NoAddr /\ sq[k].rob_index = i
    BY DEF SlotsOf
  <2> QED BY <1>1, <1>2, <2>1 DEF StoreSlots
<1>4. ASSUME NEW k \in S PROVE k \in SlotsOf(i)
  <2>1. PICK j \in Destination : k = rob[i].sq_index[j] /\ k # None
    OBVIOUS
  <2>2. sq[k].address # NoAddr /\ sq[k].rob_index = i
    BY <1>2, <2>1 DEF StoreIndices
  <2>3. k \in SqIndex
    BY <2>1 DEF RobTyped, EntryType
  <2> QED BY <2>2, <2>3 DEF SlotsOf
<1> QED BY <1>3, <1>4

(* retire_rob, the store queue and memory                                  *)
LEMMA RetireSlots ==
    ASSUME IInv, retire_rob, NEW h, h = head
    PROVE  /\ sq' = [k \in SqIndex |-> IF k \in SlotsOf(h) THEN FreeStore ELSE sq[k]]
           /\ sq_occupancy' = sq_occupancy - Cardinality(SlotsOf(h))
           /\ \A k \in SlotsOf(h) : sq[k].fetched # "NO" /\ sq[k].instr_id = retired
           /\ memory' = [a \in Addr |-> IF Writes(rob[h], a) THEN rob[h].instr_id ELSE memory[a]]
           /\ RobTyped'
<1> DEFINE e == rob[h]
           S == {e.sq_index[j] : j \in Destination} \ {None}
           stored == {sq[k].address : k \in S}
<1>1. /\ RobTyped /\ Ring /\ QueuesTyped /\ StoreInv /\ Phases
      /\ StoreSlots(rob, sq) /\ StoreIndices(rob, sq)
  BY DEF IInv, RegInv, StoreInv
<1>2. /\ h \in RobIndex /\ Used(h) /\ rob[h].executed = "COMPLETED" /\ Age(h) = 0
      /\ \A j \in Destination : ~ StoreOut(rob, sq, h, j)
      /\ retired \in Nat /\ retired' = retired + 1 /\ rob' \in [RobIndex -> EntryType]
  BY RetireRob, RetireAges
<1>3. /\ memory' = [a \in Addr |-> IF a \in stored THEN e.instr_id ELSE memory[a]]
      /\ sq' = [s \in SqIndex |-> IF s \in S THEN FreeStore ELSE sq[s]]
      /\ sq_occupancy' = sq_occupancy - Cardinality(S)
      /\ next' = next /\ rte0' = rte0 /\ rte1' = rte1 /\ inflight' = inflight
      /\ last_store' = last_store
  BY DEF retire_rob, readyVars
<1>4. SlotsOf(h) = S
  BY <1>1, <1>2, SlotsAre
<1>5. ASSUME NEW k \in S
      PROVE  /\ sq[k].fetched # "NO" /\ sq[k].instr_id = retired
             /\ \E j \in Destination : k = rob[h].sq_index[j] /\ k # None
                    /\ sq[k].address = rob[h].instr.destination_memory[j]
  <2>1. PICK j \in Destination : k = rob[h].sq_index[j] /\ k # None
    OBVIOUS
  <2>2. /\ rob[h].instr.destination_memory[j] = sq[k].address /\ sq[k].address # NoAddr
        /\ sq[k].instr_id = rob[h].instr_id
    BY <1>1, <1>2, <2>1 DEF StoreIndices
  <2>3. sq[k].fetched # "NO"
    BY <1>2, <2>1, <2>2 DEF StoreOut
  <2>4. rob[h].instr_id = retired
    BY <1>1, <1>2, UsedIs
  <2> QED BY <2>1, <2>2, <2>3, <2>4
<1>6. ASSUME NEW a \in Addr PROVE a \in stored <=> Writes(rob[h], a)
  <2>1. a \in stored => Writes(rob[h], a)
    BY <1>5 DEF Writes
  <2>2. ASSUME NEW j \in Destination, rob[h].instr.destination_memory[j] = a
        PROVE  a \in stored
    <3>1. a # NoAddr
      BY CoreAssumption
    <3>2. is_memory(rob[h])
      BY <2>2, <3>1 DEF is_memory
    <3>3. rob[h].sq_index[j] # None
      BY <1>1, <1>2, <2>2, <3>1, <3>2 DEF Phases, AllAdded
    <3>4. rob[h].sq_index[j] \in S
      BY <3>3
    <3>5. sq[rob[h].sq_index[j]].address = a
      BY <1>1, <1>2, <2>2, <3>3 DEF StoreIndices
    <3> QED BY <3>4, <3>5
  <2> QED BY <2>1, <2>2 DEF Writes
<1> HIDE DEF stored, S
<1>7. memory' = [a \in Addr |-> IF Writes(rob[h], a) THEN rob[h].instr_id ELSE memory[a]]
  BY <1>3, <1>6
<1>8. memory' \in [Addr -> Int]
  BY <1>1, <1>2, <1>7 DEF RobTyped, EntryType
<1>9. RobTyped'
  BY <1>1, <1>2, <1>3, <1>8 DEF RobTyped
<1> QED BY <1>3, <1>4, <1>5, <1>7, <1>9

(* retire_rob frees the oldest slots of the store queue.                   *)
LEMMA RetireStores == ASSUME IInv, retire_rob PROVE QueuesTyped' /\ StoreInv'
<1>0. PICK h \in RobIndex : h = head
  BY RetireRob
<1>1. /\ rob'[h] = FreeEntry /\ \A i \in RobIndex : i # h => rob'[i] = rob[i]
  BY <1>0, RetireRob
<1>2. PICK S : S = SlotsOf(h)
  OBVIOUS
<1>3. /\ sq' = [k \in SqIndex |-> IF k \in S THEN FreeStore ELSE sq[k]]
      /\ sq_occupancy' = sq_occupancy - Cardinality(S)
      /\ \A k \in S : /\ k \in SqIndex /\ sq[k].fetched # "NO" /\ sq[k].instr_id = retired
                       /\ sq[k].address # NoAddr
      /\ \A k \in SqIndex : k \in S <=> sq[k].address # NoAddr /\ sq[k].rob_index = h
  <2>1. \A k \in SqIndex : k \in S <=> sq[k].address # NoAddr /\ sq[k].rob_index = h
    BY <1>2 DEF SlotsOf
  <2>2. S \subseteq SqIndex
    BY <1>2 DEF SlotsOf
  <2> QED BY <1>0, <1>2, <2>1, <2>2, RetireSlots
<1>4. /\ lq' = lq /\ lq_occupancy' = lq_occupancy /\ rtl0' = rtl0
      /\ sq_tail' = sq_tail /\ rts0' = rts0 /\ sta' = sta /\ next' = next
  BY DEF retire_rob, loadVars
<1>5. /\ RobTyped /\ Ring /\ QueuesTyped /\ StoreSlots(rob, sq) /\ StoreIndices(rob, sq)
      /\ ReadyStores(sq, rts0) /\ StoreOrder(sq, sq_tail, sq_occupancy, sta)
      /\ sq \in [SqIndex -> StoreType] /\ sq_tail \in SqIndex /\ sq_occupancy \in Int
      /\ retired \in Nat
  BY DEF IInv, StoreInv, QueuesTyped, RobTyped
<1>6. /\ FreeStore \in StoreType /\ FreeStore.address = NoAddr
  BY HeadAge, <1>0, <1>5, Sizes DEF FreeStore, StoreType, None, Phase, RobIndex
<1>7. \A k \in SqIndex : sq'[k] = IF k \in S THEN FreeStore ELSE sq[k]
  BY <1>3
<1>8. IsFiniteSet(S) /\ Cardinality(S) \in Nat
  BY <1>3, Sizes, FS_Subset, FS_CardinalityType
<1>9. QueuesTyped'
  <2>1. sq' \in [SqIndex -> StoreType]
    BY <1>3, <1>5, <1>6
  <2>2. sq_occupancy' \in Int
    BY <1>3, <1>5, <1>8
  <2> QED BY <1>4, <1>5, <2>1, <2>2 DEF QueuesTyped
<1>10. \A k \in SqIndex : k # None /\ sq[k].rob_index \in RobIndex
  BY <1>5, Sizes DEF StoreType, None
<1>11. StoreSlots(rob', sq')
  <2> SUFFICES ASSUME NEW k \in SqIndex
               PROVE  IF sq'[k].address = NoAddr THEN sq'[k] = FreeStore
                      ELSE /\ \E j \in Destination : rob'[sq'[k].rob_index].sq_index[j] = k
                           /\ sq'[k].fetched # "INFLIGHT"
    BY DEF StoreSlots
  <2>1. CASE k \in S
    BY <1>6, <1>7, <2>1
  <2>2. CASE k \notin S
    <3>1. sq'[k] = sq[k] /\ (sq[k].address # NoAddr => rob'[sq[k].rob_index] = rob[sq[k].rob_index])
      BY <1>1, <1>3, <1>7, <1>10, <2>2
    <3> QED BY <1>5, <3>1 DEF StoreSlots
  <2> QED BY <2>1, <2>2
<1>12. StoreIndices(rob', sq')
  <2> SUFFICES ASSUME NEW i \in RobIndex, NEW j \in Destination, NEW k,
                      k = rob'[i].sq_index[j], k # None
               PROVE  /\ rob'[i].instr.destination_memory[j] = sq'[k].address
                      /\ sq'[k].address # NoAddr
                      /\ sq'[k].rob_index = i /\ sq'[k].instr_id = rob'[i].instr_id
                      /\ \A d \in Destination : rob'[i].sq_index[d] = k => d = j
    BY DEF StoreIndices
  <2>1. i # h
    BY <1>1, FreeFields
  <2>2. rob'[i] = rob[i]
    BY <1>1, <2>1
  <2>3. k \in SqIndex
    BY <1>5, <2>2 DEF RobTyped, EntryType
  <2>4. /\ rob[i].instr.destination_memory[j] = sq[k].address /\ sq[k].address # NoAddr
        /\ sq[k].rob_index = i /\ sq[k].instr_id = rob[i].instr_id
        /\ \A d \in Destination : rob[i].sq_index[d] = k => d = j
    BY <1>5, <2>2 DEF StoreIndices
  <2>5. sq'[k] = sq[k]
    BY <1>3, <1>7, <2>1, <2>3, <2>4
  <2> QED BY <2>2, <2>4, <2>5
<1>13. ReadyStores(sq', rts0)
  <2> SUFFICES ASSUME NEW m \in DOMAIN rts0 PROVE sq'[rts0[m]] = sq[rts0[m]]
    BY <1>5 DEF ReadyStores
  <2>1. rts0[m] \in SqIndex
    BY <1>5 DEF QueuesTyped
  <2>2. sq[rts0[m]].fetched = "NO"
    BY <1>5 DEF ReadyStores
  <2> QED BY <1>3, <1>7, <2>1, <2>2
<1>14. StoreOrder(sq, sq_tail, sq_occupancy, sta)'
  <2> DEFINE t == sq_tail
             n == sq_occupancy
  <2>1. /\ n \in Nat /\ n <= SQ_SIZE
        /\ \A k \in SqIndex : sq[k].address # NoAddr <=> Back(k, t) < n
        /\ \A k, m \in SqIndex : Back(k, t) < Back(m, t) /\ Back(m, t) < n
                                     => sq[m].instr_id <= sq[k].instr_id
        /\ \A x, y \in DOMAIN sta : x < y => sta[x] <= sta[y]
        /\ \A x \in DOMAIN sta : /\ sta[x] < next
                                  /\ \A k \in SqIndex : sq[k].address # NoAddr => sq[k].instr_id <= sta[x]
    BY <1>5 DEF StoreOrder
  <2>2. \A k \in SqIndex : sq[k].address # NoAddr =>
           /\ sq[k].instr_id \in Int /\ sq[k].instr_id >= retired
           /\ sq[k].instr_id = retired => sq[k].rob_index = h
    <3> SUFFICES ASSUME NEW k \in SqIndex, sq[k].address # NoAddr
                 PROVE  /\ sq[k].instr_id \in Int /\ sq[k].instr_id >= retired
                        /\ sq[k].instr_id = retired => sq[k].rob_index = h
      OBVIOUS
    <3> DEFINE i == sq[k].rob_index
    <3>1. PICK j \in Destination : rob[i].sq_index[j] = k
      BY <1>5 DEF StoreSlots
    <3>2. i \in RobIndex /\ k # None
      BY <1>10
    <3>3. rob[i].instr.destination_memory[j] # NoAddr /\ sq[k].instr_id = rob[i].instr_id
      BY <1>5, <3>1, <3>2 DEF StoreIndices
    <3>4. Used(i)
      BY <1>5, <3>2, <3>3, UsedIs, BlankFields DEF RobTyped
    <3>5. rob[i].instr_id = retired + Age(i) /\ Age(i) \in Nat
      <4>1. rob[i].instr_id = retired + Age(i)
        BY <1>5, <3>2, <3>4, UsedIs
      <4>2. Age(i) \in 0 .. ROB_SIZE - 1
        BY <1>5, <3>2, UsedIs
      <4> QED BY <4>1, <4>2, Sizes
    <3>6. Age(i) = 0 => i = h
      BY <1>0, <1>5, <3>2, HeadAge, AgeInjective
    <3> QED BY <1>5, <3>3, <3>5, <3>6
  <2>3. \A k \in S : Back(k, t) < n
    BY <1>3, <2>1
  <2>4. ASSUME NEW k \in S, NEW m \in SqIndex, Back(k, t) < Back(m, t), Back(m, t) < n
        PROVE  m \in S
    <3>1. sq[m].address # NoAddr /\ sq[m].instr_id <= sq[k].instr_id /\ sq[k].instr_id = retired
      BY <1>3, <2>1, <2>4
    <3>2. /\ sq[m].instr_id \in Int /\ sq[m].instr_id >= retired /\ retired \in Int
          /\ sq[m].instr_id = retired => sq[m].rob_index = h
      BY <1>5, <2>2, <3>1
    <3>3. sq[m].instr_id = retired
      BY <3>1, <3>2
    <3> QED BY <1>3, <3>1, <3>2, <3>3
  <2>5. S \in SUBSET SqIndex /\ t \in SqIndex
    BY <1>3, <1>5
  <2> HIDE DEF n, t
  <2>6. /\ n - Cardinality(S) \in Nat
        /\ \A k \in SqIndex : Back(k, t) < n /\ k \notin S <=> Back(k, t) < n - Cardinality(S)
    BY <2>1, <2>3, <2>4, <2>5, OldestSlots
  <2> DEFINE c == n - Cardinality(S)
  <2>7. c \in Nat /\ c <= n
    BY <1>8, <2>1, <2>6
  <2>8. \A k \in SqIndex : sq'[k].address # NoAddr <=> Back(k, t) < c
    BY <1>6, <1>7, <2>1, <2>6
  <2>9. \A k \in SqIndex : sq'[k].address # NoAddr => sq'[k] = sq[k]
    BY <1>6, <1>7
  <2> HIDE DEF c
  <2>10. \A k \in SqIndex : Back(k, t) \in Nat
    BY <2>5, BackIs, Sizes
  <2>11. \A k, m \in SqIndex : Back(k, t) < Back(m, t) /\ Back(m, t) < c
                                 => sq'[m].instr_id <= sq'[k].instr_id
    <3> SUFFICES ASSUME NEW k \in SqIndex, NEW m \in SqIndex, Back(k, t) < Back(m, t), Back(m, t) < c
                 PROVE  sq'[m].instr_id <= sq'[k].instr_id
      OBVIOUS
    <3>1. Back(k, t) < c /\ Back(m, t) < n
      BY <2>1, <2>7, <2>10
    <3>2. sq'[k] = sq[k] /\ sq'[m] = sq[m]
      BY <2>8, <2>9, <3>1
    <3> QED BY <2>1, <3>1, <3>2
  <2>12. sq_occupancy' = c /\ sq_tail' = t /\ sta' = sta /\ next' = next
    BY <1>3, <1>4 DEF c, n, t
  <2>13. 0 <= c /\ c <= SQ_SIZE
    BY <2>1, <2>7, Sizes
  <2>14. \A x \in DOMAIN sta : \A k \in SqIndex : sq'[k].address # NoAddr => sq'[k].instr_id <= sta[x]
    BY <2>1, <2>9
  <2> QED BY <2>1, <2>8, <2>11, <2>12, <2>13, <2>14 DEF StoreOrder
<1>15. StoreSlots(rob, sq)' /\ StoreIndices(rob, sq)' /\ ReadyStores(sq, rts0)'
  BY <1>4, <1>11, <1>12, <1>13
<1> QED BY <1>9, <1>14, <1>15 DEF StoreInv

(* retire_rob: no load of the head is still in the queue.                  *)
LEMMA RetireLoads ==
    ASSUME IInv, retire_rob, NEW h, h = head
    PROVE  /\ LoadInv'
           /\ \A l \in LqIndex : lq[l].address # NoAddr =>
                 lq[l].rob_index \in RobIndex /\ lq[l].rob_index # h /\ Used(lq[l].rob_index)
<1>1. /\ h \in RobIndex /\ rob'[h] = FreeEntry /\ \A i \in RobIndex : i # h => rob'[i] = rob[i]
      /\ \A j \in Source : ~ LoadOut(rob, lq, h, j)
  BY RetireRob
<1>2. lq' = lq /\ lq_occupancy' = lq_occupancy /\ rtl0' = rtl0
  BY DEF retire_rob, loadVars
<1>3. QueuesTyped /\ LoadInv /\ LoadSlots(rob, lq) /\ LoadIndices(rob)
  BY DEF IInv, LoadInv
<1>4. \A l \in LqIndex : lq[l].rob_index \in RobIndex /\ lq[l].data_index \in Source
  BY <1>3 DEF QueuesTyped, LoadType
<1>5. ASSUME NEW l \in LqIndex, lq[l].address # NoAddr
      PROVE  lq[l].rob_index # h /\ Used(lq[l].rob_index)
  <2>1. LET e == rob[lq[l].rob_index]
        IN  /\ e.instr_id = lq[l].instr_id /\ e.instr_id # None
            /\ e.lq_index[lq[l].data_index] = l
            /\ e.instr.source_memory[lq[l].data_index] = lq[l].address
    BY <1>3, <1>5 DEF LoadSlots
  <2>2. LoadOut(rob, lq, lq[l].rob_index, lq[l].data_index)
    BY <1>5, <2>1 DEF LoadOut
  <2> QED BY <1>1, <1>4, <2>1, <2>2 DEF Used
<1>6. LoadSlots(rob', lq)
  <2> SUFFICES ASSUME NEW l \in LqIndex, lq[l].address # NoAddr
               PROVE  rob'[lq[l].rob_index] = rob[lq[l].rob_index]
    BY <1>3 DEF LoadSlots
  <2> QED BY <1>1, <1>4, <1>5
<1>7. LoadIndices(rob')
  <2>1. \A j \in Source : rob'[h].lq_index[j] = None
    BY <1>1, FreeFields
  <2> QED BY <1>1, <1>3, <2>1 DEF LoadIndices
<1> QED BY <1>2, <1>3, <1>4, <1>5, <1>6, <1>7 DEF LoadInv

(* retire_rob: the nearest writer is the same, or was the head.            *)
LEMMA RetireWriters ==
    ASSUME IInv, retire_rob, NEW h, h = head, NEW S \in SUBSET RobIndex, NEW T, T = S \ {h}
    PROVE  /\ T # {} => Nearest(T)' = Nearest(S) /\ Nearest(S) \in T
           /\ S # {} /\ T = {} => Nearest(S) = h /\ h \in S
<1>1. h \in RobIndex /\ retired \in Nat /\ retired' = retired + 1
  BY RetireRob
<1>2. \A U \in SUBSET RobIndex : U # {} /\ h \notin U =>
         /\ Nearest(U)' = Nearest(U) /\ Nearest(U \cup {h}) = Nearest(U)
         /\ Nearest(U) \in U
  BY <1>1, RetireAges
<1>3. T \in SUBSET RobIndex /\ h \notin T /\ (S = T \/ S = T \cup {h})
  OBVIOUS
<1>4. T # {} => Nearest(T)' = Nearest(S) /\ Nearest(S) \in T
  BY <1>2, <1>3
<1>5. S # {} /\ T = {} => Nearest(S) = h /\ h \in S
  BY <1>1, <1>3, NearestIs
<1> QED BY <1>4, <1>5

(* retire_rob: what loads expect moves from the head to memory.            *)
LEMMA RetireData ==
    ASSUME IInv, retire_rob
    PROVE  /\ Expected' /\ LastStores' /\ Values(rob, lq)' /\ OperationsCounted(rob, lq, sq)'
           /\ Producers(rob, lq, sq)'
<1>0. PICK h \in RobIndex : h = head
  BY RetireRob
<1>1. /\ retired \in Nat /\ retired' = retired + 1
      /\ rob'[h] = FreeEntry /\ \A i \in RobIndex : i # h => rob'[i] = rob[i]
      /\ \A j \in Destination : ~ StoreOut(rob, sq, h, j)
      /\ \A i \in RobIndex : i # h => Before(i)' = Before(i) \ {h} /\ h \in Before(i)
  BY <1>0, RetireRob, RetireAges
<1>2. /\ RobTyped /\ Expected /\ LastStores /\ Values(rob, lq) /\ OperationsCounted(rob, lq, sq)
      /\ Producers(rob, lq, sq) /\ QueuesTyped /\ StoreIndices(rob, sq)
      /\ rob \in [RobIndex -> EntryType]
  BY DEF IInv, RobTyped, DataInv, StoreInv
<1>3. lq' = lq /\ last_store' = last_store
  BY DEF retire_rob, loadVars
<1>4. /\ sq' = [k \in SqIndex |-> IF k \in SlotsOf(h) THEN FreeStore ELSE sq[k]]
      /\ \A a \in Addr : memory'[a] = IF Writes(rob[h], a) THEN rob[h].instr_id ELSE memory[a]
  BY <1>0, RetireSlots
<1>5. /\ \A j \in Source : FreeEntry.instr.source_memory[j] = NoAddr
      /\ \A j \in Destination : FreeEntry.instr.destination_memory[j] = NoAddr
      /\ FreeEntry.num_mem_ops = 0
      /\ \A a \in Addr : ~ Writes(FreeEntry, a)
  BY FreeFields, CoreAssumption DEF Writes
<1>6. ASSUME NEW i \in RobIndex, i # h, NEW a \in Addr
      PROVE  /\ StoreWriters(i, a)' = StoreWriters(i, a) \ {h}
             /\ StoreWriters(i, a)' # {} =>
                   /\ Nearest(StoreWriters(i, a))' = Nearest(StoreWriters(i, a))
                   /\ Nearest(StoreWriters(i, a)) \in RobIndex \ {h}
             /\ Writes(rob[h], a) <=> h \in StoreWriters(i, a)
             /\ StoreWriters(i, a) # {} /\ StoreWriters(i, a)' = {}
                   => Nearest(StoreWriters(i, a)) = h /\ Writes(rob[h], a)
  <2>1. PICK S : S = StoreWriters(i, a)
    OBVIOUS
  <2>2. PICK T : T = S \ {h}
    OBVIOUS
  <2>3. StoreWriters(i, a)' = T
    <3>1. \A p \in Before(i) : p \in RobIndex
      BY DEF Before
    <3>2. Before(i)' = Before(i) \ {h}
      BY <1>1, <1>6
    <3> QED BY <1>1, <2>1, <2>2, <3>1, <3>2 DEF StoreWriters
  <2>4. S \in SUBSET RobIndex /\ (Writes(rob[h], a) <=> h \in S)
    BY <1>1, <1>6, <2>1 DEF StoreWriters, Before
  <2>5. /\ T # {} => Nearest(T)' = Nearest(S) /\ Nearest(S) \in T
        /\ S # {} /\ T = {} => Nearest(S) = h /\ h \in S
    BY <1>0, <2>2, <2>4, RetireWriters
  <2>6. Nearest(StoreWriters(i, a))' = Nearest(T)'
    BY <2>3 DEF Nearest
  <2> QED BY <2>1, <2>2, <2>3, <2>4, <2>5, <2>6
<1>7. Expected'
  <2> SUFFICES ASSUME NEW i \in RobIndex, NEW j \in Source, NEW a,
                      a = rob'[i].instr.source_memory[j], a # NoAddr
               PROVE  rob'[i].expects[j] = IF StoreWriters(i, a)' = {} THEN memory'[a]
                                           ELSE rob'[Nearest(StoreWriters(i, a))'].instr_id
    BY DEF Expected
  <2>1. i # h
    BY <1>1, <1>5
  <2>2. rob'[i] = rob[i] /\ a \in Addr
    BY <1>1, <1>2, <2>1 DEF EntryType, Instruction
  <2>3. rob[i].expects[j] = IF StoreWriters(i, a) = {} THEN memory[a]
                            ELSE rob[Nearest(StoreWriters(i, a))].instr_id
    BY <1>2, <2>2 DEF Expected
  <2> DEFINE n == Nearest(StoreWriters(i, a))
  <2>4. CASE StoreWriters(i, a)' # {}
    <3>1. StoreWriters(i, a) # {} /\ Nearest(StoreWriters(i, a))' = n /\ rob'[n] = rob[n]
      BY <1>1, <1>6, <2>1, <2>2, <2>4
    <3> QED BY <2>2, <2>3, <2>4, <3>1
  <2>5. CASE StoreWriters(i, a)' = {} /\ StoreWriters(i, a) # {}
    <3>1. n = h /\ Writes(rob[h], a)
      BY <1>6, <2>1, <2>2, <2>5
    <3> QED BY <1>4, <2>2, <2>3, <2>5, <3>1
  <2>6. CASE StoreWriters(i, a) = {}
    <3>1. StoreWriters(i, a)' = {} /\ ~ Writes(rob[h], a)
      BY <1>6, <2>1, <2>2, <2>6
    <3> QED BY <1>4, <2>2, <2>3, <2>6, <3>1
  <2> QED BY <2>4, <2>5, <2>6
<1>8. LastStores'
  <2> SUFFICES ASSUME NEW a \in Addr
               PROVE  last_store[a] = IF AllWriters(a)' = {} THEN memory'[a]
                                      ELSE rob'[Nearest(AllWriters(a))'].instr_id
    BY <1>3 DEF LastStores
  <2>1. PICK S : S = AllWriters(a)
    OBVIOUS
  <2>2. PICK T : T = S \ {h}
    OBVIOUS
  <2>3. AllWriters(a)' = T
    BY <1>1, <1>5, <2>1, <2>2 DEF AllWriters
  <2>4. S \in SUBSET RobIndex /\ (Writes(rob[h], a) <=> h \in S)
    BY <2>1 DEF AllWriters
  <2>5. /\ T # {} => Nearest(T)' = Nearest(S) /\ Nearest(S) \in T
        /\ S # {} /\ T = {} => Nearest(S) = h /\ h \in S
    BY <1>0, <2>2, <2>4, RetireWriters
  <2>6. Nearest(AllWriters(a))' = Nearest(T)'
    BY <2>3 DEF Nearest
  <2>7. last_store[a] = IF S = {} THEN memory[a] ELSE rob[Nearest(S)].instr_id
    BY <1>2, <2>1 DEF LastStores
  <2>8. CASE T # {}
    <3>1. S # {} /\ rob'[Nearest(S)] = rob[Nearest(S)]
      BY <1>1, <2>2, <2>4, <2>5, <2>8
    <3> QED BY <2>3, <2>5, <2>6, <2>7, <2>8, <3>1
  <2>9. CASE T = {} /\ S # {}
    BY <1>4, <2>3, <2>4, <2>5, <2>7, <2>9
  <2>10. CASE S = {}
    BY <1>4, <2>2, <2>3, <2>4, <2>7, <2>10
  <2> QED BY <2>8, <2>9, <2>10
<1>9. Values(rob', lq)
  <2> SUFFICES ASSUME NEW i \in RobIndex, NEW j \in Source,
                      rob'[i].instr.source_memory[j] # NoAddr, ~ LoadOut(rob', lq, i, j)
               PROVE  rob'[i].value[j] = rob'[i].expects[j]
    BY DEF Values
  <2>1. i # h
    BY <1>1, <1>5
  <2>2. rob'[i] = rob[i] /\ ~ LoadOut(rob, lq, i, j)
    BY <1>1, <2>1 DEF LoadOut
  <2> QED BY <1>2, <2>2 DEF Values
<1>10. ASSUME NEW i \in RobIndex, i # h, NEW j \in Destination
       PROVE  StoreOut(rob', sq', i, j) <=> StoreOut(rob, sq, i, j)
  <2>1. rob'[i] = rob[i]
    BY <1>1, <1>10
  <2>2. rob[i].sq_index[j] # None => sq'[rob[i].sq_index[j]] = sq[rob[i].sq_index[j]]
    <3> SUFFICES ASSUME rob[i].sq_index[j] # None
                 PROVE  sq'[rob[i].sq_index[j]] = sq[rob[i].sq_index[j]]
      OBVIOUS
    <3>1. rob[i].sq_index[j] \in SqIndex
      BY <1>2 DEF EntryType
    <3>2. sq[rob[i].sq_index[j]].rob_index = i
      BY <1>2 DEF StoreIndices
    <3> QED BY <1>4, <1>10, <3>1, <3>2 DEF SlotsOf
  <2> QED BY <2>1, <2>2 DEF StoreOut
<1>11. OperationsCounted(rob', lq, sq')
  <2> SUFFICES ASSUME NEW i \in RobIndex
               PROVE  rob'[i].num_mem_ops
                        = Cardinality({j \in Source : LoadOut(rob', lq, i, j)})
                          + Cardinality({j \in Destination : StoreOut(rob', sq', i, j)})
    BY DEF OperationsCounted
  <2>1. CASE i = h
    <3>1. /\ {j \in Source : LoadOut(rob', lq, i, j)} = {}
          /\ {j \in Destination : StoreOut(rob', sq', i, j)} = {}
      BY <1>1, <1>5, <2>1 DEF LoadOut, StoreOut
    <3> QED BY <1>1, <1>5, <2>1, <3>1, FS_EmptySet, SMTT(30)
  <2>2. CASE i # h
    <3>1. {j \in Source : LoadOut(rob', lq, i, j)} = {j \in Source : LoadOut(rob, lq, i, j)}
      BY <1>1, <2>2 DEF LoadOut
    <3>2. {j \in Destination : StoreOut(rob', sq', i, j)}
            = {j \in Destination : StoreOut(rob, sq, i, j)}
      BY <1>10, <2>2
    <3> QED BY <1>1, <1>2, <2>2, <3>1, <3>2 DEF OperationsCounted
  <2> QED BY <2>1, <2>2
<1>12. Producers(rob, lq, sq)'
  <2> SUFFICES ASSUME NEW l \in LqIndex, lq[l].address # NoAddr, NEW d, d = lq[l].rob_index,
                      NEW a, a = lq[l].address
               PROVE  IF lq[l].producer_id = None THEN StoreWriters(d, a)' = {}
                      ELSE /\ StoreWriters(d, a)' # {}
                           /\ lq[l].producer_id = rob'[Nearest(StoreWriters(d, a))'].instr_id
                           /\ d \in rob'[Nearest(StoreWriters(d, a))'].memory_instrs_depend_on_me
                           /\ lq[l].fetched = "NO"
                           /\ \A j \in Destination :
                                rob'[Nearest(StoreWriters(d, a))'].instr.destination_memory[j] = a
                                  => StoreOut(rob', sq', Nearest(StoreWriters(d, a))', j)
    BY <1>3 DEF Producers
  <2>1. d \in RobIndex /\ a \in Addr /\ d # h
    BY <1>0, <1>2, RetireLoads DEF QueuesTyped, LoadType
  <2> DEFINE p == Nearest(StoreWriters(d, a))
  <2>2. IF lq[l].producer_id = None THEN StoreWriters(d, a) = {}
        ELSE /\ StoreWriters(d, a) # {} /\ lq[l].producer_id = rob[p].instr_id
             /\ d \in rob[p].memory_instrs_depend_on_me
             /\ lq[l].fetched = "NO"
             /\ \A j \in Destination : rob[p].instr.destination_memory[j] = a
                                         => StoreOut(rob, sq, p, j)
    BY <1>2 DEF Producers
  <2>3. CASE lq[l].producer_id = None
    <3>1. StoreWriters(d, a)' = {}
      BY <1>6, <2>1, <2>2, <2>3
    <3> QED BY <2>3, <3>1
  <2>4. CASE lq[l].producer_id # None
    <3>1. StoreWriters(d, a)' # {}
      <4>1. Writes(rob[h], a) => p # h
        BY <1>1, <2>2, <2>4 DEF Writes
      <4> QED BY <1>6, <2>1, <2>2, <2>4, <4>1
    <3>2. Nearest(StoreWriters(d, a))' = p /\ p \in RobIndex /\ p # h
      BY <1>6, <2>1, <3>1
    <3>3. rob'[p] = rob[p] /\ \A j \in Destination : StoreOut(rob', sq', p, j) <=> StoreOut(rob, sq, p, j)
      BY <1>1, <1>10, <3>2
    <3> HIDE DEF p
    <3> QED BY <2>2, <2>4, <3>1, <3>2, <3>3
  <2> QED BY <2>3, <2>4
<1>13. Values(rob, lq)'
  BY <1>3, <1>9 DEF Values, LoadOut
<1>14. OperationsCounted(rob, lq, sq)'
  BY <1>3, <1>11 DEF OperationsCounted, LoadOut, StoreOut
<1> QED BY <1>7, <1>8, <1>12, <1>13, <1>14

(* retire_rob preserves the invariant.                                     *)
LEMMA RetireKeeps == ASSUME IInv, retire_rob PROVE IInv'
<1>1. RobTyped' /\ LoadInv'
  BY RetireSlots, RetireLoads
<1>2. Failures'
  BY DEF IInv, Failures, retire_rob
<1>3. DataInv'
  BY RetireRegisters, RetireData DEF DataInv
<1> QED BY <1>1, <1>2, <1>3, RetireRegisters, RetireStores DEF IInv

-----------------------------------------------------------------------------
(* Operations of memory: what a step that only adds or ends some leaves    *)

(* What loads expect only changes by dispatch and retirement.              *)
LEMMA SameExpected ==
    ASSUME UNCHANGED <<retired, memory, last_store>>, RobTyped, Expected, LastStores,
           \A p \in RobIndex : SameInstr(rob[p], rob'[p]) /\ rob'[p].expects = rob[p].expects
    PROVE  Expected' /\ LastStores'
<1>0. retired' = retired /\ memory' = memory /\ last_store' = last_store
  OBVIOUS
<1>1. \A p \in RobIndex : SameInstr(rob[p], rob'[p])
  OBVIOUS
<1>2. /\ \A i \in RobIndex, a \in Addr :
            /\ StoreWriters(i, a)' = StoreWriters(i, a)
            /\ Nearest(StoreWriters(i, a))' = Nearest(StoreWriters(i, a))
      /\ \A a \in Addr : /\ AllWriters(a)' = AllWriters(a)
                         /\ Nearest(AllWriters(a))' = Nearest(AllWriters(a))
  BY <1>0, <1>1, SameWriters
<1>3. retired \in Nat
  BY DEF RobTyped
<1>4. Expected'
  <2> SUFFICES ASSUME NEW i \in RobIndex, NEW j \in Source, NEW a,
                      a = rob'[i].instr.source_memory[j], a # NoAddr
               PROVE  rob'[i].expects[j] = IF StoreWriters(i, a)' = {} THEN memory'[a]
                                           ELSE rob'[Nearest(StoreWriters(i, a))'].instr_id
    BY DEF Expected
  <2>1. a = rob[i].instr.source_memory[j] /\ rob'[i].expects[j] = rob[i].expects[j]
    BY DEF SameInstr
  <2>2. a \in Addr
    BY <2>1 DEF RobTyped, EntryType, Instruction
  <2>3. rob[i].expects[j] = IF StoreWriters(i, a) = {} THEN memory[a]
                            ELSE rob[Nearest(StoreWriters(i, a))].instr_id
    BY <2>1 DEF Expected
  <2>4. StoreWriters(i, a) # {} => Nearest(StoreWriters(i, a)) \in RobIndex
    BY <1>3, <2>2, NearestIn
  <2> QED BY <1>0, <1>2, <2>1, <2>2, <2>3, <2>4 DEF SameInstr
<1>5. LastStores'
  <2>1. \A a \in Addr : AllWriters(a) # {} => Nearest(AllWriters(a)) \in RobIndex
    BY <1>3, NearestIn
  <2> QED BY <1>0, <1>2, <2>1 DEF LastStores, SameInstr
<1> QED BY <1>4, <1>5

(* Entries that differ in the operations that are done only *)
SameButOps(d, e) ==
    /\ SameInstr(d, e)
    /\ d.scheduled = e.scheduled /\ d.executed = e.executed
    /\ d.reg_ready <=> e.reg_ready
    /\ d.num_reg_dependent = e.num_reg_dependent
    /\ d.registers_depend_on_me = e.registers_depend_on_me
    /\ d.memory_instrs_depend_on_me = e.memory_instrs_depend_on_me
    /\ d.lq_index = e.lq_index /\ d.sq_index = e.sq_index /\ d.expects = e.expects

(* Nothing becomes outstanding, and inflight.mem gets the entries of C     *)
(* that have no operation left.                                            *)
LEMMA OperationsDone ==
    ASSUME IInv, RobTyped', UNCHANGED <<next, retired, rte0, rte1, memory, last_store>>,
           inflight'.reg = inflight.reg,
           \A p \in RobIndex : SameButOps(rob[p], rob'[p]),
           OperationsCounted(rob', lq', sq'),
           \A i \in RobIndex : \A j \in Source :
              LoadOut(rob', lq', i, j) => LoadOut(rob, lq, i, j),
           \A i \in RobIndex : \A j \in Destination :
              StoreOut(rob', sq', i, j) => StoreOut(rob, sq, i, j),
           NEW C \in SUBSET RobIndex,
           \A p \in C : rob[p].num_mem_ops # 0,
           \A p \in RobIndex \ C : rob'[p].num_mem_ops = rob[p].num_mem_ops,
           inflight'.mem = inflight.mem + Cardinality({p \in C : rob'[p].num_mem_ops = 0})
    PROVE  Ring' /\ RegInv' /\ Expected' /\ LastStores' /\ MemoryListed(rob)' /\ MemCounted'
<1>0. /\ next' = next /\ retired' = retired /\ rte0' = rte0 /\ rte1' = rte1
      /\ memory' = memory /\ last_store' = last_store
  OBVIOUS
<1>1. \A p \in RobIndex : SameInstr(rob[p], rob'[p])
  BY DEF SameButOps
<1>2. /\ \A p \in RobIndex : Used(p)' <=> Used(p)
      /\ \A p \in RobIndex : is_memory(rob'[p]) <=> is_memory(rob[p])
  BY <1>0, <1>1, SameWriters
<1>3. /\ RobTyped /\ Ring /\ RegInv /\ Phases /\ DataInv /\ OperationsCounted(rob, lq, sq)
  BY DEF IInv, RegInv, DataInv
<1>4. Expected' /\ LastStores'
  BY <1>0, <1>1, <1>3, SameExpected DEF DataInv, SameButOps
<1>5. Ring'
  BY <1>0, <1>1, <1>3, RingKept DEF SameButOps
<1>6. Registered' /\ NearestKnown' /\ DependencesCounted' /\ ReadyQueues' /\ RegCounted'
  <2>1. \A p \in RobIndex : SameRegs(rob[p], rob'[p])
    BY DEF SameRegs, SameDeps, SameButOps
  <2> QED BY <1>0, <1>3, <2>1, SameRegisters DEF RegInv
<1>7. MemoryListed(rob)'
  <2>1. \A i : Before(i)' = Before(i)
    BY <1>0, BeforeKept
  <2> QED BY <1>2, <1>3, <2>1 DEF DataInv, MemoryListed, SameButOps
<1>8. ASSUME NEW p \in RobIndex, rob[p].num_mem_ops = 0 PROVE rob'[p].num_mem_ops = 0
  <2>1. /\ {j \in Source : LoadOut(rob', lq', p, j)} = {}
        /\ {j \in Destination : StoreOut(rob', sq', p, j)} = {}
    BY <1>3, <1>8, NothingOut
  <2>2. rob'[p].num_mem_ops = Cardinality({j \in Source : LoadOut(rob', lq', p, j)})
                              + Cardinality({j \in Destination : StoreOut(rob', sq', p, j)})
    BY DEF OperationsCounted
  <2>3. Cardinality({}) = 0
    BY FS_EmptySet
  <2>4. /\ Cardinality({j \in Source : LoadOut(rob', lq', p, j)}) = 0
        /\ Cardinality({j \in Destination : StoreOut(rob', sq', p, j)}) = 0
    BY <2>1, <2>3
  <2> QED BY <2>2, <2>4
<1>9. Phases'
  <2> SUFFICES ASSUME NEW p \in RobIndex
               PROVE  /\ rob'[p].reg_ready
                           <=> rob'[p].scheduled # "NO" /\ rob'[p].num_reg_dependent = 0
                      /\ Started(rob'[p]) => rob'[p].reg_ready
                      /\ ~ is_memory(rob'[p]) => rob'[p].scheduled # "INFLIGHT"
                      /\ is_memory(rob'[p]) /\ Used(p)' =>
                            /\ rob'[p].scheduled = "COMPLETED" <=> AllAdded(rob'[p])
                            /\ rob'[p].executed # "NO" <=> rob'[p].scheduled = "COMPLETED"
                      /\ rob'[p].executed = "COMPLETED" => rob'[p].num_mem_ops = 0
    BY DEF Phases
  <2>1. /\ rob[p].reg_ready <=> rob[p].scheduled # "NO" /\ rob[p].num_reg_dependent = 0
        /\ Started(rob[p]) => rob[p].reg_ready
        /\ ~ is_memory(rob[p]) => rob[p].scheduled # "INFLIGHT"
        /\ is_memory(rob[p]) /\ Used(p) =>
              /\ rob[p].scheduled = "COMPLETED" <=> AllAdded(rob[p])
              /\ rob[p].executed # "NO" <=> rob[p].scheduled = "COMPLETED"
        /\ rob[p].executed = "COMPLETED" => rob[p].num_mem_ops = 0
    BY <1>3 DEF Phases
  <2>2. /\ Started(rob'[p]) <=> Started(rob[p])
        /\ AllAdded(rob'[p]) <=> AllAdded(rob[p])
    BY DEF Started, AllAdded, SameButOps, SameInstr
  <2>3. SameButOps(rob[p], rob'[p])
    OBVIOUS
  <2> QED BY <1>2, <1>8, <2>1, <2>2, <2>3 DEF SameButOps
<1>10. ASSUME NEW p \in C, rob'[p].num_mem_ops = 0
       PROVE  is_memory(rob[p]) /\ rob[p].executed = "INFLIGHT"
  <2>1. rob[p].num_mem_ops # 0 /\ p \in RobIndex
    OBVIOUS
  <2>2. is_memory(rob[p])
    BY <1>3, <2>1, NoOperations
  <2>3. /\ \A j \in Source : ~ LoadOut(rob', lq', p, j)
        /\ \A j \in Destination : ~ StoreOut(rob', sq', p, j)
    BY <1>10, <2>1, NothingOut
  <2>4. AllAdded(rob'[p])
    BY <2>3 DEF AllAdded, LoadOut, StoreOut
  <2>5. AllAdded(rob[p])
    BY <2>1, <2>4 DEF AllAdded, SameButOps, SameInstr
  <2>6. Used(p)
    BY <1>3, <2>1, <2>2, UsedIs, BlankFields DEF RobTyped
  <2>7. rob[p].executed # "NO" /\ rob[p].executed # "COMPLETED"
    BY <1>3, <2>1, <2>2, <2>5, <2>6 DEF Phases
  <2> QED BY <1>3, <2>1, <2>2, <2>7 DEF RobTyped, EntryType, Phase
<1>11. MemCounted'
  <2> DEFINE S == {p \in RobIndex : is_memory(rob[p]) /\ rob[p].num_mem_ops = 0
                                      /\ rob[p].executed = "INFLIGHT"}
             D == {p \in C : rob'[p].num_mem_ops = 0}
             T == {p \in RobIndex : is_memory(rob'[p]) /\ rob'[p].num_mem_ops = 0
                                      /\ rob'[p].executed = "INFLIGHT"}
  <2>1. \A p \in RobIndex : rob'[p].executed = rob[p].executed
    BY DEF SameButOps
  <2>2. T = S \cup D
    <3>1. ASSUME NEW p \in RobIndex PROVE p \in T <=> p \in S \cup D
      BY <1>2, <1>8, <1>10, <2>1
    <3> QED BY <3>1
  <2>3. S \cap D = {}
    OBVIOUS
  <2>4. S \in SUBSET RobIndex /\ D \in SUBSET RobIndex
    OBVIOUS
  <2>5. inflight.mem = Cardinality(S) /\ inflight'.mem = inflight.mem + Cardinality(D)
    BY <1>3 DEF DataInv, MemCounted
  <2>T. MemCounted' <=> inflight'.mem = Cardinality(T)
    BY DEF MemCounted
  <2> HIDE DEF S, D, T
  <2>6. IsFiniteSet(S) /\ IsFiniteSet(D)
    BY <2>4, Sizes, FS_Subset
  <2>7. Cardinality(S) \in Nat /\ Cardinality(D) \in Nat /\ Cardinality(S \cap D) = 0
    BY <2>3, <2>6, FS_CardinalityType, FS_EmptySet
  <2>8. Cardinality(S \cup D) = Cardinality(S) + Cardinality(D) - Cardinality(S \cap D)
    BY <2>6, FS_Union
  <2>9. inflight'.mem = Cardinality(T)
    BY <2>2, <2>5, <2>7, <2>8
  <2> QED BY <2>9, <2>T
<1> QED BY <1>4, <1>5, <1>6, <1>7, <1>9, <1>11 DEF RegInv
-----------------------------------------------------------------------------
(* execute_load and the loads that are done *)

(* An instr_unique_id is in the ring once. *)
LEMMA UniqueId ==
    ASSUME RobTyped, Ring, NEW p \in RobIndex, NEW q \in RobIndex, Used(p),
           rob[p].instr_id = rob[q].instr_id
    PROVE  p = q
<1>1. Used(q)
  BY DEF Used
<1>2. rob[p].instr_id = retired + Age(p) /\ rob[q].instr_id = retired + Age(q)
  BY <1>1, UsedIs
<1>3. retired \in Nat /\ Age(p) \in 0 .. ROB_SIZE - 1 /\ Age(q) \in 0 .. ROB_SIZE - 1
  BY UsedIs DEF RobTyped
<1>4. ROB_SIZE \in Nat
  BY Sizes
<1>5. retired + Age(p) = retired + Age(q)
  BY <1>2
<1>6. Age(p) = Age(q)
  <2>1. PICK a, b : a = Age(p) /\ b = Age(q)
    OBVIOUS
  <2> QED BY <1>3, <1>4, <1>5, <2>1
<1> QED BY <1>3, <1>6, AgeInjective

(* The slots of M that belong to entry i, and its operands they stand for *)
Mine(M, i) == {l \in M : lq[l].rob_index = i}
OpsOf(M, i) == {lq[l].data_index : l \in Mine(M, i)}

(* A load in the queue belongs to an entry in use that points at it.       *)
LEMMA SlotOwner ==
    ASSUME RobTyped, QueuesTyped, Ring, LoadSlots(rob, lq),
           NEW l \in LqIndex, lq[l].address # NoAddr
    PROVE  /\ lq[l].rob_index \in RobIndex /\ lq[l].data_index \in Source
           /\ Used(lq[l].rob_index) /\ rob[lq[l].rob_index].instr_id = lq[l].instr_id
           /\ rob[lq[l].rob_index].lq_index[lq[l].data_index] = l
           /\ rob[lq[l].rob_index].instr.source_memory[lq[l].data_index] = lq[l].address
           /\ l # None
           /\ \A i \in RobIndex : rob[i].instr_id = lq[l].instr_id => i = lq[l].rob_index
<1>1. lq[l].rob_index \in RobIndex /\ lq[l].data_index \in Source
  BY DEF QueuesTyped, LoadType
<1>2. /\ rob[lq[l].rob_index].instr_id = lq[l].instr_id
      /\ rob[lq[l].rob_index].instr_id # None
      /\ rob[lq[l].rob_index].lq_index[lq[l].data_index] = l
      /\ rob[lq[l].rob_index].instr.source_memory[lq[l].data_index] = lq[l].address
  BY DEF LoadSlots
<1>3. Used(lq[l].rob_index)
  BY <1>2 DEF Used
<1>4. l # None
  BY Sizes DEF None
<1>5. \A i \in RobIndex : rob[i].instr_id = lq[l].instr_id => i = lq[l].rob_index
  BY <1>1, <1>2, <1>3, UniqueId
<1> QED BY <1>1, <1>2, <1>3, <1>4, <1>5

(* Who has an operand is in use. *)
LEMMA OperandUsed ==
    ASSUME RobTyped, Ring, NEW i \in RobIndex
    PROVE  /\ \A j \in Source : rob[i].instr.source_memory[j] # NoAddr => Used(i)
           /\ \A j \in Destination : rob[i].instr.destination_memory[j] # NoAddr => Used(i)
           /\ Used(i) => rob[i].instr_id # None /\ rob[i].instr_id \in Nat
<1>1. ~ Used(i) => Blank(rob[i]) /\ rob[i] \in EntryType
  BY UsedIs DEF RobTyped
<1>2. Used(i) => rob[i].instr_id = retired + Age(i) /\ retired \in Nat /\ Age(i) \in Nat
  BY UsedIs DEF RobTyped
<1> QED BY <1>1, <1>2, BlankFields DEF None

(* Different slots of an entry serve different operands.                   *)
LEMMA MineOps ==
    ASSUME RobTyped, QueuesTyped, Ring, LoadSlots(rob, lq),
           NEW M \in SUBSET LqIndex, \A l \in M : lq[l].address # NoAddr, NEW i \in RobIndex
    PROVE  /\ Mine(M, i) \in SUBSET M /\ IsFiniteSet(M) /\ IsFiniteSet(Mine(M, i))
           /\ \A x, y \in Mine(M, i) : lq[x].data_index = lq[y].data_index => x = y
           /\ OpsOf(M, i) \in SUBSET Source /\ IsFiniteSet(OpsOf(M, i))
           /\ Cardinality(OpsOf(M, i)) = Cardinality(Mine(M, i))
           /\ Cardinality(OpsOf(M, i)) \in Nat
<1>1. Mine(M, i) \in SUBSET M /\ IsFiniteSet(M) /\ IsFiniteSet(Mine(M, i))
  BY Sizes, FS_Subset DEF Mine
<1>2. \A x \in Mine(M, i) : /\ lq[x].data_index \in Source
                            /\ rob[i].lq_index[lq[x].data_index] = x
  BY SlotOwner DEF Mine
<1>3. OpsOf(M, i) \in SUBSET Source
  BY <1>2 DEF OpsOf
<1>4. PICK S : S = Mine(M, i)
  OBVIOUS
<1>5. PICK T : T = OpsOf(M, i)
  OBVIOUS
<1> DEFINE f == [x \in S |-> lq[x].data_index]
<1>6. f \in [S -> T]
  BY <1>4, <1>5 DEF OpsOf
<1>7. \A x, y \in S : f[x] = f[y] => x = y
  BY <1>2, <1>4
<1>8. \A b \in T : \E x \in S : f[x] = b
  BY <1>4, <1>5 DEF OpsOf
<1>9. IsFiniteSet(S)
  BY <1>1, <1>4
<1> HIDE DEF f
<1>10. IsFiniteSet(T) /\ Cardinality(T) = Cardinality(S)
  BY <1>6, <1>7, <1>8, <1>9, SameSize
<1> QED BY <1>1, <1>2, <1>3, <1>4, <1>5, <1>10, FS_CardinalityType

(* An entry whose loads in the slots M get their data *)
GotData(e, i, M, data, f) ==
    /\ f \in EntryType /\ SameButOps(e, f)
    /\ f.num_mem_ops = e.num_mem_ops - Cardinality(OpsOf(M, i))
    /\ \A j \in Source \ OpsOf(M, i) : f.value[j] = e.value[j]
    /\ \A l \in Mine(M, i) : f.value[lq[l].data_index] = data[l]

(* LoadsDone, field by field, for a set of loads that end together         *)
LEMMA LoadsDoneIs ==
    ASSUME RobTyped, QueuesTyped, Ring, LoadSlots(rob, lq),
           NEW M \in SUBSET LqIndex, \A l \in M : lq[l].address # NoAddr, NEW i \in RobIndex,
           NEW e \in EntryType, NEW data \in [M -> Int],
           NEW f, f = LoadsDone(e, i, M, data)
    PROVE  GotData(e, i, M, data, f)
<1>0. /\ Mine(M, i) \in SUBSET M /\ OpsOf(M, i) \in SUBSET Source
      /\ Cardinality(OpsOf(M, i)) = Cardinality(Mine(M, i)) /\ Cardinality(OpsOf(M, i)) \in Nat
      /\ \A x, y \in Mine(M, i) : lq[x].data_index = lq[y].data_index => x = y
  BY MineOps
<1> DEFINE source == [l \in Mine(M, i) |-> lq[l].data_index]
           v == [j \in Source |-> IF \E l \in Mine(M, i) : source[l] = j
                                  THEN data[CHOOSE l \in Mine(M, i) : source[l] = j]
                                  ELSE e.value[j]]
<1>1. f = [e EXCEPT !.num_mem_ops = e.num_mem_ops - Cardinality(Mine(M, i)), !.value = v]
  BY DEF LoadsDone, Mine
<1>2. \A j \in Source \ OpsOf(M, i) : v[j] = e.value[j]
  BY DEF OpsOf
<1>3. ASSUME NEW l \in Mine(M, i) PROVE v[lq[l].data_index] = data[l]
  <2>1. PICK j : j = lq[l].data_index
    OBVIOUS
  <2>2. j \in Source
    BY <1>0, <2>1 DEF OpsOf
  <2>3. l \in Mine(M, i) /\ source[l] = j
    BY <2>1
  <2>4. PICK x : x = CHOOSE y \in Mine(M, i) : source[y] = j
    OBVIOUS
  <2>5. x \in Mine(M, i) /\ source[x] = j
    BY <2>3, <2>4
  <2>6. x = l
    BY <1>0, <2>3, <2>5
  <2>7. v[j] = data[x]
    BY <2>2, <2>3, <2>4
  <2> QED BY <2>1, <2>6, <2>7
<1>4. v \in [Source -> Int]
  <2> SUFFICES ASSUME NEW j \in Source PROVE v[j] \in Int
    OBVIOUS
  <2>1. CASE j \in OpsOf(M, i)
    BY <1>0, <1>3, <2>1 DEF OpsOf
  <2>2. CASE j \notin OpsOf(M, i)
    BY <1>2, <2>2 DEF EntryType
  <2> QED BY <2>1, <2>2
<1> HIDE DEF v
<1>5. f.value = v /\ f.num_mem_ops = e.num_mem_ops - Cardinality(OpsOf(M, i))
  BY <1>0, <1>1 DEF EntryType
<1>6. SameButOps(e, f)
  BY <1>1 DEF EntryType, SameButOps, SameInstr
<1>7. f \in EntryType
  <2>1. PICK n : n = e.num_mem_ops - Cardinality(Mine(M, i))
    OBVIOUS
  <2>2. n \in Int
    BY <1>0, <2>1 DEF EntryType
  <2>3. f = [e EXCEPT !.num_mem_ops = n, !.value = v]
    BY <1>1, <2>1
  <2> QED BY <1>4, <2>2, <2>3 DEF EntryType
<1> QED BY <1>2, <1>3, <1>5, <1>6, <1>7 DEF GotData

(* execute_load preserves the invariant.                                   *)
LEMMA LoadKeeps == ASSUME IInv, execute_load PROVE IInv'
<1> DEFINE h == Head(rtl0)
<1>1. /\ rtl0 # <<>> /\ rtl0' = Tail(rtl0)
      /\ lq' = [lq EXCEPT ![h].fetched = "INFLIGHT"]
      /\ rob' = rob /\ next' = next /\ retired' = retired /\ lq_occupancy' = lq_occupancy
      /\ rte0' = rte0 /\ rte1' = rte1 /\ inflight' = inflight /\ last_store' = last_store
      /\ memory' = memory /\ failed' = failed
  BY DEF execute_load, robVars, readyVars
<1>2. /\ sq' = sq /\ sq_tail' = sq_tail /\ sq_occupancy' = sq_occupancy /\ sta' = sta
      /\ rts0' = rts0
  BY DEF execute_load, storeVars
<1>3. /\ RobTyped /\ QueuesTyped /\ Ring /\ RegInv /\ LoadInv /\ StoreInv /\ DataInv /\ Failures
      /\ LoadSlots(rob, lq) /\ ReadyLoads(lq, rtl0) /\ rtl0 \in Seq(LqIndex)
      /\ lq \in [LqIndex -> LoadType]
  BY DEF IInv, LoadInv, QueuesTyped
<1>4. /\ Tail(rtl0) \in Seq(LqIndex) /\ h \in LqIndex /\ In(rtl0, h)
      /\ \A p : In(Tail(rtl0), p) <=> In(rtl0, p) /\ p # h
      /\ Distinct(Tail(rtl0))
  BY <1>1, <1>3, TailItems DEF ReadyLoads
<1>5. lq[h].address # NoAddr /\ lq[h].producer_id = None /\ lq[h].fetched = "NO"
  BY <1>3, <1>4 DEF ReadyLoads, In
<1> HIDE DEF h
<1>6. /\ lq' \in [LqIndex -> LoadType]
      /\ \A l \in LqIndex : /\ lq'[l].instr_id = lq[l].instr_id /\ lq'[l].address = lq[l].address
                            /\ lq'[l].rob_index = lq[l].rob_index
                            /\ lq'[l].data_index = lq[l].data_index
                            /\ lq'[l].producer_id = lq[l].producer_id
      /\ \A l \in LqIndex : l # h => lq'[l] = lq[l]
      /\ lq'[h].fetched = "INFLIGHT"
  BY <1>1, <1>3, <1>4 DEF LoadType, Phase
<1>7. \A i \in RobIndex : \A j \in Source : LoadOut(rob', lq', i, j) <=> LoadOut(rob, lq, i, j)
  BY <1>1, <1>3, <1>6 DEF LoadOut, RobTyped, EntryType
<1>8. \A i \in RobIndex : {j \in Source : LoadOut(rob', lq', i, j)}
                           = {j \in Source : LoadOut(rob, lq, i, j)}
  BY <1>7
<1>9. \A i \in RobIndex : \A j \in Destination :
         StoreOut(rob', sq', i, j) <=> StoreOut(rob, sq, i, j)
  BY <1>1, <1>2
<1>10. \A i : Before(i)' = Before(i)
  BY <1>1, BeforeKept
<1>11. RobTyped' /\ QueuesTyped' /\ Failures'
  BY <1>1, <1>2, <1>3, <1>4, <1>6 DEF RobTyped, QueuesTyped, Failures
<1>12. /\ \A p \in RobIndex : SameRegs(rob[p], rob'[p]) /\ SameInstr(rob[p], rob'[p])
                              /\ rob'[p].expects = rob[p].expects
  BY <1>1 DEF SameRegs, SameDeps, SameInstr
<1>13. Ring'
  BY <1>1, <1>3, <1>12, RingKept
<1>14. Registered' /\ NearestKnown' /\ DependencesCounted' /\ ReadyQueues' /\ RegCounted'
  BY <1>1, <1>3, <1>12, SameRegisters DEF RegInv
<1>15. Phases'
  <2>1. Phases
    BY <1>3 DEF RegInv
  <2> QED BY <1>1, <2>1 DEF Phases, Used
<1>16. LoadInv'
  <2>1. LoadSlots(rob', lq')
    BY <1>1, <1>3, <1>5, <1>6 DEF LoadSlots
  <2>2. LoadIndices(rob')
    BY <1>1, <1>3 DEF LoadInv
  <2>3. ReadyLoads(lq', rtl0')
    <3> SUFFICES ASSUME NEW m \in DOMAIN Tail(rtl0)
                 PROVE  LET x == Tail(rtl0)[m]
                        IN  /\ lq'[x].address # NoAddr /\ lq'[x].producer_id = None
                            /\ lq'[x].fetched = "NO"
      BY <1>1, <1>4 DEF ReadyLoads
    <3>1. PICK x : x = Tail(rtl0)[m]
      OBVIOUS
    <3>2. In(Tail(rtl0), x) /\ x \in LqIndex
      BY <1>4, <3>1 DEF In
    <3>3. In(rtl0, x) /\ x # h
      BY <1>4, <3>2
    <3>4. lq[x].address # NoAddr /\ lq[x].producer_id = None /\ lq[x].fetched = "NO"
      BY <1>3, <3>3 DEF ReadyLoads, In
    <3> QED BY <1>6, <3>1, <3>2, <3>3, <3>4
  <2>4. SlotsCounted(lq', lq_occupancy')
    <3>1. {l \in LqIndex : lq'[l].address # NoAddr} = {l \in LqIndex : lq[l].address # NoAddr}
      BY <1>6
    <3> QED BY <1>1, <1>3, <3>1 DEF LoadInv, SlotsCounted
  <2> QED BY <2>1, <2>2, <2>3, <2>4 DEF LoadInv
<1>17. StoreInv'
  BY <1>1, <1>2, <1>3 DEF StoreInv, StoreSlots, StoreIndices, ReadyStores, StoreOrder
<1>18. Expected' /\ LastStores'
  BY <1>1, <1>3, <1>12, SameExpected DEF DataInv
<1>19. Values(rob', lq') /\ OperationsCounted(rob', lq', sq')
  <2>1. Values(rob, lq) /\ OperationsCounted(rob, lq, sq)
    BY <1>3 DEF DataInv
  <2>2. Values(rob', lq')
    BY <1>1, <1>7, <2>1 DEF Values
  <2>3. OperationsCounted(rob', lq', sq')
    BY <1>1, <1>2, <1>8, <2>1 DEF OperationsCounted
  <2> QED BY <2>2, <2>3
<1>20. Producers(rob, lq, sq)'
  <2>1. /\ \A i \in RobIndex, a \in Addr :
            /\ StoreWriters(i, a)' = StoreWriters(i, a)
            /\ Nearest(StoreWriters(i, a))' = Nearest(StoreWriters(i, a))
    BY <1>1, <1>12, SameWriters
  <2>2. Producers(rob, lq, sq)
    BY <1>3 DEF DataInv
  <2> SUFFICES ASSUME NEW l \in LqIndex, lq'[l].address # NoAddr,
                      NEW d, d = lq'[l].rob_index, NEW a, a = lq'[l].address,
                      NEW p, p = Nearest(StoreWriters(d, a))'
               PROVE  IF lq'[l].producer_id = None THEN StoreWriters(d, a)' = {}
                      ELSE /\ StoreWriters(d, a)' # {} /\ lq'[l].producer_id = rob'[p].instr_id
                           /\ d \in rob'[p].memory_instrs_depend_on_me
                           /\ lq'[l].fetched = "NO"
                           /\ \A j \in Destination : rob'[p].instr.destination_memory[j] = a
                                             => StoreOut(rob', sq', p, j)
    BY DEF Producers
  <2>3. d = lq[l].rob_index /\ a = lq[l].address /\ d \in RobIndex /\ a \in Addr
    BY <1>3, <1>6 DEF LoadType
  <2>4. p = Nearest(StoreWriters(d, a)) /\ StoreWriters(d, a)' = StoreWriters(d, a)
    BY <2>1, <2>3
  <2>5. IF lq[l].producer_id = None THEN StoreWriters(d, a) = {}
        ELSE /\ StoreWriters(d, a) # {} /\ lq[l].producer_id = rob[p].instr_id
             /\ d \in rob[p].memory_instrs_depend_on_me
             /\ lq[l].fetched = "NO"
             /\ \A j \in Destination : rob[p].instr.destination_memory[j] = a
                                             => StoreOut(rob, sq, p, j)
    <3>1. lq[l].address # NoAddr
      BY <2>3, <1>6
    <3> QED BY <2>2, <2>3, <2>4, <3>1 DEF Producers
  <2>6. l = h => lq[l].producer_id = None
    BY <1>5
  <2> QED BY <1>1, <1>2, <1>6, <2>4, <2>5, <2>6
<1>21. MemoryListed(rob)' /\ MemCounted'
  BY <1>1, <1>3, <1>10 DEF DataInv, MemoryListed, MemCounted, Used
<1> QED BY <1>11, <1>13, <1>14, <1>15, <1>16, <1>17, <1>18, <1>19, <1>20, <1>21
        DEF IInv, RegInv, DataInv, Values, OperationsCounted, LoadOut, StoreOut

LoadsOut(r, q, i) == {j \in Source : LoadOut(r, q, i, j)}
StoresOut(r, s, i) == {j \in Destination : StoreOut(r, s, i, j)}

(* The slots M of loads that are done become free. *)
LEMMA Released ==
    ASSUME IInv, RobTyped', NEW M \in SUBSET LqIndex, \A l \in M : lq[l].address # NoAddr,
           release_load_queue(M), rtl0' = rtl0, \A m \in DOMAIN rtl0 : rtl0[m] \notin M,
           \A p \in RobIndex : SameButOps(rob[p], rob'[p])
    PROVE  /\ lq' \in [LqIndex -> LoadType] /\ lq_occupancy' \in Int /\ LoadInv'
           /\ \A l \in LqIndex : lq'[l] = IF l \in M THEN FreeLoad ELSE lq[l]
           /\ \A i \in RobIndex : \A j \in Source :
                 /\ LoadOut(rob', lq', i, j) <=> LoadOut(rob, lq, i, j) /\ j \notin OpsOf(M, i)
                 /\ j \in OpsOf(M, i) => LoadOut(rob, lq, i, j)
           /\ \A i \in RobIndex : Cardinality(LoadsOut(rob', lq', i))
                                   = Cardinality(LoadsOut(rob, lq, i)) - Cardinality(OpsOf(M, i))
<1>0. /\ RobTyped /\ QueuesTyped /\ Ring /\ LoadInv /\ LoadSlots(rob, lq) /\ LoadIndices(rob)
      /\ ReadyLoads(lq, rtl0) /\ SlotsCounted(lq, lq_occupancy)
      /\ lq \in [LqIndex -> LoadType] /\ rob \in [RobIndex -> EntryType]
  BY DEF IInv, LoadInv, QueuesTyped, RobTyped
<1>1. /\ lq' = [l \in LqIndex |-> IF l \in M THEN FreeLoad ELSE lq[l]]
      /\ lq_occupancy' = lq_occupancy - Cardinality(M)
  BY DEF release_load_queue
<1>2. \A l \in LqIndex : lq'[l] = IF l \in M THEN FreeLoad ELSE lq[l]
  BY <1>1
<1>3. FreeLoad \in LoadType /\ FreeLoad.address = NoAddr /\ FreeLoad.instr_id = None
  <2>1. 0 \in RobIndex
    BY Sizes DEF RobIndex
  <2> QED BY <2>1 DEF FreeLoad, LoadType, None, Phase, Source
<1>4. lq' \in [LqIndex -> LoadType]
  BY <1>0, <1>1, <1>3
<1>5. \A i \in RobIndex : /\ rob'[i].instr = rob[i].instr /\ rob'[i].instr_id = rob[i].instr_id
                          /\ rob'[i].lq_index = rob[i].lq_index
  BY DEF SameButOps, SameInstr
<1>6. ASSUME NEW i \in RobIndex, NEW j \in Source
      PROVE  /\ LoadOut(rob', lq', i, j) <=> LoadOut(rob, lq, i, j) /\ j \notin OpsOf(M, i)
             /\ j \in OpsOf(M, i) => LoadOut(rob, lq, i, j)
  <2>0. rob[i].lq_index[j] \in LqIndex \cup {None}
    BY <1>0 DEF EntryType
  <2>1. ASSUME NEW l \in Mine(M, i), lq[l].data_index = j
        PROVE  /\ rob[i].lq_index[j] = l /\ l \in M /\ l # None /\ LoadOut(rob, lq, i, j)
    <3>1. l \in LqIndex /\ l \in M /\ lq[l].address # NoAddr /\ lq[l].rob_index = i
      BY DEF Mine
    <3>2. /\ rob[i].instr_id = lq[l].instr_id /\ rob[i].lq_index[j] = l
          /\ rob[i].instr.source_memory[j] = lq[l].address /\ l # None
      BY <1>0, <2>1, <3>1, SlotOwner
    <3> QED BY <2>1, <3>1, <3>2 DEF LoadOut
  <2>2. j \in OpsOf(M, i) => /\ LoadOut(rob, lq, i, j) /\ rob[i].lq_index[j] \in M
                             /\ rob[i].lq_index[j] # None
    BY <2>1 DEF OpsOf
  <2>3. ASSUME LoadOut(rob, lq, i, j), rob[i].lq_index[j] \in M PROVE j \in OpsOf(M, i)
    <3>1. PICK l : l = rob[i].lq_index[j]
      OBVIOUS
    <3>2. l \in LqIndex /\ l \in M /\ lq[l].address # NoAddr /\ l # None
      BY <2>3, <3>1, Sizes DEF None
    <3>3. lq[l].instr_id = rob[i].instr_id /\ lq[l].data_index = j
      BY <2>3, <3>1, <3>2 DEF LoadOut
    <3>4. lq[l].rob_index = i
      BY <1>0, <3>2, <3>3, SlotOwner
    <3> QED BY <3>2, <3>3, <3>4 DEF OpsOf, Mine
  <2>4. rob[i].instr.source_memory[j] # NoAddr => rob[i].instr_id # None
    BY <1>0, OperandUsed DEF Used
  <2>5. CASE rob[i].lq_index[j] \in M
    <3>1. lq'[rob[i].lq_index[j]].instr_id = None /\ rob[i].lq_index[j] # None
      <4>1. PICK l : l = rob[i].lq_index[j]
        OBVIOUS
      <4>2. l \in LqIndex /\ l \in M
        BY <2>5, <4>1
      <4>3. lq'[l].instr_id = None
        BY <1>2, <1>3, <4>2
      <4>4. l # None
        BY <4>2, Sizes DEF None
      <4> QED BY <4>1, <4>3, <4>4
    <3>2. ~ LoadOut(rob', lq', i, j)
      BY <1>5, <2>4, <3>1 DEF LoadOut
    <3> QED BY <2>2, <2>3, <2>5, <3>2
  <2>6. CASE rob[i].lq_index[j] \notin M
    <3>1. rob[i].lq_index[j] # None => lq'[rob[i].lq_index[j]] = lq[rob[i].lq_index[j]]
      BY <1>2, <2>0, <2>6
    <3>2. LoadOut(rob', lq', i, j) <=> LoadOut(rob, lq, i, j)
      BY <1>5, <3>1 DEF LoadOut
    <3> QED BY <2>2, <2>6, <3>2
  <2> QED BY <2>5, <2>6
<1>7. ASSUME NEW i \in RobIndex
      PROVE  Cardinality(LoadsOut(rob', lq', i))
               = Cardinality(LoadsOut(rob, lq, i)) - Cardinality(OpsOf(M, i))
  <2>1. PICK S : S = LoadsOut(rob, lq, i)
    OBVIOUS
  <2>2. PICK T : T = OpsOf(M, i)
    OBVIOUS
  <2>3. T \in SUBSET Source /\ IsFiniteSet(T)
    BY <1>0, <2>2, MineOps
  <2>4. T \in SUBSET S /\ S \in SUBSET Source
    BY <1>6, <2>1, <2>2, <2>3 DEF LoadsOut
  <2>5. LoadsOut(rob', lq', i) = S \ T
    BY <1>6, <2>1, <2>2 DEF LoadsOut
  <2>6. IsFiniteSet(S)
    BY <2>4, FiniteOperands, FS_Subset
  <2>7. S \cap T = T
    BY <2>4
  <2>8. Cardinality(S \ T) = Cardinality(S) - Cardinality(S \cap T)
    BY <2>3, <2>6, FS_Difference
  <2> QED BY <2>1, <2>2, <2>5, <2>7, <2>8
<1>8. LoadSlots(rob', lq')
  <2> SUFFICES ASSUME NEW l \in LqIndex
               PROVE  IF lq'[l].address = NoAddr THEN lq'[l] = FreeLoad
                      ELSE /\ rob'[lq'[l].rob_index].instr_id = lq'[l].instr_id
                           /\ rob'[lq'[l].rob_index].instr_id # None
                           /\ rob'[lq'[l].rob_index].lq_index[lq'[l].data_index] = l
                           /\ rob'[lq'[l].rob_index].instr.source_memory[lq'[l].data_index]
                                = lq'[l].address
                           /\ lq'[l].fetched # "COMPLETED"
    BY DEF LoadSlots
  <2>1. CASE l \in M
    BY <1>2, <1>3, <2>1
  <2>2. CASE l \notin M
    <3>1. lq'[l] = lq[l] /\ lq[l].rob_index \in RobIndex
      BY <1>0, <1>2, <2>2 DEF LoadType
    <3> QED BY <1>0, <1>5, <3>1 DEF LoadSlots
  <2> QED BY <2>1, <2>2
<1>9. LoadIndices(rob')
  BY <1>0, <1>5 DEF LoadIndices
<1>10. ReadyLoads(lq', rtl0')
  <2>1. rtl0' = rtl0
    OBVIOUS
  <2> SUFFICES ASSUME NEW m \in DOMAIN rtl0
               PROVE  /\ lq'[rtl0[m]].address # NoAddr /\ lq'[rtl0[m]].producer_id = None
                      /\ lq'[rtl0[m]].fetched = "NO"
    BY <1>0, <2>1 DEF ReadyLoads
  <2>2. rtl0[m] \in LqIndex /\ rtl0[m] \notin M
    BY <1>0 DEF QueuesTyped
  <2> QED BY <1>0, <1>2, <2>2 DEF ReadyLoads
<1>11. SlotsCounted(lq', lq_occupancy') /\ lq_occupancy' \in Int
  <2> DEFINE S == {l \in LqIndex : lq[l].address # NoAddr}
  <2>1. {l \in LqIndex : lq'[l].address # NoAddr} = S \ M
    BY <1>2, <1>3
  <2>2. M \in SUBSET S /\ S \in SUBSET LqIndex
    OBVIOUS
  <2>3. lq_occupancy = Cardinality(S)
    BY <1>0 DEF SlotsCounted
  <2>t. SlotsCounted(lq', lq_occupancy') <=> lq_occupancy' = Cardinality(S \ M)
    BY <2>1 DEF SlotsCounted
  <2> HIDE DEF S
  <2>4. IsFiniteSet(S) /\ IsFiniteSet(M)
    BY <2>2, Sizes, FS_Subset
  <2>5. S \cap M = M
    BY <2>2
  <2>6. Cardinality(S \ M) = Cardinality(S) - Cardinality(S \cap M)
    BY <2>4, FS_Difference
  <2>7. Cardinality(M) \in Nat /\ Cardinality(S) \in Nat
    BY <2>4, FS_CardinalityType
  <2>8. PICK a : a = Cardinality(S)
    OBVIOUS
  <2>9. PICK b : b = Cardinality(M)
    OBVIOUS
  <2>10. lq_occupancy' = lq_occupancy - b /\ lq_occupancy = a
    BY ONLY <1>1, <2>3, <2>8, <2>9
  <2>11. a \in Nat /\ b \in Nat /\ Cardinality(S \ M) = a - b
    BY ONLY <2>5, <2>6, <2>7, <2>8, <2>9
  <2>12. lq_occupancy' = Cardinality(S \ M) /\ lq_occupancy' \in Int
    BY ONLY <2>10, <2>11
  <2> QED BY <2>t, <2>12
<1> QED BY <1>2, <1>4, <1>6, <1>7, <1>8, <1>9, <1>10, <1>11 DEF LoadInv

(* A step that ends loads, the ones of the slots M, and perhaps a store *)
LEMMA MemoryDone ==
    ASSUME IInv, RobTyped', NEW M \in SUBSET LqIndex, \A l \in M : lq[l].address # NoAddr,
           release_load_queue(M), rtl0' = rtl0, \A m \in DOMAIN rtl0 : rtl0[m] \notin M,
           \A p \in RobIndex : SameButOps(rob[p], rob'[p]),
           UNCHANGED <<next, retired, rte0, rte1, memory, last_store>>,
           inflight'.reg = inflight.reg,
           \A i \in RobIndex : \A j \in Destination :
              StoreOut(rob', sq', i, j) => StoreOut(rob, sq, i, j),
           \A i \in RobIndex :
              rob'[i].num_mem_ops = rob[i].num_mem_ops - Cardinality(OpsOf(M, i))
                 + Cardinality(StoresOut(rob', sq', i)) - Cardinality(StoresOut(rob, sq, i)),
           \A i \in RobIndex : \A j \in Source \ OpsOf(M, i) : rob'[i].value[j] = rob[i].value[j],
           \A l \in M : rob'[lq[l].rob_index].value[lq[l].data_index]
                          = rob[lq[l].rob_index].expects[lq[l].data_index],
           NEW C \in SUBSET RobIndex,
           \A p \in C : rob[p].num_mem_ops # 0,
           \A p \in RobIndex \ C : rob'[p].num_mem_ops = rob[p].num_mem_ops,
           inflight'.mem = inflight.mem + Cardinality({p \in C : rob'[p].num_mem_ops = 0})
    PROVE  /\ lq' \in [LqIndex -> LoadType] /\ lq_occupancy' \in Int /\ LoadInv'
           /\ Values(rob', lq') /\ OperationsCounted(rob', lq', sq')
           /\ Ring' /\ RegInv' /\ Expected' /\ LastStores' /\ MemoryListed(rob)' /\ MemCounted'
           /\ \A i \in RobIndex : rob'[i].num_mem_ops \in Nat
<1>0. /\ RobTyped /\ QueuesTyped /\ Ring /\ LoadSlots(rob, lq)
      /\ Values(rob, lq) /\ OperationsCounted(rob, lq, sq)
  BY DEF IInv, LoadInv, DataInv
<1>1. /\ lq' \in [LqIndex -> LoadType] /\ lq_occupancy' \in Int /\ LoadInv'
      /\ \A i \in RobIndex : \A j \in Source :
            /\ LoadOut(rob', lq', i, j) <=> LoadOut(rob, lq, i, j) /\ j \notin OpsOf(M, i)
            /\ j \in OpsOf(M, i) => LoadOut(rob, lq, i, j)
      /\ \A i \in RobIndex : Cardinality(LoadsOut(rob', lq', i))
                              = Cardinality(LoadsOut(rob, lq, i)) - Cardinality(OpsOf(M, i))
  BY Released
<1>2. \A i \in RobIndex : /\ LoadsOut(rob', lq', i) \in SUBSET Source
                          /\ LoadsOut(rob, lq, i) \in SUBSET Source
                          /\ StoresOut(rob', sq', i) \in SUBSET Destination
                          /\ StoresOut(rob, sq, i) \in SUBSET Destination
                          /\ OpsOf(M, i) \in SUBSET Source
  BY <1>0, MineOps DEF LoadsOut, StoresOut
<1>3. \A i \in RobIndex : /\ Cardinality(LoadsOut(rob', lq', i)) \in Nat
                          /\ Cardinality(LoadsOut(rob, lq, i)) \in Nat
                          /\ Cardinality(StoresOut(rob', sq', i)) \in Nat
                          /\ Cardinality(StoresOut(rob, sq, i)) \in Nat
                          /\ Cardinality(OpsOf(M, i)) \in Nat
  BY <1>2, FiniteOperands, FS_Subset, FS_CardinalityType
<1>4. \A i \in RobIndex : rob[i].num_mem_ops = Cardinality(LoadsOut(rob, lq, i))
                                                + Cardinality(StoresOut(rob, sq, i))
  BY <1>0 DEF OperationsCounted, LoadsOut, StoresOut
<1>5. \A i \in RobIndex : /\ rob'[i].num_mem_ops = Cardinality(LoadsOut(rob', lq', i))
                                                    + Cardinality(StoresOut(rob', sq', i))
                          /\ rob'[i].num_mem_ops \in Nat
  <2> SUFFICES ASSUME NEW i \in RobIndex
               PROVE  /\ rob'[i].num_mem_ops = Cardinality(LoadsOut(rob', lq', i))
                                                + Cardinality(StoresOut(rob', sq', i))
                      /\ rob'[i].num_mem_ops \in Nat
    OBVIOUS
  <2>1. PICK a, b, c, d, e : /\ a = Cardinality(LoadsOut(rob', lq', i))
                             /\ b = Cardinality(LoadsOut(rob, lq, i))
                             /\ c = Cardinality(StoresOut(rob', sq', i))
                             /\ d = Cardinality(StoresOut(rob, sq, i))
                             /\ e = Cardinality(OpsOf(M, i))
    OBVIOUS
  <2>2. a \in Nat /\ b \in Nat /\ c \in Nat /\ d \in Nat /\ e \in Nat /\ a = b - e
    BY <1>1, <1>3, <2>1
  <2>3. rob'[i].num_mem_ops = rob[i].num_mem_ops - e + c - d /\ rob[i].num_mem_ops = b + d
    BY <1>4, <2>1
  <2>4. rob'[i].num_mem_ops = a + c /\ a + c \in Nat
    BY <2>2, <2>3
  <2> QED BY <2>1, <2>4
<1>6. OperationsCounted(rob', lq', sq')
  BY <1>5 DEF OperationsCounted, LoadsOut, StoresOut
<1>7. Values(rob', lq')
  <2> SUFFICES ASSUME NEW i \in RobIndex, NEW j \in Source,
                      rob'[i].instr.source_memory[j] # NoAddr, ~ LoadOut(rob', lq', i, j)
               PROVE  rob'[i].value[j] = rob'[i].expects[j]
    BY DEF Values
  <2>1. rob'[i].expects = rob[i].expects /\ rob[i].instr.source_memory[j] # NoAddr
    BY DEF SameButOps, SameInstr
  <2>2. CASE j \in OpsOf(M, i)
    <3>1. PICK l \in M : lq[l].rob_index = i /\ lq[l].data_index = j
      BY <2>2 DEF OpsOf, Mine
    <3> QED BY <2>1, <3>1
  <2>3. CASE j \notin OpsOf(M, i)
    <3>1. ~ LoadOut(rob, lq, i, j)
      BY <1>1, <2>3
    <3>2. rob[i].value[j] = rob[i].expects[j]
      BY <1>0, <2>1, <3>1 DEF Values
    <3> QED BY <2>1, <2>3, <3>2
  <2> QED BY <2>2, <2>3
<1>8. Ring' /\ RegInv' /\ Expected' /\ LastStores' /\ MemoryListed(rob)' /\ MemCounted'
  BY <1>1, <1>6, OperationsDone
<1> QED BY <1>1, <1>5, <1>6, <1>7, <1>8

(* The loads that go on waiting, while their stores do not execute *)
LEMMA ProducersKept ==
    ASSUME IInv, UNCHANGED retired, \A p \in RobIndex : SameButOps(rob[p], rob'[p]),
           \A l \in LqIndex : lq'[l].address # NoAddr => lq'[l] = lq[l],
           \A l \in LqIndex : lq'[l].address # NoAddr /\ lq[l].producer_id # None =>
              \A p \in RobIndex : rob[p].instr_id = lq[l].producer_id =>
                 \A j \in Destination :
                    (rob[p].instr.destination_memory[j] = lq[l].address
                       /\ StoreOut(rob, sq, p, j)) => StoreOut(rob', sq', p, j)
    PROVE  Producers(rob, lq, sq)'
<1>0. /\ RobTyped /\ QueuesTyped /\ Producers(rob, lq, sq) /\ lq \in [LqIndex -> LoadType]
      /\ retired \in Nat
  BY DEF IInv, DataInv, QueuesTyped, RobTyped
<1>1. \A p \in RobIndex : SameInstr(rob[p], rob'[p])
  BY DEF SameButOps
<1>2. /\ \A i \in RobIndex, a \in Addr :
            /\ StoreWriters(i, a)' = StoreWriters(i, a)
            /\ Nearest(StoreWriters(i, a))' = Nearest(StoreWriters(i, a))
  BY <1>1, SameWriters
<1> SUFFICES ASSUME NEW l \in LqIndex, lq'[l].address # NoAddr,
                    NEW d, d = lq'[l].rob_index, NEW a, a = lq'[l].address,
                    NEW p, p = Nearest(StoreWriters(d, a))'
             PROVE  IF lq'[l].producer_id = None THEN StoreWriters(d, a)' = {}
                    ELSE /\ StoreWriters(d, a)' # {} /\ lq'[l].producer_id = rob'[p].instr_id
                         /\ d \in rob'[p].memory_instrs_depend_on_me
                         /\ lq'[l].fetched = "NO"
                         /\ \A j \in Destination : rob'[p].instr.destination_memory[j] = a
                                           => StoreOut(rob', sq', p, j)
  BY DEF Producers
<1>3. /\ lq'[l] = lq[l] /\ d = lq[l].rob_index /\ a = lq[l].address /\ d \in RobIndex
      /\ a \in Addr /\ lq[l].address # NoAddr
  BY <1>0 DEF LoadType
<1>4. p = Nearest(StoreWriters(d, a)) /\ StoreWriters(d, a)' = StoreWriters(d, a)
  BY <1>2, <1>3
<1>5. IF lq[l].producer_id = None THEN StoreWriters(d, a) = {}
      ELSE /\ StoreWriters(d, a) # {} /\ lq[l].producer_id = rob[p].instr_id
           /\ d \in rob[p].memory_instrs_depend_on_me
           /\ lq[l].fetched = "NO"
           /\ \A j \in Destination : rob[p].instr.destination_memory[j] = a
                                           => StoreOut(rob, sq, p, j)
  BY <1>0, <1>3, <1>4 DEF Producers
<1>6. StoreWriters(d, a) # {} => p \in RobIndex
  BY <1>0, <1>3, <1>4, NearestIn
<1>7. CASE lq[l].producer_id = None
  BY <1>3, <1>4, <1>5, <1>7
<1>8. CASE lq[l].producer_id # None
  <2>1. p \in RobIndex /\ rob[p].instr_id = lq[l].producer_id
    BY <1>5, <1>6, <1>8
  <2>2. /\ rob'[p].instr = rob[p].instr /\ rob'[p].instr_id = rob[p].instr_id
        /\ rob'[p].memory_instrs_depend_on_me = rob[p].memory_instrs_depend_on_me
    BY <2>1 DEF SameButOps, SameInstr
  <2>3. \A j \in Destination : rob'[p].instr.destination_memory[j] = a
                                 => StoreOut(rob', sq', p, j)
    BY <1>3, <1>5, <1>8, <2>1, <2>2
  <2> QED BY <1>3, <1>4, <1>5, <1>8, <2>1, <2>2, <2>3
<1> QED BY <1>7, <1>8

(* The ring entry of each slot of a set *)
LEMMA Owners ==
    ASSUME RobTyped, QueuesTyped, Ring, LoadSlots(rob, lq), OperationsCounted(rob, lq, sq),
           NEW M \in SUBSET LqIndex, \A l \in M : lq[l].address # NoAddr
    PROVE  /\ {lq[l].rob_index : l \in M} \in SUBSET RobIndex
           /\ \A p \in {lq[l].rob_index : l \in M} : rob[p].num_mem_ops # 0
           /\ \A p \in RobIndex \ {lq[l].rob_index : l \in M} : OpsOf(M, p) = {}
<1>1. {lq[l].rob_index : l \in M} \in SUBSET RobIndex
  BY DEF QueuesTyped, LoadType
<1>2. ASSUME NEW l \in M PROVE rob[lq[l].rob_index].num_mem_ops # 0
  <2>1. PICK i, j : i = lq[l].rob_index /\ j = lq[l].data_index
    OBVIOUS
  <2>2. /\ i \in RobIndex /\ j \in Source /\ rob[i].instr_id = lq[l].instr_id
        /\ rob[i].lq_index[j] = l /\ rob[i].instr.source_memory[j] = lq[l].address
    BY <2>1, SlotOwner
  <2>3. LoadOut(rob, lq, i, j)
    BY <2>1, <2>2 DEF LoadOut
  <2> QED BY <2>1, <2>2, <2>3, NothingOut
<1>3. \A p \in RobIndex \ {lq[l].rob_index : l \in M} : OpsOf(M, p) = {}
  BY DEF OpsOf, Mine
<1> QED BY <1>1, <1>2, <1>3

(* complete_data_fetch preserves the invariant.                            *)
LEMMA FetchKeeps == ASSUME IInv, NEW M \in SUBSET LqIndex, complete_data_fetch(M) PROVE IInv'
<1> DEFINE data == [l \in M |-> memory[lq[l].address]]
           C == {lq[l].rob_index : l \in M}
           D == {p \in C : LoadsDone(rob[p], p, M, data).num_mem_ops = 0}
<1>1. /\ M \subseteq InFlight
      /\ rob' = [p \in RobIndex |-> LoadsDone(rob[p], p, M, data)]
      /\ release_load_queue(M)
      /\ inflight' = [inflight EXCEPT !.mem = @ + Cardinality(D)]
      /\ failed' = failed \cup (UNION {Below0(LoadsDone(rob[p], p, M, data)) : p \in C})
                     \cup (IF \A l \in M : rob[lq[l].rob_index].instr_id = lq[l].instr_id
                           THEN {} ELSE {"check_rob"})
  BY DEF complete_data_fetch
<1>2. /\ next' = next /\ retired' = retired /\ rte0' = rte0 /\ rte1' = rte1 /\ rtl0' = rtl0
      /\ last_store' = last_store /\ memory' = memory
      /\ sq' = sq /\ sq_tail' = sq_tail /\ sq_occupancy' = sq_occupancy /\ sta' = sta
      /\ rts0' = rts0
  BY DEF complete_data_fetch, readyVars, storeVars
<1>3. /\ RobTyped /\ QueuesTyped /\ Ring /\ LoadSlots(rob, lq) /\ ReadyLoads(lq, rtl0)
      /\ Producers(rob, lq, sq) /\ Expected /\ OperationsCounted(rob, lq, sq) /\ StoreInv
      /\ Failures /\ lq \in [LqIndex -> LoadType] /\ rob \in [RobIndex -> EntryType]
      /\ inflight \in [reg : Int, mem : Int] /\ memory \in [Addr -> Int]
      /\ rtl0 \in Seq(LqIndex)
  BY DEF IInv, LoadInv, DataInv, QueuesTyped, RobTyped
<1>4. \A l \in M : /\ lq[l].fetched = "INFLIGHT" /\ lq[l].address # NoAddr
                   /\ lq[l].producer_id = None /\ lq[l].address \in Addr /\ l \in LqIndex
  <2> SUFFICES ASSUME NEW l \in M
               PROVE  /\ lq[l].fetched = "INFLIGHT" /\ lq[l].address # NoAddr
                      /\ lq[l].producer_id = None /\ lq[l].address \in Addr
    OBVIOUS
  <2>1. lq[l].fetched = "INFLIGHT"
    BY <1>1 DEF InFlight
  <2>2. lq[l].address # NoAddr
    BY <1>3, <2>1 DEF LoadSlots, FreeLoad
  <2>3. lq[l].producer_id = None
    BY <1>3, <2>1, <2>2 DEF Producers
  <2> QED BY <1>3, <2>1, <2>2, <2>3 DEF LoadType
<1>5. data \in [M -> Int]
  BY <1>3, <1>4
<1> HIDE DEF data
<1>6. \A p \in RobIndex :
         /\ rob'[p] \in EntryType /\ SameButOps(rob[p], rob'[p])
         /\ rob'[p].num_mem_ops = rob[p].num_mem_ops - Cardinality(OpsOf(M, p))
         /\ \A j \in Source \ OpsOf(M, p) : rob'[p].value[j] = rob[p].value[j]
         /\ \A l \in Mine(M, p) : rob'[p].value[lq[l].data_index] = data[l]
  <2> SUFFICES ASSUME NEW p \in RobIndex
               PROVE  /\ rob'[p] \in EntryType /\ SameButOps(rob[p], rob'[p])
                      /\ rob'[p].num_mem_ops = rob[p].num_mem_ops - Cardinality(OpsOf(M, p))
                      /\ \A j \in Source \ OpsOf(M, p) : rob'[p].value[j] = rob[p].value[j]
                      /\ \A l \in Mine(M, p) : rob'[p].value[lq[l].data_index] = data[l]
    OBVIOUS
  <2>1. rob'[p] = LoadsDone(rob[p], p, M, data) /\ rob[p] \in EntryType
    BY <1>1, <1>3
  <2>2. PICK f : f = rob'[p]
    OBVIOUS
  <2>3. \A l \in M : lq[l].address # NoAddr
    BY <1>4
  <2>4. /\ f \in EntryType /\ SameButOps(rob[p], f)
        /\ f.num_mem_ops = rob[p].num_mem_ops - Cardinality(OpsOf(M, p))
        /\ \A j \in Source \ OpsOf(M, p) : f.value[j] = rob[p].value[j]
        /\ \A l \in Mine(M, p) : f.value[lq[l].data_index] = data[l]
    <3>1. PICK e, v : e = rob[p] /\ v = data
      OBVIOUS
    <3>2. e \in EntryType /\ v \in [M -> Int] /\ f = LoadsDone(e, p, M, v)
      BY <1>5, <2>1, <2>2, <3>1
    <3>3. RobTyped /\ QueuesTyped /\ Ring /\ LoadSlots(rob, lq)
      BY <1>3
    <3>4. GotData(e, p, M, v, f)
      BY <2>3, <3>2, <3>3, LoadsDoneIs
    <3> QED BY <3>1, <3>4 DEF GotData
  <2> QED BY <2>2, <2>4
<1>7. /\ C \in SUBSET RobIndex /\ \A p \in C : rob[p].num_mem_ops # 0
      /\ \A p \in RobIndex \ C : OpsOf(M, p) = {}
  BY <1>3, <1>4, Owners
<1>8. D = {p \in C : rob'[p].num_mem_ops = 0}
  BY <1>1, <1>7
<1>9. inflight'.reg = inflight.reg /\ inflight'.mem = inflight.mem + Cardinality(D)
  BY <1>1, <1>3
<1>10. inflight' \in [reg : Int, mem : Int]
  <2>1. IsFiniteSet(D)
    BY <1>7, Sizes, FS_Subset
  <2>2. Cardinality(D) \in Nat
    BY <2>1, FS_CardinalityType
  <2> HIDE DEF D
  <2> QED BY <1>1, <1>3, <2>2
<1>11. RobTyped'
  <2>1. rob' \in [RobIndex -> EntryType]
    BY <1>1, <1>6
  <2> QED BY <1>2, <1>3, <1>10, <2>1 DEF RobTyped
<1>12. \A p \in RobIndex \ C : rob'[p].num_mem_ops = rob[p].num_mem_ops
  <2>1. Cardinality({}) = 0
    BY FS_EmptySet
  <2>2. ASSUME NEW p \in RobIndex \ C PROVE rob'[p].num_mem_ops = rob[p].num_mem_ops
    <3>1. Cardinality(OpsOf(M, p)) = 0
      BY <1>7, <2>1
    <3>2. rob'[p].num_mem_ops = rob[p].num_mem_ops - 0 /\ rob[p].num_mem_ops \in Int
      BY <1>3, <1>6, <3>1 DEF EntryType
    <3> QED BY <3>2
  <2> QED BY <2>2
<1>13. \A i \in RobIndex : \A j \in Destination :
          StoreOut(rob', sq', i, j) <=> StoreOut(rob, sq, i, j)
  BY <1>2, <1>6 DEF StoreOut, SameButOps, SameInstr
<1>14. \A i \in RobIndex :
          /\ StoresOut(rob', sq', i) = StoresOut(rob, sq, i)
          /\ Cardinality(StoresOut(rob, sq, i)) \in Nat
  <2>1. \A i \in RobIndex : StoresOut(rob, sq, i) \in SUBSET Destination
    BY DEF StoresOut
  <2>2. \A i \in RobIndex : Cardinality(StoresOut(rob, sq, i)) \in Nat
    BY <2>1, FiniteOperands, FS_Subset, FS_CardinalityType
  <2> QED BY <1>13, <2>2 DEF StoresOut
<1>15. \A i \in RobIndex :
          rob'[i].num_mem_ops = rob[i].num_mem_ops - Cardinality(OpsOf(M, i))
             + Cardinality(StoresOut(rob', sq', i)) - Cardinality(StoresOut(rob, sq, i))
  <2> SUFFICES ASSUME NEW i \in RobIndex
               PROVE  rob'[i].num_mem_ops = rob[i].num_mem_ops - Cardinality(OpsOf(M, i))
                       + Cardinality(StoresOut(rob', sq', i)) - Cardinality(StoresOut(rob, sq, i))
    OBVIOUS
  <2>1. PICK a, b, c : /\ a = Cardinality(StoresOut(rob, sq, i)) /\ b = Cardinality(OpsOf(M, i))
                       /\ c = Cardinality(StoresOut(rob', sq', i))
    OBVIOUS
  <2>2. a \in Nat /\ b \in Nat /\ c = a /\ rob[i].num_mem_ops \in Int
    BY <1>3, <1>4, <1>14, <2>1, MineOps DEF EntryType
  <2> QED BY <1>6, <2>1, <2>2
<1>16. \A l \in M : rob'[lq[l].rob_index].value[lq[l].data_index]
                      = rob[lq[l].rob_index].expects[lq[l].data_index]
  <2> SUFFICES ASSUME NEW l \in M
               PROVE  rob'[lq[l].rob_index].value[lq[l].data_index]
                        = rob[lq[l].rob_index].expects[lq[l].data_index]
    OBVIOUS
  <2>1. PICK i, j, a : i = lq[l].rob_index /\ j = lq[l].data_index /\ a = lq[l].address
    OBVIOUS
  <2>2. i \in RobIndex /\ j \in Source /\ rob[i].instr.source_memory[j] = a
    BY <1>3, <1>4, <2>1, SlotOwner
  <2>3. l \in Mine(M, i) /\ data[l] = memory[a]
    BY <2>1 DEF Mine, data
  <2>4. StoreWriters(i, a) = {}
    BY <1>3, <1>4, <2>1 DEF Producers
  <2>5. rob[i].expects[j] = memory[a]
    <3>1. rob[i].instr.source_memory[j] # NoAddr
      BY <1>4, <2>1, <2>2
    <3> QED BY <1>3, <2>2, <2>4, <3>1 DEF Expected
  <2> QED BY <1>6, <2>1, <2>2, <2>3, <2>5
<1>17. \A m \in DOMAIN rtl0 : rtl0[m] \notin M
  BY <1>3, <1>4 DEF ReadyLoads
<1>18. \A p \in RobIndex : SameButOps(rob[p], rob'[p])
  BY <1>6
<1>19. \A p \in RobIndex : \A j \in Source \ OpsOf(M, p) : rob'[p].value[j] = rob[p].value[j]
  BY <1>6
<1>20. inflight'.mem = inflight.mem + Cardinality({p \in C : rob'[p].num_mem_ops = 0})
  BY <1>8, <1>9
<1> HIDE DEF C, D
<1>21. /\ lq' \in [LqIndex -> LoadType] /\ lq_occupancy' \in Int /\ LoadInv'
       /\ Values(rob', lq') /\ OperationsCounted(rob', lq', sq')
       /\ Ring' /\ RegInv' /\ Expected' /\ LastStores' /\ MemoryListed(rob)' /\ MemCounted'
       /\ \A i \in RobIndex : rob'[i].num_mem_ops \in Nat
  BY <1>1, <1>2, <1>4, <1>7, <1>9, <1>11, <1>12, <1>13, <1>15, <1>16, <1>17, <1>18, <1>19,
     <1>20, MemoryDone
<1>22. QueuesTyped'
  BY <1>2, <1>3, <1>21 DEF QueuesTyped
<1>23. StoreInv'
  <2>1. \A p \in RobIndex : /\ rob'[p].sq_index = rob[p].sq_index /\ rob'[p].instr = rob[p].instr
                            /\ rob'[p].instr_id = rob[p].instr_id
    BY <1>18 DEF SameButOps, SameInstr
  <2>2. StoreSlots(rob', sq')
    BY <1>2, <1>3, <2>1, ZenonT(40) DEF StoreInv, StoreSlots, QueuesTyped, StoreType
  <2>3. StoreIndices(rob', sq')
    BY <1>2, <1>3, <2>1 DEF StoreInv, StoreIndices
  <2>4. ReadyStores(sq', rts0')
    BY <1>2, <1>3 DEF StoreInv
  <2>5. StoreOrder(sq, sq_tail, sq_occupancy, sta)'
    BY <1>2, <1>3 DEF StoreInv, StoreOrder
  <2> QED BY <2>2, <2>3, <2>4, <2>5 DEF StoreInv
<1>24. Producers(rob, lq, sq)'
  <2>1. \A l \in LqIndex : lq'[l].address # NoAddr => lq'[l] = lq[l]
    BY <1>1 DEF release_load_queue, FreeLoad
  <2> QED BY <1>2, <1>13, <1>18, <2>1, ProducersKept
<1>25. Failures'
  <2>1. \A p \in C : Below0(LoadsDone(rob[p], p, M, data)) = {}
    <3>1. \A p \in C : LoadsDone(rob[p], p, M, data) = rob'[p] /\ rob'[p].num_mem_ops \in Nat
      BY <1>1, <1>7, <1>21
    <3> QED BY <3>1 DEF Below0
  <2>2. \A l \in M : rob[lq[l].rob_index].instr_id = lq[l].instr_id
    BY <1>3, <1>4, SlotOwner
  <2>3. failed' = failed
    BY <1>1, <2>1, <2>2
  <2> QED BY <1>3, <2>3 DEF Failures
<1> QED BY <1>11, <1>21, <1>22, <1>23, <1>24, <1>25
        DEF IInv, DataInv, Values, OperationsCounted, LoadOut, StoreOut
=============================================================================
