----------------------- MODULE DramController_proofs -----------------------
(***************************************************************************)
(* Proofs about DramController for every number of lines, banks, rows and  *)
(* slots.  The invariants of the model are inductive together; operate is  *)
(* handled stage by stage, on the record that its stages hand on.          *)
(***************************************************************************)
EXTENDS DramController, FiniteSetTheorems, SequenceTheorems, WellFoundedInduction, TLAPS

BankState == [working : BOOLEAN, open_row : Row \cup {NoRow},
              request_index : Slot \cup {0}, use : Queue \cup {"none"}]

(* The invariants, as conditions on the controller's parts. *)
TypedParts(e, bk, sc) == /\ e \in [Slot -> Request]
                         /\ bk \in [Bank -> BankState]
                         /\ sc \in [Queue -> Int]

Mode(wm) == IF wm THEN "WQ" ELSE "RQ"

AtBank(e, bk, wm) ==
    \A i \in Slot : e[i].scheduled =>
        /\ e[i].address # NoAddr
        /\ QueueOf(i) = Mode(wm)
        /\ bk[BankOf[e[i].address]].working
        /\ bk[BankOf[e[i].address]].request_index = i
        /\ bk[BankOf[e[i].address]].use = QueueOf(i)

HasRequest(e, bk) ==
    \A b \in Bank :
        IF bk[b].working
        THEN /\ bk[b].request_index \in Slot
             /\ e[bk[b].request_index].scheduled
             /\ BankOf[e[bk[b].request_index].address] = b
        ELSE bk[b].use = "none"

BanksOf(bk, q) == {b \in Bank : bk[b].use = q}
BanksCounted(bk, sc) == \A q \in Queue : sc[q] = Cardinality(BanksOf(bk, q))

Parts(e, bk, sc, wm) == /\ TypedParts(e, bk, sc)
                        /\ AtBank(e, bk, wm)
                        /\ HasRequest(e, bk)
                        /\ BanksCounted(bk, sc)

UsedSlots(e, q) == {i \in Slots(q) : e[i].address # NoAddr}
SlotsCounted(e, oc) == \A q \in Queue : oc[q] = Cardinality(UsedSlots(e, q))

SameRequests(e1, e2) == \A i \in Slot : /\ e1[i].address = e2[i].address
                                        /\ e1[i].fill = e2[i].fill

(* Without the predictor there are no DDRP requests to merge with. *)
OnlyDdrpIsDdrp == ~ enable_ddrp => \A i \in Slot : entry[i].fill = "LLC"

IInv == /\ TypeOK
        /\ NoAssertionFails
        /\ BanksMatchRequests
        /\ CountersExact
        /\ ReadsOwed
        /\ WritebackKept
        /\ OnlyDdrpIsDdrp

-----------------------------------------------------------------------------
(* Slots *)

LEMMA SlotFacts ==
    /\ \A q \in Queue : Slots(q) \subseteq Slot /\ IsFiniteSet(Slots(q))
    /\ \A i \in Slot : QueueOf(i) \in Queue /\ i \in Slots(QueueOf(i)) /\ i # 0
    /\ \A q \in Queue : \A i \in Slots(q) : i \in Slot /\ QueueOf(i) = q
<1>1. \A q \in Queue : Slots(q) \subseteq Slot
  BY DramAssumption DEF Slots, Slot, Queue
<1>2. \A q \in Queue : IsFiniteSet(Slots(q))
  BY DramAssumption, FS_Interval DEF Slots, Queue
<1>3. \A i \in Slot : QueueOf(i) \in Queue /\ i \in Slots(QueueOf(i)) /\ i # 0
  BY DramAssumption DEF QueueOf, Slots, Slot, Queue
<1>4. \A q \in Queue : \A i \in Slots(q) : QueueOf(i) = q
  BY DramAssumption DEF QueueOf, Slots, Queue
<1> QED BY <1>1, <1>2, <1>3, <1>4

LEMMA MinIsMember ==
    ASSUME NEW q \in Queue, NEW S \in SUBSET Slots(q), S # {}
    PROVE  Min(S) \in S
<1>1. S \subseteq Nat BY DramAssumption DEF Slots, Queue
<1> DEFINE R == {ss \in Nat \X Nat : ss[1] < ss[2]}
<1>2. IsWellFoundedOn(R, Nat)
  BY NatLessThanWellFounded DEF OpToRel
<1> HIDE DEF R
<1>3. \E x \in S : \A y \in S : ~ (<<y, x>> \in R)
  BY <1>1, <1>2, WFMin
<1>4. \A x, y \in Nat : ~ (<<y, x>> \in R) => x <= y
  <2> SUFFICES ASSUME NEW x \in Nat, NEW y \in Nat, y < x
               PROVE  <<y, x>> \in R
    OBVIOUS
  <2>1. <<y, x>> \in Nat \X Nat /\ <<y, x>>[1] = y /\ <<y, x>>[2] = x
    OBVIOUS
  <2> QED BY <2>1 DEF R
<1>5. \E x \in S : \A y \in S : x <= y
  BY <1>1, <1>3, <1>4
<1> QED BY <1>5 DEF Min

LEMMA UsedFinite ==
    ASSUME NEW e, NEW q \in Queue
    PROVE  /\ IsFiniteSet(UsedSlots(e, q))
           /\ Cardinality(UsedSlots(e, q)) \in Nat
BY SlotFacts, FS_Subset, FS_CardinalityType DEF UsedSlots

LEMMA BanksFinite ==
    ASSUME NEW bk, NEW q
    PROVE  /\ IsFiniteSet(BanksOf(bk, q))
           /\ Cardinality(BanksOf(bk, q)) \in Nat
BY DramAssumption, FS_Subset, FS_CardinalityType DEF BanksOf
-----------------------------------------------------------------------------
(* The stages of operate *)

Ctl == [entry : [Slot -> Request], bank : [Bank -> BankState],
        scheduled : [Queue -> Int], write_mode : BOOLEAN]

Good(d) == /\ d \in Ctl
           /\ Parts(d.entry, d.bank, d.scheduled, d.write_mode)

(* r is d with every bank idle and every request waiting. *)
TakenBack(d, r) ==
    /\ r \in Ctl /\ SameRequests(d.entry, r.entry)
    /\ r.write_mode = d.write_mode
    /\ \A i \in Slot : ~ r.entry[i].scheduled
    /\ \A b \in Bank : ~ r.bank[b].working /\ r.bank[b].use = "none"
    /\ \A u \in Queue : r.scheduled[u] = 0

(* Taking back the requests of the present mode leaves every bank idle and *)
(* every counter zero, and loses no request.                               *)
LEMMA ResetKeeps ==
    ASSUME NEW d, Good(d), NEW keep \in SUBSET Bank, NEW q, q = Mode(d.write_mode)
    PROVE  TakenBack(d, reset_remain_requests(d, q, keep))
<1> DEFINE hit == {BankAt(d, i) : i \in ScheduledSlots(d, q)}
           e1 == [i \in Slot |-> IF QueueOf(i) = q
                                  THEN [d.entry[i] EXCEPT !.scheduled = FALSE]
                                  ELSE d.entry[i]]
           b1 == [b \in Bank |->
                     IF b \in hit
                     THEN IdleBank(IF b \in keep THEN d.bank[b].open_row ELSE NoRow)
                     ELSE d.bank[b]]
           s1 == [u \in Queue |->
                     d.scheduled[u] - Cardinality({b \in hit : d.bank[b].use = u})]
           r == reset_remain_requests(d, q, keep)
<1>1. /\ d \in Ctl /\ TypedParts(d.entry, d.bank, d.scheduled)
      /\ AtBank(d.entry, d.bank, d.write_mode) /\ HasRequest(d.entry, d.bank)
      /\ BanksCounted(d.bank, d.scheduled) /\ q \in Queue
  BY DEF Good, Parts, Mode, Queue
<1>2. r = [d EXCEPT !.entry = e1, !.bank = b1, !.scheduled = s1]
  BY DEF reset_remain_requests
<1>3. r.entry = e1 /\ r.bank = b1 /\ r.scheduled = s1 /\ r.write_mode = d.write_mode
  BY <1>1, <1>2 DEF Ctl
<1>4. \A i \in Slot : d.entry[i].scheduled => i \in ScheduledSlots(d, q)
  BY <1>1, SlotFacts DEF AtBank, ScheduledSlots
<1>5. \A b \in Bank : d.bank[b].working <=> b \in hit
  <2>1. ASSUME NEW b \in Bank, d.bank[b].working
        PROVE  b \in hit
    BY <1>1, <1>4, <2>1 DEF HasRequest, BankAt
  <2>2. ASSUME NEW b \in hit
        PROVE  d.bank[b].working
    BY <1>1, SlotFacts DEF AtBank, ScheduledSlots, BankAt
  <2> QED BY <2>1, <2>2
<1>6. hit \subseteq Bank
  BY <1>1, SlotFacts, DramAssumption DEF AtBank, ScheduledSlots, BankAt, Ctl, Request
<1>7. \A i \in Slot : /\ e1[i] \in Request /\ ~ e1[i].scheduled
                      /\ e1[i].address = d.entry[i].address /\ e1[i].fill = d.entry[i].fill
  <2> SUFFICES ASSUME NEW i \in Slot
               PROVE  /\ e1[i] \in Request /\ ~ e1[i].scheduled
                      /\ e1[i].address = d.entry[i].address /\ e1[i].fill = d.entry[i].fill
    OBVIOUS
  <2>1. d.entry[i] \in Request
    BY <1>1 DEF TypedParts
  <2>2. CASE QueueOf(i) = q
    BY <2>1, <2>2 DEF Request
  <2>3. CASE QueueOf(i) # q
    BY <1>1, <2>1, <2>3 DEF AtBank, Request
  <2> QED BY <2>2, <2>3
<1>8. \A b \in Bank : b1[b] \in BankState /\ ~ b1[b].working /\ b1[b].use = "none"
  <2> SUFFICES ASSUME NEW b \in Bank
               PROVE  b1[b] \in BankState /\ ~ b1[b].working /\ b1[b].use = "none"
    OBVIOUS
  <2>1. CASE b \in hit
    BY <1>1, <2>1 DEF IdleBank, BankState, Ctl
  <2>2. CASE b \notin hit
    BY <1>1, <1>5, <2>2 DEF HasRequest, Ctl
  <2> QED BY <2>1, <2>2
<1>9. \A u \in Queue : {b \in hit : d.bank[b].use = u} = BanksOf(d.bank, u)
  <2> SUFFICES ASSUME NEW u \in Queue, NEW b \in Bank, d.bank[b].use = u
               PROVE  b \in hit
    BY <1>6 DEF BanksOf
  <2> QED BY <1>1, <1>5 DEF HasRequest, Queue
<1>10. \A u \in Queue : s1[u] = 0
  <2> SUFFICES ASSUME NEW u \in Queue
               PROVE  s1[u] = 0
    OBVIOUS
  <2>1. {b \in hit : d.bank[b].use = u} = BanksOf(d.bank, u)
    BY <1>9
  <2>2. d.scheduled[u] = Cardinality(BanksOf(d.bank, u)) /\ d.scheduled[u] \in Int
    BY <1>1 DEF BanksCounted, TypedParts
  <2>3. s1[u] = d.scheduled[u] - Cardinality(BanksOf(d.bank, u))
    BY <2>1
  <2> HIDE DEF s1
  <2> QED BY <2>2, <2>3
<1>11. r \in Ctl
  <2>1. e1 \in [Slot -> Request] BY <1>7
  <2>2. b1 \in [Bank -> BankState] BY <1>8
  <2>3. s1 \in [Queue -> Int] BY <1>10
  <2> QED BY <1>1, <1>2, <2>1, <2>2, <2>3 DEF Ctl
<1> QED BY <1>3, <1>7, <1>8, <1>10, <1>11 DEF SameRequests, TakenBack

(* SwitchMode keeps the banks in step with the requests. *)
LEMMA SwitchKeeps ==
    ASSUME NEW d, Good(d), NEW keep \in SUBSET Bank, NEW r, r = SwitchMode(d, keep)
    PROVE  /\ Good(r) /\ SameRequests(d.entry, r.entry)
           /\ ToWrites(d) => r.write_mode
           /\ ToReads(d) => ~ r.write_mode
<1>1. d \in Ctl BY DEF Good
<1>2. ASSUME NEW w \in BOOLEAN, NEW q, q = Mode(d.write_mode),
             NEW x, x = reset_remain_requests(d, q, keep), r = [x EXCEPT !.write_mode = w]
      PROVE  Good(r) /\ SameRequests(d.entry, r.entry) /\ r.write_mode = w
  <2>1. /\ x \in Ctl /\ SameRequests(d.entry, x.entry)
        /\ \A i \in Slot : ~ x.entry[i].scheduled
        /\ \A b \in Bank : ~ x.bank[b].working /\ x.bank[b].use = "none"
        /\ \A u \in Queue : x.scheduled[u] = 0
    BY <1>2, ResetKeeps DEF TakenBack
  <2>2. /\ r \in Ctl /\ r.entry = x.entry /\ r.bank = x.bank
        /\ r.scheduled = x.scheduled /\ r.write_mode = w
    BY <1>2, <2>1 DEF Ctl
  <2>3. \A u \in Queue : BanksOf(r.bank, u) = {}
    BY <2>1, <2>2 DEF BanksOf, Queue
  <2>4. BanksCounted(r.bank, r.scheduled)
    BY <2>1, <2>2, <2>3, FS_EmptySet DEF BanksCounted
  <2>5. AtBank(r.entry, r.bank, r.write_mode) /\ HasRequest(r.entry, r.bank)
    BY <2>1, <2>2 DEF AtBank, HasRequest
  <2> QED BY <2>1, <2>2, <2>4, <2>5 DEF Good, Parts, TypedParts, Ctl
<1>3. CASE ToWrites(d)
  BY <1>1, <1>2, <1>3 DEF SwitchMode, ToWrites, ToReads, Mode
<1>4. CASE ~ ToWrites(d) /\ ToReads(d)
  BY <1>1, <1>2, <1>4 DEF SwitchMode, ToWrites, ToReads, Mode
<1>5. CASE ~ ToWrites(d) /\ ~ ToReads(d)
  BY <1>5 DEF SwitchMode, SameRequests
<1> QED BY <1>3, <1>4, <1>5
(* Scheduling puts one waiting request on an idle bank. *)
LEMMA ScheduleKeeps ==
    ASSUME NEW d, Good(d), NEW q, q = Mode(d.write_mode), NEW i \in Ready(d, q)
    PROVE  LET r == ScheduleSlot(d, q, i)
           IN  Good(r) /\ SameRequests(d.entry, r.entry) /\ r.write_mode = d.write_mode
<1> DEFINE r == ScheduleSlot(d, q, i)
           a == d.entry[i].address
           b == BankOf[a]
           e1 == [d.entry EXCEPT ![i].scheduled = TRUE]
           b1 == [d.bank EXCEPT ![b] = [working |-> TRUE, request_index |-> i, use |-> q,
                                        open_row |-> RowOf[a]]]
           s1 == [d.scheduled EXCEPT ![q] = @ + 1]
<1>1. /\ d \in Ctl /\ TypedParts(d.entry, d.bank, d.scheduled)
      /\ AtBank(d.entry, d.bank, d.write_mode) /\ HasRequest(d.entry, d.bank)
      /\ BanksCounted(d.bank, d.scheduled) /\ q \in Queue
  BY DEF Good, Parts, Mode, Queue
<1>2. /\ i \in Slots(q) /\ i \in Slot /\ QueueOf(i) = q /\ d.entry[i] \in Request
      /\ a \in Addr /\ a # NoAddr /\ b \in Bank /\ ~ d.bank[b].working
      /\ ~ d.entry[i].scheduled
  BY <1>1, SlotFacts, DramAssumption DEF Ready, BankAt, TypedParts, Request
<1>3. /\ r = [d EXCEPT !.entry = e1, !.bank = b1, !.scheduled = s1]
      /\ r.entry = e1 /\ r.bank = b1 /\ r.scheduled = s1 /\ r.write_mode = d.write_mode
  BY <1>1 DEF ScheduleSlot, Ctl, BankAt
<1>4. /\ e1 \in [Slot -> Request]
      /\ e1[i].scheduled /\ e1[i].address = a /\ e1[i].fill = d.entry[i].fill
      /\ \A j \in Slot : j # i => e1[j] = d.entry[j]
  BY <1>1, <1>2 DEF TypedParts, Request
<1>5. /\ b1 \in [Bank -> BankState]
      /\ b1[b].working /\ b1[b].request_index = i /\ b1[b].use = q
      /\ \A c \in Bank : c # b => b1[c] = d.bank[c]
  BY <1>1, <1>2, DramAssumption DEF TypedParts, BankState
<1>6. s1 \in [Queue -> Int] /\ s1[q] = d.scheduled[q] + 1
      /\ \A u \in Queue : u # q => s1[u] = d.scheduled[u]
  BY <1>1 DEF TypedParts
<1> HIDE DEF r, a, b, e1, b1, s1
<1>7. r \in Ctl
  BY <1>1, <1>3, <1>4, <1>5, <1>6 DEF Ctl
<1>8. SameRequests(d.entry, e1)
  BY <1>4, <1>2 DEF SameRequests, a
<1>9. BankOf[d.entry[i].address] = b
  BY DEF a, b
<1>10. AtBank(e1, b1, d.write_mode)
  <2> SUFFICES ASSUME NEW j \in Slot, e1[j].scheduled
               PROVE  /\ e1[j].address # NoAddr /\ QueueOf(j) = Mode(d.write_mode)
                      /\ b1[BankOf[e1[j].address]].working
                      /\ b1[BankOf[e1[j].address]].request_index = j
                      /\ b1[BankOf[e1[j].address]].use = QueueOf(j)
    BY DEF AtBank
  <2>1. CASE j = i
    BY <1>2, <1>4, <1>5, <1>9, <2>1 DEF a
  <2>2. CASE j # i
    <3>1. /\ e1[j] = d.entry[j] /\ d.entry[j].address # NoAddr
          /\ QueueOf(j) = Mode(d.write_mode)
          /\ d.bank[BankOf[d.entry[j].address]].working
          /\ d.bank[BankOf[d.entry[j].address]].request_index = j
          /\ d.bank[BankOf[d.entry[j].address]].use = QueueOf(j)
      BY <1>1, <1>4, <2>2 DEF AtBank
    <3>2. BankOf[d.entry[j].address] \in Bank
      BY <1>1, <3>1, DramAssumption DEF TypedParts, Request
    <3>3. BankOf[d.entry[j].address] # b
      BY <1>2, <3>1
    <3> QED BY <1>5, <3>1, <3>2, <3>3
  <2> QED BY <2>1, <2>2
<1>11. HasRequest(e1, b1)
  <2> SUFFICES ASSUME NEW c \in Bank
               PROVE  IF b1[c].working
                      THEN /\ b1[c].request_index \in Slot
                           /\ e1[b1[c].request_index].scheduled
                           /\ BankOf[e1[b1[c].request_index].address] = c
                      ELSE b1[c].use = "none"
    BY DEF HasRequest
  <2>1. CASE c = b
    BY <1>2, <1>4, <1>5, <1>9, <2>1 DEF a
  <2>2. CASE c # b
    BY <1>1, <1>2, <1>4, <1>5, <2>2, SMTT(30) DEF HasRequest
  <2> QED BY <2>1, <2>2
<1>12. BanksCounted(b1, s1)
  <2> SUFFICES ASSUME NEW u \in Queue
               PROVE  s1[u] = Cardinality(BanksOf(b1, u))
    BY DEF BanksCounted
  <2>1. d.scheduled[u] = Cardinality(BanksOf(d.bank, u))
    BY <1>1 DEF BanksCounted
  <2>2. CASE u = q
    <3>1. BanksOf(b1, u) = BanksOf(d.bank, u) \cup {b}
      BY <1>2, <1>5, <2>2 DEF BanksOf
    <3>2. b \notin BanksOf(d.bank, u)
      BY <1>1, <1>2 DEF BanksOf, HasRequest, Queue
    <3>3. Cardinality(BanksOf(b1, u)) = Cardinality(BanksOf(d.bank, u)) + 1
      BY <3>1, <3>2, BanksFinite, FS_AddElement
    <3> QED BY <1>6, <2>1, <2>2, <3>3
  <2>3. CASE u # q
    <3>1. BanksOf(b1, u) = BanksOf(d.bank, u)
      BY <1>1, <1>2, <1>5, <2>3 DEF BanksOf, HasRequest, Queue
    <3> QED BY <1>6, <2>1, <2>3, <3>1
  <2> QED BY <2>2, <2>3
<1>13. Good(r)
  BY <1>3, <1>4, <1>5, <1>6, <1>7, <1>10, <1>11, <1>12 DEF Good, Parts, TypedParts
<1> QED BY <1>3, <1>8, <1>13 DEF r

(* Completing a request frees its slot and its bank, and no other. *)
LEMMA ProcessKeeps ==
    ASSUME NEW d, Good(d), NEW q, q = Mode(d.write_mode), NEW i \in ScheduledSlots(d, q)
    PROVE  LET b == BankAt(d, i)
           IN  /\ Parts([d.entry EXCEPT ![i] = NoRequest],
                        [d.bank EXCEPT ![b] = IdleBank(@.open_row)],
                        [d.scheduled EXCEPT ![q] = @ - 1], d.write_mode)
               /\ d.bank[b].request_index = i
               /\ i \in Slots(q) /\ d.entry[i].address \in Addr
<1> DEFINE b == BankAt(d, i)
           e1 == [d.entry EXCEPT ![i] = NoRequest]
           b1 == [d.bank EXCEPT ![b] = IdleBank(@.open_row)]
           s1 == [d.scheduled EXCEPT ![q] = @ - 1]
<1>1. /\ d \in Ctl /\ TypedParts(d.entry, d.bank, d.scheduled)
      /\ AtBank(d.entry, d.bank, d.write_mode) /\ HasRequest(d.entry, d.bank)
      /\ BanksCounted(d.bank, d.scheduled) /\ q \in Queue
  BY DEF Good, Parts, Mode, Queue
<1>2. /\ i \in Slots(q) /\ i \in Slot /\ QueueOf(i) = q /\ d.entry[i] \in Request
      /\ d.entry[i].scheduled /\ d.entry[i].address \in Addr /\ b \in Bank
      /\ d.bank[b].working /\ d.bank[b].request_index = i /\ d.bank[b].use = q
  <2>1. i \in Slots(q) /\ d.entry[i].scheduled
    BY DEF ScheduledSlots
  <2>2. i \in Slot /\ QueueOf(i) = q /\ d.entry[i] \in Request
    BY <1>1, <2>1, SlotFacts DEF TypedParts
  <2>3. d.entry[i].address \in Addr
    BY <1>1, <2>1, <2>2 DEF AtBank, Request
  <2>4. b \in Bank
    BY <2>3, DramAssumption DEF BankAt
  <2>5. d.bank[b].working /\ d.bank[b].request_index = i /\ d.bank[b].use = q
    BY <1>1, <2>1, <2>2 DEF AtBank, BankAt
  <2> QED BY <2>1, <2>2, <2>3, <2>4, <2>5
<1>3. /\ e1 \in [Slot -> Request] /\ ~ e1[i].scheduled
      /\ \A j \in Slot : j # i => e1[j] = d.entry[j]
  BY <1>1, <1>2 DEF TypedParts, Request, NoRequest
<1>4. /\ b1 \in [Bank -> BankState] /\ ~ b1[b].working /\ b1[b].use = "none"
      /\ \A c \in Bank : c # b => b1[c] = d.bank[c]
  BY <1>1, <1>2 DEF TypedParts, BankState, IdleBank
<1>5. s1 \in [Queue -> Int] /\ s1[q] = d.scheduled[q] - 1
      /\ \A u \in Queue : u # q => s1[u] = d.scheduled[u]
  BY <1>1 DEF TypedParts
<1> HIDE DEF b, e1, b1, s1
<1>6. AtBank(e1, b1, d.write_mode)
  <2> SUFFICES ASSUME NEW j \in Slot, e1[j].scheduled
               PROVE  /\ e1[j].address # NoAddr /\ QueueOf(j) = Mode(d.write_mode)
                      /\ b1[BankOf[e1[j].address]].working
                      /\ b1[BankOf[e1[j].address]].request_index = j
                      /\ b1[BankOf[e1[j].address]].use = QueueOf(j)
    BY DEF AtBank
  <2>1. j # i /\ e1[j] = d.entry[j]
    BY <1>3
  <2>2. /\ d.entry[j].address # NoAddr /\ QueueOf(j) = Mode(d.write_mode)
        /\ d.bank[BankOf[d.entry[j].address]].working
        /\ d.bank[BankOf[d.entry[j].address]].request_index = j
        /\ d.bank[BankOf[d.entry[j].address]].use = QueueOf(j)
    BY <1>1, <2>1 DEF AtBank
  <2>3. BankOf[d.entry[j].address] \in Bank
    BY <1>1, <2>2, DramAssumption DEF TypedParts, Request
  <2>4. BankOf[d.entry[j].address] # b
    BY <1>2, <2>1, <2>2
  <2> QED BY <1>4, <2>1, <2>2, <2>3, <2>4
<1>7. HasRequest(e1, b1)
  <2> SUFFICES ASSUME NEW c \in Bank
               PROVE  IF b1[c].working
                      THEN /\ b1[c].request_index \in Slot
                           /\ e1[b1[c].request_index].scheduled
                           /\ BankOf[e1[b1[c].request_index].address] = c
                      ELSE b1[c].use = "none"
    BY DEF HasRequest
  <2>1. CASE c = b
    BY <1>4, <2>1
  <2>2. CASE c # b
    <3>1. b1[c] = d.bank[c]
      BY <1>4, <2>2
    <3>2. IF d.bank[c].working
          THEN /\ d.bank[c].request_index \in Slot
               /\ d.entry[d.bank[c].request_index].scheduled
               /\ BankOf[d.entry[d.bank[c].request_index].address] = c
          ELSE d.bank[c].use = "none"
      BY <1>1 DEF HasRequest
    <3>3. b = BankOf[d.entry[i].address]
      BY DEF b, BankAt
    <3>4. d.bank[c].working => d.bank[c].request_index # i
      BY <3>2, <3>3, <2>2
    <3> QED BY <1>3, <3>1, <3>2, <3>4
  <2> QED BY <2>1, <2>2
<1>8. BanksCounted(b1, s1)
  <2> SUFFICES ASSUME NEW u \in Queue
               PROVE  s1[u] = Cardinality(BanksOf(b1, u))
    BY DEF BanksCounted
  <2>1. d.scheduled[u] = Cardinality(BanksOf(d.bank, u))
    BY <1>1 DEF BanksCounted
  <2>2. CASE u = q
    <3>1. BanksOf(b1, u) = BanksOf(d.bank, u) \ {b}
      BY <1>1, <1>2, <1>4, <2>2 DEF BanksOf, Queue
    <3>2. b \in BanksOf(d.bank, u)
      BY <1>2, <2>2 DEF BanksOf
    <3>3. Cardinality(BanksOf(b1, u)) = Cardinality(BanksOf(d.bank, u)) - 1
      BY <3>1, <3>2, BanksFinite, FS_RemoveElement, ZenonT(40)
    <3> QED BY <1>5, <2>1, <2>2, <3>3
  <2>3. CASE u # q
    <3>1. BanksOf(b1, u) = BanksOf(d.bank, u)
      BY <1>2, <1>4, <2>3 DEF BanksOf, Queue
    <3> QED BY <1>5, <2>1, <2>3, <3>1
  <2> QED BY <2>2, <2>3
<1>9. Parts(e1, b1, s1, d.write_mode)
  BY <1>3, <1>4, <1>5, <1>6, <1>7, <1>8 DEF Parts, TypedParts
<1> QED BY <1>2, <1>9 DEF b, e1, b1, s1
-----------------------------------------------------------------------------
(* The invariant and its parts *)

LEMMA GoodState == ASSUME IInv PROVE Good(Controller)
<1>1. Controller \in Ctl
  BY DEF IInv, TypeOK, Controller, Ctl, BankState
<1>2. TypedParts(entry, bank, scheduled)
  BY DEF IInv, TypeOK, TypedParts, BankState
<1>3. AtBank(entry, bank, write_mode) /\ HasRequest(entry, bank)
  BY DEF IInv, BanksMatchRequests, AtBank, HasRequest, Controller, Active, Mode
<1>4. BanksCounted(bank, scheduled)
  BY DEF IInv, CountersExact, BanksCounted, BanksOf
<1> QED BY <1>1, <1>2, <1>3, <1>4 DEF Good, Parts, Controller

LEMMA GoodNext ==
    ASSUME Parts(entry', bank', scheduled', write_mode'), SlotsCounted(entry', occupancy')
    PROVE  BanksMatchRequests' /\ CountersExact'
<1>1. BanksMatchRequests'
  BY DEF Parts, BanksMatchRequests, AtBank, HasRequest, Controller, Active, Mode
<1>2. CountersExact'
  BY DEF Parts, CountersExact, BanksCounted, SlotsCounted, BanksOf, UsedSlots, Used
<1> QED BY <1>1, <1>2

(* A queue whose occupancy is below its size has a free slot. *)
LEMMA RoomInQueue ==
    ASSUME IInv, NEW q \in Queue, ~ Full(q)
    PROVE  check_dram_queue(q, NoAddr) # {}
<1> SUFFICES ASSUME check_dram_queue(q, NoAddr) = {} PROVE FALSE
  OBVIOUS
<1>1. UsedSlots(entry, q) = Slots(q)
  BY DEF UsedSlots, check_dram_queue
<1>2. Cardinality(Slots(q)) = Size(q)
  BY DramAssumption, FS_Interval DEF Slots, Size, Queue
<1>3. occupancy[q] = Cardinality(UsedSlots(entry, q))
  BY DEF IInv, CountersExact, UsedSlots, Used
<1> QED BY <1>1, <1>2, <1>3 DEF Full

(* Insert puts the request into one free slot; banks and counters follow. *)
LEMMA InsertKeeps ==
    ASSUME IInv, NEW q \in Queue, ~ Full(q), NEW a \in Addr, NEW f \in {"LLC", "DDRP"},
           Insert(q, a, f)
    PROVE  /\ \E i \in Slots(q) :
                /\ entry[i].address = NoAddr
                /\ entry' = [entry EXCEPT ![i] = [address |-> a, fill |-> f, scheduled |-> FALSE]]
           /\ entry' \in [Slot -> Request] /\ occupancy' \in [Queue -> Int]
           /\ Parts(entry', bank, scheduled, write_mode)
           /\ SlotsCounted(entry', occupancy')
<1> DEFINE free == check_dram_queue(q, NoAddr)
           i == Min(free)
           req == [address |-> a, fill |-> f, scheduled |-> FALSE]
<1>1. /\ free # {} /\ free \in SUBSET Slots(q)
      /\ entry' = [entry EXCEPT ![i] = req] /\ occupancy' = [occupancy EXCEPT ![q] = @ + 1]
  BY RoomInQueue DEF Insert, check_dram_queue
<1>2. i \in free
  BY <1>1, MinIsMember
<1>3. i \in Slots(q) /\ i \in Slot /\ entry[i].address = NoAddr
  BY <1>2, SlotFacts DEF check_dram_queue
<1>4. req \in Request /\ a # NoAddr /\ ~ req.scheduled /\ req.address = a
  BY DramAssumption DEF Request
<1> HIDE DEF i, free, req
<1>5. /\ entry \in [Slot -> Request] /\ occupancy \in [Queue -> Int]
      /\ TypedParts(entry, bank, scheduled)
      /\ AtBank(entry, bank, write_mode) /\ HasRequest(entry, bank)
      /\ BanksCounted(bank, scheduled)
  BY GoodState DEF Good, Parts, IInv, TypeOK, Controller
<1>6. /\ entry' \in [Slot -> Request] /\ occupancy' \in [Queue -> Int]
      /\ entry'[i] = req /\ \A j \in Slot : j # i => entry'[j] = entry[j]
  BY <1>1, <1>3, <1>4, <1>5
<1>7. AtBank(entry', bank, write_mode)
  BY <1>4, <1>5, <1>6 DEF AtBank
<1>8. HasRequest(entry', bank)
  <2>1. ~ entry[i].scheduled
    BY <1>3, <1>5 DEF AtBank
  <2> QED BY <1>5, <1>6, <2>1 DEF HasRequest
<1>9. SlotsCounted(entry', occupancy')
  <2> SUFFICES ASSUME NEW u \in Queue
               PROVE  occupancy'[u] = Cardinality(UsedSlots(entry', u))
    BY DEF SlotsCounted
  <2>1. occupancy[u] = Cardinality(UsedSlots(entry, u))
    BY DEF IInv, CountersExact, UsedSlots, Used
  <2>2. CASE u = q
    <3>1. UsedSlots(entry', u) = UsedSlots(entry, u) \cup {i} /\ i \notin UsedSlots(entry, u)
      BY <1>3, <1>4, <1>6, <2>2, SlotFacts DEF UsedSlots
    <3>2. Cardinality(UsedSlots(entry', u)) = Cardinality(UsedSlots(entry, u)) + 1
      BY <3>1, UsedFinite, FS_AddElement
    <3> QED BY <1>1, <1>5, <2>1, <2>2, <3>2
  <2>3. CASE u # q
    <3>1. UsedSlots(entry', u) = UsedSlots(entry, u)
      BY <1>3, <1>6, <2>3, SlotFacts DEF UsedSlots
    <3> QED BY <1>1, <1>5, <2>1, <2>3, <3>1
  <2> QED BY <2>2, <2>3
<1>10. Parts(entry', bank, scheduled, write_mode)
  BY <1>5, <1>6, <1>7, <1>8 DEF Parts, TypedParts
<1> QED BY <1>1, <1>3, <1>6, <1>9, <1>10 DEF req

(* The buffer keeps its associativity. *)
LEMMA BufferTyped ==
    ASSUME NEW buf \in [BufferSet -> Seq(Addr)], NEW a \in Addr,
           \A s \in BufferSet : Len(buf[s]) <= ddrp_buffer_assoc
    PROVE  /\ insert_ddrp_buffer(buf, a) \in [BufferSet -> Seq(Addr)]
           /\ \A s \in BufferSet : Len(insert_ddrp_buffer(buf, a)[s]) <= ddrp_buffer_assoc
<1> DEFINE s == BufferSetOf[a]
           k == CHOOSE n \in DOMAIN buf[s] : buf[s][n] = a
           rest == IF a \in ToSet(buf[s]) THEN RemoveAt(buf[s], k)
                   ELSE IF Len(buf[s]) >= ddrp_buffer_assoc THEN Tail(buf[s])
                   ELSE buf[s]
<1>1. s \in BufferSet /\ buf[s] \in Seq(Addr) /\ ddrp_buffer_assoc \in Nat \ {0}
  BY DramAssumption
<1>2. rest \in Seq(Addr) /\ Len(rest) < ddrp_buffer_assoc
  <2>1. CASE a \in ToSet(buf[s])
    <3>1. k \in 1 .. Len(buf[s])
      BY <1>1, <2>1 DEF ToSet
    <3> HIDE DEF k, s
    <3>2. /\ SubSeq(buf[s], 1, k - 1) \in Seq(Addr) /\ Len(SubSeq(buf[s], 1, k - 1)) = k - 1
          /\ SubSeq(buf[s], k + 1, Len(buf[s])) \in Seq(Addr)
          /\ Len(SubSeq(buf[s], k + 1, Len(buf[s]))) = Len(buf[s]) - k
      BY <1>1, <3>1
    <3> DEFINE left == SubSeq(buf[s], 1, k - 1)
               right == SubSeq(buf[s], k + 1, Len(buf[s]))
    <3>3. RemoveAt(buf[s], k) = left \o right
      BY DEF RemoveAt
    <3>4. Len(buf[s]) \in Nat /\ Len(buf[s]) <= ddrp_buffer_assoc
      BY <1>1
    <3> HIDE DEF left, right
    <3>5. left \o right \in Seq(Addr) /\ Len(left \o right) = Len(left) + Len(right)
      BY <3>2 DEF left, right
    <3>6. Len(left) = k - 1 /\ Len(right) = Len(buf[s]) - k
      BY <3>2 DEF left, right
    <3>7. rest = left \o right
      BY <2>1, <3>3
    <3> HIDE DEF rest
    <3> QED BY <1>1, <3>1, <3>4, <3>5, <3>6, <3>7
  <2>2. CASE a \notin ToSet(buf[s])
    BY <1>1, <2>2
  <2> QED BY <2>1, <2>2
<1>3. insert_ddrp_buffer(buf, a) = [buf EXCEPT ![s] = Append(rest, a)]
  BY DEF insert_ddrp_buffer
<1> HIDE DEF s, rest
<1>4. Append(rest, a) \in Seq(Addr) /\ Len(Append(rest, a)) <= ddrp_buffer_assoc
  BY <1>1, <1>2
<1> QED BY <1>1, <1>3, <1>4
-----------------------------------------------------------------------------
(* The actions of the LLC and the core *)

(* The step adds one slot for line a to queue q and changes no other. *)
LineAdded(q, a, f) ==
    /\ \A u \in Queue : \A j, k \in Used(u)' : entry'[j].address = entry'[k].address => j = k
    /\ Lines(q)' = Lines(q) \cup {a}
    /\ \A u \in Queue \ {q} : Lines(u)' = Lines(u)
    /\ \A c \in Addr :
           (\E j \in Slots("RQ") : entry'[j].address = c /\ entry'[j].fill = "LLC")
           <=> \/ q = "RQ" /\ f = "LLC" /\ c = a
               \/ \E j \in Slots("RQ") : entry[j].address = c /\ entry[j].fill = "LLC"

LEMMA InsertLines ==
    ASSUME IInv, NEW q \in Queue, NEW a \in Addr, NEW f \in {"LLC", "DDRP"},
           check_dram_queue(q, a) = {}, NEW i \in Slots(q), entry[i].address = NoAddr,
           entry' = [entry EXCEPT ![i] = [address |-> a, fill |-> f, scheduled |-> FALSE]]
    PROVE  LineAdded(q, a, f)
<1>1. /\ entry \in [Slot -> Request] /\ i \in Slot /\ a # NoAddr
      /\ entry'[i] = [address |-> a, fill |-> f, scheduled |-> FALSE]
      /\ \A j \in Slot : j # i => entry'[j] = entry[j]
  BY SlotFacts, DramAssumption DEF IInv, TypeOK
<1>2. entry'[i].address = a /\ entry'[i].fill = f
  BY <1>1
<1>3. \A u \in Queue \ {q} : i \notin Slots(u)
  BY SlotFacts
<1>4. \A u \in Queue : \A j \in Slots(u) : j \in Slot
  BY SlotFacts
<1>5. \A u \in Queue \ {q} : Used(u)' = Used(u)
  BY <1>1, <1>3, <1>4 DEF Used
<1>6. Used(q)' = Used(q) \cup {i} /\ i \notin Used(q)
  BY <1>1, <1>2, <1>4 DEF Used
<1>7. \A u \in Queue : \A j, k \in Used(u)' : entry'[j].address = entry'[k].address => j = k
  <2> SUFFICES ASSUME NEW u \in Queue, NEW j \in Used(u)', NEW k \in Used(u)',
                      entry'[j].address = entry'[k].address
               PROVE  j = k
    OBVIOUS
  <2>1. \A x \in Used(u) : x # i => entry'[x] = entry[x]
    BY <1>1, <1>4 DEF Used
  <2>2. \A x, y \in Used(u) : entry[x].address = entry[y].address => x = y
    BY DEF IInv, ReadsOwed
  <2>3. \A x \in Used(q) : entry[x].address # a
    BY DEF Used, check_dram_queue
  <2>4. CASE u = q
    BY <1>2, <1>6, <2>1, <2>2, <2>3, <2>4
  <2>5. CASE u # q
    BY <1>3, <1>5, <2>1, <2>2, <2>5 DEF Used
  <2> QED BY <2>4, <2>5
<1>8. Lines(q)' = Lines(q) \cup {a}
  <2>1. \A x \in Used(q) : entry'[x] = entry[x]
    BY <1>1, <1>4, <1>6 DEF Used
  <2> QED BY <1>2, <1>6, <2>1 DEF Lines
<1>9. \A u \in Queue \ {q} : Lines(u)' = Lines(u)
  BY <1>1, <1>3, <1>4, <1>5 DEF Lines, Used
<1>10. \A c \in Addr :
          (\E j \in Slots("RQ") : entry'[j].address = c /\ entry'[j].fill = "LLC")
          <=> \/ q = "RQ" /\ f = "LLC" /\ c = a
              \/ \E j \in Slots("RQ") : entry[j].address = c /\ entry[j].fill = "LLC"
  <2> SUFFICES ASSUME NEW c \in Addr
               PROVE  (\E j \in Slots("RQ") : entry'[j].address = c /\ entry'[j].fill = "LLC")
                      <=> \/ q = "RQ" /\ f = "LLC" /\ c = a
                          \/ \E j \in Slots("RQ") : entry[j].address = c /\ entry[j].fill = "LLC"
    OBVIOUS
  <2>0. "RQ" \in Queue /\ c # NoAddr
    BY DramAssumption DEF Queue
  <2>1. CASE q = "RQ"
    BY <1>1, <1>2, <1>4, <2>0, <2>1
  <2>2. CASE q # "RQ"
    BY <1>1, <1>3, <1>4, <2>0, <2>2
  <2> QED BY <2>1, <2>2
<1> QED BY <1>7, <1>8, <1>9, <1>10 DEF LineAdded

(* A step that leaves the controller's own state alone keeps its part of *)
(* the invariant.                                                         *)
LEMMA SameController ==
    ASSUME IInv, UNCHANGED <<entry, occupancy, bank, scheduled, write_mode>>
    PROVE  /\ BanksMatchRequests' /\ CountersExact'
           /\ Lines("WQ")' = Lines("WQ") /\ Lines("RQ")' = Lines("RQ")
           /\ OnlyDdrpIsDdrp'
<1>1. BanksMatchRequests'
  BY DEF IInv, BanksMatchRequests, Controller, Active
<1>2. CountersExact'
  <2>1. \A q \in Queue : Used(q)' = Used(q)
    BY DEF Used
  <2>2. \A q \in Queue : /\ scheduled'[q] = Cardinality({b \in Bank : bank'[b].use = q})
                         /\ occupancy'[q] = Cardinality(Used(q))
    BY DEF IInv, CountersExact
  <2> QED BY <2>1, <2>2 DEF CountersExact
<1>3. Lines("WQ")' = Lines("WQ") /\ Lines("RQ")' = Lines("RQ")
  BY DEF Lines, Used
<1>4. OnlyDdrpIsDdrp'
  BY DEF IInv, OnlyDdrpIsDdrp
<1> QED BY <1>1, <1>2, <1>3, <1>4

LEMMA LlcFillKeeps == ASSUME IInv, NEW a \in Addr, LlcFill(a) PROVE IInv'
<1>1. UNCHANGED <<entry, occupancy, bank, scheduled, write_mode>>
  BY DEF LlcFill
<1>2. TypeOK'
  BY DEF IInv, TypeOK, LlcFill
<1>3. ReadsOwed'
  BY DEF IInv, ReadsOwed, TypeOK, LlcFill, Used
<1>4. NoAssertionFails' /\ WritebackKept'
  BY <1>1, SameController DEF IInv, NoAssertionFails, WritebackKept, LlcFill
<1> QED BY <1>1, <1>2, <1>3, <1>4, SameController DEF IInv

LEMMA IdleKeeps == ASSUME IInv, WarmupComplete \/ UNCHANGED vars PROVE IInv'
<1>1. UNCHANGED <<entry, occupancy, bank, scheduled, write_mode, mshr, wb, failed, ddrp_buffer>>
  BY DEF WarmupComplete, vars
<1>2. TypeOK'
  BY <1>1 DEF IInv, TypeOK, WarmupComplete, vars
<1>3. ReadsOwed'
  BY <1>1 DEF IInv, ReadsOwed, Used
<1>4. NoAssertionFails' /\ WritebackKept'
  BY <1>1, SameController DEF IInv, NoAssertionFails, WritebackKept
<1> QED BY <1>1, <1>2, <1>3, <1>4, SameController DEF IInv
(* A new request in queue q, whoever sent it. *)
LEMMA NewRequest ==
    ASSUME IInv, NEW q \in Queue, ~ Full(q), NEW a \in Addr, NEW f \in {"LLC", "DDRP"},
           check_dram_queue(q, a) = {}, Insert(q, a, f),
           UNCHANGED <<bank, scheduled, write_mode>>,
           f = "DDRP" => enable_ddrp
    PROVE  /\ entry' \in [Slot -> Request] /\ occupancy' \in [Queue -> Int]
           /\ BanksMatchRequests' /\ CountersExact' /\ OnlyDdrpIsDdrp'
           /\ LineAdded(q, a, f)
<1>1. PICK i \in Slots(q) :
          /\ entry[i].address = NoAddr
          /\ entry' = [entry EXCEPT ![i] = [address |-> a, fill |-> f, scheduled |-> FALSE]]
  BY InsertKeeps
<1>2. /\ entry' \in [Slot -> Request] /\ occupancy' \in [Queue -> Int]
      /\ Parts(entry', bank, scheduled, write_mode) /\ SlotsCounted(entry', occupancy')
  BY InsertKeeps
<1>3. BanksMatchRequests' /\ CountersExact'
  BY <1>2, GoodNext
<1>4. OnlyDdrpIsDdrp'
  BY <1>1, SlotFacts DEF IInv, OnlyDdrpIsDdrp, TypeOK
<1>5. LineAdded(q, a, f)
  BY <1>1, InsertLines
<1> QED BY <1>2, <1>3, <1>4, <1>5

LEMMA DdrpRequestKeeps == ASSUME IInv, NEW a \in Addr, DdrpRequest(a) PROVE IInv'
<1>1. /\ ~ Full("RQ") /\ enable_ddrp /\ "RQ" \in Queue /\ "WQ" \in Queue \ {"RQ"}
      /\ UNCHANGED <<bank, scheduled, write_mode, ddrp_buffer, warm, mshr, wb, failed>>
  BY DEF DdrpRequest, Queue
<1>2. CASE UNCHANGED <<entry, occupancy>>
  BY <1>1, <1>2, IdleKeeps DEF vars
<1>3. CASE check_dram_queue("RQ", a) = {} /\ Insert("RQ", a, "DDRP")
  <2>1. /\ entry' \in [Slot -> Request] /\ occupancy' \in [Queue -> Int]
        /\ BanksMatchRequests' /\ CountersExact' /\ OnlyDdrpIsDdrp'
        /\ \A u \in Queue : \A j, k \in Used(u)' :
               entry'[j].address = entry'[k].address => j = k
        /\ Lines("WQ")' = Lines("WQ")
        /\ \A c \in Addr :
               (\E j \in Slots("RQ") : entry'[j].address = c /\ entry'[j].fill = "LLC")
               <=> \E j \in Slots("RQ") : entry[j].address = c /\ entry[j].fill = "LLC"
    BY <1>1, <1>3, NewRequest DEF LineAdded
  <2>2. TypeOK'
    BY <1>1, <2>1 DEF IInv, TypeOK
  <2>3. ReadsOwed'
    BY <1>1, <2>1 DEF IInv, ReadsOwed
  <2>4. NoAssertionFails' /\ WritebackKept'
    BY <1>1, <2>1 DEF IInv, NoAssertionFails, WritebackKept
  <2> QED BY <2>1, <2>2, <2>3, <2>4 DEF IInv
<1> QED BY <1>2, <1>3 DEF DdrpRequest, add_rq_ddrp

LEMMA LlcWritebackKeeps == ASSUME IInv, NEW a \in Addr, LlcWriteback(a) PROVE IInv'
<1>1. /\ ~ Full("WQ") /\ "WQ" \in Queue /\ "RQ" \in Queue
      /\ UNCHANGED <<bank, scheduled, write_mode, ddrp_buffer, warm, mshr, failed>>
      /\ wb' = IF warm THEN wb \cup {a} ELSE wb
  BY DEF LlcWriteback, Queue
<1>2. wb \subseteq Addr /\ wb = Lines("WQ")
  BY DEF IInv, TypeOK, WritebackKept
<1>3. CASE UNCHANGED <<entry, occupancy>> /\ (~ warm \/ check_dram_queue("WQ", a) # {})
  <2>1. a \in Lines("WQ") \/ ~ warm
    BY <1>3, DramAssumption DEF check_dram_queue, Lines, Used
  <2>2. wb' = wb
    BY <1>1, <1>2, <2>1
  <2> QED BY <1>1, <1>3, <2>2, IdleKeeps DEF vars
<1>4. CASE warm /\ check_dram_queue("WQ", a) = {} /\ Insert("WQ", a, "LLC")
  <2>1. /\ entry' \in [Slot -> Request] /\ occupancy' \in [Queue -> Int]
        /\ BanksMatchRequests' /\ CountersExact' /\ OnlyDdrpIsDdrp'
        /\ \A u \in Queue : \A j, k \in Used(u)' :
               entry'[j].address = entry'[k].address => j = k
        /\ Lines("WQ")' = Lines("WQ") \cup {a}
        /\ \A c \in Addr :
               (\E j \in Slots("RQ") : entry'[j].address = c /\ entry'[j].fill = "LLC")
               <=> \E j \in Slots("RQ") : entry[j].address = c /\ entry[j].fill = "LLC"
    BY <1>1, <1>4, NewRequest DEF LineAdded
  <2>2. TypeOK'
    BY <1>1, <1>2, <2>1 DEF IInv, TypeOK
  <2>3. ReadsOwed'
    BY <1>1, <2>1 DEF IInv, ReadsOwed
  <2>4. NoAssertionFails' /\ WritebackKept'
    BY <1>1, <1>2, <1>4, <2>1 DEF IInv, NoAssertionFails, WritebackKept
  <2> QED BY <2>1, <2>2, <2>3, <2>4 DEF IInv
<1> QED BY <1>3, <1>4 DEF LlcWriteback, add_wq

LEMMA LlcMissKeeps == ASSUME IInv, NEW a \in Addr, LlcMiss(a) PROVE IInv'
<1> DEFINE m == [mshr EXCEPT ![a] = "INFLIGHT"]
           same == check_dram_queue("RQ", a)
<1>1. /\ ~ Full("RQ") /\ "RQ" \in Queue /\ "WQ" \in Queue \ {"RQ"} /\ mshr[a] = "FREE"
      /\ UNCHANGED <<bank, scheduled, write_mode, ddrp_buffer, warm, wb>>
      /\ add_rq_miss(m, a)
  BY DEF LlcMiss, Queue
<1>2. mshr \in [Addr -> {"FREE", "INFLIGHT", "COMPLETED"}]
  BY DEF IInv, TypeOK
<1>3. \A i \in Slots("RQ") : ~ (entry[i].address = a /\ entry[i].fill = "LLC")
  BY <1>1 DEF IInv, ReadsOwed
<1>4. CASE ~ warm \/ check_dram_queue("WQ", a) # {} \/ lookup_ddrp_buffer(a)
  <2>1. /\ UNCHANGED <<entry, occupancy>> /\ failed' = failed
        /\ mshr' = [mshr EXCEPT ![a] = "COMPLETED"]
    BY <1>1, <1>2, <1>4 DEF add_rq_miss, return_data, LostReturn
  <2>2. TypeOK'
    BY <1>1, <2>1 DEF IInv, TypeOK
  <2>3. ReadsOwed'
    BY <1>1, <1>2, <1>3, <2>1 DEF IInv, ReadsOwed, Used
  <2>4. NoAssertionFails' /\ WritebackKept'
    BY <1>1, <2>1, SameController DEF IInv, NoAssertionFails, WritebackKept
  <2> QED BY <1>1, <2>1, <2>2, <2>3, <2>4, SameController DEF IInv
<1>5. CASE /\ ~ (~ warm \/ check_dram_queue("WQ", a) # {} \/ lookup_ddrp_buffer(a))
           /\ same = {}
  <2>1. Insert("RQ", a, "LLC") /\ mshr' = m /\ failed' = failed
    BY <1>1, <1>5 DEF add_rq_miss
  <2>2. /\ entry' \in [Slot -> Request] /\ occupancy' \in [Queue -> Int]
        /\ BanksMatchRequests' /\ CountersExact' /\ OnlyDdrpIsDdrp'
        /\ \A u \in Queue : \A j, k \in Used(u)' :
               entry'[j].address = entry'[k].address => j = k
        /\ Lines("WQ")' = Lines("WQ")
        /\ \A c \in Addr :
               (\E j \in Slots("RQ") : entry'[j].address = c /\ entry'[j].fill = "LLC")
               <=> \/ c = a
                   \/ \E j \in Slots("RQ") : entry[j].address = c /\ entry[j].fill = "LLC"
    BY <1>1, <1>5, <2>1, NewRequest DEF LineAdded
  <2>3. TypeOK'
    BY <1>1, <1>2, <2>1, <2>2 DEF IInv, TypeOK
  <2>4. ReadsOwed'
    BY <1>1, <1>2, <2>1, <2>2 DEF IInv, ReadsOwed
  <2>5. NoAssertionFails' /\ WritebackKept'
    BY <1>1, <2>1, <2>2 DEF IInv, NoAssertionFails, WritebackKept
  <2> QED BY <2>2, <2>3, <2>4, <2>5 DEF IInv
<1>6. CASE /\ ~ (~ warm \/ check_dram_queue("WQ", a) # {} \/ lookup_ddrp_buffer(a))
           /\ same # {}
  <2> DEFINE i == Min(same)
  <2>1. i \in same
    BY <1>1, <1>6, MinIsMember DEF check_dram_queue
  <2>2. i \in Slots("RQ") /\ entry[i].address = a
    BY <2>1 DEF check_dram_queue
  <2>3. /\ failed' = failed
              \cup (IF enable_ddrp THEN {} ELSE {"merge without DDRP"})
              \cup (IF entry[i].fill = "LLC" THEN {"two LLC misses"} ELSE {})
        /\ entry' = [entry EXCEPT ![i].fill = "LLC"] /\ mshr' = m
        /\ UNCHANGED occupancy
    BY <1>1, <1>6 DEF add_rq_miss
  <2> HIDE DEF i
  <2>4. i \in Slot /\ entry \in [Slot -> Request] /\ entry[i].fill = "DDRP" /\ enable_ddrp
    <3>1. i \in Slot
      BY <1>1, <2>2, SlotFacts
    <3>2. entry \in [Slot -> Request]
      BY DEF IInv, TypeOK
    <3>3. entry[i].fill = "DDRP"
      BY <1>3, <2>2, <3>1, <3>2 DEF Request
    <3> QED BY <3>1, <3>2, <3>3 DEF IInv, OnlyDdrpIsDdrp
  <2>5. /\ entry' \in [Slot -> Request] /\ entry'[i].fill = "LLC"
        /\ \A j \in Slot : j # i => entry'[j] = entry[j]
        /\ \A j \in Slot : /\ entry'[j].address = entry[j].address
                           /\ entry'[j].scheduled = entry[j].scheduled
    BY <2>3, <2>4 DEF Request
  <2>6. \A q \in Queue : UsedSlots(entry', q) = UsedSlots(entry, q)
    BY <2>5, SlotFacts DEF UsedSlots
  <2>7. Parts(entry', bank', scheduled', write_mode')
    <3>1. Parts(entry, bank, scheduled, write_mode)
      BY GoodState DEF Good, Controller
    <3>2. AtBank(entry', bank, write_mode)
      BY <2>5, <3>1 DEF Parts, AtBank
    <3>3. HasRequest(entry', bank)
      BY <2>5, <3>1 DEF Parts, HasRequest
    <3> QED BY <1>1, <2>5, <3>1, <3>2, <3>3 DEF Parts, TypedParts
  <2>8. SlotsCounted(entry', occupancy')
    BY <2>3, <2>6 DEF IInv, CountersExact, SlotsCounted, UsedSlots, Used
  <2>9. BanksMatchRequests' /\ CountersExact'
    BY <2>7, <2>8, GoodNext
  <2>10. TypeOK'
    BY <1>1, <1>2, <2>3, <2>5 DEF IInv, TypeOK
  <2>11. ReadsOwed'
    <3>1. \A q \in Queue : \A j, k \in Used(q)' : entry'[j].address = entry'[k].address => j = k
      BY <2>5, SlotFacts DEF IInv, ReadsOwed, Used
    <3>2. \A c \in Addr : mshr'[c] = "INFLIGHT" <=>
             \E j \in Slots("RQ") : entry'[j].address = c /\ entry'[j].fill = "LLC"
      <4> SUFFICES ASSUME NEW c \in Addr
                   PROVE  mshr'[c] = "INFLIGHT" <=>
                     \E j \in Slots("RQ") : entry'[j].address = c /\ entry'[j].fill = "LLC"
        OBVIOUS
      <4>1. CASE c = a
        BY <1>2, <2>2, <2>3, <2>4, <2>5, <4>1
      <4>2. CASE c # a
        <5>1. mshr'[c] = mshr[c]
          BY <1>2, <2>3, <4>2
        <5>2. \A j \in Slots("RQ") : entry[j].address = c =>
                  entry'[j].address = c /\ entry'[j].fill = entry[j].fill
          BY <1>1, <2>2, <2>5, <4>2, SlotFacts
        <5>3. \A j \in Slots("RQ") : entry'[j].address = c => entry[j].address = c
          BY <1>1, <2>5, SlotFacts
        <5> QED BY <5>1, <5>2, <5>3 DEF IInv, ReadsOwed
      <4> QED BY <4>1, <4>2
    <3> QED BY <3>1, <3>2 DEF ReadsOwed
  <2>12. NoAssertionFails' /\ OnlyDdrpIsDdrp'
    BY <2>3, <2>4 DEF IInv, NoAssertionFails, OnlyDdrpIsDdrp
  <2>13. WritebackKept'
    BY <1>1, <2>5, SlotFacts DEF IInv, WritebackKept, Lines, Used
  <2> QED BY <2>9, <2>10, <2>11, <2>12, <2>13 DEF IInv
<1> QED BY <1>4, <1>5, <1>6
-----------------------------------------------------------------------------
(* operate *)

(* What the mode switch and schedule hand to process. *)
LEMMA OperateStages ==
    ASSUME IInv, NEW keep \in SUBSET Bank, NEW due \in BOOLEAN,
           NEW d1, d1 = SwitchMode(Controller, keep),
           NEW d2 \in schedule(d1, Active(d1), due)
    PROVE  /\ Good(d2) /\ SameRequests(entry, d2.entry)
           /\ Active(d1) = Mode(d2.write_mode)
           /\ LeftScheduled(Controller, d2) = {}
<1>1. Good(Controller)
  BY GoodState
<1>2. /\ Good(d1) /\ SameRequests(Controller.entry, d1.entry)
      /\ ToWrites(Controller) => d1.write_mode
      /\ ToReads(Controller) => ~ d1.write_mode
  BY <1>1, SwitchKeeps
<1>3. Active(d1) = Mode(d1.write_mode) /\ Controller.entry = entry
  BY DEF Active, Mode, Controller
<1>4. Good(d2) /\ SameRequests(d1.entry, d2.entry) /\ d2.write_mode = d1.write_mode
  <2>1. CASE d2 = d1
    BY <1>2, <2>1 DEF SameRequests
  <2>2. CASE \E i \in Ready(d1, Active(d1)) : d2 = ScheduleSlot(d1, Active(d1), i)
    BY <1>2, <1>3, <2>2, ScheduleKeeps
  <2> QED BY <2>1, <2>2 DEF schedule
<1>5. SameRequests(entry, d2.entry)
  BY <1>2, <1>3, <1>4 DEF SameRequests
<1>6. \A u \in Queue : u # Mode(d2.write_mode) => d2.scheduled[u] = 0
  <2> SUFFICES ASSUME NEW u \in Queue, u # Mode(d2.write_mode)
               PROVE  d2.scheduled[u] = 0
    OBVIOUS
  <2>1. AtBank(d2.entry, d2.bank, d2.write_mode) /\ HasRequest(d2.entry, d2.bank)
    BY <1>4 DEF Good, Parts
  <2>2. BanksOf(d2.bank, u) = {}
    BY <2>1 DEF BanksOf, AtBank, HasRequest, Queue
  <2>3. d2.scheduled[u] = Cardinality(BanksOf(d2.bank, u))
    BY <1>4 DEF Good, Parts, BanksCounted
  <2> QED BY <2>2, <2>3, FS_EmptySet
<1>7. LeftScheduled(Controller, d2) = {}
  BY <1>2, <1>4, <1>6 DEF LeftScheduled, Mode, Queue
<1> QED BY <1>3, <1>4, <1>5, <1>7

(* operate may leave process with nothing due. *)
LEMMA NoProcessKeeps ==
    ASSUME IInv, NEW d, Good(d), SameRequests(entry, d.entry),
           LeftScheduled(Controller, d) = {}, write_mode' = d.write_mode,
           NoProcess(d), UNCHANGED warm
    PROVE  IInv'
<1>1. /\ entry' = d.entry /\ bank' = d.bank /\ scheduled' = d.scheduled /\ failed' = failed
      /\ UNCHANGED <<occupancy, mshr, ddrp_buffer, wb, warm>>
  BY DEF NoProcess
<1>2. \A i \in Slot : entry'[i].address = entry[i].address /\ entry'[i].fill = entry[i].fill
  BY <1>1 DEF SameRequests
<1>3. \A q \in Queue : UsedSlots(entry', q) = UsedSlots(entry, q)
  BY <1>2, SlotFacts DEF UsedSlots
<1>4. SlotsCounted(entry', occupancy')
  BY <1>1, <1>3 DEF IInv, CountersExact, SlotsCounted, UsedSlots, Used
<1>5. Parts(entry', bank', scheduled', write_mode') /\ d \in Ctl
  BY <1>1 DEF Good
<1>6. BanksMatchRequests' /\ CountersExact'
  BY <1>4, <1>5, GoodNext
<1>7. TypeOK'
  BY <1>1, <1>5 DEF IInv, TypeOK, Ctl, BankState
<1>8. ReadsOwed'
  <2>1. \A q \in Queue : \A j, k \in Used(q)' : entry'[j].address = entry'[k].address => j = k
    BY <1>2, SlotFacts DEF IInv, ReadsOwed, Used
  <2>2. \A c \in Addr : mshr'[c] = "INFLIGHT" <=>
           \E j \in Slots("RQ") : entry'[j].address = c /\ entry'[j].fill = "LLC"
    BY <1>1, <1>2, SlotFacts DEF IInv, ReadsOwed, Queue
  <2> QED BY <2>1, <2>2 DEF ReadsOwed
<1>9. NoAssertionFails' /\ OnlyDdrpIsDdrp'
  BY <1>1, <1>2 DEF IInv, NoAssertionFails, OnlyDdrpIsDdrp
<1>10. WritebackKept'
  BY <1>1, <1>2, SlotFacts DEF IInv, WritebackKept, Lines, Used, Queue
<1> QED BY <1>6, <1>7, <1>8, <1>9, <1>10 DEF IInv

(* process completes one scheduled request of the queue of the mode. *)
LEMMA ProcessKeepsInvariant ==
    ASSUME IInv, NEW d, Good(d), SameRequests(entry, d.entry),
           LeftScheduled(Controller, d) = {}, write_mode' = d.write_mode,
           NEW q, q = Mode(d.write_mode), NEW i \in ScheduledSlots(d, q),
           process(d, q, i), UNCHANGED warm
    PROVE  IInv'
<1> DEFINE a == d.entry[i].address
           b == BankAt(d, i)
           forLlc == q = "RQ" /\ d.entry[i].fill = "LLC"
<1>1. q \in Queue /\ d \in Ctl
  BY DEF Mode, Queue, Good
<1>2. /\ Parts([d.entry EXCEPT ![i] = NoRequest],
               [d.bank EXCEPT ![b] = IdleBank(@.open_row)],
               [d.scheduled EXCEPT ![q] = @ - 1], d.write_mode)
      /\ d.bank[b].request_index = i
      /\ i \in Slots(q) /\ a \in Addr
  BY ProcessKeeps
<1>3. /\ entry' = [d.entry EXCEPT ![i] = NoRequest]
      /\ bank' = [d.bank EXCEPT ![b] = IdleBank(@.open_row)]
      /\ scheduled' = [d.scheduled EXCEPT ![q] = @ - 1]
      /\ occupancy' = [occupancy EXCEPT ![q] = @ - 1]
      /\ mshr' = IF forLlc THEN return_data(mshr, a) ELSE mshr
      /\ ddrp_buffer' = IF q = "RQ" /\ d.entry[i].fill = "DDRP" /\ enable_ddrp_buffer
                        THEN insert_ddrp_buffer(ddrp_buffer, a) ELSE ddrp_buffer
      /\ wb' = IF q = "WQ" THEN wb \ {a} ELSE wb
      /\ failed' = failed
              \cup (IF occupancy[q] = 0 THEN {"empty queue"} ELSE {})
              \cup (IF forLlc THEN LostReturn(mshr, a) ELSE {})
  BY <1>2 DEF process
<1>4. Parts(entry', bank', scheduled', write_mode')
  BY <1>2, <1>3
<1> HIDE DEF a, b, forLlc
<1>5. i \in Slot /\ i \in Slots(q) /\ a \in Addr /\ a # NoAddr
  BY <1>1, <1>2, SlotFacts, DramAssumption
<1>6. /\ entry[i].address = a /\ entry[i].fill = d.entry[i].fill
      /\ entry'[i].address = NoAddr /\ entry'[i].fill = "LLC"
      /\ \A j \in Slot : j # i => /\ entry'[j].address = entry[j].address
                                  /\ entry'[j].fill = entry[j].fill
  BY <1>1, <1>3, <1>5 DEF SameRequests, a, NoRequest, Ctl
<1>7. i \in UsedSlots(entry, q) /\ UsedSlots(entry', q) = UsedSlots(entry, q) \ {i}
  BY <1>1, <1>5, <1>6, SlotFacts DEF UsedSlots
<1>8. \A u \in Queue : u # q => UsedSlots(entry', u) = UsedSlots(entry, u)
  BY <1>1, <1>5, <1>6, SlotFacts DEF UsedSlots
<1>9. \A u \in Queue : occupancy[u] = Cardinality(UsedSlots(entry, u)) /\ occupancy[u] \in Int
  BY DEF IInv, CountersExact, TypeOK, UsedSlots, Used
<1>10. occupancy[q] # 0
  BY <1>1, <1>7, <1>9, UsedFinite, FS_EmptySet
<1>11. SlotsCounted(entry', occupancy') /\ occupancy' \in [Queue -> Int]
  <2>0. occupancy \in [Queue -> Int]
    BY DEF IInv, TypeOK
  <2>1. Cardinality(UsedSlots(entry', q)) = Cardinality(UsedSlots(entry, q)) - 1
    BY <1>1, <1>7, UsedFinite, FS_RemoveElement
  <2>2. \A u \in Queue : occupancy'[u] = IF u = q THEN occupancy[u] - 1 ELSE occupancy[u]
    BY <1>3, <2>0
  <2>3. occupancy' \in [Queue -> Int]
    <3>1. occupancy[q] - 1 \in Int
      BY <1>1, <1>9
    <3> QED BY <1>1, <1>3, <2>0, <3>1
  <2> QED BY <1>8, <1>9, <2>1, <2>2, <2>3 DEF SlotsCounted
<1>12. BanksMatchRequests' /\ CountersExact'
  BY <1>4, <1>11, GoodNext
<1>13. \A u \in Queue : \A j, k \in Used(u)' : entry'[j].address = entry'[k].address => j = k
  BY <1>5, <1>6, SlotFacts DEF IInv, ReadsOwed, Used
<1>14. forLlc => mshr[a] = "INFLIGHT"
  BY <1>5, <1>6 DEF IInv, ReadsOwed, forLlc
<1>15. mshr' = IF forLlc THEN [mshr EXCEPT ![a] = "COMPLETED"] ELSE mshr
  BY <1>3, <1>14 DEF return_data
<1>16. mshr \in [Addr -> {"FREE", "INFLIGHT", "COMPLETED"}]
  BY DEF IInv, TypeOK
<1>17. NoAssertionFails'
  BY <1>3, <1>10, <1>14 DEF IInv, NoAssertionFails, LostReturn
<1>18. ReadsOwed'
  <2> SUFFICES ASSUME NEW c \in Addr
               PROVE  mshr'[c] = "INFLIGHT" <=>
                 \E j \in Slots("RQ") : entry'[j].address = c /\ entry'[j].fill = "LLC"
    BY <1>13 DEF ReadsOwed
  <2>1. mshr[c] = "INFLIGHT" <=>
          \E j \in Slots("RQ") : entry[j].address = c /\ entry[j].fill = "LLC"
    BY DEF IInv, ReadsOwed
  <2>2. \A j \in Slots("RQ") : j \in Slot
    BY SlotFacts DEF Queue
  <2>3. CASE forLlc /\ c = a
    <3>1. \A j \in Slots("RQ") : j # i => entry[j].address # a
      <4> SUFFICES ASSUME NEW j \in Slots("RQ"), entry[j].address = a
                   PROVE  j = i
        OBVIOUS
      <4>1. q = "RQ" /\ i \in Used("RQ") /\ j \in Used("RQ")
        BY <1>5, <1>6, <2>3 DEF Used, forLlc
      <4> QED BY <1>1, <1>6, <4>1 DEF IInv, ReadsOwed
    <3> QED BY <1>5, <1>6, <1>15, <1>16, <2>2, <2>3, <3>1
  <2>4. CASE ~ (forLlc /\ c = a)
    <3>1. mshr'[c] = mshr[c]
      BY <1>15, <1>16, <2>4
    <3>2. ~ (i \in Slots("RQ") /\ entry[i].address = c /\ entry[i].fill = "LLC")
      BY <1>1, <1>5, <1>6, <2>4, SlotFacts DEF forLlc, Queue
    <3>3. entry'[i].address # c
      BY <1>6, DramAssumption
    <3> QED BY <1>6, <2>1, <2>2, <3>1, <3>2, <3>3
  <2> QED BY <2>3, <2>4
<1>19. WritebackKept' /\ wb' \subseteq Addr
  <2>1. wb = Lines("WQ") /\ wb \subseteq Addr
    BY DEF IInv, WritebackKept, TypeOK
  <2>2. CASE q = "WQ"
    <3>1. Used("WQ")' = Used("WQ") \ {i} /\ i \in Used("WQ")
      BY <1>7, <2>2 DEF UsedSlots, Used
    <3>2. \A j \in Used("WQ") : j # i => entry[j].address # a /\ entry'[j].address = entry[j].address
      BY <1>1, <1>6, <2>2, <3>1, SlotFacts DEF IInv, ReadsOwed, Used
    <3>3. Lines("WQ")' = Lines("WQ") \ {a}
      BY <1>6, <3>1, <3>2 DEF Lines
    <3> QED BY <1>3, <2>1, <2>2, <3>3 DEF WritebackKept
  <2>3. CASE q # "WQ"
    <3>1. Used("WQ")' = Used("WQ") /\ \A j \in Used("WQ") : entry'[j].address = entry[j].address
      BY <1>1, <1>5, <1>6, <1>8, <2>3, SlotFacts DEF UsedSlots, Used, Queue
    <3>2. Lines("WQ")' = Lines("WQ")
      BY <3>1 DEF Lines
    <3> QED BY <1>3, <2>1, <2>3, <3>2 DEF WritebackKept
  <2> QED BY <2>2, <2>3
<1>20. OnlyDdrpIsDdrp'
  BY <1>6 DEF IInv, OnlyDdrpIsDdrp
<1>21. TypeOK'
  <2>1. mshr' \in [Addr -> {"FREE", "INFLIGHT", "COMPLETED"}]
    BY <1>15, <1>16
  <2>2. /\ ddrp_buffer' \in [BufferSet -> Seq(Addr)]
        /\ \A s \in BufferSet : Len(ddrp_buffer'[s]) <= ddrp_buffer_assoc
    BY <1>3, <1>5, BufferTyped DEF IInv, TypeOK
  <2>3. /\ entry' \in [Slot -> Request] /\ bank' \in [Bank -> BankState]
        /\ scheduled' \in [Queue -> Int] /\ write_mode' \in BOOLEAN
    BY <1>1, <1>4 DEF Parts, TypedParts, Ctl
  <2> QED BY <1>11, <1>19, <2>1, <2>2, <2>3 DEF IInv, TypeOK, BankState
<1> QED BY <1>12, <1>17, <1>18, <1>19, <1>20, <1>21 DEF IInv

LEMMA OperateKeeps ==
    ASSUME IInv, NEW sdue \in BOOLEAN, NEW pdue \in BOOLEAN, Operate(sdue, pdue)
    PROVE  IInv'
<1>1. PICK keep \in SUBSET {b \in Bank : bank[b].working} :
          LET d1 == SwitchMode(Controller, keep)
              q == Active(d1)
          IN  \E d2 \in schedule(d1, q, sdue) :
                  /\ write_mode' = d2.write_mode
                  /\ IF pdue /\ ScheduledSlots(d2, q) # {}
                     THEN \E i \in ScheduledSlots(d2, q) : process(d2, q, i)
                     ELSE NoProcess(d2)
                  /\ UNCHANGED warm
  BY DEF Operate
<1> DEFINE d1 == SwitchMode(Controller, keep)
           q == Active(d1)
<1>2. PICK d2 \in schedule(d1, q, sdue) :
          /\ write_mode' = d2.write_mode
          /\ IF pdue /\ ScheduledSlots(d2, q) # {}
             THEN \E i \in ScheduledSlots(d2, q) : process(d2, q, i)
             ELSE NoProcess(d2)
          /\ UNCHANGED warm
  BY <1>1
<1>3. /\ Good(d2) /\ SameRequests(entry, d2.entry) /\ q = Mode(d2.write_mode)
      /\ LeftScheduled(Controller, d2) = {}
  <2>1. keep \in SUBSET Bank
    OBVIOUS
  <2> QED BY <2>1, OperateStages
<1> HIDE DEF d1, q
<1>4. CASE NoProcess(d2)
  BY <1>2, <1>3, <1>4, NoProcessKeeps
<1>5. CASE \E i \in ScheduledSlots(d2, q) : process(d2, q, i)
  BY <1>2, <1>3, <1>5, ProcessKeepsInvariant
<1> QED BY <1>2, <1>4, <1>5
-----------------------------------------------------------------------------
(* Theorems *)

(* The first state of the simulator satisfies every part of the invariant. *)
LEMMA InitIInv == Init => IInv
<1> SUFFICES ASSUME Init PROVE IInv
  OBVIOUS
<1>1. \A i \in Slot : /\ entry[i] = NoRequest /\ entry[i].address = NoAddr
                      /\ entry[i].fill = "LLC" /\ ~ entry[i].scheduled
  BY DEF Init, NoRequest
<1>2. \A b \in Bank : /\ bank[b] = IdleBank(NoRow) /\ ~ bank[b].working
                      /\ bank[b].use = "none"
  BY DEF Init, IdleBank
<1>3. \A q \in Queue : Used(q) = {} /\ {b \in Bank : bank[b].use = q} = {}
  BY <1>1, <1>2, SlotFacts DEF Used, Queue
<1>4. TypeOK
  <2>1. entry \in [Slot -> Request]
    BY DEF Init, NoRequest, Request
  <2>2. bank \in [Bank -> [working : BOOLEAN, open_row : Row \cup {NoRow},
                           request_index : Slot \cup {0}, use : Queue \cup {"none"}]]
    BY DEF Init, IdleBank
  <2>3. /\ ddrp_buffer \in [BufferSet -> Seq(Addr)]
        /\ \A s \in BufferSet : Len(ddrp_buffer[s]) <= ddrp_buffer_assoc
    BY DramAssumption DEF Init
  <2>4. occupancy \in [Queue -> Int] /\ scheduled \in [Queue -> Int]
    BY DEF Init
  <2>5. mshr \in [Addr -> {"FREE", "INFLIGHT", "COMPLETED"}] /\ wb \subseteq Addr
    BY DEF Init
  <2>6. write_mode \in BOOLEAN /\ warm \in BOOLEAN
    BY DEF Init
  <2> QED BY <2>1, <2>2, <2>3, <2>4, <2>5, <2>6 DEF TypeOK
<1>5. BanksMatchRequests
  BY <1>1, <1>2 DEF BanksMatchRequests
<1>6. CountersExact
  BY <1>3, FS_EmptySet DEF CountersExact, Init
<1>7. ReadsOwed
  <2>1. \A i \in Slots("RQ") : entry[i].address \notin Addr
    BY <1>1, SlotFacts, DramAssumption DEF Queue
  <2> QED BY <1>3, <2>1 DEF ReadsOwed, Init
<1>8. WritebackKept
  BY <1>3 DEF WritebackKept, Lines, Init, Queue
<1>9. NoAssertionFails /\ OnlyDdrpIsDdrp
  BY <1>1 DEF NoAssertionFails, OnlyDdrpIsDdrp, Init
<1> QED BY <1>4, <1>5, <1>6, <1>7, <1>8, <1>9 DEF IInv

(* Every step of the controller, the LLC and the core keeps the invariant. *)
LEMMA NextIInv == IInv /\ [Next]_vars => IInv'
<1> SUFFICES ASSUME IInv, [Next]_vars PROVE IInv'
  OBVIOUS
<1>1. ASSUME NEW a \in Addr, LlcMiss(a) PROVE IInv'
  BY <1>1, LlcMissKeeps
<1>2. ASSUME NEW a \in Addr, LlcFill(a) PROVE IInv'
  BY <1>2, LlcFillKeeps
<1>3. ASSUME NEW a \in Addr, LlcWriteback(a) PROVE IInv'
  BY <1>3, LlcWritebackKeeps
<1>4. ASSUME NEW a \in Addr, DdrpRequest(a) PROVE IInv'
  BY <1>4, DdrpRequestKeeps
<1>5. ASSUME NEW sdue \in BOOLEAN, NEW pdue \in BOOLEAN, Operate(sdue, pdue) PROVE IInv'
  BY <1>5, OperateKeeps
<1>6. CASE WarmupComplete \/ UNCHANGED vars
  BY <1>6, IdleKeeps
<1> QED BY <1>1, <1>2, <1>3, <1>4, <1>5, <1>6 DEF Next

LEMMA AlwaysIInv == Spec => []IInv
BY InitIInv, NextIInv, PTL DEF Spec

(* The state always has its types and the buffer its associativity. *)
THEOREM TypeCorrect == Spec => []TypeOK
<1>1. IInv => TypeOK BY DEF IInv
<1> QED BY <1>1, AlwaysIInv, PTL

(* No assertion of dram_controller.cc, nor the LLC's for an answer without *)
(* a miss, can fail, whatever the queue sizes, watermarks and banks.       *)
THEOREM AssertionsHold == Spec => []NoAssertionFails
<1>1. IInv => NoAssertionFails BY DEF IInv
<1> QED BY <1>1, AlwaysIInv, PTL

(* Banks and scheduled requests stay matched through every mode switch. *)
THEOREM BanksStayMatched == Spec => []BanksMatchRequests
<1>1. IInv => BanksMatchRequests BY DEF IInv
<1> QED BY <1>1, AlwaysIInv, PTL

(* scheduled_reads, scheduled_writes and the occupancies are exact. *)
THEOREM CountersStayExact == Spec => []CountersExact
<1>1. IInv => CountersExact BY DEF IInv
<1> QED BY <1>1, AlwaysIInv, PTL

(* Each outstanding LLC miss has exactly one slot that will answer it. *)
THEOREM EveryMissIsOwed == Spec => []ReadsOwed
<1>1. IInv => ReadsOwed BY DEF IInv
<1> QED BY <1>1, AlwaysIInv, PTL

(* An accepted writeback stays in the write queue until a bank takes it. *)
THEOREM WritesAreKept == Spec => []WritebackKept
<1>1. IInv => WritebackKept BY DEF IInv
<1> QED BY <1>1, AlwaysIInv, PTL
-----------------------------------------------------------------------------
(* The read queue and the DDRP buffer *)

(* A line in the buffer is there once, in its own set, and not being read; *)
(* with the buffer turned off there is none.                               *)
BufferInv ==
    \A s \in BufferSet :
        /\ \A i, j \in DOMAIN ddrp_buffer[s] : ddrp_buffer[s][i] = ddrp_buffer[s][j] => i = j
        /\ \A i \in DOMAIN ddrp_buffer[s] : /\ BufferSetOf[ddrp_buffer[s][i]] = s
                                            /\ ddrp_buffer[s][i] \notin Lines("RQ")
                                            /\ enable_ddrp_buffer

(* What a step may do to the lines being read and to those in the buffer:  *)
(* a read that enters has found its line neither in the write queue nor in *)
(* the buffer, and a line that enters the buffer has just been read.       *)
ReadsAndBuffer ==
    \/ ddrp_buffer' = ddrp_buffer /\ Lines("RQ")' \subseteq Lines("RQ")
    \/ /\ ddrp_buffer' = ddrp_buffer
       /\ \E a \in Addr : /\ Lines("RQ")' \subseteq Lines("RQ") \cup {a}
                          /\ check_dram_queue("WQ", a) = {} /\ ~ lookup_ddrp_buffer(a)
    \/ \E a \in Addr : /\ enable_ddrp_buffer
                       /\ ddrp_buffer' = insert_ddrp_buffer(ddrp_buffer, a)
                       /\ Lines("RQ")' \subseteq Lines("RQ") \ {a}

(* Slots whose addresses stay make lines that stay. *)
LEMMA SameLines ==
    ASSUME \A i \in Slot : entry'[i].address = entry[i].address
    PROVE  Lines("RQ")' = Lines("RQ")
  BY SlotFacts DEF Lines, Used, Queue

(* A miss of the LLC reads, takes a DDRP request over or is answered. *)
LEMMA MissReads == ASSUME IInv, NEW a \in Addr, LlcMiss(a) PROVE ReadsAndBuffer
<1> DEFINE m == [mshr EXCEPT ![a] = "INFLIGHT"]
           same == check_dram_queue("RQ", a)
<1>1. /\ ~ Full("RQ") /\ "RQ" \in Queue
      /\ UNCHANGED <<bank, scheduled, write_mode, ddrp_buffer, warm, wb>>
      /\ add_rq_miss(m, a)
  BY DEF LlcMiss, Queue
<1>2. CASE ~ warm \/ check_dram_queue("WQ", a) # {} \/ lookup_ddrp_buffer(a)
  <2>1. UNCHANGED entry
    BY <1>1, <1>2 DEF add_rq_miss
  <2> QED BY <1>1, <2>1, SameLines DEF ReadsAndBuffer
<1>3. CASE /\ ~ (~ warm \/ check_dram_queue("WQ", a) # {} \/ lookup_ddrp_buffer(a))
           /\ same = {}
  <2>1. Insert("RQ", a, "LLC")
    BY <1>1, <1>3 DEF add_rq_miss
  <2>2. Lines("RQ")' = Lines("RQ") \cup {a}
    BY <1>1, <1>3, <2>1, NewRequest DEF LineAdded
  <2> QED BY <1>1, <1>3, <2>2 DEF ReadsAndBuffer
<1>4. CASE /\ ~ (~ warm \/ check_dram_queue("WQ", a) # {} \/ lookup_ddrp_buffer(a))
           /\ same # {}
  <2>1. entry' = [entry EXCEPT ![Min(same)].fill = "LLC"]
    BY <1>1, <1>4 DEF add_rq_miss
  <2>2. \A i \in Slot : entry'[i].address = entry[i].address
    BY <2>1 DEF IInv, TypeOK, Request
  <2> QED BY <1>1, <2>2, SameLines DEF ReadsAndBuffer
<1> QED BY <1>2, <1>3, <1>4

(* A request of the predictor reads or is not needed. *)
LEMMA DdrpReads == ASSUME IInv, NEW a \in Addr, DdrpRequest(a) PROVE ReadsAndBuffer
<1>1. /\ ~ Full("RQ") /\ enable_ddrp /\ "RQ" \in Queue
      /\ UNCHANGED <<bank, scheduled, write_mode, ddrp_buffer, warm, mshr, wb, failed>>
  BY DEF DdrpRequest, Queue
<1>2. CASE UNCHANGED entry
  BY <1>1, <1>2, SameLines DEF ReadsAndBuffer
<1>3. CASE /\ check_dram_queue("WQ", a) = {} /\ ~ lookup_ddrp_buffer(a)
           /\ check_dram_queue("RQ", a) = {} /\ Insert("RQ", a, "DDRP")
  <2>1. Lines("RQ")' = Lines("RQ") \cup {a}
    BY <1>1, <1>3, NewRequest DEF LineAdded
  <2> QED BY <1>1, <1>3, <2>1 DEF ReadsAndBuffer
<1> QED BY <1>2, <1>3 DEF DdrpRequest, add_rq_ddrp

(* A writeback goes to the other queue. *)
LEMMA WritebackReads == ASSUME IInv, NEW a \in Addr, LlcWriteback(a) PROVE ReadsAndBuffer
<1>1. /\ ~ Full("WQ") /\ "WQ" \in Queue /\ "RQ" \in Queue \ {"WQ"}
      /\ UNCHANGED <<bank, scheduled, write_mode, ddrp_buffer, warm, mshr, failed>>
  BY DEF LlcWriteback, Queue
<1>2. CASE UNCHANGED entry
  BY <1>1, <1>2, SameLines DEF ReadsAndBuffer
<1>3. CASE check_dram_queue("WQ", a) = {} /\ Insert("WQ", a, "LLC")
  <2>1. Lines("RQ")' = Lines("RQ")
    BY <1>1, <1>3, NewRequest DEF LineAdded
  <2> QED BY <1>1, <2>1 DEF ReadsAndBuffer
<1> QED BY <1>2, <1>3 DEF LlcWriteback, add_wq

(* A line read for the predictor alone moves from the queue to the buffer. *)
LEMMA ProcessReads ==
    ASSUME IInv, NEW d, Good(d), SameRequests(entry, d.entry),
           NEW q, q = Mode(d.write_mode), NEW i \in ScheduledSlots(d, q),
           process(d, q, i)
    PROVE  ReadsAndBuffer
<1> DEFINE a == d.entry[i].address
           buffered == q = "RQ" /\ d.entry[i].fill = "DDRP" /\ enable_ddrp_buffer
<1>1. q \in Queue /\ d \in Ctl
  BY DEF Mode, Queue, Good
<1>2. i \in Slots(q) /\ a \in Addr
  BY ProcessKeeps
<1>3. /\ entry' = [d.entry EXCEPT ![i] = NoRequest]
      /\ ddrp_buffer' = IF buffered THEN insert_ddrp_buffer(ddrp_buffer, a) ELSE ddrp_buffer
  BY DEF process
<1> HIDE DEF a, buffered
<1>4. i \in Slot /\ a # NoAddr
  BY <1>1, <1>2, SlotFacts, DramAssumption
<1>5. /\ entry[i].address = a /\ entry'[i].address = NoAddr
      /\ \A j \in Slot : j # i => entry'[j].address = entry[j].address
  BY <1>1, <1>3, <1>4 DEF SameRequests, a, NoRequest, Ctl
<1>6. \A j \in Slots("RQ") : j \in Slot
  BY SlotFacts DEF Queue
<1>7. Lines("RQ")' \subseteq Lines("RQ")
  BY <1>5, <1>6 DEF Lines, Used
<1>8. CASE buffered
  <2>1. q = "RQ"
    BY <1>8 DEF buffered
  <2>2. i \in Used("RQ")
    BY <1>2, <1>4, <1>5, <2>1 DEF Used
  <2>3. \A j \in Used("RQ") : entry[j].address = a => j = i
    BY <1>1, <1>5, <2>1, <2>2 DEF IInv, ReadsOwed
  <2>4. \A j \in Slots("RQ") : entry'[j].address # NoAddr => j # i /\ j \in Used("RQ")
    BY <1>5, <1>6 DEF Used
  <2>5. a \notin Lines("RQ")'
    BY <1>5, <1>6, <2>3, <2>4 DEF Lines, Used
  <2>6. enable_ddrp_buffer /\ ddrp_buffer' = insert_ddrp_buffer(ddrp_buffer, a)
    BY <1>3, <1>8 DEF buffered
  <2> QED BY <1>2, <1>7, <2>5, <2>6 DEF ReadsAndBuffer
<1>9. CASE ~ buffered
  BY <1>3, <1>7, <1>9 DEF ReadsAndBuffer
<1> QED BY <1>8, <1>9

(* One call of operate *)
LEMMA OperateReads ==
    ASSUME IInv, NEW sdue \in BOOLEAN, NEW pdue \in BOOLEAN, Operate(sdue, pdue)
    PROVE  ReadsAndBuffer
<1>1. PICK keep \in SUBSET {b \in Bank : bank[b].working} :
          LET d1 == SwitchMode(Controller, keep)
              q == Active(d1)
          IN  \E d2 \in schedule(d1, q, sdue) :
                  /\ write_mode' = d2.write_mode
                  /\ IF pdue /\ ScheduledSlots(d2, q) # {}
                     THEN \E i \in ScheduledSlots(d2, q) : process(d2, q, i)
                     ELSE NoProcess(d2)
                  /\ UNCHANGED warm
  BY DEF Operate
<1> DEFINE d1 == SwitchMode(Controller, keep)
           q == Active(d1)
<1>2. PICK d2 \in schedule(d1, q, sdue) :
          IF pdue /\ ScheduledSlots(d2, q) # {}
          THEN \E i \in ScheduledSlots(d2, q) : process(d2, q, i)
          ELSE NoProcess(d2)
  BY <1>1
<1>3. Good(d2) /\ SameRequests(entry, d2.entry) /\ q = Mode(d2.write_mode)
  <2>1. keep \in SUBSET Bank
    OBVIOUS
  <2> QED BY <2>1, OperateStages
<1> HIDE DEF d1, q
<1>4. CASE NoProcess(d2)
  <2>1. entry' = d2.entry /\ ddrp_buffer' = ddrp_buffer
    BY <1>4 DEF NoProcess
  <2>2. \A i \in Slot : entry'[i].address = entry[i].address
    BY <1>3, <2>1 DEF SameRequests
  <2> QED BY <2>1, <2>2, SameLines DEF ReadsAndBuffer
<1>5. CASE \E i \in ScheduledSlots(d2, q) : process(d2, q, i)
  BY <1>3, <1>5, ProcessReads
<1> QED BY <1>2, <1>4, <1>5

(* Every step *)
LEMMA StepReads == ASSUME IInv, [Next]_vars PROVE ReadsAndBuffer
<1>1. ASSUME NEW a \in Addr, LlcFill(a) PROVE ReadsAndBuffer
  <2>1. entry' = entry /\ ddrp_buffer' = ddrp_buffer
    BY <1>1 DEF LlcFill
  <2> QED BY <2>1, SameLines DEF ReadsAndBuffer
<1>2. CASE WarmupComplete \/ UNCHANGED vars
  <2>1. entry' = entry /\ ddrp_buffer' = ddrp_buffer
    BY <1>2 DEF WarmupComplete, vars
  <2> QED BY <2>1, SameLines DEF ReadsAndBuffer
<1> QED BY <1>1, <1>2, MissReads, DdrpReads, WritebackReads, OperateReads DEF Next

(* No line is twice in a set of the buffer. *)
Once(b) == \A i, j \in DOMAIN b : b[i] = b[j] => i = j

(* What is left of a set when the line a is to come in *)
PartWithout(r, b, a) == /\ r \in Seq(Addr)
                        /\ Once(r)
                        /\ \A i \in DOMAIN r : r[i] # a /\ \E j \in DOMAIN b : b[j] = r[i]

(* A sequence whose items stand at different places of a set, the place of *)
(* the line not among them, is such a rest. *)
LEMMA ByPlaces ==
    ASSUME NEW b \in Seq(Addr), Once(b), NEW r \in Seq(Addr), NEW a,
           NEW n \in Nat, Len(r) = n,
           NEW g \in [1 .. n -> DOMAIN b],
           \A i, j \in 1 .. n : g[i] = g[j] => i = j,
           \A i \in 1 .. n : r[i] = b[g[i]] /\ r[i] # a
    PROVE  PartWithout(r, b, a)
<1>1. DOMAIN r = 1 .. n
  OBVIOUS
<1>2. \A i, j \in 1 .. n : r[i] = r[j] => i = j
  BY DEF Once
<1>3. \A i \in 1 .. n : \E j \in DOMAIN b : b[j] = r[i]
  OBVIOUS
<1> QED BY <1>1, <1>2, <1>3 DEF PartWithout, Once

(* Taking out the place of the line *)
LEMMA WithoutItsLine ==
    ASSUME NEW b \in Seq(Addr), Once(b), NEW a \in Addr, NEW k \in DOMAIN b, b[k] = a
    PROVE  PartWithout(RemoveAt(b, k), b, a)
<1>1. Len(b) \in Nat /\ DOMAIN b = 1 .. Len(b) /\ k \in 1 .. Len(b)
  OBVIOUS
<1> DEFINE n == Len(b) - 1
           left == SubSeq(b, 1, k - 1)
           right == SubSeq(b, k + 1, Len(b))
           g == [i \in 1 .. n |-> IF i < k THEN i ELSE i + 1]
<1>2. n \in Nat /\ k \in Nat
  BY <1>1
<1>3. /\ left \in Seq(Addr) /\ Len(left) = k - 1
      /\ \A i \in 1 .. k - 1 : left[i] = b[i]
  BY <1>1
<1>4. /\ right \in Seq(Addr) /\ Len(right) = Len(b) - k
      /\ \A i \in 1 .. Len(b) - k : right[i] = b[k + i]
  BY <1>1
<1>5. RemoveAt(b, k) = left \o right
  BY DEF RemoveAt
<1> HIDE DEF left, right
<1>6. left \o right \in Seq(Addr) /\ Len(left \o right) = n
  <2>1. left \o right \in Seq(Addr) /\ Len(left \o right) = Len(left) + Len(right)
    BY <1>3, <1>4, ConcatProperties
  <2> QED BY <1>1, <1>3, <1>4, <2>1
<1>7. \A i \in 1 .. n : (left \o right)[i] = IF i < k THEN left[i] ELSE right[i - (k - 1)]
  BY <1>1, <1>3, <1>4
<1>8. g \in [1 .. n -> DOMAIN b]
  BY <1>1
<1>9. \A i, j \in 1 .. n : g[i] = g[j] => i = j
  BY <1>1
<1>10. \A i \in 1 .. n : g[i] # k /\ g[i] = IF i < k THEN i ELSE i + 1
  BY <1>1
<1> HIDE DEF g
<1>11. ASSUME NEW i \in 1 .. n PROVE (left \o right)[i] = b[g[i]] /\ (left \o right)[i] # a
  <2>1. (left \o right)[i] = b[g[i]]
    <3>1. CASE i < k
      BY <1>1, <1>3, <1>7, <1>10, <3>1
    <3>2. CASE ~ (i < k)
      <4>1. i - (k - 1) \in 1 .. Len(b) - k /\ k + (i - (k - 1)) = i + 1
        BY <1>1, <3>2
      <4>2. right[i - (k - 1)] = b[i + 1]
        BY <1>4, <4>1
      <4> QED BY <1>7, <1>10, <3>2, <4>2
    <3> QED BY <3>1, <3>2
  <2>2. g[i] \in DOMAIN b /\ g[i] # k
    BY <1>8, <1>10
  <2> QED BY <2>1, <2>2 DEF Once
<1> HIDE DEF n
<1> DEFINE r == left \o right
<1>12. r \in Seq(Addr) /\ Len(r) = n
  BY <1>6
<1>14. \A i \in 1 .. n : r[i] = b[g[i]] /\ r[i] # a
  BY <1>11
<1> HIDE DEF r
<1>13. PartWithout(r, b, a)
  <2>1. DOMAIN r = 1 .. n
    BY <1>2, <1>12
  <2>2. \A i, j \in 1 .. n : r[i] = r[j] => i = j
    BY <1>8, <1>9, <1>14 DEF Once
  <2>3. \A i \in 1 .. n : \E j \in DOMAIN b : b[j] = r[i]
    BY <1>8, <1>14
  <2> QED BY <1>12, <1>14, <2>1, <2>2, <2>3 DEF PartWithout, Once
<1> QED BY <1>5, <1>13 DEF r

(* Taking out the front of a set without the line *)
LEMMA WithoutTheOldest ==
    ASSUME NEW b \in Seq(Addr), Once(b), NEW a \in Addr, \A i \in DOMAIN b : b[i] # a, b # <<>>
    PROVE  PartWithout(Tail(b), b, a)
<1> DEFINE n == Len(b) - 1
           r == Tail(b)
           g == [i \in 1 .. n |-> i + 1]
<1>1. Len(b) \in Nat /\ DOMAIN b = 1 .. Len(b) /\ n \in Nat
  OBVIOUS
<1>2. /\ r \in Seq(Addr) /\ Len(r) = n
      /\ \A i \in 1 .. n : r[i] = b[i + 1]
  BY <1>1
<1>3. g \in [1 .. n -> DOMAIN b]
  BY <1>1
<1>4. \A i, j \in 1 .. n : g[i] = g[j] => i = j
  BY <1>1
<1>5. \A i \in 1 .. n : g[i] = i + 1
  OBVIOUS
<1> HIDE DEF g, r
<1>6. \A i \in 1 .. n : r[i] = b[g[i]] /\ r[i] # a
  BY <1>1, <1>2, <1>3, <1>5
<1> HIDE DEF n
<1>7. PartWithout(r, b, a)
  BY <1>1, <1>2, <1>3, <1>4, <1>6, ByPlaces, ZenonT(40)
<1> QED BY <1>7 DEF r

(* What insert_ddrp_buffer leaves of the set before it appends *)
RestOf(b, a) == IF a \in ToSet(b) THEN RemoveAt(b, CHOOSE k \in DOMAIN b : b[k] = a)
                ELSE IF Len(b) >= ddrp_buffer_assoc THEN Tail(b)
                ELSE b

(* It is a part of the set without the line. *)
LEMMA RestOfSet ==
    ASSUME NEW b \in Seq(Addr), Once(b), NEW a \in Addr
    PROVE  PartWithout(RestOf(b, a), b, a)
<1>1. CASE a \in ToSet(b)
  <2> DEFINE k == CHOOSE n \in DOMAIN b : b[n] = a
  <2>1. k \in DOMAIN b /\ b[k] = a
    BY <1>1 DEF ToSet
  <2>2. RestOf(b, a) = RemoveAt(b, k)
    BY <1>1 DEF RestOf
  <2> HIDE DEF k
  <2> QED BY <2>1, <2>2, WithoutItsLine
<1>2. CASE a \notin ToSet(b) /\ Len(b) >= ddrp_buffer_assoc
  <2>1. RestOf(b, a) = Tail(b) /\ b # <<>>
    BY <1>2, DramAssumption DEF RestOf
  <2>2. \A i \in DOMAIN b : b[i] # a
    BY <1>2 DEF ToSet
  <2> QED BY <2>1, <2>2, WithoutTheOldest
<1>3. CASE a \notin ToSet(b) /\ ~ (Len(b) >= ddrp_buffer_assoc)
  <2>1. RestOf(b, a) = b
    BY <1>3 DEF RestOf
  <2>2. \A i \in DOMAIN b : b[i] # a
    BY <1>3 DEF ToSet
  <2> QED BY <2>1, <2>2 DEF PartWithout
<1> QED BY <1>1, <1>2, <1>3
(* The lines of a set of the buffer after a line has come into one *)
LEMMA InsertOnce ==
    ASSUME IInv, BufferInv, NEW a \in Addr, NEW s \in BufferSet,
           NEW n, n = insert_ddrp_buffer(ddrp_buffer, a)[s]
    PROVE  /\ \A i, j \in DOMAIN n : n[i] = n[j] => i = j
           /\ \A i \in DOMAIN n : \/ n[i] = a /\ s = BufferSetOf[a]
                                  \/ \E j \in DOMAIN ddrp_buffer[s] : ddrp_buffer[s][j] = n[i]
<1> DEFINE t == BufferSetOf[a]
           b == ddrp_buffer[t]
           r == RestOf(b, a)
<1>1. t \in BufferSet /\ ddrp_buffer \in [BufferSet -> Seq(Addr)] /\ b \in Seq(Addr)
  BY DramAssumption DEF IInv, TypeOK
<1>2. insert_ddrp_buffer(ddrp_buffer, a) = [ddrp_buffer EXCEPT ![t] = Append(r, a)]
  BY DEF insert_ddrp_buffer, RestOf
<1>3. Once(b)
  BY <1>1 DEF BufferInv, Once
<1> HIDE DEF b
<1>4. /\ r \in Seq(Addr)
      /\ \A i, j \in DOMAIN r : r[i] = r[j] => i = j
      /\ \A i \in DOMAIN r : r[i] # a /\ \E j \in DOMAIN b : b[j] = r[i]
  BY <1>1, <1>3, RestOfSet DEF PartWithout, Once
<1> HIDE DEF r, t
<1>5. CASE s = t
  <2>1. n = Append(r, a)
    BY <1>1, <1>2, <1>5
  <2>2. /\ Len(r) \in Nat /\ DOMAIN r = 1 .. Len(r) /\ DOMAIN n = 1 .. Len(r) + 1
        /\ \A i \in 1 .. Len(r) : n[i] = r[i]
        /\ n[Len(r) + 1] = a
    BY <1>4, <2>1
  <2>3. \A i \in 1 .. Len(r) + 1 : i \in 1 .. Len(r) \/ i = Len(r) + 1
    BY <2>2
  <2>4. \A i, j \in DOMAIN n : n[i] = n[j] => i = j
    BY <1>4, <2>2, <2>3
  <2>5. \A i \in DOMAIN n : n[i] = a \/ \E j \in DOMAIN b : b[j] = n[i]
    BY <1>4, <2>2, <2>3
  <2> QED BY <1>5, <2>4, <2>5 DEF t, b
<1>6. CASE s # t
  <2>1. n = ddrp_buffer[s]
    BY <1>1, <1>2, <1>6
  <2> QED BY <2>1 DEF BufferInv
<1> QED BY <1>5, <1>6

(* Every step keeps the buffer apart from the queue. *)
LEMMA BufferKept == IInv /\ BufferInv /\ [Next]_vars => BufferInv'
<1> SUFFICES ASSUME IInv, BufferInv, [Next]_vars, NEW s \in BufferSet
             PROVE  /\ \A i, j \in DOMAIN ddrp_buffer'[s] :
                          ddrp_buffer'[s][i] = ddrp_buffer'[s][j] => i = j
                    /\ \A i \in DOMAIN ddrp_buffer'[s] :
                          /\ BufferSetOf[ddrp_buffer'[s][i]] = s
                          /\ ddrp_buffer'[s][i] \notin Lines("RQ")'
                          /\ enable_ddrp_buffer
  BY DEF BufferInv
<1>1. /\ \A i, j \in DOMAIN ddrp_buffer[s] : ddrp_buffer[s][i] = ddrp_buffer[s][j] => i = j
      /\ \A i \in DOMAIN ddrp_buffer[s] : /\ BufferSetOf[ddrp_buffer[s][i]] = s
                                          /\ ddrp_buffer[s][i] \notin Lines("RQ")
                                          /\ enable_ddrp_buffer
  BY DEF BufferInv
<1>2. CASE ddrp_buffer' = ddrp_buffer /\ Lines("RQ")' \subseteq Lines("RQ")
  BY <1>1, <1>2
<1>3. ASSUME NEW a \in Addr, ddrp_buffer' = ddrp_buffer,
             Lines("RQ")' \subseteq Lines("RQ") \cup {a}, ~ lookup_ddrp_buffer(a)
      PROVE  \A i \in DOMAIN ddrp_buffer[s] : ddrp_buffer[s][i] \notin Lines("RQ")'
  BY <1>1, <1>3 DEF lookup_ddrp_buffer, ToSet
<1>4. ASSUME NEW a \in Addr, enable_ddrp_buffer,
             ddrp_buffer' = insert_ddrp_buffer(ddrp_buffer, a),
             Lines("RQ")' \subseteq Lines("RQ") \ {a}
      PROVE  /\ \A i, j \in DOMAIN ddrp_buffer'[s] :
                   ddrp_buffer'[s][i] = ddrp_buffer'[s][j] => i = j
             /\ \A i \in DOMAIN ddrp_buffer'[s] :
                   /\ BufferSetOf[ddrp_buffer'[s][i]] = s
                   /\ ddrp_buffer'[s][i] \notin Lines("RQ")'
  <2> DEFINE n == ddrp_buffer'[s]
  <2>1. n = insert_ddrp_buffer(ddrp_buffer, a)[s]
    BY <1>4
  <2> HIDE DEF n
  <2>2. /\ \A i, j \in DOMAIN n : n[i] = n[j] => i = j
        /\ \A i \in DOMAIN n : \/ n[i] = a /\ s = BufferSetOf[a]
                               \/ \E j \in DOMAIN ddrp_buffer[s] : ddrp_buffer[s][j] = n[i]
    BY <1>1, <1>4, <2>1, InsertOnce, SMTT(30)
  <2>3. \A i \in DOMAIN n : BufferSetOf[n[i]] = s /\ n[i] \notin Lines("RQ")'
    BY <1>1, <1>4, <2>2
  <2> QED BY <2>2, <2>3 DEF n
<1>5. ReadsAndBuffer
  BY StepReads
<1> QED BY <1>1, <1>2, <1>3, <1>4, <1>5 DEF ReadsAndBuffer

(* A line in the DDRP buffer is there once and not in the read queue:      *)
(* add_rq looks the buffer up before it reads, and process frees the slot  *)
(* in the step that buffers its line.                                      *)
THEOREM BufferedOnce == Spec => []BufferExclusive
<1>1. Init => BufferInv
  BY DEF Init, BufferInv
<1>2. BufferInv => BufferExclusive
  BY DEF BufferInv, BufferExclusive, IsInjective, ToSet
<1> QED BY <1>1, <1>2, AlwaysIInv, BufferKept, PTL DEF Spec

(* No step of add_rq, operate or the LLC puts a read into the queue while  *)
(* a writeback of its line waits.                                          *)
THEOREM ReadsNeverPassWrites == Spec => ReadsSeeWrites
<1>1. IInv /\ [Next]_vars =>
         [\A a \in Addr : a \in Lines("WQ") /\ a \notin Lines("RQ") => a \notin Lines("RQ")']_vars
  <2> SUFFICES ASSUME IInv, [Next]_vars, NEW a \in Addr, a \in Lines("WQ"),
                      a \notin Lines("RQ")
               PROVE  a \notin Lines("RQ")'
    OBVIOUS
  <2>1. check_dram_queue("WQ", a) # {}
    BY DEF Lines, Used, check_dram_queue
  <2>2. ReadsAndBuffer
    BY StepReads
  <2> QED BY <2>1, <2>2 DEF ReadsAndBuffer
<1> QED BY <1>1, AlwaysIInv, PTL DEF Spec, ReadsSeeWrites
=============================================================================
