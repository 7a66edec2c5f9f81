--------------------------- MODULE OooCore_proofs ---------------------------
(***************************************************************************)
(* execute_store and do_memory_scheduling preserve the inductive invariant *)
(* of OooCore_lemmas, as the other actions do, and the theorems that       *)
(* follow from it.                                                         *)
(***************************************************************************)
EXTENDS OooCore_lemmas

-----------------------------------------------------------------------------
(* execute_store *)

(* A store in the queue belongs to an entry in use that points at it.      *)
LEMMA StoreOwner ==
    ASSUME RobTyped, QueuesTyped, Ring, StoreSlots(rob, sq), StoreIndices(rob, sq),
           NEW s \in SqIndex, sq[s].address # NoAddr,
           NEW i, i = sq[s].rob_index
    PROVE  /\ i \in RobIndex /\ Used(i) /\ sq[s].instr_id = rob[i].instr_id
           /\ rob[i].instr_id \in Nat /\ s # None /\ sq[s].address \in Addr
           /\ \E j0 \in Destination :
                 /\ rob[i].sq_index[j0] = s /\ rob[i].instr.destination_memory[j0] = sq[s].address
                 /\ \A p \in RobIndex, j \in Destination :
                       rob[p].sq_index[j] = s => p = i /\ j = j0
<1>1. i \in RobIndex /\ s # None /\ sq[s].address \in Addr
  BY Sizes DEF QueuesTyped, StoreType, None
<1>2. PICK j0 \in Destination : rob[i].sq_index[j0] = s
  BY DEF StoreSlots
<1>3. /\ rob[i].instr.destination_memory[j0] = sq[s].address /\ sq[s].instr_id = rob[i].instr_id
      /\ \A d \in Destination : rob[i].sq_index[d] = s => d = j0
  BY <1>1, <1>2 DEF StoreIndices
<1>4. \A p \in RobIndex, j \in Destination : rob[p].sq_index[j] = s => p = i
  BY <1>1 DEF StoreIndices
<1>5. Used(i) /\ rob[i].instr_id \in Nat
  BY <1>1, <1>3, OperandUsed
<1> QED BY <1>1, <1>2, <1>3, <1>4, <1>5

(* The loads that execute_store finds, and those of them it ends *)
WaitingSlots(s) == {rob[w[1]].lq_index[w[2]] : w \in Waiting(sq[s].rob_index, sq[s].address)}
WokenSlots(s) == {l \in WaitingSlots(s) : lq[l].producer_id = sq[s].instr_id}

(* The loads execute_store wakes belong to later entries that wait.        *)
LEMMA StoreLoads ==
    ASSUME IInv, execute_store, NEW s, s = Head(rts0), NEW i, i = sq[s].rob_index,
           NEW M, M = WokenSlots(s)
    PROVE  /\ s \in SqIndex /\ sq[s].address # NoAddr /\ sq[s].fetched = "NO" /\ In(rts0, s)
           /\ M \in SUBSET LqIndex
           /\ \A l \in M : /\ lq[l].address # NoAddr /\ lq[l].producer_id # None
                           /\ rob[lq[l].rob_index].expects[lq[l].data_index] = sq[s].instr_id
           /\ \A l \in LqIndex :
                 lq[l].address = sq[s].address /\ lq[l].producer_id = sq[s].instr_id => l \in M
<1>0. /\ RobTyped /\ QueuesTyped /\ Ring /\ StoreSlots(rob, sq) /\ StoreIndices(rob, sq)
      /\ ReadyStores(sq, rts0) /\ LoadSlots(rob, lq) /\ Producers(rob, lq, sq) /\ Expected
      /\ rts0 \in Seq(SqIndex) /\ rob \in [RobIndex -> EntryType] /\ lq \in [LqIndex -> LoadType]
      /\ MemoryListed(rob)
  BY DEF IInv, LoadInv, StoreInv, DataInv, QueuesTyped, RobTyped
<1>1. s \in SqIndex /\ In(rts0, s)
  BY <1>0, TailItems DEF execute_store, ReadyStores
<1>2. sq[s].address # NoAddr /\ sq[s].fetched = "NO"
  BY <1>0, <1>1 DEF ReadyStores, In
<1>3. i \in RobIndex /\ Used(i) /\ sq[s].instr_id = rob[i].instr_id /\ rob[i].instr_id \in Nat
  BY <1>0, <1>1, <1>2, StoreOwner
<1>4. \A w \in Waiting(i, sq[s].address) :
         /\ w[1] \in RobIndex /\ w[2] \in Source
         /\ rob[w[1]].lq_index[w[2]] \in LqIndex
  BY <1>0, <1>3 DEF Waiting, EntryType
<1>5. M \in SUBSET LqIndex
  BY <1>4 DEF WokenSlots, WaitingSlots
<1>6. ASSUME NEW l \in M
      PROVE  /\ lq[l].address # NoAddr /\ lq[l].producer_id # None
             /\ rob[lq[l].rob_index].expects[lq[l].data_index] = sq[s].instr_id
  <2>1. l \in LqIndex /\ lq[l].producer_id = sq[s].instr_id /\ lq[l].producer_id # None
    BY <1>3, <1>5 DEF None, WokenSlots
  <2>2. lq[l].address # NoAddr
    BY <1>0, <2>1 DEF LoadSlots, FreeLoad
  <2>3. PICK d, j, a : d = lq[l].rob_index /\ j = lq[l].data_index /\ a = lq[l].address
    OBVIOUS
  <2>4. d \in RobIndex /\ j \in Source /\ rob[d].instr.source_memory[j] = a
    BY <1>0, <2>1, <2>2, <2>3, SlotOwner
  <2>5. /\ StoreWriters(d, a) # {}
        /\ lq[l].producer_id = rob[Nearest(StoreWriters(d, a))].instr_id
    BY <1>0, <2>1, <2>2, <2>3 DEF Producers
  <2>6. rob[d].expects[j] = rob[Nearest(StoreWriters(d, a))].instr_id
    BY <1>0, <2>2, <2>3, <2>4, <2>5 DEF Expected
  <2> QED BY <2>1, <2>2, <2>3, <2>5, <2>6
<1>7. ASSUME NEW l \in LqIndex, lq[l].address = sq[s].address, lq[l].producer_id = sq[s].instr_id
      PROVE  l \in M
  <2>1. PICK d, j, a : d = lq[l].rob_index /\ j = lq[l].data_index /\ a = lq[l].address
    OBVIOUS
  <2>2. a # NoAddr /\ a \in Addr /\ lq[l].producer_id # None
    BY <1>0, <1>2, <1>3, <1>7, <2>1 DEF LoadType, None
  <2>3. /\ d \in RobIndex /\ j \in Source /\ rob[d].instr.source_memory[j] = a
        /\ rob[d].lq_index[j] = l /\ l # None
    BY <1>0, <2>1, <2>2, SlotOwner
  <2>4. PICK p : p = Nearest(StoreWriters(d, a))
    OBVIOUS
  <2>5. /\ StoreWriters(d, a) # {} /\ lq[l].producer_id = rob[p].instr_id
        /\ d \in rob[p].memory_instrs_depend_on_me
    BY <1>0, <2>1, <2>2, <2>4 DEF Producers
  <2>6. p \in RobIndex
    BY <1>0, <2>2, <2>3, <2>4, <2>5, NearestIn DEF RobTyped
  <2>7. p = i
    BY <1>0, <1>3, <1>7, <2>5, <2>6, UniqueId
  <2>8. <<d, j>> \in Waiting(i, sq[s].address)
    BY <1>7, <2>1, <2>3, <2>5, <2>7 DEF Waiting
  <2>9. \E w \in Waiting(i, sq[s].address) : rob[w[1]].lq_index[w[2]] = l
    BY <2>3, <2>8
  <2> QED BY <1>7, <2>9 DEF WokenSlots, WaitingSlots
<1>8. \A l \in LqIndex :
         lq[l].address = sq[s].address /\ lq[l].producer_id = sq[s].instr_id => l \in M
  BY <1>7
<1>9. \A l \in M : /\ lq[l].address # NoAddr /\ lq[l].producer_id # None
                   /\ rob[lq[l].rob_index].expects[lq[l].data_index] = sq[s].instr_id
  BY <1>6
<1> QED BY ONLY <1>1, <1>2, <1>5, <1>8, <1>9

(* The store queue while its slot s gets its data *)
LEMMA StoreExecuted ==
    ASSUME IInv, execute_store, NEW s, s = Head(rts0),
           \A p \in RobIndex : SameButOps(rob[p], rob'[p])
    PROVE  /\ sq' \in [SqIndex -> StoreType] /\ rts0' \in Seq(SqIndex) /\ StoreInv'
           /\ \A k \in SqIndex : k # s => sq'[k] = sq[k]
           /\ sq'[s].fetched = "COMPLETED"
<1>0. /\ QueuesTyped /\ RobTyped /\ StoreSlots(rob, sq) /\ StoreIndices(rob, sq)
      /\ ReadyStores(sq, rts0) /\ StoreOrder(sq, sq_tail, sq_occupancy, sta)
      /\ rts0 \in Seq(SqIndex) /\ sq \in [SqIndex -> StoreType]
      /\ rob \in [RobIndex -> EntryType]
  BY DEF IInv, StoreInv, QueuesTyped, RobTyped
<1>1. /\ rts0' = Tail(rts0) /\ sq' = [sq EXCEPT ![s].fetched = "COMPLETED"]
      /\ sq_tail' = sq_tail /\ sq_occupancy' = sq_occupancy /\ sta' = sta /\ next' = next
      /\ rts0 # <<>>
  BY DEF execute_store
<1>2. /\ Tail(rts0) \in Seq(SqIndex) /\ s \in SqIndex /\ In(rts0, s)
      /\ \A p : In(Tail(rts0), p) <=> In(rts0, p) /\ p # s
      /\ Distinct(Tail(rts0))
  BY <1>0, <1>1, TailItems DEF ReadyStores
<1>3. sq[s].address # NoAddr
  BY <1>0, <1>2 DEF ReadyStores, In
<1>4. /\ sq' \in [SqIndex -> StoreType]
      /\ \A k \in SqIndex : /\ sq'[k].instr_id = sq[k].instr_id
                            /\ sq'[k].address = sq[k].address
                            /\ sq'[k].rob_index = sq[k].rob_index
      /\ \A k \in SqIndex : k # s => sq'[k] = sq[k]
      /\ sq'[s].fetched = "COMPLETED"
  BY <1>0, <1>1, <1>2 DEF StoreType, Phase
<1>5. \A p \in RobIndex : /\ rob'[p].sq_index = rob[p].sq_index /\ rob'[p].instr = rob[p].instr
                          /\ rob'[p].instr_id = rob[p].instr_id
  BY DEF SameButOps, SameInstr
<1>6. StoreSlots(rob', sq')
  <2> SUFFICES ASSUME NEW k \in SqIndex
               PROVE  IF sq'[k].address = NoAddr THEN sq'[k] = FreeStore
                      ELSE /\ \E j \in Destination : rob'[sq'[k].rob_index].sq_index[j] = k
                           /\ sq'[k].fetched # "INFLIGHT"
    BY DEF StoreSlots
  <2>1. IF sq[k].address = NoAddr THEN sq[k] = FreeStore
        ELSE /\ \E j \in Destination : rob[sq[k].rob_index].sq_index[j] = k
             /\ sq[k].fetched # "INFLIGHT"
    BY <1>0 DEF StoreSlots
  <2>2. sq[k].rob_index \in RobIndex
    BY <1>0 DEF StoreType
  <2> QED BY <1>3, <1>4, <1>5, <2>1, <2>2
<1>7. StoreIndices(rob', sq')
  <2> SUFFICES ASSUME NEW p \in RobIndex, NEW j \in Destination, rob'[p].sq_index[j] # None,
                      NEW k, k = rob'[p].sq_index[j]
               PROVE  /\ rob'[p].instr.destination_memory[j] = sq'[k].address
                      /\ sq'[k].address # NoAddr
                      /\ sq'[k].rob_index = p /\ sq'[k].instr_id = rob'[p].instr_id
                      /\ \A d \in Destination : rob'[p].sq_index[d] = k => d = j
    BY DEF StoreIndices
  <2>1. k \in SqIndex /\ k = rob[p].sq_index[j] /\ k # None
    BY <1>0, <1>5 DEF EntryType
  <2>2. /\ rob[p].instr.destination_memory[j] = sq[k].address
        /\ sq[k].address # NoAddr
        /\ sq[k].rob_index = p /\ sq[k].instr_id = rob[p].instr_id
        /\ \A d \in Destination : rob[p].sq_index[d] = k => d = j
    BY <1>0, <2>1 DEF StoreIndices
  <2> QED BY <1>4, <1>5, <2>1, <2>2
<1>8. ReadyStores(sq', rts0')
  <2> SUFFICES ASSUME NEW m \in DOMAIN Tail(rts0)
               PROVE  sq'[Tail(rts0)[m]].address # NoAddr /\ sq'[Tail(rts0)[m]].fetched = "NO"
    BY <1>1, <1>2 DEF ReadyStores
  <2>1. PICK x : x = Tail(rts0)[m]
    OBVIOUS
  <2>2. In(Tail(rts0), x) /\ x \in SqIndex
    BY <1>2, <2>1 DEF In
  <2>3. In(rts0, x) /\ x # s
    BY <1>2, <2>2
  <2>4. sq[x].address # NoAddr /\ sq[x].fetched = "NO"
    BY <1>0, <2>3 DEF ReadyStores, In
  <2> QED BY <1>4, <2>1, <2>2, <2>3, <2>4
<1>9. StoreOrder(sq, sq_tail, sq_occupancy, sta)'
  BY <1>0, <1>1, <1>4 DEF StoreOrder
<1> QED BY <1>1, <1>2, <1>4, <1>6, <1>7, <1>8, <1>9 DEF StoreInv

(* Two steps that change operations alone are one.                         *)
LEMMA SameButOpsTwice ==
    ASSUME NEW d, NEW e, NEW f, SameButOps(d, e), SameButOps(e, f) PROVE SameButOps(d, f)
BY DEF SameButOps, SameInstr

(* execute_store preserves the invariant.                                  *)
LEMMA StoreKeeps == ASSUME IInv, execute_store PROVE IInv'
<1> DEFINE s == Head(rts0)
           i == sq[s].rob_index
           id == sq[s].instr_id
           W == WaitingSlots(s)
           M == WokenSlots(s)
           data == [l \in M |-> id]
           before(p) == IF p = i THEN [rob[i] EXCEPT !.num_mem_ops = @ - 1] ELSE rob[p]
           Done(p) == LoadsDone(before(p), p, M, data)
           C == {i} \cup {lq[l].rob_index : l \in M}
           D == {p \in C : Done(p).num_mem_ops = 0}
           U == UNION {Below0(Done(p)) : p \in C}
<1>4. /\ rob' = [p \in RobIndex |-> Done(p)]
      /\ release_load_queue(M)
      /\ inflight' = [inflight EXCEPT !.mem = @ + Cardinality(D)]
      /\ failed' = failed \cup U \cup (IF M = W THEN {} ELSE {"producer_id"})
  <2>1. failed' = failed \cup (UNION {Below0(Done(p)) : p \in C})
                    \cup (IF M = W THEN {} ELSE {"producer_id"})
    BY DEF execute_store, WaitingSlots, WokenSlots
  <2>2. failed' = failed \cup U \cup (IF M = W THEN {} ELSE {"producer_id"})
    BY ONLY <2>1
  <2>3. /\ rob' = [p \in RobIndex |-> Done(p)]
        /\ release_load_queue(M)
        /\ inflight' = [inflight EXCEPT !.mem = @ + Cardinality(D)]
    BY DEF execute_store, WaitingSlots, WokenSlots
  <2> QED BY ONLY <2>2, <2>3
<1>5. /\ next' = next /\ retired' = retired /\ rte0' = rte0 /\ rte1' = rte1 /\ rtl0' = rtl0
      /\ last_store' = last_store /\ memory' = memory
      /\ sq_tail' = sq_tail /\ sq_occupancy' = sq_occupancy /\ sta' = sta
  BY DEF execute_store, readyVars
<1>6. /\ RobTyped /\ QueuesTyped /\ Ring /\ LoadSlots(rob, lq) /\ ReadyLoads(lq, rtl0)
      /\ StoreSlots(rob, sq) /\ StoreIndices(rob, sq)
      /\ Producers(rob, lq, sq) /\ Expected /\ OperationsCounted(rob, lq, sq)
      /\ Failures /\ lq \in [LqIndex -> LoadType] /\ rob \in [RobIndex -> EntryType]
      /\ inflight \in [reg : Int, mem : Int] /\ rtl0 \in Seq(LqIndex)
  BY DEF IInv, LoadInv, StoreInv, DataInv, QueuesTyped, RobTyped
<1>7. /\ s \in SqIndex /\ sq[s].address # NoAddr /\ sq[s].fetched = "NO"
      /\ M \in SUBSET LqIndex
      /\ \A l \in M : /\ lq[l].address # NoAddr /\ lq[l].producer_id # None
                      /\ rob[lq[l].rob_index].expects[lq[l].data_index] = id
      /\ \A l \in LqIndex : lq[l].address = sq[s].address /\ lq[l].producer_id = id => l \in M
  BY StoreLoads
<1> HIDE DEF M, W, U
<1>8. /\ i \in RobIndex /\ Used(i) /\ id = rob[i].instr_id /\ id \in Nat /\ s # None
      /\ \E j0 \in Destination :
            /\ rob[i].sq_index[j0] = s /\ rob[i].instr.destination_memory[j0] = sq[s].address
            /\ \A p \in RobIndex, j \in Destination :
                  rob[p].sq_index[j] = s => p = i /\ j = j0
  BY <1>6, <1>7, StoreOwner, SMTT(30)
<1> HIDE DEF s, i, id
<1>9. PICK j0 \in Destination :
         /\ rob[i].sq_index[j0] = s /\ rob[i].instr.destination_memory[j0] = sq[s].address
         /\ \A p \in RobIndex, j \in Destination : rob[p].sq_index[j] = s => p = i /\ j = j0
  BY <1>8
<1>10. data \in [M -> Int]
  BY <1>8
<1>11. \A p \in RobIndex :
          /\ before(p) \in EntryType /\ SameButOps(rob[p], before(p))
          /\ before(p).num_mem_ops = IF p = i THEN rob[p].num_mem_ops - 1 ELSE rob[p].num_mem_ops
          /\ before(p).value = rob[p].value
          /\ rob[p].num_mem_ops \in Int
  <2> SUFFICES ASSUME NEW p \in RobIndex
               PROVE  /\ before(p) \in EntryType /\ SameButOps(rob[p], before(p))
                      /\ before(p).num_mem_ops = IF p = i THEN rob[p].num_mem_ops - 1
                                                 ELSE rob[p].num_mem_ops
                      /\ before(p).value = rob[p].value
                      /\ rob[p].num_mem_ops \in Int
    OBVIOUS
  <2>1. rob[p] \in EntryType
    BY <1>6
  <2>2. PICK e, n : e = rob[p] /\ n = rob[p].num_mem_ops - 1
    OBVIOUS
  <2>3. e \in EntryType /\ n \in Int /\ e.num_mem_ops \in Int
    BY <2>1, <2>2 DEF EntryType
  <2>4. before(p) = IF p = i THEN [e EXCEPT !.num_mem_ops = n] ELSE e
    BY <2>2
  <2>5. PICK f : f = before(p)
    OBVIOUS
  <2> HIDE DEF before
  <2>6. /\ f \in EntryType /\ SameButOps(e, f) /\ f.value = e.value
        /\ f.num_mem_ops = IF p = i THEN n ELSE e.num_mem_ops
    BY <2>3, <2>4, <2>5 DEF EntryType, SameButOps, SameInstr
  <2> QED BY <2>2, <2>3, <2>5, <2>6
<1> HIDE DEF data, before
<1>12. \A p \in RobIndex : GotData(before(p), p, M, data, rob'[p])
  <2> SUFFICES ASSUME NEW p \in RobIndex PROVE GotData(before(p), p, M, data, rob'[p])
    OBVIOUS
  <2>1. PICK e, v, f : e = before(p) /\ v = data /\ f = rob'[p]
    OBVIOUS
  <2>2. e \in EntryType /\ v \in [M -> Int] /\ f = LoadsDone(e, p, M, v)
    BY <1>4, <1>10, <1>11, <2>1
  <2>3. RobTyped /\ QueuesTyped /\ Ring /\ LoadSlots(rob, lq) /\ M \in SUBSET LqIndex
    BY <1>6, <1>7
  <2>4. \A l \in M : lq[l].address # NoAddr
    BY <1>7
  <2> HIDE DEF C, D, Done
  <2>5. GotData(e, p, M, v, f)
    BY <2>2, <2>3, <2>4, LoadsDoneIs
  <2> QED BY <2>1, <2>5
<1>13. /\ {lq[l].rob_index : l \in M} \in SUBSET RobIndex
       /\ \A p \in {lq[l].rob_index : l \in M} : rob[p].num_mem_ops # 0
       /\ \A p \in RobIndex \ {lq[l].rob_index : l \in M} : OpsOf(M, p) = {}
  BY <1>6, <1>7, Owners
<1>14. StoreOut(rob, sq, i, j0)
  BY <1>7, <1>8, <1>9 DEF StoreOut
<1>15. C \in SUBSET RobIndex /\ \A p \in C : rob[p].num_mem_ops # 0
  <2>1. rob[i].num_mem_ops # 0
    BY <1>6, <1>8, <1>14, NothingOut
  <2> QED BY <1>8, <1>13, <2>1
<1>16. D = {p \in C : rob'[p].num_mem_ops = 0}
  BY <1>4, <1>15
<1>17. \A p \in RobIndex :
          /\ SameButOps(rob[p], rob'[p]) /\ rob'[p] \in EntryType
          /\ rob'[p].num_mem_ops = before(p).num_mem_ops - Cardinality(OpsOf(M, p))
          /\ \A j \in Source \ OpsOf(M, p) : rob'[p].value[j] = rob[p].value[j]
          /\ \A l \in Mine(M, p) : rob'[p].value[lq[l].data_index] = data[l]
  <2> SUFFICES ASSUME NEW p \in RobIndex
               PROVE  /\ SameButOps(rob[p], rob'[p]) /\ rob'[p] \in EntryType
                      /\ rob'[p].num_mem_ops = before(p).num_mem_ops - Cardinality(OpsOf(M, p))
                      /\ \A j \in Source \ OpsOf(M, p) : rob'[p].value[j] = rob[p].value[j]
                      /\ \A l \in Mine(M, p) : rob'[p].value[lq[l].data_index] = data[l]
    OBVIOUS
  <2>1. GotData(before(p), p, M, data, rob'[p])
    BY <1>12
  <2>2. SameButOps(rob[p], before(p)) /\ before(p).value = rob[p].value
    BY <1>11
  <2>3. SameButOps(rob[p], rob'[p])
    BY <2>1, <2>2, SameButOpsTwice DEF GotData
  <2> QED BY <2>1, <2>2, <2>3 DEF GotData
<1>18. inflight'.reg = inflight.reg /\ inflight'.mem = inflight.mem + Cardinality(D)
  BY <1>4, <1>6
<1>19. inflight' \in [reg : Int, mem : Int]
  <2>1. IsFiniteSet(D)
    BY <1>15, Sizes, FS_Subset
  <2>2. Cardinality(D) \in Nat
    BY <2>1, FS_CardinalityType
  <2> HIDE DEF D
  <2> QED BY <1>4, <1>6, <2>2
<1>20. RobTyped'
  <2>1. rob' \in [RobIndex -> EntryType]
    BY <1>4, <1>17
  <2> QED BY <1>5, <1>6, <1>19, <2>1 DEF RobTyped
<1>21. inflight'.mem = inflight.mem + Cardinality({p \in C : rob'[p].num_mem_ops = 0})
  BY <1>16, <1>18
<1> HIDE DEF D
<1>22. /\ sq' \in [SqIndex -> StoreType] /\ rts0' \in Seq(SqIndex) /\ StoreInv'
       /\ \A k \in SqIndex : k # s => sq'[k] = sq[k]
       /\ sq'[s].fetched = "COMPLETED"
  <2>1. \A p \in RobIndex : SameButOps(rob[p], rob'[p])
    BY <1>17
  <2> QED BY <2>1, StoreExecuted DEF s
<1>23. \A p \in RobIndex : \A j \in Destination :
          StoreOut(rob', sq', p, j) <=> StoreOut(rob, sq, p, j) /\ ~ (p = i /\ j = j0)
  <2> SUFFICES ASSUME NEW p \in RobIndex, NEW j \in Destination
               PROVE  StoreOut(rob', sq', p, j) <=> StoreOut(rob, sq, p, j) /\ ~ (p = i /\ j = j0)
    OBVIOUS
  <2>1. rob'[p].instr = rob[p].instr /\ rob'[p].sq_index = rob[p].sq_index
    BY <1>17 DEF SameButOps, SameInstr
  <2>2. rob[p].sq_index[j] \in SqIndex \cup {None}
    BY <1>6 DEF EntryType
  <2>3. CASE p = i /\ j = j0
    BY <1>8, <1>9, <1>22, <2>1, <2>3 DEF StoreOut
  <2>4. CASE ~ (p = i /\ j = j0)
    <3>1. rob[p].sq_index[j] # s
      BY <1>9, <2>4
    <3>2. rob[p].sq_index[j] # None => sq'[rob[p].sq_index[j]] = sq[rob[p].sq_index[j]]
      BY <1>22, <2>2, <3>1
    <3> QED BY <2>1, <2>4, <3>2 DEF StoreOut
  <2> QED BY <2>3, <2>4
<1>24. \A p \in RobIndex :
          Cardinality(StoresOut(rob', sq', p))
             = Cardinality(StoresOut(rob, sq, p)) - (IF p = i THEN 1 ELSE 0)
  <2> SUFFICES ASSUME NEW p \in RobIndex
               PROVE  Cardinality(StoresOut(rob', sq', p))
                        = Cardinality(StoresOut(rob, sq, p)) - (IF p = i THEN 1 ELSE 0)
    OBVIOUS
  <2>1. PICK S : S = StoresOut(rob, sq, p)
    OBVIOUS
  <2>2. S \in SUBSET Destination /\ (p = i => j0 \in S)
    BY <1>14, <2>1 DEF StoresOut
  <2>3. IsFiniteSet(S) /\ Cardinality(S) \in Nat
    BY <2>2, FiniteOperands, FS_Subset, FS_CardinalityType
  <2>4. CASE p = i
    <3>1. StoresOut(rob', sq', p) = S \ {j0}
      BY <1>23, <2>1, <2>4 DEF StoresOut
    <3>2. Cardinality(S \ {j0}) = Cardinality(S) - 1
      BY <2>2, <2>3, <2>4, FS_RemoveElement
    <3> QED BY <2>1, <2>4, <3>1, <3>2
  <2>5. CASE p # i
    <3>1. StoresOut(rob', sq', p) = S
      BY <1>23, <2>1, <2>5 DEF StoresOut
    <3> QED BY <2>1, <2>3, <2>5, <3>1
  <2> QED BY <2>4, <2>5
<1>25. \A p \in RobIndex :
          rob'[p].num_mem_ops = rob[p].num_mem_ops - Cardinality(OpsOf(M, p))
             + Cardinality(StoresOut(rob', sq', p)) - Cardinality(StoresOut(rob, sq, p))
  <2> SUFFICES ASSUME NEW p \in RobIndex
               PROVE  rob'[p].num_mem_ops = rob[p].num_mem_ops - Cardinality(OpsOf(M, p))
                       + Cardinality(StoresOut(rob', sq', p)) - Cardinality(StoresOut(rob, sq, p))
    OBVIOUS
  <2>0. StoresOut(rob, sq, p) \in SUBSET Destination /\ \A l \in M : lq[l].address # NoAddr
    BY <1>7 DEF StoresOut
  <2>1. /\ Cardinality(OpsOf(M, p)) \in Nat
        /\ Cardinality(StoresOut(rob, sq, p)) \in Nat
    BY <1>6, <1>7, <2>0, MineOps, FiniteOperands, FS_Subset, FS_CardinalityType
  <2>2. PICK a, b, c : /\ a = Cardinality(StoresOut(rob, sq, p)) /\ b = Cardinality(OpsOf(M, p))
                       /\ c = Cardinality(StoresOut(rob', sq', p))
    OBVIOUS
  <2>3. PICK n, m : n = rob[p].num_mem_ops /\ m = before(p).num_mem_ops
    OBVIOUS
  <2>4. /\ a \in Nat /\ b \in Nat /\ n \in Int /\ c = a - (IF p = i THEN 1 ELSE 0)
        /\ m = (IF p = i THEN n - 1 ELSE n) /\ rob'[p].num_mem_ops = m - b
    BY <1>11, <1>17, <1>24, <2>1, <2>2, <2>3
  <2>5. m - b = n - b + c - a
    BY <2>4
  <2> QED BY <2>2, <2>3, <2>4, <2>5
<1>26. \A l \in M : rob'[lq[l].rob_index].value[lq[l].data_index]
                      = rob[lq[l].rob_index].expects[lq[l].data_index]
  <2> SUFFICES ASSUME NEW l \in M
               PROVE  rob'[lq[l].rob_index].value[lq[l].data_index]
                        = rob[lq[l].rob_index].expects[lq[l].data_index]
    OBVIOUS
  <2>1. lq[l].rob_index \in RobIndex /\ l \in Mine(M, lq[l].rob_index) /\ data[l] = id
    BY <1>13 DEF Mine, data
  <2> QED BY <1>7, <1>17, <2>1
<1>27. \A p \in RobIndex \ C : rob'[p].num_mem_ops = rob[p].num_mem_ops
  <2> SUFFICES ASSUME NEW p \in RobIndex \ C PROVE rob'[p].num_mem_ops = rob[p].num_mem_ops
    OBVIOUS
  <2>1. p # i /\ OpsOf(M, p) = {}
    BY <1>13
  <2>2. Cardinality(OpsOf(M, p)) = 0
    BY <2>1, FS_EmptySet
  <2>3. rob'[p].num_mem_ops = rob[p].num_mem_ops - 0 /\ rob[p].num_mem_ops \in Int
    BY <1>11, <1>17, <2>1, <2>2
  <2> QED BY <2>3
<1>28. \A m \in DOMAIN rtl0 : rtl0[m] \notin M
  BY <1>6, <1>7 DEF ReadyLoads
<1>29. \A p \in RobIndex : SameButOps(rob[p], rob'[p])
  BY <1>17
<1>30. \A p \in RobIndex : \A j \in Source \ OpsOf(M, p) : rob'[p].value[j] = rob[p].value[j]
  BY <1>17
<1>31. \A p \in RobIndex : \A j \in Destination :
          StoreOut(rob', sq', p, j) => StoreOut(rob, sq, p, j)
  BY <1>23
<1>32. \A l \in M : lq[l].address # NoAddr
  BY <1>7
<1> HIDE DEF C, Done
<1>33. /\ lq' \in [LqIndex -> LoadType] /\ lq_occupancy' \in Int /\ LoadInv'
       /\ Values(rob', lq') /\ OperationsCounted(rob', lq', sq')
       /\ Ring' /\ RegInv' /\ Expected' /\ LastStores' /\ MemoryListed(rob)' /\ MemCounted'
       /\ \A p \in RobIndex : rob'[p].num_mem_ops \in Nat
  <2>1. release_load_queue(M) /\ M \in SUBSET LqIndex /\ inflight'.reg = inflight.reg
    BY <1>4, <1>7, <1>18
  <2> QED BY <1>5, <1>15, <1>20, <1>21, <1>25, <1>26, <1>27, <1>28, <1>29, <1>30, <1>31,
             <1>32, <2>1, MemoryDone
<1>34. QueuesTyped'
  BY <1>5, <1>6, <1>22, <1>33 DEF QueuesTyped
<1>35. Producers(rob, lq, sq)'
  <2>1. \A l \in LqIndex : lq'[l].address # NoAddr => lq'[l] = lq[l] /\ l \notin M
    BY <1>4 DEF release_load_queue, FreeLoad
  <2>2. ASSUME NEW l \in LqIndex, lq'[l].address # NoAddr, lq[l].producer_id # None,
               NEW p \in RobIndex, rob[p].instr_id = lq[l].producer_id, NEW j \in Destination,
               rob[p].instr.destination_memory[j] = lq[l].address, StoreOut(rob, sq, p, j)
        PROVE  StoreOut(rob', sq', p, j)
    <3>1. p = i /\ j = j0 => lq[l].address = sq[s].address /\ lq[l].producer_id = id
      BY <1>8, <1>9, <2>2
    <3>2. ~ (p = i /\ j = j0)
      BY <1>7, <2>1, <2>2, <3>1
    <3> QED BY <1>23, <2>2, <3>2
  <2>3. \A l \in LqIndex : lq'[l].address # NoAddr => lq'[l] = lq[l]
    BY <2>1
  <2>4. \A l \in LqIndex : lq'[l].address # NoAddr /\ lq[l].producer_id # None =>
           \A p \in RobIndex : rob[p].instr_id = lq[l].producer_id =>
              \A j \in Destination :
                 (rob[p].instr.destination_memory[j] = lq[l].address
                    /\ StoreOut(rob, sq, p, j)) => StoreOut(rob', sq', p, j)
    BY <2>2
  <2> QED BY <1>5, <1>29, <2>3, <2>4, ProducersKept
<1>36. Failures'
  <2>1. \A p \in C : Below0(Done(p)) = {}
    <3>1. \A p \in C : Done(p) = rob'[p] /\ rob'[p].num_mem_ops \in Nat
      BY <1>4, <1>15, <1>33
    <3> QED BY <3>1 DEF Below0
  <2>2. failed' \subseteq failed \cup {"producer_id"}
    <3>1. U = {}
      BY <2>1 DEF U
    <3> QED BY <1>4, <3>1
  <2> QED BY <1>6, <2>2 DEF Failures
<1> QED BY <1>20, <1>22, <1>33, <1>34, <1>35, <1>36
        DEF IInv, DataInv, Values, OperationsCounted, LoadOut, StoreOut
-----------------------------------------------------------------------------
(* do_memory_scheduling: the core while the operands of entry i are added  *)

CoreType ==
    [rob : [RobIndex -> EntryType], lq : [LqIndex -> LoadType], lq_occupancy : Int,
     rtl0 : Seq(LqIndex), sq : [SqIndex -> StoreType], sq_tail : SqIndex, sq_occupancy : Int,
     sta : Seq(Int), rts0 : Seq(SqIndex), mem : Int, failed : SUBSET {"producer_id"}]

SameFront(d, e) ==
    /\ SameInstr(d, e)
    /\ d.scheduled = e.scheduled /\ d.executed = e.executed
    /\ d.reg_ready <=> e.reg_ready
    /\ d.num_reg_dependent = e.num_reg_dependent
    /\ d.registers_depend_on_me = e.registers_depend_on_me
    /\ d.expects = e.expects

SameOps(d, e) == /\ d.lq_index = e.lq_index /\ d.sq_index = e.sq_index
                 /\ d.num_mem_ops = e.num_mem_ops

StageLoads(c) == /\ LoadSlots(c.rob, c.lq) /\ LoadIndices(c.rob) /\ ReadyLoads(c.lq, c.rtl0)
                 /\ SlotsCounted(c.lq, c.lq_occupancy)
StageStores(c) == /\ StoreSlots(c.rob, c.sq) /\ StoreIndices(c.rob, c.sq)
                  /\ ReadyStores(c.sq, c.rts0)
                  /\ StoreOrder(c.sq, c.sq_tail, c.sq_occupancy, c.sta)
StageData(c) == /\ Values(c.rob, c.lq) /\ OperationsCounted(c.rob, c.lq, c.sq)
                /\ Producers(c.rob, c.lq, c.sq) /\ MemoryListed(c.rob)

Stage(c, i) ==
    /\ c \in CoreType
    /\ \A p \in RobIndex : SameFront(rob[p], c.rob[p])
    /\ \A p \in RobIndex \ {i} : SameOps(rob[p], c.rob[p])
    /\ StageLoads(c) /\ StageStores(c) /\ StageData(c)
    /\ c.mem = inflight.mem + (IF c.rob[i].num_mem_ops = 0 THEN 1 ELSE 0)

(* What the nearest store before i to the address of its operand j is *)
StoreFor(i, j) == StoreWriters(i, rob[i].instr.source_memory[j])
StoreId(i, j) == IF StoreFor(i, j) = {} THEN None ELSE rob[Nearest(StoreFor(i, j))].instr_id

(* mem_RAW_dependency finds the nearest store to the address.              *)
LEMMA DependencyIs ==
    ASSUME IInv, NEW i \in RobIndex, NEW j \in Source, rob[i].instr.source_memory[j] # NoAddr,
           NEW P, P = mem_RAW_dependency(i, rob[i].instr.source_memory[j])
    PROVE  /\ P = IF StoreFor(i, j) = {} THEN {} ELSE {Nearest(StoreFor(i, j))}
           /\ StoreId(i, j) = IF P = {} THEN None ELSE rob[CHOOSE p \in P : TRUE].instr_id
           /\ P \in SUBSET (RobIndex \ {i}) /\ \A p \in P : p \in Before(i)
           /\ StoreId(i, j) \in Int
           /\ P # {} => StoreId(i, j) # None
           /\ P = {} <=> StoreFor(i, j) = {}
           /\ rob[i].instr.source_memory[j] \in Addr
           /\ rob[i].expects[j] = IF P = {} THEN memory[rob[i].instr.source_memory[j]]
                                  ELSE StoreId(i, j)
<1>0. /\ RobTyped /\ Ring /\ Expected /\ retired \in Nat /\ rob \in [RobIndex -> EntryType]
  BY DEF IInv, DataInv, RobTyped
<1>1. PICK a : a = rob[i].instr.source_memory[j]
  OBVIOUS
<1>2. a \in Addr /\ StoreFor(i, j) = StoreWriters(i, a)
  BY <1>0, <1>1 DEF EntryType, Instruction, StoreFor
<1>3. PICK S : S = StoreWriters(i, a)
  OBVIOUS
<1>4. P = IF S = {} THEN {} ELSE {Nearest(S)}
  BY <1>1, <1>3 DEF mem_RAW_dependency, StoreWriters
<1>5. S \in SUBSET RobIndex /\ (S # {} => Nearest(S) \in S)
  BY <1>0, <1>2, <1>3, NearestIn
<1>6. i \notin Before(i) /\ S \subseteq Before(i)
  <2>1. Age(i) \in Int
    BY <1>0, Sizes, AgeIs
  <2>2. ~ (Age(i) < Age(i))
    <3>1. PICK n : n = Age(i)
      OBVIOUS
    <3> QED BY <2>1, <3>1
  <2> QED BY <1>3, <2>2 DEF Before, StoreWriters
<1>7. \A p \in S : rob[p].instr_id \in Int /\ rob[p].instr_id # None
  <2> SUFFICES ASSUME NEW p \in S PROVE rob[p].instr_id \in Int /\ rob[p].instr_id # None
    OBVIOUS
  <2>1. p \in RobIndex /\ Writes(rob[p], a) /\ a # NoAddr
    BY <1>1, <1>3, <1>5 DEF StoreWriters
  <2>2. Used(p)
    BY <1>0, <2>1, OperandUsed DEF Writes
  <2> QED BY <1>0, <2>1, <2>2, OperandUsed
<1>8. StoreFor(i, j) = S /\ StoreId(i, j) = IF S = {} THEN None ELSE rob[Nearest(S)].instr_id
  BY <1>2, <1>3 DEF StoreId
<1>9. S # {} => (CHOOSE p \in P : TRUE) = Nearest(S)
  BY <1>4
<1>10. rob[i].expects[j] = IF S = {} THEN memory[a] ELSE rob[Nearest(S)].instr_id
  BY <1>0, <1>1, <1>3 DEF Expected
<1>11. StoreId(i, j) \in Int
  BY <1>5, <1>7, <1>8 DEF None
<1> QED BY <1>1, <1>2, <1>4, <1>5, <1>6, <1>7, <1>8, <1>9, <1>10, <1>11

(* A free slot of the load queue *)
LEMMA FreeSlot ==
    ASSUME NEW q \in [LqIndex -> LoadType], NEW n \in Int, SlotsCounted(q, n), n < LQ_SIZE,
           NEW l, l = Min({k \in LqIndex : q[k].address = NoAddr})
    PROVE  l \in LqIndex /\ q[l].address = NoAddr
<1> DEFINE S == {k \in LqIndex : q[k].address = NoAddr}
           T == {k \in LqIndex : q[k].address # NoAddr}
<1>1. S # {}
  <2> SUFFICES ASSUME S = {} PROVE FALSE
    OBVIOUS
  <2>1. T = LqIndex
    OBVIOUS
  <2>2. Cardinality(LqIndex) = LQ_SIZE
    <3>1. Cardinality(0 .. LQ_SIZE - 1) = LQ_SIZE
      <4>1. 0 \in Int /\ LQ_SIZE - 1 \in Int /\ LQ_SIZE \in Nat \ {0}
        BY Sizes
      <4>2. Cardinality(0 .. LQ_SIZE - 1)
              = IF 0 > LQ_SIZE - 1 THEN 0 ELSE (LQ_SIZE - 1) - 0 + 1
        BY <4>1, FS_Interval
      <4> QED BY <4>1, <4>2
    <3> QED BY <3>1 DEF LqIndex
  <2>3. LQ_SIZE \in Nat
    BY Sizes
  <2>4. n = Cardinality(T)
    BY DEF SlotsCounted
  <2>5. n = LQ_SIZE
    BY ONLY <2>1, <2>2, <2>4
  <2> QED BY <2>3, <2>5
<1>2. S \in SUBSET Nat
  BY Sizes
<1> HIDE DEF S
<1>3. l \in S
  BY <1>1, <1>2, MinIsLeast DEF S
<1> QED BY <1>3 DEF S

(* What add_load_queue makes of the core: the entries, *)
LoadEntries(c, d, i, j, l, P) ==
    /\ \A p \in RobIndex :
          /\ SameFront(c.rob[p], d.rob[p]) /\ d.rob[p].sq_index = c.rob[p].sq_index
          /\ d.rob[p].memory_instrs_depend_on_me
                = c.rob[p].memory_instrs_depend_on_me \cup (IF p \in P THEN {i} ELSE {})
    /\ \A p \in RobIndex \ {i} : /\ SameOps(c.rob[p], d.rob[p])
                                 /\ d.rob[p].value = c.rob[p].value
    /\ d.rob[i].lq_index = [c.rob[i].lq_index EXCEPT ![j] = l]
    /\ d.sq = c.sq /\ d.sq_tail = c.sq_tail /\ d.sq_occupancy = c.sq_occupancy
    /\ d.sta = c.sta /\ d.rts0 = c.rts0

(* with a store that has its data, *)
Forwarded(c, d, i, j) ==
    /\ d.lq = c.lq /\ d.lq_occupancy = c.lq_occupancy /\ d.rtl0 = c.rtl0
    /\ d.rob[i].num_mem_ops = c.rob[i].num_mem_ops - 1
    /\ d.rob[i].value = [c.rob[i].value EXCEPT ![j] = StoreId(i, j)]
    /\ d.mem = c.mem + AllDone(d.rob[i])
    /\ \E s \in SqIndex : /\ c.sq[s].address = rob[i].instr.source_memory[j]
                          /\ c.sq[s].instr_id = StoreId(i, j) /\ c.sq[s].fetched = "COMPLETED"

(* and without one *)
Slotted(c, d, i, j, l, P) ==
    /\ d.lq = [c.lq EXCEPT ![l] =
                 [instr_id |-> rob[i].instr_id, address |-> rob[i].instr.source_memory[j],
                  rob_index |-> i, data_index |-> j, producer_id |-> StoreId(i, j),
                  fetched |-> "NO"]]
    /\ d.lq_occupancy = c.lq_occupancy + 1
    /\ d.rtl0 = IF P = {} THEN Append(c.rtl0, l) ELSE c.rtl0
    /\ d.rob[i].num_mem_ops = c.rob[i].num_mem_ops /\ d.rob[i].value = c.rob[i].value
    /\ d.mem = c.mem
    /\ P # {} => \A s \in SqIndex :
          (c.sq[s].address = rob[i].instr.source_memory[j] /\ c.sq[s].instr_id = StoreId(i, j))
             => c.sq[s].fetched # "COMPLETED"

(* An operand that is not added is outstanding. *)
LEMMA NotAdded ==
    ASSUME NEW r, NEW q, NEW s, OperationsCounted(r, q, s), NEW i \in RobIndex, NEW j \in Source,
           r[i].instr.source_memory[j] # NoAddr, r[i].lq_index[j] = None
    PROVE  LoadOut(r, q, i, j) /\ r[i].num_mem_ops \in Nat \ {0}
<1>1. LoadOut(r, q, i, j)
  BY DEF LoadOut
<1>2. LoadsOut(r, q, i) \in SUBSET Source /\ StoresOut(r, s, i) \in SUBSET Destination
  BY DEF LoadsOut, StoresOut
<1>3. Cardinality(LoadsOut(r, q, i)) \in Nat /\ Cardinality(StoresOut(r, s, i)) \in Nat
  BY <1>2, FiniteOperands, FS_Subset, FS_CardinalityType
<1>4. r[i].num_mem_ops = Cardinality(LoadsOut(r, q, i)) + Cardinality(StoresOut(r, s, i))
  BY DEF OperationsCounted, LoadsOut, StoresOut
<1>5. r[i].num_mem_ops # 0
  BY <1>1, NothingOut
<1> QED BY <1>1, <1>3, <1>4, <1>5

(* add_load_queue, field by field                                          *)
LEMMA AddLoadFields ==
    ASSUME IInv, NEW c, NEW i \in RobIndex, Stage(c, i), NEW j \in Source, MayAddLoad(c, i, j),
           NEW d, d = add_load_queue(c, i, j),
           NEW P, P = mem_RAW_dependency(i, rob[i].instr.source_memory[j])
    PROVE  /\ rob[i].instr.source_memory[j] # NoAddr /\ d \in CoreType
           /\ \E l \in LqIndex : /\ c.lq[l].address = NoAddr
                                 /\ LoadEntries(c, d, i, j, l, P)
                                 /\ \/ P # {} /\ Forwarded(c, d, i, j)
                                    \/ Slotted(c, d, i, j, l, P)
<1>1. /\ c \in CoreType /\ \A p \in RobIndex : SameFront(rob[p], c.rob[p])
      /\ SlotsCounted(c.lq, c.lq_occupancy) /\ OperationsCounted(c.rob, c.lq, c.sq)
      /\ rob \in [RobIndex -> EntryType]
  BY DEF Stage, StageLoads, StageData, IInv, RobTyped
<1>2. /\ c.rob[i].instr = rob[i].instr /\ c.rob[i].instr_id = rob[i].instr_id
  BY <1>1 DEF SameFront, SameInstr
<1>3. PICK a : a = rob[i].instr.source_memory[j]
  OBVIOUS
<1>4. a # NoAddr /\ c.rob[i].lq_index[j] = None /\ c.lq_occupancy < LQ_SIZE
  BY <1>2, <1>3 DEF MayAddLoad
<1>5. /\ P \in SUBSET (RobIndex \ {i}) /\ StoreId(i, j) \in Int /\ a \in Addr
      /\ StoreId(i, j) = IF P = {} THEN None ELSE rob[CHOOSE p \in P : TRUE].instr_id
  BY <1>3, <1>4, DependencyIs, SMTT(30)
<1>6. PICK l : l = Min({k \in LqIndex : c.lq[k].address = NoAddr})
  OBVIOUS
<1>7. l \in LqIndex /\ c.lq[l].address = NoAddr
  BY <1>1, <1>4, <1>6, FreeSlot DEF CoreType
<1>8. PICK id : id = StoreId(i, j)
  OBVIOUS
<1>9. PICK e : e = c.rob[i]
  OBVIOUS
<1>10. e \in EntryType /\ e.num_mem_ops \in Nat \ {0}
  BY <1>1, <1>2, <1>3, <1>4, <1>9, NotAdded DEF CoreType
<1> DEFINE forwarded == \E s \in SqIndex : /\ c.sq[s].address = a
                                           /\ c.sq[s].instr_id = id /\ P # {}
                                           /\ c.sq[s].fetched = "COMPLETED"
           added == [e EXCEPT !.lq_index = [e.lq_index EXCEPT ![j] = l]]
           done == [added EXCEPT !.num_mem_ops = e.num_mem_ops - 1,
                                 !.value = [e.value EXCEPT ![j] = id]]
           waked == [p \in RobIndex |->
                       IF p \in P
                       THEN [c.rob[p] EXCEPT !.memory_instrs_depend_on_me = @ \cup {i}]
                       ELSE c.rob[p]]
           slot == [instr_id |-> e.instr_id, address |-> a, rob_index |-> i,
                    data_index |-> j, producer_id |-> id, fetched |-> "NO"]
<1>11. d = IF forwarded
           THEN [c EXCEPT !.rob = [waked EXCEPT ![i] = LoadDone(added, j, id)],
                          !.mem = c.mem + AllDone(LoadDone(added, j, id)),
                          !.failed = c.failed \cup Below0(LoadDone(added, j, id))]
           ELSE [c EXCEPT !.rob = [waked EXCEPT ![i] = added],
                          !.lq = [c.lq EXCEPT ![l] = slot],
                          !.lq_occupancy = c.lq_occupancy + 1,
                          !.rtl0 = IF P = {} THEN Append(c.rtl0, l) ELSE c.rtl0]
  BY <1>2, <1>3, <1>5, <1>6, <1>8, <1>9, ZenonT(40) DEF add_load_queue
<1>12. LoadDone(added, j, id) = done
  BY <1>10 DEF LoadDone, EntryType
<1>13. \A p \in RobIndex : c.rob[p] \in EntryType
  BY <1>1 DEF CoreType
<1>14. /\ waked \in [RobIndex -> EntryType]
       /\ \A p \in RobIndex : /\ SameFront(c.rob[p], waked[p]) /\ SameOps(c.rob[p], waked[p])
                               /\ waked[p].value = c.rob[p].value
                               /\ waked[p].memory_instrs_depend_on_me
                                    = c.rob[p].memory_instrs_depend_on_me
                                       \cup (IF p \in P THEN {i} ELSE {})
  <2> SUFFICES ASSUME NEW p \in RobIndex
               PROVE  /\ waked[p] \in EntryType
                      /\ SameFront(c.rob[p], waked[p]) /\ SameOps(c.rob[p], waked[p])
                      /\ waked[p].value = c.rob[p].value
                      /\ waked[p].memory_instrs_depend_on_me
                           = c.rob[p].memory_instrs_depend_on_me
                              \cup (IF p \in P THEN {i} ELSE {})
    OBVIOUS
  <2>1. PICK b, w : b = c.rob[p] /\ w = waked[p]
    OBVIOUS
  <2>2. b \in EntryType
    BY <1>13, <2>1
  <2>3. w = IF p \in P THEN [b EXCEPT !.memory_instrs_depend_on_me
                                     = b.memory_instrs_depend_on_me \cup {i}]
            ELSE b
    BY <2>1
  <2> HIDE DEF waked
  <2>4. w \in EntryType
    BY <2>2, <2>3 DEF EntryType
  <2>5. SameFront(b, w) /\ SameOps(b, w) /\ w.value = b.value
    BY <2>2, <2>3 DEF EntryType, SameFront, SameInstr, SameOps
  <2>6. w.memory_instrs_depend_on_me
          = b.memory_instrs_depend_on_me \cup (IF p \in P THEN {i} ELSE {})
    BY <2>2, <2>3 DEF EntryType
  <2> QED BY <2>1, <2>4, <2>5, <2>6
<1>15. PICK f : f = [e.lq_index EXCEPT ![j] = l]
  OBVIOUS
<1>16. f \in [Source -> LqIndex \cup {None}]
  BY <1>7, <1>10, <1>15 DEF EntryType
<1>17. /\ added \in EntryType /\ SameFront(e, added) /\ added.sq_index = e.sq_index
       /\ added.memory_instrs_depend_on_me = e.memory_instrs_depend_on_me
       /\ added.lq_index = f /\ added.num_mem_ops = e.num_mem_ops /\ added.value = e.value
  <2>1. PICK x : x = added
    OBVIOUS
  <2>2. x = [e EXCEPT !.lq_index = f]
    BY <1>15, <2>1
  <2> HIDE DEF added
  <2>3. /\ x \in EntryType /\ SameFront(e, x) /\ x.sq_index = e.sq_index
        /\ x.memory_instrs_depend_on_me = e.memory_instrs_depend_on_me
        /\ x.lq_index = f /\ x.num_mem_ops = e.num_mem_ops /\ x.value = e.value
    BY <1>10, <1>16, <2>2 DEF EntryType, SameFront, SameInstr
  <2> QED BY <2>1, <2>3
<1>18. PICK v, n : v = [e.value EXCEPT ![j] = id] /\ n = e.num_mem_ops - 1
  OBVIOUS
<1>19. v \in [Source -> Int] /\ n \in Nat
  <2>1. e.value \in [Source -> Int] /\ e.num_mem_ops \in Nat /\ e.num_mem_ops # 0 /\ id \in Int
    BY <1>5, <1>8, <1>10 DEF EntryType
  <2> QED BY <1>18, <2>1
<1>20. /\ done \in EntryType /\ SameFront(e, done) /\ done.sq_index = e.sq_index
       /\ done.memory_instrs_depend_on_me = e.memory_instrs_depend_on_me
       /\ done.lq_index = f /\ done.num_mem_ops = n /\ done.value = v
  <2>1. PICK x, y : x = added /\ y = done
    OBVIOUS
  <2>2. y = [x EXCEPT !.num_mem_ops = n, !.value = v]
    BY <1>18, <2>1
  <2>3. /\ x \in EntryType /\ SameFront(e, x) /\ x.sq_index = e.sq_index
        /\ x.memory_instrs_depend_on_me = e.memory_instrs_depend_on_me
        /\ x.lq_index = f /\ x.num_mem_ops = e.num_mem_ops /\ x.value = e.value
    BY <1>17, <2>1
  <2> HIDE DEF added, done
  <2>4. /\ y \in EntryType /\ SameFront(e, y) /\ y.sq_index = e.sq_index
        /\ y.memory_instrs_depend_on_me = e.memory_instrs_depend_on_me
        /\ y.lq_index = f /\ y.num_mem_ops = n /\ y.value = v
    <3>1. y \in EntryType
      <4>1. x \in EntryType /\ n \in Int /\ v \in [Source -> Int]
        BY <1>19, <2>3
      <4> QED BY ONLY <2>2, <4>1 DEF EntryType
    <3>2. y.num_mem_ops = n /\ y.value = v
      BY <2>2, <2>3 DEF EntryType
    <3>3. /\ y.instr_id = x.instr_id /\ y.instr = x.instr /\ y.scheduled = x.scheduled
          /\ y.executed = x.executed /\ y.reg_ready = x.reg_ready
          /\ y.num_reg_dependent = x.num_reg_dependent
          /\ y.registers_depend_on_me = x.registers_depend_on_me
          /\ y.memory_instrs_depend_on_me = x.memory_instrs_depend_on_me
          /\ y.lq_index = x.lq_index /\ y.sq_index = x.sq_index /\ y.expects = x.expects
      BY <2>2, <2>3 DEF EntryType
    <3> QED BY <2>3, <3>1, <3>2, <3>3 DEF SameFront, SameInstr
  <2> QED BY <2>1, <2>4
<1> HIDE DEF added, done, waked
<1>21. i \notin P /\ e = c.rob[i]
  BY <1>5, <1>9
<1>22. CASE forwarded
  <2> HIDE DEF slot
  <2>1. d = [c EXCEPT !.rob = [waked EXCEPT ![i] = done],
                      !.mem = c.mem + AllDone(done),
                      !.failed = c.failed \cup Below0(done)]
    BY <1>11, <1>12, <1>22
  <2>2. P # {} /\ \E s \in SqIndex : /\ c.sq[s].address = a /\ c.sq[s].instr_id = id
                                     /\ c.sq[s].fetched = "COMPLETED"
    BY <1>22
  <2> HIDE DEF forwarded
  <2>3. AllDone(done) \in Int /\ Below0(done) = {} /\ c.mem \in Int
    BY <1>1, <1>19, <1>20 DEF AllDone, Below0, CoreType
  <2>4. /\ d.rob = [waked EXCEPT ![i] = done] /\ d.mem = c.mem + AllDone(done)
        /\ d.lq = c.lq /\ d.lq_occupancy = c.lq_occupancy /\ d.rtl0 = c.rtl0
        /\ d.sq = c.sq /\ d.sq_tail = c.sq_tail /\ d.sq_occupancy = c.sq_occupancy
        /\ d.sta = c.sta /\ d.rts0 = c.rts0
    BY <1>1, <2>1 DEF CoreType
  <2>5. d \in CoreType
    <3>1. [waked EXCEPT ![i] = done] \in [RobIndex -> EntryType]
      BY <1>14, <1>20
    <3>2. c.mem + AllDone(done) \in Int
      BY <2>3
    <3>3. PICK r, m, g : /\ r = [waked EXCEPT ![i] = done] /\ m = c.mem + AllDone(done)
                         /\ g = c.failed \cup Below0(done)
      OBVIOUS
    <3>4. g \in SUBSET {"producer_id"}
      BY <1>1, <2>3, <3>3 DEF CoreType
    <3>5. d = [c EXCEPT !.rob = r, !.mem = m, !.failed = g]
      BY <2>1, <3>3
    <3> QED BY <1>1, <3>1, <3>2, <3>3, <3>4, <3>5 DEF CoreType
  <2>6. d.rob[i] = done /\ \A p \in RobIndex \ {i} : d.rob[p] = waked[p]
    BY <1>14, <2>4
  <2>7. LoadEntries(c, d, i, j, l, P)
    <3>1. \A p \in RobIndex :
             /\ SameFront(c.rob[p], d.rob[p]) /\ d.rob[p].sq_index = c.rob[p].sq_index
             /\ d.rob[p].memory_instrs_depend_on_me
                   = c.rob[p].memory_instrs_depend_on_me \cup (IF p \in P THEN {i} ELSE {})
      BY <1>14, <1>20, <1>21, <2>6 DEF SameOps
    <3>2. \A p \in RobIndex \ {i} : /\ SameOps(c.rob[p], d.rob[p])
                                    /\ d.rob[p].value = c.rob[p].value
      BY <1>14, <2>6
    <3>3. d.rob[i].lq_index = [c.rob[i].lq_index EXCEPT ![j] = l]
      BY <1>9, <1>15, <1>20, <2>6
    <3> QED BY <2>4, <3>1, <3>2, <3>3 DEF LoadEntries
  <2>8. Forwarded(c, d, i, j)
    BY <1>3, <1>8, <1>9, <1>18, <1>20, <2>2, <2>4, <2>6 DEF Forwarded
  <2> QED BY <1>3, <1>4, <1>7, <2>2, <2>5, <2>7, <2>8
<1>23. CASE ~ forwarded
  <2>1. PICK x, t : x = slot /\ t = IF P = {} THEN Append(c.rtl0, l) ELSE c.rtl0
    OBVIOUS
  <2>2. d = [c EXCEPT !.rob = [waked EXCEPT ![i] = added], !.lq = [c.lq EXCEPT ![l] = x],
                      !.lq_occupancy = c.lq_occupancy + 1, !.rtl0 = t]
    BY <1>11, <1>23, <2>1
  <2>3. P # {} => \A s \in SqIndex : (c.sq[s].address = a /\ c.sq[s].instr_id = id)
                                      => c.sq[s].fetched # "COMPLETED"
    BY <1>23
  <2> HIDE DEF forwarded
  <2>4. x \in LoadType /\ x = [instr_id |-> rob[i].instr_id, address |-> a, rob_index |-> i,
                               data_index |-> j, producer_id |-> id, fetched |-> "NO"]
    BY <1>2, <1>5, <1>8, <1>9, <1>10, <2>1 DEF LoadType, Phase, EntryType
  <2> HIDE DEF slot
  <2>5. /\ d.rob = [waked EXCEPT ![i] = added] /\ d.lq = [c.lq EXCEPT ![l] = x]
        /\ d.lq_occupancy = c.lq_occupancy + 1 /\ d.rtl0 = t /\ d.mem = c.mem
        /\ d.sq = c.sq /\ d.sq_tail = c.sq_tail /\ d.sq_occupancy = c.sq_occupancy
        /\ d.sta = c.sta /\ d.rts0 = c.rts0
    BY <1>1, <2>2 DEF CoreType
  <2>6. d \in CoreType
    <3>1. PICK r, q : r = [waked EXCEPT ![i] = added] /\ q = [c.lq EXCEPT ![l] = x]
      OBVIOUS
    <3>2. r \in [RobIndex -> EntryType] /\ q \in [LqIndex -> LoadType]
      BY <1>1, <1>7, <1>14, <1>17, <2>4, <3>1 DEF CoreType
    <3>3. t \in Seq(LqIndex) /\ c.lq_occupancy + 1 \in Int
      BY <1>1, <1>7, <2>1 DEF CoreType
    <3>4. d = [c EXCEPT !.rob = r, !.lq = q, !.lq_occupancy = c.lq_occupancy + 1, !.rtl0 = t]
      BY <2>2, <3>1
    <3> QED BY <1>1, <3>2, <3>3, <3>4 DEF CoreType
  <2>7. d.rob[i] = added /\ \A p \in RobIndex \ {i} : d.rob[p] = waked[p]
    BY <1>14, <2>5
  <2>8. LoadEntries(c, d, i, j, l, P)
    <3>1. \A p \in RobIndex :
             /\ SameFront(c.rob[p], d.rob[p]) /\ d.rob[p].sq_index = c.rob[p].sq_index
             /\ d.rob[p].memory_instrs_depend_on_me
                   = c.rob[p].memory_instrs_depend_on_me \cup (IF p \in P THEN {i} ELSE {})
      BY <1>14, <1>17, <1>21, <2>7 DEF SameOps
    <3>2. \A p \in RobIndex \ {i} : /\ SameOps(c.rob[p], d.rob[p])
                                    /\ d.rob[p].value = c.rob[p].value
      BY <1>14, <2>7
    <3>3. d.rob[i].lq_index = [c.rob[i].lq_index EXCEPT ![j] = l]
      BY <1>9, <1>15, <1>17, <2>7
    <3> QED BY <2>5, <3>1, <3>2, <3>3 DEF LoadEntries
  <2>9. Slotted(c, d, i, j, l, P)
    BY <1>3, <1>8, <1>9, <1>17, <2>1, <2>3, <2>4, <2>5, <2>7 DEF Slotted
  <2> QED BY <1>3, <1>4, <1>7, <2>6, <2>8, <2>9
<1> QED BY <1>22, <1>23

(* A load is added: what is outstanding, *)
LEMMA LoadAddedOut ==
    ASSUME IInv, NEW c, NEW i \in RobIndex, Stage(c, i), NEW j \in Source, MayAddLoad(c, i, j),
           rob[i].instr.source_memory[j] # NoAddr,
           NEW d \in CoreType, NEW P, NEW l \in LqIndex, c.lq[l].address = NoAddr,
           LoadEntries(c, d, i, j, l, P), Forwarded(c, d, i, j) \/ Slotted(c, d, i, j, l, P)
    PROVE  /\ \A p \in RobIndex : \A m \in Source : ~ (p = i /\ m = j) =>
                 /\ d.rob[p].lq_index[m] = c.rob[p].lq_index[m]
                 /\ LoadOut(d.rob, d.lq, p, m) <=> LoadOut(c.rob, c.lq, p, m)
           /\ \A p \in RobIndex : \A m \in Destination :
                 StoreOut(d.rob, d.sq, p, m) <=> StoreOut(c.rob, c.sq, p, m)
           /\ LoadOut(c.rob, c.lq, i, j) /\ d.rob[i].lq_index[j] = l /\ l # None
           /\ c.rob[i].lq_index[j] = None
           /\ Forwarded(c, d, i, j) => ~ LoadOut(d.rob, d.lq, i, j)
           /\ Slotted(c, d, i, j, l, P) => LoadOut(d.rob, d.lq, i, j)
           /\ c.lq[l] = FreeLoad
           /\ \A p \in RobIndex : /\ c.rob[p].instr = rob[p].instr
                                  /\ c.rob[p].instr_id = rob[p].instr_id
                                  /\ d.rob[p].instr = rob[p].instr
                                  /\ d.rob[p].instr_id = rob[p].instr_id
<1>1. /\ c \in CoreType /\ \A p \in RobIndex : SameFront(rob[p], c.rob[p])
      /\ LoadSlots(c.rob, c.lq) /\ OperationsCounted(c.rob, c.lq, c.sq)
      /\ RobTyped /\ Ring
  BY DEF Stage, StageLoads, StageData, IInv
<1>2. \A p \in RobIndex : /\ c.rob[p].instr = rob[p].instr /\ c.rob[p].instr_id = rob[p].instr_id
                          /\ d.rob[p].instr = rob[p].instr /\ d.rob[p].instr_id = rob[p].instr_id
                          /\ d.rob[p].sq_index = c.rob[p].sq_index
  BY <1>1 DEF LoadEntries, SameFront, SameInstr
<1>3. \A p \in RobIndex : c.rob[p] \in EntryType /\ d.rob[p] \in EntryType
  BY <1>1 DEF CoreType
<1>4. /\ d.rob[i].lq_index = [c.rob[i].lq_index EXCEPT ![j] = l] /\ d.sq = c.sq
      /\ \A p \in RobIndex \ {i} : d.rob[p].lq_index = c.rob[p].lq_index
  BY DEF LoadEntries, SameOps
<1>5. c.rob[i].lq_index \in [Source -> LqIndex \cup {None}]
  BY <1>3 DEF EntryType
<1>6. /\ d.rob[i].lq_index[j] = l
      /\ \A m \in Source : m # j => d.rob[i].lq_index[m] = c.rob[i].lq_index[m]
  BY <1>4, <1>5
<1>7. c.lq[l] = FreeLoad /\ FreeLoad.instr_id = None
  BY <1>1 DEF LoadSlots, FreeLoad
<1>8. l # None /\ c.rob[i].lq_index[j] = None
  BY Sizes DEF None, MayAddLoad
<1>9. LoadOut(c.rob, c.lq, i, j)
  BY <1>2, <1>8 DEF LoadOut
<1>10. \A p \in RobIndex : \A m \in Source :
          rob[p].instr.source_memory[m] # NoAddr => Used(p) /\ rob[p].instr_id # None
  BY <1>1, OperandUsed
<1>11. ASSUME Forwarded(c, d, i, j) PROVE ~ LoadOut(d.rob, d.lq, i, j)
  BY <1>2, <1>6, <1>7, <1>8, <1>10, <1>11 DEF Forwarded, LoadOut
<1>12. ASSUME Slotted(c, d, i, j, l, P)
       PROVE  /\ LoadOut(d.rob, d.lq, i, j)
              /\ d.lq[l].instr_id = rob[i].instr_id /\ d.lq[l].data_index = j
              /\ \A k \in LqIndex : k # l => d.lq[k] = c.lq[k]
  <2>1. c.lq \in [LqIndex -> LoadType]
    BY <1>1 DEF CoreType
  <2>2. /\ d.lq[l].instr_id = rob[i].instr_id /\ d.lq[l].data_index = j
        /\ \A k \in LqIndex : k # l => d.lq[k] = c.lq[k]
    BY <1>12, <2>1 DEF Slotted
  <2> QED BY <1>2, <1>6, <2>2 DEF LoadOut
<1>13. ASSUME NEW p \in RobIndex, NEW m \in Source, ~ (p = i /\ m = j)
       PROVE  /\ d.rob[p].lq_index[m] = c.rob[p].lq_index[m]
              /\ LoadOut(d.rob, d.lq, p, m) <=> LoadOut(c.rob, c.lq, p, m)
  <2>1. d.rob[p].lq_index[m] = c.rob[p].lq_index[m]
    BY <1>4, <1>6, <1>13
  <2>2. PICK k : k = c.rob[p].lq_index[m]
    OBVIOUS
  <2>3. k \in LqIndex \cup {None}
    BY <1>3, <2>2 DEF EntryType
  <2>4. CASE Forwarded(c, d, i, j)
    BY <1>2, <2>1, <2>4 DEF Forwarded, LoadOut
  <2>5. CASE Slotted(c, d, i, j, l, P) /\ k # l
    BY <1>2, <1>12, <2>1, <2>2, <2>3, <2>5 DEF LoadOut
  <2>6. CASE Slotted(c, d, i, j, l, P) /\ k = l
    <3>1. rob[p].instr.source_memory[m] # NoAddr /\ rob[i].instr_id = rob[p].instr_id => p = i
      BY <1>1, <1>10, UniqueId
    <3>2. ~ LoadOut(d.rob, d.lq, p, m)
      BY <1>2, <1>8, <1>12, <1>13, <2>1, <2>2, <2>6, <3>1 DEF LoadOut
    <3>3. ~ LoadOut(c.rob, c.lq, p, m)
      BY <1>2, <1>7, <1>8, <1>10, <2>2, <2>6 DEF LoadOut
    <3> QED BY <2>1, <3>2, <3>3
  <2> QED BY <2>1, <2>4, <2>5, <2>6
<1>14. \A p \in RobIndex : \A m \in Destination :
          StoreOut(d.rob, d.sq, p, m) <=> StoreOut(c.rob, c.sq, p, m)
  BY <1>2, <1>4 DEF StoreOut
<1>15. /\ Forwarded(c, d, i, j) => ~ LoadOut(d.rob, d.lq, i, j)
       /\ Slotted(c, d, i, j, l, P) => LoadOut(d.rob, d.lq, i, j)
  BY <1>11, <1>12
<1>16. \A p \in RobIndex : \A m \in Source : ~ (p = i /\ m = j) =>
          /\ d.rob[p].lq_index[m] = c.rob[p].lq_index[m]
          /\ LoadOut(d.rob, d.lq, p, m) <=> LoadOut(c.rob, c.lq, p, m)
  BY <1>13
<1> QED BY <1>2, <1>6, <1>7, <1>8, <1>9, <1>14, <1>15, <1>16

(* the slots, *)
LEMMA LoadAddedSlots ==
    ASSUME IInv, NEW c, NEW i \in RobIndex, Stage(c, i), NEW j \in Source, MayAddLoad(c, i, j),
           rob[i].instr.source_memory[j] # NoAddr,
           NEW d \in CoreType, NEW P, NEW l \in LqIndex, c.lq[l].address = NoAddr,
           P = {} <=> StoreFor(i, j) = {},
           LoadEntries(c, d, i, j, l, P), Forwarded(c, d, i, j) \/ Slotted(c, d, i, j, l, P)
    PROVE  StageLoads(d)
<1>1. /\ c \in CoreType /\ LoadSlots(c.rob, c.lq) /\ LoadIndices(c.rob)
      /\ ReadyLoads(c.lq, c.rtl0) /\ SlotsCounted(c.lq, c.lq_occupancy)
      /\ c.lq \in [LqIndex -> LoadType] /\ c.rtl0 \in Seq(LqIndex) /\ RobTyped /\ Ring
  BY DEF Stage, StageLoads, CoreType, IInv
<1>2. /\ \A p \in RobIndex : \A m \in Source :
            ~ (p = i /\ m = j) => d.rob[p].lq_index[m] = c.rob[p].lq_index[m]
      /\ d.rob[i].lq_index[j] = l /\ c.rob[i].lq_index[j] = None
      /\ \A p \in RobIndex : /\ c.rob[p].instr = rob[p].instr /\ d.rob[p].instr = rob[p].instr
                             /\ c.rob[p].instr_id = rob[p].instr_id
                             /\ d.rob[p].instr_id = rob[p].instr_id
  BY LoadAddedOut
<1>3. rob[i].instr_id # None
  BY <1>1, OperandUsed
<1>4. LoadIndices(d.rob)
  <2> SUFFICES ASSUME NEW p \in RobIndex, NEW m \in Source, d.rob[p].lq_index[m] # None
               PROVE  d.rob[p].instr.source_memory[m] # NoAddr
    BY DEF LoadIndices
  <2> QED BY <1>1, <1>2 DEF LoadIndices
<1>5. ASSUME NEW k \in LqIndex, c.lq[k].address # NoAddr
      PROVE  LET e == d.rob[c.lq[k].rob_index]
             IN  /\ e.instr_id = c.lq[k].instr_id /\ e.instr_id # None
                 /\ e.lq_index[c.lq[k].data_index] = k
                 /\ e.instr.source_memory[c.lq[k].data_index] = c.lq[k].address
                 /\ c.lq[k].fetched # "COMPLETED"
  <2>1. PICK x, m : x = c.lq[k].rob_index /\ m = c.lq[k].data_index
    OBVIOUS
  <2>2. x \in RobIndex /\ m \in Source /\ k # None
    BY <1>1, <2>1, Sizes DEF LoadType, None
  <2>3. /\ c.rob[x].instr_id = c.lq[k].instr_id /\ c.rob[x].instr_id # None
        /\ c.rob[x].lq_index[m] = k
        /\ c.rob[x].instr.source_memory[m] = c.lq[k].address
        /\ c.lq[k].fetched # "COMPLETED"
    <3>1. PICK r, q : r = c.rob /\ q = c.lq
      OBVIOUS
    <3>2. LoadSlots(r, q) /\ q[k].address # NoAddr /\ x = q[k].rob_index /\ m = q[k].data_index
      BY <1>1, <1>5, <2>1, <3>1
    <3>3. /\ r[x].instr_id = q[k].instr_id /\ r[x].instr_id # None /\ r[x].lq_index[m] = k
          /\ r[x].instr.source_memory[m] = q[k].address /\ q[k].fetched # "COMPLETED"
      BY <3>2 DEF LoadSlots
    <3> QED BY <3>1, <3>3
  <2> QED BY <1>2, <2>1, <2>2, <2>3
<1>6. CASE Forwarded(c, d, i, j)
  <2>1. d.lq = c.lq /\ d.lq_occupancy = c.lq_occupancy /\ d.rtl0 = c.rtl0
    BY <1>6 DEF Forwarded
  <2>2. LoadSlots(d.rob, d.lq)
    <3>1. \A k \in LqIndex : c.lq[k].address = NoAddr => c.lq[k] = FreeLoad
      BY <1>1 DEF LoadSlots
    <3>2. PICK q : q = c.lq
      OBVIOUS
    <3>3. ASSUME NEW k \in LqIndex, q[k].address # NoAddr
          PROVE  LET e == d.rob[q[k].rob_index]
                 IN  /\ e.instr_id = q[k].instr_id /\ e.instr_id # None
                     /\ e.lq_index[q[k].data_index] = k
                     /\ e.instr.source_memory[q[k].data_index] = q[k].address
                     /\ q[k].fetched # "COMPLETED"
      BY <1>5, <3>2, <3>3
    <3>4. \A k \in LqIndex : q[k].address = NoAddr => q[k] = FreeLoad
      BY <3>1, <3>2
    <3>5. d.lq = q
      BY <2>1, <3>2
    <3>6. LoadSlots(d.rob, q)
      BY <3>3, <3>4, Zenon DEF LoadSlots
    <3> QED BY <3>5, <3>6
  <2> QED BY <1>1, <1>4, <2>1, <2>2 DEF StageLoads
<1>7. CASE Slotted(c, d, i, j, l, P)
  <2>1. PICK x : x = [instr_id |-> rob[i].instr_id, address |-> rob[i].instr.source_memory[j],
                      rob_index |-> i, data_index |-> j, producer_id |-> StoreId(i, j),
                      fetched |-> "NO"]
    OBVIOUS
  <2>2. /\ d.lq = [c.lq EXCEPT ![l] = x] /\ d.lq_occupancy = c.lq_occupancy + 1
        /\ d.rtl0 = IF P = {} THEN Append(c.rtl0, l) ELSE c.rtl0
    BY <1>7, <2>1 DEF Slotted
  <2>3. d.lq[l] = x /\ \A k \in LqIndex : k # l => d.lq[k] = c.lq[k]
    BY <1>1, <2>2
  <2>4. LoadSlots(d.rob, d.lq)
    <3> SUFFICES ASSUME NEW k \in LqIndex
                 PROVE  IF d.lq[k].address = NoAddr THEN d.lq[k] = FreeLoad
                        ELSE LET e == d.rob[d.lq[k].rob_index]
                             IN  /\ e.instr_id = d.lq[k].instr_id /\ e.instr_id # None
                                 /\ e.lq_index[d.lq[k].data_index] = k
                                 /\ e.instr.source_memory[d.lq[k].data_index] = d.lq[k].address
                                 /\ d.lq[k].fetched # "COMPLETED"
      BY DEF LoadSlots
    <3>1. CASE k = l
      <4>1. PICK e : e = d.rob[i]
        OBVIOUS
      <4>2. /\ e.instr_id = x.instr_id /\ x.instr_id # None /\ e.lq_index[j] = l
            /\ e.instr.source_memory[j] = x.address
        BY <1>2, <1>3, <2>1, <4>1
      <4>3. /\ x.address # NoAddr /\ x.rob_index = i /\ x.data_index = j
            /\ x.fetched # "COMPLETED"
        BY <2>1
      <4> QED BY <2>3, <3>1, <4>1, <4>2, <4>3
    <3>2. CASE k # l
      <4>1. c.lq[k].address = NoAddr => c.lq[k] = FreeLoad
        BY <1>1 DEF LoadSlots
      <4> QED BY <1>5, <2>3, <3>2, <4>1, ZenonT(40)
    <3> QED BY <3>1, <3>2
  <2>5. ReadyLoads(d.lq, d.rtl0)
    <3>1. ~ In(c.rtl0, l)
      BY <1>1 DEF In, ReadyLoads
    <3>2. Distinct(c.rtl0) /\ \A k : In(c.rtl0, k) =>
             /\ c.lq[k].address # NoAddr /\ c.lq[k].producer_id = None /\ c.lq[k].fetched = "NO"
             /\ k \in LqIndex
      BY <1>1 DEF ReadyLoads, In
    <3>3. /\ \A k : In(Append(c.rtl0, l), k) <=> In(c.rtl0, k) \/ k = l
          /\ Distinct(Append(c.rtl0, l))
      BY <1>1, <3>1, <3>2, AppendItems
    <3>4. Distinct(d.rtl0)
      BY <2>2, <3>2, <3>3
    <3>5. \A k : In(d.rtl0, k) => In(c.rtl0, k) \/ (k = l /\ P = {})
      BY <2>2, <3>3
    <3>6. P = {} => x.producer_id = None
      BY <2>1 DEF StoreId
    <3>7. \A k : In(d.rtl0, k) =>
             /\ d.lq[k].address # NoAddr /\ d.lq[k].producer_id = None /\ d.lq[k].fetched = "NO"
      <4> SUFFICES ASSUME NEW k, In(d.rtl0, k)
                   PROVE  /\ d.lq[k].address # NoAddr /\ d.lq[k].producer_id = None
                          /\ d.lq[k].fetched = "NO"
        OBVIOUS
      <4>1. CASE In(c.rtl0, k)
        BY <2>3, <3>1, <3>2, <4>1
      <4>2. CASE k = l /\ P = {}
        BY <2>1, <2>3, <3>6, <4>2
      <4> QED BY <3>5, <4>1, <4>2
    <3> QED BY <3>4, <3>7 DEF ReadyLoads, In
  <2>6. SlotsCounted(d.lq, d.lq_occupancy)
    <3> DEFINE S == {k \in LqIndex : c.lq[k].address # NoAddr}
    <3>1. {k \in LqIndex : d.lq[k].address # NoAddr} = S \cup {l}
      BY <2>1, <2>3
    <3>2. l \notin S /\ S \in SUBSET LqIndex
      OBVIOUS
    <3>3. c.lq_occupancy = Cardinality(S)
      BY <1>1 DEF SlotsCounted
    <3>t. SlotsCounted(d.lq, d.lq_occupancy) <=> d.lq_occupancy = Cardinality(S \cup {l})
      BY <3>1 DEF SlotsCounted
    <3> HIDE DEF S
    <3>4. IsFiniteSet(S)
      BY <3>2, Sizes, FS_Subset
    <3>5. Cardinality(S \cup {l}) = Cardinality(S) + 1
      BY <3>2, <3>4, FS_AddElement
    <3>6. d.lq_occupancy = Cardinality(S \cup {l})
      BY <2>2, <3>3, <3>5
    <3> QED BY <3>t, <3>6
  <2> QED BY <1>4, <2>4, <2>5, <2>6 DEF StageLoads
<1> QED BY <1>6, <1>7

(* A step that leaves stores alone keeps their part of the invariant.      *)
LEMMA StoresAsBefore ==
    ASSUME NEW c \in CoreType, NEW d \in CoreType, StageStores(c),
           d.sq = c.sq, d.sq_tail = c.sq_tail, d.sq_occupancy = c.sq_occupancy,
           d.sta = c.sta, d.rts0 = c.rts0,
           \A p \in RobIndex : /\ d.rob[p].sq_index = c.rob[p].sq_index
                               /\ d.rob[p].instr = c.rob[p].instr
                               /\ d.rob[p].instr_id = c.rob[p].instr_id
    PROVE  StageStores(d)
<1>1. /\ StoreSlots(c.rob, c.sq) /\ StoreIndices(c.rob, c.sq) /\ ReadyStores(c.sq, c.rts0)
      /\ StoreOrder(c.sq, c.sq_tail, c.sq_occupancy, c.sta)
      /\ \A k \in SqIndex : c.sq[k].rob_index \in RobIndex
  BY DEF StageStores, CoreType, StoreType
<1>2. PICK r, q, s : r = c.rob /\ q = d.rob /\ s = c.sq
  OBVIOUS
<1>3. /\ StoreSlots(r, s) /\ StoreIndices(r, s) /\ \A k \in SqIndex : s[k].rob_index \in RobIndex
      /\ \A p \in RobIndex : /\ q[p].sq_index = r[p].sq_index /\ q[p].instr = r[p].instr
                             /\ q[p].instr_id = r[p].instr_id
  BY <1>1, <1>2
<1>4. StoreSlots(q, s)
  BY <1>3 DEF StoreSlots
<1>5. StoreIndices(q, s)
  BY <1>3 DEF StoreIndices
<1> QED BY <1>1, <1>2, <1>4, <1>5 DEF StageStores

(* and the data. *)
LEMMA LoadAddedCount ==
    ASSUME IInv, NEW c, NEW i \in RobIndex, Stage(c, i), NEW j \in Source, MayAddLoad(c, i, j),
           rob[i].instr.source_memory[j] # NoAddr,
           NEW d \in CoreType, NEW P, NEW l \in LqIndex, c.lq[l].address = NoAddr,
           LoadEntries(c, d, i, j, l, P), Forwarded(c, d, i, j) \/ Slotted(c, d, i, j, l, P)
    PROVE  /\ OperationsCounted(d.rob, d.lq, d.sq)
           /\ d.mem = inflight.mem + (IF d.rob[i].num_mem_ops = 0 THEN 1 ELSE 0)
<1>1. /\ c \in CoreType /\ OperationsCounted(c.rob, c.lq, c.sq)
      /\ c.mem = inflight.mem + (IF c.rob[i].num_mem_ops = 0 THEN 1 ELSE 0)
      /\ inflight.mem \in Int
  BY DEF Stage, StageData, IInv, RobTyped
<1>2. /\ \A p \in RobIndex : \A m \in Source : ~ (p = i /\ m = j) =>
            /\ d.rob[p].lq_index[m] = c.rob[p].lq_index[m]
            /\ LoadOut(d.rob, d.lq, p, m) <=> LoadOut(c.rob, c.lq, p, m)
      /\ \A p \in RobIndex : \A m \in Destination :
            StoreOut(d.rob, d.sq, p, m) <=> StoreOut(c.rob, c.sq, p, m)
      /\ LoadOut(c.rob, c.lq, i, j) /\ c.rob[i].lq_index[j] = None
      /\ Forwarded(c, d, i, j) => ~ LoadOut(d.rob, d.lq, i, j)
      /\ Slotted(c, d, i, j, l, P) => LoadOut(d.rob, d.lq, i, j)
      /\ c.rob[i].instr = rob[i].instr
  BY LoadAddedOut
<1>3. c.rob[i].num_mem_ops \in Nat \ {0}
  BY <1>1, <1>2, NotAdded
<1>4. \A p \in RobIndex : /\ StoresOut(d.rob, d.sq, p) = StoresOut(c.rob, c.sq, p)
                          /\ p # i => LoadsOut(d.rob, d.lq, p) = LoadsOut(c.rob, c.lq, p)
                          /\ c.rob[p].num_mem_ops = Cardinality(LoadsOut(c.rob, c.lq, p))
                                                     + Cardinality(StoresOut(c.rob, c.sq, p))
  BY <1>1, <1>2 DEF StoresOut, LoadsOut, OperationsCounted
<1>5. \A p \in RobIndex \ {i} : d.rob[p].num_mem_ops = c.rob[p].num_mem_ops
  BY DEF LoadEntries, SameOps
<1>6. /\ d.rob[i].num_mem_ops = Cardinality(LoadsOut(d.rob, d.lq, i))
                                 + Cardinality(StoresOut(d.rob, d.sq, i))
      /\ d.mem = inflight.mem + (IF d.rob[i].num_mem_ops = 0 THEN 1 ELSE 0)
  <2>1. CASE Slotted(c, d, i, j, l, P)
    <3>1. LoadsOut(d.rob, d.lq, i) = LoadsOut(c.rob, c.lq, i)
      BY <1>2, <2>1 DEF LoadsOut
    <3>2. d.rob[i].num_mem_ops = c.rob[i].num_mem_ops /\ d.mem = c.mem
      BY <2>1 DEF Slotted
    <3> QED BY <1>1, <1>4, <3>1, <3>2
  <2>2. CASE Forwarded(c, d, i, j)
    <3>1. PICK S : S = LoadsOut(c.rob, c.lq, i)
      OBVIOUS
    <3>2. S \in SUBSET Source /\ j \in S
      BY <1>2, <3>1 DEF LoadsOut
    <3>3. LoadsOut(d.rob, d.lq, i) = S \ {j}
      BY <1>2, <2>2, <3>1 DEF LoadsOut
    <3>4. IsFiniteSet(S)
      BY <3>2, FiniteOperands, FS_Subset
    <3>5. Cardinality(S \ {j}) = Cardinality(S) - 1 /\ Cardinality(S) \in Nat
      BY <3>2, <3>4, FS_RemoveElement, FS_CardinalityType
    <3>6. StoresOut(c.rob, c.sq, i) \in SUBSET Destination
      BY DEF StoresOut
    <3>7. Cardinality(StoresOut(c.rob, c.sq, i)) \in Nat
      BY <3>6, FiniteOperands, FS_Subset, FS_CardinalityType
    <3>8. d.rob[i].num_mem_ops = c.rob[i].num_mem_ops - 1 /\ d.mem = c.mem + AllDone(d.rob[i])
      BY <2>2 DEF Forwarded
    <3>9. PICK a, b, n, m : /\ a = Cardinality(S) /\ b = Cardinality(StoresOut(c.rob, c.sq, i))
                            /\ n = c.rob[i].num_mem_ops /\ m = d.rob[i].num_mem_ops
      OBVIOUS
    <3>10. n = a + b /\ m = n - 1 /\ a \in Nat /\ b \in Nat
      BY <1>4, <3>1, <3>5, <3>7, <3>8, <3>9
    <3>11. m = (a - 1) + b
      BY <3>10
    <3>12. d.rob[i].num_mem_ops = Cardinality(LoadsOut(d.rob, d.lq, i))
                                 + Cardinality(StoresOut(d.rob, d.sq, i))
      BY <1>4, <3>3, <3>5, <3>9, <3>11
    <3>13. c.mem = inflight.mem
      BY <1>1, <1>3
    <3>14. d.mem = inflight.mem + (IF d.rob[i].num_mem_ops = 0 THEN 1 ELSE 0)
      BY <3>8, <3>13 DEF AllDone
    <3> QED BY <3>12, <3>14
  <2> QED BY <2>1, <2>2
<1>7. OperationsCounted(d.rob, d.lq, d.sq)
  <2>1. \A p \in RobIndex : d.rob[p].num_mem_ops = Cardinality(LoadsOut(d.rob, d.lq, p))
                                 + Cardinality(StoresOut(d.rob, d.sq, p))
    BY <1>4, <1>5, <1>6
  <2> QED BY <2>1 DEF OperationsCounted, LoadsOut, StoresOut
<1> QED BY <1>6, <1>7

(* What Producers says of one load of the queue *)
FedBy(r, s, w, p) ==
    IF w.producer_id = None THEN StoreWriters(w.rob_index, w.address) = {}
    ELSE /\ StoreWriters(w.rob_index, w.address) # {} /\ w.producer_id = rob[p].instr_id
         /\ w.rob_index \in r[p].memory_instrs_depend_on_me
         /\ w.fetched = "NO"
         /\ \A m \in Destination : rob[p].instr.destination_memory[m] = w.address
                                     => StoreOut(r, s, p, m)

(* Producers, one load at a time                                           *)
LEMMA FedAre ==
    ASSUME NEW r, NEW q, NEW s
    PROVE  Producers(r, q, s) <=> \A l \in LqIndex : q[l].address # NoAddr =>
               FedBy(r, s, q[l], Nearest(StoreWriters(q[l].rob_index, q[l].address)))
BY DEF Producers, FedBy

(* add_load_queue: a load that waits is in the list of its producer.       *)
LEMMA LoadAddedProducers ==
    ASSUME IInv, NEW c, NEW i \in RobIndex, Used(i), Stage(c, i), NEW j \in Source,
           MayAddLoad(c, i, j), rob[i].instr.source_memory[j] # NoAddr,
           NEW d \in CoreType, NEW l \in LqIndex, c.lq[l].address = NoAddr,
           NEW P, P = mem_RAW_dependency(i, rob[i].instr.source_memory[j]),
           LoadEntries(c, d, i, j, l, P), Forwarded(c, d, i, j) \/ Slotted(c, d, i, j, l, P)
    PROVE  Producers(d.rob, d.lq, d.sq) /\ MemoryListed(d.rob)
<1>1. /\ c \in CoreType /\ Producers(c.rob, c.lq, c.sq) /\ MemoryListed(c.rob)
      /\ StoreSlots(c.rob, c.sq) /\ StoreIndices(c.rob, c.sq)
      /\ RobTyped /\ Ring /\ c.lq \in [LqIndex -> LoadType]
      /\ \A p \in RobIndex : c.rob[p] \in EntryType
  BY DEF Stage, StageData, StageStores, IInv, CoreType
<1>2. PICK a : a = rob[i].instr.source_memory[j]
  OBVIOUS
<1>3. /\ P = IF StoreWriters(i, a) = {} THEN {} ELSE {Nearest(StoreWriters(i, a))}
      /\ StoreId(i, j) = IF StoreWriters(i, a) = {} THEN None
                         ELSE rob[Nearest(StoreWriters(i, a))].instr_id
      /\ P \in SUBSET (RobIndex \ {i}) /\ \A p \in P : p \in Before(i)
      /\ P # {} => StoreId(i, j) # None
      /\ a \in Addr /\ a # NoAddr
  <2>1. StoreFor(i, j) = StoreWriters(i, a)
    BY <1>2 DEF StoreFor
  <2>2. /\ P \in SUBSET (RobIndex \ {i}) /\ \A p \in P : p \in Before(i)
        /\ P # {} => StoreId(i, j) # None
        /\ rob[i].instr.source_memory[j] \in Addr
    BY DependencyIs, SMTT(30)
  <2>4. P = IF StoreWriters(i, a) = {} THEN {} ELSE {Nearest(StoreWriters(i, a))}
    BY <1>2 DEF mem_RAW_dependency, StoreWriters
  <2>3. StoreId(i, j) = IF StoreFor(i, j) = {} THEN None ELSE rob[Nearest(StoreFor(i, j))].instr_id
    BY DEF StoreId
  <2> QED BY <1>2, <2>1, <2>2, <2>3, <2>4
<1>4. /\ \A p \in RobIndex : \A m \in Destination :
            StoreOut(d.rob, d.sq, p, m) <=> StoreOut(c.rob, c.sq, p, m)
      /\ \A p \in RobIndex : /\ c.rob[p].instr = rob[p].instr
                             /\ c.rob[p].instr_id = rob[p].instr_id
      /\ c.lq[l] = FreeLoad
  BY LoadAddedOut
<1>5. \A p \in RobIndex : d.rob[p].memory_instrs_depend_on_me
                = c.rob[p].memory_instrs_depend_on_me \cup (IF p \in P THEN {i} ELSE {})
  BY DEF LoadEntries
<1>6. MemoryListed(d.rob)
  BY <1>1, <1>3, <1>5 DEF MemoryListed
<1>7. ASSUME NEW w \in LoadType, w.address # NoAddr, NEW p, p = Nearest(StoreWriters(w.rob_index, w.address)),
             FedBy(c.rob, c.sq, w, p)
      PROVE  FedBy(d.rob, d.sq, w, p)
  <2>1. w.rob_index \in RobIndex /\ w.address \in Addr
    BY <1>7 DEF LoadType
  <2>2. PICK x, b : x = w.rob_index /\ b = w.address
    OBVIOUS
  <2>3. StoreWriters(x, b) # {} => p \in RobIndex
    BY <1>1, <1>7, <2>1, <2>2, NearestIn DEF RobTyped
  <2>4. StoreWriters(x, b) # {} =>
           /\ c.rob[p].memory_instrs_depend_on_me \subseteq d.rob[p].memory_instrs_depend_on_me
           /\ \A m \in Destination : StoreOut(c.rob, c.sq, p, m) => StoreOut(d.rob, d.sq, p, m)
    BY <1>4, <1>5, <2>3
  <2> QED BY <1>7, <2>2, <2>4 DEF FedBy
<1>8. ASSUME NEW k \in LqIndex, c.lq[k].address # NoAddr
      PROVE  FedBy(d.rob, d.sq, c.lq[k], Nearest(StoreWriters(c.lq[k].rob_index, c.lq[k].address)))
  <2>1. FedBy(c.rob, c.sq, c.lq[k], Nearest(StoreWriters(c.lq[k].rob_index, c.lq[k].address)))
    BY <1>1, <1>8, FedAre
  <2>2. c.lq[k] \in LoadType
    BY <1>1
  <2> QED BY <1>7, <1>8, <2>1, <2>2
<1>9. CASE Forwarded(c, d, i, j)
  <2>1. d.lq = c.lq
    BY <1>9 DEF Forwarded
  <2>2. Producers(d.rob, d.lq, d.sq)
    BY <1>8, <2>1, FedAre
  <2> QED BY <1>6, <2>2
<1>10. CASE Slotted(c, d, i, j, l, P)
  <2>1. PICK x : x = [instr_id |-> rob[i].instr_id, address |-> rob[i].instr.source_memory[j],
                      rob_index |-> i, data_index |-> j, producer_id |-> StoreId(i, j),
                      fetched |-> "NO"]
    OBVIOUS
  <2>2. d.lq = [c.lq EXCEPT ![l] = x]
    BY <1>10, <2>1 DEF Slotted
  <2>3. d.lq[l] = x /\ \A k \in LqIndex : k # l => d.lq[k] = c.lq[k]
    BY <1>1, <2>2
  <2>4. /\ x.rob_index = i /\ x.address = a /\ x.producer_id = StoreId(i, j) /\ x.fetched = "NO"
    BY <1>2, <2>1
  <2>5. PICK p : p = Nearest(StoreWriters(i, a))
    OBVIOUS
  <2>6. FedBy(d.rob, d.sq, x, p)
    <3>1. CASE StoreWriters(i, a) = {}
      BY <1>3, <2>4, <3>1 DEF FedBy
    <3>2. CASE StoreWriters(i, a) # {}
      <4>1. P = {p} /\ p \in RobIndex /\ StoreId(i, j) = rob[p].instr_id /\ StoreId(i, j) # None
        BY <1>3, <2>5, <3>2
      <4>2. i \in d.rob[p].memory_instrs_depend_on_me
        BY <1>5, <4>1
      <4>3. ASSUME NEW m \in Destination, rob[p].instr.destination_memory[m] = a
            PROVE  StoreOut(c.rob, c.sq, p, m)
        <5>1. PICK s, r, q : s = c.rob[p].sq_index[m] /\ r = c.rob /\ q = c.sq
          OBVIOUS
        <5>2. s \in SqIndex \cup {None} /\ r[p].instr.destination_memory[m] = a
          BY <1>1, <1>4, <4>1, <4>3, <5>1 DEF EntryType
        <5>3. ASSUME s # None PROVE q[s].fetched = "NO"
          <6>1. StoreSlots(r, q) /\ StoreIndices(r, q)
            BY <1>1, <5>1
          <6>2. q[s].address = a /\ q[s].instr_id = r[p].instr_id /\ s \in SqIndex
            <7>1. p \in RobIndex /\ r[p].sq_index[m] = s /\ s \in SqIndex
              BY <4>1, <5>1, <5>2, <5>3
            <7>2. /\ r[p].instr.destination_memory[m] = q[s].address
                  /\ q[s].instr_id = r[p].instr_id
              BY <5>3, <6>1, <7>1 DEF StoreIndices
            <7> QED BY <5>2, <7>1, <7>2
          <6>3. q[s].fetched # "INFLIGHT"
            BY <1>3, <6>1, <6>2 DEF StoreSlots
          <6>4. q[s].fetched # "COMPLETED"
            <7>1. q[s].instr_id = StoreId(i, j)
              BY <1>4, <4>1, <5>1, <6>2
            <7>2. P # {}
              BY <4>1
            <7>3. \A k \in SqIndex : (q[k].address = a /\ q[k].instr_id = StoreId(i, j))
                                        => q[k].fetched # "COMPLETED"
              BY <1>2, <1>10, <5>1, <7>2 DEF Slotted
            <7> QED BY <6>2, <7>1, <7>3
          <6>5. q[s].fetched \in Phase
            BY <1>1, <5>1, <6>2 DEF CoreType, StoreType
          <6> QED BY <6>3, <6>4, <6>5 DEF Phase
        <5> QED BY <1>3, <5>1, <5>2, <5>3 DEF StoreOut
      <4> QED BY <1>4, <2>4, <3>2, <4>1, <4>2, <4>3 DEF FedBy
    <3> QED BY <3>1, <3>2
  <2>7. ASSUME NEW k \in LqIndex, d.lq[k].address # NoAddr
        PROVE  FedBy(d.rob, d.sq, d.lq[k],
                     Nearest(StoreWriters(d.lq[k].rob_index, d.lq[k].address)))
    <3>1. CASE k = l
      <4>1. Nearest(StoreWriters(x.rob_index, x.address)) = p
        BY <2>4, <2>5
      <4> QED BY <2>3, <2>6, <3>1, <4>1
    <3>2. CASE k # l
      <4>1. d.lq[k] = c.lq[k]
        BY <2>3, <3>2
      <4>2. c.lq[k].address # NoAddr
        BY <2>7, <4>1
      <4>3. FedBy(d.rob, d.sq, c.lq[k], Nearest(StoreWriters(c.lq[k].rob_index, c.lq[k].address)))
        BY <1>8, <4>2
      <4> QED BY <4>1, <4>3
    <3> QED BY <3>1, <3>2
  <2>8. Producers(d.rob, d.lq, d.sq)
    BY <2>7, FedAre
  <2> QED BY <1>6, <2>8
<1> QED BY <1>9, <1>10

(* add_load_queue: a load that ends at once got the nearest store.         *)
LEMMA LoadAddedValues ==
    ASSUME IInv, NEW c, NEW i \in RobIndex, Stage(c, i), NEW j \in Source, MayAddLoad(c, i, j),
           rob[i].instr.source_memory[j] # NoAddr,
           NEW d \in CoreType, NEW l \in LqIndex, c.lq[l].address = NoAddr,
           NEW P, P = mem_RAW_dependency(i, rob[i].instr.source_memory[j]),
           LoadEntries(c, d, i, j, l, P),
           (P # {} /\ Forwarded(c, d, i, j)) \/ Slotted(c, d, i, j, l, P)
    PROVE  Values(d.rob, d.lq)
<1>1. /\ c \in CoreType /\ Values(c.rob, c.lq)
      /\ \A p \in RobIndex : SameFront(rob[p], c.rob[p]) /\ c.rob[p] \in EntryType
  BY DEF Stage, StageData, CoreType
<1>2. /\ \A p \in RobIndex : \A m \in Source : ~ (p = i /\ m = j) =>
            /\ d.rob[p].lq_index[m] = c.rob[p].lq_index[m]
            /\ LoadOut(d.rob, d.lq, p, m) <=> LoadOut(c.rob, c.lq, p, m)
      /\ Slotted(c, d, i, j, l, P) => LoadOut(d.rob, d.lq, i, j)
      /\ \A p \in RobIndex : /\ c.rob[p].instr = rob[p].instr
                             /\ d.rob[p].instr = rob[p].instr
  BY LoadAddedOut
<1>3. /\ \A p \in RobIndex : SameFront(c.rob[p], d.rob[p])
      /\ \A p \in RobIndex \ {i} : d.rob[p].value = c.rob[p].value
  BY DEF LoadEntries
<1>4. /\ \A p \in RobIndex : d.rob[p].expects = c.rob[p].expects /\ c.rob[p].expects = rob[p].expects
  BY <1>1, <1>3 DEF SameFront
<1>5. rob[i].expects[j] = IF P = {} THEN memory[rob[i].instr.source_memory[j]] ELSE StoreId(i, j)
  BY DependencyIs, SMTT(30)
<1>6. c.rob[i].value \in [Source -> Int]
  BY <1>1 DEF EntryType
<1> SUFFICES ASSUME NEW p \in RobIndex, NEW m \in Source,
                    d.rob[p].instr.source_memory[m] # NoAddr, ~ LoadOut(d.rob, d.lq, p, m)
             PROVE  d.rob[p].value[m] = d.rob[p].expects[m]
  BY DEF Values
<1>7. CASE p = i /\ m = j
  <2>1. P # {} /\ Forwarded(c, d, i, j)
    BY <1>2, <1>7
  <2>2. d.rob[i].value[j] = StoreId(i, j)
    BY <1>6, <2>1 DEF Forwarded
  <2> QED BY <1>4, <1>5, <1>7, <2>1, <2>2
<1>8. CASE ~ (p = i /\ m = j)
  <2>1. ~ LoadOut(c.rob, c.lq, p, m) /\ c.rob[p].instr.source_memory[m] # NoAddr
    BY <1>2, <1>8
  <2>2. c.rob[p].value[m] = c.rob[p].expects[m]
    BY <1>1, <2>1 DEF Values
  <2>3. d.rob[p].value[m] = c.rob[p].value[m]
    <3>1. CASE p # i
      BY <1>3, <3>1
    <3>2. CASE p = i /\ Forwarded(c, d, i, j)
      BY <1>6, <1>8, <3>2 DEF Forwarded
    <3>3. CASE p = i /\ Slotted(c, d, i, j, l, P)
      BY <3>3 DEF Slotted
    <3> QED BY <3>1, <3>2, <3>3
  <2> QED BY <1>4, <2>2, <2>3
<1> QED BY <1>7, <1>8

(* Two steps that leave the front alone are one.                           *)
LEMMA SameFrontTwice ==
    ASSUME NEW a, NEW b, NEW c, SameFront(a, b), SameFront(b, c) PROVE SameFront(a, c)
BY DEF SameFront, SameInstr

(* Adding a load keeps the core in order. *)
LEMMA LoadAdded ==
    ASSUME IInv, NEW c, NEW i \in RobIndex, Used(i), Stage(c, i), NEW j \in Source,
           MayAddLoad(c, i, j)
    PROVE  Stage(add_load_queue(c, i, j), i)
<1>1. PICK d, P : d = add_load_queue(c, i, j)
                  /\ P = mem_RAW_dependency(i, rob[i].instr.source_memory[j])
  OBVIOUS
<1>2. /\ rob[i].instr.source_memory[j] # NoAddr /\ d \in CoreType
      /\ \E l \in LqIndex : /\ c.lq[l].address = NoAddr
                            /\ LoadEntries(c, d, i, j, l, P)
                            /\ \/ P # {} /\ Forwarded(c, d, i, j)
                               \/ Slotted(c, d, i, j, l, P)
  BY <1>1, AddLoadFields
<1>3. PICK l \in LqIndex : /\ c.lq[l].address = NoAddr
                           /\ LoadEntries(c, d, i, j, l, P)
                           /\ \/ P # {} /\ Forwarded(c, d, i, j)
                              \/ Slotted(c, d, i, j, l, P)
  BY <1>2
<1>4. P = {} <=> StoreFor(i, j) = {}
  BY <1>1 DEF mem_RAW_dependency, StoreFor, StoreWriters
<1>5. StageLoads(d)
  BY <1>2, <1>3, <1>4, LoadAddedSlots
<1>6. /\ OperationsCounted(d.rob, d.lq, d.sq)
      /\ d.mem = inflight.mem + (IF d.rob[i].num_mem_ops = 0 THEN 1 ELSE 0)
  BY <1>2, <1>3, LoadAddedCount
<1>7. Producers(d.rob, d.lq, d.sq) /\ MemoryListed(d.rob)
  BY <1>1, <1>2, <1>3, LoadAddedProducers
<1>8. Values(d.rob, d.lq)
  BY <1>1, <1>2, <1>3, LoadAddedValues
<1>9. /\ c \in CoreType /\ StageStores(c) /\ \A p \in RobIndex : SameFront(rob[p], c.rob[p])
      /\ \A p \in RobIndex \ {i} : SameOps(rob[p], c.rob[p])
  BY DEF Stage
<1>10. /\ \A p \in RobIndex : /\ SameFront(c.rob[p], d.rob[p])
                              /\ d.rob[p].sq_index = c.rob[p].sq_index
       /\ \A p \in RobIndex \ {i} : SameOps(c.rob[p], d.rob[p])
       /\ d.sq = c.sq /\ d.sq_tail = c.sq_tail /\ d.sq_occupancy = c.sq_occupancy
       /\ d.sta = c.sta /\ d.rts0 = c.rts0
  BY <1>3 DEF LoadEntries
<1>11. \A p \in RobIndex : SameFront(rob[p], d.rob[p])
  BY <1>9, <1>10, SameFrontTwice
<1>12. \A p \in RobIndex \ {i} : SameOps(rob[p], d.rob[p])
  BY <1>9, <1>10 DEF SameOps
<1>13. StageStores(d)
  <2>1. \A p \in RobIndex : /\ d.rob[p].sq_index = c.rob[p].sq_index
                            /\ d.rob[p].instr = c.rob[p].instr
                            /\ d.rob[p].instr_id = c.rob[p].instr_id
    BY <1>10 DEF SameFront, SameInstr
  <2> QED BY <1>2, <1>9, <1>10, <2>1, StoresAsBefore
<1> QED BY <1>1, <1>2, <1>5, <1>6, <1>7, <1>8, <1>11, <1>12, <1>13 DEF Stage, StageData

-----------------------------------------------------------------------------
(* add_store_queue: the tail moves on, *)

(* The tail of the store queue moves one slot on.                          *)
LEMMA TailBack ==
    ASSUME NEW t \in SqIndex
    PROVE  /\ Back(t, t) = SQ_SIZE - 1
           /\ (t + 1) % SQ_SIZE \in SqIndex
           /\ Back(t, (t + 1) % SQ_SIZE) = 0
           /\ \A k \in SqIndex : k # t => Back(k, (t + 1) % SQ_SIZE) = Back(k, t) + 1
<1> DEFINE N == SQ_SIZE
           u == (t + 1) % SQ_SIZE
<1>1. N \in Nat \ {0} /\ SqIndex = 0 .. N - 1 /\ t \in 0 .. N - 1
  BY Sizes DEF SqIndex
<1>2. u = IF t = N - 1 THEN 0 ELSE t + 1
  <2>1. t % N = t
    BY <1>1, ModSmall
  <2>2. N \in Nat \ {0} /\ t \in Int /\ u = (t + 1) % N
    BY <1>1
  <2> HIDE DEF N, u
  <2>3. (t + 1) % N = IF t % N = N - 1 THEN 0 ELSE (t % N) + 1
    BY <2>2, ModNext
  <2> QED BY <2>1, <2>2, <2>3
<1> HIDE DEF N, u
<1>3. \A k \in SqIndex : Back(k, t) = (t - 1 - k) % N /\ Back(k, u) = (u - 1 - k) % N
  BY DEF Back, N
<1>4. (-1) % N = N - 1
  <2>1. -1 = N * (-1) + (N - 1) /\ N - 1 \in 0 .. N - 1 /\ -1 \in Int
    BY <1>1
  <2> QED BY <1>1, <2>1, ModIs
<1>5. Back(t, t) = N - 1
  <2>1. t - 1 - t = -1
    BY <1>1
  <2> QED BY <1>1, <1>3, <1>4, <2>1
<1>6. u \in SqIndex
  BY <1>1, <1>2
<1>7. ASSUME NEW k \in SqIndex PROVE Back(k, u) = IF Back(k, t) = N - 1 THEN 0 ELSE Back(k, t) + 1
  <2> DEFINE a == t - 1 - k
  <2>1. a \in Int /\ a + 1 = t - k /\ k \in Int
    BY <1>1
  <2>2. (a + 1) % N = IF a % N = N - 1 THEN 0 ELSE (a % N) + 1
    BY <1>1, <2>1, ModNext
  <2>3. (u - 1 - k) % N = (a + 1) % N
    <3>1. CASE t # N - 1
      <4>1. u - 1 - k = a + 1
        BY <1>1, <1>2, <2>1, <3>1
      <4> QED BY <4>1
    <3>2. CASE t = N - 1
      <4>1. PICK b : b = u - 1 - k
        OBVIOUS
      <4>2. b \in Int /\ b + N = a + 1
        BY <1>1, <1>2, <2>1, <3>2, <4>1
      <4>3. (b + N) % N = b % N
        BY <1>1, <4>2, ModShift
      <4> QED BY <4>1, <4>2, <4>3
    <3> QED BY <3>1, <3>2
  <2>4. a % N = Back(k, t)
    BY <1>3
  <2> HIDE DEF a
  <2> QED BY <1>3, <2>2, <2>3, <2>4
<1>8. \A k \in SqIndex : k # t => Back(k, t) # N - 1
  BY <1>1, <1>5, BackIs
<1>9. Back(t, u) = 0
  BY <1>1, <1>5, <1>7
<1>10. \A k \in SqIndex : k # t => Back(k, u) = Back(k, t) + 1
  BY <1>7, <1>8
<1> QED BY <1>5, <1>6, <1>9, <1>10 DEF N, u

(* What add_store_queue makes of the core *)
StoreAdded(c, d, i, j, s) ==
    /\ \A p \in RobIndex :
          /\ SameFront(c.rob[p], d.rob[p]) /\ d.rob[p].lq_index = c.rob[p].lq_index
          /\ d.rob[p].num_mem_ops = c.rob[p].num_mem_ops /\ d.rob[p].value = c.rob[p].value
          /\ d.rob[p].memory_instrs_depend_on_me = c.rob[p].memory_instrs_depend_on_me
    /\ \A p \in RobIndex \ {i} : d.rob[p].sq_index = c.rob[p].sq_index
    /\ c.rob[i].sq_index[j] = None
    /\ d.rob[i].sq_index = [c.rob[i].sq_index EXCEPT ![j] = s]
    /\ d.lq = c.lq /\ d.lq_occupancy = c.lq_occupancy /\ d.rtl0 = c.rtl0 /\ d.mem = c.mem
    /\ s = c.sq_tail /\ c.sq[s] = FreeStore /\ c.sq_occupancy < SQ_SIZE
    /\ d.sq = [c.sq EXCEPT ![s] = [instr_id |-> rob[i].instr_id,
                                   address |-> rob[i].instr.destination_memory[j],
                                   rob_index |-> i, fetched |-> "NO"]]
    /\ d.sq_tail = (s + 1) % SQ_SIZE /\ d.sq_occupancy = c.sq_occupancy + 1
    /\ c.sta # <<>> /\ Head(c.sta) = rob[i].instr_id /\ d.sta = Tail(c.sta)
    /\ d.rts0 = Append(c.rts0, s)

(* add_store_queue, field by field                                         *)
LEMMA AddStoreFields ==
    ASSUME IInv, NEW c, NEW i \in RobIndex, Stage(c, i), NEW j \in Destination,
           MayAddStore(c, i, j), NEW d, d = add_store_queue(c, i, j)
    PROVE  /\ rob[i].instr.destination_memory[j] \in Addr \ {NoAddr} /\ d \in CoreType
           /\ c.sq_tail \in SqIndex /\ StoreAdded(c, d, i, j, c.sq_tail)
<1>1. /\ c \in CoreType /\ \A p \in RobIndex : SameFront(rob[p], c.rob[p])
      /\ StoreOrder(c.sq, c.sq_tail, c.sq_occupancy, c.sta) /\ StoreSlots(c.rob, c.sq)
      /\ rob \in [RobIndex -> EntryType]
  BY DEF Stage, StageStores, IInv, RobTyped
<1>2. c.rob[i].instr = rob[i].instr /\ c.rob[i].instr_id = rob[i].instr_id
  BY <1>1 DEF SameFront, SameInstr
<1>3. PICK s, a, e, id : /\ s = c.sq_tail /\ a = rob[i].instr.destination_memory[j]
                         /\ e = c.rob[i] /\ id = rob[i].instr_id
  OBVIOUS
<1>4. /\ e \in EntryType /\ s \in SqIndex /\ \A p \in RobIndex : c.rob[p] \in EntryType
      /\ c.sq \in [SqIndex -> StoreType] /\ c.sta \in Seq(Int) /\ c.rts0 \in Seq(SqIndex)
      /\ c.sq_occupancy \in Int /\ c.rob \in [RobIndex -> EntryType]
      /\ c.failed \in SUBSET {"producer_id"}
  BY <1>1, <1>3 DEF CoreType
<1>5. /\ a # NoAddr /\ c.rob[i].sq_index[j] = None /\ c.sq_occupancy < SQ_SIZE
      /\ c.sta # <<>> /\ Head(c.sta) = id
  BY <1>2, <1>3 DEF MayAddStore
<1>6. a \in Addr /\ id \in Int
  BY <1>1, <1>3, <1>5 DEF EntryType, Instruction
<1>7. c.sq[s].address = NoAddr
  <2>1. SQ_SIZE - 1 >= c.sq_occupancy
    BY <1>4, <1>5, Sizes
  <2>2. ~ (Back(s, s) < c.sq_occupancy)
    BY <1>4, <2>1, TailBack, Sizes
  <2>3. c.sq[s].address # NoAddr <=> Back(s, s) < c.sq_occupancy
    BY <1>1, <1>3, <1>4 DEF StoreOrder
  <2> QED BY <2>2, <2>3
<1>8. c.sq[s] = FreeStore
  BY <1>1, <1>4, <1>7 DEF StoreSlots
<1>9. PICK f, x, b : /\ f = [e.sq_index EXCEPT ![j] = s]
                     /\ x = [instr_id |-> id, address |-> a, rob_index |-> i, fetched |-> "NO"]
                     /\ b = [e EXCEPT !.sq_index = f]
  OBVIOUS
<1>10. f \in [Destination -> SqIndex \cup {None}] /\ x \in StoreType
  BY <1>4, <1>6, <1>9 DEF EntryType, StoreType, Phase
<1>11. /\ b \in EntryType /\ SameFront(e, b) /\ b.lq_index = e.lq_index
       /\ b.num_mem_ops = e.num_mem_ops /\ b.value = e.value
       /\ b.memory_instrs_depend_on_me = e.memory_instrs_depend_on_me /\ b.sq_index = f
  BY <1>4, <1>9, <1>10 DEF EntryType, SameFront, SameInstr
<1>12. PICK r, q : r = [c.rob EXCEPT ![i] = b] /\ q = [c.sq EXCEPT ![s] = x]
  OBVIOUS
<1>13. /\ r \in [RobIndex -> EntryType] /\ q \in [SqIndex -> StoreType]
       /\ r[i] = b /\ \A p \in RobIndex : p # i => r[p] = c.rob[p]
  BY <1>4, <1>10, <1>11, <1>12
<1>14. PICK t, n, w, y : /\ t = (s + 1) % SQ_SIZE /\ n = c.sq_occupancy + 1
                         /\ w = Tail(c.sta) /\ y = Append(c.rts0, s)
  OBVIOUS
<1>15. t \in SqIndex /\ n \in Int /\ w \in Seq(Int) /\ y \in Seq(SqIndex)
  BY <1>4, <1>5, <1>14, TailBack
<1>16. d = [c EXCEPT !.rob = r, !.sq = q, !.sq_tail = t, !.sq_occupancy = n, !.sta = w,
                     !.rts0 = y, !.failed = c.failed]
  <2>1. c.rob[i] = e /\ c.sq_tail = s
    BY <1>3
  <2>2. [c.rob EXCEPT ![i].sq_index[j] = s] = r
    BY <1>4, <1>9, <1>12, <2>1
  <2>3. d = [c EXCEPT !.rob[i].sq_index[j] = s,
                  !.sq[s] = [instr_id |-> e.instr_id,
                             address |-> e.instr.destination_memory[j],
                             rob_index |-> i, fetched |-> "NO"],
                  !.sq_tail = (@ + 1) % SQ_SIZE,
                  !.sq_occupancy = @ + 1,
                  !.sta = Tail(@),
                  !.rts0 = Append(@, s),
                  !.failed = @ \cup (IF c.sq[s].address # NoAddr THEN {"add_store_queue"} ELSE {})]
    BY <2>1 DEF add_store_queue
  <2>4. e.instr_id = id /\ e.instr.destination_memory[j] = a
    BY <1>2, <1>3
  <2> QED BY <1>3, <1>7, <1>9, <1>12, <1>14, <2>2, <2>3, <2>4
<1>17. /\ d \in CoreType /\ d.rob = r /\ d.sq = q /\ d.sq_tail = t /\ d.sq_occupancy = n
       /\ d.sta = w /\ d.rts0 = y
       /\ d.lq = c.lq /\ d.lq_occupancy = c.lq_occupancy /\ d.rtl0 = c.rtl0 /\ d.mem = c.mem
  BY ONLY <1>1, <1>4, <1>13, <1>15, <1>16 DEF CoreType
<1>18. \A p \in RobIndex :
          /\ SameFront(c.rob[p], d.rob[p]) /\ d.rob[p].lq_index = c.rob[p].lq_index
          /\ d.rob[p].num_mem_ops = c.rob[p].num_mem_ops /\ d.rob[p].value = c.rob[p].value
          /\ d.rob[p].memory_instrs_depend_on_me = c.rob[p].memory_instrs_depend_on_me
  BY <1>3, <1>11, <1>13, <1>17 DEF SameFront, SameInstr
<1>19. /\ \A p \in RobIndex \ {i} : d.rob[p].sq_index = c.rob[p].sq_index
       /\ d.rob[i].sq_index = [c.rob[i].sq_index EXCEPT ![j] = s]
  BY <1>3, <1>9, <1>11, <1>13, <1>17
<1> QED BY <1>3, <1>4, <1>5, <1>6, <1>8, <1>9, <1>12, <1>14, <1>17, <1>18, <1>19 DEF StoreAdded

(* A store is added: the store queue, *)
LEMMA StoreAddedStores ==
    ASSUME IInv, NEW c, NEW i \in RobIndex, Stage(c, i), NEW j \in Destination,
           rob[i].instr.destination_memory[j] \in Addr \ {NoAddr}, NEW d \in CoreType,
           NEW s \in SqIndex, StoreAdded(c, d, i, j, s)
    PROVE  StageStores(d)
<1>1. /\ c \in CoreType /\ StoreSlots(c.rob, c.sq) /\ StoreIndices(c.rob, c.sq)
      /\ ReadyStores(c.sq, c.rts0) /\ StoreOrder(c.sq, c.sq_tail, c.sq_occupancy, c.sta)
      /\ c.sq \in [SqIndex -> StoreType] /\ c.rts0 \in Seq(SqIndex) /\ c.sta \in Seq(Int)
      /\ c.sq_occupancy \in Int
  BY DEF Stage, StageStores, CoreType
<1>2. \A p \in RobIndex : /\ c.rob[p].instr = rob[p].instr /\ c.rob[p].instr_id = rob[p].instr_id
                          /\ d.rob[p].instr = rob[p].instr /\ d.rob[p].instr_id = rob[p].instr_id
                          /\ c.rob[p] \in EntryType /\ d.rob[p] \in EntryType
  BY DEF Stage, StoreAdded, SameFront, SameInstr, CoreType
<1>3. PICK x : x = [instr_id |-> rob[i].instr_id,
                    address |-> rob[i].instr.destination_memory[j],
                    rob_index |-> i, fetched |-> "NO"]
  OBVIOUS
<1>4. /\ d.sq = [c.sq EXCEPT ![s] = x] /\ c.sq[s] = FreeStore /\ s = c.sq_tail
      /\ d.rob[i].sq_index = [c.rob[i].sq_index EXCEPT ![j] = s]
      /\ c.rob[i].sq_index[j] = None
      /\ \A p \in RobIndex \ {i} : d.rob[p].sq_index = c.rob[p].sq_index
      /\ d.sq_tail = (s + 1) % SQ_SIZE /\ d.sq_occupancy = c.sq_occupancy + 1
      /\ c.sq_occupancy < SQ_SIZE
      /\ c.sta # <<>> /\ Head(c.sta) = rob[i].instr_id /\ d.sta = Tail(c.sta)
      /\ d.rts0 = Append(c.rts0, s)
  BY <1>3 DEF StoreAdded
<1>5. d.sq[s] = x /\ \A k \in SqIndex : k # s => d.sq[k] = c.sq[k]
  BY <1>1, <1>4
<1>6. /\ x.address # NoAddr /\ x.address = rob[i].instr.destination_memory[j]
      /\ x.rob_index = i /\ x.fetched = "NO" /\ x.instr_id = rob[i].instr_id
      /\ c.sq[s].address = NoAddr /\ s # None
  BY <1>3, <1>4, Sizes DEF FreeStore, None
<1>7. c.rob[i].sq_index \in [Destination -> SqIndex \cup {None}]
  BY <1>2 DEF EntryType
<1>8. /\ d.rob[i].sq_index[j] = s
      /\ \A p \in RobIndex : \A m \in Destination :
            ~ (p = i /\ m = j) => d.rob[p].sq_index[m] = c.rob[p].sq_index[m]
  BY <1>4, <1>7
<1>9. ASSUME NEW p \in RobIndex, NEW m \in Destination, NEW k, k = c.rob[p].sq_index[m], k # None
      PROVE  /\ k \in SqIndex /\ k # s
             /\ c.rob[p].instr.destination_memory[m] = c.sq[k].address /\ c.sq[k].address # NoAddr
             /\ c.sq[k].rob_index = p /\ c.sq[k].instr_id = c.rob[p].instr_id
             /\ \A dd \in Destination : c.rob[p].sq_index[dd] = k => dd = m
  <2>1. k \in SqIndex
    BY <1>2, <1>9 DEF EntryType
  <2>2. /\ c.rob[p].instr.destination_memory[m] = c.sq[k].address /\ c.sq[k].address # NoAddr
        /\ c.sq[k].rob_index = p /\ c.sq[k].instr_id = c.rob[p].instr_id
        /\ \A dd \in Destination : c.rob[p].sq_index[dd] = k => dd = m
    <3>1. PICK r, q : r = c.rob /\ q = c.sq
      OBVIOUS
    <3>2. StoreIndices(r, q) /\ k = r[p].sq_index[m]
      BY <1>1, <1>9, <3>1
    <3>3. /\ r[p].instr.destination_memory[m] = q[k].address /\ q[k].address # NoAddr
          /\ q[k].rob_index = p /\ q[k].instr_id = r[p].instr_id
          /\ \A dd \in Destination : r[p].sq_index[dd] = k => dd = m
      BY <1>9, <3>2 DEF StoreIndices
    <3> QED BY <3>1, <3>3
  <2> QED BY <1>6, <2>1, <2>2
<1>10. StoreSlots(d.rob, d.sq)
  <2> SUFFICES ASSUME NEW k \in SqIndex
               PROVE  IF d.sq[k].address = NoAddr THEN d.sq[k] = FreeStore
                      ELSE /\ \E m \in Destination : d.rob[d.sq[k].rob_index].sq_index[m] = k
                           /\ d.sq[k].fetched # "INFLIGHT"
    BY DEF StoreSlots
  <2>1. CASE k = s
    BY <1>5, <1>6, <1>8, <2>1
  <2>2. CASE k # s
    <3>1. IF c.sq[k].address = NoAddr THEN c.sq[k] = FreeStore
          ELSE /\ \E m \in Destination : c.rob[c.sq[k].rob_index].sq_index[m] = k
               /\ c.sq[k].fetched # "INFLIGHT"
      BY <1>1 DEF StoreSlots
    <3>2. c.sq[k].rob_index \in RobIndex /\ k # None
      BY <1>1, Sizes DEF StoreType, None
    <3>3. ASSUME NEW m \in Destination, c.rob[c.sq[k].rob_index].sq_index[m] = k
          PROVE  d.rob[c.sq[k].rob_index].sq_index[m] = k
      BY <1>4, <1>8, <3>2, <3>3
    <3> QED BY <1>5, <2>2, <3>1, <3>3
  <2> QED BY <2>1, <2>2
<1>11. StoreIndices(d.rob, d.sq)
  <2>1. ASSUME NEW p \in RobIndex, NEW m \in Destination, NEW k, k = d.rob[p].sq_index[m], k # None
        PROVE  /\ d.rob[p].instr.destination_memory[m] = d.sq[k].address /\ d.sq[k].address # NoAddr
               /\ d.sq[k].rob_index = p /\ d.sq[k].instr_id = d.rob[p].instr_id
               /\ \A dd \in Destination : d.rob[p].sq_index[dd] = k => dd = m
    <3>1. CASE p = i /\ m = j
      <4>1. k = s
        BY <1>8, <2>1, <3>1
      <4>2. ASSUME NEW dd \in Destination, d.rob[i].sq_index[dd] = s PROVE dd = j
        <5>1. dd # j => c.rob[i].sq_index[dd] = s
          BY <1>8, <4>2
        <5> QED BY <1>6, <1>9, <5>1
      <4> QED BY <1>2, <1>5, <1>6, <3>1, <4>1, <4>2
    <3>2. CASE ~ (p = i /\ m = j)
      <4>1. k = c.rob[p].sq_index[m]
        BY <1>8, <2>1, <3>2
      <4>2. /\ k \in SqIndex /\ k # s
            /\ c.rob[p].instr.destination_memory[m] = c.sq[k].address /\ c.sq[k].address # NoAddr
            /\ c.sq[k].rob_index = p /\ c.sq[k].instr_id = c.rob[p].instr_id
            /\ \A dd \in Destination : c.rob[p].sq_index[dd] = k => dd = m
        BY <1>9, <2>1, <4>1
      <4>3. ASSUME NEW dd \in Destination, d.rob[p].sq_index[dd] = k PROVE dd = m
        <5>1. ~ (p = i /\ dd = j)
          BY <1>8, <4>2, <4>3
        <5> QED BY <1>8, <4>2, <4>3, <5>1
      <4> QED BY <1>2, <1>5, <4>2, <4>3
    <3> QED BY <3>1, <3>2
  <2>2. PICK r, q : r = d.rob /\ q = d.sq
    OBVIOUS
  <2>3. \A p \in RobIndex : \A m \in Destination : r[p].sq_index[m] # None =>
           /\ r[p].instr.destination_memory[m] = q[r[p].sq_index[m]].address
           /\ q[r[p].sq_index[m]].address # NoAddr
           /\ q[r[p].sq_index[m]].rob_index = p /\ q[r[p].sq_index[m]].instr_id = r[p].instr_id
           /\ \A dd \in Destination : r[p].sq_index[dd] = r[p].sq_index[m] => dd = m
    BY <2>1, <2>2
  <2>4. StoreIndices(r, q)
    BY <2>3 DEF StoreIndices
  <2> QED BY <2>2, <2>4
<1>12. ReadyStores(d.sq, d.rts0)
  <2>1. ~ In(c.rts0, s)
    BY <1>1, <1>6 DEF In, ReadyStores
  <2>2. Distinct(c.rts0) /\ \A k : In(c.rts0, k) =>
           c.sq[k].address # NoAddr /\ c.sq[k].fetched = "NO" /\ k \in SqIndex
    BY <1>1 DEF ReadyStores, In
  <2>3. /\ \A k : In(Append(c.rts0, s), k) <=> In(c.rts0, k) \/ k = s
        /\ Distinct(Append(c.rts0, s))
    BY <1>1, <2>1, <2>2, AppendItems
  <2>4. \A k : In(d.rts0, k) => d.sq[k].address # NoAddr /\ d.sq[k].fetched = "NO"
    BY <1>4, <1>5, <1>6, <2>1, <2>2, <2>3
  <2> QED BY <1>4, <2>3, <2>4 DEF ReadyStores, In
<1>13. StoreOrder(d.sq, d.sq_tail, d.sq_occupancy, d.sta)
  <2>1. PICK u, n, a, h : /\ u = (s + 1) % SQ_SIZE /\ n = c.sq_occupancy /\ a = c.sta
                          /\ h = rob[i].instr_id
    OBVIOUS
  <2>2. /\ 0 <= n /\ n <= SQ_SIZE /\ n < SQ_SIZE /\ n \in Int /\ a \in Seq(Int)
        /\ \A k \in SqIndex : c.sq[k].address # NoAddr <=> Back(k, s) < n
        /\ \A k, m \in SqIndex : Back(k, s) < Back(m, s) /\ Back(m, s) < n
                                => c.sq[m].instr_id <= c.sq[k].instr_id
        /\ \A x1, y1 \in DOMAIN a : x1 < y1 => a[x1] <= a[y1]
        /\ \A x1 \in DOMAIN a : /\ a[x1] < next
                           /\ \A k \in SqIndex : c.sq[k].address # NoAddr => c.sq[k].instr_id <= a[x1]
        /\ a # <<>> /\ Head(a) = h
    BY <1>1, <1>4, <2>1 DEF StoreOrder
  <2>3. PICK l, b : l = Len(a) /\ b = Tail(a)
    OBVIOUS
  <2>4. /\ l \in Nat \ {0} /\ DOMAIN a = 1 .. l /\ DOMAIN b = 1 .. l - 1
        /\ \A y \in 1 .. l - 1 : b[y] = a[y + 1] /\ y + 1 \in 1 .. l
        /\ a[1] = h /\ 1 \in 1 .. l /\ h \in Int
    BY <2>2, <2>3
  <2>5. /\ Back(s, u) = 0
        /\ \A k \in SqIndex : k # s => Back(k, u) = Back(k, s) + 1
        /\ \A k \in SqIndex : Back(k, s) \in Nat
    BY <2>1, TailBack, BackIs, Sizes DEF SqIndex
  <2>6. 0 <= n + 1 /\ n + 1 <= SQ_SIZE
    BY <2>2, Sizes
  <2>7. \A k \in SqIndex : d.sq[k].address # NoAddr <=> Back(k, u) < n + 1
    <3> SUFFICES ASSUME NEW k \in SqIndex PROVE d.sq[k].address # NoAddr <=> Back(k, u) < n + 1
      OBVIOUS
    <3>1. CASE k = s
      BY <1>5, <1>6, <2>2, <2>5, <3>1
    <3>2. CASE k # s
      <4>1. Back(k, u) < n + 1 <=> Back(k, s) < n
        BY <2>2, <2>5, <3>2
      <4> QED BY <1>5, <2>2, <3>2, <4>1
    <3> QED BY <3>1, <3>2
  <2>8. \A k, m \in SqIndex : Back(k, u) < Back(m, u) /\ Back(m, u) < n + 1
                                => d.sq[m].instr_id <= d.sq[k].instr_id
    <3> SUFFICES ASSUME NEW k \in SqIndex, NEW m \in SqIndex, Back(k, u) < Back(m, u),
                        Back(m, u) < n + 1
                 PROVE  d.sq[m].instr_id <= d.sq[k].instr_id
      OBVIOUS
    <3>1. m # s
      BY <2>5
    <3>2. Back(m, s) < n /\ c.sq[m].address # NoAddr
      BY <2>2, <2>5, <3>1
    <3>3. CASE k = s
      BY <1>5, <1>6, <2>1, <2>2, <2>4, <3>1, <3>2, <3>3
    <3>4. CASE k # s
      <4>1. Back(k, s) < Back(m, s)
        BY <2>5, <3>1, <3>4
      <4> QED BY <1>5, <2>2, <3>1, <3>2, <3>4, <4>1
    <3> QED BY <3>3, <3>4
  <2>9. \A x1, y1 \in DOMAIN b : x1 < y1 => b[x1] <= b[y1]
    <3> SUFFICES ASSUME NEW x1 \in 1 .. l - 1, NEW y1 \in 1 .. l - 1, x1 < y1 PROVE b[x1] <= b[y1]
      BY <2>4
    <3>1. x1 + 1 < y1 + 1
      BY <2>4
    <3> QED BY <2>2, <2>4, <3>1
  <2>10. \A x1 \in DOMAIN b : /\ b[x1] < next
                              /\ \A k \in SqIndex : d.sq[k].address # NoAddr => d.sq[k].instr_id <= b[x1]
    <3> SUFFICES ASSUME NEW y \in 1 .. l - 1
                 PROVE  /\ b[y] < next
                        /\ \A k \in SqIndex : d.sq[k].address # NoAddr => d.sq[k].instr_id <= b[y]
      BY <2>4
    <3>1. b[y] = a[y + 1] /\ y + 1 \in DOMAIN a /\ 1 < y + 1 /\ 1 \in DOMAIN a
      BY <2>4
    <3>2. h <= b[y] /\ b[y] < next
      BY <2>2, <2>4, <3>1
    <3>3. \A k \in SqIndex : c.sq[k].address # NoAddr => c.sq[k].instr_id <= b[y]
      BY <2>2, <3>1
    <3> QED BY <1>5, <1>6, <2>1, <3>2, <3>3
  <2>11. StoreOrder(d.sq, u, n + 1, b)
    BY <2>6, <2>7, <2>8, <2>9, <2>10 DEF StoreOrder
  <2> QED BY <1>4, <2>1, <2>3, <2>11
<1> QED BY <1>10, <1>11, <1>12, <1>13 DEF StageStores

(* and the data. *)
LEMMA StoreAddedData ==
    ASSUME IInv, NEW c, NEW i \in RobIndex, Stage(c, i), NEW j \in Destination,
           rob[i].instr.destination_memory[j] \in Addr \ {NoAddr}, NEW d \in CoreType,
           NEW s \in SqIndex, StoreAdded(c, d, i, j, s)
    PROVE  StageLoads(d) /\ StageData(d)
<1>1. /\ c \in CoreType /\ StoreIndices(c.rob, c.sq) /\ c.sq \in [SqIndex -> StoreType]
      /\ LoadSlots(c.rob, c.lq) /\ LoadIndices(c.rob) /\ ReadyLoads(c.lq, c.rtl0)
      /\ SlotsCounted(c.lq, c.lq_occupancy) /\ c.lq \in [LqIndex -> LoadType]
      /\ Values(c.rob, c.lq) /\ OperationsCounted(c.rob, c.lq, c.sq)
      /\ Producers(c.rob, c.lq, c.sq) /\ MemoryListed(c.rob)
      /\ RobTyped
  BY DEF Stage, StageStores, StageLoads, StageData, CoreType, IInv
<1>2. \A p \in RobIndex :
         /\ c.rob[p].instr = rob[p].instr /\ c.rob[p].instr_id = rob[p].instr_id
         /\ d.rob[p].instr = rob[p].instr /\ d.rob[p].instr_id = rob[p].instr_id
         /\ c.rob[p] \in EntryType
         /\ d.rob[p].lq_index = c.rob[p].lq_index /\ d.rob[p].value = c.rob[p].value
         /\ d.rob[p].expects = c.rob[p].expects
         /\ d.rob[p].num_mem_ops = c.rob[p].num_mem_ops
         /\ d.rob[p].memory_instrs_depend_on_me = c.rob[p].memory_instrs_depend_on_me
  BY DEF Stage, StoreAdded, SameFront, SameInstr, CoreType
<1>3. d.lq = c.lq /\ d.lq_occupancy = c.lq_occupancy /\ d.rtl0 = c.rtl0
  BY DEF StoreAdded
<1>4. PICK x : x = [instr_id |-> rob[i].instr_id,
                    address |-> rob[i].instr.destination_memory[j],
                    rob_index |-> i, fetched |-> "NO"]
  OBVIOUS
<1>5. /\ d.sq = [c.sq EXCEPT ![s] = x] /\ c.sq[s] = FreeStore
      /\ d.rob[i].sq_index = [c.rob[i].sq_index EXCEPT ![j] = s]
      /\ c.rob[i].sq_index[j] = None
      /\ \A p \in RobIndex \ {i} : d.rob[p].sq_index = c.rob[p].sq_index
  BY <1>4 DEF StoreAdded
<1>6. /\ d.sq[s] = x /\ x.fetched = "NO" /\ c.sq[s].address = NoAddr
      /\ \A k \in SqIndex : k # s => d.sq[k] = c.sq[k]
  BY <1>1, <1>4, <1>5 DEF FreeStore
<1>7. c.rob[i].sq_index \in [Destination -> SqIndex \cup {None}]
  BY <1>2 DEF EntryType
<1>8. /\ d.rob[i].sq_index[j] = s
      /\ \A p \in RobIndex : \A m \in Destination :
            ~ (p = i /\ m = j) => d.rob[p].sq_index[m] = c.rob[p].sq_index[m]
  BY <1>5, <1>7
<1>9. StageLoads(d)
  <2>1. LoadIndices(d.rob)
    BY <1>1, <1>2 DEF LoadIndices
  <2>2. LoadSlots(d.rob, d.lq)
    <3>1. \A k \in LqIndex : c.lq[k].rob_index \in RobIndex
      BY <1>1 DEF LoadType
    <3>2. PICK r, q, v : r = c.rob /\ q = c.lq /\ v = d.rob
      OBVIOUS
    <3>3. LoadSlots(r, q) /\ \A k \in LqIndex : q[k].rob_index \in RobIndex
      BY <1>1, <3>1, <3>2
    <3>4. \A p \in RobIndex : /\ v[p].instr = r[p].instr /\ v[p].instr_id = r[p].instr_id
                              /\ v[p].lq_index = r[p].lq_index
      BY <1>2, <3>2
    <3>5. LoadSlots(v, q)
      BY <3>3, <3>4 DEF LoadSlots
    <3> QED BY <1>3, <3>2, <3>5
  <2> QED BY <1>1, <1>3, <2>1, <2>2 DEF StageLoads
<1>10. \A p \in RobIndex : \A m \in Source :
          LoadOut(d.rob, d.lq, p, m) <=> LoadOut(c.rob, c.lq, p, m)
  BY <1>2, <1>3 DEF LoadOut
<1>11. ASSUME NEW p \in RobIndex, NEW m \in Destination
       PROVE  StoreOut(d.rob, d.sq, p, m) <=> StoreOut(c.rob, c.sq, p, m)
  <2>1. CASE p = i /\ m = j
    BY <1>2, <1>5, <1>6, <1>8, <2>1 DEF StoreOut
  <2>2. CASE ~ (p = i /\ m = j)
    <3>1. PICK k : k = c.rob[p].sq_index[m]
      OBVIOUS
    <3>2. k \in SqIndex \cup {None}
      BY <1>2, <3>1 DEF EntryType
    <3>3. k # None => c.sq[k].address # NoAddr
      <4>1. PICK r, q : r = c.rob /\ q = c.sq
        OBVIOUS
      <4>2. StoreIndices(r, q) /\ k = r[p].sq_index[m]
        BY <1>1, <3>1, <4>1
      <4>3. k # None => q[k].address # NoAddr
        BY <4>2 DEF StoreIndices
      <4> QED BY <4>1, <4>3
    <3>4. k # None => d.sq[k] = c.sq[k]
      BY <1>6, <3>2, <3>3
    <3> QED BY <1>2, <1>8, <2>2, <3>1, <3>4 DEF StoreOut
  <2> QED BY <2>1, <2>2
<1>12. Values(d.rob, d.lq)
  BY <1>1, <1>2, <1>10 DEF Values
<1>13. OperationsCounted(d.rob, d.lq, d.sq)
  <2>1. \A p \in RobIndex : c.rob[p].num_mem_ops = Cardinality(LoadsOut(c.rob, c.lq, p))
                                                     + Cardinality(StoresOut(c.rob, c.sq, p))
    BY <1>1 DEF OperationsCounted, LoadsOut, StoresOut
  <2>2. \A p \in RobIndex : /\ LoadsOut(d.rob, d.lq, p) = LoadsOut(c.rob, c.lq, p)
                            /\ StoresOut(d.rob, d.sq, p) = StoresOut(c.rob, c.sq, p)
    BY <1>10, <1>11 DEF LoadsOut, StoresOut
  <2>3. \A p \in RobIndex : d.rob[p].num_mem_ops = Cardinality(LoadsOut(d.rob, d.lq, p))
                                                     + Cardinality(StoresOut(d.rob, d.sq, p))
    BY <1>2, <2>1, <2>2
  <2> QED BY <2>3 DEF OperationsCounted, LoadsOut, StoresOut
<1>14. MemoryListed(d.rob)
  BY <1>1, <1>2 DEF MemoryListed
<1>15. ASSUME NEW w \in LoadType, w.address # NoAddr, NEW p,
              p = Nearest(StoreWriters(w.rob_index, w.address)),
              FedBy(c.rob, c.sq, w, p)
       PROVE  FedBy(d.rob, d.sq, w, p)
  <2>1. w.rob_index \in RobIndex /\ w.address \in Addr
    BY <1>15 DEF LoadType
  <2>2. PICK y, b : y = w.rob_index /\ b = w.address
    OBVIOUS
  <2>3. StoreWriters(y, b) # {} => p \in RobIndex
    BY <1>1, <1>15, <2>1, <2>2, NearestIn DEF RobTyped
  <2>4. StoreWriters(y, b) # {} =>
           /\ c.rob[p].memory_instrs_depend_on_me = d.rob[p].memory_instrs_depend_on_me
           /\ \A m \in Destination : StoreOut(c.rob, c.sq, p, m) => StoreOut(d.rob, d.sq, p, m)
    BY <1>2, <1>11, <2>3
  <2> QED BY <1>15, <2>2, <2>4 DEF FedBy
<1>16. Producers(d.rob, d.lq, d.sq)
  <2>1. ASSUME NEW k \in LqIndex, c.lq[k].address # NoAddr
        PROVE  FedBy(d.rob, d.sq, c.lq[k],
                     Nearest(StoreWriters(c.lq[k].rob_index, c.lq[k].address)))
    <3>1. FedBy(c.rob, c.sq, c.lq[k], Nearest(StoreWriters(c.lq[k].rob_index, c.lq[k].address)))
      BY <1>1, <2>1, FedAre
    <3>2. c.lq[k] \in LoadType
      BY <1>1
    <3> QED BY <1>15, <2>1, <3>1, <3>2
  <2> QED BY <1>3, <2>1, FedAre
<1> QED BY <1>9, <1>12, <1>13, <1>14, <1>16 DEF StageData

(* add_store_queue keeps the core in order.                                *)
LEMMA StoreAddedStage ==
    ASSUME IInv, NEW c, NEW i \in RobIndex, Stage(c, i), NEW j \in Destination,
           MayAddStore(c, i, j)
    PROVE  Stage(add_store_queue(c, i, j), i)
<1>1. PICK d, s : d = add_store_queue(c, i, j) /\ s = c.sq_tail
  OBVIOUS
<1>2. /\ rob[i].instr.destination_memory[j] \in Addr \ {NoAddr} /\ d \in CoreType
      /\ s \in SqIndex /\ StoreAdded(c, d, i, j, s)
  BY <1>1, AddStoreFields
<1>3. StageStores(d) /\ StageLoads(d) /\ StageData(d)
  BY <1>2, StoreAddedStores, StoreAddedData
<1>4. /\ \A p \in RobIndex : SameFront(rob[p], c.rob[p])
      /\ \A p \in RobIndex \ {i} : SameOps(rob[p], c.rob[p])
      /\ c.mem = inflight.mem + (IF c.rob[i].num_mem_ops = 0 THEN 1 ELSE 0)
  BY DEF Stage
<1>5. /\ \A p \in RobIndex : /\ SameFront(c.rob[p], d.rob[p])
                             /\ d.rob[p].lq_index = c.rob[p].lq_index
                             /\ d.rob[p].num_mem_ops = c.rob[p].num_mem_ops
      /\ \A p \in RobIndex \ {i} : d.rob[p].sq_index = c.rob[p].sq_index
      /\ d.mem = c.mem
  BY <1>2 DEF StoreAdded
<1>6. \A p \in RobIndex : SameFront(rob[p], d.rob[p])
  BY <1>4, <1>5, SameFrontTwice
<1>7. \A p \in RobIndex \ {i} : SameOps(rob[p], d.rob[p])
  BY <1>4, <1>5 DEF SameOps
<1>8. d.mem = inflight.mem + (IF d.rob[i].num_mem_ops = 0 THEN 1 ELSE 0)
  BY <1>4, <1>5
<1> QED BY <1>1, <1>2, <1>3, <1>6, <1>7, <1>8 DEF Stage

(* All the operands *)
LEMMA OperandsAdded ==
    ASSUME IInv, NEW i \in RobIndex, Used(i), Stage(Core, i)
    PROVE  Stage(check_and_add_lsq(Core, i), i)
<1>1. ASSUME NEW c, Stage(c, i), NEW j \in Source PROVE Stage(AddLoad(c, i, j), i)
  BY <1>1, LoadAdded DEF AddLoad
<1>2. ASSUME NEW c, Stage(c, i), NEW j \in Destination PROVE Stage(AddStore(c, i, j), i)
  BY <1>2, StoreAddedStage DEF AddStore
<1>3. 1 \in Source /\ 2 \in Source /\ 3 \in Source /\ 4 \in Source
      /\ 1 \in Destination /\ 2 \in Destination
  BY DEF Source, Destination
<1>4. PICK a : a = AddLoad(Core, i, 1)
  OBVIOUS
<1>5. PICK b : b = AddLoad(a, i, 2)
  OBVIOUS
<1>6. PICK c : c = AddLoad(b, i, 3)
  OBVIOUS
<1>7. PICK d : d = AddLoad(c, i, 4)
  OBVIOUS
<1>8. PICK e : e = AddStore(d, i, 1)
  OBVIOUS
<1>9. Stage(a, i)
  BY <1>1, <1>3, <1>4
<1>10. Stage(b, i)
  BY <1>1, <1>3, <1>5, <1>9
<1>11. Stage(c, i)
  BY <1>1, <1>3, <1>6, <1>10
<1>12. Stage(d, i)
  BY <1>1, <1>3, <1>7, <1>11
<1>13. Stage(e, i)
  BY <1>2, <1>3, <1>8, <1>12
<1>14. Stage(AddStore(e, i, 2), i)
  BY <1>2, <1>3, <1>13
<1> QED BY <1>4, <1>5, <1>6, <1>7, <1>8, <1>14 DEF check_and_add_lsq

-----------------------------------------------------------------------------
(* do_memory_scheduling: from the core before to the one after *)

(* do_memory_scheduling starts with the core in order.                     *)
LEMMA StageStart ==
    ASSUME IInv, NEW i \in RobIndex, MayAdd(i)
    PROVE  /\ Stage(Core, i) /\ Used(i) /\ is_memory(rob[i]) /\ rob[i].reg_ready
           /\ rob[i].scheduled = "INFLIGHT" /\ rob[i].executed = "NO"
           /\ rob[i].num_reg_dependent = 0
<1>1. /\ RobTyped /\ QueuesTyped /\ Ring /\ Phases /\ LoadInv /\ StoreInv /\ DataInv /\ Failures
  BY DEF IInv, RegInv
<1>2. Used(i) /\ is_memory(rob[i]) /\ rob[i].reg_ready /\ rob[i].scheduled = "INFLIGHT"
  BY DEF MayAdd
<1>3. rob[i].executed = "NO" /\ rob[i].num_reg_dependent = 0
  BY <1>1, <1>2 DEF Phases
<1>4. PICK c : c = Core
  OBVIOUS
<1>5. /\ c.rob = rob /\ c.lq = lq /\ c.lq_occupancy = lq_occupancy /\ c.rtl0 = rtl0
      /\ c.sq = sq /\ c.sq_tail = sq_tail /\ c.sq_occupancy = sq_occupancy
      /\ c.sta = sta /\ c.rts0 = rts0 /\ c.mem = inflight.mem
  BY <1>4 DEF Core
<1>6. c \in CoreType
  <2>1. /\ rob \in [RobIndex -> EntryType] /\ inflight.mem \in Int
        /\ failed \in SUBSET {"producer_id"}
    BY <1>1 DEF RobTyped, Failures
  <2> QED BY <1>1, <1>4, <2>1 DEF Core, CoreType, QueuesTyped
<1>7. StageLoads(c) /\ StageStores(c) /\ StageData(c)
  BY <1>1, <1>5 DEF StageLoads, StageStores, StageData, LoadInv, StoreInv, DataInv
<1>8. /\ \A p \in RobIndex : SameFront(rob[p], c.rob[p])
      /\ \A p \in RobIndex \ {i} : SameOps(rob[p], c.rob[p])
  BY <1>5 DEF SameFront, SameInstr, SameOps
<1>9. rob[i].num_mem_ops # 0
  <2> SUFFICES ASSUME rob[i].num_mem_ops = 0 PROVE FALSE
    OBVIOUS
  <2>1. /\ \A j \in Source : ~ LoadOut(rob, lq, i, j)
        /\ \A j \in Destination : ~ StoreOut(rob, sq, i, j)
    BY <1>1, NothingOut DEF DataInv
  <2>2. \/ \E j \in Source : MayAddLoad(c, i, j)
        \/ \E j \in Destination : MayAddStore(c, i, j)
    BY <1>4 DEF MayAdd
  <2> QED BY <1>5, <2>1, <2>2 DEF MayAddLoad, MayAddStore, LoadOut, StoreOut
<1>10. c.mem = inflight.mem + (IF c.rob[i].num_mem_ops = 0 THEN 1 ELSE 0)
  BY <1>1, <1>5, <1>9 DEF RobTyped
<1> QED BY <1>2, <1>3, <1>4, <1>6, <1>7, <1>8, <1>10 DEF Stage

(* Entries that agree on their operands say the same of the queues. *)
LEMMA SameStage ==
    ASSUME IInv, NEW c, NEW i \in RobIndex, Stage(c, i), NEW r \in [RobIndex -> EntryType],
           \A p \in RobIndex : SameMem(c.rob[p], r[p])
    PROVE  /\ LoadSlots(r, c.lq) /\ LoadIndices(r)
           /\ StoreSlots(r, c.sq) /\ StoreIndices(r, c.sq)
           /\ Values(r, c.lq) /\ OperationsCounted(r, c.lq, c.sq)
           /\ Producers(r, c.lq, c.sq) /\ MemoryListed(r)
<1>1. PICK o, q, s : o = c.rob /\ q = c.lq /\ s = c.sq
  OBVIOUS
<1>2. /\ LoadSlots(o, q) /\ LoadIndices(o) /\ StoreSlots(o, s) /\ StoreIndices(o, s)
      /\ Values(o, q) /\ OperationsCounted(o, q, s) /\ Producers(o, q, s) /\ MemoryListed(o)
      /\ q \in [LqIndex -> LoadType] /\ s \in [SqIndex -> StoreType]
      /\ RobTyped
  BY <1>1 DEF Stage, StageLoads, StageStores, StageData, CoreType, IInv
<1>3. /\ \A p \in RobIndex : SameMem(o[p], r[p])
      /\ \A l \in LqIndex : q[l] \in LoadType /\ q[l].rob_index \in RobIndex
      /\ \A k \in SqIndex : s[k].rob_index \in RobIndex
  BY <1>1, <1>2 DEF LoadType, StoreType
<1>4. LoadSlots(r, q)
  BY <1>2, <1>3 DEF LoadSlots, SameMem, SameInstr
<1>5. LoadIndices(r)
  BY <1>2, <1>3 DEF LoadIndices, SameMem, SameInstr
<1>6. StoreSlots(r, s)
  BY <1>2, <1>3 DEF StoreSlots, SameMem
<1>7. StoreIndices(r, s)
  BY <1>2, <1>3 DEF StoreIndices, SameMem, SameInstr
<1>8. /\ \A p \in RobIndex, j \in Source : LoadOut(r, q, p, j) <=> LoadOut(o, q, p, j)
      /\ \A p \in RobIndex, j \in Destination : StoreOut(r, s, p, j) <=> StoreOut(o, s, p, j)
  BY <1>3 DEF LoadOut, StoreOut, SameMem, SameInstr
<1>9. Values(r, q)
  BY <1>2, <1>3, <1>8 DEF Values, SameMem, SameInstr
<1>10. OperationsCounted(r, q, s)
  <2>1. \A p \in RobIndex : o[p].num_mem_ops = Cardinality(LoadsOut(o, q, p))
                                                + Cardinality(StoresOut(o, s, p))
    BY <1>2 DEF OperationsCounted, LoadsOut, StoresOut
  <2>2. \A p \in RobIndex : /\ LoadsOut(r, q, p) = LoadsOut(o, q, p)
                            /\ StoresOut(r, s, p) = StoresOut(o, s, p)
    BY <1>8 DEF LoadsOut, StoresOut
  <2>3. \A p \in RobIndex : r[p].num_mem_ops = Cardinality(LoadsOut(r, q, p))
                                                + Cardinality(StoresOut(r, s, p))
    BY <1>3, <2>1, <2>2 DEF SameMem
  <2> QED BY <2>3 DEF OperationsCounted, LoadsOut, StoresOut
<1>11. MemoryListed(r)
  BY <1>2, <1>3 DEF MemoryListed, SameMem
<1>12. ASSUME NEW w \in LoadType, w.address # NoAddr, NEW p,
              p = Nearest(StoreWriters(w.rob_index, w.address)), FedBy(o, s, w, p)
       PROVE  FedBy(r, s, w, p)
  <2>1. w.rob_index \in RobIndex /\ w.address \in Addr
    BY <1>12 DEF LoadType
  <2>2. PICK y, b : y = w.rob_index /\ b = w.address
    OBVIOUS
  <2>3. StoreWriters(y, b) # {} => p \in RobIndex
    BY <1>2, <1>12, <2>1, <2>2, NearestIn DEF RobTyped
  <2>4. StoreWriters(y, b) # {} =>
           /\ o[p].memory_instrs_depend_on_me = r[p].memory_instrs_depend_on_me
           /\ \A m \in Destination : StoreOut(o, s, p, m) => StoreOut(r, s, p, m)
    BY <1>3, <1>8, <2>3 DEF SameMem
  <2> QED BY <1>12, <2>2, <2>4 DEF FedBy
<1>13. Producers(r, q, s)
  <2>1. ASSUME NEW k \in LqIndex, q[k].address # NoAddr
        PROVE  FedBy(r, s, q[k], Nearest(StoreWriters(q[k].rob_index, q[k].address)))
    <3>1. FedBy(o, s, q[k], Nearest(StoreWriters(q[k].rob_index, q[k].address)))
      BY <1>2, <2>1, FedAre
    <3> QED BY <1>3, <1>12, <2>1, <3>1
  <2> QED BY <2>1, FedAre
<1> QED BY <1>1, <1>4, <1>5, <1>6, <1>7, <1>9, <1>10, <1>11, <1>13

(* What the step leaves of each entry *)
LEMMA MemorySchedulingRob ==
    ASSUME IInv, NEW i \in RobIndex, do_memory_scheduling(i),
           NEW c, c = check_and_add_lsq(Core, i)
    PROVE  /\ Stage(c, i) /\ rob' \in [RobIndex -> EntryType]
           /\ \A p \in RobIndex : /\ SameMem(c.rob[p], rob'[p]) /\ SameRegs(rob[p], rob'[p])
                                  /\ SameInstr(rob[p], rob'[p])
                                  /\ rob'[p].expects = rob[p].expects
           /\ \A p \in RobIndex \ {i} : /\ rob'[p].scheduled = rob[p].scheduled
                                        /\ rob'[p].executed = rob[p].executed
                                        /\ SameOps(rob[p], rob'[p])
           /\ rob'[i].scheduled = IF AllAdded(rob'[i]) THEN "COMPLETED" ELSE "INFLIGHT"
           /\ rob'[i].executed = IF AllAdded(rob'[i]) THEN "INFLIGHT" ELSE "NO"
           /\ MayAdd(i)
<1>1. MayAdd(i)
  BY DEF do_memory_scheduling
<1>2. /\ Stage(Core, i) /\ Used(i) /\ is_memory(rob[i]) /\ rob[i].reg_ready
      /\ rob[i].scheduled = "INFLIGHT" /\ rob[i].executed = "NO"
  BY <1>1, StageStart
<1>3. Stage(c, i)
  BY <1>2, OperandsAdded
<1>4. /\ c \in CoreType /\ \A p \in RobIndex : SameFront(rob[p], c.rob[p])
      /\ \A p \in RobIndex \ {i} : SameOps(rob[p], c.rob[p])
      /\ c.rob \in [RobIndex -> EntryType]
  BY <1>3 DEF Stage, CoreType
<1>5. PICK e : e = c.rob[i]
  OBVIOUS
<1>6. e \in EntryType /\ e.executed = "NO" /\ e.scheduled = "INFLIGHT"
  BY <1>2, <1>4, <1>5 DEF SameFront
<1>7. rob' = IF ~ AllAdded(e) THEN c.rob
             ELSE [c.rob EXCEPT ![i].scheduled = "COMPLETED",
                                ![i].executed = IF @ = "NO" THEN "INFLIGHT" ELSE @]
  BY <1>5 DEF do_memory_scheduling
<1>8. PICK b : b = IF AllAdded(e)
                   THEN [e EXCEPT !.scheduled = "COMPLETED", !.executed = "INFLIGHT"]
                   ELSE e
  OBVIOUS
<1>9. rob'[i] = b /\ \A p \in RobIndex : p # i => rob'[p] = c.rob[p]
  <2>1. CASE ~ AllAdded(e)
    BY <1>5, <1>7, <1>8, <2>1
  <2>2. CASE AllAdded(e)
    <3>1. rob' = [c.rob EXCEPT ![i].scheduled = "COMPLETED",
                                ![i].executed = IF @ = "NO" THEN "INFLIGHT" ELSE @]
      BY <1>7, <2>2
    <3>2. b = [e EXCEPT !.scheduled = "COMPLETED", !.executed = "INFLIGHT"]
      BY <1>8, <2>2
    <3> QED BY <1>4, <1>5, <1>6, <3>1, <3>2 DEF EntryType
  <2> QED BY <2>1, <2>2
<1>10. rob' \in [RobIndex -> EntryType] /\ DOMAIN rob' = RobIndex
  <2>1. b \in EntryType
    <3>1. "COMPLETED" \in Phase /\ "INFLIGHT" \in Phase
      BY DEF Phase
    <3> QED BY ONLY <1>6, <1>8, <3>1 DEF EntryType
  <2>2. rob' = [c.rob EXCEPT ![i] = b]
    <3>1. CASE ~ AllAdded(e)
      BY <1>4, <1>5, <1>7, <1>8, <3>1
    <3>2. CASE AllAdded(e)
      <4>1. rob' = [c.rob EXCEPT ![i].scheduled = "COMPLETED",
                                  ![i].executed = IF @ = "NO" THEN "INFLIGHT" ELSE @]
        BY <1>7, <3>2
      <4>2. b = [e EXCEPT !.scheduled = "COMPLETED", !.executed = "INFLIGHT"]
        BY <1>8, <3>2
      <4> QED BY <1>4, <1>5, <1>6, <4>1, <4>2 DEF EntryType
    <3> QED BY <3>1, <3>2
  <2> QED BY <1>4, <2>1, <2>2
<1>11. /\ SameMem(e, b)
       /\ b.num_reg_dependent = e.num_reg_dependent
       /\ b.registers_depend_on_me = e.registers_depend_on_me
       /\ b.reg_ready <=> e.reg_ready
       /\ b.scheduled = IF AllAdded(e) THEN "COMPLETED" ELSE "INFLIGHT"
       /\ b.executed = IF AllAdded(e) THEN "INFLIGHT" ELSE "NO"
  BY <1>6, <1>8 DEF SameMem, SameInstr, EntryType
<1>12. AllAdded(b) <=> AllAdded(e)
  BY <1>11 DEF AllAdded, SameMem, SameInstr
<1>13. \A p \in RobIndex : SameMem(c.rob[p], rob'[p])
  BY <1>5, <1>9, <1>11 DEF SameMem, SameInstr
<1>14. \A p \in RobIndex : /\ SameInstr(rob[p], rob'[p]) /\ rob'[p].expects = rob[p].expects
  BY <1>4, <1>13 DEF SameFront, SameMem, SameInstr
<1>15. \A p \in RobIndex \ {i} : /\ rob'[p].scheduled = rob[p].scheduled
                                 /\ rob'[p].executed = rob[p].executed
                                 /\ SameOps(rob[p], rob'[p])
                                 /\ SameRegs(rob[p], rob'[p])
  BY <1>4, <1>9 DEF SameFront, SameRegs, SameDeps
<1>16. SameRegs(rob[i], rob'[i])
  <2>1. SameFront(rob[i], e)
    BY <1>4, <1>5
  <2>2. SameDeps(rob[i], b)
    BY <1>2, <1>11, <2>1 DEF SameFront, SameDeps, SameMem, SameInstr
  <2>3. rob[i].reg_ready <=> b.reg_ready
    BY <1>11, <2>1 DEF SameFront
  <2> QED BY <1>2, <1>9, <2>2, <2>3 DEF SameRegs
<1> QED BY <1>1, <1>3, <1>9, <1>10, <1>11, <1>12, <1>13, <1>14, <1>15, <1>16

(* The counter of the instructions whose operations are all done *)
LEMMA MemorySchedulingCount ==
    ASSUME IInv, NEW i \in RobIndex, do_memory_scheduling(i), OperationsCounted(rob', lq', sq'),
           \A p \in RobIndex : is_memory(rob'[p]) <=> is_memory(rob[p])
    PROVE  MemCounted'
<1>1. PICK c : c = check_and_add_lsq(Core, i)
  OBVIOUS
<1>2. /\ Stage(c, i) /\ SameMem(c.rob[i], rob'[i])
      /\ \A p \in RobIndex \ {i} : /\ rob'[p].executed = rob[p].executed
                                   /\ SameOps(rob[p], rob'[p])
      /\ rob'[i].executed = IF AllAdded(rob'[i]) THEN "INFLIGHT" ELSE "NO"
      /\ MayAdd(i)
  BY <1>1, MemorySchedulingRob
<1>3. is_memory(rob[i]) /\ rob[i].executed = "NO"
  BY <1>2, StageStart
<1>4. PICK m : m = rob'[i].num_mem_ops
  OBVIOUS
<1>5. inflight'.mem = inflight.mem + (IF m = 0 THEN 1 ELSE 0)
  <2>1. inflight' = [inflight EXCEPT !.mem = c.mem]
    BY <1>1 DEF do_memory_scheduling
  <2>2. inflight \in [reg : Int, mem : Int]
    BY DEF IInv, RobTyped
  <2>3. inflight'.mem = c.mem
    BY <2>1, <2>2
  <2> QED BY <1>2, <1>4, <2>3 DEF Stage, SameMem
<1>6. m = 0 => rob'[i].executed = "INFLIGHT"
  <2> SUFFICES ASSUME m = 0 PROVE AllAdded(rob'[i])
    BY <1>2
  <2>1. /\ \A j \in Source : ~ LoadOut(rob', lq', i, j)
        /\ \A j \in Destination : ~ StoreOut(rob', sq', i, j)
    BY <1>4, NothingOut
  <2> QED BY <2>1 DEF AllAdded, LoadOut, StoreOut
<1> DEFINE S == {p \in RobIndex : is_memory(rob[p]) /\ rob[p].num_mem_ops = 0
                                    /\ rob[p].executed = "INFLIGHT"}
           T == {p \in RobIndex : is_memory(rob'[p]) /\ rob'[p].num_mem_ops = 0
                                    /\ rob'[p].executed = "INFLIGHT"}
<1>7. \A p \in RobIndex \ {i} : p \in T <=> p \in S
  BY <1>2 DEF SameOps
<1>8. i \notin S /\ (i \in T <=> m = 0)
  BY <1>3, <1>4, <1>6
<1>9. S \in SUBSET RobIndex /\ T \in SUBSET RobIndex
  OBVIOUS
<1>10. inflight.mem = Cardinality(S)
  BY DEF IInv, DataInv, MemCounted
<1>11. MemCounted' <=> inflight'.mem = Cardinality(T)
  BY DEF MemCounted
<1> HIDE DEF S, T
<1>12. IsFiniteSet(S)
  BY <1>9, Sizes, FS_Subset
<1>13. CASE m = 0
  <2>1. T = S \cup {i}
    BY <1>7, <1>8, <1>9, <1>13
  <2>2. Cardinality(S \cup {i}) = Cardinality(S) + 1
    BY <1>8, <1>12, FS_AddElement
  <2> QED BY <1>5, <1>10, <1>11, <1>13, <2>1, <2>2
<1>14. CASE m # 0
  <2>1. T = S
    BY <1>7, <1>8, <1>9, <1>14
  <2>2. Cardinality(S) \in Nat
    BY <1>12, FS_CardinalityType
  <2> QED BY <1>5, <1>10, <1>11, <1>14, <2>1, <2>2
<1> QED BY <1>13, <1>14

(* do_memory_scheduling: an entry starts when its last operand is added.   *)
LEMMA MemorySchedulingPhases ==
    ASSUME IInv, NEW i \in RobIndex, do_memory_scheduling(i),
           \A p \in RobIndex : is_memory(rob'[p]) <=> is_memory(rob[p]),
           \A p \in RobIndex : Used(p)' <=> Used(p)
    PROVE  Phases'
<1>1. PICK c : c = check_and_add_lsq(Core, i)
  OBVIOUS
<1>2. /\ \A p \in RobIndex : SameRegs(rob[p], rob'[p]) /\ SameInstr(rob[p], rob'[p])
      /\ \A p \in RobIndex \ {i} : /\ rob'[p].scheduled = rob[p].scheduled
                                   /\ rob'[p].executed = rob[p].executed
                                   /\ SameOps(rob[p], rob'[p])
      /\ rob'[i].scheduled = IF AllAdded(rob'[i]) THEN "COMPLETED" ELSE "INFLIGHT"
      /\ rob'[i].executed = IF AllAdded(rob'[i]) THEN "INFLIGHT" ELSE "NO"
      /\ MayAdd(i)
  BY <1>1, MemorySchedulingRob
<1>3. /\ is_memory(rob[i]) /\ rob[i].reg_ready /\ rob[i].num_reg_dependent = 0
  BY <1>2, StageStart
<1>4. Phases
  BY DEF IInv, RegInv
<1> SUFFICES ASSUME NEW p \in RobIndex
             PROVE  /\ rob'[p].reg_ready
                         <=> rob'[p].scheduled # "NO" /\ rob'[p].num_reg_dependent = 0
                    /\ Started(rob'[p]) => rob'[p].reg_ready
                    /\ ~ is_memory(rob'[p]) => rob'[p].scheduled # "INFLIGHT"
                    /\ is_memory(rob'[p]) /\ Used(p)' =>
                          /\ rob'[p].scheduled = "COMPLETED" <=> AllAdded(rob'[p])
                          /\ rob'[p].executed # "NO" <=> rob'[p].scheduled = "COMPLETED"
                    /\ rob'[p].executed = "COMPLETED" => rob'[p].num_mem_ops = 0
  BY DEF Phases
<1>5. CASE p = i
  <2>1. rob'[p].reg_ready /\ rob'[p].num_reg_dependent = 0
    BY <1>2, <1>3, <1>5 DEF SameRegs, SameDeps
  <2>2. is_memory(rob'[p])
    BY <1>3, <1>5
  <2> QED BY <1>2, <1>5, <2>1, <2>2
<1>6. CASE p # i
  <2>1. /\ rob[p].reg_ready <=> rob[p].scheduled # "NO" /\ rob[p].num_reg_dependent = 0
        /\ Started(rob[p]) => rob[p].reg_ready
        /\ ~ is_memory(rob[p]) => rob[p].scheduled # "INFLIGHT"
        /\ is_memory(rob[p]) /\ Used(p) =>
              /\ rob[p].scheduled = "COMPLETED" <=> AllAdded(rob[p])
              /\ rob[p].executed # "NO" <=> rob[p].scheduled = "COMPLETED"
        /\ rob[p].executed = "COMPLETED" => rob[p].num_mem_ops = 0
    BY <1>4 DEF Phases
  <2>2. /\ SameRegs(rob[p], rob'[p]) /\ SameInstr(rob[p], rob'[p]) /\ SameOps(rob[p], rob'[p])
        /\ rob'[p].scheduled = rob[p].scheduled /\ rob'[p].executed = rob[p].executed
    BY <1>2, <1>6
  <2>3. /\ Started(rob'[p]) <=> Started(rob[p])
        /\ AllAdded(rob'[p]) <=> AllAdded(rob[p])
    BY <2>2 DEF Started, AllAdded, SameOps, SameInstr
  <2>4. /\ rob'[p].reg_ready <=> rob[p].reg_ready
        /\ rob'[p].num_reg_dependent = rob[p].num_reg_dependent
        /\ rob'[p].num_mem_ops = rob[p].num_mem_ops
        /\ is_memory(rob'[p]) <=> is_memory(rob[p])
        /\ Used(p)' <=> Used(p)
    BY <2>2 DEF SameRegs, SameDeps, SameOps
  <2> QED BY <2>1, <2>2, <2>3, <2>4
<1> QED BY <1>5, <1>6

(* do_memory_scheduling preserves the invariant.                           *)
LEMMA MemorySchedulingKeeps ==
    ASSUME IInv, NEW i \in RobIndex, do_memory_scheduling(i) PROVE IInv'
<1>1. PICK c : c = check_and_add_lsq(Core, i)
  OBVIOUS
<1>2. /\ lq' = c.lq /\ lq_occupancy' = c.lq_occupancy /\ rtl0' = c.rtl0
      /\ sq' = c.sq /\ sq_tail' = c.sq_tail /\ sq_occupancy' = c.sq_occupancy
      /\ sta' = c.sta /\ rts0' = c.rts0
      /\ inflight' = [inflight EXCEPT !.mem = c.mem] /\ failed' = c.failed
      /\ next' = next /\ retired' = retired /\ rte0' = rte0 /\ rte1' = rte1
      /\ last_store' = last_store /\ memory' = memory
  BY <1>1 DEF do_memory_scheduling, readyVars
<1>3. /\ Stage(c, i) /\ rob' \in [RobIndex -> EntryType]
      /\ \A p \in RobIndex : /\ SameMem(c.rob[p], rob'[p]) /\ SameRegs(rob[p], rob'[p])
                             /\ SameInstr(rob[p], rob'[p])
                             /\ rob'[p].expects = rob[p].expects
      /\ \A p \in RobIndex \ {i} : /\ rob'[p].scheduled = rob[p].scheduled
                                   /\ rob'[p].executed = rob[p].executed
      /\ MayAdd(i)
  BY <1>1, MemorySchedulingRob
<1>4. /\ RobTyped /\ QueuesTyped /\ Ring /\ RegInv /\ DataInv
  BY DEF IInv
<1>5. /\ c \in CoreType /\ ReadyLoads(c.lq, c.rtl0) /\ SlotsCounted(c.lq, c.lq_occupancy)
      /\ ReadyStores(c.sq, c.rts0) /\ StoreOrder(c.sq, c.sq_tail, c.sq_occupancy, c.sta)
  BY <1>3 DEF Stage, StageLoads, StageStores
<1>6. /\ LoadSlots(rob', c.lq) /\ LoadIndices(rob')
      /\ StoreSlots(rob', c.sq) /\ StoreIndices(rob', c.sq)
      /\ Values(rob', c.lq) /\ OperationsCounted(rob', c.lq, c.sq)
      /\ Producers(rob', c.lq, c.sq) /\ MemoryListed(rob')
  BY <1>3, SameStage
<1>7. /\ \A p \in RobIndex : Used(p)' <=> Used(p)
      /\ \A p \in RobIndex : is_memory(rob'[p]) <=> is_memory(rob[p])
      /\ \A p \in RobIndex, a \in Addr :
            /\ StoreWriters(p, a)' = StoreWriters(p, a)
            /\ Nearest(StoreWriters(p, a))' = Nearest(StoreWriters(p, a))
  BY <1>2, <1>3, SameWriters
<1>8. RobTyped'
  <2>1. inflight' \in [reg : Int, mem : Int]
    <3>1. inflight \in [reg : Int, mem : Int] /\ c.mem \in Int
      BY <1>4, <1>5 DEF RobTyped, CoreType
    <3> QED BY <1>2, <3>1
  <2> QED BY <1>2, <1>3, <1>4, <2>1 DEF RobTyped
<1>9. QueuesTyped'
  BY <1>2, <1>5 DEF QueuesTyped, CoreType
<1>10. Failures'
  BY <1>2, <1>5 DEF CoreType, Failures
<1>11. Ring'
  <2>1. Used(i)
    BY <1>3, StageStart
  <2>2. \A p \in RobIndex : ~ Used(p) => /\ rob'[p].scheduled = rob[p].scheduled
                                           /\ rob'[p].executed = rob[p].executed
    BY <1>3, <2>1
  <2> QED BY <1>2, <1>3, <1>4, <2>2, RingKept
<1>12. RegInv'
  <2>1. inflight'.reg = inflight.reg
    BY <1>2, <1>4 DEF RobTyped
  <2>2. Registered' /\ NearestKnown' /\ DependencesCounted' /\ ReadyQueues' /\ RegCounted'
    BY <1>2, <1>3, <1>4, <2>1, SameRegisters DEF RegInv
  <2>3. Phases'
    BY <1>7, MemorySchedulingPhases
  <2> QED BY <2>2, <2>3 DEF RegInv
<1>13. LoadInv' /\ StoreInv'
  <2>1. LoadInv'
    BY <1>2, <1>5, <1>6 DEF LoadInv
  <2>2. StoreOrder(sq, sq_tail, sq_occupancy, sta)'
    BY <1>2, <1>5 DEF StoreOrder
  <2>3. StoreSlots(rob, sq)' /\ StoreIndices(rob, sq)' /\ ReadyStores(sq, rts0)'
    BY <1>2, <1>5, <1>6
  <2> QED BY <2>1, <2>2, <2>3 DEF StoreInv
<1>14. Expected' /\ LastStores'
  BY <1>2, <1>3, <1>4, SameExpected DEF DataInv
<1>15. Values(rob, lq)' /\ OperationsCounted(rob, lq, sq)'
  BY <1>2, <1>6 DEF Values, OperationsCounted, LoadOut, StoreOut
<1>16. MemCounted'
  <2>1. OperationsCounted(rob', lq', sq')
    BY <1>2, <1>6
  <2> QED BY <1>7, <2>1, MemorySchedulingCount
<1>17. MemoryListed(rob)'
  <2>1. \A p : Before(p)' = Before(p)
    BY <1>2, BeforeKept
  <2> QED BY <1>6, <1>7, <2>1 DEF MemoryListed
<1>18. Producers(rob, lq, sq)'
  <2>1. Producers(rob', lq', sq')
    BY <1>2, <1>6
  <2> SUFFICES ASSUME NEW l \in LqIndex, lq'[l].address # NoAddr,
                      NEW d, d = lq'[l].rob_index, NEW a, a = lq'[l].address,
                      NEW p, p = Nearest(StoreWriters(d, a))'
               PROVE  IF lq'[l].producer_id = None THEN StoreWriters(d, a)' = {}
                      ELSE /\ StoreWriters(d, a)' # {} /\ lq'[l].producer_id = rob'[p].instr_id
                           /\ d \in rob'[p].memory_instrs_depend_on_me
                           /\ lq'[l].fetched = "NO"
                           /\ \A j \in Destination : rob'[p].instr.destination_memory[j] = a
                                             => StoreOut(rob', sq', p, j)
    BY DEF Producers
  <2>2. d \in RobIndex /\ a \in Addr
    BY <1>2, <1>5 DEF CoreType, LoadType
  <2>3. p = Nearest(StoreWriters(d, a)) /\ StoreWriters(d, a)' = StoreWriters(d, a)
    BY <1>7, <2>2
  <2>4. FedBy(rob', sq', lq'[l], p)
    BY <2>1, <2>3, FedAre
  <2>5. StoreWriters(d, a) # {} => p \in RobIndex
    BY <1>4, <2>2, <2>3, NearestIn DEF RobTyped
  <2>6. StoreWriters(d, a) # {} =>
           /\ rob'[p].instr_id = rob[p].instr_id
           /\ \A j \in Destination : rob'[p].instr.destination_memory[j]
                                       = rob[p].instr.destination_memory[j]
    BY <1>3, <2>5 DEF SameInstr
  <2> QED BY <2>3, <2>4, <2>6 DEF FedBy
<1>19. DataInv'
  BY <1>14, <1>15, <1>16, <1>17, <1>18 DEF DataInv
<1> QED BY <1>8, <1>9, <1>10, <1>11, <1>12, <1>13, <1>19 DEF IInv

-----------------------------------------------------------------------------
(* The invariant *)

(* The invariant holds of an empty core.                                   *)
LEMMA InitHolds == ASSUME Init PROVE IInv
<1>1. /\ rob = [i \in RobIndex |-> FreeEntry] /\ next = 0 /\ retired = 0
      /\ rte0 = <<>> /\ rte1 = <<>>
      /\ lq = [l \in LqIndex |-> FreeLoad] /\ lq_occupancy = 0 /\ rtl0 = <<>>
      /\ sq = [s \in SqIndex |-> FreeStore] /\ sq_tail = 0 /\ sq_occupancy = 0
      /\ sta = <<>> /\ rts0 = <<>> /\ inflight = [reg |-> 0, mem |-> 0]
      /\ last_store = [a \in Addr |-> None] /\ memory = [a \in Addr |-> None] /\ failed = {}
  BY DEF Init
<1>2. \A i \in RobIndex : rob[i] = FreeEntry
  BY <1>1
<1>3. /\ \A i \in RobIndex :
            /\ rob[i].instr_id = None /\ rob[i].scheduled = "NO" /\ rob[i].executed = "NO"
            /\ ~ rob[i].reg_ready /\ rob[i].num_reg_dependent = 0
            /\ rob[i].registers_depend_on_me = {} /\ rob[i].memory_instrs_depend_on_me = {}
            /\ rob[i].num_mem_ops = 0 /\ rob[i].instr.destination_registers = {}
            /\ rob[i].instr = NoInstruction
            /\ rob[i] \in EntryType
      /\ \A i \in RobIndex : \A j \in Source : rob[i].lq_index[j] = None
                                               /\ rob[i].instr.source_memory[j] = NoAddr
      /\ \A i \in RobIndex : \A j \in Destination : rob[i].sq_index[j] = None
                                               /\ rob[i].instr.destination_memory[j] = NoAddr
  <2>1. FreeEntry.instr = NoInstruction
    BY DEF FreeEntry, Entry
  <2> QED BY <1>2, <2>1, FreeFields
<1>4. /\ \A l \in LqIndex : lq[l] = FreeLoad /\ lq[l].address = NoAddr
      /\ \A k \in SqIndex : sq[k] = FreeStore /\ sq[k].address = NoAddr
  BY <1>1 DEF FreeLoad, FreeStore
<1>5. RobTyped
  <2>1. rob \in [RobIndex -> EntryType]
    BY <1>1, <1>3
  <2>2. None \in Int
    BY DEF None
  <2> QED BY <1>1, <2>1, <2>2 DEF RobTyped
<1>6. QueuesTyped
  <2>1. 0 \in RobIndex /\ 0 \in SqIndex /\ 1 \in Source /\ None \in Int
    BY Sizes DEF RobIndex, SqIndex, Source, None
  <2>2. FreeLoad \in LoadType /\ FreeStore \in StoreType
    BY <2>1 DEF FreeLoad, FreeStore, LoadType, StoreType, Phase
  <2> QED BY <1>1, <2>1, <2>2 DEF QueuesTyped
<1>7. Ring
  <2>1. \A i \in RobIndex : Blank(rob[i])
    BY <1>3 DEF Blank
  <2>2. \A i \in RobIndex : ~ (Age(i) < next - retired)
    <3>1. \A i \in RobIndex : Age(i) \in Nat
      BY <1>5, AgeIs, Sizes DEF RobTyped
    <3> QED BY <1>1, <3>1
  <2> QED BY <1>1, <2>1, <2>2, Sizes DEF Ring
<1>8. /\ \A i \in RobIndex : ~ Used(i)
      /\ \A i \in RobIndex : ~ is_memory(rob[i])
      /\ \A i \in RobIndex : ~ Started(rob[i])
  BY <1>3 DEF Used, is_memory, Started
<1>9. Cardinality({}) = 0
  BY FS_EmptySet
<1>10. RegInv
  <2>1. Registered /\ NearestKnown
    BY <1>3 DEF Registered, NearestKnown
  <2>2. DependencesCounted
    <3> SUFFICES ASSUME NEW i \in RobIndex PROVE rob[i].num_reg_dependent = Cardinality(DepsOf(i))
      BY DEF DependencesCounted
    <3>1. DepsOf(i) = {}
      BY <1>8 DEF DepsOf
    <3> QED BY <1>3, <1>9, <3>1
  <2>3. Phases
    BY <1>3, <1>8 DEF Phases
  <2>4. ReadyQueues
    BY <1>1 DEF ReadyQueues, In, Distinct
  <2>5. RegCounted
    <3>1. {i \in RobIndex : ~ is_memory(rob[i]) /\ rob[i].executed = "INFLIGHT"} = {}
      BY <1>3
    <3> QED BY <1>1, <1>9, <3>1 DEF RegCounted
  <2> QED BY <2>1, <2>2, <2>3, <2>4, <2>5 DEF RegInv
<1>11. LoadInv
  <2>1. LoadSlots(rob, lq) /\ LoadIndices(rob) /\ ReadyLoads(lq, rtl0)
    BY <1>1, <1>3, <1>4 DEF LoadSlots, LoadIndices, ReadyLoads, Distinct
  <2>2. {l \in LqIndex : lq[l].address # NoAddr} = {}
    BY <1>4
  <2> QED BY <1>1, <1>9, <2>1, <2>2 DEF LoadInv, SlotsCounted
<1>12. StoreInv
  <2>1. StoreSlots(rob, sq) /\ StoreIndices(rob, sq) /\ ReadyStores(sq, rts0)
    BY <1>1, <1>3, <1>4 DEF StoreSlots, StoreIndices, ReadyStores, Distinct
  <2>2. StoreOrder(sq, sq_tail, sq_occupancy, sta)
    <3>1. sq_tail \in SqIndex
      BY <1>6 DEF QueuesTyped
    <3>2. \A k \in SqIndex : Back(k, sq_tail) \in Nat
      BY <3>1, BackIs, Sizes
    <3>3. \A k \in SqIndex : ~ (Back(k, sq_tail) < sq_occupancy)
      BY <1>1, <3>2
    <3> QED BY <1>1, <1>4, <3>3, Sizes DEF StoreOrder
  <2> QED BY <2>1, <2>2 DEF StoreInv
<1>13. DataInv
  <2>1. Expected
    BY <1>3 DEF Expected
  <2>2. LastStores
    <3>1. \A a \in Addr : AllWriters(a) = {}
      BY <1>3, CoreAssumption DEF AllWriters, Writes
    <3> QED BY <1>1, <3>1 DEF LastStores
  <2>3. Values(rob, lq)
    BY <1>3 DEF Values
  <2>4. OperationsCounted(rob, lq, sq)
    <3> SUFFICES ASSUME NEW i \in RobIndex
                 PROVE  rob[i].num_mem_ops = Cardinality({j \in Source : LoadOut(rob, lq, i, j)})
                                   + Cardinality({j \in Destination : StoreOut(rob, sq, i, j)})
      BY DEF OperationsCounted
    <3>1. /\ {j \in Source : LoadOut(rob, lq, i, j)} = {}
          /\ {j \in Destination : StoreOut(rob, sq, i, j)} = {}
      BY <1>3 DEF LoadOut, StoreOut
    <3>2. /\ Cardinality({j \in Source : LoadOut(rob, lq, i, j)}) = 0
          /\ Cardinality({j \in Destination : StoreOut(rob, sq, i, j)}) = 0
      BY <1>9, <3>1
    <3> QED BY <1>3, <3>2
  <2>5. Producers(rob, lq, sq) /\ MemoryListed(rob)
    BY <1>3, <1>4 DEF Producers, MemoryListed
  <2>6. MemCounted
    <3>1. {i \in RobIndex : is_memory(rob[i]) /\ rob[i].num_mem_ops = 0
                              /\ rob[i].executed = "INFLIGHT"} = {}
      BY <1>3
    <3> QED BY <1>1, <1>9, <3>1 DEF MemCounted
  <2> QED BY <2>1, <2>2, <2>3, <2>4, <2>5, <2>6 DEF DataInv
<1> QED BY <1>1, <1>5, <1>6, <1>7, <1>10, <1>11, <1>12, <1>13 DEF IInv, Failures

(* A step that changes nothing preserves the invariant.                    *)
LEMMA StutterKeeps == ASSUME IInv, UNCHANGED vars PROVE IInv'
<1>1. /\ rob' = rob /\ next' = next /\ retired' = retired /\ rte0' = rte0 /\ rte1' = rte1
      /\ lq' = lq /\ lq_occupancy' = lq_occupancy /\ rtl0' = rtl0
      /\ sq' = sq /\ sq_tail' = sq_tail /\ sq_occupancy' = sq_occupancy
      /\ sta' = sta /\ rts0' = rts0 /\ inflight' = inflight
      /\ last_store' = last_store /\ memory' = memory /\ failed' = failed
  BY DEF vars, robVars, loadVars, storeVars, readyVars
<1>2. RobTyped /\ QueuesTyped /\ Ring /\ RegInv /\ LoadInv /\ StoreInv /\ DataInv /\ Failures
  BY DEF IInv
<1>3. /\ \A p \in RobIndex : /\ SameMem(rob[p], rob'[p]) /\ SameRegs(rob[p], rob'[p])
                             /\ SameInstr(rob[p], rob'[p])
      /\ \A p \in RobIndex : rob'[p] = rob[p]
  BY <1>1 DEF SameMem, SameRegs, SameDeps, SameInstr
<1>4. RobTyped'
  BY <1>1, <1>2 DEF RobTyped
<1>5. Ring'
  BY <1>1, <1>2, <1>3, RingKept
<1>6. Registered' /\ NearestKnown' /\ DependencesCounted' /\ ReadyQueues' /\ RegCounted'
  BY <1>1, <1>2, <1>3, SameRegisters DEF RegInv
<1>7. Phases'
  BY <1>1, <1>2 DEF RegInv, Phases, Used
<1>8. /\ QueuesTyped' /\ LoadInv' /\ StoreInv'
      /\ Expected' /\ LastStores' /\ Values(rob, lq)' /\ OperationsCounted(rob, lq, sq)'
      /\ Producers(rob, lq, sq)' /\ MemoryListed(rob)'
  BY <1>1, <1>2, <1>3, <1>4, SameMemory DEF DataInv
<1>9. MemCounted' /\ Failures'
  BY <1>1, <1>2 DEF DataInv, MemCounted, Failures
<1> QED BY <1>4, <1>5, <1>6, <1>7, <1>8, <1>9 DEF IInv, RegInv, DataInv

(* Every action preserves the invariant.                                   *)
LEMMA StepKeeps == ASSUME IInv, [Next]_vars PROVE IInv'
<1>1. ASSUME NEW k \in Kind, add_to_rob(k) PROVE IInv'
  BY <1>1, DispatchKeeps
<1>2. ASSUME NEW i \in RobIndex, do_scheduling(i) PROVE IInv'
  BY <1>2, SchedulingKeeps
<1>3. ASSUME NEW i \in RobIndex, do_memory_scheduling(i) PROVE IInv'
  BY <1>3, MemorySchedulingKeeps
<1>4. ASSUME NEW i \in RobIndex, complete_execution(i) PROVE IInv'
  BY <1>4, CompletionKeeps
<1>5. CASE ExecuteRte0 \/ ExecuteRte1
  BY <1>5, ExecuteKeeps
<1>6. CASE execute_store
  BY <1>6, StoreKeeps
<1>7. CASE execute_load
  BY <1>7, LoadKeeps
<1>8. ASSUME NEW M \in SUBSET LqIndex, complete_data_fetch(M) PROVE IInv'
  BY <1>8, FetchKeeps
<1>9. CASE retire_rob
  BY <1>9, RetireKeeps
<1>10. CASE TraceEnds \/ UNCHANGED vars
  BY <1>10, StutterKeeps DEF TraceEnds
<1> QED BY <1>1, <1>2, <1>3, <1>4, <1>5, <1>6, <1>7, <1>8, <1>9, <1>10 DEF Next, Work

(* Every reachable state of every program, with queues of any size, has the *)
(* parts of the invariant together.                                         *)
THEOREM Invariant == Spec => []IInv
<1>1. Init => IInv
  BY InitHolds
<1>2. IInv /\ [Next]_vars => IInv'
  BY StepKeeps
<1> QED BY <1>1, <1>2, PTL DEF Spec

-----------------------------------------------------------------------------
(* What follows from the invariant *)

(* The nearest writer of a ready register has completed.                   *)
LEMMA RegistersFollow == ASSUME IInv PROVE RegistersReady
<1>1. /\ RobTyped /\ Ring /\ NearestKnown /\ DependencesCounted /\ Phases /\ retired \in Nat
  BY DEF IInv, RegInv, RobTyped
<1> SUFFICES ASSUME NEW i \in RobIndex, Started(rob[i]), NEW j \in Source, RegWriters(i, j) # {}
             PROVE  rob[Nearest(RegWriters(i, j))].executed = "COMPLETED"
  BY DEF RegistersReady, RegWriters
<1>2. rob[i].reg_ready /\ rob[i].scheduled # "NO" /\ rob[i].num_reg_dependent = 0
  BY <1>1 DEF Phases
<1>3. Used(i)
  BY <1>1, <1>2, UsedIs DEF Blank
<1>4. PICK p : p = Nearest(RegWriters(i, j))
  OBVIOUS
<1>5. p \in RegWriters(i, j) /\ p \in RobIndex
  BY <1>1, <1>4, NearestIn
<1>6. p \in Before(i) /\ Used(p)
  BY <1>1, <1>3, <1>5, UsedIs DEF RegWriters
<1>7. DepsOf(i) = {}
  <2>1. DepsOf(i) \in SUBSET (RobIndex \X Source) /\ Cardinality(DepsOf(i)) = 0
    BY <1>1, <1>2 DEF DepsOf, DependencesCounted
  <2>2. IsFiniteSet(RobIndex \X Source)
    BY Sizes, FiniteOperands, FS_Product
  <2> QED BY <2>1, <2>2, FS_Subset, FS_EmptySet
<1>8. SUFFICES ASSUME rob[p].executed # "COMPLETED" PROVE FALSE
  BY <1>4
<1>9. <<i, j>> \in rob[p].registers_depend_on_me
  BY <1>1, <1>2, <1>3, <1>4, <1>8 DEF NearestKnown
<1>10. <<p, j>> \in DepsOf(i)
  BY <1>5, <1>6, <1>8, <1>9 DEF DepsOf
<1> QED BY <1>7, <1>10

(* A load that has ended has the value it expects.                         *)
LEMMA LoadsFollow == ASSUME IInv PROVE LoadsSequential
<1>1. Values(rob, lq)
  BY DEF IInv, DataInv
<1>2. \A i \in RobIndex : \A j \in Source : LoadOutstanding(i, j) <=> LoadOut(rob, lq, i, j)
  BY DEF LoadOutstanding, LoadOut
<1> QED BY <1>1, <1>2 DEF LoadsSequential, Values

(* The counters of the invariant are those of CountersExact.               *)
LEMMA CountersFollow == ASSUME IInv PROVE CountersExact
<1>1. /\ OperationsCounted(rob, lq, sq) /\ RegCounted /\ MemCounted
      /\ SlotsCounted(lq, lq_occupancy) /\ StoreOrder(sq, sq_tail, sq_occupancy, sta)
      /\ sq_tail \in SqIndex /\ sq_occupancy \in Int
  BY DEF IInv, RegInv, DataInv, LoadInv, StoreInv, QueuesTyped
<1>2. /\ \A i \in RobIndex : \A j \in Source : LoadOutstanding(i, j) <=> LoadOut(rob, lq, i, j)
      /\ \A i \in RobIndex : \A j \in Destination :
            StoreOutstanding(i, j) <=> StoreOut(rob, sq, i, j)
  BY DEF LoadOutstanding, LoadOut, StoreOutstanding, StoreOut
<1>3. ASSUME NEW i \in RobIndex
      PROVE  rob[i].num_mem_ops = Cardinality({j \in Source : LoadOutstanding(i, j)})
                                  + Cardinality({j \in Destination : StoreOutstanding(i, j)})
  <2>1. /\ {j \in Source : LoadOutstanding(i, j)} = {j \in Source : LoadOut(rob, lq, i, j)}
        /\ {j \in Destination : StoreOutstanding(i, j)}
             = {j \in Destination : StoreOut(rob, sq, i, j)}
    BY <1>2
  <2> QED BY <1>1, <2>1 DEF OperationsCounted
<1>4. sq_occupancy = Cardinality({s \in SqIndex : sq[s].address # NoAddr})
  <2>1. sq_occupancy \in Nat /\ sq_occupancy <= SQ_SIZE
    BY <1>1 DEF StoreOrder
  <2>2. Cardinality({k \in SqIndex : 0 <= Back(k, sq_tail) /\ Back(k, sq_tail) < sq_occupancy})
          = sq_occupancy - 0
    BY <1>1, <2>1, BackCount
  <2>3. \A k \in SqIndex : Back(k, sq_tail) \in Nat
    BY <1>1, BackIs, Sizes
  <2>4. {k \in SqIndex : 0 <= Back(k, sq_tail) /\ Back(k, sq_tail) < sq_occupancy}
          = {s \in SqIndex : sq[s].address # NoAddr}
    BY <1>1, <2>3 DEF StoreOrder
  <2>5. sq_occupancy - 0 = sq_occupancy
    BY <2>1
  <2>6. Cardinality({s \in SqIndex : sq[s].address # NoAddr}) = sq_occupancy - 0
    BY ONLY <2>2, <2>4, Zenon
  <2> QED BY <2>5, <2>6
<1>5. \A i \in RobIndex : rob[i].num_mem_ops =
          Cardinality({j \in Source : LoadOutstanding(i, j)})
          + Cardinality({j \in Destination : StoreOutstanding(i, j)})
  BY <1>3
<1> QED BY <1>1, <1>4, <1>5 DEF CountersExact, RegCounted, MemCounted, SlotsCounted

(* What waits is in the list of an entry that has not ended.               *)
LEMMA WakersFollow == ASSUME IInv PROVE WaitersHaveWakers
<1>1. /\ RobTyped /\ QueuesTyped /\ DependencesCounted /\ LoadSlots(rob, lq)
      /\ Producers(rob, lq, sq) /\ retired \in Nat
  BY DEF IInv, RegInv, LoadInv, DataInv, RobTyped
<1>2. ASSUME NEW l \in LqIndex, lq[l].producer_id # None
      PROVE  \E p \in Before(lq[l].rob_index) :
                /\ rob[p].instr_id = lq[l].producer_id
                /\ lq[l].rob_index \in rob[p].memory_instrs_depend_on_me
                /\ \E j \in Destination : /\ StoreOutstanding(p, j)
                                          /\ rob[p].instr.destination_memory[j] = lq[l].address
  <2>1. lq[l].address # NoAddr
    BY <1>1, <1>2 DEF LoadSlots, FreeLoad
  <2>2. PICK d, a : d = lq[l].rob_index /\ a = lq[l].address
    OBVIOUS
  <2>3. PICK p : p = Nearest(StoreWriters(d, a))
    OBVIOUS
  <2>4. /\ StoreWriters(d, a) # {} /\ lq[l].producer_id = rob[p].instr_id
        /\ d \in rob[p].memory_instrs_depend_on_me
        /\ \A j \in Destination : rob[p].instr.destination_memory[j] = a
                                    => StoreOut(rob, sq, p, j)
    <3>1. FedBy(rob, sq, lq[l], p)
      BY <1>1, <2>1, <2>2, <2>3, FedAre
    <3> QED BY <1>2, <2>2, <3>1 DEF FedBy
  <2>5. d \in RobIndex /\ a \in Addr
    BY <1>1, <2>1, <2>2 DEF QueuesTyped, LoadType
  <2>6. p \in StoreWriters(d, a)
    BY <1>1, <2>3, <2>4, <2>5, NearestIn
  <2>7. p \in Before(d) /\ Writes(rob[p], a)
    BY <2>6 DEF StoreWriters
  <2>8. PICK j \in Destination : rob[p].instr.destination_memory[j] = a
    BY <2>7 DEF Writes
  <2>9. StoreOutstanding(p, j)
    BY <2>4, <2>8 DEF StoreOut, StoreOutstanding
  <2> QED BY <2>2, <2>4, <2>7, <2>8, <2>9
<1>3. \A i \in RobIndex : rob[i].num_reg_dependent =
              Cardinality({d \in RobIndex \X Source :
                  /\ d[1] \in Before(i) /\ Used(d[1]) /\ rob[d[1]].executed # "COMPLETED"
                  /\ <<i, d[2]>> \in rob[d[1]].registers_depend_on_me})
  BY <1>1 DEF DependencesCounted, DepsOf
<1> QED BY <1>2, <1>3 DEF WaitersHaveWakers

(* Nothing starts before the registers it reads are written: the nearest  *)
(* writer of each source register of an instruction that executes or has a *)
(* slot is COMPLETED, for every trace and every size of the queues.        *)
THEOREM ReadyRegisters == Spec => []RegistersReady
BY Invariant, RegistersFollow, PTL

(* A load gets the data of the last store before it in the trace to its    *)
(* address, whichever of the three ways it is completed.                   *)
THEOREM SequentialLoads == Spec => []LoadsSequential
BY Invariant, LoadsFollow, PTL

(* num_mem_ops, the inflight counters and the occupancies of the load and  *)
(* the store queue are what they count.                                    *)
THEOREM ExactCounters == Spec => []CountersExact
BY Invariant, CountersFollow, PTL

(* Each dependence that is counted, and each load that waits for a store,  *)
(* is in the list of the entry that ends the wait.                         *)
THEOREM WakersExist == Spec => []WaitersHaveWakers
BY Invariant, WakersFollow, PTL

(* Of the assertions of the back end only the one on the producer of a     *)
(* load that a store completes can fail: dispatch and add_store_queue find *)
(* a free tail, the ready queues have room, num_mem_ops does not become    *)
(* negative, and the L1D's answers name the entry that asked.              *)
THEOREM OnlyProducerFails == Spec => [](failed \subseteq {"producer_id"})
<1>1. IInv => failed \subseteq {"producer_id"}
  BY DEF IInv, Failures
<1> QED BY <1>1, Invariant, PTL

-----------------------------------------------------------------------------
(* The assertion on the producer of a load, for programs whose instructions *)
(* store to one address at most                                            *)

OneStoreEach == \A k \in Kind : \/ k.destination_memory[1] = NoAddr
                                \/ k.destination_memory[2] = NoAddr

SingleStores == \A p \in RobIndex : \/ rob[p].instr.destination_memory[1] = NoAddr
                                    \/ rob[p].instr.destination_memory[2] = NoAddr

(* An entry is only in the list of the nearest store to an address it reads. *)
ListedFor(r) ==
    \A p, d \in RobIndex : d \in r[p].memory_instrs_depend_on_me =>
        \E a \in Addr : StoreWriters(d, a) # {} /\ p = Nearest(StoreWriters(d, a))

(* The store `id` to address a has not executed *)
NoData(s, id, a) ==
    \A k \in SqIndex : s[k].address = a /\ s[k].instr_id = id => s[k].fetched # "COMPLETED"

(* Until it has, the load of operand j of entry d waits for it. *)
WaitsFor(r, q, s, d, j, id) ==
    (r[d].lq_index[j] # None /\ NoData(s, id, r[d].instr.source_memory[j]))
        => LET l == r[d].lq_index[j]
           IN  /\ q[l].instr_id = r[d].instr_id /\ q[l].data_index = j
               /\ q[l].producer_id = id
StillWait(r, q, s) ==
    \A d \in RobIndex : \A j \in Source :
        (r[d].instr.source_memory[j] # NoAddr /\ StoreFor(d, j) # {})
            => WaitsFor(r, q, s, d, j, StoreId(d, j))

OneStoreInv == /\ SingleStores /\ ListedFor(rob) /\ StillWait(rob, lq, sq)
               /\ "producer_id" \notin failed

SameNames(d, e) ==
    /\ SameInstr(d, e) /\ d.lq_index = e.lq_index
    /\ d.memory_instrs_depend_on_me = e.memory_instrs_depend_on_me

(* StoreId names the nearest store before the entry.                       *)
LEMMA StoreIdIs ==
    ASSUME IInv, NEW d \in RobIndex, NEW j \in Source,
           rob[d].instr.source_memory[j] # NoAddr, StoreFor(d, j) # {}
    PROVE  /\ rob[d].instr.source_memory[j] \in Addr /\ StoreId(d, j) \in Nat /\ Used(d)
           /\ \E p \in RobIndex : /\ p = Nearest(StoreFor(d, j)) /\ StoreId(d, j) = rob[p].instr_id
                                  /\ p \in Before(d) /\ Used(p)
                                  /\ Writes(rob[p], rob[d].instr.source_memory[j])
<1>1. /\ RobTyped /\ Ring /\ retired \in Nat /\ rob \in [RobIndex -> EntryType]
  BY DEF IInv, RobTyped
<1>2. PICK a : a = rob[d].instr.source_memory[j]
  OBVIOUS
<1>3. a \in Addr /\ a # NoAddr
  <2>1. rob[d] \in EntryType
    BY <1>1
  <2> QED BY <1>2, <2>1 DEF EntryType, Instruction
<1>4. StoreFor(d, j) = StoreWriters(d, a)
  BY <1>2 DEF StoreFor
<1>5. PICK p : p = Nearest(StoreFor(d, j))
  OBVIOUS
<1>6. p \in StoreWriters(d, a)
  BY <1>1, <1>3, <1>4, <1>5, NearestIn
<1>7. p \in Before(d) /\ Writes(rob[p], a) /\ p \in RobIndex
  BY <1>6 DEF StoreWriters, Before
<1>8. Used(p) /\ rob[p].instr_id \in Nat
  BY <1>1, <1>3, <1>7, OperandUsed DEF Writes
<1>9. Used(d)
  BY <1>1, OperandUsed
<1>10. StoreId(d, j) = rob[p].instr_id
  BY <1>5 DEF StoreId
<1> QED BY <1>2, <1>3, <1>5, <1>7, <1>8, <1>9, <1>10

(* A step that ends loads of the set M alone, each after its store executed *)
LEMMA WaitsKept ==
    ASSUME IInv, OneStoreInv, UNCHANGED retired,
           \A p \in RobIndex : SameNames(rob[p], rob'[p]),
           NEW M \in SUBSET LqIndex,
           \A l \in LqIndex \ M : /\ lq'[l].instr_id = lq[l].instr_id
                                  /\ lq'[l].data_index = lq[l].data_index
                                  /\ lq'[l].producer_id = lq[l].producer_id,
           \A d \in RobIndex, j \in Source :
              (rob[d].instr.source_memory[j] # NoAddr /\ StoreFor(d, j) # {}
                 /\ NoData(sq', StoreId(d, j), rob[d].instr.source_memory[j]))
               => /\ NoData(sq, StoreId(d, j), rob[d].instr.source_memory[j])
                  /\ \A l \in M : (lq[l].producer_id = StoreId(d, j) /\ lq[l].data_index = j)
                                    => lq[l].instr_id # rob[d].instr_id
    PROVE  SingleStores' /\ ListedFor(rob)' /\ StillWait(rob, lq, sq)'
<1>1. /\ rob \in [RobIndex -> EntryType] /\ SingleStores /\ ListedFor(rob) /\ StillWait(rob, lq, sq)
  BY DEF IInv, RobTyped, OneStoreInv
<1>2. \A p \in RobIndex : SameInstr(rob[p], rob'[p])
  BY DEF SameNames
<1>3. \A d \in RobIndex, a \in Addr :
         /\ StoreWriters(d, a)' = StoreWriters(d, a)
         /\ Nearest(StoreWriters(d, a))' = Nearest(StoreWriters(d, a))
  BY <1>2, SameWriters
<1>4. SingleStores'
  BY <1>1, <1>2 DEF SingleStores, SameInstr
<1>5. ListedFor(rob)'
  <2> SUFFICES ASSUME NEW p \in RobIndex, NEW d \in RobIndex,
                      d \in rob'[p].memory_instrs_depend_on_me
               PROVE  \E a \in Addr : /\ StoreWriters(d, a)' # {}
                                      /\ p = Nearest(StoreWriters(d, a))'
    BY DEF ListedFor
  <2>1. d \in rob[p].memory_instrs_depend_on_me
    BY DEF SameNames
  <2>2. PICK a \in Addr : StoreWriters(d, a) # {} /\ p = Nearest(StoreWriters(d, a))
    BY <1>1, <2>1 DEF ListedFor
  <2> QED BY <1>3, <2>2
<1>6. StillWait(rob, lq, sq)'
  <2> SUFFICES ASSUME NEW d \in RobIndex, NEW j \in Source,
                      rob'[d].instr.source_memory[j] # NoAddr, StoreFor(d, j)' # {}
               PROVE  WaitsFor(rob', lq', sq', d, j, StoreId(d, j)')
    BY DEF StillWait
  <2>1. /\ rob'[d].instr = rob[d].instr /\ rob'[d].instr_id = rob[d].instr_id
        /\ rob'[d].lq_index = rob[d].lq_index
    BY DEF SameNames, SameInstr
  <2>2. PICK a : a = rob[d].instr.source_memory[j]
    OBVIOUS
  <2>3. a \in Addr /\ a # NoAddr /\ rob[d].lq_index[j] \in LqIndex \cup {None}
    <3>1. rob[d] \in EntryType
      BY <1>1
    <3> QED BY <2>1, <2>2, <3>1 DEF EntryType, Instruction
  <2>4. StoreFor(d, j)' = StoreFor(d, j) /\ StoreFor(d, j) = StoreWriters(d, a)
    BY <1>3, <2>1, <2>2, <2>3 DEF StoreFor
  <2>5. PICK p, id : p = Nearest(StoreFor(d, j)) /\ id = StoreId(d, j)
    OBVIOUS
  <2>6. p \in RobIndex /\ id = rob[p].instr_id
    BY <2>2, <2>3, <2>4, <2>5, StoreIdIs
  <2>7. p = Nearest(StoreFor(d, j))'
    BY <1>3, <2>1, <2>2, <2>3, <2>5 DEF StoreFor
  <2>8. StoreId(d, j)' = id
    <3>1. StoreId(d, j)' = rob'[p].instr_id
      BY <2>7 DEF StoreId
    <3> QED BY <1>2, <2>6, <3>1 DEF SameInstr
  <2>9. WaitsFor(rob, lq, sq, d, j, id)
    BY <1>1, <2>2, <2>3, <2>4, <2>5 DEF StillWait
  <2>10. ASSUME rob'[d].lq_index[j] # None, NoData(sq', id, a), NEW l, l = rob'[d].lq_index[j]
         PROVE  lq'[l].instr_id = rob'[d].instr_id /\ lq'[l].data_index = j
                /\ lq'[l].producer_id = id
    <3>1. /\ NoData(sq, id, a)
          /\ \A m \in M : (lq[m].producer_id = id /\ lq[m].data_index = j)
                             => lq[m].instr_id # rob[d].instr_id
      BY <2>2, <2>3, <2>4, <2>5, <2>10
    <3>2. /\ lq[l].instr_id = rob[d].instr_id /\ lq[l].data_index = j /\ lq[l].producer_id = id
      BY <2>1, <2>2, <2>9, <2>10, <3>1 DEF WaitsFor
    <3>3. l \in LqIndex /\ l \notin M
      BY <2>1, <2>3, <2>10, <3>1, <3>2
    <3> QED BY <2>1, <3>2, <3>3
  <2> QED BY <2>1, <2>2, <2>8, <2>10 DEF WaitsFor
<1> QED BY <1>4, <1>5, <1>6

(* The steps of registers leave the names of entries alone. *)
LEMMA RegisterSteps ==
    ASSUME IInv, OneStoreInv, \A p \in RobIndex : SameMem(rob[p], rob'[p]),
           UNCHANGED <<retired, lq, sq>>, "producer_id" \notin failed'
    PROVE  OneStoreInv'
<1>1. \A p \in RobIndex : SameNames(rob[p], rob'[p])
  BY DEF SameNames, SameMem
<1>2. retired' = retired /\ lq' = lq /\ sq' = sq
  OBVIOUS
<1>3. SingleStores' /\ ListedFor(rob)' /\ StillWait(rob, lq, sq)'
  <2>1. PICK M \in SUBSET LqIndex : M = {}
    OBVIOUS
  <2> QED BY <1>1, <1>2, <2>1, WaitsKept
<1> QED BY <1>3 DEF OneStoreInv

(* do_scheduling, execute_instruction and complete_execution keep it. *)
LEMMA RegisterStepsOne ==
    ASSUME IInv, OneStoreInv,
           \/ \E i \in RobIndex : do_scheduling(i) \/ complete_execution(i)
           \/ ExecuteRte0 \/ ExecuteRte1
    PROVE  OneStoreInv'
<1>0. "producer_id" \notin failed
  BY DEF OneStoreInv
<1>1. ASSUME NEW i \in RobIndex, do_scheduling(i) PROVE OneStoreInv'
  <2>1. \A p \in RobIndex : SameMem(rob[p], rob'[p])
    BY <1>1, SchedulingRob
  <2>2. UNCHANGED <<retired, lq, sq>>
    BY <1>1 DEF do_scheduling, loadVars, storeVars
  <2>3. failed' \subseteq failed \cup {"ready queue full"}
    BY <1>1 DEF do_scheduling, RingFull
  <2> QED BY <1>0, <2>1, <2>2, <2>3, RegisterSteps
<1>2. ASSUME NEW i \in RobIndex, complete_execution(i) PROVE OneStoreInv'
  <2>1. \A p \in RobIndex : SameMem(rob[p], rob'[p])
    BY <1>2, CompletionRob
  <2>2. UNCHANGED <<retired, lq, sq>>
    BY <1>2 DEF complete_execution, loadVars, storeVars
  <2>3. failed' \subseteq failed \cup {"ready queue full"}
    BY <1>2, CompletionRob
  <2> QED BY <1>0, <2>1, <2>2, <2>3, RegisterSteps
<1>3. ASSUME NEW i \in RobIndex, do_execution(i) PROVE OneStoreInv'
  <2>1. rob' = [rob EXCEPT ![i].executed = "INFLIGHT"] /\ rob \in [RobIndex -> EntryType]
    BY <1>3 DEF do_execution, IInv, RobTyped
  <2>2. \A p \in RobIndex : SameMem(rob[p], rob'[p])
    <3> SUFFICES ASSUME NEW p \in RobIndex PROVE SameMem(rob[p], rob'[p])
      OBVIOUS
    <3>1. PICK e : e = rob[p]
      OBVIOUS
    <3>2. e \in EntryType /\ rob'[p] = IF p = i THEN [e EXCEPT !.executed = "INFLIGHT"] ELSE e
      BY <2>1, <3>1
    <3> QED BY <3>1, <3>2 DEF SameMem, SameInstr, EntryType
  <2>3. UNCHANGED <<retired, lq, sq>> /\ failed' = failed
    BY <1>3 DEF do_execution, loadVars, storeVars
  <2> QED BY <1>0, <2>2, <2>3, RegisterSteps
<1>4. CASE ExecuteRte0
  <2>1. Head(rte0) \in RobIndex
    <3>1. rte0 \in Seq(RobIndex) /\ rte0 # <<>>
      BY <1>4 DEF ExecuteRte0, IInv, RobTyped
    <3> QED BY <3>1
  <2> QED BY <1>3, <1>4, <2>1 DEF ExecuteRte0
<1>5. CASE ExecuteRte1
  <2>1. Head(rte1) \in RobIndex
    <3>1. rte1 \in Seq(RobIndex) /\ rte1 # <<>>
      BY <1>5 DEF ExecuteRte1, IInv, RobTyped
    <3> QED BY <3>1
  <2> QED BY <1>3, <1>5, <2>1 DEF ExecuteRte1
<1> QED BY <1>1, <1>2, <1>4, <1>5

(* add_to_rob: the new entry has no load in the queue and is in no list. *)
LEMMA DispatchOne ==
    ASSUME OneStoreEach, IInv, OneStoreInv, NEW k \in Kind, add_to_rob(k)
    PROVE  OneStoreInv'
<1>1. /\ tail \in RobIndex /\ rob'[tail] = Entry(next, k)
      /\ \A p \in RobIndex : p # tail => rob'[p] = rob[p]
      /\ failed' = failed /\ retired' = retired
  BY DispatchRob
<1>2. lq' = lq /\ sq' = sq
  BY DEF add_to_rob, loadVars
<1>3. /\ RobTyped /\ Ring /\ rob \in [RobIndex -> EntryType] /\ MemoryListed(rob)
      /\ last_store \in [Addr -> Int] /\ next \in Nat
      /\ SingleStores /\ ListedFor(rob) /\ StillWait(rob, lq, sq) /\ "producer_id" \notin failed
  BY DEF IInv, RobTyped, DataInv, OneStoreInv
<1>4. PICK e : e = Entry(next, k)
  OBVIOUS
<1>5. /\ e.instr = k /\ e.memory_instrs_depend_on_me = {} /\ \A j \in Source : e.lq_index[j] = None
  BY <1>3, <1>4, EntryFields
<1>6. PICK t : t = tail
  OBVIOUS
<1>7. t \in RobIndex /\ rob'[t] = e /\ \A p \in RobIndex : p # t => rob'[p] = rob[p]
  BY <1>1, <1>4, <1>6
<1>8. SingleStores'
  BY <1>3, <1>5, <1>7 DEF SingleStores, OneStoreEach
<1>9. \A d \in RobIndex, a \in Addr : Used(d) =>
         /\ d # t /\ StoreWriters(d, a)' = StoreWriters(d, a)
         /\ Nearest(StoreWriters(d, a))' = Nearest(StoreWriters(d, a))
         /\ \A p \in Before(d) : p \in RobIndex /\ rob'[p] = rob[p]
  BY <1>6, DispatchBefore
<1>10. ListedFor(rob)'
  <2> SUFFICES ASSUME NEW p \in RobIndex, NEW d \in RobIndex,
                      d \in rob'[p].memory_instrs_depend_on_me
               PROVE  \E a \in Addr : /\ StoreWriters(d, a)' # {}
                                      /\ p = Nearest(StoreWriters(d, a))'
    BY DEF ListedFor
  <2>1. d \in rob[p].memory_instrs_depend_on_me
    BY <1>5, <1>7
  <2>2. PICK a \in Addr : StoreWriters(d, a) # {} /\ p = Nearest(StoreWriters(d, a))
    BY <1>3, <2>1 DEF ListedFor
  <2>3. Used(d)
    BY <1>3, <2>1 DEF MemoryListed
  <2> QED BY <1>9, <2>2, <2>3
<1>11. StillWait(rob, lq, sq)'
  <2> SUFFICES ASSUME NEW d \in RobIndex, NEW j \in Source,
                      rob'[d].instr.source_memory[j] # NoAddr, StoreFor(d, j)' # {}
               PROVE  WaitsFor(rob', lq', sq', d, j, StoreId(d, j)')
    BY DEF StillWait
  <2>1. CASE d = t
    BY <1>5, <1>7, <2>1 DEF WaitsFor
  <2>2. CASE d # t
    <3>1. rob'[d] = rob[d]
      BY <1>7, <2>2
    <3>2. PICK a : a = rob[d].instr.source_memory[j]
      OBVIOUS
    <3>3. a \in Addr /\ a # NoAddr /\ Used(d)
      <4>1. rob[d] \in EntryType
        BY <1>3
      <4> QED BY <1>3, <3>1, <3>2, <4>1, OperandUsed DEF EntryType, Instruction
    <3>4. StoreFor(d, j)' = StoreFor(d, j) /\ StoreFor(d, j) = StoreWriters(d, a)
      BY <1>9, <3>1, <3>2, <3>3 DEF StoreFor
    <3>5. PICK p, id : p = Nearest(StoreFor(d, j)) /\ id = StoreId(d, j)
      OBVIOUS
    <3>6. p \in Before(d) /\ id = rob[p].instr_id
      BY <3>1, <3>4, <3>5, StoreIdIs
    <3>7. p = Nearest(StoreFor(d, j))'
      BY <1>9, <3>1, <3>2, <3>3, <3>5 DEF StoreFor
    <3>8. StoreId(d, j)' = id
      <4>1. StoreId(d, j)' = rob'[p].instr_id
        BY <3>7 DEF StoreId
      <4> QED BY <1>9, <3>3, <3>6, <4>1
    <3>9. WaitsFor(rob, lq, sq, d, j, id)
      BY <1>3, <3>1, <3>4, <3>5 DEF StillWait
    <3> QED BY <1>2, <3>1, <3>8, <3>9 DEF WaitsFor
  <2> QED BY <2>1, <2>2
<1> QED BY <1>1, <1>3, <1>8, <1>10, <1>11 DEF OneStoreInv

(* retire_rob: the head was waited for by no load that is still in the queue. *)
LEMMA RetireOne == ASSUME IInv, OneStoreInv, retire_rob PROVE OneStoreInv'
<1>0. PICK h \in RobIndex : h = head
  BY RetireRob
<1>1. /\ retired \in Nat /\ retired' = retired + 1 /\ Used(h)
      /\ rob'[h] = FreeEntry /\ \A p \in RobIndex : p # h => rob'[p] = rob[p]
  BY <1>0, RetireRob
<1>2. /\ sq' = [k \in SqIndex |-> IF k \in SlotsOf(h) THEN FreeStore ELSE sq[k]]
      /\ \A k \in SlotsOf(h) : sq[k].instr_id = retired
  BY <1>0, RetireSlots
<1>3. lq' = lq /\ failed' = failed
  BY DEF retire_rob, loadVars
<1>4. /\ RobTyped /\ Ring /\ rob \in [RobIndex -> EntryType]
      /\ SingleStores /\ ListedFor(rob) /\ StillWait(rob, lq, sq) /\ "producer_id" \notin failed
  BY DEF IInv, RobTyped, OneStoreInv
<1>5. /\ \A j \in Source : FreeEntry.instr.source_memory[j] = NoAddr
      /\ \A j \in Destination : FreeEntry.instr.destination_memory[j] = NoAddr
      /\ FreeEntry.memory_instrs_depend_on_me = {}
  BY FreeFields DEF FreeEntry, Entry, NoInstruction
<1>6. SingleStores'
  <2>1. 1 \in Destination
    BY DEF Destination
  <2> QED BY <1>1, <1>4, <1>5, <2>1 DEF SingleStores
<1>7. /\ Before(h) = {} /\ \A d \in RobIndex : d # h => Before(d)' = Before(d) \ {h}
  BY <1>0, <1>1, RetireAges
<1>8. ASSUME NEW d \in RobIndex, d # h, NEW a \in Addr
      PROVE  /\ StoreWriters(d, a)' = StoreWriters(d, a) \ {h}
             /\ StoreWriters(d, a) \in SUBSET RobIndex
             /\ StoreWriters(d, a) \ {h} # {} =>
                  /\ Nearest(StoreWriters(d, a))' = Nearest(StoreWriters(d, a))
                  /\ Nearest(StoreWriters(d, a)) # h
  <2>1. \A p \in Before(d)' : p \in RobIndex /\ rob'[p] = rob[p] /\ p # h
    BY <1>1, <1>7, <1>8 DEF Before
  <2>2. StoreWriters(d, a)' = {p \in Before(d)' : Writes(rob'[p], a)}
    BY DEF StoreWriters, Writes
  <2>3. StoreWriters(d, a)' = {p \in Before(d) \ {h} : Writes(rob[p], a)}
    BY <1>7, <1>8, <2>1, <2>2
  <2>4. PICK S, T : S = StoreWriters(d, a) /\ T = S \ {h}
    OBVIOUS
  <2>5. StoreWriters(d, a)' = T /\ S \in SUBSET RobIndex
    BY <2>3, <2>4 DEF StoreWriters, Before
  <2>6. T # {} => Nearest(T)' = Nearest(S) /\ Nearest(S) \in T
    BY <1>0, <2>4, <2>5, RetireWriters
  <2>7. Nearest(StoreWriters(d, a))' = Nearest(T)'
    BY <2>5 DEF Nearest
  <2> QED BY <2>4, <2>5, <2>6, <2>7
<1>9. ListedFor(rob)'
  <2> SUFFICES ASSUME NEW p \in RobIndex, NEW d \in RobIndex,
                      d \in rob'[p].memory_instrs_depend_on_me
               PROVE  \E a \in Addr : /\ StoreWriters(d, a)' # {}
                                      /\ p = Nearest(StoreWriters(d, a))'
    BY DEF ListedFor
  <2>1. p # h /\ d \in rob[p].memory_instrs_depend_on_me
    BY <1>1, <1>5
  <2>2. PICK a \in Addr : StoreWriters(d, a) # {} /\ p = Nearest(StoreWriters(d, a))
    BY <1>4, <2>1 DEF ListedFor
  <2>3. p \in StoreWriters(d, a)
    BY <1>1, <2>2, NearestIn
  <2>4. d # h
    BY <1>7, <2>3 DEF StoreWriters
  <2> QED BY <1>8, <2>1, <2>2, <2>3, <2>4
<1>10. StillWait(rob, lq, sq)'
  <2> SUFFICES ASSUME NEW d \in RobIndex, NEW j \in Source,
                      rob'[d].instr.source_memory[j] # NoAddr, StoreFor(d, j)' # {}
               PROVE  WaitsFor(rob', lq', sq', d, j, StoreId(d, j)')
    BY DEF StillWait
  <2>1. d # h /\ rob'[d] = rob[d]
    BY <1>1, <1>5
  <2>2. PICK a : a = rob[d].instr.source_memory[j]
    OBVIOUS
  <2>3. a \in Addr /\ a # NoAddr
    <3>1. rob[d] \in EntryType
      BY <1>4
    <3> QED BY <2>1, <2>2, <3>1 DEF EntryType, Instruction
  <2>4. /\ StoreFor(d, j) = StoreWriters(d, a)
        /\ StoreFor(d, j)' = StoreWriters(d, a)'
    BY <2>1, <2>2 DEF StoreFor
  <2>5. StoreFor(d, j) # {} /\ StoreWriters(d, a) \ {h} # {}
    BY <1>8, <2>1, <2>3, <2>4
  <2>6. PICK p, id : p = Nearest(StoreFor(d, j)) /\ id = StoreId(d, j)
    OBVIOUS
  <2>7. p \in RobIndex /\ id = rob[p].instr_id /\ Used(p)
    BY <2>1, <2>5, <2>6, StoreIdIs
  <2>8. Nearest(StoreWriters(d, a))' = p /\ p # h
    BY <1>8, <2>1, <2>3, <2>4, <2>5, <2>6
  <2>9. StoreId(d, j)' = id
    <3>1. Nearest(StoreFor(d, j))' = p
      BY <2>1, <2>2, <2>8 DEF StoreFor
    <3>2. StoreId(d, j)' = rob'[p].instr_id
      BY <3>1 DEF StoreId
    <3> QED BY <1>1, <2>7, <2>8, <3>2
  <2>10. WaitsFor(rob, lq, sq, d, j, id)
    BY <1>4, <2>1, <2>2, <2>3, <2>5, <2>6 DEF StillWait
  <2>11. id # retired
    <3>1. Age(h) = 0 /\ rob[h].instr_id = retired
      BY <1>0, <1>1, <1>4, RetireAges DEF Ring, Used, Blank
    <3> QED BY <1>1, <1>4, <2>7, <2>8, <3>1, UniqueId
  <2>12. NoData(sq', id, a) => NoData(sq, id, a)
    <3> SUFFICES ASSUME NoData(sq', id, a), NEW k \in SqIndex,
                        sq[k].address = a, sq[k].instr_id = id
                 PROVE  sq[k].fetched # "COMPLETED"
      BY DEF NoData
    <3>1. k \notin SlotsOf(h)
      BY <1>2, <2>11
    <3>2. sq'[k] = sq[k]
      BY <1>2, <3>1
    <3> QED BY <3>2 DEF NoData
  <2> QED BY <1>3, <2>1, <2>2, <2>9, <2>10, <2>12 DEF WaitsFor
<1> QED BY <1>3, <1>4, <1>6, <1>9, <1>10 DEF OneStoreInv

(* execute_load only marks a load. *)
LEMMA LoadOne == ASSUME IInv, OneStoreInv, execute_load PROVE OneStoreInv'
<1>1. /\ rob' = rob /\ retired' = retired /\ sq' = sq /\ failed' = failed
  BY DEF execute_load, robVars, storeVars
<1>2. lq' = [lq EXCEPT ![Head(rtl0)].fetched = "INFLIGHT"] /\ lq \in [LqIndex -> LoadType]
  BY DEF execute_load, IInv, QueuesTyped
<1>3. \A l \in LqIndex : /\ lq'[l].instr_id = lq[l].instr_id
                         /\ lq'[l].data_index = lq[l].data_index
                         /\ lq'[l].producer_id = lq[l].producer_id
  <2> SUFFICES ASSUME NEW l \in LqIndex
               PROVE  /\ lq'[l].instr_id = lq[l].instr_id /\ lq'[l].data_index = lq[l].data_index
                      /\ lq'[l].producer_id = lq[l].producer_id
    OBVIOUS
  <2>1. PICK e, h : e = lq[l] /\ h = Head(rtl0)
    OBVIOUS
  <2>2. e \in LoadType /\ lq'[l] = IF l = h THEN [e EXCEPT !.fetched = "INFLIGHT"] ELSE e
    BY <1>2, <2>1
  <2> QED BY <2>1, <2>2 DEF LoadType
<1>4. SingleStores' /\ ListedFor(rob)' /\ StillWait(rob, lq, sq)'
  <2>1. \A p \in RobIndex : SameNames(rob[p], rob'[p])
    BY <1>1 DEF SameNames, SameInstr
  <2>2. PICK M \in SUBSET LqIndex : M = {}
    OBVIOUS
  <2> QED BY <1>1, <1>3, <2>1, <2>2, WaitsKept
<1> QED BY <1>1, <1>4 DEF OneStoreInv

(* LoadsDone leaves the names of an entry alone. *)
LEMMA LoadsDoneNames ==
    ASSUME NEW e \in EntryType, NEW i, NEW M, NEW data
    PROVE  SameNames(e, LoadsDone(e, i, M, data))
<1>1. \A n, v : LET f == [e EXCEPT !.num_mem_ops = n, !.value = v] IN SameNames(e, f)
  BY DEF SameNames, SameInstr, EntryType
<1> QED BY <1>1 DEF LoadsDone, EntryType

(* complete_data_fetch ends loads that wait for no store. *)
LEMMA FetchOne ==
    ASSUME IInv, OneStoreInv, NEW M \in SUBSET LqIndex, complete_data_fetch(M)
    PROVE  OneStoreInv'
<1> DEFINE data == [l \in M |-> memory[lq[l].address]]
           C == {lq[l].rob_index : l \in M}
<1>1. /\ M \subseteq InFlight
      /\ rob' = [p \in RobIndex |-> LoadsDone(rob[p], p, M, data)]
      /\ release_load_queue(M) /\ retired' = retired /\ sq' = sq
      /\ failed' = failed \cup (UNION {Below0(LoadsDone(rob[p], p, M, data)) : p \in C})
                     \cup (IF \A l \in M : rob[lq[l].rob_index].instr_id = lq[l].instr_id
                           THEN {} ELSE {"check_rob"})
  BY DEF complete_data_fetch, storeVars
<1> HIDE DEF data, C
<1>2. /\ rob \in [RobIndex -> EntryType] /\ LoadSlots(rob, lq) /\ Producers(rob, lq, sq)
      /\ "producer_id" \notin failed
  BY DEF IInv, RobTyped, LoadInv, DataInv, OneStoreInv
<1>3. "producer_id" \notin failed'
  <2>1. \A e : "producer_id" \notin Below0(e)
    BY DEF Below0
  <2> QED BY <1>1, <1>2, <2>1
<1>4. \A p \in RobIndex : SameNames(rob[p], rob'[p])
  BY <1>1, <1>2, LoadsDoneNames
<1>5. \A l \in LqIndex \ M : lq'[l] = lq[l]
  BY <1>1 DEF release_load_queue
<1>6. \A l \in M : lq[l].producer_id = None
  <2> SUFFICES ASSUME NEW l \in M PROVE lq[l].producer_id = None
    OBVIOUS
  <2>1. l \in LqIndex /\ lq[l].fetched = "INFLIGHT"
    BY <1>1 DEF InFlight
  <2>2. lq[l].address # NoAddr
    BY <1>2, <2>1 DEF LoadSlots, FreeLoad
  <2> QED BY <1>2, <2>1, <2>2 DEF Producers
<1>7. \A d \in RobIndex, j \in Source :
         (rob[d].instr.source_memory[j] # NoAddr /\ StoreFor(d, j) # {})
            => \A l \in M : lq[l].producer_id # StoreId(d, j)
  BY <1>6, StoreIdIs DEF None
<1>8. SingleStores' /\ ListedFor(rob)' /\ StillWait(rob, lq, sq)'
  BY <1>1, <1>4, <1>5, <1>7, WaitsKept
<1> QED BY <1>3, <1>8 DEF OneStoreInv

(* A store that has not executed is the only one of its entry, *)
LEMMA OnlyStore ==
    ASSUME IInv, SingleStores, NEW s \in SqIndex, sq[s].address # NoAddr, sq[s].fetched = "NO"
    PROVE  NoData(sq, sq[s].instr_id, sq[s].address)
<1>1. /\ RobTyped /\ QueuesTyped /\ Ring /\ StoreSlots(rob, sq) /\ StoreIndices(rob, sq)
  BY DEF IInv, StoreInv
<1> SUFFICES ASSUME NEW k \in SqIndex, sq[k].address = sq[s].address,
                    sq[k].instr_id = sq[s].instr_id
             PROVE  sq[k].fetched # "COMPLETED"
  BY DEF NoData
<1>2. PICK i : i = sq[s].rob_index
  OBVIOUS
<1>3. PICK p : p = sq[k].rob_index
  OBVIOUS
<1>4. /\ i \in RobIndex /\ Used(i) /\ sq[s].instr_id = rob[i].instr_id
      /\ \E j \in Destination : /\ rob[i].sq_index[j] = s
                                /\ rob[i].instr.destination_memory[j] = sq[s].address
  BY <1>1, <1>2, StoreOwner
<1>5. /\ p \in RobIndex /\ Used(p) /\ sq[k].instr_id = rob[p].instr_id
      /\ \E j \in Destination : /\ rob[p].sq_index[j] = k
                                /\ rob[p].instr.destination_memory[j] = sq[k].address
  BY <1>1, <1>3, StoreOwner
<1>6. p = i
  BY <1>1, <1>4, <1>5, UniqueId
<1>7. k = s
  <2>1. Destination = {1, 2}
    BY DEF Destination
  <2> QED BY <1>4, <1>5, <1>6, <2>1 DEF SingleStores
<1> QED BY <1>7

(* and the loads in its list still wait for it. *)
LEMMA WokenAreWaiting ==
    ASSUME IInv, OneStoreInv, NEW s \in SqIndex, sq[s].address # NoAddr, sq[s].fetched = "NO"
    PROVE  /\ WokenSlots(s) = WaitingSlots(s)
           /\ \A l \in WokenSlots(s) : lq[l].address = sq[s].address
<1>1. /\ RobTyped /\ QueuesTyped /\ Ring /\ StoreSlots(rob, sq) /\ StoreIndices(rob, sq)
      /\ LoadSlots(rob, lq) /\ rob \in [RobIndex -> EntryType] /\ retired \in Nat
      /\ SingleStores /\ ListedFor(rob) /\ StillWait(rob, lq, sq) /\ NoAddr \notin Addr
  BY CoreAssumption DEF IInv, StoreInv, LoadInv, RobTyped, OneStoreInv
<1>2. PICK i, id, a : i = sq[s].rob_index /\ id = sq[s].instr_id /\ a = sq[s].address
  OBVIOUS
<1>3. /\ i \in RobIndex /\ id = rob[i].instr_id /\ a \in Addr /\ a # NoAddr
      /\ \E j \in Destination : rob[i].instr.destination_memory[j] = a
  BY <1>1, <1>2, StoreOwner
<1>4. NoData(sq, id, a)
  BY <1>1, <1>2, OnlyStore
<1>5. ASSUME NEW d \in RobIndex, NEW j \in Source, d \in rob[i].memory_instrs_depend_on_me,
             rob[d].instr.source_memory[j] = a, rob[d].lq_index[j] # None,
             NEW l, l = rob[d].lq_index[j]
      PROVE  lq[l].producer_id = id /\ lq[l].address = a
  <2>1. PICK b \in Addr : StoreWriters(d, b) # {} /\ i = Nearest(StoreWriters(d, b))
    BY <1>1, <1>3, <1>5 DEF ListedFor
  <2>2. Writes(rob[i], b)
    <3>1. i \in StoreWriters(d, b)
      BY <1>1, <1>5, <2>1, NearestIn
    <3> QED BY <3>1 DEF StoreWriters
  <2>3. b = a
    <3>1. Destination = {1, 2}
      BY DEF Destination
    <3> QED BY <1>1, <1>3, <2>1, <2>2, <3>1 DEF SingleStores, Writes
  <2>4. StoreFor(d, j) # {} /\ StoreId(d, j) = id
    BY <1>3, <1>5, <2>1, <2>3 DEF StoreFor, StoreId
  <2>5. WaitsFor(rob, lq, sq, d, j, id)
    BY <1>1, <1>3, <1>5, <2>4 DEF StillWait
  <2>6. lq[l].instr_id = rob[d].instr_id /\ lq[l].data_index = j /\ lq[l].producer_id = id
    BY <1>4, <1>5, <2>5 DEF WaitsFor
  <2>7. l \in LqIndex /\ rob[d].instr_id # None
    <3>1. rob[d] \in EntryType
      BY <1>1, <1>5
    <3>2. l \in LqIndex
      BY <1>5, <3>1 DEF EntryType
    <3> QED BY <1>1, <1>3, <1>5, <3>2, OperandUsed
  <2>8. lq[l].address # NoAddr
    BY <1>1, <2>6, <2>7 DEF LoadSlots, FreeLoad
  <2>9. lq[l].rob_index = d /\ rob[d].instr.source_memory[j] = lq[l].address
    BY <1>1, <1>5, <2>6, <2>7, <2>8, SlotOwner
  <2> QED BY <1>5, <2>6, <2>9
<1>6. \A l \in WaitingSlots(s) : lq[l].producer_id = id /\ lq[l].address = a
  <2> SUFFICES ASSUME NEW l \in WaitingSlots(s)
               PROVE  lq[l].producer_id = id /\ lq[l].address = a
    OBVIOUS
  <2>1. PICK w \in Waiting(i, a) : l = rob[w[1]].lq_index[w[2]]
    BY <1>2 DEF WaitingSlots
  <2>2. PICK d, j : d = w[1] /\ j = w[2]
    OBVIOUS
  <2>3. /\ d \in rob[i].memory_instrs_depend_on_me /\ j \in Source
        /\ rob[d].instr.source_memory[j] = a /\ rob[d].lq_index[j] # None
    BY <2>1, <2>2 DEF Waiting
  <2>4. d \in RobIndex
    <3>1. rob[i] \in EntryType
      BY <1>1, <1>3
    <3> QED BY <2>3, <3>1 DEF EntryType
  <2> QED BY <1>5, <2>1, <2>2, <2>3, <2>4
<1> QED BY <1>2, <1>6 DEF WokenSlots

(* execute_store finds only loads that name it and ends all of them. *)
LEMMA StoreOne == ASSUME IInv, OneStoreInv, execute_store PROVE OneStoreInv'
<1> DEFINE s == Head(rts0)
           i == sq[s].rob_index
           id == sq[s].instr_id
           W == WaitingSlots(s)
           M == WokenSlots(s)
           data == [l \in M |-> id]
           before(p) == IF p = i THEN [rob[i] EXCEPT !.num_mem_ops = @ - 1] ELSE rob[p]
           Done(p) == LoadsDone(before(p), p, M, data)
           C == {i} \cup {lq[l].rob_index : l \in M}
<1>1. /\ rob' = [p \in RobIndex |-> Done(p)]
      /\ release_load_queue(M) /\ retired' = retired
      /\ sq' = [sq EXCEPT ![s].fetched = "COMPLETED"]
  BY DEF execute_store, WaitingSlots, WokenSlots
<1>2. failed' = failed \cup (UNION {Below0(Done(p)) : p \in C})
                  \cup (IF M = W THEN {} ELSE {"producer_id"})
  BY DEF execute_store, WaitingSlots, WokenSlots
<1>3. s \in SqIndex /\ sq[s].address # NoAddr /\ sq[s].fetched = "NO" /\ M \in SUBSET LqIndex
  BY StoreLoads
<1>4. M = W /\ \A l \in M : lq[l].address = sq[s].address
  BY <1>3, WokenAreWaiting
<1>5. \A l \in M : lq[l].producer_id = id
  BY DEF WokenSlots
<1> HIDE DEF M, W, data, C
<1>6. /\ rob \in [RobIndex -> EntryType] /\ sq \in [SqIndex -> StoreType] /\ LoadSlots(rob, lq)
      /\ RobTyped /\ QueuesTyped /\ Ring /\ NoAddr \notin Addr /\ "producer_id" \notin failed
  BY CoreAssumption DEF IInv, RobTyped, QueuesTyped, LoadInv, OneStoreInv
<1>7. "producer_id" \notin failed'
  <2>1. \A e : "producer_id" \notin Below0(e)
    BY DEF Below0
  <2>2. "producer_id" \notin UNION {Below0(Done(p)) : p \in C}
    BY <2>1
  <2> HIDE DEF Done
  <2> QED BY <1>2, <1>4, <1>6, <2>2
<1>8. \A p \in RobIndex : SameNames(rob[p], rob'[p])
  <2> SUFFICES ASSUME NEW p \in RobIndex PROVE SameNames(rob[p], rob'[p])
    OBVIOUS
  <2>1. PICK e, b : e = rob[p] /\ b = before(p)
    OBVIOUS
  <2>2. e \in EntryType /\ b = IF p = i THEN [e EXCEPT !.num_mem_ops = e.num_mem_ops - 1] ELSE e
    BY <1>6, <2>1
  <2>3. b \in EntryType /\ SameNames(e, b)
    BY ONLY <2>2 DEF EntryType, SameNames, SameInstr
  <2>4. rob'[p] = LoadsDone(b, p, M, data)
    BY <1>1, <2>1
  <2>5. SameNames(b, rob'[p])
    BY <2>3, <2>4, LoadsDoneNames
  <2> QED BY <2>1, <2>3, <2>5 DEF SameNames, SameInstr
<1>9. \A l \in LqIndex \ M : lq'[l] = lq[l]
  BY <1>1 DEF release_load_queue
<1>10. sq'[s].fetched = "COMPLETED" /\ sq'[s].instr_id = id /\ sq'[s].address = sq[s].address
       /\ \A k \in SqIndex : k # s => sq'[k] = sq[k]
  <2>1. PICK e, t : e = sq[s] /\ t = s
    OBVIOUS
  <2>2. e \in StoreType /\ sq'[t] = [e EXCEPT !.fetched = "COMPLETED"]
        /\ \A k \in SqIndex : k # t => sq'[k] = sq[k]
    BY <1>1, <1>3, <1>6, <2>1
  <2> QED BY <2>1, <2>2 DEF StoreType
<1> HIDE DEF s, i, id
<1>11. ASSUME NEW d \in RobIndex, NEW j \in Source,
              rob[d].instr.source_memory[j] # NoAddr, StoreFor(d, j) # {},
              NoData(sq', StoreId(d, j), rob[d].instr.source_memory[j])
       PROVE  /\ NoData(sq, StoreId(d, j), rob[d].instr.source_memory[j])
              /\ \A l \in M : (lq[l].producer_id = StoreId(d, j) /\ lq[l].data_index = j)
                                => lq[l].instr_id # rob[d].instr_id
  <2>1. PICK a, n : a = rob[d].instr.source_memory[j] /\ n = StoreId(d, j)
    OBVIOUS
  <2>2. NoData(sq', n, a)
    BY <1>11, <2>1
  <2>3. ~ (id = n /\ sq[s].address = a)
    BY <1>3, <1>10, <2>2 DEF NoData
  <2>4. NoData(sq, n, a)
    <3> SUFFICES ASSUME NEW k \in SqIndex, sq[k].address = a, sq[k].instr_id = n
                 PROVE  sq[k].fetched # "COMPLETED"
      BY DEF NoData
    <3>1. k # s
      BY <2>3 DEF id
    <3> QED BY <1>10, <2>2, <3>1 DEF NoData
  <2>5. ASSUME NEW l \in M, lq[l].producer_id = n, lq[l].data_index = j,
               lq[l].instr_id = rob[d].instr_id
        PROVE  FALSE
    <3>1. l \in LqIndex /\ id = n /\ lq[l].address = sq[s].address /\ lq[l].address # NoAddr
      BY <1>3, <1>4, <1>5, <2>5
    <3>2. lq[l].rob_index = d /\ rob[d].instr.source_memory[j] = lq[l].address
      BY <1>6, <2>5, <3>1, SlotOwner
    <3> QED BY <2>1, <2>3, <3>1, <3>2
  <2> QED BY <2>1, <2>4, <2>5
<1>12. SingleStores' /\ ListedFor(rob)' /\ StillWait(rob, lq, sq)'
  BY <1>1, <1>3, <1>8, <1>9, <1>11, WaitsKept
<1> QED BY <1>7, <1>12 DEF OneStoreInv

(* What holds of the core while do_memory_scheduling adds operands. *)
StageOne(c) == ListedFor(c.rob) /\ StillWait(c.rob, c.lq, c.sq) /\ "producer_id" \notin c.failed

(* add_load_queue: a load that does not end at once waits for its producer. *)
LEMMA LoadAddedOne ==
    ASSUME IInv, NEW c, NEW i \in RobIndex, Stage(c, i), NEW j \in Source, MayAddLoad(c, i, j),
           StageOne(c)
    PROVE  StageOne(add_load_queue(c, i, j))
<1>1. PICK d, P, a : /\ d = add_load_queue(c, i, j) /\ a = rob[i].instr.source_memory[j]
                     /\ P = mem_RAW_dependency(i, rob[i].instr.source_memory[j])
  OBVIOUS
<1>2. a # NoAddr /\ d \in CoreType
  BY <1>1, AddLoadFields
<1>3. PICK l \in LqIndex : /\ c.lq[l].address = NoAddr
                           /\ LoadEntries(c, d, i, j, l, P)
                           /\ \/ P # {} /\ Forwarded(c, d, i, j)
                              \/ Slotted(c, d, i, j, l, P)
  BY <1>1, AddLoadFields
<1>4. /\ c \in CoreType /\ c.rob \in [RobIndex -> EntryType] /\ LoadSlots(c.rob, c.lq)
      /\ \A p \in RobIndex : SameFront(rob[p], c.rob[p])
      /\ RobTyped /\ Ring /\ rob \in [RobIndex -> EntryType]
      /\ ListedFor(c.rob) /\ StillWait(c.rob, c.lq, c.sq) /\ "producer_id" \notin c.failed
  BY DEF Stage, StageLoads, CoreType, StageOne, IInv, RobTyped
<1>5. /\ P = IF StoreFor(i, j) = {} THEN {} ELSE {Nearest(StoreFor(i, j))}
      /\ a \in Addr /\ StoreId(i, j) \in Int
  <2>1. P = mem_RAW_dependency(i, rob[i].instr.source_memory[j])
    BY <1>1
  <2>2. rob[i].instr.source_memory[j] # NoAddr
    BY <1>1, <1>2
  <2>3. rob[i].instr.source_memory[j] \in Addr /\ StoreId(i, j) \in Int
    BY <2>1, <2>2, DependencyIs
  <2>4. P = IF StoreFor(i, j) = {} THEN {} ELSE {Nearest(StoreFor(i, j))}
    BY <2>1 DEF mem_RAW_dependency, StoreFor, StoreWriters
  <2> QED BY <1>1, <2>3, <2>4
<1>6. \A p \in RobIndex : /\ d.rob[p].instr = c.rob[p].instr /\ c.rob[p].instr = rob[p].instr
                          /\ d.rob[p].instr_id = c.rob[p].instr_id
                          /\ c.rob[p].instr_id = rob[p].instr_id
  BY <1>3, <1>4 DEF LoadEntries, SameFront, SameInstr
<1>7. "producer_id" \notin d.failed
  <2>1. \/ d.failed = c.failed
        \/ \E e : d.failed = c.failed \cup Below0(e)
    BY <1>1, <1>4 DEF add_load_queue, CoreType
  <2> QED BY <1>4, <2>1 DEF Below0
<1>8. ListedFor(d.rob)
  <2> SUFFICES ASSUME NEW p \in RobIndex, NEW o \in RobIndex,
                      o \in d.rob[p].memory_instrs_depend_on_me
               PROVE  \E b \in Addr : StoreWriters(o, b) # {} /\ p = Nearest(StoreWriters(o, b))
    BY DEF ListedFor
  <2>1. CASE o \in c.rob[p].memory_instrs_depend_on_me
    BY <1>4, <2>1 DEF ListedFor
  <2>2. CASE o = i /\ p \in P
    <3>1. StoreFor(i, j) # {} /\ p = Nearest(StoreFor(i, j))
      BY <1>5, <2>2
    <3> QED BY <1>1, <1>5, <2>2, <3>1 DEF StoreFor
  <2> QED BY <1>3, <2>1, <2>2 DEF LoadEntries
<1>9. StillWait(d.rob, d.lq, d.sq)
  <2> SUFFICES ASSUME NEW o \in RobIndex, NEW m \in Source,
                      d.rob[o].instr.source_memory[m] # NoAddr, StoreFor(o, m) # {}
               PROVE  WaitsFor(d.rob, d.lq, d.sq, o, m, StoreId(o, m))
    BY DEF StillWait
  <2>1. PICK b, id : b = c.rob[o].instr.source_memory[m] /\ id = StoreId(o, m)
    OBVIOUS
  <2>2. d.rob[o].instr.source_memory[m] = b /\ b # NoAddr /\ d.sq = c.sq
        /\ rob[o].instr.source_memory[m] = b
    BY <1>3, <1>6, <2>1 DEF LoadEntries
  <2>3. WaitsFor(c.rob, c.lq, c.sq, o, m, id)
    BY <1>4, <2>1, <2>2 DEF StillWait
  <2>4. Used(o)
    BY <1>4, <2>2, OperandUsed
  <2>5. CASE o = i /\ m = j
    <3>1. P # {}
      BY <1>5, <2>5
    <3>2. b = a
      BY <1>1, <2>2, <2>5
    <3>3. CASE Slotted(c, d, i, j, l, P)
      <4>1. d.rob[i].lq_index[j] = l
        <5>1. c.rob[i] \in EntryType
          BY <1>4
        <5> QED BY <1>3, <5>1 DEF LoadEntries, EntryType
      <4>2. d.lq[l] = [instr_id |-> rob[i].instr_id, address |-> rob[i].instr.source_memory[j],
                       rob_index |-> i, data_index |-> j, producer_id |-> StoreId(i, j),
                       fetched |-> "NO"]
        BY <1>3, <1>4, <3>3 DEF Slotted, CoreType
      <4>3. d.rob[i].instr_id = rob[i].instr_id
        BY <1>6
      <4> QED BY <2>5, <4>1, <4>2, <4>3 DEF WaitsFor
    <3>4. CASE ~ Slotted(c, d, i, j, l, P)
      <4>1. \E s \in SqIndex : /\ c.sq[s].address = a /\ c.sq[s].instr_id = StoreId(i, j)
                               /\ c.sq[s].fetched = "COMPLETED"
        BY <1>1, <1>3, <3>4 DEF Forwarded
      <4>2. ~ NoData(c.sq, id, a)
        BY <2>1, <2>5, <4>1 DEF NoData
      <4> QED BY <2>1, <2>2, <3>2, <4>2 DEF WaitsFor
    <3> QED BY <3>3, <3>4
  <2>6. CASE ~ (o = i /\ m = j)
    <3>1. d.rob[o].lq_index[m] = c.rob[o].lq_index[m]
      <4>1. c.rob[i] \in EntryType
        BY <1>4
      <4> QED BY <1>3, <2>6, <4>1 DEF LoadEntries, SameOps, EntryType
    <3>2. ASSUME c.rob[o].lq_index[m] # None, NoData(c.sq, id, b),
                 NEW k, k = c.rob[o].lq_index[m]
          PROVE  /\ d.lq[k].instr_id = d.rob[o].instr_id /\ d.lq[k].data_index = m
                 /\ d.lq[k].producer_id = id
      <4>1. /\ c.lq[k].instr_id = c.rob[o].instr_id /\ c.lq[k].data_index = m
            /\ c.lq[k].producer_id = id
        BY <2>1, <2>3, <3>2 DEF WaitsFor
      <4>2. k \in LqIndex
        <5>1. c.rob[o] \in EntryType
          BY <1>4
        <5> QED BY <3>2, <5>1 DEF EntryType
      <4>3. k # l
        <5>1. c.lq[l] = FreeLoad
          BY <1>3, <1>4 DEF LoadSlots
        <5>2. c.lq[l].instr_id = None
          BY <5>1 DEF FreeLoad
        <5>3. c.lq[k].instr_id # None
          BY <1>6, <2>4, <4>1 DEF Used
        <5> QED BY <5>2, <5>3
      <4>4. d.lq[k] = c.lq[k]
        BY <1>3, <1>4, <4>2, <4>3 DEF Forwarded, Slotted, CoreType
      <4> QED BY <1>6, <4>1, <4>4
    <3> QED BY <2>1, <2>2, <3>1, <3>2 DEF WaitsFor
  <2> QED BY <2>1, <2>5, <2>6
<1> QED BY <1>1, <1>7, <1>8, <1>9 DEF StageOne

(* add_store_queue: a slot that gets a store held none. *)
LEMMA StoreAddedOne ==
    ASSUME IInv, NEW c, NEW i \in RobIndex, Stage(c, i), NEW j \in Destination,
           MayAddStore(c, i, j), StageOne(c)
    PROVE  StageOne(add_store_queue(c, i, j))
<1>1. PICK d, s : d = add_store_queue(c, i, j) /\ s = c.sq_tail
  OBVIOUS
<1>2. s \in SqIndex /\ StoreAdded(c, d, i, j, s)
  BY <1>1, AddStoreFields
<1>3. /\ c \in CoreType /\ c.sq \in [SqIndex -> StoreType] /\ NoAddr \notin Addr
      /\ \A p \in RobIndex : SameFront(rob[p], c.rob[p])
      /\ ListedFor(c.rob) /\ StillWait(c.rob, c.lq, c.sq) /\ "producer_id" \notin c.failed
  BY CoreAssumption DEF Stage, CoreType, StageOne
<1>4. "producer_id" \notin d.failed
  BY <1>1, <1>3 DEF add_store_queue, CoreType
<1>5. \A p \in RobIndex :
         /\ d.rob[p].instr = c.rob[p].instr /\ d.rob[p].instr_id = c.rob[p].instr_id
         /\ d.rob[p].lq_index = c.rob[p].lq_index
         /\ d.rob[p].memory_instrs_depend_on_me = c.rob[p].memory_instrs_depend_on_me
  BY <1>2 DEF StoreAdded, SameFront, SameInstr
<1>6. ListedFor(d.rob)
  BY <1>3, <1>5 DEF ListedFor
<1>7. d.lq = c.lq /\ c.sq[s].address = NoAddr /\ \A k \in SqIndex : k # s => d.sq[k] = c.sq[k]
  BY <1>2, <1>3 DEF StoreAdded, FreeStore
<1>8. \A id, a : a # NoAddr /\ NoData(d.sq, id, a) => NoData(c.sq, id, a)
  BY <1>7 DEF NoData
<1>9. StillWait(d.rob, d.lq, d.sq)
  <2> SUFFICES ASSUME NEW o \in RobIndex, NEW m \in Source,
                      d.rob[o].instr.source_memory[m] # NoAddr, StoreFor(o, m) # {}
               PROVE  WaitsFor(d.rob, d.lq, d.sq, o, m, StoreId(o, m))
    BY DEF StillWait
  <2>1. WaitsFor(c.rob, c.lq, c.sq, o, m, StoreId(o, m))
    BY <1>3, <1>5 DEF StillWait
  <2> QED BY <1>5, <1>7, <1>8, <2>1 DEF WaitsFor
<1> QED BY <1>1, <1>4, <1>6, <1>9 DEF StageOne

(* All the operands check_and_add_lsq adds *)
LEMMA OperandsAddedOne ==
    ASSUME IInv, NEW i \in RobIndex, Used(i), Stage(Core, i), StageOne(Core)
    PROVE  StageOne(check_and_add_lsq(Core, i))
<1> DEFINE Good(c) == Stage(c, i) /\ StageOne(c)
<1>1. ASSUME NEW c, Good(c), NEW j \in Source PROVE Good(AddLoad(c, i, j))
  BY <1>1, LoadAdded, LoadAddedOne DEF AddLoad
<1>2. ASSUME NEW c, Good(c), NEW j \in Destination PROVE Good(AddStore(c, i, j))
  BY <1>2, StoreAddedStage, StoreAddedOne DEF AddStore
<1>3. 1 \in Source /\ 2 \in Source /\ 3 \in Source /\ 4 \in Source
      /\ 1 \in Destination /\ 2 \in Destination
  BY DEF Source, Destination
<1>4. PICK a : a = AddLoad(Core, i, 1)
  OBVIOUS
<1>5. PICK b : b = AddLoad(a, i, 2)
  OBVIOUS
<1>6. PICK c : c = AddLoad(b, i, 3)
  OBVIOUS
<1>7. PICK d : d = AddLoad(c, i, 4)
  OBVIOUS
<1>8. PICK e : e = AddStore(d, i, 1)
  OBVIOUS
<1>9. Good(Core)
  OBVIOUS
<1> HIDE DEF Good
<1>10. Good(a)
  BY <1>1, <1>3, <1>4, <1>9
<1>11. Good(b)
  BY <1>1, <1>3, <1>5, <1>10
<1>12. Good(c)
  BY <1>1, <1>3, <1>6, <1>11
<1>13. Good(d)
  BY <1>1, <1>3, <1>7, <1>12
<1>14. Good(e)
  BY <1>2, <1>3, <1>8, <1>13
<1>15. Good(AddStore(e, i, 2))
  BY <1>2, <1>3, <1>14
<1> QED BY <1>4, <1>5, <1>6, <1>7, <1>8, <1>15 DEF Good, check_and_add_lsq

(* do_memory_scheduling *)
LEMMA MemorySchedulingOne ==
    ASSUME IInv, OneStoreInv, NEW i \in RobIndex, do_memory_scheduling(i)
    PROVE  OneStoreInv'
<1>1. PICK c : c = check_and_add_lsq(Core, i)
  OBVIOUS
<1>2. /\ lq' = c.lq /\ sq' = c.sq /\ failed' = c.failed /\ retired' = retired
  BY <1>1 DEF do_memory_scheduling
<1>3. /\ \A p \in RobIndex : SameMem(c.rob[p], rob'[p]) /\ SameInstr(rob[p], rob'[p])
      /\ MayAdd(i)
  BY <1>1, MemorySchedulingRob
<1>4. Stage(Core, i) /\ Used(i)
  BY <1>3, StageStart
<1>5. StageOne(Core)
  BY DEF StageOne, OneStoreInv, Core
<1>6. StageOne(c)
  BY <1>1, <1>4, <1>5, OperandsAddedOne
<1>7. /\ ListedFor(c.rob) /\ StillWait(c.rob, c.lq, c.sq) /\ "producer_id" \notin c.failed
      /\ SingleStores /\ rob \in [RobIndex -> EntryType]
  BY <1>6 DEF StageOne, OneStoreInv, IInv, RobTyped
<1>8. \A d \in RobIndex, a \in Addr :
         /\ StoreWriters(d, a)' = StoreWriters(d, a)
         /\ Nearest(StoreWriters(d, a))' = Nearest(StoreWriters(d, a))
  BY <1>2, <1>3, SameWriters
<1>9. SingleStores'
  BY <1>3, <1>7 DEF SingleStores, SameInstr
<1>10. \A p \in RobIndex :
          /\ rob'[p].memory_instrs_depend_on_me = c.rob[p].memory_instrs_depend_on_me
          /\ rob'[p].instr = c.rob[p].instr /\ rob'[p].instr_id = c.rob[p].instr_id
          /\ rob'[p].lq_index = c.rob[p].lq_index
          /\ rob'[p].instr = rob[p].instr /\ rob'[p].instr_id = rob[p].instr_id
  BY <1>3 DEF SameMem, SameInstr
<1>11. ListedFor(rob)'
  <2> SUFFICES ASSUME NEW p \in RobIndex, NEW d \in RobIndex,
                      d \in rob'[p].memory_instrs_depend_on_me
               PROVE  \E a \in Addr : /\ StoreWriters(d, a)' # {}
                                      /\ p = Nearest(StoreWriters(d, a))'
    BY DEF ListedFor
  <2>1. PICK a \in Addr : StoreWriters(d, a) # {} /\ p = Nearest(StoreWriters(d, a))
    BY <1>7, <1>10 DEF ListedFor
  <2> QED BY <1>8, <2>1
<1>12. StillWait(rob, lq, sq)'
  <2> SUFFICES ASSUME NEW d \in RobIndex, NEW j \in Source,
                      rob'[d].instr.source_memory[j] # NoAddr, StoreFor(d, j)' # {}
               PROVE  WaitsFor(rob', lq', sq', d, j, StoreId(d, j)')
    BY DEF StillWait
  <2>1. PICK a : a = rob[d].instr.source_memory[j]
    OBVIOUS
  <2>2. a \in Addr /\ a # NoAddr /\ c.rob[d].instr.source_memory[j] = a
    <3>1. rob[d] \in EntryType
      BY <1>7
    <3> QED BY <1>10, <2>1, <3>1 DEF EntryType, Instruction
  <2>3. StoreFor(d, j)' = StoreFor(d, j)
    BY <1>8, <1>10, <2>1, <2>2 DEF StoreFor
  <2>4. PICK p, id : p = Nearest(StoreFor(d, j)) /\ id = StoreId(d, j)
    OBVIOUS
  <2>5. p \in RobIndex /\ id = rob[p].instr_id
    BY <2>1, <2>2, <2>3, <2>4, StoreIdIs
  <2>6. p = Nearest(StoreFor(d, j))'
    BY <1>8, <1>10, <2>1, <2>2, <2>4 DEF StoreFor
  <2>7. StoreId(d, j)' = id
    <3>1. StoreId(d, j)' = rob'[p].instr_id
      BY <2>6 DEF StoreId
    <3> QED BY <1>10, <2>5, <3>1
  <2>8. WaitsFor(c.rob, c.lq, c.sq, d, j, id)
    BY <1>7, <2>2, <2>3, <2>4 DEF StillWait
  <2> QED BY <1>2, <1>10, <2>7, <2>8 DEF WaitsFor
<1> QED BY <1>2, <1>7, <1>9, <1>11, <1>12 DEF OneStoreInv

(* Every action preserves it, *)
LEMMA StepKeepsOne ==
    ASSUME OneStoreEach, IInv, OneStoreInv, [Next]_vars PROVE OneStoreInv'
<1>1. ASSUME NEW k \in Kind, add_to_rob(k) PROVE OneStoreInv'
  BY <1>1, DispatchOne
<1>2. ASSUME NEW i \in RobIndex, do_scheduling(i) \/ complete_execution(i) PROVE OneStoreInv'
  BY <1>2, RegisterStepsOne
<1>3. ASSUME NEW i \in RobIndex, do_memory_scheduling(i) PROVE OneStoreInv'
  BY <1>3, MemorySchedulingOne
<1>4. ASSUME ExecuteRte0 \/ ExecuteRte1 PROVE OneStoreInv'
  BY <1>4, RegisterStepsOne
<1>5. ASSUME NEW M \in SUBSET LqIndex, complete_data_fetch(M) PROVE OneStoreInv'
  BY <1>5, FetchOne
<1>6. CASE UNCHANGED vars
  <2>1. rob' = rob /\ retired' = retired /\ lq' = lq /\ sq' = sq /\ failed' = failed
    BY <1>6 DEF vars, robVars, loadVars, storeVars
  <2>2. \A p \in RobIndex : SameMem(rob[p], rob'[p])
    BY <2>1 DEF SameMem, SameInstr
  <2>3. "producer_id" \notin failed'
    BY <2>1 DEF OneStoreInv
  <2> QED BY <2>1, <2>2, <2>3, RegisterSteps
<1>7. TraceEnds => UNCHANGED vars
  BY DEF TraceEnds
<1> QED BY <1>1, <1>2, <1>3, <1>4, <1>5, <1>6, <1>7, StoreOne, LoadOne, RetireOne DEF Next, Work

(* and it holds of an empty core. *)
LEMMA InitOne == ASSUME Init PROVE OneStoreInv
<1>1. /\ rob = [p \in RobIndex |-> FreeEntry] /\ failed = {}
  BY DEF Init
<1>2. /\ \A j \in Source : FreeEntry.instr.source_memory[j] = NoAddr
      /\ \A j \in Destination : FreeEntry.instr.destination_memory[j] = NoAddr
      /\ FreeEntry.memory_instrs_depend_on_me = {}
  BY FreeFields DEF FreeEntry, Entry, NoInstruction
<1>3. 1 \in Destination
  BY DEF Destination
<1>4. SingleStores
  BY <1>1, <1>2, <1>3 DEF SingleStores
<1>5. ListedFor(rob)
  BY <1>1, <1>2 DEF ListedFor
<1>6. StillWait(rob, lq, sq)
  BY <1>1, <1>2 DEF StillWait
<1> QED BY <1>1, <1>4, <1>5, <1>6 DEF OneStoreInv

(* None of the assertions on the path of an instruction through the back   *)
(* end fails when no instruction stores to two addresses.  With two, the   *)
(* assertion on producer_id can: the list of a store is one for all its    *)
(* addresses.                                                              *)
THEOREM NoFailure == ASSUME OneStoreEach PROVE Spec => []NoAssertionFails
<1>1. Init => IInv /\ OneStoreInv
  BY InitHolds, InitOne
<1>2. (IInv /\ OneStoreInv) /\ [Next]_vars => (IInv /\ OneStoreInv)'
  BY StepKeeps, StepKeepsOne
<1>3. IInv /\ OneStoreInv => NoAssertionFails
  BY DEF IInv, Failures, OneStoreInv, NoAssertionFails
<1> QED BY <1>1, <1>2, <1>3, PTL DEF Spec
=============================================================================
