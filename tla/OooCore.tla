------------------------------ MODULE OooCore ------------------------------
(***************************************************************************)
(* The out-of-order back end of src/ooo_cpu.cc: the reorder buffer (ROB),  *)
(* the register and memory dependences kept in it, the ready-to-execute    *)
(* queues RTE0 and RTE1, the load queue (LQ) with the ready-to-load queue  *)
(* RTL0, the store queue (SQ) with the store array STA and the             *)
(* ready-to-store queue RTS0.  The front end hands over one instruction    *)
(* after another; the L1D cache answers loads in any order, merges loads   *)
(* of a line, and takes the stores of retired instructions.                *)
(*                                                                         *)
(* Each function that works on one ROB, LQ or SQ entry is an action; the   *)
(* stage functions only call them in a loop, for the entries whose         *)
(* event_cycle has come.  Cycle numbers are abstracted: what waits for one *)
(* may be due at any step.                                                 *)
(***************************************************************************)
EXTENDS Integers, FiniteSets, Sequences, SequencesExt

CONSTANTS Reg, NoReg,           \* architectural registers; 0 in the code
          Addr, NoAddr,         \* virtual addresses of memory operands; 0
          LineOf,               \* the cache line of an address
          Kind,                 \* the instructions a trace may hold
          ROB_SIZE, LQ_SIZE, SQ_SIZE,
          MaxInstr              \* bound: instructions the trace holds

Source == 1 .. 4                \* NUM_INSTR_SOURCES
Destination == 1 .. 2           \* MAX_INSTR_DESTINATIONS

(* What the trace says of an instruction. *)
Instruction == [source_registers : [Source -> Reg \cup {NoReg}],
                destination_registers : SUBSET Reg,
                source_memory : [Source -> Addr \cup {NoAddr}],
                destination_memory : [Destination -> Addr \cup {NoAddr}]]

ASSUME CoreAssumption ==
    /\ NoReg \notin Reg /\ NoAddr \notin Addr
    /\ IsFiniteSet(Reg) /\ IsFiniteSet(Addr)
    /\ DOMAIN LineOf = Addr
    /\ Kind \subseteq Instruction
    /\ {ROB_SIZE, LQ_SIZE, SQ_SIZE} \subseteq Nat \ {0}
    /\ MaxInstr \in Nat

VARIABLES
    rob,            \* ROB.entry
    next,           \* instr_unique_id of the next instruction to dispatch
    retired,        \* num_retired
    rte0, rte1,     \* RTE0 and RTE1 from head to tail
    lq,             \* LQ.entry
    lq_occupancy,
    rtl0,           \* RTL0 from head to tail
    sq,             \* SQ.entry
    sq_tail, sq_occupancy,
    sta,            \* STA from head to tail
    rts0,           \* RTS0 from head to tail
    inflight,       \* inflight_reg_executions and inflight_mem_executions
    last_store,     \* ghost: the last store to each address in trace order
    memory,         \* ghost: the last store to each address the L1D was given
    failed          \* the assertions that have failed

robVars == <<rob, next, retired>>
loadVars == <<lq, lq_occupancy, rtl0>>
storeVars == <<sq, sq_tail, sq_occupancy, sta, rts0>>
readyVars == <<rte0, rte1>>
vars == <<robVars, loadVars, storeVars, readyVars, inflight, last_store,
          memory, failed>>

RobIndex == 0 .. ROB_SIZE - 1
LqIndex == 0 .. LQ_SIZE - 1
SqIndex == 0 .. SQ_SIZE - 1
None == -1                      \* UINT32_MAX in lq_index and sq_index

(* ROB.head, ROB.tail and ROB.occupancy *)
head == retired % ROB_SIZE
tail == next % ROB_SIZE
occupancy == next - retired

NoInstruction == [source_registers |-> [j \in Source |-> NoReg],
                  destination_registers |-> {},
                  source_memory |-> [j \in Source |-> NoAddr],
                  destination_memory |-> [j \in Destination |-> NoAddr]]

(* An ROB entry as the front end hands it over.  A set of <<i, j>> stands  *)
(* for registers_instrs_depend_on_me and registers_index_depend_on_me:     *)
(* source j of entry i waits for this one.  lq_index[j] # None is          *)
(* source_added[j].  `expects` and `value` are ghosts: the store whose     *)
(* data each load must get and the one it got.                             *)
Entry(id, k) ==
    [instr_id |-> id, instr |-> k, scheduled |-> "NO", executed |-> "NO",
     reg_ready |-> FALSE, num_reg_dependent |-> 0, registers_depend_on_me |-> {},
     memory_instrs_depend_on_me |-> {},
     num_mem_ops |-> Cardinality({j \in Source : k.source_memory[j] # NoAddr})
        + Cardinality({j \in Destination : k.destination_memory[j] # NoAddr}),
     lq_index |-> [j \in Source |-> None],
     sq_index |-> [j \in Destination |-> None],
     expects |-> [j \in Source |-> IF k.source_memory[j] = NoAddr THEN None
                                   ELSE last_store[k.source_memory[j]]],
     value |-> [j \in Source |-> None]]

FreeEntry == Entry(None, NoInstruction)
FreeLoad == [instr_id |-> None, address |-> NoAddr, rob_index |-> 0,
             data_index |-> 1, producer_id |-> None, fetched |-> "NO"]
FreeStore == [instr_id |-> None, address |-> NoAddr, rob_index |-> 0, fetched |-> "NO"]

Init ==
    /\ rob = [i \in RobIndex |-> FreeEntry]
    /\ next = 0 /\ retired = 0
    /\ rte0 = <<>> /\ rte1 = <<>>
    /\ lq = [l \in LqIndex |-> FreeLoad] /\ lq_occupancy = 0 /\ rtl0 = <<>>
    /\ sq = [s \in SqIndex |-> FreeStore] /\ sq_tail = 0 /\ sq_occupancy = 0
    /\ sta = <<>> /\ rts0 = <<>>
    /\ inflight = [reg |-> 0, mem |-> 0]
    /\ last_store = [a \in Addr |-> None] /\ memory = [a \in Addr |-> None]
    /\ failed = {}

Used(i) == rob[i].instr_id # None
is_memory(e) == \/ \E j \in Source : e.instr.source_memory[j] # NoAddr
                \/ \E j \in Destination : e.instr.destination_memory[j] # NoAddr
Writes(e, a) == \E j \in Destination : e.instr.destination_memory[j] = a

(* The entries before i in the ring, and the one of a set nearest to it. *)
Age(i) == (i - head) % ROB_SIZE
Before(i) == {p \in RobIndex : Age(p) < Age(i)}
Nearest(S) == CHOOSE p \in S : \A o \in S : Age(o) <= Age(p)

-----------------------------------------------------------------------------
(* Dispatch and register dependences *)

(* add_to_rob, for an instruction that leaves the decode buffer.  The      *)
(* stores of the trace enter STA in the same order.                        *)
add_to_rob(k) ==
    /\ next < MaxInstr
    /\ occupancy < ROB_SIZE
    /\ rob' = [rob EXCEPT ![tail] = Entry(next, k)]
    /\ sta' = sta \o [n \in 1 .. Cardinality({j \in Destination :
                                    k.destination_memory[j] # NoAddr}) |-> next]
    /\ last_store' = [a \in Addr |-> IF \E j \in Destination : k.destination_memory[j] = a
                                     THEN next ELSE last_store[a]]
    /\ next' = next + 1
    /\ failed' = failed \cup (IF Used(tail) THEN {"add_to_rob"} ELSE {})
    /\ UNCHANGED <<retired, readyVars, loadVars, sq, sq_tail, sq_occupancy, rts0,
                   inflight, memory>>

MutDependencyOldest(i) ==
    LET Producers(j) == {p \in Before(i) :
            /\ rob[p].executed # "COMPLETED"
            /\ rob[i].instr.source_registers[j] \in rob[p].instr.destination_registers}
    IN  [j \in {j \in Source : Producers(j) # {}} |->
            CHOOSE p \in Producers(j) : \A o \in Producers(j) : Age(p) <= Age(o)]

(* reg_dependency: the entry each source register of i waits for, the      *)
(* nearest one before it that writes the register and is not COMPLETED.    *)
reg_dependency(i) ==
    LET Producers(j) == {p \in Before(i) :
            /\ rob[p].executed # "COMPLETED"
            /\ rob[i].instr.source_registers[j] \in rob[p].instr.destination_registers}
    IN  [j \in {j \in Source : Producers(j) # {}} |-> Nearest(Producers(j))]

PushReady(queue, i) == IF Len(queue) = ROB_SIZE THEN queue ELSE Append(queue, i)
RingFull(queue) == IF Len(queue) = ROB_SIZE THEN {"ready queue full"} ELSE {}

(* schedule_instruction goes from the head to the end of the array: its    *)
(* limit, ROB.next_fetch[1], is never written and stays 0.  It stops at    *)
(* the first entry that cannot be scheduled yet.                           *)
do_scheduling(i) ==
    LET producer == reg_dependency(i)
        ready == DOMAIN producer = {}
        Scheduled(e) == [e EXCEPT !.reg_ready = ready,
                                  !.num_reg_dependent = Cardinality(DOMAIN producer),
                                  !.scheduled = IF is_memory(e) THEN "INFLIGHT"
                                                ELSE "COMPLETED"]
    IN  /\ Used(i) /\ rob[i].scheduled = "NO" /\ i >= head
        /\ \A p \in Before(i) : rob[p].scheduled # "NO"
        /\ rob' = [p \in RobIndex |->
                     IF p = i THEN Scheduled(rob[i])
                     ELSE [rob[p] EXCEPT !.registers_depend_on_me =
                             @ \cup {<<i, j>> : j \in {k \in DOMAIN producer : producer[k] = p}}]]
        /\ IF ready /\ ~ is_memory(rob[i])
           THEN /\ rte1' = PushReady(rte1, i)
                /\ failed' = failed \cup RingFull(rte1)
           ELSE UNCHANGED <<rte1, failed>>
        /\ UNCHANGED <<next, retired, rte0, loadVars, storeVars, inflight, last_store, memory>>

(* execute_instruction: the head of a ready queue starts its execution *)
do_execution(i) ==
    /\ rob' = [rob EXCEPT ![i].executed = "INFLIGHT"]
    /\ inflight' = [inflight EXCEPT !.reg = @ + 1]
    /\ UNCHANGED <<next, retired, loadVars, storeVars, last_store, memory, failed>>

ExecuteRte0 ==
    /\ rte0 # <<>>
    /\ rte0' = Tail(rte0) /\ UNCHANGED rte1
    /\ do_execution(Head(rte0))

ExecuteRte1 ==
    /\ rte1 # <<>>
    /\ rte1' = Tail(rte1) /\ UNCHANGED rte0
    /\ do_execution(Head(rte1))

-----------------------------------------------------------------------------
(* The load and store queues: `c` is the core while one instruction's      *)
(* memory operands are added one after another.                            *)

Core == [rob |-> rob, lq |-> lq, lq_occupancy |-> lq_occupancy, rtl0 |-> rtl0,
         sq |-> sq, sq_tail |-> sq_tail, sq_occupancy |-> sq_occupancy,
         sta |-> sta, rts0 |-> rts0, mem |-> inflight.mem, failed |-> failed]

(* One load of entry e is done, with the data of `store`. *)
LoadDone(e, j, store) == [e EXCEPT !.num_mem_ops = @ - 1, !.value[j] = store]

MutNeverInflight(e) == 0

(* what inflight_mem_executions grows by when an operation of e is done *)
AllDone(e) == IF e.num_mem_ops = 0 THEN 1 ELSE 0
Below0(e) == IF e.num_mem_ops < 0 THEN {"num_mem_ops"} ELSE {}

MutMemDependencyAdded(i, a) ==
    LET producers == {p \in Before(i) : Writes(rob[p], a) /\ rob[p].scheduled = "COMPLETED"}
    IN  IF producers = {} THEN {} ELSE {Nearest(producers)}

(* the youngest older store to the address, whatever it has done so far *)
mem_RAW_dependency(i, a) ==
    LET producers == {p \in Before(i) : Writes(rob[p], a)}
    IN  IF producers = {} THEN {} ELSE {Nearest(producers)}

(* add_load_queue: a load whose store has its data already is done at      *)
(* once, one whose store has not waits for it, any other may go to the L1D *)
add_load_queue(c, i, j) ==
    LET e == c.rob[i]
        a == e.instr.source_memory[j]
        l == Min({k \in LqIndex : c.lq[k].address = NoAddr})
        producer == mem_RAW_dependency(i, a)
        id == IF producer = {} THEN None ELSE rob[CHOOSE p \in producer : TRUE].instr_id
        forwarded == \E s \in SqIndex : /\ c.sq[s].address = a
                                        /\ c.sq[s].instr_id = id /\ producer # {}
                                        /\ c.sq[s].fetched = "COMPLETED"
        added == [e EXCEPT !.lq_index[j] = l]
        done == LoadDone(added, j, id)
        waked == [p \in RobIndex |->
                    IF p \in producer
                    THEN [c.rob[p] EXCEPT !.memory_instrs_depend_on_me = @ \cup {i}]
                    ELSE c.rob[p]]
    IN  IF forwarded
        THEN [c EXCEPT !.rob = [waked EXCEPT ![i] = done],
                       !.mem = @ + AllDone(done),
                       !.failed = @ \cup Below0(done)]
        ELSE [c EXCEPT !.rob = [waked EXCEPT ![i] = added],
                       !.lq[l] = [instr_id |-> e.instr_id, address |-> a,
                                  rob_index |-> i, data_index |-> j,
                                  producer_id |-> id, fetched |-> "NO"],
                       !.lq_occupancy = @ + 1,
                       !.rtl0 = IF producer = {} THEN Append(@, l) ELSE @]

(* add_store_queue: the tail slot, and the head of STA is used up *)
add_store_queue(c, i, j) ==
    LET e == c.rob[i]
        s == c.sq_tail
    IN  [c EXCEPT !.rob[i].sq_index[j] = s,
                  !.sq[s] = [instr_id |-> e.instr_id,
                             address |-> e.instr.destination_memory[j],
                             rob_index |-> i, fetched |-> "NO"],
                  !.sq_tail = (@ + 1) % SQ_SIZE,
                  !.sq_occupancy = @ + 1,
                  !.sta = Tail(@),
                  !.rts0 = Append(@, s),
                  !.failed = @ \cup (IF c.sq[s].address # NoAddr THEN {"add_store_queue"} ELSE {})]

MayAddLoad(c, i, j) ==
    /\ c.rob[i].instr.source_memory[j] # NoAddr
    /\ c.rob[i].lq_index[j] = None
    /\ c.lq_occupancy < LQ_SIZE

MutStoreAnyOrder(c, i, j) ==
    /\ c.rob[i].instr.destination_memory[j] # NoAddr
    /\ c.rob[i].sq_index[j] = None
    /\ c.sq_occupancy < SQ_SIZE

(* stores enter the queue in the order of the trace *)
MayAddStore(c, i, j) ==
    /\ c.rob[i].instr.destination_memory[j] # NoAddr
    /\ c.rob[i].sq_index[j] = None
    /\ c.sq_occupancy < SQ_SIZE
    /\ c.sta # <<>> /\ Head(c.sta) = c.rob[i].instr_id

AddLoad(c, i, j) == IF MayAddLoad(c, i, j) THEN add_load_queue(c, i, j) ELSE c
AddStore(c, i, j) == IF MayAddStore(c, i, j) THEN add_store_queue(c, i, j) ELSE c

(* The operands that find room are added, the others stay for a later call. *)
check_and_add_lsq(c, i) ==
    LET loads == AddLoad(AddLoad(AddLoad(AddLoad(c, i, 1), i, 2), i, 3), i, 4)
    IN  AddStore(AddStore(loads, i, 1), i, 2)

AllAdded(e) ==
    /\ \A j \in Source : e.instr.source_memory[j] # NoAddr => e.lq_index[j] # None
    /\ \A j \in Destination : e.instr.destination_memory[j] # NoAddr => e.sq_index[j] # None

MayAdd(i) ==
    /\ Used(i) /\ is_memory(rob[i]) /\ rob[i].reg_ready /\ rob[i].scheduled = "INFLIGHT"
    /\ \/ \E j \in Source : MayAddLoad(Core, i, j)
       \/ \E j \in Destination : MayAddStore(Core, i, j)

(* schedule_memory_instruction tries the entries from the head on *)
do_memory_scheduling(i) ==
    LET c == check_and_add_lsq(Core, i)
        e == c.rob[i]
    IN  /\ MayAdd(i)
        /\ \A p \in Before(i) : ~ MayAdd(p)
        /\ rob' = IF ~ AllAdded(e) THEN c.rob
                  ELSE [c.rob EXCEPT ![i].scheduled = "COMPLETED",
                                     ![i].executed = IF @ = "NO" THEN "INFLIGHT" ELSE @]
        /\ lq' = c.lq /\ lq_occupancy' = c.lq_occupancy /\ rtl0' = c.rtl0
        /\ sq' = c.sq /\ sq_tail' = c.sq_tail /\ sq_occupancy' = c.sq_occupancy
        /\ sta' = c.sta /\ rts0' = c.rts0
        /\ inflight' = [inflight EXCEPT !.mem = c.mem]
        /\ failed' = c.failed
        /\ UNCHANGED <<next, retired, readyVars, last_store, memory>>

-----------------------------------------------------------------------------
(* Execution of memory operations *)

MutWaitingAny(p, a) ==
    {w \in rob[p].memory_instrs_depend_on_me \X Source : rob[w[1]].lq_index[w[2]] # None}

(* The loads that wait for address a of store entry p: every added operand *)
(* with this address of an instruction that depends on the store.          *)
Waiting(p, a) ==
    {w \in rob[p].memory_instrs_depend_on_me \X Source :
        rob[w[1]].instr.source_memory[w[2]] = a /\ rob[w[1]].lq_index[w[2]] # None}

(* release_load_queue, for the slots of a set *)
release_load_queue(slots) ==
    /\ lq' = [l \in LqIndex |-> IF l \in slots THEN FreeLoad ELSE lq[l]]
    /\ lq_occupancy' = lq_occupancy - Cardinality(slots)

(* The loads of `slots` that belong to instruction i are done, each with   *)
(* its data.                                                               *)
LoadsDone(e, i, slots, data) ==
    LET mine == {l \in slots : lq[l].rob_index = i}
        source == [l \in mine |-> lq[l].data_index]
    IN  [e EXCEPT !.num_mem_ops = @ - Cardinality(mine),
                  !.value = [j \in Source |-> IF \E l \in mine : source[l] = j
                                              THEN data[CHOOSE l \in mine : source[l] = j]
                                              ELSE @[j]]]

(* execute_store, the head of RTS0: the data is there, and the loads that  *)
(* wait for it are done.  Each must still name this store as its producer. *)
execute_store ==
    LET s == Head(rts0)
        i == sq[s].rob_index
        id == sq[s].instr_id
        waiting == {rob[w[1]].lq_index[w[2]] : w \in Waiting(i, sq[s].address)}
        mine == {l \in waiting : lq[l].producer_id = id}
        Done(p) == LoadsDone(IF p = i THEN [rob[i] EXCEPT !.num_mem_ops = @ - 1] ELSE rob[p],
                             p, mine, [l \in mine |-> id])
        changed == {i} \cup {lq[l].rob_index : l \in mine}
    IN  /\ rts0 # <<>>
        /\ rts0' = Tail(rts0)
        /\ sq' = [sq EXCEPT ![s].fetched = "COMPLETED"]
        /\ rob' = [p \in RobIndex |-> Done(p)]
        /\ release_load_queue(mine)
        /\ inflight' = [inflight EXCEPT !.mem = @ +
                          Cardinality({p \in changed : Done(p).num_mem_ops = 0})]
        /\ failed' = failed \cup (UNION {Below0(Done(p)) : p \in changed})
                       \cup (IF mine = waiting THEN {} ELSE {"producer_id"})
        /\ UNCHANGED <<next, retired, readyVars, rtl0, sq_tail, sq_occupancy, sta,
                       last_store, memory>>

(* execute_load, the head of RTL0: the L1D takes the load.  While its read *)
(* queue is full the load stays where it is.                               *)
execute_load ==
    /\ rtl0 # <<>>
    /\ rtl0' = Tail(rtl0)
    /\ lq' = [lq EXCEPT ![Head(rtl0)].fetched = "INFLIGHT"]
    /\ UNCHANGED <<robVars, lq_occupancy, storeVars, readyVars, inflight, last_store,
                   memory, failed>>

InFlight == {l \in LqIndex : lq[l].fetched = "INFLIGHT"}

(* complete_data_fetch and handle_merged_load: the L1D answers one load,   *)
(* or a store, and the loads of the line that were merged with it.         *)
complete_data_fetch(slots) ==
    LET Done(p) == LoadsDone(rob[p], p, slots, [l \in slots |-> memory[lq[l].address]])
        changed == {lq[l].rob_index : l \in slots}
    IN  /\ slots # {} /\ slots \subseteq InFlight
        /\ Cardinality({LineOf[lq[l].address] : l \in slots}) = 1
        /\ rob' = [p \in RobIndex |-> Done(p)]
        /\ release_load_queue(slots)
        /\ inflight' = [inflight EXCEPT !.mem = @ +
                          Cardinality({p \in changed : Done(p).num_mem_ops = 0})]
        /\ failed' = failed \cup (UNION {Below0(Done(p)) : p \in changed})
                       \cup (IF \A l \in slots : rob[lq[l].rob_index].instr_id = lq[l].instr_id
                             THEN {} ELSE {"check_rob"})
        /\ UNCHANGED <<next, retired, readyVars, rtl0, storeVars, last_store, memory>>

-----------------------------------------------------------------------------
(* Completion and retirement *)

MutReleaseOnce(p, i) ==
    LET released == {j \in Source : <<i, j>> \in rob[p].registers_depend_on_me}
    IN  IF released = {} THEN {} ELSE {Min(released)}

(* reg_RAW_release: the sources of entry i that p's result makes ready *)
ReleasedBy(p, i) == {j \in Source : <<i, j>> \in rob[p].registers_depend_on_me}

Ascending(S) == CHOOSE f \in [1 .. Cardinality(S) -> S] :
                   \A m, n \in DOMAIN f : m < n => f[m] < f[n]

(* complete_execution, which update_rob calls while anything executes: an  *)
(* instruction that has no operation left is COMPLETED, and the ones that  *)
(* wait for nothing else become ready, the lowest index first.             *)
complete_execution(p) ==
    LET e == rob[p]
        unit == IF is_memory(e) THEN "mem" ELSE "reg"
        Released(i) == [rob[i] EXCEPT !.num_reg_dependent = @ - Cardinality(ReleasedBy(p, i))]
        waked == {i \in RobIndex : ReleasedBy(p, i) # {} /\ Released(i).num_reg_dependent = 0}
        ready == Ascending({i \in waked : ~ is_memory(rob[i])})
        Ready(i) == [Released(i) EXCEPT !.reg_ready = TRUE,
                                        !.scheduled = IF is_memory(rob[i]) THEN "INFLIGHT"
                                                      ELSE "COMPLETED"]
    IN  /\ inflight.reg > 0 \/ inflight.mem > 0
        /\ Used(p) /\ e.executed = "INFLIGHT"
        /\ is_memory(e) => e.num_mem_ops = 0
        /\ rob' = [i \in RobIndex |-> IF i = p THEN [e EXCEPT !.executed = "COMPLETED"]
                                      ELSE IF i \in waked THEN Ready(i) ELSE Released(i)]
        /\ inflight' = [inflight EXCEPT ![unit] = @ - 1]
        /\ rte0' = rte0 \o ready
        /\ failed' = failed \cup (IF Len(rte0) + Len(ready) > ROB_SIZE
                                  THEN {"ready queue full"} ELSE {})
        /\ UNCHANGED <<next, retired, rte1, loadVars, storeVars, last_store, memory>>

(* retire_rob: the head leaves, and its stores go to the L1D's write queue *)
(* when that has room for all of them.                                     *)
retire_rob ==
    /\ Used(head) /\ rob[head].executed = "COMPLETED"
    /\ LET e == rob[head]
           slots == {e.sq_index[j] : j \in Destination} \ {None}
           stored == {sq[s].address : s \in slots}
       IN  /\ memory' = [a \in Addr |-> IF a \in stored THEN e.instr_id ELSE memory[a]]
           /\ sq' = [s \in SqIndex |-> IF s \in slots THEN FreeStore ELSE sq[s]]
           /\ sq_occupancy' = sq_occupancy - Cardinality(slots)
    /\ rob' = [rob EXCEPT ![head] = FreeEntry]
    /\ retired' = retired + 1
    /\ UNCHANGED <<next, readyVars, loadVars, sq_tail, sta, rts0, inflight, last_store, failed>>

(* Only the bound on the trace may leave the core with nothing to do. *)
TraceEnds == retired = MaxInstr /\ UNCHANGED vars

(* What the core does with the instructions it has. *)
Work ==
    \/ \E i \in RobIndex : do_scheduling(i) \/ do_memory_scheduling(i) \/ complete_execution(i)
    \/ ExecuteRte0 \/ ExecuteRte1
    \/ execute_store \/ execute_load
    \/ \E slots \in SUBSET LqIndex : complete_data_fetch(slots)
    \/ retire_rob

Next ==
    \/ \E k \in Kind : add_to_rob(k)
    \/ Work
    \/ TraceEnds

Spec == Init /\ [][Next]_vars

(* Every stage runs in every cycle, what waits for a cycle number comes to *)
(* it, and the L1D answers what it took: some work that can be done is     *)
(* done.  No step of Work can be repeated for ever, so this is as much as  *)
(* fairness of each.                                                       *)
Fairness == WF_vars(Work)

FairSpec == Spec /\ Fairness

-----------------------------------------------------------------------------
(* Properties *)

(* None of the assertions on the back end's path fails: a free tail slot   *)
(* in add_to_rob and add_store_queue, room in the ready queues, no         *)
(* negative num_mem_ops, the ROB entry an answer of the L1D names          *)
(* (check_rob), the producer of a load that a store completes.             *)
NoAssertionFails == failed = {}

(* The operations of entry i that are not done. *)
LoadOutstanding(i, j) ==
    /\ rob[i].instr.source_memory[j] # NoAddr
    /\ LET l == rob[i].lq_index[j]
       IN  l # None => lq[l].instr_id = rob[i].instr_id /\ lq[l].data_index = j

StoreOutstanding(i, j) ==
    /\ rob[i].instr.destination_memory[j] # NoAddr
    /\ rob[i].sq_index[j] # None => sq[rob[i].sq_index[j]].fetched = "NO"

(* A load gets the data of the last store before it in the trace to its    *)
(* address, whether the store queue forwards it at once, the store wakes   *)
(* it, or the L1D answers, alone or merged with other loads: execution out *)
(* of order is not visible in what loads read.                             *)
LoadsSequential ==
    \A i \in RobIndex : \A j \in Source :
        (rob[i].instr.source_memory[j] # NoAddr /\ ~ LoadOutstanding(i, j))
            => rob[i].value[j] = rob[i].expects[j]

(* Nothing starts before the registers it reads are written: when an       *)
(* instruction executes, or has a slot in a queue, the nearest instruction *)
(* before it that writes one of its source registers is COMPLETED.         *)
Started(e) == \/ e.executed # "NO"
              \/ \E j \in Source : e.lq_index[j] # None
              \/ \E j \in Destination : e.sq_index[j] # None

RegistersReady ==
    \A i \in {k \in RobIndex : Started(rob[k])} : \A j \in Source :
        LET writers == {p \in Before(i) :
                          rob[i].instr.source_registers[j] \in rob[p].instr.destination_registers}
        IN  writers # {} => rob[Nearest(writers)].executed = "COMPLETED"

(* The counters are what they count: the operations an instruction waits   *)
(* for, the instructions that execute (update_rob completes nothing when   *)
(* it finds both inflight counters at 0), the slots in use.                *)
CountersExact ==
    /\ \A i \in RobIndex :
          rob[i].num_mem_ops =
              Cardinality({j \in Source : LoadOutstanding(i, j)})
              + Cardinality({j \in Destination : StoreOutstanding(i, j)})
    /\ inflight.reg = Cardinality({i \in RobIndex : ~ is_memory(rob[i])
                                                    /\ rob[i].executed = "INFLIGHT"})
    /\ inflight.mem = Cardinality({i \in RobIndex : is_memory(rob[i]) /\ rob[i].num_mem_ops = 0
                                                    /\ rob[i].executed = "INFLIGHT"})
    /\ lq_occupancy = Cardinality({l \in LqIndex : lq[l].address # NoAddr})
    /\ sq_occupancy = Cardinality({s \in SqIndex : sq[s].address # NoAddr})

(* Whoever waits has someone to wake it: each dependence an instruction    *)
(* counts is in the list of an entry before it that has not completed, and *)
(* a load that waits for a producer is in the list of that very            *)
(* instruction, whose store to the address has not executed.               *)
WaitersHaveWakers ==
    /\ \A i \in RobIndex :
          rob[i].num_reg_dependent =
              Cardinality({d \in RobIndex \X Source :
                  /\ d[1] \in Before(i) /\ Used(d[1]) /\ rob[d[1]].executed # "COMPLETED"
                  /\ <<i, d[2]>> \in rob[d[1]].registers_depend_on_me})
    /\ \A l \in LqIndex : lq[l].producer_id # None =>
          \E p \in Before(lq[l].rob_index) :
              /\ rob[p].instr_id = lq[l].producer_id
              /\ lq[l].rob_index \in rob[p].memory_instrs_depend_on_me
              /\ \E j \in Destination : /\ StoreOutstanding(p, j)
                                        /\ rob[p].instr.destination_memory[j] = lq[l].address

(* print_deadlock in main.cc is never called: while instructions are in    *)
(* the ROB there is work that can be done on one of them.                  *)
NeverStuck == occupancy > 0 => ENABLED Work

(* What is in the ROB retires, whether or not the front end sends more.    *)
RobDrains == occupancy > 0 ~> occupancy = 0

=============================================================================
