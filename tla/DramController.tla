--------------------------- MODULE DramController ---------------------------
(***************************************************************************)
(* One channel of the memory controller (src/dram_controller.cc): a read   *)
(* and a write queue with holes, the banks, the read/write mode, the DDRP  *)
(* buffer, and the last-level cache (LLC) as the controller sees it.  The  *)
(* LLC owes its own waiters an answer for every miss it sends, the core's  *)
(* off-chip predictor (DDRP) sends reads nobody waits for, and the LLC's   *)
(* victims come as writebacks.                                             *)
(*                                                                         *)
(* Cycle counts are abstracted: whatever waits for a cycle number may be   *)
(* due or not in a call of operate, and any waiting request may be the     *)
(* oldest.  Lines of memory are the elements of Addr.                      *)
(***************************************************************************)
EXTENDS Integers, FiniteSets, Sequences, SequencesExt

CONSTANTS Addr,                 \* line addresses
          NoAddr,               \* the address field of an empty slot (0)
          Bank, Row, NoRow,     \* NoRow: no row is open (UINT32_MAX)
          BankOf, RowOf,        \* dram_get_bank, dram_get_row
          DRAM_RQ_SIZE, DRAM_WQ_SIZE,
          DRAM_WRITE_HIGH_WM, DRAM_WRITE_LOW_WM,
          enable_ddrp,          \* knob: the predictor sends requests
          enable_ddrp_buffer,   \* knob: their data is buffered
          BufferSet, BufferSetOf, ddrp_buffer_assoc

ASSUME DramAssumption ==
    /\ NoAddr \notin Addr /\ NoRow \notin Row
    /\ IsFiniteSet(Bank)
    /\ BankOf \in [Addr -> Bank] /\ RowOf \in [Addr -> Row]
    /\ DRAM_RQ_SIZE \in Nat \ {0} /\ DRAM_WQ_SIZE \in Nat \ {0}
    /\ DRAM_WRITE_HIGH_WM \in Nat /\ DRAM_WRITE_LOW_WM \in Nat
    /\ enable_ddrp \in BOOLEAN /\ enable_ddrp_buffer \in BOOLEAN
    /\ BufferSetOf \in [Addr -> BufferSet] /\ ddrp_buffer_assoc \in Nat \ {0}

Queue == {"RQ", "WQ"}

(* The slots of the two queues, numbered in one row: reads first. *)
Slots(q) == IF q = "RQ" THEN 1 .. DRAM_RQ_SIZE
            ELSE DRAM_RQ_SIZE + 1 .. DRAM_RQ_SIZE + DRAM_WQ_SIZE
Slot == 1 .. DRAM_RQ_SIZE + DRAM_WQ_SIZE
QueueOf(i) == IF i <= DRAM_RQ_SIZE THEN "RQ" ELSE "WQ"
Size(q) == IF q = "RQ" THEN DRAM_RQ_SIZE ELSE DRAM_WQ_SIZE

VARIABLES
    entry,      \* RQ.entry and WQ.entry
    occupancy,  \* RQ.occupancy and WQ.occupancy
    bank,       \* bank_request
    scheduled,  \* scheduled_reads ("RQ") and scheduled_writes ("WQ")
    write_mode,
    ddrp_buffer,
    warm,       \* all_warmup_complete has reached NUM_CPUS
    mshr,       \* the LLC's MSHR: what is outstanding for each line
    wb,         \* ghost: writebacks accepted and not yet at their bank
    failed      \* the assertions that have failed

vars == <<entry, occupancy, bank, scheduled, write_mode,
          ddrp_buffer, warm, mshr, wb, failed>>

NoRequest == [address |-> NoAddr, fill |-> "LLC", scheduled |-> FALSE]
IdleBank(row) == [working |-> FALSE, open_row |-> row, request_index |-> 0, use |-> "none"]

(* What operate hands from one of its stages to the next. *)
Controller == [entry |-> entry, bank |-> bank, scheduled |-> scheduled,
               write_mode |-> write_mode]

Init ==
    /\ entry = [i \in Slot |-> NoRequest]
    /\ occupancy = [q \in Queue |-> 0]
    /\ bank = [b \in Bank |-> IdleBank(NoRow)]
    /\ scheduled = [q \in Queue |-> 0]
    /\ write_mode = FALSE
    /\ ddrp_buffer = [s \in BufferSet |-> <<>>]
    /\ warm = FALSE
    /\ mshr = [a \in Addr |-> "FREE"]
    /\ wb = {}
    /\ failed = {}

-----------------------------------------------------------------------------
(* Requests *)

check_dram_queue(q, a) == {i \in Slots(q) : entry[i].address = a}
Full(q) == occupancy[q] = Size(q)

(* The first slot of the queue whose address is 0 takes the request; when  *)
(* there is none the request vanishes and the caller is not told.          *)
Insert(q, a, fill) ==
    LET free == check_dram_queue(q, NoAddr)
    IN  IF free = {} THEN UNCHANGED <<entry, occupancy>>
        ELSE /\ entry' = [entry EXCEPT ![Min(free)] =
                             [address |-> a, fill |-> fill, scheduled |-> FALSE]]
             /\ occupancy' = [occupancy EXCEPT ![q] = @ + 1]

(* CACHE::return_data at the LLC: the miss must still be in its MSHR. *)
return_data(m, a) == IF m[a] = "FREE" THEN m ELSE [m EXCEPT ![a] = "COMPLETED"]
LostReturn(m, a) == IF m[a] = "FREE" THEN {"return_data"} ELSE {}

lookup_ddrp_buffer(a) ==
    enable_ddrp_buffer /\ a \in ToSet(ddrp_buffer[BufferSetOf[a]])

MutInsertOneTooMany(buf, a) ==
    LET s == BufferSetOf[a]
        rest == IF Len(buf[s]) > ddrp_buffer_assoc THEN Tail(buf[s]) ELSE buf[s]
    IN  [buf EXCEPT ![s] = Append(rest, a)]

(* A deque per set, the least recently inserted line in front. *)
insert_ddrp_buffer(buf, a) ==
    LET s == BufferSetOf[a]
        rest == IF a \in ToSet(buf[s])
                THEN RemoveAt(buf[s], CHOOSE k \in DOMAIN buf[s] : buf[s][k] = a)
                ELSE IF Len(buf[s]) >= ddrp_buffer_assoc THEN Tail(buf[s])
                ELSE buf[s]
    IN  [buf EXCEPT ![s] = Append(rest, a)]

MutMergeKeepsFillLevel(m, a) ==
    IF ~ warm \/ check_dram_queue("WQ", a) # {} \/ lookup_ddrp_buffer(a)
    THEN /\ mshr' = return_data(m, a)
         /\ UNCHANGED <<entry, occupancy, failed>>
    ELSE /\ mshr' = m
         /\ IF check_dram_queue("RQ", a) = {} THEN Insert("RQ", a, "LLC")
            ELSE UNCHANGED <<entry, occupancy>>
         /\ UNCHANGED failed

(* add_rq on the LLC's side of the call: `m` is the LLC's MSHR with the    *)
(* miss already in it.  A dummy answer before the warmup, the data of a    *)
(* waiting writeback or of the DDRP buffer at once, or a slot in the read  *)
(* queue; the slot of a DDRP request for the line is taken over.           *)
add_rq_miss(m, a) ==
    LET same == check_dram_queue("RQ", a)
        Answer == /\ mshr' = return_data(m, a)
                  /\ failed' = failed \cup LostReturn(m, a)
                  /\ UNCHANGED <<entry, occupancy>>
    IN  IF ~ warm \/ check_dram_queue("WQ", a) # {} \/ lookup_ddrp_buffer(a)
        THEN Answer
        ELSE IF same = {}
        THEN Insert("RQ", a, "LLC") /\ mshr' = m /\ UNCHANGED failed
        ELSE LET i == Min(same)
             IN  /\ failed' = failed
                       \cup (IF enable_ddrp THEN {} ELSE {"merge without DDRP"})
                       \cup (IF entry[i].fill = "LLC" THEN {"two LLC misses"} ELSE {})
                 /\ entry' = [entry EXCEPT ![i].fill = "LLC"]
                 /\ mshr' = m
                 /\ UNCHANGED occupancy

MutDdrpNoBufferLookup(a) ==
    IF check_dram_queue("WQ", a) # {} \/ check_dram_queue("RQ", a) # {}
    THEN UNCHANGED <<entry, occupancy>>
    ELSE Insert("RQ", a, "DDRP")

MutDdrpNoForward(a) ==
    IF lookup_ddrp_buffer(a) \/ check_dram_queue("RQ", a) # {}
    THEN UNCHANGED <<entry, occupancy>>
    ELSE Insert("RQ", a, "DDRP")

(* add_rq for a DDRP request: nobody waits, so wherever the line is already *)
(* at hand or on its way there is nothing to do.                            *)
add_rq_ddrp(a) ==
    IF \/ check_dram_queue("WQ", a) # {}
       \/ lookup_ddrp_buffer(a)
       \/ check_dram_queue("RQ", a) # {}
    THEN UNCHANGED <<entry, occupancy>>
    ELSE Insert("RQ", a, "DDRP")

add_wq(a) ==
    IF ~ warm \/ check_dram_queue("WQ", a) # {}
    THEN UNCHANGED <<entry, occupancy>>
    ELSE Insert("WQ", a, "LLC")

(* handle_read and handle_prefetch of the LLC: a miss with no MSHR entry   *)
(* waits for room in the read queue, then takes both.                      *)
LlcMiss(a) ==
    /\ mshr[a] = "FREE"
    /\ ~ Full("RQ")
    /\ add_rq_miss([mshr EXCEPT ![a] = "INFLIGHT"], a)
    /\ UNCHANGED <<bank, scheduled, write_mode, ddrp_buffer, warm, wb>>

(* handle_fill of the LLC frees the entry of a line that has come. *)
LlcFill(a) ==
    /\ mshr[a] = "COMPLETED"
    /\ mshr' = [mshr EXCEPT ![a] = "FREE"]
    /\ UNCHANGED <<entry, occupancy, bank, scheduled, write_mode, ddrp_buffer,
                   warm, wb, failed>>

MutWritebackUnchecked(a) ==
    /\ add_wq(a)
    /\ wb' = IF warm THEN wb \cup {a} ELSE wb
    /\ UNCHANGED <<bank, scheduled, write_mode, ddrp_buffer, warm, mshr, failed>>

(* handle_fill and handle_writeback of the LLC evict a dirty line only if  *)
(* the write queue has room.                                               *)
LlcWriteback(a) ==
    /\ ~ Full("WQ")
    /\ add_wq(a)
    /\ wb' = IF warm THEN wb \cup {a} ELSE wb
    /\ UNCHANGED <<bank, scheduled, write_mode, ddrp_buffer, warm, mshr, failed>>

(* CACHE::issue_ddrp_request, at any time and for any line. *)
DdrpRequest(a) ==
    /\ enable_ddrp
    /\ ~ Full("RQ")
    /\ add_rq_ddrp(a)
    /\ UNCHANGED <<bank, scheduled, write_mode, ddrp_buffer, warm, mshr, wb, failed>>

-----------------------------------------------------------------------------
(* operate: switch the mode, schedule one request, process one request *)

ScheduledSlots(d, q) == {i \in Slots(q) : d.entry[i].scheduled}
BankAt(d, i) == BankOf[d.entry[i].address]

MutResetLeavesBank(d, q, keep) ==
    LET hit == {BankAt(d, i) : i \in ScheduledSlots(d, q)}
    IN  [d EXCEPT
           !.entry = [i \in Slot |-> IF QueueOf(i) = q
                                      THEN [d.entry[i] EXCEPT !.scheduled = FALSE]
                                      ELSE d.entry[i]],
           !.scheduled = [u \in Queue |->
                d.scheduled[u] - Cardinality({b \in hit : d.bank[b].use = u})]]

MutResetLeavesCounter(d, q, keep) ==
    LET hit == {BankAt(d, i) : i \in ScheduledSlots(d, q)}
    IN  [d EXCEPT
           !.entry = [i \in Slot |-> IF QueueOf(i) = q
                                      THEN [d.entry[i] EXCEPT !.scheduled = FALSE]
                                      ELSE d.entry[i]],
           !.bank = [b \in Bank |-> IF b \in hit THEN IdleBank(NoRow) ELSE d.bank[b]]]

(* Takes every scheduled request of queue q off its bank again.  A bank    *)
(* whose row is already open, or as good as, keeps it (the banks in keep). *)
reset_remain_requests(d, q, keep) ==
    LET hit == {BankAt(d, i) : i \in ScheduledSlots(d, q)}
    IN  [d EXCEPT
           !.entry = [i \in Slot |-> IF QueueOf(i) = q
                                      THEN [d.entry[i] EXCEPT !.scheduled = FALSE]
                                      ELSE d.entry[i]],
           !.bank = [b \in Bank |->
                        IF b \in hit
                        THEN IdleBank(IF b \in keep THEN d.bank[b].open_row ELSE NoRow)
                        ELSE d.bank[b]],
           !.scheduled = [u \in Queue |->
                d.scheduled[u] - Cardinality({b \in hit : d.bank[b].use = u})]]

MutToWritesOnlyWhenFull(d) == ~ d.write_mode /\ occupancy["WQ"] >= DRAM_WRITE_HIGH_WM

ToWrites(d) ==
    /\ ~ d.write_mode
    /\ \/ occupancy["WQ"] >= DRAM_WRITE_HIGH_WM
       \/ occupancy["RQ"] = 0 /\ occupancy["WQ"] > 0

ToReads(d) ==
    /\ d.write_mode
    /\ \/ occupancy["WQ"] = 0
       \/ occupancy["RQ"] # 0 /\ occupancy["WQ"] < DRAM_WRITE_LOW_WM

MutSwitchNoReset(d, keep) ==
    IF ToWrites(d) THEN [d EXCEPT !.write_mode = TRUE]
    ELSE IF ToReads(d) THEN [reset_remain_requests(d, "WQ", keep) EXCEPT !.write_mode = FALSE]
    ELSE d

SwitchMode(d, keep) ==
    IF ToWrites(d) THEN [reset_remain_requests(d, "RQ", keep) EXCEPT !.write_mode = TRUE]
    ELSE IF ToReads(d) THEN [reset_remain_requests(d, "WQ", keep) EXCEPT !.write_mode = FALSE]
    ELSE d

(* The assertion at the end of reset_remain_requests. *)
LeftScheduled(d, d1) ==
    IF \/ ToWrites(d) /\ d1.scheduled["RQ"] # 0
       \/ ToReads(d) /\ d1.scheduled["WQ"] # 0
    THEN {"scheduled count"} ELSE {}

Active(d) == IF d.write_mode THEN "WQ" ELSE "RQ"

(* First ready, first come: requests for idle banks, those to an open row  *)
(* before the others.  Which is the oldest is left open.                   *)
Ready(d, q) ==
    LET idle == {i \in Slots(q) : /\ ~ d.entry[i].scheduled
                                  /\ d.entry[i].address # NoAddr
                                  /\ ~ d.bank[BankAt(d, i)].working}
        open == {i \in idle : d.bank[BankAt(d, i)].open_row = RowOf[d.entry[i].address]}
    IN  IF open # {} THEN open ELSE idle

ScheduleSlot(d, q, i) ==
    [d EXCEPT !.entry[i].scheduled = TRUE,
              !.bank[BankAt(d, i)] = [working |-> TRUE, request_index |-> i, use |-> q,
                                      open_row |-> RowOf[d.entry[i].address]],
              !.scheduled[q] = @ + 1]

(* The states schedule may leave; none is chosen while nothing is due. *)
schedule(d, q, due) ==
    IF due /\ Ready(d, q) # {} THEN {ScheduleSlot(d, q, i) : i \in Ready(d, q)} ELSE {d}

(* process: the request's bank and the data bus have waited long enough.   *)
(* A read goes to the LLC or, if only DDRP asked for it, to its buffer.    *)
process(d, q, i) ==
    LET e == d.entry[i]
        b == BankAt(d, i)
        forLlc == q = "RQ" /\ e.fill = "LLC"
    IN  /\ entry' = [d.entry EXCEPT ![i] = NoRequest]
        /\ bank' = [d.bank EXCEPT ![b] = IdleBank(@.open_row)]
        /\ scheduled' = [d.scheduled EXCEPT ![q] = @ - 1]
        /\ occupancy' = [occupancy EXCEPT ![q] = @ - 1]
        /\ mshr' = IF forLlc THEN return_data(mshr, e.address) ELSE mshr
        /\ ddrp_buffer' = IF q = "RQ" /\ e.fill = "DDRP" /\ enable_ddrp_buffer
                          THEN insert_ddrp_buffer(ddrp_buffer, e.address)
                          ELSE ddrp_buffer
        /\ wb' = IF q = "WQ" THEN wb \ {e.address} ELSE wb
        /\ failed' = failed \cup LeftScheduled(Controller, d)
                \cup (IF d.bank[b].request_index # i THEN {"request_index"} ELSE {})
                \cup (IF occupancy[q] = 0 THEN {"empty queue"} ELSE {})
                \cup (IF forLlc THEN LostReturn(mshr, e.address) ELSE {})

NoProcess(d) ==
    /\ entry' = d.entry /\ bank' = d.bank /\ scheduled' = d.scheduled
    /\ failed' = failed \cup LeftScheduled(Controller, d)
    /\ UNCHANGED <<occupancy, mshr, ddrp_buffer, wb>>

(* One call of operate; `sdue` and `pdue` say whether a request is due to  *)
(* be scheduled and to be processed.                                       *)
Operate(sdue, pdue) ==
    \E keep \in SUBSET {b \in Bank : bank[b].working} :
        LET d1 == SwitchMode(Controller, keep)
            q == Active(d1)
        IN  \E d2 \in schedule(d1, q, sdue) :
                /\ write_mode' = d2.write_mode
                /\ IF pdue /\ ScheduledSlots(d2, q) # {}
                   THEN \E i \in ScheduledSlots(d2, q) : process(d2, q, i)
                   ELSE NoProcess(d2)
                /\ UNCHANGED warm

WarmupComplete ==
    /\ ~ warm
    /\ warm' = TRUE
    /\ UNCHANGED <<entry, occupancy, bank, scheduled, write_mode, ddrp_buffer,
                   mshr, wb, failed>>

Next ==
    \/ \E a \in Addr : LlcMiss(a) \/ LlcFill(a) \/ LlcWriteback(a) \/ DdrpRequest(a)
    \/ \E sdue, pdue \in BOOLEAN : Operate(sdue, pdue)
    \/ WarmupComplete

Spec == Init /\ [][Next]_vars

(* operate runs every cycle; a request that waits for a cycle number is    *)
(* due from that cycle on, so scheduling and processing cannot be put off  *)
(* for ever.                                                               *)
FairSpec ==
    /\ Spec
    /\ WF_vars(\E pdue \in BOOLEAN : Operate(TRUE, pdue))
    /\ WF_vars(\E sdue \in BOOLEAN : Operate(sdue, TRUE))

-----------------------------------------------------------------------------
(* Properties *)

Request == [address : Addr \cup {NoAddr}, fill : {"LLC", "DDRP"}, scheduled : BOOLEAN]

Used(q) == {i \in Slots(q) : entry[i].address # NoAddr}
Lines(q) == {entry[i].address : i \in Used(q)}

(* The types of the state, and the associativity of the DDRP buffer. *)
TypeOK ==
    /\ entry \in [Slot -> Request]
    /\ occupancy \in [Queue -> Int]
    /\ bank \in [Bank -> [working : BOOLEAN, open_row : Row \cup {NoRow},
                          request_index : Slot \cup {0}, use : Queue \cup {"none"}]]
    /\ scheduled \in [Queue -> Int]
    /\ write_mode \in BOOLEAN /\ warm \in BOOLEAN
    /\ ddrp_buffer \in [BufferSet -> Seq(Addr)]
    /\ \A s \in BufferSet : Len(ddrp_buffer[s]) <= ddrp_buffer_assoc
    /\ mshr \in [Addr -> {"FREE", "INFLIGHT", "COMPLETED"}]
    /\ wb \subseteq Addr

(* None of the assertions of the controller, nor the one that an answer    *)
(* finds its miss in the LLC's MSHR (cache.cc:4361), ever fails.           *)
NoAssertionFails == failed = {}

(* Every working bank works for exactly one scheduled request, and every   *)
(* scheduled request is at its bank; only the queue of the present mode    *)
(* has requests at banks, however often a switch took them back.           *)
BanksMatchRequests ==
    /\ \A i \in Slot : entry[i].scheduled =>
            /\ entry[i].address # NoAddr
            /\ QueueOf(i) = Active(Controller)
            /\ LET b == bank[BankOf[entry[i].address]]
               IN  b.working /\ b.request_index = i /\ b.use = QueueOf(i)
    /\ \A b \in Bank :
            IF bank[b].working
            THEN LET r == bank[b].request_index
                 IN  r \in Slot /\ entry[r].scheduled /\ BankOf[entry[r].address] = b
            ELSE bank[b].use = "none"

(* The counters the mode switch and the flow control read are the numbers  *)
(* of banks at work and of slots in use.                                   *)
CountersExact ==
    \A q \in Queue : /\ scheduled[q] = Cardinality({b \in Bank : bank[b].use = q})
                     /\ occupancy[q] = Cardinality(Used(q))

(* An LLC miss is outstanding exactly while one slot of the read queue is  *)
(* going to answer it, also after it took over a DDRP request, and no line *)
(* has two slots in one queue.                                             *)
ReadsOwed ==
    /\ \A a \in Addr : mshr[a] = "INFLIGHT"
            <=> \E i \in Slots("RQ") : entry[i].address = a /\ entry[i].fill = "LLC"
    /\ \A q \in Queue : \A i, j \in Used(q) : entry[i].address = entry[j].address => i = j

(* No writeback the controller accepted after the warmup is dropped before *)
(* a bank has taken it.                                                    *)
WritebackKept == wb = Lines("WQ")

(* A line in the DDRP buffer is there once and is not being read again.    *)
BufferExclusive ==
    \A s \in BufferSet :
        /\ IsInjective(ddrp_buffer[s])
        /\ ToSet(ddrp_buffer[s]) \cap Lines("RQ") = {}

(* A read that arrives while a writeback of its line waits never enters    *)
(* the read queue: it is answered from the writeback or is not needed.     *)
ReadsSeeWrites ==
    [][\A a \in Addr : a \in Lines("WQ") /\ a \notin Lines("RQ") => a \notin Lines("RQ")']_vars

(* If at last no request enters the queues any more, both drain, the       *)
(* writes too although they stay below the high watermark, and no miss is  *)
(* left unanswered.                                                        *)
Drains ==
    <>[][\A i \in Slot : entry[i].address = NoAddr => entry'[i].address = NoAddr]_vars
    => <>[](Used("RQ") = {} /\ Used("WQ") = {} /\ \A a \in Addr : mshr[a] # "INFLIGHT")
=============================================================================
