------------------------------- MODULE L2Cache ------------------------------
(***************************************************************************)
(* The second-level cache: class CACHE of src/cache.cc with cache_type     *)
(* IS_L2C, one set of it.  Above it are the L1I, the L1D and the page      *)
(* table walker (PTW), of which the model keeps the lines their MSHRs wait *)
(* for; below it is the LLC.                                               *)
(*                                                                         *)
(* Each call the others make (add_rq, add_wq, add_pq, return_data) and     *)
(* each handler of operate() is an action.  An event_cycle may be due at   *)
(* any step, so the actions come in any order; what operate() does in one  *)
(* cycle is a run of them.  The data of a line is not modelled: the        *)
(* program keeps none.                                                     *)
(***************************************************************************)
EXTENDS Integers, FiniteSets, Sequences, SequencesExt

CONSTANTS Line,                 \* lines of code and data in this set
          PageTable,            \* lines of page tables in this set
          NoLine,
          Way,
          RQ_SIZE, WQ_SIZE, PQ_SIZE, MSHR_SIZE,
          L1I_MSHR_SIZE, L1D_MSHR_SIZE,
          LLC_RQ_SIZE

Client == {"L1I", "L1D", "PTW"}

(* FILL_L1, FILL_L2 and FILL_LLC: the level a packet's line goes up to. *)
FillLevel == {1, 2, 4}

Packet == [line : Line \cup PageTable,
           type : {"LOAD", "PREFETCH", "TRANSLATION"},
           fill_level : FillLevel,
           instruction : BOOLEAN, fill_l1i : BOOLEAN, fill_l1d : BOOLEAN,
           send_both_cache : BOOLEAN,
           returned : {"INFLIGHT", "COMPLETED"}]

Block == [line : Line \cup PageTable \cup {NoLine}, dirty : BOOLEAN]

(* The MSHRs of those above, the PTW's one included, fit in the RQ; the    *)
(* L2C's own fit in the LLC's RQ (inc/cache.h).                            *)
ASSUME L2CacheAssumption ==
    /\ Line \cap PageTable = {} /\ NoLine \notin Line \cup PageTable
    /\ IsFiniteSet(Line) /\ IsFiniteSet(PageTable)
    /\ {RQ_SIZE, WQ_SIZE, PQ_SIZE, MSHR_SIZE, L1I_MSHR_SIZE, L1D_MSHR_SIZE,
        LLC_RQ_SIZE} \subseteq Nat \ {0}
    /\ L1I_MSHR_SIZE + L1D_MSHR_SIZE + 1 <= RQ_SIZE
    /\ MSHR_SIZE <= LLC_RQ_SIZE

VARIABLES
    rq, wq, pq,     \* RQ, WQ and PQ from head to tail; WQ holds lines
    mshr,           \* the occupied entries of MSHR
    block,          \* the ways of the set
    waiting,        \* the lines each client's MSHR waits for
    l1d,            \* the lines the L1D holds
    below,          \* the lines the LLC has been asked for and owes
    llc_rq,         \* those of them still in the LLC's RQ
    modified,       \* ghost: lines handed over dirty and not yet to the LLC
    failed          \* the assertions that have failed

queueVars == <<rq, wq, pq>>
llcVars == <<below, llc_rq>>
vars == <<queueVars, mshr, block, waiting, l1d, llcVars, modified, failed>>

Init ==
    /\ rq = <<>> /\ wq = <<>> /\ pq = <<>>
    /\ mshr = {}
    /\ block = [w \in Way |-> [line |-> NoLine, dirty |-> FALSE]]
    /\ waiting = [c \in Client |-> {}]
    /\ l1d = {}
    /\ below = {} /\ llc_rq = {}
    /\ modified = {}
    /\ failed = {}

(* check_queue and check_nonfifo_queue: the positions of a line in a queue *)
InQueue(q, x) == {i \in DOMAIN q : q[i].line = x}
InMshr(x) == {m \in mshr : m.line = x}

(* check_hit *)
Hit(x) == \E w \in Way : block[w].line = x

-----------------------------------------------------------------------------
(* Answers *)

(* Where a packet's line is sent up on a forward from WQ and a hit in PQ *)
ByFlags(p) ==
    IF p.fill_level = 1
    THEN (IF p.fill_l1i THEN {"L1I"} ELSE {}) \cup (IF p.fill_l1d THEN {"L1D"} ELSE {})
    ELSE {}

MutRecipients(p) ==
    IF p.fill_level # 1 THEN {}
    ELSE IF p.send_both_cache THEN {"L1I", "L1D"}
    ELSE IF p.fill_l1i \/ p.fill_l1d THEN ByFlags(p)
    ELSE IF p.instruction THEN {"L1I"} ELSE {"L1D"}

(* Where it is sent up on a fill and a hit in RQ *)
Recipients(p) ==
    IF p.fill_level # 1 THEN {}
    ELSE IF p.type = "TRANSLATION" THEN {"PTW"}
    ELSE IF p.send_both_cache THEN {"L1I", "L1D"}
    ELSE IF p.fill_l1i \/ p.fill_l1d THEN ByFlags(p)
    ELSE IF p.instruction THEN {"L1I"} ELSE {"L1D"}

(* return_data of those above, who wait for the lines `w`: each must have  *)
(* an MSHR entry for the line.                                             *)
Answer(w, to, x) ==
    /\ waiting' = [c \in Client |-> IF c \in to THEN w[c] \ {x} ELSE w[c]]
    /\ l1d' = IF "L1D" \in to THEN l1d \cup {x} ELSE l1d
    /\ failed' = failed \cup {c \in to : x \notin w[c]}

-----------------------------------------------------------------------------
(* Requests from above *)

Demand(c, x, instruction) ==
    [line |-> x,
     type |-> IF c = "PTW" THEN "TRANSLATION" ELSE "LOAD",
     fill_level |-> 1,
     instruction |-> instruction, fill_l1i |-> instruction, fill_l1d |-> ~instruction,
     send_both_cache |-> FALSE, returned |-> "INFLIGHT"]

Prefetch(x, level, instruction) ==
    [line |-> x, type |-> "PREFETCH", fill_level |-> level,
     instruction |-> instruction,
     fill_l1i |-> level = 1 /\ instruction, fill_l1d |-> level = 1 /\ ~instruction,
     send_both_cache |-> FALSE, returned |-> "INFLIGHT"]

MutMergeRead(q, p) ==
    IF p.instruction
    THEN [q EXCEPT !.fill_level = IF p.fill_level < @ THEN p.fill_level ELSE @,
                   !.instruction = TRUE]
    ELSE [q EXCEPT !.fill_level = IF p.fill_level < @ THEN p.fill_level ELSE @,
                   !.fill_l1i = @ \/ p.fill_l1i,
                   !.fill_l1d = @ \/ p.fill_l1d]

(* A request merges into the RQ entry q of its line.  A request for code   *)
(* passes on its flag only through send_both_cache.                        *)
MergeRead(q, p) ==
    LET differ == {q.fill_level, p.fill_level} = {1} /\ q.instruction # p.instruction
        both == q.send_both_cache \/ differ
        merged == [q EXCEPT !.fill_level = IF p.fill_level < @ THEN p.fill_level ELSE @,
                            !.send_both_cache = both]
    IN  IF p.instruction
        THEN [merged EXCEPT !.instruction = TRUE]
        ELSE [merged EXCEPT !.fill_l1i = @ \/ p.fill_l1i, !.fill_l1d = @ \/ p.fill_l1d]

(* add_rq for a read miss of a client that has just taken an MSHR entry.   *)
(* What add_rq returns is not looked at by the L1s, -2 for a full RQ       *)
(* included; the PTW asserts that its packet has been queued.              *)
add_rq(c, x, instruction) ==
    LET p == Demand(c, x, instruction)
        w == [waiting EXCEPT ![c] = @ \cup {x}]
        forward == \E i \in DOMAIN wq : wq[i] = x
        merge == InQueue(rq, x) # {}
    IN  /\ x \notin waiting[c]
        /\ \/ /\ forward
              /\ Answer(w, ByFlags(p), x)
              /\ UNCHANGED rq
           \/ /\ ~forward
              /\ waiting' = w
              /\ l1d' = IF c = "L1D" THEN l1d \ {x} ELSE l1d
              /\ rq' = CASE merge -> [i \in DOMAIN rq |-> IF rq[i].line = x
                                                          THEN MergeRead(rq[i], p)
                                                          ELSE rq[i]]
                         [] ~merge /\ Len(rq) = RQ_SIZE -> rq
                         [] OTHER -> Append(rq, p)
              /\ failed' = IF c = "PTW" /\ merge THEN failed \cup {"rq_index"} ELSE failed
        /\ UNCHANGED <<wq, pq, mshr, block, llcVars, modified>>

L1I_read(x) ==
    /\ Cardinality(waiting["L1I"]) < L1I_MSHR_SIZE
    /\ add_rq("L1I", x, TRUE)

L1D_read(x) ==
    /\ Cardinality(waiting["L1D"]) < L1D_MSHR_SIZE
    /\ add_rq("L1D", x, FALSE)

(* The walker has one MSHR entry and asks only while RQ has room.  Its     *)
(* packet keeps the flags of the L1 request the translation is for.        *)
PTW_read(x, instruction) ==
    /\ waiting["PTW"] = {}
    /\ Len(rq) < RQ_SIZE
    /\ add_rq("PTW", x, instruction)

(* add_wq: the L1D evicts a modified line, once WQ has room. *)
add_wq(x) ==
    /\ x \in l1d
    /\ Len(wq) < WQ_SIZE
    /\ wq' = IF \E i \in DOMAIN wq : wq[i] = x THEN wq ELSE Append(wq, x)
    /\ l1d' = l1d \ {x}
    /\ modified' = modified \cup {x}
    /\ UNCHANGED <<rq, pq, mshr, block, waiting, llcVars, failed>>

(* A prefetch merges into the PQ entry q of its line. *)
MergePrefetch(q, p) ==
    [q EXCEPT !.fill_level = IF p.fill_level < @ THEN p.fill_level ELSE @,
              !.instruction = IF p.fill_level < q.fill_level THEN p.instruction ELSE @,
              !.fill_l1i = @ \/ p.fill_l1i,
              !.fill_l1d = @ \/ p.fill_l1d]

(* add_pq, which every caller leaves until PQ has room; w is what the      *)
(* clients wait for when the prefetch is for one of them.                  *)
add_pq(p, w) ==
    LET forward == \E i \in DOMAIN wq : wq[i] = p.line
    IN  /\ Len(pq) < PQ_SIZE
        /\ \/ /\ forward
              /\ Answer(w, ByFlags(p), p.line)
              /\ UNCHANGED pq
           \/ /\ ~forward
              /\ waiting' = w
              /\ pq' = IF InQueue(pq, p.line) # {}
                       THEN [i \in DOMAIN pq |-> IF pq[i].line = p.line
                                                 THEN MergePrefetch(pq[i], p) ELSE pq[i]]
                       ELSE Append(pq, p)
              /\ UNCHANGED <<l1d, failed>>
        /\ UNCHANGED <<rq, wq, mshr, block, llcVars, modified>>

(* A prefetch of an L1 into itself: it takes an MSHR entry there. *)
L1I_prefetch(x) ==
    /\ x \notin waiting["L1I"]
    /\ Cardinality(waiting["L1I"]) < L1I_MSHR_SIZE
    /\ add_pq(Prefetch(x, 1, TRUE), [waiting EXCEPT !["L1I"] = @ \cup {x}])

L1D_prefetch(x) ==
    /\ x \notin waiting["L1D"]
    /\ Cardinality(waiting["L1D"]) < L1D_MSHR_SIZE
    /\ add_pq(Prefetch(x, 1, FALSE), [waiting EXCEPT !["L1D"] = @ \cup {x}])

(* prefetch_line of the L2C's own prefetcher, and a prefetch of the L1D    *)
(* that is to stop at the L2C or the LLC: nobody above waits for it.  The  *)
(* prefetcher runs when a request is handled; what it asks for is left     *)
(* open, and so is when.                                                   *)
prefetch_line(x, level) == add_pq(Prefetch(x, level, FALSE), waiting)

-----------------------------------------------------------------------------
(* The handlers of operate() *)

MutEvict(w) == modified' = modified

(* The line leaves way w.  A modified one goes to the LLC's WQ; while that *)
(* is full, which it may be at any time, the handler tries again.          *)
Evict(w) == modified' = IF block[w].dirty THEN modified \ {block[w].line} ELSE modified

Fill(w, x, dirty) == block' = [block EXCEPT ![w] = [line |-> x, dirty |-> dirty]]

(* handle_fill, of an entry whose line the LLC has sent; the replacement   *)
(* policy may choose any way.                                              *)
handle_fill(m, w) ==
    /\ m.returned = "COMPLETED"
    /\ Evict(w)
    /\ Fill(w, m.line, FALSE)
    /\ Answer(waiting, Recipients(m), m.line)
    /\ mshr' = mshr \ {m}
    /\ UNCHANGED <<queueVars, llcVars>>

(* handle_writeback, the head of WQ: a hit marks the way that holds the    *)
(* line, a miss takes a way for it, without a look at MSHR.                *)
handle_writeback(w) ==
    /\ wq # <<>>
    /\ \/ /\ block[w].line = Head(wq)
          /\ Fill(w, Head(wq), TRUE)
          /\ UNCHANGED modified
       \/ /\ ~Hit(Head(wq))
          /\ Evict(w)
          /\ Fill(w, Head(wq), TRUE)
    /\ wq' = Tail(wq)
    /\ UNCHANGED <<rq, pq, mshr, waiting, l1d, llcVars, failed>>

MutMergeMshr(m, p) ==
    IF m.type = "PREFETCH"
    THEN [p EXCEPT !.fill_l1i = @ \/ m.fill_l1i, !.fill_l1d = @ \/ m.fill_l1d]
    ELSE [m EXCEPT !.fill_l1i = @ \/ p.fill_l1i, !.fill_l1d = @ \/ p.fill_l1d]

(* A read merges into the MSHR entry m of its line and, if that is a       *)
(* prefetch, takes it over, with what is known of it so far.               *)
MergeMshr(m, p) ==
    LET i == m.fill_l1i \/ p.fill_l1i
        d == m.fill_l1d \/ p.fill_l1d
        level == IF p.fill_level < m.fill_level THEN p.fill_level ELSE m.fill_level
        code == IF p.fill_level < m.fill_level THEN p.instruction ELSE m.instruction
    IN  IF m.type = "PREFETCH"
        THEN [p EXCEPT !.fill_level = level, !.instruction = code \/ p.instruction,
                       !.fill_l1i = i, !.fill_l1d = d, !.returned = m.returned]
        ELSE [m EXCEPT !.fill_level = level, !.instruction = code,
                       !.fill_l1i = i, !.fill_l1d = d]

(* add_rq of the LLC, whose answer -2 for a full RQ is not looked at.      *)
AskLLC(x) ==
    IF x \in llc_rq \/ Cardinality(llc_rq) < LLC_RQ_SIZE
    THEN /\ below' = below \cup {x}
         /\ llc_rq' = llc_rq \cup {x}
    ELSE UNCHANGED llcVars

MutHasRoom == Cardinality(mshr) <= MSHR_SIZE

MshrHasRoom == Cardinality(mshr) < MSHR_SIZE

(* handle_read, the head of RQ.  While MSHR is full and does not hold the  *)
(* line, it stays.                                                         *)
handle_read ==
    LET p == Head(rq)
    IN  /\ rq # <<>>
        /\ \/ /\ Hit(p.line)
              /\ Answer(waiting, Recipients(p), p.line)
              /\ UNCHANGED <<mshr, llcVars>>
           \/ /\ ~Hit(p.line) /\ InMshr(p.line) = {}
              /\ MshrHasRoom
              /\ mshr' = mshr \cup {p}
              /\ AskLLC(p.line)
              /\ UNCHANGED <<waiting, l1d, failed>>
           \/ /\ ~Hit(p.line) /\ InMshr(p.line) # {}
              /\ mshr' = {IF m.line = p.line THEN MergeMshr(m, p) ELSE m : m \in mshr}
              /\ UNCHANGED <<waiting, l1d, failed, llcVars>>
        /\ rq' = Tail(rq)
        /\ UNCHANGED <<wq, pq, block, modified>>

MutTakesEntry(p) == TRUE

(* A prefetch into the LLC passes by. *)
TakesEntry(p) == p.fill_level <= 2

(* handle_prefetch, the head of PQ.  A miss needs room in MSHR, even for a *)
(* prefetch into the LLC that takes no entry, and in the LLC's PQ, which   *)
(* may be full at any time.  The LLC answers what is to come further up.   *)
handle_prefetch ==
    LET p == Head(pq)
    IN  /\ pq # <<>>
        /\ \/ /\ Hit(p.line)
              /\ Answer(waiting, ByFlags(p), p.line)
              /\ UNCHANGED <<mshr, below>>
           \/ /\ ~Hit(p.line) /\ InMshr(p.line) = {}
              /\ MshrHasRoom
              /\ mshr' = IF TakesEntry(p) THEN mshr \cup {p} ELSE mshr
              /\ below' = IF p.fill_level <= 2 THEN below \cup {p.line} ELSE below
              /\ UNCHANGED <<waiting, l1d, failed>>
           \/ /\ ~Hit(p.line) /\ InMshr(p.line) # {}
              /\ mshr' = {IF m.line = p.line THEN MergePrefetch(m, p) ELSE m : m \in mshr}
              /\ UNCHANGED <<waiting, l1d, failed, below>>
        /\ pq' = Tail(pq)
        /\ UNCHANGED <<rq, wq, block, llc_rq, modified>>

-----------------------------------------------------------------------------
(* The LLC *)

LLC_takes(x) ==
    /\ x \in llc_rq
    /\ llc_rq' = llc_rq \ {x}
    /\ UNCHANGED <<queueVars, mshr, block, waiting, l1d, below, modified, failed>>

(* return_data: the LLC answers, out of its WQ also for a request it has   *)
(* only just been given.                                                   *)
return_data(x) ==
    /\ x \in below \ llc_rq
    /\ mshr' = {IF m.line = x THEN [m EXCEPT !.returned = "COMPLETED"] ELSE m : m \in mshr}
    /\ failed' = IF InMshr(x) = {} THEN failed \cup {"return_data"} ELSE failed
    /\ below' = below \ {x}
    /\ UNCHANGED <<queueVars, block, waiting, l1d, llc_rq, modified>>

Requests ==
    \/ \E x \in Line : \/ L1I_read(x) \/ L1D_read(x) \/ add_wq(x)
                       \/ L1I_prefetch(x) \/ L1D_prefetch(x)
    \/ \E x \in PageTable, instruction \in BOOLEAN : PTW_read(x, instruction)
    \/ \E x \in Line \cup PageTable, level \in {2, 4} : prefetch_line(x, level)

Operate ==
    \/ \E m \in mshr, w \in Way : handle_fill(m, w)
    \/ \E w \in Way : handle_writeback(w)
    \/ handle_read
    \/ handle_prefetch
    \/ \E x \in below : LLC_takes(x) \/ return_data(x)

Next == Requests \/ Operate

Spec == Init /\ [][Next]_vars

-----------------------------------------------------------------------------
(* What makes the cache correct *)

(* Every queue and MSHR keeps within its size, and holds a line at most    *)
(* once.                                                                   *)
TypeOK ==
    /\ rq \in Seq(Packet) /\ Len(rq) <= RQ_SIZE
    /\ wq \in Seq(Line) /\ Len(wq) <= WQ_SIZE
    /\ pq \in Seq(Packet) /\ Len(pq) <= PQ_SIZE
    /\ mshr \subseteq Packet /\ Cardinality(mshr) <= MSHR_SIZE
    /\ \A m, n \in mshr : m.line = n.line => m = n
    /\ \A i, j \in DOMAIN rq : rq[i].line = rq[j].line => i = j
    /\ \A i, j \in DOMAIN pq : pq[i].line = pq[j].line => i = j
    /\ \A i, j \in DOMAIN wq : wq[i] = wq[j] => i = j
    /\ block \in [Way -> Block]
    /\ waiting \in [Client -> SUBSET (Line \cup PageTable)]
    /\ l1d \subseteq Line
    /\ llc_rq \subseteq below /\ below \subseteq Line \cup PageTable
    /\ modified \subseteq Line

(* No line is sent to a client, or by the LLC, that has no MSHR entry for  *)
(* it (the assertion of return_data), and the walker's packet is always    *)
(* queued.                                                                 *)
NoAssertionFails == failed = {}

(* The packets in RQ, PQ and MSHR that will send line x to client c *)
Promises(c, x) ==
    {<<"RQ", i>> : i \in {j \in InQueue(rq, x) : c \in Recipients(rq[j])}}
    \cup {<<"PQ", i>> : i \in {j \in InQueue(pq, x) : c \in ByFlags(pq[j])}}
    \cup {<<"MSHR", m.line>> : m \in {n \in InMshr(x) : c \in Recipients(n)}}

(* Whatever merges, is taken over or forwarded, a client that waits for a  *)
(* line has exactly one packet in the cache that will answer it, and one   *)
(* that does not wait has none: no answer is lost and none comes twice.    *)
OwedOnce ==
    \A c \in Client, x \in Line \cup PageTable :
        Cardinality(Promises(c, x)) = IF x \in waiting[c] THEN 1 ELSE 0

(* The LLC owes exactly the lines of the MSHR entries that have not been   *)
(* answered: none is asked for twice, and none waits for a request that    *)
(* was dropped.                                                            *)
RequestsMatchMshr == below = {m.line : m \in {n \in mshr : n.returned = "INFLIGHT"}}

(* A line the L1D handed over modified waits in WQ or is marked dirty,     *)
(* until it goes to the LLC: no fill and no second copy of it loses that.  *)
ModifiedKept ==
    \A x \in modified :
        \/ \E i \in DOMAIN wq : wq[i] = x
        \/ \E w \in Way : block[w].line = x /\ block[w].dirty
=============================================================================
