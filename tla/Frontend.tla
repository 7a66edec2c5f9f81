------------------------------ MODULE Frontend ------------------------------
(***************************************************************************)
(* The front end of src/ooo_cpu.cc: read_from_trace fills IFETCH_BUFFER    *)
(* and stops at a branch it cannot follow, fetch_instruction asks the L1I  *)
(* for the lines and hands what has arrived to DECODE_BUFFER,              *)
(* decode_and_dispatch hands it to the ROB, and decode or execution of the *)
(* branch lets reading go on.  The L1I and the ROB are the environment.    *)
(*                                                                         *)
(* A cycle number that has been reached is a free choice of the step.      *)
(***************************************************************************)
EXTENDS Integers, FiniteSets, Sequences, SequencesExt

CONSTANTS Line,                 \* cache lines of instructions
          IFETCH_SIZE, DECODE_SIZE,
          DECODE_WIDTH,
          MaxRequests,          \* bound: L1I requests outstanding for a line
          MaxInstr              \* bound: instructions the trace holds

ASSUME FrontendAssumption ==
    /\ {IFETCH_SIZE, DECODE_SIZE, DECODE_WIDTH, MaxRequests} \subseteq Nat \ {0}
    /\ MaxInstr \in Nat

VARIABLES
    ifetch,         \* IFETCH_BUFFER from head to tail
    decode,         \* DECODE_BUFFER from head to tail
    executing,      \* the flagged branches in the ROB that have not completed
    next,           \* instr_unique_id
    dispatched,     \* ghost: instructions the ROB has been given
    fetch_stall,
    resume,         \* fetch_resume_cycle is not 0
    requests,       \* the answers the L1I owes for each line
    warm,           \* warmup_complete
    failed          \* the assertions that have failed

vars == <<ifetch, decode, executing, next, dispatched, fetch_stall, resume,
          requests, warm, failed>>

(* What the front end knows of an instruction: the flags are set when the  *)
(* predictor or the branch target buffer (BTB) is wrong about it; `direct` *)
(* is a direct jump or call, or a conditional branch.                      *)
Instruction == [instr_id : Nat, line : Line, mispredicted : BOOLEAN,
                btb_miss : BOOLEAN, direct : BOOLEAN]

Init ==
    /\ ifetch = <<>> /\ decode = <<>> /\ executing = {}
    /\ next = 0 /\ dispatched = 0
    /\ fetch_stall = FALSE /\ resume = FALSE
    /\ requests = [l \in Line |-> 0]
    /\ warm = FALSE
    /\ failed = {}

Stalls(i) == i.mispredicted \/ i.btb_miss

MutReadWhenFull(line, mispredicted, btb_miss, direct) ==
    LET i == [instr_id |-> next, line |-> line, mispredicted |-> warm /\ mispredicted,
              btb_miss |-> warm /\ btb_miss, direct |-> direct]
    IN  /\ next < MaxInstr /\ ~ fetch_stall
        /\ IF Len(ifetch) < IFETCH_SIZE
           THEN /\ ifetch' = Append(ifetch, [instr |-> i, fetched |-> "NO"])
                /\ fetch_stall' = Stalls(i)
           ELSE UNCHANGED <<ifetch, fetch_stall>>
        /\ next' = next + 1
        /\ UNCHANGED <<decode, executing, dispatched, resume, requests, warm, failed>>

(* One instruction of read_from_trace.  A stalling branch is the last one  *)
(* it reads; the flags are only set after the warmup.                      *)
read_from_trace(line, mispredicted, btb_miss, direct) ==
    LET i == [instr_id |-> next, line |-> line, mispredicted |-> warm /\ mispredicted,
              btb_miss |-> warm /\ btb_miss, direct |-> direct]
    IN  /\ next < MaxInstr
        /\ Len(ifetch) < IFETCH_SIZE /\ ~ fetch_stall
        /\ ifetch' = Append(ifetch, [instr |-> i, fetched |-> "NO"])
        /\ fetch_stall' = Stalls(i)
        /\ next' = next + 1
        /\ UNCHANGED <<decode, executing, dispatched, resume, requests, warm, failed>>

Missing == {ifetch[k].instr.line : k \in {j \in DOMAIN ifetch : ifetch[j].fetched = "NO"}}

(* A request the L1I accepts marks every entry of its line, also one that  *)
(* has its line already.                                                   *)
Requested(accepted) ==
    [k \in DOMAIN ifetch |-> IF ifetch[k].instr.line \in accepted
                             THEN [ifetch[k] EXCEPT !.fetched = "INFLIGHT"]
                             ELSE ifetch[k]]

(* How many entries at the head have their line, as far as they may go. *)
Fetched(buffer) ==
    Cardinality({n \in 1 .. DECODE_WIDTH :
        /\ n <= Len(buffer) /\ Len(decode) + n <= DECODE_SIZE
        /\ \A k \in 1 .. n : buffer[k].fetched = "COMPLETED"})

(* fetch_instruction: end the stall when the resume cycle is reached, ask  *)
(* for lines (the L1I accepts some, and merges a request with one it has   *)
(* or not), and fill the decode buffer.                                    *)
fetch_instruction(due, accepted, merged) ==
    LET buffer == Requested(accepted)
        n == Fetched(buffer)
        resumed == fetch_stall /\ resume /\ due
    IN  /\ accepted \subseteq Missing
        /\ merged \subseteq {l \in accepted : requests[l] > 0}
        /\ \A l \in accepted \ merged : requests[l] < MaxRequests
        /\ fetch_stall' = (fetch_stall /\ ~ resumed)
        /\ resume' = (resume /\ ~ resumed)
        /\ requests' = [l \in Line |-> IF l \in accepted \ merged
                                       THEN requests[l] + 1 ELSE requests[l]]
        /\ ifetch' = SubSeq(buffer, n + 1, Len(buffer))
        /\ decode' = decode \o [k \in 1 .. n |-> [instr |-> buffer[k].instr, decoded |-> FALSE]]
        /\ UNCHANGED <<executing, next, dispatched, warm, failed>>

MutCompleteHead(l) ==
    /\ requests[l] > 0
    /\ requests' = [requests EXCEPT ![l] = @ - 1]
    /\ ifetch' = [k \in DOMAIN ifetch |-> IF k = 1 /\ ifetch[k].instr.line = l
                                          THEN [ifetch[k] EXCEPT !.fetched = "COMPLETED"]
                                          ELSE ifetch[k]]
    /\ UNCHANGED <<decode, executing, next, dispatched, fetch_stall, resume, warm, failed>>

(* complete_instr_fetch: an answer of the L1I serves every entry of its line *)
complete_instr_fetch(l) ==
    /\ requests[l] > 0
    /\ requests' = [requests EXCEPT ![l] = @ - 1]
    /\ ifetch' = [k \in DOMAIN ifetch |-> IF ifetch[k].instr.line = l
                                          THEN [ifetch[k] EXCEPT !.fetched = "COMPLETED"]
                                          ELSE ifetch[k]]
    /\ UNCHANGED <<decode, executing, next, dispatched, fetch_stall, resume, warm, failed>>

MutResolvedAtDecode(i) == i.btb_miss /\ i.direct

(* A direct branch the BTB did not know is known after decode, unless its  *)
(* direction was mispredicted too.                                         *)
ResolvedAtDecode(i) == i.btb_miss /\ ~ i.mispredicted /\ i.direct

MutResolveKeepsMiss(i) == i
Resolve(i) == IF ResolvedAtDecode(i) THEN [i EXCEPT !.btb_miss = FALSE] ELSE i

MutDecodedNotWhenFull(buffer) ==
    LET last == IF Len(buffer) = DECODE_SIZE THEN 0 ELSE Len(buffer)
    IN  [k \in DOMAIN buffer |->
            IF /\ k <= last
               /\ Cardinality({j \in 1 .. k : ~ buffer[j].decoded}) <= DECODE_WIDTH
            THEN [buffer[k] EXCEPT !.decoded = TRUE] ELSE buffer[k]]

(* The entries that decode_and_dispatch finds undecoded, at most a width   *)
(* of them; of a full buffer (head = tail) it decodes the head only.       *)
Decoded(buffer) ==
    LET last == IF Len(buffer) = DECODE_SIZE THEN 1 ELSE Len(buffer)
    IN  [k \in DOMAIN buffer |->
            IF /\ k <= last
               /\ Cardinality({j \in 1 .. k : ~ buffer[j].decoded}) <= DECODE_WIDTH
            THEN [buffer[k] EXCEPT !.decoded = TRUE] ELSE buffer[k]]

(* decode_and_dispatch: n decoded entries enter the ROB, as many as it has *)
(* room for and are due; before the warmup ends an entry need not be       *)
(* decoded.  Then others are decoded.                                      *)
decode_and_dispatch(n) ==
    LET gone == {decode[k].instr : k \in 1 .. n}
        rest == SubSeq(decode, n + 1, Len(decode))
    IN  /\ decode # <<>> /\ n <= Len(decode) /\ n <= DECODE_WIDTH
        /\ warm => \A k \in 1 .. n : decode[k].decoded
        /\ decode' = Decoded(rest)
        /\ executing' = executing \cup {i \in {Resolve(j) : j \in gone} : Stalls(i)}
        /\ resume' = (resume \/ (warm /\ \E i \in gone : ResolvedAtDecode(i)))
        /\ dispatched' = dispatched + n
        /\ UNCHANGED <<ifetch, next, fetch_stall, requests, warm, failed>>

(* complete_execution of a flagged branch *)
complete_execution(i) ==
    /\ i \in executing
    /\ executing' = executing \ {i}
    /\ resume' = (resume \/ warm)
    /\ failed' = failed \cup (IF ResolvedAtDecode(i) THEN {"branch_type"} ELSE {})
    /\ UNCHANGED <<ifetch, decode, next, dispatched, fetch_stall, requests, warm>>

WarmupComplete ==
    /\ ~ warm /\ warm' = TRUE
    /\ UNCHANGED <<ifetch, decode, executing, next, dispatched, fetch_stall, resume,
                   requests, failed>>

Next ==
    \/ \E line \in Line, mispredicted, btb_miss, direct \in BOOLEAN :
          read_from_trace(line, mispredicted, btb_miss, direct)
    \/ \E due \in BOOLEAN, accepted, merged \in SUBSET Line :
          fetch_instruction(due, accepted, merged)
    \/ \E l \in Line : complete_instr_fetch(l)
    \/ \E n \in 0 .. DECODE_WIDTH : decode_and_dispatch(n)
    \/ \E i \in executing : complete_execution(i)
    \/ WarmupComplete

Spec == Init /\ [][Next]_vars

(* Fetch and decode run in every cycle; the resume cycle comes; the L1I    *)
(* takes every request in the end and answers what it took; the ROB gets   *)
(* room, and its branches execute.                                         *)
Fairness ==
    /\ WF_vars(\E accepted, merged \in SUBSET Line : fetch_instruction(TRUE, accepted, merged))
    /\ \A l \in Line :
          /\ WF_vars(\E due \in BOOLEAN, accepted, merged \in SUBSET Line :
                        l \in accepted /\ fetch_instruction(due, accepted, merged))
          /\ WF_vars(complete_instr_fetch(l))
    /\ WF_vars(decode_and_dispatch(0))
    /\ WF_vars(\E n \in 1 .. DECODE_WIDTH : decode_and_dispatch(n))
    /\ WF_vars(\E i \in executing : complete_execution(i))

FairSpec == Spec /\ Fairness

-----------------------------------------------------------------------------
(* Properties *)

(* complete_execution's assertion on branch_type: a direct branch never    *)
(* reaches the ROB with a BTB miss that decode should have resolved.       *)
NoAssertionFails == failed = {}

(* What was read and has not been dispatched is in the two buffers, in the *)
(* order of the trace: nothing is lost, doubled or overtaken.              *)
InTraceOrder ==
    LET pipe == [k \in DOMAIN decode |-> decode[k].instr]
                    \o [k \in DOMAIN ifetch |-> ifetch[k].instr]
    IN  /\ next = dispatched + Len(pipe)
        /\ \A k \in DOMAIN pipe : pipe[k].instr_id = dispatched + k - 1

(* The flagged branches that neither decode nor execution has resolved. *)
Unresolved ==
    {i \in {ifetch[k].instr : k \in DOMAIN ifetch} \cup {decode[k].instr : k \in DOMAIN decode}
           \cup executing : Stalls(i)}

(* Reading stalls exactly while a branch it could not follow is            *)
(* unresolved, or resolved with the resume cycle still to come; that       *)
(* branch is the last instruction read, so nothing behind it is fetched,   *)
(* and no resume cycle of one branch is left over for another's stall.     *)
StallMatchesBranch ==
    /\ \A i \in Unresolved : i.instr_id = next - 1
    /\ (fetch_stall /\ ~ resume) <=> Unresolved # {}
    /\ resume => fetch_stall

(* An entry that waits for its line has an answer coming, although a later *)
(* request for the line takes back what an earlier one had completed.      *)
WaitersAreAnswered ==
    \A k \in DOMAIN ifetch :
        ifetch[k].fetched = "INFLIGHT" => requests[ifetch[k].instr.line] > 0

(* Whatever has been read reaches the ROB, and no stall lasts for ever. *)
FrontendDrains ==
    (dispatched < next \/ fetch_stall) ~> (dispatched = next /\ ~ fetch_stall)

=============================================================================
