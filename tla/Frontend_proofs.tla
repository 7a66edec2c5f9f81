-------------------------- MODULE Frontend_proofs --------------------------
(***************************************************************************)
(* Proofs about Frontend for every set of lines, buffer size, decode width *)
(* and length of the trace.  The inductive invariant states the order of   *)
(* the trace buffer by buffer, and adds to the checked properties that the *)
(* ROB holds at most one flagged branch, which decode did not resolve, and *)
(* that nothing is flagged before the warmup ends.                         *)
(***************************************************************************)
EXTENDS Frontend, FiniteSetTheorems, SequenceTheorems, TLAPS

FetchEntry == [instr : Instruction, fetched : {"NO", "INFLIGHT", "COMPLETED"}]
DecodeEntry == [instr : Instruction, decoded : BOOLEAN]

Typed ==
    /\ ifetch \in Seq(FetchEntry)
    /\ decode \in Seq(DecodeEntry) /\ Len(decode) <= DECODE_SIZE
    /\ executing \subseteq Instruction
    /\ next \in Nat /\ dispatched \in Nat
    /\ fetch_stall \in BOOLEAN /\ resume \in BOOLEAN /\ warm \in BOOLEAN
    /\ requests \in [Line -> Nat]

(* The number of an instruction follows from its place. *)
Numbered ==
    /\ next = dispatched + Len(decode) + Len(ifetch)
    /\ \A k \in 1 .. Len(decode) : decode[k].instr.instr_id = dispatched + k - 1
    /\ \A k \in 1 .. Len(ifetch) : ifetch[k].instr.instr_id = dispatched + Len(decode) + k - 1
    /\ \A i \in executing : i.instr_id < dispatched

(* What the ROB is given flagged is left for execution to resolve. *)
Flagged ==
    /\ \A i \in Unresolved : warm
    /\ \A i \in executing : Stalls(i) /\ ~ ResolvedAtDecode(i)
    /\ \A i, j \in executing : i = j

IInv == Typed /\ Numbered /\ Flagged /\ StallMatchesBranch /\ WaitersAreAnswered
          /\ NoAssertionFails

-----------------------------------------------------------------------------
(* The operators of the model, on buffers of any length.                   *)

(* The instructions a buffer holds. *)
Held(buffer) == {buffer[k].instr : k \in DOMAIN buffer}

(* Asking for lines marks entries and changes no instruction. *)
LEMMA RequestedKeepsInstructions ==
    ASSUME Typed, NEW accepted
    PROVE  /\ Requested(accepted) \in Seq(FetchEntry)
           /\ Len(Requested(accepted)) = Len(ifetch)
           /\ \A k \in 1 .. Len(ifetch) :
                 /\ Requested(accepted)[k].instr = ifetch[k].instr
                 /\ Requested(accepted)[k].fetched =
                       IF ifetch[k].instr.line \in accepted THEN "INFLIGHT"
                       ELSE ifetch[k].fetched
<1> DEFINE e(k) == IF ifetch[k].instr.line \in accepted
                   THEN [ifetch[k] EXCEPT !.fetched = "INFLIGHT"] ELSE ifetch[k]
<1>1. /\ DOMAIN ifetch = 1 .. Len(ifetch) /\ Len(ifetch) \in Nat
      /\ \A k \in 1 .. Len(ifetch) : ifetch[k] \in FetchEntry
  BY LenProperties, ElementOfSeq DEF Typed
<1>2. \A k \in 1 .. Len(ifetch) :
         /\ e(k) \in FetchEntry
         /\ e(k).instr = ifetch[k].instr
         /\ e(k).fetched = IF ifetch[k].instr.line \in accepted THEN "INFLIGHT"
                           ELSE ifetch[k].fetched
  BY <1>1 DEF FetchEntry
<1>3. Requested(accepted) = [k \in 1 .. Len(ifetch) |-> e(k)]
  BY <1>1 DEF Requested
<1> HIDE DEF e
<1>4. Requested(accepted) \in Seq(FetchEntry)
  BY <1>1, <1>2, <1>3, IsASeq
<1> QED
  BY <1>1, <1>2, <1>3, <1>4, LenProperties

(* What goes on to decode is there, and fits. *)
LEMMA FetchedBounds ==
    ASSUME Typed, NEW buffer, Len(buffer) \in Nat
    PROVE  /\ Fetched(buffer) \in Nat
           /\ Fetched(buffer) <= Len(buffer)
           /\ Len(decode) + Fetched(buffer) <= DECODE_SIZE
<1> DEFINE T == {n \in 1 .. DECODE_WIDTH :
                    /\ n <= Len(buffer) /\ Len(decode) + n <= DECODE_SIZE
                    /\ \A k \in 1 .. n : buffer[k].fetched = "COMPLETED"}
           room == DECODE_SIZE - Len(decode)
<1>1. Len(decode) \in Nat /\ room \in Nat /\ DECODE_WIDTH \in Nat /\ DECODE_SIZE \in Nat
  BY FrontendAssumption, LenProperties DEF Typed
<1>2. T \in SUBSET (1 .. Len(buffer)) /\ T \in SUBSET (1 .. room)
  BY <1>1
<1>3. /\ IsFiniteSet(1 .. Len(buffer)) /\ Cardinality(1 .. Len(buffer)) = Len(buffer)
      /\ IsFiniteSet(1 .. room) /\ Cardinality(1 .. room) = room
  <2>1. \A n \in Nat : IsFiniteSet(1 .. n) /\ Cardinality(1 .. n) = n
    <3> TAKE n \in Nat
    <3>1. /\ IsFiniteSet(1 .. n)
          /\ Cardinality(1 .. n) = IF 1 > n THEN 0 ELSE n - 1 + 1
      BY FS_Interval
    <3> QED
      BY <3>1
  <2> QED
    BY <1>1, <2>1
<1>4. Cardinality(T) \in Nat /\ Cardinality(T) <= Len(buffer) /\ Cardinality(T) <= room
  <2> HIDE DEF T, room
  <2> QED
    BY <1>2, <1>3, FS_Subset, FS_CardinalityType
<1> QED
  BY <1>1, <1>4 DEF Fetched

(* Decoding marks entries and changes no instruction. *)
LEMMA DecodedKeepsInstructions ==
    ASSUME NEW buffer \in Seq(DecodeEntry)
    PROVE  /\ Decoded(buffer) \in Seq(DecodeEntry)
           /\ Len(Decoded(buffer)) = Len(buffer)
           /\ \A k \in 1 .. Len(buffer) : Decoded(buffer)[k].instr = buffer[k].instr
<1> DEFINE last == IF Len(buffer) = DECODE_SIZE THEN 1 ELSE Len(buffer)
           e(k) == IF /\ k <= last
                      /\ Cardinality({j \in 1 .. k : ~ buffer[j].decoded}) <= DECODE_WIDTH
                   THEN [buffer[k] EXCEPT !.decoded = TRUE] ELSE buffer[k]
<1>1. /\ DOMAIN buffer = 1 .. Len(buffer) /\ Len(buffer) \in Nat
      /\ \A k \in 1 .. Len(buffer) : buffer[k] \in DecodeEntry
  BY LenProperties, ElementOfSeq
<1>2. \A k \in 1 .. Len(buffer) : e(k) \in DecodeEntry /\ e(k).instr = buffer[k].instr
  BY <1>1 DEF DecodeEntry
<1>3. Decoded(buffer) = [k \in 1 .. Len(buffer) |-> e(k)]
  BY <1>1 DEF Decoded
<1> HIDE DEF e, last
<1>4. Decoded(buffer) \in Seq(DecodeEntry)
  BY <1>1, <1>2, <1>3, IsASeq
<1> QED
  BY <1>1, <1>2, <1>3, <1>4, LenProperties

(* Numbered buffers spell out the order of the trace. *)
LEMMA NumberedIsInTraceOrder == Typed /\ Numbered => InTraceOrder
<1> SUFFICES ASSUME Typed, Numbered PROVE InTraceOrder
  OBVIOUS
<1> DEFINE front == [k \in DOMAIN decode |-> decode[k].instr]
           back == [k \in DOMAIN ifetch |-> ifetch[k].instr]
<1>1. /\ DOMAIN decode = 1 .. Len(decode) /\ Len(decode) \in Nat
      /\ DOMAIN ifetch = 1 .. Len(ifetch) /\ Len(ifetch) \in Nat
      /\ \A k \in 1 .. Len(decode) : decode[k].instr \in Instruction
      /\ \A k \in 1 .. Len(ifetch) : ifetch[k].instr \in Instruction
  <2>1. /\ \A k \in 1 .. Len(decode) : decode[k] \in DecodeEntry
        /\ \A k \in 1 .. Len(ifetch) : ifetch[k] \in FetchEntry
    BY ElementOfSeq DEF Typed
  <2>2. /\ \A k \in 1 .. Len(decode) : decode[k].instr \in Instruction
        /\ \A k \in 1 .. Len(ifetch) : ifetch[k].instr \in Instruction
    BY <2>1 DEF FetchEntry, DecodeEntry
  <2> QED
    BY <2>2, LenProperties DEF Typed
<1>2. front \in Seq(Instruction) /\ back \in Seq(Instruction)
  BY <1>1, IsASeq
<1>3. Len(front) = Len(decode) /\ Len(back) = Len(ifetch)
  BY <1>1, <1>2, LenProperties
<1>4. /\ \A k \in 1 .. Len(decode) : front[k].instr_id = dispatched + k - 1
      /\ \A k \in 1 .. Len(ifetch) : back[k].instr_id = dispatched + Len(decode) + k - 1
  BY <1>1 DEF Numbered
<1> HIDE DEF front, back
<1>5. /\ front \o back \in Seq(Instruction)
      /\ Len(front \o back) = Len(decode) + Len(ifetch)
      /\ \A k \in 1 .. Len(decode) + Len(ifetch) :
            (front \o back)[k] = IF k <= Len(decode) THEN front[k] ELSE back[k - Len(decode)]
  <2>1. /\ front \o back \in Seq(Instruction)
        /\ Len(front \o back) = Len(front) + Len(back)
        /\ \A k \in 1 .. Len(front) + Len(back) :
              (front \o back)[k] = IF k <= Len(front) THEN front[k] ELSE back[k - Len(front)]
    BY <1>2, ConcatProperties, Zenon
  <2> QED
    BY <1>3, <2>1, Zenon
<1>6. DOMAIN (front \o back) = 1 .. Len(decode) + Len(ifetch)
  BY <1>5, LenProperties
<1>7. \A k \in 1 .. Len(decode) + Len(ifetch) : (front \o back)[k].instr_id = dispatched + k - 1
  <2> TAKE k \in 1 .. Len(decode) + Len(ifetch)
  <2>1. CASE k <= Len(decode)
    BY <1>1, <1>4, <1>5, <2>1
  <2>2. CASE ~ (k <= Len(decode))
    <3>1. k - Len(decode) \in 1 .. Len(ifetch)
      BY <1>1, <2>2
    <3>2. back[k - Len(decode)].instr_id = dispatched + Len(decode) + (k - Len(decode)) - 1
      BY <1>4, <3>1
    <3> QED
      BY <1>1, <1>5, <2>2, <3>2 DEF Typed
  <2> QED
    BY <2>1, <2>2
<1> QED
  BY <1>1, <1>5, <1>6, <1>7 DEF Numbered, InTraceOrder, front, back, Typed

-----------------------------------------------------------------------------
(* The steps.                                                              *)

(* What the bounds and elements of well-typed buffers are. *)
LEMMA Buffers ==
    ASSUME Typed
    PROVE  /\ Len(ifetch) \in Nat /\ DOMAIN ifetch = 1 .. Len(ifetch)
           /\ Len(decode) \in Nat /\ DOMAIN decode = 1 .. Len(decode)
           /\ \A k \in 1 .. Len(ifetch) : ifetch[k] \in FetchEntry
           /\ \A k \in 1 .. Len(decode) : decode[k] \in DecodeEntry
  BY LenProperties, ElementOfSeq DEF Typed

LEMMA InitIInv == Init => IInv
<1> SUFFICES ASSUME Init PROVE IInv
  OBVIOUS
<1>1. ifetch = <<>> /\ decode = <<>> /\ Len(ifetch) = 0 /\ Len(decode) = 0
  BY EmptySeq DEF Init
<1>2. Typed
  <2>1. /\ ifetch \in Seq(FetchEntry) /\ decode \in Seq(DecodeEntry)
        /\ Len(decode) <= DECODE_SIZE
    BY <1>1, EmptySeq, FrontendAssumption
  <2> QED
    BY <2>1 DEF Init, Typed
<1>3. Unresolved = {}
  BY <1>1, <1>2, Buffers DEF Init, Unresolved
<1> QED
  BY <1>1, <1>2, <1>3, Buffers
     DEF Init, IInv, Numbered, Flagged, StallMatchesBranch, WaitersAreAnswered, NoAssertionFails

(* The branches that stall, buffer by buffer. *)
LEMMA UnresolvedHeld ==
    /\ Unresolved = {i \in Held(ifetch) \cup Held(decode) \cup executing : Stalls(i)}
    /\ Unresolved' = {i \in Held(ifetch)' \cup Held(decode)' \cup executing' : Stalls(i)}
  BY DEF Unresolved, Held, Stalls

LEMMA ReadStep ==
    ASSUME IInv, NEW line \in Line, NEW mispredicted \in BOOLEAN, NEW btb_miss \in BOOLEAN,
           NEW direct \in BOOLEAN, read_from_trace(line, mispredicted, btb_miss, direct)
    PROVE  IInv'
<1> DEFINE i == [instr_id |-> next, line |-> line, mispredicted |-> warm /\ mispredicted,
                 btb_miss |-> warm /\ btb_miss, direct |-> direct]
           entry == [instr |-> i, fetched |-> "NO"]
<1>1. /\ ifetch' = Append(ifetch, entry)
      /\ fetch_stall' = Stalls(i) /\ ~ fetch_stall /\ next' = next + 1
      /\ UNCHANGED <<decode, executing, dispatched, resume, requests, warm, failed>>
  BY DEF read_from_trace
<1>2. Typed /\ Numbered /\ Flagged /\ StallMatchesBranch /\ WaitersAreAnswered /\ NoAssertionFails
  BY DEF IInv
<1>3. /\ i \in Instruction /\ entry \in FetchEntry
      /\ i.instr_id = next /\ i.mispredicted = (warm /\ mispredicted)
      /\ i.btb_miss = (warm /\ btb_miss)
      /\ entry.instr = i /\ entry.fetched = "NO"
  BY <1>2 DEF Typed, Instruction, FetchEntry
<1>4. Stalls(i) \in BOOLEAN /\ (Stalls(i) => warm)
  BY <1>2, <1>3 DEF Stalls, Typed
<1> HIDE DEF i, entry
<1>5. /\ ifetch' \in Seq(FetchEntry) /\ Len(ifetch') = Len(ifetch) + 1
      /\ \A k \in 1 .. Len(ifetch) : ifetch'[k] = ifetch[k]
      /\ ifetch'[Len(ifetch) + 1] = entry
  BY <1>1, <1>2, <1>3, AppendProperties DEF Typed
<1>6. Typed'
  BY <1>1, <1>2, <1>4, <1>5 DEF Typed
<1>7. Numbered'
  <2>1. next' = dispatched' + Len(decode') + Len(ifetch')
    BY <1>1, <1>2, <1>5, Buffers DEF Numbered, Typed
  <2>2. ASSUME NEW k \in 1 .. Len(ifetch')
        PROVE  ifetch'[k].instr.instr_id = dispatched' + Len(decode') + k - 1
    <3>1. CASE k \in 1 .. Len(ifetch)
      BY <1>1, <1>2, <1>5, <3>1 DEF Numbered
    <3>2. CASE k = Len(ifetch) + 1
      BY <1>1, <1>2, <1>3, <1>5, <3>2, Buffers DEF Numbered, Typed
    <3> QED
      BY <1>2, <1>5, <3>1, <3>2, Buffers
  <2> QED
    BY <1>1, <1>2, <2>1, <2>2 DEF Numbered
<1>8. Held(ifetch)' = Held(ifetch) \cup {i} /\ Held(decode)' = Held(decode)
  <2>1. DOMAIN ifetch' = 1 .. Len(ifetch) + 1 /\ Len(ifetch) \in Nat
        /\ DOMAIN ifetch = 1 .. Len(ifetch)
    BY <1>2, <1>5, Buffers, LenProperties
  <2>2. 1 .. Len(ifetch) + 1 = (1 .. Len(ifetch)) \cup {Len(ifetch) + 1}
    BY <2>1
  <2> QED
    BY <1>1, <1>3, <1>5, <2>1, <2>2 DEF Held
<1>9. Unresolved = {} /\ ~ resume
  BY <1>1, <1>2 DEF StallMatchesBranch
<1>10. Unresolved' = IF Stalls(i) THEN {i} ELSE {}
  BY <1>1, <1>8, <1>9, UnresolvedHeld
<1>11. Flagged'
  BY <1>1, <1>2, <1>4, <1>10 DEF Flagged, Stalls, ResolvedAtDecode
<1>12. StallMatchesBranch'
  BY <1>1, <1>2, <1>3, <1>4, <1>9, <1>10 DEF StallMatchesBranch, Typed
<1>13. WaitersAreAnswered'
  BY <1>1, <1>2, <1>3, <1>5, <1>6, Buffers, LenProperties DEF WaitersAreAnswered, Typed
<1> QED
  BY <1>1, <1>2, <1>6, <1>7, <1>11, <1>12, <1>13 DEF IInv, NoAssertionFails

LEMMA CompleteFetchStep ==
    ASSUME IInv, NEW l \in Line, complete_instr_fetch(l)
    PROVE  IInv'
<1> DEFINE e(k) == IF ifetch[k].instr.line = l
                   THEN [ifetch[k] EXCEPT !.fetched = "COMPLETED"] ELSE ifetch[k]
<1>1. /\ ifetch' = [k \in DOMAIN ifetch |-> e(k)]
      /\ requests[l] > 0 /\ requests' = [requests EXCEPT ![l] = @ - 1]
      /\ UNCHANGED <<decode, executing, next, dispatched, fetch_stall, resume, warm, failed>>
  BY DEF complete_instr_fetch
<1>2. Typed /\ Numbered /\ Flagged /\ StallMatchesBranch /\ WaitersAreAnswered /\ NoAssertionFails
  BY DEF IInv
<1>3. \A k \in 1 .. Len(ifetch) :
         /\ e(k) \in FetchEntry /\ e(k).instr = ifetch[k].instr
         /\ e(k).fetched = IF ifetch[k].instr.line = l THEN "COMPLETED" ELSE ifetch[k].fetched
  BY <1>2, Buffers DEF FetchEntry
<1> HIDE DEF e
<1>4. ifetch' = [k \in 1 .. Len(ifetch) |-> e(k)] /\ ifetch' \in Seq(FetchEntry)
  BY <1>1, <1>2, <1>3, Buffers, IsASeq
<1>5. Len(ifetch') = Len(ifetch) /\ DOMAIN ifetch' = 1 .. Len(ifetch)
  BY <1>2, <1>4, Buffers, LenProperties
<1>6. Typed'
  BY <1>1, <1>2, <1>4 DEF Typed
<1>7. Numbered'
  BY <1>1, <1>2, <1>3, <1>4, <1>5 DEF Numbered
<1>8. Held(ifetch)' = Held(ifetch) /\ Held(decode)' = Held(decode)
  BY <1>1, <1>2, <1>3, <1>4, <1>5, Buffers DEF Held
<1>9. Unresolved' = Unresolved
  BY <1>1, <1>8, UnresolvedHeld
<1>10. Flagged' /\ StallMatchesBranch'
  BY <1>1, <1>2, <1>9 DEF Flagged, StallMatchesBranch, Stalls, ResolvedAtDecode
<1>11. WaitersAreAnswered'
  BY <1>1, <1>2, <1>3, <1>4, <1>5, Buffers DEF WaitersAreAnswered, Typed, FetchEntry, Instruction
<1> QED
  BY <1>1, <1>2, <1>6, <1>7, <1>10, <1>11 DEF IInv, NoAssertionFails

LEMMA FetchStep ==
    ASSUME IInv, NEW due \in BOOLEAN, NEW accepted \in SUBSET Line, NEW merged \in SUBSET Line,
           fetch_instruction(due, accepted, merged)
    PROVE  IInv'
<1> DEFINE buffer == Requested(accepted)
           n == Fetched(buffer)
           moved == [k \in 1 .. n |-> [instr |-> buffer[k].instr, decoded |-> FALSE]]
           resumed == fetch_stall /\ resume /\ due
<1>1. /\ merged \subseteq {l \in accepted : requests[l] > 0}
      /\ fetch_stall' = (fetch_stall /\ ~ resumed)
      /\ resume' = (resume /\ ~ resumed)
      /\ requests' = [l \in Line |-> IF l \in accepted \ merged
                                     THEN requests[l] + 1 ELSE requests[l]]
      /\ ifetch' = SubSeq(buffer, n + 1, Len(buffer))
      /\ decode' = decode \o moved
      /\ UNCHANGED <<executing, next, dispatched, warm, failed>>
  BY DEF fetch_instruction
<1>2. Typed /\ Numbered /\ Flagged /\ StallMatchesBranch /\ WaitersAreAnswered /\ NoAssertionFails
  BY DEF IInv
<1>3. /\ buffer \in Seq(FetchEntry) /\ Len(buffer) = Len(ifetch) /\ Len(ifetch) \in Nat
      /\ \A k \in 1 .. Len(ifetch) :
            /\ buffer[k] \in FetchEntry
            /\ buffer[k].instr = ifetch[k].instr
            /\ buffer[k].fetched = IF ifetch[k].instr.line \in accepted THEN "INFLIGHT"
                                   ELSE ifetch[k].fetched
  <2> HIDE DEF buffer
  <2>1. /\ buffer \in Seq(FetchEntry) /\ Len(buffer) = Len(ifetch) /\ Len(ifetch) \in Nat
        /\ \A k \in 1 .. Len(ifetch) :
              /\ buffer[k].instr = ifetch[k].instr
              /\ buffer[k].fetched = IF ifetch[k].instr.line \in accepted THEN "INFLIGHT"
                                     ELSE ifetch[k].fetched
    BY <1>2, RequestedKeepsInstructions, Buffers DEF buffer
  <2> QED
    BY <2>1, ElementOfSeq
<1>4. n \in Nat /\ n <= Len(ifetch) /\ Len(decode) + n <= DECODE_SIZE
  <2> HIDE DEF buffer
  <2> QED
    BY <1>2, <1>3, FetchedBounds
<1> HIDE DEF buffer, n
<1>5. /\ moved \in Seq(DecodeEntry) /\ Len(moved) = n
      /\ \A k \in 1 .. n : moved[k].instr = ifetch[k].instr
  <2>1. \A k \in 1 .. n : [instr |-> buffer[k].instr, decoded |-> FALSE] \in DecodeEntry
    BY <1>3, <1>4 DEF FetchEntry, DecodeEntry
  <2>2. moved \in Seq(DecodeEntry)
    BY <1>4, <2>1, IsASeq
  <2>3. Len(moved) = n
    BY <1>4, <2>2, LenProperties
  <2> QED
    BY <1>3, <1>4, <2>2, <2>3
<1> HIDE DEF moved
<1>6. /\ ifetch' \in Seq(FetchEntry) /\ Len(ifetch') = Len(ifetch) - n
      /\ \A k \in 1 .. Len(ifetch) - n : ifetch'[k] = buffer[n + k]
  <2>1. \A k \in n + 1 .. Len(buffer) : buffer[k] \in FetchEntry
    BY <1>3, <1>4
  <2>2. /\ SubSeq(buffer, n + 1, Len(buffer)) \in Seq(FetchEntry)
        /\ Len(SubSeq(buffer, n + 1, Len(buffer))) =
              IF n + 1 <= Len(buffer) THEN Len(buffer) - (n + 1) + 1 ELSE 0
        /\ \A k \in 1 .. Len(buffer) - (n + 1) + 1 :
              SubSeq(buffer, n + 1, Len(buffer))[k] = buffer[n + 1 + k - 1]
    BY <1>3, <1>4, <2>1, SubSeqProperties
  <2> QED
    BY <1>1, <1>3, <1>4, <2>2
<1>7. \A k \in 1 .. Len(ifetch) - n :
         /\ n + k \in 1 .. Len(ifetch)
         /\ ifetch'[k].instr = ifetch[n + k].instr
         /\ ifetch'[k].fetched = IF ifetch[n + k].instr.line \in accepted THEN "INFLIGHT"
                                 ELSE ifetch[n + k].fetched
  BY <1>3, <1>4, <1>6
<1>8. /\ decode' \in Seq(DecodeEntry) /\ Len(decode') = Len(decode) + n
      /\ Len(decode) \in Nat
      /\ \A k \in 1 .. Len(decode) + n :
            decode'[k].instr = IF k <= Len(decode) THEN decode[k].instr
                               ELSE ifetch[k - Len(decode)].instr
  <2>1. /\ decode \o moved \in Seq(DecodeEntry)
        /\ Len(decode \o moved) = Len(decode) + Len(moved)
        /\ \A k \in 1 .. Len(decode) + Len(moved) :
              (decode \o moved)[k] = IF k <= Len(decode) THEN decode[k]
                                     ELSE moved[k - Len(decode)]
    BY <1>2, <1>5, ConcatProperties, Zenon DEF Typed
  <2>2. Len(decode) \in Nat
    BY <1>2, Buffers
  <2> QED
    BY <1>1, <1>4, <1>5, <2>1, <2>2
<1>9. Typed'
  <2>1. requests' \in [Line -> Nat]
    BY <1>1, <1>2 DEF Typed
  <2> QED
    BY <1>1, <1>2, <1>4, <1>6, <1>8, <2>1 DEF Typed
<1>10. Numbered'
  <2>1. next' = dispatched' + Len(decode') + Len(ifetch')
    <3>1. /\ Len(ifetch) \in Nat /\ Len(decode) \in Nat
          /\ Len(ifetch') = Len(ifetch) - n /\ Len(decode') = Len(decode) + n
      BY <1>3, <1>6, <1>8
    <3>2. /\ next = dispatched + Len(decode) + Len(ifetch) /\ dispatched \in Nat
          /\ next' = next /\ dispatched' = dispatched
      BY <1>1, <1>2 DEF Numbered, Typed
    <3> QED
      BY <1>4, <3>1, <3>2
  <2>2. \A k \in 1 .. Len(ifetch') :
           ifetch'[k].instr.instr_id = dispatched' + Len(decode') + k - 1
    <3> TAKE k \in 1 .. Len(ifetch')
    <3>1. ifetch[n + k].instr.instr_id = dispatched + Len(decode) + (n + k) - 1
      BY <1>2, <1>6, <1>7 DEF Numbered
    <3>2. /\ dispatched \in Int /\ dispatched' = dispatched
          /\ ifetch'[k].instr = ifetch[n + k].instr
          /\ Len(decode) \in Nat /\ Len(decode') = Len(decode) + n
      BY <1>1, <1>2, <1>4, <1>6, <1>7, <1>8 DEF Typed
    <3> QED
      BY <1>4, <3>1, <3>2
  <2>3. \A k \in 1 .. Len(decode') : decode'[k].instr.instr_id = dispatched' + k - 1
    <3> TAKE k \in 1 .. Len(decode')
    <3>1. CASE k <= Len(decode)
      <4>1. k \in 1 .. Len(decode) /\ decode'[k].instr = decode[k].instr
        BY <1>3, <1>4, <1>8, <3>1
      <4>2. decode[k].instr.instr_id = dispatched + k - 1
        BY <1>2, <4>1 DEF Numbered
      <4>3. dispatched' = dispatched
        BY <1>1
      <4> QED
        BY <4>1, <4>2, <4>3
    <3>2. CASE ~ (k <= Len(decode))
      <4>1. k - Len(decode) \in 1 .. Len(ifetch)
        BY <1>3, <1>4, <1>8, <3>2
      <4>2. ifetch[k - Len(decode)].instr.instr_id =
               dispatched + Len(decode) + (k - Len(decode)) - 1
        BY <1>2, <4>1 DEF Numbered
      <4>3. decode'[k].instr = ifetch[k - Len(decode)].instr
        BY <1>8, <3>2
      <4>4. dispatched \in Int /\ dispatched' = dispatched /\ Len(decode) \in Int /\ k \in Int
        BY <1>1, <1>2, <1>8 DEF Typed
      <4> QED
        BY <4>2, <4>3, <4>4
    <3> QED
      BY <3>1, <3>2
  <2> QED
    BY <1>1, <1>2, <2>1, <2>2, <2>3 DEF Numbered
<1>11. Held(ifetch)' \cup Held(decode)' = Held(ifetch) \cup Held(decode)
  <2>1. /\ DOMAIN ifetch = 1 .. Len(ifetch) /\ DOMAIN decode = 1 .. Len(decode)
        /\ DOMAIN ifetch' = 1 .. Len(ifetch) - n /\ DOMAIN decode' = 1 .. Len(decode) + n
    BY <1>2, <1>6, <1>8, Buffers, LenProperties
  <2>2. Held(ifetch)' \subseteq Held(ifetch)
    BY <1>7, <2>1 DEF Held
  <2>3. Held(decode)' \subseteq Held(ifetch) \cup Held(decode)
    <3> SUFFICES ASSUME NEW k \in 1 .. Len(decode) + n
                 PROVE  decode'[k].instr \in Held(ifetch) \cup Held(decode)
      BY <2>1 DEF Held
    <3>1. CASE k <= Len(decode)
      <4>1. decode'[k].instr = decode[k].instr /\ k \in DOMAIN decode
        BY <1>4, <1>8, <2>1, <3>1
      <4> QED
        BY <4>1 DEF Held
    <3>2. CASE ~ (k <= Len(decode))
      <4>1. k - Len(decode) \in 1 .. Len(ifetch)
        BY <1>3, <1>4, <1>8, <3>2
      <4> QED
        BY <1>8, <2>1, <3>2, <4>1 DEF Held
    <3> QED
      BY <3>1, <3>2
  <2>4. Held(decode) \subseteq Held(decode)'
    <3> SUFFICES ASSUME NEW k \in 1 .. Len(decode)
                 PROVE  decode[k].instr \in Held(decode)'
      BY <2>1 DEF Held
    <3>1. k \in 1 .. Len(decode) + n /\ k <= Len(decode)
      BY <1>4, <1>8
    <3> QED
      BY <1>8, <2>1, <3>1 DEF Held
  <2>5. Held(ifetch) \subseteq Held(ifetch)' \cup Held(decode)'
    <3> SUFFICES ASSUME NEW k \in 1 .. Len(ifetch)
                 PROVE  ifetch[k].instr \in Held(ifetch)' \cup Held(decode)'
      BY <2>1 DEF Held
    <3>1. CASE k <= n
      <4>1. /\ Len(decode) + k \in 1 .. Len(decode) + n
            /\ ~ (Len(decode) + k <= Len(decode)) /\ (Len(decode) + k) - Len(decode) = k
        BY <1>4, <1>8, <3>1
      <4> QED
        BY <1>8, <2>1, <4>1 DEF Held
    <3>2. CASE ~ (k <= n)
      <4>1. k - n \in 1 .. Len(ifetch) - n /\ n + (k - n) = k
        BY <1>3, <1>4, <3>2
      <4>2. ifetch'[k - n].instr = ifetch[k].instr
        BY <1>7, <4>1
      <4> QED
        BY <2>1, <4>1, <4>2 DEF Held
    <3> QED
      BY <3>1, <3>2
  <2> QED
    BY <2>2, <2>3, <2>4, <2>5
<1>12. Unresolved' = Unresolved
  BY <1>1, <1>11, UnresolvedHeld
<1>13. Flagged'
  BY <1>1, <1>2, <1>12 DEF Flagged, Stalls, ResolvedAtDecode
<1>14. StallMatchesBranch'
  BY <1>1, <1>2, <1>12 DEF StallMatchesBranch, Typed
<1>15. WaitersAreAnswered'
  <2>1. /\ DOMAIN ifetch = 1 .. Len(ifetch) /\ DOMAIN ifetch' = 1 .. Len(ifetch) - n
    BY <1>2, <1>6, Buffers, LenProperties
  <2>2. \A l \in Line : /\ requests[l] \in Nat /\ requests'[l] \in Nat
                        /\ requests'[l] >= requests[l]
                        /\ l \in accepted => requests'[l] > 0
    BY <1>1, <1>2 DEF Typed
  <2>3. \A k \in 1 .. Len(ifetch) : ifetch[k].instr.line \in Line
    BY <1>2, Buffers DEF FetchEntry, Instruction
  <2> SUFFICES ASSUME NEW k \in 1 .. Len(ifetch) - n, ifetch'[k].fetched = "INFLIGHT"
               PROVE  requests'[ifetch'[k].instr.line] > 0
    BY <2>1 DEF WaitersAreAnswered
  <2> DEFINE l == ifetch[n + k].instr.line
  <2>4. l \in Line /\ ifetch'[k].instr.line = l /\ n + k \in 1 .. Len(ifetch)
    BY <1>7, <2>3
  <2> HIDE DEF l
  <2>5. CASE l \in accepted
    BY <2>2, <2>4, <2>5
  <2>6. CASE l \notin accepted
    <3>1. ifetch[n + k].fetched = "INFLIGHT"
      BY <1>7, <2>6 DEF l
    <3>2. requests[l] > 0
      BY <1>2, <2>1, <2>4, <3>1 DEF WaitersAreAnswered, l
    <3> QED
      BY <2>2, <2>4, <3>2
  <2> QED
    BY <2>5, <2>6
<1> QED
  BY <1>1, <1>2, <1>9, <1>10, <1>13, <1>14, <1>15 DEF IInv, NoAssertionFails

LEMMA DispatchStep ==
    ASSUME IInv, NEW n \in 0 .. DECODE_WIDTH, decode_and_dispatch(n)
    PROVE  IInv'
<1> DEFINE gone == {decode[k].instr : k \in 1 .. n}
           rest == SubSeq(decode, n + 1, Len(decode))
<1>1. /\ n <= Len(decode)
      /\ decode' = Decoded(rest)
      /\ executing' = executing \cup {i \in {Resolve(j) : j \in gone} : Stalls(i)}
      /\ resume' = (resume \/ (warm /\ \E i \in gone : ResolvedAtDecode(i)))
      /\ dispatched' = dispatched + n
      /\ UNCHANGED <<ifetch, next, fetch_stall, requests, warm, failed>>
  BY DEF decode_and_dispatch
<1>2. Typed /\ Numbered /\ Flagged /\ StallMatchesBranch /\ WaitersAreAnswered /\ NoAssertionFails
  BY DEF IInv
<1>3. n \in Nat /\ Len(decode) \in Nat /\ dispatched \in Nat /\ next \in Nat
  BY <1>2, Buffers, FrontendAssumption DEF Typed
<1>4. /\ rest \in Seq(DecodeEntry) /\ Len(rest) = Len(decode) - n
      /\ \A k \in 1 .. Len(decode) - n : rest[k] = decode[n + k]
  <2>1. \A k \in n + 1 .. Len(decode) : decode[k] \in DecodeEntry
    BY <1>2, <1>3, Buffers
  <2>2. /\ rest \in Seq(DecodeEntry)
        /\ Len(rest) = IF n + 1 <= Len(decode) THEN Len(decode) - (n + 1) + 1 ELSE 0
        /\ \A k \in 1 .. Len(decode) - (n + 1) + 1 : rest[k] = decode[n + 1 + k - 1]
    BY <1>3, <2>1, SubSeqProperties
  <2> QED
    BY <1>1, <1>3, <2>2
<1> HIDE DEF rest
<1>5. /\ decode' \in Seq(DecodeEntry) /\ Len(decode') = Len(decode) - n
      /\ \A k \in 1 .. Len(decode) - n :
            n + k \in 1 .. Len(decode) /\ decode'[k].instr = decode[n + k].instr
  BY <1>1, <1>3, <1>4, DecodedKeepsInstructions
<1>6. \A k \in 1 .. n : k \in 1 .. Len(decode) /\ decode[k].instr \in Instruction
  BY <1>1, <1>2, <1>3, Buffers DEF DecodeEntry
<1>7. gone \subseteq Instruction
  BY <1>6
<1>8. \A j \in gone : dispatched <= j.instr_id /\ j.instr_id < dispatched + n
  BY <1>2, <1>3, <1>6 DEF Numbered
<1>9. \A j \in Instruction : /\ Resolve(j) \in Instruction
                             /\ Resolve(j).instr_id = j.instr_id
                             /\ Stalls(Resolve(j)) <=> Stalls(j) /\ ~ ResolvedAtDecode(j)
                             /\ ~ ResolvedAtDecode(j) => Resolve(j) = j
  BY DEF Resolve, Stalls, ResolvedAtDecode, Instruction
<1>10. Typed'
  <2>1. executing' \subseteq Instruction
    BY <1>1, <1>2, <1>7, <1>9 DEF Typed
  <2>2. Len(decode') <= DECODE_SIZE
    <3>1. Len(decode) <= DECODE_SIZE /\ DECODE_SIZE \in Nat
      BY <1>2, FrontendAssumption DEF Typed
    <3> QED
      BY <1>3, <1>5, <3>1
  <2>3. dispatched' \in Nat
    BY <1>1, <1>3
  <2> QED
    BY <1>1, <1>2, <1>5, <2>1, <2>2, <2>3 DEF Typed
<1>11. Numbered'
  <2>1. next' = dispatched' + Len(decode') + Len(ifetch')
    <3>1. next = dispatched + Len(decode) + Len(ifetch) /\ Len(ifetch) \in Nat
      BY <1>2, Buffers DEF Numbered
    <3>2. next' = next /\ dispatched' = dispatched + n /\ ifetch' = ifetch
          /\ Len(decode') = Len(decode) - n
      BY <1>1, <1>5
    <3> QED
      BY <1>3, <3>1, <3>2
  <2>2. \A k \in 1 .. Len(decode') : decode'[k].instr.instr_id = dispatched' + k - 1
    <3> TAKE k \in 1 .. Len(decode')
    <3>1. n + k \in 1 .. Len(decode) /\ decode'[k].instr = decode[n + k].instr
      BY <1>5
    <3>2. decode[n + k].instr.instr_id = dispatched + (n + k) - 1
      BY <1>2, <3>1 DEF Numbered
    <3> QED
      BY <1>1, <1>3, <1>5, <3>1, <3>2
  <2>3. \A k \in 1 .. Len(ifetch') :
           ifetch'[k].instr.instr_id = dispatched' + Len(decode') + k - 1
    <3>1. dispatched' + Len(decode') = dispatched + Len(decode)
      BY <1>1, <1>3, <1>5
    <3> QED
      BY <1>1, <1>2, <3>1 DEF Numbered
  <2>4. \A i \in executing' : i.instr_id < dispatched'
    <3> TAKE i \in executing'
    <3>1. CASE i \in executing
      BY <1>1, <1>2, <1>3, <3>1 DEF Numbered, Typed, Instruction
    <3>2. CASE \E j \in gone : i = Resolve(j)
      BY <1>1, <1>7, <1>8, <1>9, <3>2
    <3> QED
      BY <1>1, <3>1, <3>2
  <2> QED
    BY <2>1, <2>2, <2>3, <2>4 DEF Numbered
<1>12. Held(decode) = gone \cup Held(decode)' /\ Held(ifetch)' = Held(ifetch)
  <2>1. DOMAIN decode = 1 .. Len(decode) /\ DOMAIN decode' = 1 .. Len(decode) - n
    BY <1>2, <1>5, Buffers, LenProperties
  <2>2. gone \cup Held(decode)' \subseteq Held(decode)
    BY <1>5, <1>6, <2>1 DEF Held
  <2>3. Held(decode) \subseteq gone \cup Held(decode)'
    <3> SUFFICES ASSUME NEW k \in 1 .. Len(decode)
                 PROVE  decode[k].instr \in gone \cup Held(decode)'
      BY <2>1 DEF Held
    <3>1. CASE k <= n
      BY <1>3, <3>1
    <3>2. CASE ~ (k <= n)
      <4>1. k - n \in 1 .. Len(decode) - n /\ n + (k - n) = k
        BY <1>3, <3>2
      <4>2. decode'[k - n].instr = decode[k].instr
        BY <1>5, <4>1
      <4> QED
        BY <2>1, <4>1, <4>2 DEF Held
    <3> QED
      BY <3>1, <3>2
  <2> QED
    BY <1>1, <2>2, <2>3 DEF Held
<1>13. WaitersAreAnswered'
  BY <1>1, <1>2 DEF WaitersAreAnswered
<1> HIDE DEF gone
<1>14. CASE \A j \in gone : ~ Stalls(j)
  <2>1. executing' = executing /\ resume' = resume
    <3>1. \A j \in gone : ~ ResolvedAtDecode(j) /\ ~ Stalls(Resolve(j))
      BY <1>7, <1>9, <1>14 DEF ResolvedAtDecode, Stalls
    <3>2. executing' = executing
      BY <1>1, <3>1
    <3>3. resume' = (resume \/ FALSE)
      BY <1>1, <3>1
    <3> QED
      BY <1>2, <3>2, <3>3 DEF Typed
  <2>2. Unresolved' = Unresolved
    BY <1>12, <1>14, <2>1, UnresolvedHeld
  <2>3. Flagged' /\ StallMatchesBranch'
    BY <1>1, <1>2, <2>1, <2>2 DEF Flagged, StallMatchesBranch, Stalls, ResolvedAtDecode
  <2> QED
    BY <1>1, <1>2, <1>10, <1>11, <1>13, <2>3 DEF IInv, NoAssertionFails
<1>15. CASE \E j \in gone : Stalls(j)
  <2>1. PICK b \in gone : Stalls(b)
    BY <1>15
  <2>2. /\ b \in Unresolved /\ b.instr_id = next - 1 /\ warm
        /\ fetch_stall /\ ~ resume
    <3>1. b \in Unresolved
      BY <1>12, <2>1, UnresolvedHeld
    <3> QED
      BY <1>2, <3>1 DEF Flagged, StallMatchesBranch
  <2>3. executing = {}
    <3>1. \A i \in executing : i \in Unresolved /\ i.instr_id = next - 1
      BY <1>2, UnresolvedHeld DEF Flagged, StallMatchesBranch
    <3> QED
      BY <1>2, <1>3, <1>8, <2>2, <3>1 DEF Numbered
  (* Nothing flagged is left in the buffers, and no other is dispatched. *)
  <2>4. next' = dispatched' /\ Held(decode)' = {} /\ Held(ifetch)' = {}
    <3>1. next < dispatched + n + 1
      BY <1>3, <1>8, <2>2
    <3>2. next = dispatched + Len(decode) + Len(ifetch) /\ Len(ifetch) \in Nat
      BY <1>2, Buffers DEF Numbered
    <3>3. Len(decode) = n /\ Len(ifetch) = 0 /\ next = dispatched + n
      BY <1>1, <1>3, <3>1, <3>2
    <3>4. Len(decode') = 0 /\ Len(ifetch') = 0 /\ next' = dispatched'
      BY <1>1, <1>3, <1>5, <3>3
    <3>5. decode' = <<>> /\ ifetch' = <<>>
      BY <1>10, <3>4, EmptySeq DEF Typed
    <3> QED
      BY <3>4, <3>5 DEF Held
  <2>5. \A j \in gone : Stalls(j) => j = b
    <3> SUFFICES ASSUME NEW j \in gone, Stalls(j) PROVE j = b
      OBVIOUS
    <3>1. j.instr_id = next - 1
      BY <1>2, <1>12, UnresolvedHeld DEF StallMatchesBranch
    <3>2. PICK p \in 1 .. n : j = decode[p].instr
      BY DEF gone
    <3>3. PICK q \in 1 .. n : b = decode[q].instr
      BY DEF gone
    <3>4. dispatched + p - 1 = dispatched + q - 1
      BY <1>2, <1>6, <2>2, <3>1, <3>2, <3>3 DEF Numbered
    <3>5. p = q
      BY <1>3, <3>4
    <3> QED
      BY <3>2, <3>3, <3>5
  <2>6. CASE ResolvedAtDecode(b)
    <3>1. executing' = {} /\ resume'
      <4>1. \A j \in gone : ~ Stalls(Resolve(j))
        BY <1>7, <1>9, <2>5, <2>6
      <4> QED
        BY <1>1, <2>1, <2>2, <2>3, <2>6, <4>1
    <3>2. Unresolved' = {}
      BY <2>4, <3>1, UnresolvedHeld
    <3>3. Flagged' /\ StallMatchesBranch'
      BY <1>1, <2>2, <3>1, <3>2 DEF Flagged, StallMatchesBranch
    <3> QED
      BY <1>1, <1>2, <1>10, <1>11, <1>13, <3>3 DEF IInv, NoAssertionFails
  <2>7. CASE ~ ResolvedAtDecode(b)
    <3>1. executing' = {b} /\ ~ resume'
      <4>1. \A j \in gone : Stalls(Resolve(j)) <=> j = b
        BY <1>7, <1>9, <2>1, <2>5, <2>7
      <4>2. \A j \in gone : ~ ResolvedAtDecode(j)
        BY <2>5, <2>7 DEF ResolvedAtDecode, Stalls
      <4>3. Resolve(b) = b
        BY <1>7, <1>9, <2>7
      <4> QED
        BY <1>1, <2>1, <2>2, <2>3, <4>1, <4>2, <4>3
    <3>2. Unresolved' = {b}
      BY <2>1, <2>4, <3>1, UnresolvedHeld
    <3>3. Flagged'
      BY <1>1, <2>1, <2>2, <2>7, <3>1, <3>2 DEF Flagged, Stalls, ResolvedAtDecode
    <3>4. StallMatchesBranch'
      BY <1>1, <2>2, <3>1, <3>2 DEF StallMatchesBranch
    <3> QED
      BY <1>1, <1>2, <1>10, <1>11, <1>13, <3>3, <3>4 DEF IInv, NoAssertionFails
  <2> QED
    BY <2>6, <2>7
<1> QED
  BY <1>14, <1>15

LEMMA ExecutionStep ==
    ASSUME IInv, NEW i \in executing, complete_execution(i)
    PROVE  IInv'
<1>1. /\ executing' = executing \ {i}
      /\ resume' = (resume \/ warm)
      /\ failed' = failed \cup (IF ResolvedAtDecode(i) THEN {"branch_type"} ELSE {})
      /\ UNCHANGED <<ifetch, decode, next, dispatched, fetch_stall, requests, warm>>
  BY DEF complete_execution
<1>2. Typed /\ Numbered /\ Flagged /\ StallMatchesBranch /\ WaitersAreAnswered /\ NoAssertionFails
  BY DEF IInv
<1>3. /\ i \in Unresolved /\ i.instr_id = next - 1 /\ warm /\ fetch_stall /\ ~ resume
      /\ ~ ResolvedAtDecode(i)
  <2>1. i \in Unresolved
    BY <1>2, UnresolvedHeld DEF Flagged
  <2> QED
    BY <1>2, <2>1 DEF Flagged, StallMatchesBranch
<1>4. executing' = {} /\ resume' /\ failed' = {}
  BY <1>1, <1>2, <1>3 DEF Flagged, NoAssertionFails
(* The branch was the last instruction read, so the buffers are empty. *)
<1>5. Held(ifetch)' = {} /\ Held(decode)' = {}
  <2>1. i.instr_id < dispatched /\ dispatched \in Nat /\ next \in Nat
        /\ next = dispatched + Len(decode) + Len(ifetch)
        /\ Len(ifetch) \in Nat /\ Len(decode) \in Nat
    BY <1>2, Buffers DEF Numbered, Typed
  <2>2. Len(ifetch) = 0 /\ Len(decode) = 0
    BY <1>3, <2>1
  <2>3. ifetch' = <<>> /\ decode' = <<>>
    BY <1>1, <1>2, <2>2, EmptySeq DEF Typed
  <2> QED
    BY <2>3 DEF Held
<1>6. Unresolved' = {}
  BY <1>4, <1>5, UnresolvedHeld
<1>7. Typed' /\ Numbered'
  BY <1>1, <1>2, <1>4 DEF Typed, Numbered
<1>8. Flagged' /\ StallMatchesBranch' /\ WaitersAreAnswered'
  BY <1>1, <1>2, <1>3, <1>4, <1>6 DEF Flagged, StallMatchesBranch, WaitersAreAnswered
<1> QED
  BY <1>4, <1>7, <1>8 DEF IInv, NoAssertionFails

LEMMA WarmupStep ==
    ASSUME IInv, WarmupComplete
    PROVE  IInv'
<1>1. /\ warm' = TRUE
      /\ UNCHANGED <<ifetch, decode, executing, next, dispatched, fetch_stall, resume,
                     requests, failed>>
  BY DEF WarmupComplete
<1>2. Unresolved' = Unresolved
  BY <1>1 DEF Unresolved, Stalls
<1> QED
  BY <1>1, <1>2 DEF IInv, Typed, Numbered, Flagged, StallMatchesBranch, WaitersAreAnswered,
                    NoAssertionFails, Stalls, ResolvedAtDecode

LEMMA NextStep == IInv /\ [Next]_vars => IInv'
<1> SUFFICES ASSUME IInv, [Next]_vars PROVE IInv'
  OBVIOUS
<1>1. CASE \E line \in Line, mispredicted, btb_miss, direct \in BOOLEAN :
              read_from_trace(line, mispredicted, btb_miss, direct)
  BY <1>1, ReadStep
<1>2. CASE \E due \in BOOLEAN, accepted, merged \in SUBSET Line :
              fetch_instruction(due, accepted, merged)
  BY <1>2, FetchStep
<1>3. CASE \E l \in Line : complete_instr_fetch(l)
  BY <1>3, CompleteFetchStep
<1>4. CASE \E n \in 0 .. DECODE_WIDTH : decode_and_dispatch(n)
  BY <1>4, DispatchStep
<1>5. CASE \E i \in executing : complete_execution(i)
  BY <1>5, ExecutionStep
<1>6. CASE WarmupComplete
  BY <1>6, WarmupStep
<1>7. CASE UNCHANGED vars
  <2>1. Unresolved' = Unresolved
    BY <1>7 DEF vars, Unresolved, Stalls
  <2> QED
    BY <1>7, <2>1 DEF vars, IInv, Typed, Numbered, Flagged, StallMatchesBranch,
                      WaitersAreAnswered, NoAssertionFails, Stalls, ResolvedAtDecode
<1> QED
  BY <1>1, <1>2, <1>3, <1>4, <1>5, <1>6, <1>7 DEF Next

LEMMA IInvHolds == Spec => []IInv
  BY InitIInv, NextStep, PTL DEF Spec

(* What has been read of the trace and not been dispatched is in the       *)
(* decode and fetch buffers, in order, without a gap: read_from_trace,     *)
(* fetch_instruction and decode_and_dispatch lose and double nothing.      *)
THEOREM TraceOrderKept == Spec => []InTraceOrder
<1>1. IInv => InTraceOrder
  BY NumberedIsInTraceOrder DEF IInv
<1> QED
  BY <1>1, IInvHolds, PTL

(* fetch_stall is set, with no resume cycle to come, exactly while a       *)
(* mispredicted branch or one the BTB did not know is unresolved, and that *)
(* branch is the last instruction read_from_trace took.                    *)
THEOREM StallsMatch == Spec => []StallMatchesBranch
<1>1. IInv => StallMatchesBranch
  BY DEF IInv
<1> QED
  BY <1>1, IInvHolds, PTL

(* The assertion of complete_execution on the branch's type never fails:   *)
(* decode has resolved the branches it can.                                *)
THEOREM BranchTypesHold == Spec => []NoAssertionFails
<1>1. IInv => NoAssertionFails
  BY DEF IInv
<1> QED
  BY <1>1, IInvHolds, PTL

(* An entry of IFETCH_BUFFER that is marked in flight has an answer of the *)
(* L1I coming, however requests for its line overlapped.                   *)
THEOREM FetchesAreAnswered == Spec => []WaitersAreAnswered
<1>1. IInv => WaitersAreAnswered
  BY DEF IInv
<1> QED
  BY <1>1, IInvHolds, PTL

(* Reading goes on only when nothing is in doubt: the step of              *)
(* fetch_instruction that ends a stall finds the resume cycle set and no   *)
(* unresolved branch, in the buffers or in the ROB.                        *)
StallEndsResolved == [][fetch_stall /\ ~ fetch_stall' => Unresolved = {} /\ resume]_vars

(* The branch that stopped the reading has been resolved by the time       *)
(* fetch_instruction lets it go on.                                        *)
THEOREM StallsEndResolved == Spec => StallEndsResolved
<1>1. IInv /\ [Next]_vars => [fetch_stall /\ ~ fetch_stall' => Unresolved = {} /\ resume]_vars
  <2> SUFFICES ASSUME IInv, Next, fetch_stall, ~ fetch_stall'
               PROVE  Unresolved = {} /\ resume
    OBVIOUS
  <2>1. PICK due \in BOOLEAN, accepted \in SUBSET Line, merged \in SUBSET Line :
           fetch_instruction(due, accepted, merged)
    BY DEF Next, read_from_trace, complete_instr_fetch, decode_and_dispatch,
           complete_execution, WarmupComplete
  <2>2. resume
    BY <2>1 DEF fetch_instruction
  <2> QED
    BY <2>2 DEF IInv, StallMatchesBranch
<1> QED
  BY <1>1, IInvHolds, PTL DEF Spec, StallEndsResolved
=============================================================================
