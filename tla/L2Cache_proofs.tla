--------------------------- MODULE L2Cache_proofs ---------------------------
(***************************************************************************)
(* Proofs about L2Cache for every number of lines and ways and every size  *)
(* of the queues and MSHRs that inc/cache.h allows.  RQ, PQ and MSHR are   *)
(* seen as sets of packets with distinct lines; the inductive invariant    *)
(* says what flags the packets of each may have, whom each of them will    *)
(* answer, and how much the clients may have outstanding.                  *)
(***************************************************************************)
EXTENDS L2Cache, FiniteSetTheorems, SequenceTheorems, TLAPS

AnyLine == Line \cup PageTable

(* Whom a packet answers, by its flags alone *)
Owes(p, c) ==
    IF p.type = "TRANSLATION" THEN c = "PTW"
    ELSE \/ c = "L1I" /\ (p.send_both_cache \/ p.fill_l1i)
         \/ c = "L1D" /\ (p.send_both_cache \/ p.fill_l1d)

(* The packets that RQ, PQ and MSHR may hold *)
DemandPacket ==
    {p \in Packet :
        /\ p.fill_level = 1 /\ p.returned = "INFLIGHT"
        /\ \/ p.type = "TRANSLATION" /\ p.line \in PageTable
           \/ /\ p.type = "LOAD" /\ p.line \in Line
              /\ \/ p.send_both_cache
                 \/ p.instruction /\ p.fill_l1i /\ ~ p.fill_l1d
                 \/ ~ p.instruction /\ ~ p.fill_l1i /\ p.fill_l1d}

PrefetchPacket ==
    {p \in Packet :
        /\ p.type = "PREFETCH" /\ p.returned = "INFLIGHT"
        /\ ~ p.send_both_cache
        /\ p.fill_level = 1 <=> p.fill_l1i \/ p.fill_l1d
        /\ p.fill_level = 1 => p.line \in Line}

Entry ==
    {p \in Packet :
        \/ p.type = "TRANSLATION" /\ p.line \in PageTable /\ p.fill_level = 1
        \/ /\ p.type = "LOAD" /\ p.line \in Line /\ p.fill_level = 1
           /\ p.send_both_cache \/ p.fill_l1i \/ p.fill_l1d
        \/ /\ p.type = "PREFETCH" /\ ~ p.send_both_cache
           /\ p.fill_level = 1 <=> p.fill_l1i \/ p.fill_l1d
           /\ p.fill_level = 1 => p.line \in Line}

Distinct(S) == \A m, n \in S : m.line = n.line => m = n

(* A packet of S will answer client c's request for x. *)
Owed(S, c, x) == \E p \in S : p.line = x /\ Owes(p, c)

Held ==
    /\ Range(rq) \subseteq DemandPacket
    /\ Range(pq) \subseteq PrefetchPacket
    /\ mshr \subseteq Entry /\ IsFiniteSet(mshr)

OwedParts(R, P, M, W) ==
    \A c \in Client, x \in AnyLine :
        /\ x \in W[c] <=> Owed(R, c, x) \/ Owed(P, c, x) \/ Owed(M, c, x)
        /\ ~ (Owed(R, c, x) /\ Owed(P, c, x))
        /\ ~ (Owed(R, c, x) /\ Owed(M, c, x))
        /\ ~ (Owed(P, c, x) /\ Owed(M, c, x))

OwedInOnePlace == OwedParts(Range(rq), Range(pq), mshr, waiting)

(* No client has more outstanding than its MSHR holds. *)
ClientsBounded ==
    /\ Cardinality(waiting["L1I"]) <= L1I_MSHR_SIZE
    /\ Cardinality(waiting["L1D"]) <= L1D_MSHR_SIZE
    /\ Cardinality(waiting["PTW"]) <= 1

IInv == /\ TypeOK /\ Held /\ OwedInOnePlace /\ ClientsBounded
        /\ RequestsMatchMshr /\ ModifiedKept /\ NoAssertionFails

-----------------------------------------------------------------------------
(* Queues as sets of packets.                                              *)

(* A queue holds each line at most once. *)
NoLineTwice(q) == \A i, j \in DOMAIN q : q[i].line = q[j].line => i = j

(* The elements of a sequence *)
LEMMA SeqFacts ==
    ASSUME NEW S, NEW q \in Seq(S)
    PROVE  /\ Len(q) \in Nat /\ DOMAIN q = 1 .. Len(q)
           /\ Range(q) = {q[i] : i \in 1 .. Len(q)}
           /\ \A i \in 1 .. Len(q) : q[i] \in S /\ q[i] \in Range(q)
           /\ Range(q) \subseteq S
           /\ q # <<>> => Len(q) > 0
<1>1. Len(q) \in Nat /\ DOMAIN q = 1 .. Len(q) /\ q \in [1 .. Len(q) -> S]
  BY LenProperties
<1>2. Range(q) = {q[i] : i \in 1 .. Len(q)}
  BY <1>1 DEF Range
<1>3. q # <<>> => Len(q) > 0
  BY EmptySeq
<1> QED
  BY <1>1, <1>2, <1>3

(* Their packets have distinct lines. *)
LEMMA DistinctRange ==
    ASSUME NEW q \in Seq(Packet), NoLineTwice(q)
    PROVE  Distinct(Range(q))
  BY SeqFacts DEF Distinct, NoLineTwice

(* Taking the head away *)
LEMMA TailRemoves ==
    ASSUME NEW q \in Seq(Packet), NoLineTwice(q), q # <<>>
    PROVE  /\ Tail(q) \in Seq(Packet) /\ Len(Tail(q)) = Len(q) - 1
           /\ NoLineTwice(Tail(q))
           /\ Head(q) \in Range(q) /\ Head(q) \in Packet
           /\ Range(Tail(q)) = Range(q) \ {Head(q)}
<1>1. /\ Len(q) \in Nat /\ Len(q) > 0 /\ DOMAIN q = 1 .. Len(q)
      /\ Range(q) = {q[i] : i \in 1 .. Len(q)}
      /\ \A i \in 1 .. Len(q) : q[i] \in Packet
  BY SeqFacts
<1>2. Head(q) = q[1]
  OBVIOUS
<1>3. /\ Tail(q) \in Seq(Packet) /\ Len(Tail(q)) = Len(q) - 1
      /\ \A i \in 1 .. Len(q) - 1 : Tail(q)[i] = q[i + 1]
  BY HeadTailProperties, <1>1
<1>4. /\ DOMAIN Tail(q) = 1 .. Len(q) - 1
      /\ Range(Tail(q)) = {Tail(q)[i] : i \in 1 .. Len(q) - 1}
  BY <1>3, SeqFacts
<1>5. NoLineTwice(Tail(q))
  <2> SUFFICES ASSUME NEW i \in 1 .. Len(q) - 1, NEW j \in 1 .. Len(q) - 1,
                      Tail(q)[i].line = Tail(q)[j].line
               PROVE  i = j
    BY <1>4 DEF NoLineTwice
  <2>1. i + 1 \in 1 .. Len(q) /\ j + 1 \in 1 .. Len(q) /\ q[i + 1].line = q[j + 1].line
    BY <1>1, <1>3
  <2>2. i + 1 = j + 1
    BY <1>1, <2>1 DEF NoLineTwice
  <2> QED
    BY <2>2
<1>6. Range(Tail(q)) \subseteq Range(q) \ {Head(q)}
  <2> SUFFICES ASSUME NEW i \in 1 .. Len(q) - 1
               PROVE  Tail(q)[i] \in Range(q) \ {Head(q)}
    BY <1>4
  <2>1. i + 1 \in 1 .. Len(q) /\ Tail(q)[i] = q[i + 1] /\ 1 \in 1 .. Len(q) /\ i + 1 # 1
    BY <1>1, <1>3
  <2>2. q[i + 1].line # q[1].line
    BY <1>1, <2>1 DEF NoLineTwice
  <2> QED
    BY <1>1, <1>2, <2>1, <2>2
<1>7. Range(q) \ {Head(q)} \subseteq Range(Tail(q))
  <2> SUFFICES ASSUME NEW i \in 1 .. Len(q), q[i] # Head(q)
               PROVE  q[i] \in Range(Tail(q))
    BY <1>1
  <2>1. i - 1 \in 1 .. Len(q) - 1 /\ (i - 1) + 1 = i
    BY <1>1, <1>2
  <2> QED
    BY <1>3, <1>4, <2>1
<1> QED
  BY <1>1, <1>2, <1>3, <1>5, <1>6, <1>7

(* Appending a packet for a line the queue does not hold *)
LEMMA AppendAdds ==
    ASSUME NEW q \in Seq(Packet), NoLineTwice(q), NEW p \in Packet, InQueue(q, p.line) = {}
    PROVE  /\ Append(q, p) \in Seq(Packet) /\ Len(Append(q, p)) = Len(q) + 1
           /\ NoLineTwice(Append(q, p))
           /\ Range(Append(q, p)) = Range(q) \cup {p}
<1>1. /\ Len(q) \in Nat /\ DOMAIN q = 1 .. Len(q)
      /\ Range(q) = {q[i] : i \in 1 .. Len(q)}
      /\ \A i \in 1 .. Len(q) : q[i].line # p.line
  BY SeqFacts DEF InQueue
<1>2. /\ Append(q, p) \in Seq(Packet) /\ Len(Append(q, p)) = Len(q) + 1
      /\ \A i \in 1 .. Len(q) : Append(q, p)[i] = q[i]
      /\ Append(q, p)[Len(q) + 1] = p
  BY AppendProperties
<1>3. /\ DOMAIN Append(q, p) = 1 .. Len(q) + 1
      /\ Range(Append(q, p)) = {Append(q, p)[i] : i \in 1 .. Len(q) + 1}
  BY <1>2, SeqFacts
<1>4. 1 .. Len(q) + 1 = (1 .. Len(q)) \cup {Len(q) + 1}
  BY <1>1
<1>5. NoLineTwice(Append(q, p))
  BY <1>1, <1>2, <1>3, <1>4 DEF NoLineTwice
<1>6. Range(Append(q, p)) = Range(q) \cup {p}
  BY <1>1, <1>2, <1>3, <1>4
<1> QED
  BY <1>2, <1>5, <1>6

(* A queue whose packet for x, if it has one, is changed by f *)
Updated(q, x, f) == [i \in DOMAIN q |-> IF q[i].line = x THEN f[q[i]] ELSE q[i]]

(* The packet of a line is changed where it stands. *)
LEMMA ReplaceInQueue ==
    ASSUME NEW q \in Seq(Packet), NoLineTwice(q), NEW x, NEW f \in [Packet -> Packet],
           \A p \in Packet : f[p].line = p.line, InQueue(q, x) # {}
    PROVE  /\ Updated(q, x, f) \in Seq(Packet) /\ Len(Updated(q, x, f)) = Len(q)
           /\ NoLineTwice(Updated(q, x, f))
           /\ \E p \in Range(q) :
                 p.line = x /\ Range(Updated(q, x, f)) = (Range(q) \ {p}) \cup {f[p]}
<1> DEFINE r == Updated(q, x, f)
<1>1. /\ Len(q) \in Nat /\ DOMAIN q = 1 .. Len(q)
      /\ Range(q) = {q[i] : i \in 1 .. Len(q)}
      /\ \A i \in 1 .. Len(q) : q[i] \in Packet
  BY SeqFacts
<1> DEFINE e(i) == IF q[i].line = x THEN f[q[i]] ELSE q[i]
<1>2. \A i \in 1 .. Len(q) : e(i) \in Packet /\ e(i).line = q[i].line
  BY <1>1
<1>3. r = [i \in 1 .. Len(q) |-> e(i)]
  BY <1>1 DEF Updated
<1>4. \A i \in 1 .. Len(q) : r[i] = IF q[i].line = x THEN f[q[i]] ELSE q[i]
  BY <1>3
<1> HIDE DEF e, r
<1>5. r \in Seq(Packet)
  BY <1>1, <1>2, <1>3, IsASeq
<1>6. Len(r) = Len(q) /\ DOMAIN r = 1 .. Len(q) /\ Range(r) = {r[i] : i \in 1 .. Len(q)}
  <2>1. DOMAIN r = 1 .. Len(q) /\ DOMAIN r = 1 .. Len(r) /\ Len(r) \in Nat
    BY <1>3, <1>5, LenProperties
  <2> QED
    BY <1>1, <2>1 DEF Range
<1>7. NoLineTwice(r)
  BY <1>1, <1>2, <1>3, <1>6, SMTT(30) DEF NoLineTwice
<1>8. PICK k \in 1 .. Len(q) : q[k].line = x
  BY <1>1 DEF InQueue
<1>9. \A i \in 1 .. Len(q) : q[i].line = x <=> i = k
  BY <1>1, <1>8 DEF NoLineTwice
<1>10. \A i \in 1 .. Len(q) : q[i] = q[k] <=> i = k
  BY <1>8, <1>9
<1>11. Range(r) = (Range(q) \ {q[k]}) \cup {f[q[k]]}
  BY <1>1, <1>4, <1>6, <1>8, <1>9, <1>10
<1> QED
  BY <1>1, <1>5, <1>6, <1>7, <1>8, <1>11 DEF r

(* The same for the entries of MSHR *)
Changed(S, x, f) == {IF n.line = x THEN f[n] ELSE n : n \in S}

(* There it takes the entry's place in the set. *)
LEMMA ReplaceInMshr ==
    ASSUME NEW S \in SUBSET Packet, Distinct(S), NEW m \in S, NEW f \in [Packet -> Packet]
    PROVE  Changed(S, m.line, f) = (S \ {m}) \cup {f[m]}
  BY DEF Distinct, Changed

-----------------------------------------------------------------------------
(* Who is owed what, when packets come, go and change.                     *)

(* An answer goes to those whom the flags name. *)
LEMMA RecipientsAreOwed ==
    /\ \A p \in DemandPacket \cup Entry : Recipients(p) = {c \in Client : Owes(p, c)}
    /\ \A p \in PrefetchPacket : ByFlags(p) = {c \in Client : Owes(p, c)}
<1>1. \A p \in DemandPacket : Recipients(p) = {c \in Client : Owes(p, c)}
  <2> TAKE p \in DemandPacket
  <2>1. CASE p.type = "TRANSLATION"
    <3>1. Recipients(p) = {"PTW"}
      BY <2>1 DEF DemandPacket, Recipients
    <3> QED
      BY <2>1, <3>1 DEF Client, Owes
  <2>2. CASE p.type = "LOAD" /\ p.send_both_cache
    <3>1. Recipients(p) = {"L1I", "L1D"}
      BY <2>2 DEF DemandPacket, Recipients
    <3> QED
      BY <2>2, <3>1 DEF Client, Owes
  <2>3. CASE p.type = "LOAD" /\ ~ p.send_both_cache
    BY <2>3 DEF DemandPacket, Recipients, ByFlags, Client, Owes
  <2> QED
    BY <2>1, <2>2, <2>3 DEF DemandPacket
<1>2. \A p \in Entry : Recipients(p) = {c \in Client : Owes(p, c)}
  <2> TAKE p \in Entry
  <2>1. CASE p.type = "TRANSLATION"
    <3>1. Recipients(p) = {"PTW"}
      BY <2>1 DEF Entry, Recipients
    <3> QED
      BY <2>1, <3>1 DEF Client, Owes
  <2>2. CASE p.type # "TRANSLATION" /\ p.send_both_cache
    <3>1. Recipients(p) = {"L1I", "L1D"}
      BY <2>2 DEF Entry, Recipients
    <3> QED
      BY <2>2, <3>1 DEF Client, Owes
  <2>3. CASE p.type # "TRANSLATION" /\ ~ p.send_both_cache
    <3>1. p.fill_level = 1 <=> p.fill_l1i \/ p.fill_l1d
      BY <2>3 DEF Entry
    <3> QED
      BY <2>3, <3>1 DEF Recipients, ByFlags, Client, Owes
  <2> QED
    BY <2>1, <2>2, <2>3
<1>3. \A p \in PrefetchPacket : ByFlags(p) = {c \in Client : Owes(p, c)}
  BY DEF PrefetchPacket, Packet, ByFlags, Client, Owes
<1> QED
  BY <1>1, <1>2, <1>3

(* What is owed does not depend on where the packets are. *)
LEMMA PlacesAlike ==
    ASSUME NEW R, NEW P, NEW M, NEW W
    PROVE  /\ OwedParts(R, P, M, W) <=> OwedParts(P, R, M, W)
           /\ OwedParts(R, P, M, W) <=> OwedParts(M, P, R, W)
  BY Zenon DEF OwedParts

(* New requests for the line of p, of those whom p will answer *)
LEMMA Granted ==
    ASSUME NEW R, NEW P, NEW M, NEW W, NEW R2, NEW W2, NEW p, OwedParts(R, P, M, W),
           \A d \in Client : Owes(p, d) => p.line \notin W[d],
           \A d \in Client, y \in AnyLine :
              /\ Owed(R2, d, y) <=> Owed(R, d, y) \/ (y = p.line /\ Owes(p, d))
              /\ y \in W2[d] <=> y \in W[d] \/ (y = p.line /\ Owes(p, d))
    PROVE  OwedParts(R2, P, M, W2)
<1> SUFFICES ASSUME NEW d \in Client, NEW y \in AnyLine
             PROVE  /\ y \in W2[d] <=> Owed(R2, d, y) \/ Owed(P, d, y) \/ Owed(M, d, y)
                    /\ ~ (Owed(R2, d, y) /\ Owed(P, d, y))
                    /\ ~ (Owed(R2, d, y) /\ Owed(M, d, y))
                    /\ ~ (Owed(P, d, y) /\ Owed(M, d, y))
  BY DEF OwedParts
<1>1. /\ y \in W[d] <=> Owed(R, d, y) \/ Owed(P, d, y) \/ Owed(M, d, y)
      /\ ~ (Owed(R, d, y) /\ Owed(P, d, y))
      /\ ~ (Owed(R, d, y) /\ Owed(M, d, y))
      /\ ~ (Owed(P, d, y) /\ Owed(M, d, y))
  BY DEF OwedParts
<1>2. /\ Owed(R2, d, y) <=> Owed(R, d, y) \/ (y = p.line /\ Owes(p, d))
      /\ y \in W2[d] <=> y \in W[d] \/ (y = p.line /\ Owes(p, d))
  OBVIOUS
<1>3. y = p.line /\ Owes(p, d) => ~ Owed(R, d, y) /\ ~ Owed(P, d, y) /\ ~ Owed(M, d, y)
  BY <1>1
<1> QED
  BY <1>1, <1>2, <1>3, Zenon

(* A packet for x leaves its place, and those it owes are answered. *)
LEMMA Answered ==
    ASSUME NEW R, NEW P, NEW M, NEW W, NEW W2, OwedParts(R, P, M, W),
           Distinct(R), NEW p \in R, p.line \in AnyLine,
           \A d \in Client : W2[d] = IF Owes(p, d) THEN W[d] \ {p.line} ELSE W[d]
    PROVE  /\ OwedParts(R \ {p}, P, M, W2)
           /\ \A d \in Client : Owes(p, d) => p.line \in W[d]
<1>1. \A d, y : Owed(R \ {p}, d, y) <=> Owed(R, d, y) /\ y # p.line
  BY DEF Owed, Distinct
<1>2. \A d : Owed(R, d, p.line) <=> Owes(p, d)
  BY DEF Owed, Distinct
<1> QED
  BY <1>1, <1>2, ZenonT(40) DEF OwedParts

(* A packet moves to a place that has none for its line. *)
LEMMA Moved ==
    ASSUME NEW R, NEW P, NEW M, NEW W, OwedParts(R, P, M, W),
           Distinct(R), NEW p \in R, \A m \in M : m.line # p.line
    PROVE  OwedParts(R \ {p}, P, M \cup {p}, W)
<1>1. \A d, y : Owed(R \ {p}, d, y) <=> Owed(R, d, y) /\ y # p.line
  BY DEF Owed, Distinct
<1>2. \A d : Owed(R, d, p.line) <=> Owes(p, d)
  BY DEF Owed, Distinct
<1>3. \A d, y : Owed(M \cup {p}, d, y) <=> Owed(M, d, y) \/ (y = p.line /\ Owes(p, d))
  BY DEF Owed
<1>4. \A d : ~ Owed(M, d, p.line)
  BY DEF Owed
<1> QED
  BY <1>1, <1>2, <1>3, <1>4 DEF OwedParts

(* A packet p of R merges into the packet m of its line in M. *)
LEMMA Merged ==
    ASSUME NEW R, NEW P, NEW M, NEW W, OwedParts(R, P, M, W),
           Distinct(R), NEW p \in R, p.line \in AnyLine,
           Distinct(M), NEW m \in M, m.line = p.line,
           NEW n, n.line = m.line,
           (\A d \in Client : ~ (Owes(m, d) /\ Owes(p, d))) =>
              \A d \in Client : Owes(n, d) <=> Owes(m, d) \/ Owes(p, d)
    PROVE  OwedParts(R \ {p}, P, (M \ {m}) \cup {n}, W)
<1>1. \A d, y : Owed(R \ {p}, d, y) <=> Owed(R, d, y) /\ y # p.line
  BY DEF Owed, Distinct
<1>2. \A d : Owed(R, d, p.line) <=> Owes(p, d)
  BY DEF Owed, Distinct
<1>3. \A d : Owed(M, d, p.line) <=> Owes(m, d)
  BY DEF Owed, Distinct
<1>4. \A d, y : Owed((M \ {m}) \cup {n}, d, y) <=>
                  IF y = p.line THEN Owes(n, d) ELSE Owed(M, d, y)
  BY DEF Owed, Distinct
<1>5. \A d \in Client : ~ (Owes(m, d) /\ Owes(p, d))
  BY <1>2, <1>3 DEF OwedParts
<1>6. \A d \in Client : Owes(n, d) <=> Owes(m, d) \/ Owes(p, d)
  BY <1>5
<1> QED
  BY <1>1, <1>2, <1>3, <1>4, <1>5, <1>6, ZenonT(40) DEF OwedParts

(* A packet that owes nobody comes or goes. *)
LEMMA Indifferent ==
    ASSUME NEW R, NEW P, NEW M, NEW W, NEW R2, OwedParts(R, P, M, W),
           \A d \in Client, y \in AnyLine : Owed(R2, d, y) <=> Owed(R, d, y)
    PROVE  OwedParts(R2, P, M, W)
  BY DEF OwedParts

-----------------------------------------------------------------------------
(* What merging does to packets.                                           *)

(* The lower of two levels *)
LowerLevel(q, p) == IF p.fill_level < q.fill_level THEN p.fill_level ELSE q.fill_level

(* Any two packets merge to one for the line of the first. *)
LEMMA MergeReadFields ==
    ASSUME NEW q \in Packet, NEW p \in Packet
    PROVE  MergeRead(q, p) \in Packet /\ MergeRead(q, p).line = q.line
<1>1. CASE p.instruction
  BY <1>1 DEF MergeRead, Packet
<1>2. CASE ~ p.instruction
  BY <1>2, ZenonT(40) DEF MergeRead, Packet
<1> QED
  BY <1>1, <1>2

(* The fields of a merged prefetch *)
LEMMA MergePrefetchFields ==
    ASSUME NEW q \in Packet, NEW p \in Packet
    PROVE  LET r == MergePrefetch(q, p)
           IN  /\ r \in Packet /\ r.line = q.line /\ r.type = q.type /\ r.returned = q.returned
               /\ r.send_both_cache = q.send_both_cache
               /\ r.fill_level = LowerLevel(q, p)
               /\ r.fill_l1i <=> q.fill_l1i \/ p.fill_l1i
               /\ r.fill_l1d <=> q.fill_l1d \/ p.fill_l1d
<1> DEFINE r == MergePrefetch(q, p)
<1>1. r \in Packet /\ r.line = q.line /\ r.type = q.type /\ r.returned = q.returned
  BY ZenonT(40) DEF MergePrefetch, Packet
<1>2. r.send_both_cache = q.send_both_cache
  BY DEF MergePrefetch, Packet
<1>3. r.fill_level = LowerLevel(q, p)
  BY DEF MergePrefetch, Packet, LowerLevel
<1>4. r.fill_l1i <=> q.fill_l1i \/ p.fill_l1i
  BY DEF MergePrefetch, Packet
<1>5. r.fill_l1d <=> q.fill_l1d \/ p.fill_l1d
  BY DEF MergePrefetch, Packet
<1> QED
  BY <1>1, <1>2, <1>3, <1>4, <1>5

(* The fields of an entry a read has merged into *)
LEMMA MergeMshrFields ==
    ASSUME NEW m \in Packet, NEW p \in Packet, p.line = m.line
    PROVE  LET r == MergeMshr(m, p)
               new == IF m.type = "PREFETCH" THEN p ELSE m
           IN  /\ r \in Packet /\ r.line = m.line /\ r.returned = m.returned
               /\ r.type = new.type /\ r.send_both_cache = new.send_both_cache
               /\ r.fill_level = LowerLevel(m, p)
               /\ r.fill_l1i <=> m.fill_l1i \/ p.fill_l1i
               /\ r.fill_l1d <=> m.fill_l1d \/ p.fill_l1d
<1> DEFINE r == MergeMshr(m, p)
           i == m.fill_l1i \/ p.fill_l1i
           d == m.fill_l1d \/ p.fill_l1d
           level == LowerLevel(m, p)
           code == IF p.fill_level < m.fill_level THEN p.instruction ELSE m.instruction
           either == code \/ p.instruction
<1>1. /\ i \in BOOLEAN /\ d \in BOOLEAN /\ level \in FillLevel
      /\ code \in BOOLEAN /\ either \in BOOLEAN
  BY DEF Packet, LowerLevel
<1>2. r = IF m.type = "PREFETCH"
          THEN [p EXCEPT !.fill_level = level, !.instruction = either,
                         !.fill_l1i = i, !.fill_l1d = d, !.returned = m.returned]
          ELSE [m EXCEPT !.fill_level = level, !.instruction = code,
                         !.fill_l1i = i, !.fill_l1d = d]
  BY DEF MergeMshr, LowerLevel
<1> HIDE DEF i, d, level, code, either, r
<1>3. CASE m.type = "PREFETCH"
  <2>1. r \in Packet
    BY <1>1, <1>2, <1>3, ZenonT(40) DEF Packet
  <2>2. /\ r.line = m.line /\ r.returned = m.returned /\ r.type = p.type
        /\ r.fill_level = level /\ r.fill_l1i = i /\ r.fill_l1d = d
    BY <1>1, <1>2, <1>3 DEF Packet
  <2>3. r.send_both_cache = p.send_both_cache
    BY <1>1, <1>2, <1>3 DEF Packet
  <2> QED
    BY <1>3, <2>1, <2>2, <2>3 DEF level, i, d, r
<1>4. CASE m.type # "PREFETCH"
  <2>1. r \in Packet
    BY <1>1, <1>2, <1>4 DEF Packet
  <2>2. /\ r.line = m.line /\ r.returned = m.returned /\ r.type = m.type
        /\ r.fill_level = level /\ r.fill_l1i = i /\ r.fill_l1d = d
    BY <1>1, <1>2, <1>4 DEF Packet
  <2>3. r.send_both_cache = m.send_both_cache
    BY <1>1, <1>2, <1>4 DEF Packet
  <2> QED
    BY <1>4, <2>1, <2>2, <2>3 DEF level, i, d, r
<1> QED
  BY <1>3, <1>4

(* In RQ the merged packet answers both, although a request for code only  *)
(* passes on send_both_cache.                                              *)
LEMMA MergeReadOwes ==
    ASSUME NEW q \in DemandPacket, NEW p \in DemandPacket, p.line = q.line,
           ~ p.send_both_cache, p.type = "LOAD",
           \A c \in Client : ~ (Owes(q, c) /\ Owes(p, c))
    PROVE  /\ MergeRead(q, p) \in DemandPacket
           /\ \A c \in Client : Owes(MergeRead(q, p), c) <=> Owes(q, c) \/ Owes(p, c)
<1> DEFINE r == MergeRead(q, p)
<1>1. q.type = "LOAD"
  BY L2CacheAssumption DEF DemandPacket
<1>2. ~ q.send_both_cache
  <2>1. Owes(p, "L1I") \/ Owes(p, "L1D")
    BY DEF DemandPacket, Owes
  <2>2. q.send_both_cache => Owes(q, "L1I") /\ Owes(q, "L1D")
    BY <1>1 DEF Owes
  <2> QED
    BY <2>1, <2>2 DEF Client
<1>3. q.instruction # p.instruction
  <2>1. /\ q.instruction /\ p.instruction => Owes(q, "L1I") /\ Owes(p, "L1I")
        /\ ~ q.instruction /\ ~ p.instruction => Owes(q, "L1D") /\ Owes(p, "L1D")
    BY <1>1, <1>2 DEF DemandPacket, Owes
  <2> QED
    BY <2>1 DEF Client, DemandPacket, Packet
<1>4. /\ r.send_both_cache /\ r.type = "LOAD" /\ r.fill_level = 1
      /\ r.returned = "INFLIGHT" /\ r.line = q.line
  BY <1>1, <1>3 DEF MergeRead, DemandPacket, Packet
<1>5. r \in DemandPacket
  BY <1>1, <1>4, MergeReadFields DEF DemandPacket
<1>6. \A c \in Client : Owes(q, c) \/ Owes(p, c) <=> c \in {"L1I", "L1D"}
  BY <1>1, <1>2, <1>3 DEF DemandPacket, Owes, Client
<1>7. \A c \in Client : Owes(r, c) <=> c \in {"L1I", "L1D"}
  BY <1>4 DEF Owes, Client
<1> QED
  BY <1>5, <1>6, <1>7

(* In PQ the merged packet answers both. *)
LEMMA MergePrefetchOwes ==
    ASSUME NEW q \in PrefetchPacket, NEW p \in PrefetchPacket, p.line = q.line
    PROVE  /\ MergePrefetch(q, p) \in PrefetchPacket
           /\ \A c \in Client : Owes(MergePrefetch(q, p), c) <=> Owes(q, c) \/ Owes(p, c)
<1> DEFINE r == MergePrefetch(q, p)
<1>1. /\ r \in Packet /\ r.line = q.line /\ r.type = "PREFETCH" /\ r.returned = "INFLIGHT"
      /\ ~ r.send_both_cache
      /\ r.fill_l1i <=> q.fill_l1i \/ p.fill_l1i
      /\ r.fill_l1d <=> q.fill_l1d \/ p.fill_l1d
      /\ r.fill_level = LowerLevel(q, p)
  BY MergePrefetchFields DEF PrefetchPacket
<1>2. r.fill_level = 1 <=> q.fill_level = 1 \/ p.fill_level = 1
  BY <1>1 DEF PrefetchPacket, Packet, FillLevel, LowerLevel
<1>3. r \in PrefetchPacket
  BY <1>1, <1>2 DEF PrefetchPacket
<1>4. \A c \in Client : Owes(r, c) <=> Owes(q, c) \/ Owes(p, c)
  BY <1>1 DEF Owes, PrefetchPacket
<1> QED
  BY <1>3, <1>4

(* A prefetch that merges into the MSHR entry of its line leaves it whom   *)
(* it answers, and adds its own.                                           *)
LEMMA PrefetchIntoMshrOwes ==
    ASSUME NEW m \in Entry, NEW p \in PrefetchPacket, p.line = m.line,
           \A c \in Client : ~ (Owes(m, c) /\ Owes(p, c))
    PROVE  /\ MergePrefetch(m, p) \in Entry
           /\ \A c \in Client : Owes(MergePrefetch(m, p), c) <=> Owes(m, c) \/ Owes(p, c)
<1> DEFINE r == MergePrefetch(m, p)
<1>1. /\ r \in Packet /\ r.line = m.line /\ r.type = m.type
      /\ r.send_both_cache = m.send_both_cache
      /\ r.fill_l1i <=> m.fill_l1i \/ p.fill_l1i
      /\ r.fill_l1d <=> m.fill_l1d \/ p.fill_l1d
      /\ r.fill_level = LowerLevel(m, p)
  BY MergePrefetchFields DEF Entry, PrefetchPacket
<1>2. r.fill_level = 1 <=> m.fill_level = 1 \/ p.fill_level = 1
  BY <1>1 DEF Entry, PrefetchPacket, Packet, FillLevel, LowerLevel
<1>3. CASE m.type = "TRANSLATION"
  <2>1. ~ p.fill_l1i /\ ~ p.fill_l1d
    BY <1>3, L2CacheAssumption DEF Entry, PrefetchPacket
  <2>2. r \in Entry
    BY <1>1, <1>2, <1>3 DEF Entry
  <2>3. \A c \in Client : Owes(r, c) <=> Owes(m, c) \/ Owes(p, c)
    BY <1>1, <1>3, <2>1 DEF Owes, PrefetchPacket
  <2> QED
    BY <2>2, <2>3
<1>4. CASE m.type # "TRANSLATION"
  <2>1. r \in Entry
    <3>1. CASE m.type = "LOAD"
      BY <1>1, <1>2, <3>1 DEF Entry
    <3>2. CASE m.type = "PREFETCH"
      BY <1>1, <1>2, <3>2 DEF Entry, PrefetchPacket
    <3> QED
      BY <1>4, <3>1, <3>2 DEF Entry
  <2>2. \A c \in Client : Owes(r, c) <=> Owes(m, c) \/ Owes(p, c)
    BY <1>1, <1>4 DEF Owes, PrefetchPacket
  <2> QED
    BY <2>1, <2>2
<1> QED
  BY <1>3, <1>4

(* A read that merges into the MSHR entry of its line, and takes it over   *)
(* from a prefetch, answers both.                                          *)
LEMMA ReadIntoMshrOwes ==
    ASSUME NEW m \in Entry, NEW p \in DemandPacket, p.line = m.line,
           \A c \in Client : ~ (Owes(m, c) /\ Owes(p, c))
    PROVE  /\ MergeMshr(m, p) \in Entry
           /\ \A c \in Client : Owes(MergeMshr(m, p), c) <=> Owes(m, c) \/ Owes(p, c)
<1> DEFINE r == MergeMshr(m, p)
<1>1. /\ r \in Packet /\ r.line = m.line
      /\ r.type = IF m.type = "PREFETCH" THEN p.type ELSE m.type
      /\ r.send_both_cache = IF m.type = "PREFETCH" THEN p.send_both_cache
                             ELSE m.send_both_cache
      /\ r.fill_l1i <=> m.fill_l1i \/ p.fill_l1i
      /\ r.fill_l1d <=> m.fill_l1d \/ p.fill_l1d
      /\ r.fill_level = LowerLevel(m, p)
  BY MergeMshrFields DEF Entry, DemandPacket
<1>2. r.fill_level = 1
  BY <1>1 DEF Entry, DemandPacket, Packet, FillLevel, LowerLevel
<1>3. CASE p.type = "TRANSLATION"
  <2>1. m.type = "PREFETCH"
    <3>1. m.type # "LOAD"
      BY <1>3, L2CacheAssumption DEF Entry, DemandPacket
    <3>2. m.type # "TRANSLATION"
      BY <1>3 DEF Owes, Client
    <3> QED
      BY <3>1, <3>2 DEF Entry
  <2>2. ~ m.fill_l1i /\ ~ m.fill_l1d /\ ~ m.send_both_cache
    BY <1>3, <2>1, L2CacheAssumption DEF Entry, DemandPacket
  <2>3. r \in Entry
    BY <1>1, <1>2, <1>3, <2>1 DEF Entry, DemandPacket
  <2>4. \A c \in Client : Owes(r, c) <=> Owes(m, c) \/ Owes(p, c)
    BY <1>1, <1>3, <2>1, <2>2 DEF Owes
  <2> QED
    BY <2>3, <2>4
<1>4. CASE p.type = "LOAD"
  <2>1. m.type # "TRANSLATION"
    BY <1>4, L2CacheAssumption DEF Entry, DemandPacket
  <2>2. m.send_both_cache => Owes(m, "L1I") /\ Owes(m, "L1D")
    BY <2>1 DEF Owes
  <2>3. Owes(p, "L1I") \/ Owes(p, "L1D")
    BY <1>4 DEF Owes, DemandPacket
  <2>4. ~ m.send_both_cache
    BY <2>2, <2>3 DEF Client
  <2>5. p.send_both_cache => ~ m.fill_l1i /\ ~ m.fill_l1d
    BY <1>4, <2>1 DEF Owes, Client
  <2>6. p.send_both_cache => m.type = "PREFETCH"
    BY <2>1, <2>4, <2>5 DEF Entry
  <2>7. r.type = "LOAD" /\ r.send_both_cache = p.send_both_cache
    BY <1>1, <1>4, <2>1, <2>4, <2>6 DEF Entry, DemandPacket, Packet
  <2>8. r \in Entry
    BY <1>1, <1>2, <1>4, <2>7 DEF Entry, DemandPacket
  <2>9. \A c \in Client : Owes(r, c) <=> Owes(m, c) \/ Owes(p, c)
    BY <1>1, <1>4, <2>1, <2>4, <2>7 DEF Owes
  <2> QED
    BY <2>8, <2>9
<1> QED
  BY <1>3, <1>4 DEF DemandPacket

-----------------------------------------------------------------------------
(* The parts of the invariant that most steps leave alone.                 *)

(* What the invariant says of queues, entries and clients *)
LEMMA IInvFacts ==
    ASSUME IInv
    PROVE  /\ rq \in Seq(Packet) /\ NoLineTwice(rq) /\ Distinct(Range(rq))
           /\ pq \in Seq(Packet) /\ NoLineTwice(pq) /\ Distinct(Range(pq))
           /\ Distinct(mshr)
           /\ waiting \in [Client -> SUBSET AnyLine]
           /\ l1d \subseteq Line /\ failed = {}
           /\ Len(rq) \in Nat /\ Len(pq) \in Nat /\ Len(wq) \in Nat
           /\ Range(wq) = {wq[i] : i \in 1 .. Len(wq)} /\ Range(wq) \subseteq Line
           /\ DOMAIN wq = 1 .. Len(wq)
<1>1. /\ rq \in Seq(Packet) /\ NoLineTwice(rq)
      /\ pq \in Seq(Packet) /\ NoLineTwice(pq)
      /\ wq \in Seq(Line)
      /\ Distinct(mshr)
      /\ waiting \in [Client -> SUBSET AnyLine]
      /\ l1d \subseteq Line
  BY DEF IInv, TypeOK, NoLineTwice, Distinct, AnyLine
<1> QED
  BY <1>1, SeqFacts, DistinctRange DEF IInv, NoAssertionFails

(* There are finitely many lines to wait for. *)
LEMMA FiniteLines == IsFiniteSet(AnyLine) /\ \A S \in SUBSET AnyLine : IsFiniteSet(S)
<1>1. IsFiniteSet(AnyLine)
  BY L2CacheAssumption, FS_Union DEF AnyLine
<1> QED
  BY <1>1, FS_Subset

(* Whoever is answered has less outstanding. *)
LEMMA BoundsKept ==
    ASSUME ClientsBounded, waiting \in [Client -> SUBSET AnyLine],
           \A c \in Client : waiting'[c] \subseteq waiting[c]
    PROVE  ClientsBounded'
<1>1. \A c \in Client : /\ Cardinality(waiting'[c]) <= Cardinality(waiting[c])
                        /\ Cardinality(waiting'[c]) \in Nat /\ Cardinality(waiting[c]) \in Nat
  <2> TAKE c \in Client
  <2>1. IsFiniteSet(waiting[c]) /\ waiting'[c] \in SUBSET waiting[c]
    BY FiniteLines
  <2> QED
    BY <2>1, FS_Subset, FS_CardinalityType
<1>2. "L1I" \in Client /\ "L1D" \in Client /\ "PTW" \in Client
  BY DEF Client
<1>3. L1I_MSHR_SIZE \in Nat /\ L1D_MSHR_SIZE \in Nat
  BY L2CacheAssumption
<1> QED
  BY <1>1, <1>2, <1>3 DEF ClientsBounded

(* The answer for a packet that those it owes wait for *)
LEMMA AnswerFacts ==
    ASSUME NEW w \in [Client -> SUBSET AnyLine], NEW p, NEW x \in AnyLine, NEW to,
           to = {c \in Client : Owes(p, c)},
           \A c \in Client : Owes(p, c) => x \in w[c],
           Owes(p, "L1D") => x \in Line,
           l1d \subseteq Line, failed = {},
           Answer(w, to, x)
    PROVE  /\ waiting' \in [Client -> SUBSET AnyLine]
           /\ \A c \in Client : waiting'[c] = IF Owes(p, c) THEN w[c] \ {x} ELSE w[c]
           /\ l1d' \subseteq Line /\ failed' = {}
<1>1. waiting' = [c \in Client |-> IF c \in to THEN w[c] \ {x} ELSE w[c]]
  BY DEF Answer
<1>2. l1d' \subseteq Line
  BY DEF Answer, Client
<1>3. failed' = {}
  BY DEF Answer
<1> QED
  BY <1>1, <1>2, <1>3

(* Who owes the L1D owes it a line of the program. *)
LEMMA DataForL1D ==
    \A p \in DemandPacket \cup PrefetchPacket \cup Entry :
        /\ p \in Packet /\ p.line \in AnyLine
        /\ Owes(p, "L1D") => p.line \in Line
<1>1. \A p \in DemandPacket \cup PrefetchPacket \cup Entry : p \in Packet /\ p.line \in AnyLine
  BY DEF DemandPacket, PrefetchPacket, Entry, Packet, AnyLine
<1>2. \A p \in DemandPacket : Owes(p, "L1D") => p.line \in Line
  BY DEF DemandPacket, Owes
<1>3. \A p \in PrefetchPacket : Owes(p, "L1D") => p.line \in Line
  BY DEF PrefetchPacket, Owes
<1>4. \A p \in Entry : Owes(p, "L1D") => p.line \in Line
  BY DEF Entry, Owes
<1> QED
  BY <1>1, <1>2, <1>3, <1>4

(* A packet is replaced by one that also answers what p would. *)
LEMMA Replaced ==
    ASSUME NEW S, Distinct(S), NEW q \in S, NEW n, n.line = q.line, NEW p,
           NEW S2, S2 = (S \ {q}) \cup {n},
           \A d \in Client : Owes(n, d) <=> Owes(q, d) \/ Owes(p, d)
    PROVE  \A d \in Client, y \in AnyLine :
              Owed(S2, d, y) <=> Owed(S, d, y) \/ (y = q.line /\ Owes(p, d))
<1>1. \A d : Owed(S, d, q.line) <=> Owes(q, d)
  BY DEF Owed, Distinct
<1>2. \A d, y : Owed(S2, d, y) <=> IF y = q.line THEN Owes(n, d) ELSE Owed(S, d, y)
  BY DEF Owed, Distinct
<1> QED
  BY <1>1, <1>2

(* RQ holds no more than the clients have outstanding, so it has room for  *)
(* what an L1 with a free MSHR entry asks for: add_rq never returns -2.    *)
LEMMA ReadQueueHolds ==
    ASSUME IInv
    PROVE  Len(rq) <= Cardinality(waiting["L1I"]) + Cardinality(waiting["L1D"])
                        + Cardinality(waiting["PTW"])
<1> DEFINE I == waiting["L1I"]
           D == waiting["L1D"]
           T == waiting["PTW"]
           f == [i \in 1 .. Len(rq) |-> rq[i].line]
<1>1. /\ IsFiniteSet(I) /\ IsFiniteSet(D) /\ IsFiniteSet(T)
      /\ IsFiniteSet(I \cup D) /\ IsFiniteSet((I \cup D) \cup T)
  BY IInvFacts, FiniteLines, FS_Union DEF Client
<1>2. /\ Cardinality(I \cup D) <= Cardinality(I) + Cardinality(D)
      /\ Cardinality((I \cup D) \cup T) <= Cardinality(I) + Cardinality(D) + Cardinality(T)
  <2>1. \A A, B : IsFiniteSet(A) /\ IsFiniteSet(B) =>
           /\ Cardinality(A \cup B) <= Cardinality(A) + Cardinality(B)
           /\ Cardinality(A) \in Nat /\ Cardinality(B) \in Nat /\ Cardinality(A \cup B) \in Nat
    <3> SUFFICES ASSUME NEW A, NEW B, IsFiniteSet(A), IsFiniteSet(B)
                 PROVE  /\ Cardinality(A \cup B) <= Cardinality(A) + Cardinality(B)
                        /\ Cardinality(A) \in Nat /\ Cardinality(B) \in Nat
                        /\ Cardinality(A \cup B) \in Nat
      OBVIOUS
    <3>1. /\ IsFiniteSet(A \cup B)
          /\ Cardinality(A \cup B) = Cardinality(A) + Cardinality(B) - Cardinality(A \cap B)
      BY FS_Union
    <3>2. IsFiniteSet(A \cap B)
      BY FS_Intersection
    <3> QED
      BY <3>1, <3>2, FS_CardinalityType
  <2> HIDE DEF I, D, T
  <2> QED
    BY <1>1, <2>1
<1>3. \A i \in 1 .. Len(rq) : f[i] \in (I \cup D) \cup T
  <2> TAKE i \in 1 .. Len(rq)
  <2>1. rq[i] \in Range(rq) /\ rq[i] \in DemandPacket
    BY IInvFacts, SeqFacts DEF IInv, Held
  <2>2. \E c \in Client : Owes(rq[i], c)
    BY <2>1 DEF DemandPacket, Owes, Client
  <2>3. PICK c \in Client : Owes(rq[i], c)
    BY <2>2
  <2>4. rq[i].line \in waiting[c]
    BY <2>1, <2>3, DataForL1D DEF IInv, OwedInOnePlace, OwedParts, Owed
  <2> QED
    BY <2>4 DEF Client
<1>4. f \in Injection(1 .. Len(rq), (I \cup D) \cup T)
  <2>1. \A i, j \in 1 .. Len(rq) : f[i] = f[j] => i = j
    BY IInvFacts, SeqFacts DEF NoLineTwice
  <2> HIDE DEF I, D, T
  <2>2. f \in [1 .. Len(rq) -> (I \cup D) \cup T]
    BY <1>3
  <2> QED
    BY <2>1, <2>2 DEF Injection, IsInjective
<1>5. Cardinality(1 .. Len(rq)) = Len(rq)
  <2>1. Len(rq) \in Nat
    BY IInvFacts
  <2>2. Cardinality(1 .. Len(rq)) = IF 1 > Len(rq) THEN 0 ELSE Len(rq) - 1 + 1
    BY <2>1, FS_Interval
  <2> QED
    BY <2>1, <2>2
<1>6. Cardinality(1 .. Len(rq)) <= Cardinality((I \cup D) \cup T)
  <2> HIDE DEF I, D, T, f
  <2> QED
    BY <1>1, <1>4, FS_Injection
<1>7. /\ Cardinality(I) \in Nat /\ Cardinality(D) \in Nat /\ Cardinality(T) \in Nat
      /\ Cardinality((I \cup D) \cup T) \in Nat
  BY <1>1, FS_CardinalityType
<1> QED
  BY <1>2, <1>5, <1>6, <1>7, IInvFacts

-----------------------------------------------------------------------------
(* The steps of the clients.                                               *)

(* A read of client c for x, which it was not waiting for *)
LEMMA ReadStep ==
    ASSUME IInv, NEW c \in Client, NEW x \in AnyLine, NEW instruction \in BOOLEAN,
           c = "L1I" => x \in Line /\ instruction /\ Cardinality(waiting[c]) < L1I_MSHR_SIZE,
           c = "L1D" => x \in Line /\ ~ instruction /\ Cardinality(waiting[c]) < L1D_MSHR_SIZE,
           c = "PTW" => x \in PageTable /\ waiting[c] = {},
           Len(rq) < RQ_SIZE,
           add_rq(c, x, instruction)
    PROVE  IInv'
<1> DEFINE p == Demand(c, x, instruction)
           w == [waiting EXCEPT ![c] = @ \cup {x}]
           forward == \E i \in DOMAIN wq : wq[i] = x
           merge == InQueue(rq, x) # {}
           f == [q \in Packet |-> MergeRead(q, p)]
<1>1. /\ x \notin waiting[c]
      /\ UNCHANGED <<wq, pq, mshr, block, below, llc_rq, modified>>
      /\ \/ forward /\ Answer(w, ByFlags(p), x) /\ UNCHANGED rq
         \/ /\ ~ forward /\ waiting' = w
            /\ l1d' = IF c = "L1D" THEN l1d \ {x} ELSE l1d
            /\ rq' = CASE merge -> [i \in DOMAIN rq |-> IF rq[i].line = x
                                                        THEN MergeRead(rq[i], p)
                                                        ELSE rq[i]]
                       [] ~ merge /\ Len(rq) = RQ_SIZE -> rq
                       [] OTHER -> Append(rq, p)
            /\ failed' = IF c = "PTW" /\ merge THEN failed \cup {"rq_index"} ELSE failed
  BY DEF add_rq, llcVars
<1>2. /\ p \in Packet /\ p.line = x
      /\ p.type = IF c = "PTW" THEN "TRANSLATION" ELSE "LOAD"
      /\ p.fill_level = 1 /\ ~ p.send_both_cache
      /\ p.instruction = instruction /\ p.fill_l1i = instruction /\ p.fill_l1d = ~ instruction
      /\ p.returned = "INFLIGHT"
  BY DEF Demand, Packet, AnyLine, FillLevel
<1> HIDE DEF p
<1>3. p \in DemandPacket /\ \A d \in Client : Owes(p, d) <=> d = c
  <2>1. c = "PTW" \/ c = "L1I" \/ c = "L1D"
    BY DEF Client
  <2>2. p \in DemandPacket
    BY <1>2, <2>1 DEF DemandPacket
  <2>3. \A d \in Client : Owes(p, d) <=> d = c
    BY <1>2, <2>1 DEF Owes, Client
  <2> QED
    BY <2>2, <2>3
<1>4. w \in [Client -> SUBSET AnyLine]
      /\ \A d \in Client, y \in AnyLine : y \in w[d] <=> y \in waiting[d] \/ (d = c /\ y = x)
  BY IInvFacts
<1>5. TypeOK /\ Held /\ OwedInOnePlace /\ ClientsBounded
      /\ RequestsMatchMshr /\ ModifiedKept /\ NoAssertionFails
  BY DEF IInv
<1>6. RequestsMatchMshr' /\ ModifiedKept'
  BY <1>1, <1>5 DEF RequestsMatchMshr, ModifiedKept
<1>7. CASE forward
  <2>1. Answer(w, ByFlags(p), x) /\ rq' = rq
    BY <1>1, <1>7
  <2>2. x \in Line /\ c # "PTW"
    BY <1>7, IInvFacts, L2CacheAssumption
  <2>3. ByFlags(p) = {c}
    BY <1>2, <2>2 DEF ByFlags, Client
  <2>4. /\ waiting' = [d \in Client |-> IF d \in {c} THEN w[d] \ {x} ELSE w[d]]
        /\ l1d' = IF "L1D" \in {c} THEN l1d \cup {x} ELSE l1d
        /\ failed' = failed \cup {d \in {c} : x \notin w[d]}
    BY <2>1, <2>3 DEF Answer
  <2>5. waiting' = waiting
    BY <1>1, <2>4, IInvFacts
  <2>6. l1d' \subseteq Line /\ failed' = {}
    BY <1>4, <2>2, <2>4, IInvFacts
  <2>7. TypeOK'
    BY <1>1, <1>5, <2>1, <2>5, <2>6 DEF TypeOK
  <2> QED
    BY <1>1, <1>5, <1>6, <2>1, <2>5, <2>6, <2>7
       DEF IInv, Held, OwedInOnePlace, ClientsBounded, NoAssertionFails
<1>8. CASE ~ forward
  <2>1. /\ waiting' = w /\ l1d' \subseteq Line
        /\ failed' = IF c = "PTW" /\ merge THEN failed \cup {"rq_index"} ELSE failed
    BY <1>1, <1>8, IInvFacts
  <2>2. ClientsBounded'
    <3>1. /\ IsFiniteSet(waiting[c]) /\ waiting'[c] = waiting[c] \cup {x}
          /\ Cardinality(waiting[c]) \in Nat /\ x \notin waiting[c]
      BY <1>1, <2>1, IInvFacts, FiniteLines, FS_CardinalityType
    <3>2. Cardinality(waiting'[c]) = Cardinality(waiting[c]) + 1
      BY <3>1, FS_AddElement, ZenonT(40)
    <3>3. \A d \in Client : d # c => waiting'[d] = waiting[d]
      BY <2>1, IInvFacts
    <3>4. waiting[c] = {} => Cardinality(waiting[c]) = 0
      BY FS_EmptySet
    <3>5. L1I_MSHR_SIZE \in Nat /\ L1D_MSHR_SIZE \in Nat
      BY L2CacheAssumption
    <3>6. CASE c = "L1I"
      <4>1. Cardinality(waiting'["L1I"]) <= L1I_MSHR_SIZE
        <5>1. Cardinality(waiting[c]) < L1I_MSHR_SIZE
          BY <3>6
        <5>2. Cardinality(waiting'[c]) <= L1I_MSHR_SIZE
          BY <3>1, <3>2, <3>5, <5>1
        <5> QED
          BY <3>6, <5>2
      <4>2. waiting'["L1D"] = waiting["L1D"] /\ waiting'["PTW"] = waiting["PTW"]
        BY <3>3, <3>6 DEF Client
      <4> QED
        BY <1>5, <4>1, <4>2 DEF ClientsBounded
    <3>7. CASE c = "L1D"
      <4>1. Cardinality(waiting'["L1D"]) <= L1D_MSHR_SIZE
        <5>1. Cardinality(waiting[c]) < L1D_MSHR_SIZE
          BY <3>7
        <5>2. Cardinality(waiting'[c]) <= L1D_MSHR_SIZE
          BY <3>1, <3>2, <3>5, <5>1
        <5> QED
          BY <3>7, <5>2
      <4>2. waiting'["L1I"] = waiting["L1I"] /\ waiting'["PTW"] = waiting["PTW"]
        BY <3>3, <3>7 DEF Client
      <4> QED
        BY <1>5, <4>1, <4>2 DEF ClientsBounded
    <3>8. CASE c = "PTW"
      BY <1>5, <3>2, <3>3, <3>4, <3>8 DEF ClientsBounded, Client
    <3> QED
      BY <3>6, <3>7, <3>8 DEF Client
  (* The packet of the line in RQ, if there is one, is another client's. *)
  <2>3. \A q \in Range(rq) : q.line = x => q \in DemandPacket /\ ~ Owes(q, c)
    BY <1>1, <1>5 DEF Held, OwedInOnePlace, OwedParts, Owed
  <2>4. merge => c # "PTW"
    <3>1. \A q \in DemandPacket : q.line \in PageTable => Owes(q, "PTW")
      BY L2CacheAssumption DEF DemandPacket, Owes
    <3>2. merge => \E q \in Range(rq) : q.line = x
      BY IInvFacts, SeqFacts DEF InQueue
    <3> QED
      BY <2>3, <3>1, <3>2
  <2>5. failed' = {}
    BY <2>1, <2>4, IInvFacts
  <2>6. /\ rq' \in Seq(Packet) /\ Len(rq') <= RQ_SIZE /\ NoLineTwice(rq')
        /\ Range(rq') \subseteq DemandPacket
        /\ \A d \in Client, y \in AnyLine :
              Owed(Range(rq'), d, y) <=> Owed(Range(rq), d, y) \/ (d = c /\ y = x)
    <3>1. CASE merge
      <4>1. f \in [Packet -> Packet] /\ \A q \in Packet : f[q] = MergeRead(q, p) /\ f[q].line = q.line
        BY <1>2, MergeReadFields
      <4>2. rq' = Updated(rq, x, f)
        <5>1. rq' = [i \in DOMAIN rq |-> IF rq[i].line = x THEN MergeRead(rq[i], p) ELSE rq[i]]
          BY <1>1, <1>8, <3>1
        <5>2. \A i \in DOMAIN rq : rq[i] \in Packet
          BY IInvFacts, SeqFacts
        <5>3. \A i \in DOMAIN rq : f[rq[i]] = MergeRead(rq[i], p)
          BY <4>1, <5>2
        <5> QED
          BY <5>1, <5>3 DEF Updated
      <4> HIDE DEF f
      <4>3. /\ rq' \in Seq(Packet) /\ Len(rq') = Len(rq) /\ NoLineTwice(rq')
            /\ \E q \in Range(rq) : q.line = x /\ Range(rq') = (Range(rq) \ {q}) \cup {f[q]}
        <5>1. rq \in Seq(Packet) /\ NoLineTwice(rq)
          BY IInvFacts
        <5> QED
          BY <3>1, <4>1, <4>2, <5>1, ReplaceInQueue
      <4>4. PICK q \in Range(rq) : q.line = x /\ Range(rq') = (Range(rq) \ {q}) \cup {f[q]}
        BY <4>3
      <4>5. q \in DemandPacket /\ \A d \in Client : ~ (Owes(q, d) /\ Owes(p, d))
        BY <1>3, <2>3, <4>4
      <4>6. /\ MergeRead(q, p) \in DemandPacket
            /\ \A d \in Client : Owes(MergeRead(q, p), d) <=> Owes(q, d) \/ Owes(p, d)
        BY <1>2, <1>3, <2>4, <3>1, <4>4, <4>5, MergeReadOwes
      <4>7. q \in Packet /\ f[q] = MergeRead(q, p) /\ f[q].line = q.line
        BY <4>1, <4>5 DEF DemandPacket
      <4>8. Range(rq') \subseteq DemandPacket
        BY <1>5, <4>4, <4>6, <4>7 DEF Held
      <4>9. \A d \in Client, y \in AnyLine :
               Owed(Range(rq'), d, y) <=> Owed(Range(rq), d, y) \/ (y = q.line /\ Owes(p, d))
        BY <4>4, <4>6, <4>7, IInvFacts, Replaced
      <4>10. \A d \in Client, y \in AnyLine :
               Owed(Range(rq'), d, y) <=> Owed(Range(rq), d, y) \/ (d = c /\ y = x)
        BY <1>3, <4>4, <4>9
      <4>11. Len(rq') <= RQ_SIZE
        BY <1>5, <4>3 DEF TypeOK
      <4> QED
        BY <4>3, <4>8, <4>10, <4>11
    <3>2. CASE ~ merge
      <4>1. rq' = Append(rq, p)
        BY <1>1, <1>8, <3>2
      <4>2. /\ rq' \in Seq(Packet) /\ Len(rq') = Len(rq) + 1 /\ NoLineTwice(rq')
            /\ Range(rq') = Range(rq) \cup {p}
        BY <1>2, <3>2, <4>1, IInvFacts, AppendAdds
      <4>3. Len(rq') <= RQ_SIZE
        BY <4>2, IInvFacts, L2CacheAssumption
      <4>4. Range(rq') \subseteq DemandPacket
        BY <1>3, <1>5, <4>2 DEF Held
      <4>5. \A d \in Client, y \in AnyLine :
               Owed(Range(rq'), d, y) <=> Owed(Range(rq), d, y) \/ (d = c /\ y = x)
        BY <1>2, <1>3, <4>2 DEF Owed
      <4> QED
        BY <4>2, <4>3, <4>4, <4>5
    <3> QED
      BY <3>1, <3>2
  <2>7. OwedInOnePlace'
    <3>1. OwedParts(Range(rq), Range(pq), mshr, waiting)
      BY <1>5 DEF OwedInOnePlace
    <3>2. \A d \in Client, y \in AnyLine :
             /\ Owed(Range(rq'), d, y) <=> Owed(Range(rq), d, y) \/ (y = p.line /\ Owes(p, d))
             /\ y \in w[d] <=> y \in waiting[d] \/ (y = p.line /\ Owes(p, d))
      BY <1>2, <1>3, <1>4, <2>6
    <3> HIDE DEF w
    <3>3. \A d \in Client : Owes(p, d) => p.line \notin waiting[d]
      BY <1>1, <1>2, <1>3
    <3>4. OwedParts(Range(rq'), Range(pq), mshr, w)
      BY <3>1, <3>2, <3>3, Granted
    <3> QED
      BY <1>1, <2>1, <3>4 DEF OwedInOnePlace
  <2>8. TypeOK'
    <3>1. waiting' \in [Client -> SUBSET (Line \cup PageTable)]
      BY <1>4, <2>1 DEF AnyLine
    <3> QED
      BY <1>1, <1>5, <2>1, <2>6, <3>1 DEF TypeOK, NoLineTwice
  <2> QED
    BY <1>1, <1>5, <1>6, <2>2, <2>5, <2>6, <2>7, <2>8 DEF IInv, Held, NoAssertionFails
<1> QED
  BY <1>7, <1>8

(* An L1 with a free MSHR entry, or the walker, asks while RQ has room. *)
LEMMA RequestsFit ==
    ASSUME IInv
    PROVE  /\ Cardinality(waiting["L1I"]) < L1I_MSHR_SIZE => Len(rq) < RQ_SIZE
           /\ Cardinality(waiting["L1D"]) < L1D_MSHR_SIZE => Len(rq) < RQ_SIZE
<1>1. /\ Cardinality(waiting["L1I"]) \in Nat /\ Cardinality(waiting["L1D"]) \in Nat
      /\ Cardinality(waiting["PTW"]) \in Nat
  BY IInvFacts, FiniteLines, FS_CardinalityType DEF Client
<1>2. /\ Len(rq) \in Nat /\ RQ_SIZE \in Nat /\ L1I_MSHR_SIZE \in Nat /\ L1D_MSHR_SIZE \in Nat
      /\ L1I_MSHR_SIZE + L1D_MSHR_SIZE + 1 <= RQ_SIZE
  BY IInvFacts, L2CacheAssumption
<1>3. ClientsBounded
  BY DEF IInv
<1> QED
  BY <1>1, <1>2, <1>3, ReadQueueHolds DEF ClientsBounded

(* An instruction fetch misses in the L1I. *)
LEMMA L1IReadStep ==
    ASSUME IInv, NEW x \in Line, L1I_read(x)
    PROVE  IInv'
<1>1. /\ Cardinality(waiting["L1I"]) < L1I_MSHR_SIZE /\ add_rq("L1I", x, TRUE)
      /\ "L1I" \in Client /\ x \in AnyLine
  BY DEF L1I_read, Client, AnyLine
<1> QED
  BY <1>1, RequestsFit, ReadStep

(* A load misses in the L1D. *)
LEMMA L1DReadStep ==
    ASSUME IInv, NEW x \in Line, L1D_read(x)
    PROVE  IInv'
<1>1. /\ Cardinality(waiting["L1D"]) < L1D_MSHR_SIZE /\ add_rq("L1D", x, FALSE)
      /\ "L1D" \in Client /\ x \in AnyLine
  BY DEF L1D_read, Client, AnyLine
<1> QED
  BY <1>1, RequestsFit, ReadStep

(* The walker misses in its caches. *)
LEMMA PTWReadStep ==
    ASSUME IInv, NEW x \in PageTable, NEW instruction \in BOOLEAN, PTW_read(x, instruction)
    PROVE  IInv'
<1>1. /\ waiting["PTW"] = {} /\ Len(rq) < RQ_SIZE /\ add_rq("PTW", x, instruction)
      /\ "PTW" \in Client /\ x \in AnyLine
  BY DEF PTW_read, Client, AnyLine
<1> QED
  BY <1>1, ReadStep

(* A prefetch p, which nobody that p will answer was waiting for *)
LEMMA PrefetchStep ==
    ASSUME IInv, NEW p \in PrefetchPacket, NEW w \in [Client -> SUBSET AnyLine],
           \A d \in Client : Owes(p, d) => p.line \notin waiting[d],
           \A d \in Client : w[d] = IF Owes(p, d) THEN waiting[d] \cup {p.line} ELSE waiting[d],
           /\ Cardinality(w["L1I"]) <= L1I_MSHR_SIZE
           /\ Cardinality(w["L1D"]) <= L1D_MSHR_SIZE
           /\ Cardinality(w["PTW"]) <= 1,
           add_pq(p, w)
    PROVE  IInv'
<1> DEFINE x == p.line
           forward == \E i \in DOMAIN wq : wq[i] = x
           merge == InQueue(pq, x) # {}
           f == [q \in Packet |-> MergePrefetch(q, p)]
<1>1. /\ Len(pq) < PQ_SIZE
      /\ UNCHANGED <<rq, wq, mshr, block, below, llc_rq, modified>>
      /\ \/ forward /\ Answer(w, ByFlags(p), x) /\ UNCHANGED pq
         \/ /\ ~ forward /\ waiting' = w /\ UNCHANGED <<l1d, failed>>
            /\ pq' = IF merge THEN [i \in DOMAIN pq |-> IF pq[i].line = x
                                                        THEN MergePrefetch(pq[i], p)
                                                        ELSE pq[i]]
                     ELSE Append(pq, p)
  BY DEF add_pq, llcVars
<1>2. TypeOK /\ Held /\ OwedInOnePlace /\ ClientsBounded
      /\ RequestsMatchMshr /\ ModifiedKept /\ NoAssertionFails
  BY DEF IInv
<1>3. RequestsMatchMshr' /\ ModifiedKept'
  BY <1>1, <1>2 DEF RequestsMatchMshr, ModifiedKept
<1>4. p \in Packet /\ x \in AnyLine /\ (Owes(p, "L1D") => x \in Line)
      /\ ByFlags(p) = {d \in Client : Owes(p, d)}
  BY DataForL1D, RecipientsAreOwed
<1>5. CASE forward
  <2>1. Answer(w, ByFlags(p), x) /\ pq' = pq
    BY <1>1, <1>5
  <2>2. \A d \in Client : Owes(p, d) => x \in w[d]
    OBVIOUS
  <2>3. /\ waiting' \in [Client -> SUBSET AnyLine]
        /\ \A d \in Client : waiting'[d] = IF Owes(p, d) THEN w[d] \ {x} ELSE w[d]
        /\ l1d' \subseteq Line /\ failed' = {}
    BY <1>4, <2>1, <2>2, IInvFacts, AnswerFacts
  <2>4. waiting' = waiting
    <3>1. \A d \in Client : waiting'[d] = waiting[d]
      BY <2>3
    <3> QED
      BY <2>3, <3>1, IInvFacts
  <2>5. TypeOK'
    BY <1>1, <1>2, <2>1, <2>3, <2>4 DEF TypeOK
  <2> QED
    BY <1>1, <1>2, <1>3, <2>1, <2>3, <2>4, <2>5
       DEF IInv, Held, OwedInOnePlace, ClientsBounded, NoAssertionFails
<1>6. CASE ~ forward
  <2>1. waiting' = w /\ l1d' = l1d /\ failed' = failed
    BY <1>1, <1>6
  <2>2. ClientsBounded'
    BY <2>1 DEF ClientsBounded
  <2>3. /\ pq' \in Seq(Packet) /\ Len(pq') <= PQ_SIZE /\ NoLineTwice(pq')
        /\ Range(pq') \subseteq PrefetchPacket
        /\ \A d \in Client, y \in AnyLine :
              Owed(Range(pq'), d, y) <=> Owed(Range(pq), d, y) \/ (y = p.line /\ Owes(p, d))
    <3>1. CASE merge
      <4>1. f \in [Packet -> Packet]
            /\ \A q \in Packet : f[q] = MergePrefetch(q, p) /\ f[q].line = q.line
        BY <1>4, MergePrefetchFields
      <4>2. pq' = Updated(pq, x, f)
        <5>1. pq' = [i \in DOMAIN pq |-> IF pq[i].line = x THEN MergePrefetch(pq[i], p) ELSE pq[i]]
          BY <1>1, <1>6, <3>1
        <5>2. \A i \in DOMAIN pq : pq[i] \in Packet
          BY IInvFacts, SeqFacts
        <5>3. \A i \in DOMAIN pq : f[pq[i]] = MergePrefetch(pq[i], p)
          BY <4>1, <5>2
        <5> QED
          BY <5>1, <5>3 DEF Updated
      <4> HIDE DEF f
      <4>3. /\ pq' \in Seq(Packet) /\ Len(pq') = Len(pq) /\ NoLineTwice(pq')
            /\ \E q \in Range(pq) : q.line = x /\ Range(pq') = (Range(pq) \ {q}) \cup {f[q]}
        <5>1. pq \in Seq(Packet) /\ NoLineTwice(pq)
          BY IInvFacts
        <5> QED
          BY <3>1, <4>1, <4>2, <5>1, ReplaceInQueue, SMTT(30)
      <4>4. PICK q \in Range(pq) : q.line = x /\ Range(pq') = (Range(pq) \ {q}) \cup {f[q]}
        BY <4>3
      <4>5. q \in PrefetchPacket
        BY <1>2 DEF Held
      <4>6. /\ MergePrefetch(q, p) \in PrefetchPacket
            /\ \A d \in Client : Owes(MergePrefetch(q, p), d) <=> Owes(q, d) \/ Owes(p, d)
        BY <4>4, <4>5, MergePrefetchOwes
      <4>7. q \in Packet /\ f[q] = MergePrefetch(q, p) /\ f[q].line = q.line
        BY <4>1, <4>5 DEF PrefetchPacket
      <4>8. Range(pq') \subseteq PrefetchPacket
        BY <1>2, <4>4, <4>6, <4>7 DEF Held
      <4>9. \A d \in Client, y \in AnyLine :
               Owed(Range(pq'), d, y) <=> Owed(Range(pq), d, y) \/ (y = q.line /\ Owes(p, d))
        BY <4>4, <4>6, <4>7, IInvFacts, Replaced
      <4>10. \A d \in Client, y \in AnyLine :
               Owed(Range(pq'), d, y) <=> Owed(Range(pq), d, y) \/ (y = p.line /\ Owes(p, d))
        BY <4>4, <4>9
      <4>11. Len(pq') <= PQ_SIZE
        BY <1>2, <4>3 DEF TypeOK
      <4> QED
        BY <4>3, <4>8, <4>10, <4>11
    <3>2. CASE ~ merge
      <4>1. pq' = Append(pq, p)
        BY <1>1, <1>6, <3>2
      <4>2. /\ pq' \in Seq(Packet) /\ Len(pq') = Len(pq) + 1 /\ NoLineTwice(pq')
            /\ Range(pq') = Range(pq) \cup {p}
        BY <1>4, <3>2, <4>1, IInvFacts, AppendAdds
      <4>3. Len(pq') <= PQ_SIZE
        BY <1>1, <4>2, IInvFacts, L2CacheAssumption
      <4>4. Range(pq') \subseteq PrefetchPacket
        BY <1>2, <4>2 DEF Held
      <4>5. \A d \in Client, y \in AnyLine :
               Owed(Range(pq'), d, y) <=> Owed(Range(pq), d, y) \/ (y = p.line /\ Owes(p, d))
        BY <4>2 DEF Owed
      <4> QED
        BY <4>2, <4>3, <4>4, <4>5
    <3> QED
      BY <3>1, <3>2
  <2>4. OwedInOnePlace'
    <3>1. OwedParts(Range(pq), Range(rq), mshr, waiting)
      BY <1>2, PlacesAlike DEF OwedInOnePlace
    <3>2. \A d \in Client, y \in AnyLine :
             /\ Owed(Range(pq'), d, y) <=> Owed(Range(pq), d, y) \/ (y = p.line /\ Owes(p, d))
             /\ y \in w[d] <=> y \in waiting[d] \/ (y = p.line /\ Owes(p, d))
      BY <2>3
    <3>3. OwedParts(Range(pq'), Range(rq), mshr, w)
      BY <3>1, <3>2, Granted
    <3>4. OwedParts(Range(rq), Range(pq'), mshr, w)
      BY <3>3, PlacesAlike
    <3> QED
      BY <1>1, <2>1, <3>4 DEF OwedInOnePlace
  <2>5. TypeOK'
    <3>1. waiting' \in [Client -> SUBSET (Line \cup PageTable)]
      BY <2>1 DEF AnyLine
    <3> QED
      BY <1>1, <1>2, <2>1, <2>3, <3>1 DEF TypeOK, NoLineTwice
  <2> QED
    BY <1>1, <1>2, <1>3, <2>1, <2>2, <2>3, <2>4, <2>5 DEF IInv, Held, NoAssertionFails
<1> QED
  BY <1>5, <1>6

(* The fields of a prefetch for an L1, and of one that goes no further up  *)
(* than the L2C                                                            *)
LEMMA PrefetchFields ==
    ASSUME NEW x \in AnyLine, NEW level \in FillLevel, NEW instruction \in BOOLEAN,
           level = 1 => x \in Line
    PROVE  LET p == Prefetch(x, level, instruction)
           IN  /\ p \in PrefetchPacket /\ p.line = x
               /\ \A c \in Client : Owes(p, c) <=>
                     level = 1 /\ ((c = "L1I" /\ instruction) \/ (c = "L1D" /\ ~ instruction))
<1> DEFINE p == Prefetch(x, level, instruction)
           i == level = 1 /\ instruction
           d == level = 1 /\ ~ instruction
<1>1. i \in BOOLEAN /\ d \in BOOLEAN
  OBVIOUS
<1>2. p = [line |-> x, type |-> "PREFETCH", fill_level |-> level,
           instruction |-> instruction, fill_l1i |-> i, fill_l1d |-> d,
           send_both_cache |-> FALSE, returned |-> "INFLIGHT"]
  BY DEF Prefetch
<1> HIDE DEF p, i, d
<1>3. /\ p \in Packet /\ p.line = x /\ p.type = "PREFETCH" /\ p.returned = "INFLIGHT"
      /\ p.fill_level = level /\ p.send_both_cache = FALSE
      /\ p.fill_l1i = i /\ p.fill_l1d = d
  BY <1>1, <1>2 DEF Packet, AnyLine
<1>4. (i \/ d) <=> level = 1
  BY DEF i, d
<1>5. p \in PrefetchPacket
  BY <1>3, <1>4 DEF PrefetchPacket
<1>6. \A c \in Client : Owes(p, c) <=> (c = "L1I" /\ i) \/ (c = "L1D" /\ d)
  BY <1>3 DEF Owes
<1> QED
  BY <1>3, <1>5, <1>6 DEF p, i, d

(* A prefetch of an L1 into itself *)
LEMMA L1PrefetchStep ==
    ASSUME IInv, NEW x \in Line, L1I_prefetch(x) \/ L1D_prefetch(x)
    PROVE  IInv'
<1>1. x \in AnyLine /\ 1 \in FillLevel
  BY DEF AnyLine, FillLevel
<1>2. ClientsBounded /\ waiting \in [Client -> SUBSET AnyLine]
  BY IInvFacts DEF IInv
<1>3. \A c \in Client : /\ Cardinality(waiting[c]) \in Nat
                        /\ x \notin waiting[c] =>
                              Cardinality(waiting[c] \cup {x}) = Cardinality(waiting[c]) + 1
  BY <1>2, FiniteLines, FS_CardinalityType, FS_AddElement
<1>4. L1I_MSHR_SIZE \in Nat /\ L1D_MSHR_SIZE \in Nat
  BY L2CacheAssumption
<1>5. CASE L1I_prefetch(x)
  <2> DEFINE p == Prefetch(x, 1, TRUE)
             w == [waiting EXCEPT !["L1I"] = @ \cup {x}]
  <2>1. /\ x \notin waiting["L1I"] /\ Cardinality(waiting["L1I"]) < L1I_MSHR_SIZE
        /\ add_pq(p, w)
    BY <1>5 DEF L1I_prefetch
  <2>2. /\ p \in PrefetchPacket /\ p.line = x
        /\ \A d \in Client : Owes(p, d) <=> d = "L1I"
    <3>1. TRUE \in BOOLEAN
      OBVIOUS
    <3>2. /\ p \in PrefetchPacket /\ p.line = x
          /\ \A d \in Client : Owes(p, d) <=>
                1 = 1 /\ ((d = "L1I" /\ TRUE) \/ (d = "L1D" /\ ~ TRUE))
      BY <1>1, <3>1, PrefetchFields
    <3> HIDE DEF p
    <3> QED
      BY <3>2
  <2>3. /\ w \in [Client -> SUBSET AnyLine]
        /\ \A d \in Client : w[d] = IF d = "L1I" THEN waiting[d] \cup {x} ELSE waiting[d]
    BY <1>2 DEF Client, AnyLine
  <2>4. /\ Cardinality(w["L1I"]) <= L1I_MSHR_SIZE
        /\ Cardinality(w["L1D"]) <= L1D_MSHR_SIZE
        /\ Cardinality(w["PTW"]) <= 1
    BY <1>2, <1>3, <1>4, <2>1, <2>3 DEF ClientsBounded, Client
  <2> HIDE DEF p, w
  <2> QED
    BY <2>1, <2>2, <2>3, <2>4, PrefetchStep
<1>6. CASE L1D_prefetch(x)
  <2> DEFINE p == Prefetch(x, 1, FALSE)
             w == [waiting EXCEPT !["L1D"] = @ \cup {x}]
  <2>1. /\ x \notin waiting["L1D"] /\ Cardinality(waiting["L1D"]) < L1D_MSHR_SIZE
        /\ add_pq(p, w)
    BY <1>6 DEF L1D_prefetch
  <2>2. /\ p \in PrefetchPacket /\ p.line = x
        /\ \A d \in Client : Owes(p, d) <=> d = "L1D"
    <3>1. FALSE \in BOOLEAN
      OBVIOUS
    <3>2. /\ p \in PrefetchPacket /\ p.line = x
          /\ \A d \in Client : Owes(p, d) <=>
                1 = 1 /\ ((d = "L1I" /\ FALSE) \/ (d = "L1D" /\ ~ FALSE))
      BY <1>1, <3>1, PrefetchFields
    <3> HIDE DEF p
    <3> QED
      BY <3>2
  <2>3. /\ w \in [Client -> SUBSET AnyLine]
        /\ \A d \in Client : w[d] = IF d = "L1D" THEN waiting[d] \cup {x} ELSE waiting[d]
    BY <1>2 DEF Client, AnyLine
  <2>4. /\ Cardinality(w["L1I"]) <= L1I_MSHR_SIZE
        /\ Cardinality(w["L1D"]) <= L1D_MSHR_SIZE
        /\ Cardinality(w["PTW"]) <= 1
    BY <1>2, <1>3, <1>4, <2>1, <2>3 DEF ClientsBounded, Client
  <2> HIDE DEF p, w
  <2> QED
    BY <2>1, <2>2, <2>3, <2>4, PrefetchStep
<1> QED
  BY <1>5, <1>6

(* A prefetch that stops at the L2C or the LLC is nobody's request. *)
LEMMA PrefetchLineStep ==
    ASSUME IInv, NEW x \in AnyLine, NEW level \in {2, 4}, prefetch_line(x, level)
    PROVE  IInv'
<1> DEFINE p == Prefetch(x, level, FALSE)
<1>1. p \in PrefetchPacket /\ \A d \in Client : ~ Owes(p, d)
  <2>1. level \in FillLevel /\ level # 1
    BY DEF FillLevel
  <2> QED
    BY <2>1, PrefetchFields
<1>2. add_pq(p, waiting) /\ ClientsBounded /\ waiting \in [Client -> SUBSET AnyLine]
  BY IInvFacts DEF prefetch_line, IInv
<1> HIDE DEF p
<1> QED
  BY <1>1, <1>2, PrefetchStep DEF ClientsBounded

-----------------------------------------------------------------------------
(* The write-backs.                                                        *)

(* Queues of lines grow and shrink without a repetition. *)
LEMMA LinesQueued ==
    ASSUME NEW q \in Seq(Line), \A i, j \in DOMAIN q : q[i] = q[j] => i = j
    PROVE  /\ \A x \in Line : (\A i \in DOMAIN q : q[i] # x) =>
                 /\ Append(q, x) \in Seq(Line) /\ Len(Append(q, x)) = Len(q) + 1
                 /\ \A i, j \in DOMAIN Append(q, x) : Append(q, x)[i] = Append(q, x)[j] => i = j
                 /\ \A i \in DOMAIN q : i \in DOMAIN Append(q, x) /\ Append(q, x)[i] = q[i]
                 /\ \E i \in DOMAIN Append(q, x) : Append(q, x)[i] = x
           /\ q # <<>> =>
                 /\ Tail(q) \in Seq(Line) /\ Len(Tail(q)) = Len(q) - 1 /\ Head(q) \in Line
                 /\ \A i, j \in DOMAIN Tail(q) : Tail(q)[i] = Tail(q)[j] => i = j
                 /\ \A i \in DOMAIN q : q[i] = Head(q) \/ \E j \in DOMAIN Tail(q) : Tail(q)[j] = q[i]
<1>1. /\ Len(q) \in Nat /\ DOMAIN q = 1 .. Len(q) /\ (q # <<>> => Len(q) > 0)
      /\ \A i \in 1 .. Len(q) : q[i] \in Line
  BY SeqFacts
<1>2. ASSUME NEW x \in Line, \A i \in DOMAIN q : q[i] # x
      PROVE  /\ Append(q, x) \in Seq(Line) /\ Len(Append(q, x)) = Len(q) + 1
             /\ \A i, j \in DOMAIN Append(q, x) : Append(q, x)[i] = Append(q, x)[j] => i = j
             /\ \A i \in DOMAIN q : i \in DOMAIN Append(q, x) /\ Append(q, x)[i] = q[i]
             /\ \E i \in DOMAIN Append(q, x) : Append(q, x)[i] = x
  <2>1. /\ Append(q, x) \in Seq(Line) /\ Len(Append(q, x)) = Len(q) + 1
        /\ \A i \in 1 .. Len(q) : Append(q, x)[i] = q[i]
        /\ Append(q, x)[Len(q) + 1] = x
    BY AppendProperties
  <2>2. DOMAIN Append(q, x) = 1 .. Len(q) + 1
    BY <2>1, SeqFacts
  <2>3. 1 .. Len(q) + 1 = (1 .. Len(q)) \cup {Len(q) + 1}
    BY <1>1
  <2>4. \A i, j \in DOMAIN Append(q, x) : Append(q, x)[i] = Append(q, x)[j] => i = j
    BY <1>1, <1>2, <2>1, <2>2, <2>3
  <2> QED
    BY <1>1, <2>1, <2>2, <2>3, <2>4
<1>3. ASSUME q # <<>>
      PROVE  /\ Tail(q) \in Seq(Line) /\ Len(Tail(q)) = Len(q) - 1 /\ Head(q) \in Line
             /\ \A i, j \in DOMAIN Tail(q) : Tail(q)[i] = Tail(q)[j] => i = j
             /\ \A i \in DOMAIN q : q[i] = Head(q) \/ \E j \in DOMAIN Tail(q) : Tail(q)[j] = q[i]
  <2>1. /\ Tail(q) \in Seq(Line) /\ Len(Tail(q)) = Len(q) - 1
        /\ \A i \in 1 .. Len(q) - 1 : Tail(q)[i] = q[i + 1]
    BY <1>1, <1>3, HeadTailProperties
  <2>2. DOMAIN Tail(q) = 1 .. Len(q) - 1
    BY <2>1, SeqFacts
  <2>3. Head(q) = q[1] /\ Head(q) \in Line
    BY <1>1, <1>3
  <2>4. \A i, j \in DOMAIN Tail(q) : Tail(q)[i] = Tail(q)[j] => i = j
    <3> SUFFICES ASSUME NEW i \in 1 .. Len(q) - 1, NEW j \in 1 .. Len(q) - 1,
                        Tail(q)[i] = Tail(q)[j]
                 PROVE  i = j
      BY <2>2
    <3>1. i + 1 \in 1 .. Len(q) /\ j + 1 \in 1 .. Len(q) /\ q[i + 1] = q[j + 1]
      BY <1>1, <2>1
    <3>2. i + 1 = j + 1
      BY <1>1, <3>1
    <3> QED
      BY <3>2
  <2>5. \A i \in DOMAIN q : q[i] = Head(q) \/ \E j \in DOMAIN Tail(q) : Tail(q)[j] = q[i]
    <3> SUFFICES ASSUME NEW i \in 1 .. Len(q), i # 1
                 PROVE  \E j \in DOMAIN Tail(q) : Tail(q)[j] = q[i]
      BY <1>1, <2>3
    <3>1. i - 1 \in 1 .. Len(q) - 1 /\ (i - 1) + 1 = i
      BY <1>1
    <3> QED
      BY <2>1, <2>2, <3>1
  <2> QED
    BY <2>1, <2>3, <2>4, <2>5
<1> QED
  BY <1>2, <1>3

(* What the invariant says of WQ *)
LEMMA WriteQueueFacts ==
    ASSUME IInv
    PROVE  /\ wq \in Seq(Line) /\ \A i, j \in DOMAIN wq : wq[i] = wq[j] => i = j
           /\ Len(wq) \in Nat /\ Len(wq) <= WQ_SIZE /\ WQ_SIZE \in Nat
           /\ block \in [Way -> Block] /\ modified \subseteq Line
  BY IInvFacts, L2CacheAssumption DEF IInv, TypeOK

(* The L1D writes a line back. *)
LEMMA AddWqStep ==
    ASSUME IInv, NEW x \in Line, add_wq(x)
    PROVE  IInv'
<1>1. /\ Len(wq) < WQ_SIZE
      /\ wq' = IF \E i \in DOMAIN wq : wq[i] = x THEN wq ELSE Append(wq, x)
      /\ l1d' = l1d \ {x} /\ modified' = modified \cup {x}
      /\ UNCHANGED <<rq, pq, mshr, block, waiting, below, llc_rq, failed>>
  BY DEF add_wq, llcVars
<1>2. TypeOK /\ Held /\ OwedInOnePlace /\ ClientsBounded
      /\ RequestsMatchMshr /\ ModifiedKept /\ NoAssertionFails
  BY DEF IInv
<1>3. /\ wq' \in Seq(Line) /\ Len(wq') <= WQ_SIZE
      /\ \A i, j \in DOMAIN wq' : wq'[i] = wq'[j] => i = j
      /\ \A i \in DOMAIN wq : \E j \in DOMAIN wq' : wq'[j] = wq[i]
      /\ \E i \in DOMAIN wq' : wq'[i] = x
  <2>1. CASE \E i \in DOMAIN wq : wq[i] = x
    BY <1>1, <2>1, WriteQueueFacts
  <2>2. CASE ~ \E i \in DOMAIN wq : wq[i] = x
    <3>1. wq' = Append(wq, x)
      BY <1>1, <2>2
    <3>2. \A i \in DOMAIN wq : wq[i] # x
      BY <2>2
    <3>3. wq \in Seq(Line) /\ \A i, j \in DOMAIN wq : wq[i] = wq[j] => i = j
      BY WriteQueueFacts
    <3>4. /\ wq' \in Seq(Line) /\ Len(wq') = Len(wq) + 1
          /\ \A i, j \in DOMAIN wq' : wq'[i] = wq'[j] => i = j
          /\ \A i \in DOMAIN wq : i \in DOMAIN wq' /\ wq'[i] = wq[i]
          /\ \E i \in DOMAIN wq' : wq'[i] = x
      BY <3>1, <3>2, <3>3, LinesQueued
    <3>5. Len(wq') <= WQ_SIZE
      BY <1>1, <3>4, WriteQueueFacts
    <3> QED
      BY <3>4, <3>5
  <2> QED
    BY <2>1, <2>2
<1>4. ModifiedKept'
  <2> SUFFICES ASSUME NEW y \in modified'
               PROVE  \/ \E i \in DOMAIN wq' : wq'[i] = y
                      \/ \E v \in Way : block[v].line = y /\ block[v].dirty
    BY <1>1 DEF ModifiedKept
  <2>1. CASE y = x
    BY <1>3, <2>1
  <2>2. CASE y \in modified
    BY <1>2, <1>3, <2>2 DEF ModifiedKept
  <2> QED
    BY <1>1, <2>1, <2>2
<1>5. TypeOK'
  BY <1>1, <1>2, <1>3 DEF TypeOK
<1> QED
  BY <1>1, <1>2, <1>4, <1>5
     DEF IInv, Held, OwedInOnePlace, ClientsBounded, RequestsMatchMshr, NoAssertionFails

(* A line comes into way w, and what was there is written to the LLC if it *)
(* is modified: no other modified line is lost.                            *)
LEMMA WayTaken ==
    ASSUME IInv, NEW w \in Way, NEW x \in AnyLine, NEW dirty \in BOOLEAN,
           Evict(w), Fill(w, x, dirty)
    PROVE  /\ block' \in [Way -> Block] /\ modified' \subseteq modified
           /\ block'[w] = [line |-> x, dirty |-> dirty]
           /\ \A y \in modified' :
                 (\E v \in Way : block[v].line = y /\ block[v].dirty) =>
                    \E v \in Way : block'[v].line = y /\ block'[v].dirty
<1>1. block' = [block EXCEPT ![w] = [line |-> x, dirty |-> dirty]]
  BY DEF Fill
<1>2. block' \in [Way -> Block] /\ block'[w] = [line |-> x, dirty |-> dirty]
      /\ \A v \in Way : v # w => block'[v] = block[v]
  BY <1>1, WriteQueueFacts DEF Block, AnyLine
<1>3. modified' = IF block[w].dirty THEN modified \ {block[w].line} ELSE modified
  BY DEF Evict
<1> QED
  BY <1>2, <1>3

(* The head of WQ is written into the set. *)
LEMMA WritebackStep ==
    ASSUME IInv, NEW w \in Way, handle_writeback(w)
    PROVE  IInv'
<1> DEFINE x == Head(wq)
<1>1. /\ wq # <<>> /\ wq' = Tail(wq)
      /\ \/ block[w].line = x /\ Fill(w, x, TRUE) /\ UNCHANGED modified
         \/ Evict(w) /\ Fill(w, x, TRUE)
      /\ UNCHANGED <<rq, pq, mshr, waiting, l1d, below, llc_rq, failed>>
  BY DEF handle_writeback, llcVars
<1>2. TypeOK /\ Held /\ OwedInOnePlace /\ ClientsBounded
      /\ RequestsMatchMshr /\ ModifiedKept /\ NoAssertionFails
  BY DEF IInv
<1>3. wq \in Seq(Line) /\ \A i, j \in DOMAIN wq : wq[i] = wq[j] => i = j
  BY WriteQueueFacts
<1>4. /\ wq' \in Seq(Line) /\ Len(wq') = Len(wq) - 1 /\ x \in Line
      /\ \A i, j \in DOMAIN wq' : wq'[i] = wq'[j] => i = j
      /\ \A i \in DOMAIN wq : wq[i] = x \/ \E j \in DOMAIN wq' : wq'[j] = wq[i]
  BY <1>1, <1>3, LinesQueued
<1>5. /\ block' \in [Way -> Block] /\ modified' \subseteq modified
      /\ block'[w].line = x /\ block'[w].dirty
      /\ \A y \in modified' :
            (\E v \in Way : block[v].line = y /\ block[v].dirty) =>
               \E v \in Way : block'[v].line = y /\ block'[v].dirty
  <2>1. x \in AnyLine /\ TRUE \in BOOLEAN
    BY <1>4 DEF AnyLine
  <2>2. CASE Evict(w) /\ Fill(w, x, TRUE)
    <3>1. /\ block' \in [Way -> Block] /\ modified' \subseteq modified
          /\ block'[w] = [line |-> x, dirty |-> TRUE]
          /\ \A y \in modified' :
                (\E v \in Way : block[v].line = y /\ block[v].dirty) =>
                   \E v \in Way : block'[v].line = y /\ block'[v].dirty
      BY <2>1, <2>2, WayTaken
    <3> HIDE DEF x
    <3> QED
      BY <3>1
  <2>3. CASE block[w].line = x /\ Fill(w, x, TRUE) /\ UNCHANGED modified
    <3>1. block' = [block EXCEPT ![w] = [line |-> x, dirty |-> TRUE]]
      BY <2>3 DEF Fill
    <3>2. block' \in [Way -> Block] /\ block'[w] = [line |-> x, dirty |-> TRUE]
          /\ \A v \in Way : v # w => block'[v] = block[v]
      BY <1>4, <3>1, WriteQueueFacts DEF Block
    <3> QED
      BY <2>3, <3>2
  <2> QED
    BY <1>1, <2>2, <2>3
<1>6. ModifiedKept'
  <2> SUFFICES ASSUME NEW y \in modified'
               PROVE  \/ \E i \in DOMAIN wq' : wq'[i] = y
                      \/ \E v \in Way : block'[v].line = y /\ block'[v].dirty
    BY DEF ModifiedKept
  <2>1. \/ \E i \in DOMAIN wq : wq[i] = y
        \/ \E v \in Way : block[v].line = y /\ block[v].dirty
    BY <1>2, <1>5 DEF ModifiedKept
  <2> QED
    BY <1>4, <1>5, <2>1
<1>7. TypeOK'
  <2>1. Len(wq') <= WQ_SIZE /\ modified' \subseteq Line
    BY <1>4, <1>5, WriteQueueFacts
  <2> QED
    BY <1>1, <1>2, <1>4, <1>5, <2>1 DEF TypeOK
<1> QED
  BY <1>1, <1>2, <1>6, <1>7
     DEF IInv, Held, OwedInOnePlace, ClientsBounded, RequestsMatchMshr, NoAssertionFails

-----------------------------------------------------------------------------
(* The entries of MSHR.                                                    *)

(* An entry takes another's place, for the same line. *)
LEMMA EntryReplaced ==
    ASSUME NEW S \in SUBSET Packet, IsFiniteSet(S), Distinct(S), NEW m \in S,
           NEW n \in Packet, n.line = m.line, NEW S2, S2 = (S \ {m}) \cup {n}
    PROVE  /\ S2 \subseteq Packet /\ IsFiniteSet(S2) /\ Distinct(S2)
           /\ Cardinality(S2) = Cardinality(S)
<1>1. S2 \subseteq Packet /\ Distinct(S2)
  BY DEF Distinct
<1>2. n \notin S \ {m}
  BY DEF Distinct
<1>3. /\ IsFiniteSet(S \ {m}) /\ Cardinality(S \ {m}) = Cardinality(S) - 1
      /\ Cardinality(S) \in Nat
  BY FS_RemoveElement, FS_CardinalityType
<1>4. IsFiniteSet(S2) /\ Cardinality(S2) = Cardinality(S \ {m}) + 1
  BY <1>2, <1>3, FS_AddElement
<1> QED
  BY <1>1, <1>3, <1>4

(* What the invariant says of MSHR *)
LEMMA MshrFacts ==
    ASSUME IInv
    PROVE  /\ mshr \in SUBSET Packet /\ mshr \subseteq Entry /\ IsFiniteSet(mshr) /\ Distinct(mshr)
           /\ Cardinality(mshr) \in Nat /\ Cardinality(mshr) <= MSHR_SIZE
           /\ MSHR_SIZE \in Nat
           /\ below = {m.line : m \in {n \in mshr : n.returned = "INFLIGHT"}}
           /\ llc_rq \subseteq below /\ below \subseteq AnyLine
<1>1. IsFiniteSet(mshr) /\ Cardinality(mshr) \in Nat
  BY FS_CardinalityType DEF IInv, Held
<1> QED
  BY <1>1, IInvFacts, L2CacheAssumption DEF IInv, TypeOK, Held, RequestsMatchMshr, AnyLine

(* The answer for a packet p, which those it owes wait for *)
LEMMA AnswerStep ==
    ASSUME IInv, NEW p \in DemandPacket \cup PrefetchPacket \cup Entry, NEW to,
           to = {c \in Client : Owes(p, c)},
           \A c \in Client : Owes(p, c) => p.line \in waiting[c],
           Answer(waiting, to, p.line)
    PROVE  /\ waiting' \in [Client -> SUBSET AnyLine]
           /\ \A c \in Client : waiting'[c] = IF Owes(p, c) THEN waiting[c] \ {p.line} ELSE waiting[c]
           /\ l1d' \subseteq Line /\ failed' = {}
           /\ ClientsBounded'
<1>1. p.line \in AnyLine /\ (Owes(p, "L1D") => p.line \in Line)
  BY DataForL1D
<1>2. waiting \in [Client -> SUBSET AnyLine] /\ l1d \subseteq Line /\ failed = {}
  BY IInvFacts
<1>3. /\ waiting' \in [Client -> SUBSET AnyLine]
      /\ \A c \in Client : waiting'[c] = IF Owes(p, c) THEN waiting[c] \ {p.line} ELSE waiting[c]
      /\ l1d' \subseteq Line /\ failed' = {}
  BY <1>1, <1>2, AnswerFacts
<1>4. \A c \in Client : waiting'[c] \subseteq waiting[c]
  BY <1>3
<1>5. ClientsBounded'
  BY <1>2, <1>4, BoundsKept DEF IInv
<1> QED
  BY <1>3, <1>5

(* An answered entry fills a way and answers its clients. *)
LEMMA FillStep ==
    ASSUME IInv, NEW m \in mshr, NEW w \in Way, handle_fill(m, w)
    PROVE  IInv'
<1>1. /\ m.returned = "COMPLETED" /\ Evict(w) /\ Fill(w, m.line, FALSE)
      /\ Answer(waiting, Recipients(m), m.line)
      /\ mshr' = mshr \ {m}
      /\ UNCHANGED <<rq, wq, pq, below, llc_rq>>
  BY DEF handle_fill, queueVars, llcVars
<1>2. TypeOK /\ Held /\ OwedInOnePlace /\ ClientsBounded
      /\ RequestsMatchMshr /\ ModifiedKept /\ NoAssertionFails
  BY DEF IInv
<1>3. m \in Entry /\ m.line \in AnyLine /\ Recipients(m) = {c \in Client : Owes(m, c)}
  BY MshrFacts, DataForL1D, RecipientsAreOwed
<1>4. OwedParts(mshr, Range(pq), Range(rq), waiting)
  BY <1>2, PlacesAlike DEF OwedInOnePlace
<1>5. \A c \in Client : Owes(m, c) => m.line \in waiting[c]
  BY <1>3, <1>4 DEF OwedParts, Owed
<1>6. /\ waiting' \in [Client -> SUBSET AnyLine]
      /\ \A c \in Client : waiting'[c] = IF Owes(m, c) THEN waiting[c] \ {m.line} ELSE waiting[c]
      /\ l1d' \subseteq Line /\ failed' = {}
      /\ ClientsBounded'
  BY <1>1, <1>3, <1>5, AnswerStep
<1>7. OwedInOnePlace'
  <2>1. OwedParts(mshr \ {m}, Range(pq), Range(rq), waiting')
    BY <1>3, <1>4, <1>6, MshrFacts, Answered
  <2>2. OwedParts(Range(rq), Range(pq), mshr \ {m}, waiting')
    BY <2>1, PlacesAlike
  <2> QED
    BY <1>1, <2>2 DEF OwedInOnePlace
<1>8. /\ block' \in [Way -> Block] /\ modified' \subseteq modified
      /\ \A y \in modified' :
            (\E v \in Way : block[v].line = y /\ block[v].dirty) =>
               \E v \in Way : block'[v].line = y /\ block'[v].dirty
  BY <1>1, <1>3, WayTaken
<1>9. ModifiedKept'
  <2> SUFFICES ASSUME NEW y \in modified'
               PROVE  \/ \E i \in DOMAIN wq : wq[i] = y
                      \/ \E v \in Way : block'[v].line = y /\ block'[v].dirty
    BY <1>1 DEF ModifiedKept
  <2>1. \/ \E i \in DOMAIN wq : wq[i] = y
        \/ \E v \in Way : block[v].line = y /\ block[v].dirty
    BY <1>2, <1>8 DEF ModifiedKept
  <2> QED
    BY <1>8, <2>1
<1>10. /\ mshr' \subseteq Packet /\ mshr' \subseteq Entry /\ IsFiniteSet(mshr') /\ Distinct(mshr')
       /\ Cardinality(mshr') <= MSHR_SIZE
  <2>1. IsFiniteSet(mshr') /\ Cardinality(mshr') = Cardinality(mshr) - 1
    BY <1>1, MshrFacts, FS_RemoveElement
  <2>2. Cardinality(mshr') <= MSHR_SIZE
    BY <2>1, MshrFacts
  <2> QED
    BY <1>1, <2>1, <2>2, MshrFacts DEF Distinct
<1>11. RequestsMatchMshr'
  <2>1. {n \in mshr' : n.returned = "INFLIGHT"} = {n \in mshr : n.returned = "INFLIGHT"}
    BY <1>1
  <2> QED
    BY <1>1, <2>1, MshrFacts DEF RequestsMatchMshr
<1>12. TypeOK'
  <2>1. modified' \subseteq Line
    BY <1>8, WriteQueueFacts
  <2> QED
    BY <1>1, <1>2, <1>6, <1>8, <1>10, <2>1 DEF TypeOK, Distinct, AnyLine
<1> QED
  BY <1>1, <1>2, <1>6, <1>7, <1>9, <1>10, <1>11, <1>12 DEF IInv, Held, NoAssertionFails

(* The LLC takes a request out of its RQ. *)
LEMMA LLCTakesStep ==
    ASSUME IInv, NEW x, LLC_takes(x)
    PROVE  IInv'
<1>1. /\ llc_rq' = llc_rq \ {x}
      /\ UNCHANGED <<rq, wq, pq, mshr, block, waiting, l1d, below, modified, failed>>
  BY DEF LLC_takes, queueVars
<1> QED
  BY <1>1 DEF IInv, TypeOK, Held, OwedInOnePlace, ClientsBounded, RequestsMatchMshr,
              ModifiedKept, NoAssertionFails

(* The LLC answers. *)
LEMMA ReturnDataStep ==
    ASSUME IInv, NEW x, return_data(x)
    PROVE  IInv'
<1> DEFINE f == [n \in Packet |-> [n EXCEPT !.returned = "COMPLETED"]]
<1>1. /\ x \in below \ llc_rq
      /\ mshr' = {IF m.line = x THEN [m EXCEPT !.returned = "COMPLETED"] ELSE m : m \in mshr}
      /\ failed' = IF InMshr(x) = {} THEN failed \cup {"return_data"} ELSE failed
      /\ below' = below \ {x}
      /\ UNCHANGED <<rq, wq, pq, block, waiting, l1d, llc_rq, modified>>
  BY DEF return_data, queueVars
<1>2. TypeOK /\ Held /\ OwedInOnePlace /\ ClientsBounded
      /\ RequestsMatchMshr /\ ModifiedKept /\ NoAssertionFails
  BY DEF IInv
<1>3. PICK m \in mshr : m.line = x /\ m.returned = "INFLIGHT"
  BY <1>1, MshrFacts
<1>4. failed' = failed
  BY <1>1, <1>3 DEF InMshr
<1>5. \A n \in Packet : /\ f[n] = [n EXCEPT !.returned = "COMPLETED"]
                        /\ f[n] \in Packet /\ f[n].line = n.line /\ f[n].type = n.type
                        /\ f[n].fill_level = n.fill_level
                        /\ f[n].send_both_cache = n.send_both_cache
                        /\ f[n].fill_l1i = n.fill_l1i /\ f[n].fill_l1d = n.fill_l1d
                        /\ f[n].returned = "COMPLETED"
  BY DEF Packet
<1>6. f \in [Packet -> Packet]
  BY <1>5
<1>7. mshr' = (mshr \ {m}) \cup {f[m]}
  <2>1. mshr' = Changed(mshr, m.line, f)
    <3> DEFINE e(n) == IF n.line = x THEN [n EXCEPT !.returned = "COMPLETED"] ELSE n
               g(n) == IF n.line = m.line THEN f[n] ELSE n
    <3>1. \A n \in mshr : e(n) = g(n)
      BY <1>3, <1>5, MshrFacts
    <3>2. mshr' = {e(n) : n \in mshr}
      BY <1>1
    <3> HIDE DEF e, g
    <3>3. mshr' = {g(n) : n \in mshr}
      BY <3>1, <3>2
    <3> QED
      BY <3>3 DEF g, Changed
  <2> HIDE DEF f
  <2> QED
    BY <1>6, <2>1, MshrFacts, ReplaceInMshr
<1> HIDE DEF f
<1>8. m \in Packet /\ m \in Entry
  BY MshrFacts
<1>9. f[m] \in Entry /\ \A c \in Client : Owes(f[m], c) <=> Owes(m, c)
  <2>1. f[m] \in Entry
    BY <1>5, <1>8 DEF Entry
  <2>2. \A c \in Client : Owes(f[m], c) <=> Owes(m, c)
    BY <1>5, <1>8 DEF Owes
  <2> QED
    BY <2>1, <2>2
<1>10. /\ mshr' \subseteq Packet /\ IsFiniteSet(mshr') /\ Distinct(mshr')
       /\ Cardinality(mshr') = Cardinality(mshr)
  <2>1. f[m] \in Packet /\ f[m].line = m.line
    BY <1>5, <1>8
  <2> QED
    BY <1>7, <2>1, MshrFacts, EntryReplaced
<1>11. OwedInOnePlace'
  <2>1. OwedParts(mshr, Range(pq), Range(rq), waiting)
    BY <1>2, PlacesAlike DEF OwedInOnePlace
  <2>2. \A c \in Client : Owes(f[m], c) <=> Owes(m, c) \/ Owes(m, c)
    BY <1>9
  <2>3. f[m].line = m.line
    BY <1>5, <1>8
  <2>4. \A c \in Client, y \in AnyLine :
           Owed(mshr', c, y) <=> Owed(mshr, c, y) \/ (y = m.line /\ Owes(m, c))
    BY <1>7, <2>2, <2>3, MshrFacts, Replaced
  <2>5. \A c \in Client, y \in AnyLine : Owed(mshr', c, y) <=> Owed(mshr, c, y)
    BY <2>4 DEF Owed
  <2>6. OwedParts(mshr', Range(pq), Range(rq), waiting)
    BY <2>1, <2>5, Indifferent
  <2>7. OwedParts(Range(rq), Range(pq), mshr', waiting)
    BY <2>6, PlacesAlike
  <2> QED
    BY <1>1, <2>7 DEF OwedInOnePlace
<1>12. RequestsMatchMshr'
  <2>1. {n \in mshr' : n.returned = "INFLIGHT"} = {n \in mshr : n.returned = "INFLIGHT"} \ {m}
    BY <1>5, <1>7, <1>8
  <2>2. \A n \in mshr : n.line = x <=> n = m
    BY <1>3, MshrFacts DEF Distinct
  <2>3. below' = {n.line : n \in {k \in mshr : k.returned = "INFLIGHT"} \ {m}}
    BY <1>1, <2>2, MshrFacts
  <2> QED
    BY <2>1, <2>3 DEF RequestsMatchMshr
<1>13. TypeOK'
  <2>1. llc_rq' \subseteq below' /\ below' \subseteq AnyLine
    BY <1>1, MshrFacts
  <2>2. Cardinality(mshr') <= MSHR_SIZE
    BY <1>10, MshrFacts
  <2> QED
    BY <1>1, <1>2, <1>10, <2>1, <2>2 DEF TypeOK, Distinct, AnyLine
<1>14. mshr' \subseteq Entry
  BY <1>7, <1>9, MshrFacts
<1> QED
  BY <1>1, <1>2, <1>4, <1>10, <1>11, <1>12, <1>13, <1>14
     DEF IInv, Held, ClientsBounded, ModifiedKept, NoAssertionFails

-----------------------------------------------------------------------------
(* The reads and prefetches that the L2C handles.                          *)

(* A packet for a line that MSHR does not hold takes an entry. *)
LEMMA EntryTaken ==
    ASSUME IInv, NEW p \in Entry, p.returned = "INFLIGHT", InMshr(p.line) = {}, MshrHasRoom,
           mshr' = mshr \cup {p}, below' = below \cup {p.line}
    PROVE  /\ mshr' \subseteq Packet /\ mshr' \subseteq Entry /\ IsFiniteSet(mshr')
           /\ Distinct(mshr') /\ Cardinality(mshr') <= MSHR_SIZE
           /\ RequestsMatchMshr' /\ below' \subseteq AnyLine
           /\ \A m \in mshr : m.line # p.line
<1>1. p \in Packet /\ p.line \in AnyLine
  BY DataForL1D
<1>2. \A m \in mshr : m.line # p.line
  BY DEF InMshr
<1>3. IsFiniteSet(mshr') /\ Cardinality(mshr') = Cardinality(mshr) + 1
  BY <1>2, MshrFacts, FS_AddElement
<1>4. Cardinality(mshr') <= MSHR_SIZE
  BY <1>3, MshrFacts DEF MshrHasRoom
<1>5. mshr' \subseteq Packet /\ mshr' \subseteq Entry /\ Distinct(mshr')
  BY <1>1, <1>2, MshrFacts DEF Distinct
<1>6. RequestsMatchMshr'
  <2>1. {n \in mshr' : n.returned = "INFLIGHT"} = {n \in mshr : n.returned = "INFLIGHT"} \cup {p}
    OBVIOUS
  <2>2. below' = {n.line : n \in {k \in mshr : k.returned = "INFLIGHT"} \cup {p}}
    BY MshrFacts
  <2> QED
    BY <2>1, <2>2 DEF RequestsMatchMshr
<1> QED
  BY <1>1, <1>2, <1>3, <1>4, <1>5, <1>6, MshrFacts

(* A packet merges into the entry of its line. *)
LEMMA EntryMerged ==
    ASSUME IInv, NEW x, InMshr(x) # {}, NEW f \in [Packet -> Packet],
           \A n \in mshr : n.line = x =>
              f[n] \in Entry /\ f[n].line = n.line /\ f[n].returned = n.returned,
           mshr' = Changed(mshr, x, f), below' = below
    PROVE  /\ mshr' \subseteq Packet /\ mshr' \subseteq Entry /\ IsFiniteSet(mshr')
           /\ Distinct(mshr') /\ Cardinality(mshr') <= MSHR_SIZE
           /\ RequestsMatchMshr'
           /\ \E m \in mshr : m.line = x /\ mshr' = (mshr \ {m}) \cup {f[m]}
<1>1. PICK m \in mshr : m.line = x
  BY DEF InMshr
<1>2. mshr' = (mshr \ {m}) \cup {f[m]}
  BY <1>1, MshrFacts, ReplaceInMshr
<1>3. m \in Packet /\ f[m] \in Entry /\ f[m].line = m.line /\ f[m].returned = m.returned
  BY <1>1, MshrFacts
<1>4. f[m] \in Packet
  BY <1>3
<1>5. /\ mshr' \subseteq Packet /\ IsFiniteSet(mshr') /\ Distinct(mshr')
      /\ Cardinality(mshr') = Cardinality(mshr)
  BY <1>2, <1>3, <1>4, MshrFacts, EntryReplaced
<1>6. mshr' \subseteq Entry /\ Cardinality(mshr') <= MSHR_SIZE
  BY <1>2, <1>3, <1>5, MshrFacts
<1>7. RequestsMatchMshr'
  <2>1. {n.line : n \in {k \in mshr' : k.returned = "INFLIGHT"}}
           = {n.line : n \in {k \in mshr : k.returned = "INFLIGHT"}}
    BY <1>2, <1>3
  <2> QED
    BY <2>1, MshrFacts DEF RequestsMatchMshr
<1> QED
  BY <1>1, <1>2, <1>5, <1>6, <1>7

(* No more is asked of the LLC than MSHR holds: its RQ has room. *)
LEMMA LLCHasRoom ==
    ASSUME IInv, MshrHasRoom
    PROVE  Cardinality(llc_rq) < LLC_RQ_SIZE
<1> DEFINE f == [x \in llc_rq |-> CHOOSE m \in mshr : m.line = x]
<1>1. \A x \in llc_rq : f[x] \in mshr /\ f[x].line = x
  BY MshrFacts
<1>2. f \in Injection(llc_rq, mshr)
  <2>1. f \in [llc_rq -> mshr]
    BY <1>1
  <2> HIDE DEF f
  <2> QED
    BY <1>1, <2>1 DEF Injection, IsInjective
<1>3. /\ IsFiniteSet(llc_rq) /\ Cardinality(llc_rq) <= Cardinality(mshr)
      /\ Cardinality(llc_rq) \in Nat
  BY <1>2, MshrFacts, FS_Injection, FS_CardinalityType
<1>4. MSHR_SIZE <= LLC_RQ_SIZE /\ LLC_RQ_SIZE \in Nat
  BY L2CacheAssumption
<1> QED
  BY <1>3, <1>4, MshrFacts DEF MshrHasRoom

(* A read may hold an entry as it is, and so may a prefetch. *)
LEMMA PacketsFit == DemandPacket \subseteq Entry /\ PrefetchPacket \subseteq Entry
<1>1. DemandPacket \subseteq Entry
  <2> SUFFICES ASSUME NEW p \in DemandPacket PROVE p \in Entry
    OBVIOUS
  <2>1. CASE p.type = "TRANSLATION"
    BY <2>1 DEF DemandPacket, Entry
  <2>2. CASE p.type = "LOAD"
    <3>1. p.send_both_cache \/ p.fill_l1i \/ p.fill_l1d
      BY <2>2 DEF DemandPacket
    <3> QED
      BY <2>2, <3>1 DEF DemandPacket, Entry
  <2> QED
    BY <2>1, <2>2 DEF DemandPacket
<1>2. PrefetchPacket \subseteq Entry
  BY DEF PrefetchPacket, Entry
<1> QED
  BY <1>1, <1>2

(* A read is answered, takes an entry of MSHR or merges into one. *)
LEMMA HandleReadStep ==
    ASSUME IInv, handle_read
    PROVE  IInv'
<1> DEFINE p == Head(rq)
<1>1. /\ rq # <<>> /\ rq' = Tail(rq)
      /\ UNCHANGED <<wq, pq, block, modified>>
      /\ \/ /\ Answer(waiting, Recipients(p), p.line)
            /\ UNCHANGED <<mshr, below, llc_rq>>
         \/ /\ InMshr(p.line) = {} /\ MshrHasRoom
            /\ mshr' = mshr \cup {p} /\ AskLLC(p.line)
            /\ UNCHANGED <<waiting, l1d, failed>>
         \/ /\ InMshr(p.line) # {}
            /\ mshr' = {IF m.line = p.line THEN MergeMshr(m, p) ELSE m : m \in mshr}
            /\ UNCHANGED <<waiting, l1d, failed, below, llc_rq>>
  BY DEF handle_read, llcVars
<1>2. TypeOK /\ Held /\ OwedInOnePlace /\ ClientsBounded
      /\ RequestsMatchMshr /\ ModifiedKept /\ NoAssertionFails
  BY DEF IInv
<1>3. rq \in Seq(Packet) /\ NoLineTwice(rq) /\ Distinct(Range(rq)) /\ Len(rq) \in Nat
  BY IInvFacts
<1>4. /\ rq' \in Seq(Packet) /\ Len(rq') = Len(rq) - 1 /\ NoLineTwice(rq')
      /\ p \in Range(rq) /\ p \in Packet /\ Range(rq') = Range(rq) \ {p}
  BY <1>1, <1>3, TailRemoves
<1> HIDE DEF p
<1>5. p \in DemandPacket /\ p \in Entry /\ p.returned = "INFLIGHT" /\ p.line \in AnyLine
  <2>1. p \in DemandPacket
    BY <1>2, <1>4 DEF Held
  <2> QED
    BY <2>1, PacketsFit, DataForL1D DEF DemandPacket
<1>6. OwedParts(Range(rq), Range(pq), mshr, waiting)
  BY <1>2 DEF OwedInOnePlace
<1>7. Len(rq') <= RQ_SIZE /\ Range(rq') \subseteq DemandPacket
  <2>1. Len(rq) <= RQ_SIZE /\ RQ_SIZE \in Nat
    BY <1>2, L2CacheAssumption DEF TypeOK
  <2> QED
    BY <1>2, <1>3, <1>4, <2>1 DEF Held
<1>8. ModifiedKept'
  BY <1>1, <1>2 DEF ModifiedKept
(* What is left to show of each way to handle the read *)
<1>9. ASSUME /\ waiting' \in [Client -> SUBSET AnyLine] /\ l1d' \subseteq Line /\ failed' = {}
             /\ mshr' \subseteq Packet /\ mshr' \subseteq Entry /\ IsFiniteSet(mshr')
             /\ Distinct(mshr') /\ Cardinality(mshr') <= MSHR_SIZE
             /\ llc_rq' \subseteq below' /\ below' \subseteq AnyLine
             /\ OwedParts(Range(rq) \ {p}, Range(pq), mshr', waiting')
             /\ ClientsBounded' /\ RequestsMatchMshr'
      PROVE  IInv'
  <2>1. OwedInOnePlace'
    BY <1>1, <1>4, <1>9 DEF OwedInOnePlace
  <2>2. TypeOK'
    BY <1>1, <1>2, <1>4, <1>7, <1>9 DEF TypeOK, NoLineTwice, Distinct, AnyLine
  <2> QED
    BY <1>1, <1>2, <1>7, <1>8, <1>9, <2>1, <2>2 DEF IInv, Held, NoAssertionFails
<1>10. CASE Answer(waiting, Recipients(p), p.line) /\ UNCHANGED <<mshr, below, llc_rq>>
  <2>1. Recipients(p) = {c \in Client : Owes(p, c)}
    BY <1>5, RecipientsAreOwed
  <2>2. \A c \in Client : Owes(p, c) => p.line \in waiting[c]
    BY <1>4, <1>5, <1>6 DEF OwedParts, Owed
  <2>3. /\ waiting' \in [Client -> SUBSET AnyLine]
        /\ \A c \in Client : waiting'[c] = IF Owes(p, c) THEN waiting[c] \ {p.line} ELSE waiting[c]
        /\ l1d' \subseteq Line /\ failed' = {}
        /\ ClientsBounded'
    BY <1>5, <1>10, <2>1, <2>2, AnswerStep
  <2>4. OwedParts(Range(rq) \ {p}, Range(pq), mshr, waiting')
    BY <1>3, <1>4, <1>5, <1>6, <2>3, Answered
  <2>5. RequestsMatchMshr'
    BY <1>2, <1>10 DEF RequestsMatchMshr
  <2>6. mshr' = mshr /\ below' = below /\ llc_rq' = llc_rq
    BY <1>10
  <2> QED
    BY <1>9, <2>3, <2>4, <2>5, <2>6, MshrFacts
<1>11. CASE /\ InMshr(p.line) = {} /\ MshrHasRoom
            /\ mshr' = mshr \cup {p} /\ AskLLC(p.line)
            /\ UNCHANGED <<waiting, l1d, failed>>
  <2>1. below' = below \cup {p.line} /\ llc_rq' = llc_rq \cup {p.line}
    BY <1>11, LLCHasRoom DEF AskLLC
  <2>2. /\ mshr' \subseteq Packet /\ mshr' \subseteq Entry /\ IsFiniteSet(mshr')
        /\ Distinct(mshr') /\ Cardinality(mshr') <= MSHR_SIZE
        /\ RequestsMatchMshr' /\ below' \subseteq AnyLine
        /\ \A m \in mshr : m.line # p.line
    BY <1>5, <1>11, <2>1, EntryTaken
  <2>3. OwedParts(Range(rq) \ {p}, Range(pq), mshr \cup {p}, waiting)
    BY <1>3, <1>4, <1>6, <2>2, Moved
  <2>4. ClientsBounded'
    BY <1>2, <1>11 DEF ClientsBounded
  <2>5. llc_rq' \subseteq below'
    BY <2>1, MshrFacts
  <2>6. waiting' = waiting /\ l1d' = l1d /\ failed' = failed /\ mshr' = mshr \cup {p}
    BY <1>11
  <2> QED
    BY <1>9, <2>2, <2>3, <2>4, <2>5, <2>6, IInvFacts
<1>12. CASE /\ InMshr(p.line) # {}
            /\ mshr' = {IF m.line = p.line THEN MergeMshr(m, p) ELSE m : m \in mshr}
            /\ UNCHANGED <<waiting, l1d, failed, below, llc_rq>>
  <2> DEFINE k == [n \in Packet |-> IF n.line = p.line THEN MergeMshr(n, p) ELSE n]
  <2>1. k \in [Packet -> Packet]
        /\ \A n \in Packet : n.line = p.line =>
              k[n] = MergeMshr(n, p) /\ k[n].line = n.line /\ k[n].returned = n.returned
    BY <1>4, MergeMshrFields
  <2> HIDE DEF k
  <2>2. mshr' = Changed(mshr, p.line, k)
    <3> DEFINE u(n) == IF n.line = p.line THEN MergeMshr(n, p) ELSE n
               v(n) == IF n.line = p.line THEN k[n] ELSE n
    <3>1. \A n \in mshr : u(n) = v(n)
      BY <2>1, MshrFacts
    <3>2. mshr' = {u(n) : n \in mshr}
      BY <1>12
    <3> HIDE DEF u, v
    <3>3. mshr' = {v(n) : n \in mshr}
      BY <3>1, <3>2
    <3> QED
      BY <3>3 DEF v, Changed
  <2>3. \A n \in mshr : n.line = p.line =>
           /\ n \in Entry /\ n \in Packet
           /\ k[n] \in Entry /\ k[n].line = n.line /\ k[n].returned = n.returned
           /\ \A c \in Client : Owes(k[n], c) <=> Owes(n, c) \/ Owes(p, c)
    <3> SUFFICES ASSUME NEW n \in mshr, n.line = p.line
                 PROVE  /\ n \in Entry /\ n \in Packet
                        /\ k[n] \in Entry /\ k[n].line = n.line /\ k[n].returned = n.returned
                        /\ \A c \in Client : Owes(k[n], c) <=> Owes(n, c) \/ Owes(p, c)
      OBVIOUS
    <3>1. n \in Entry /\ n \in Packet
      BY MshrFacts
    <3>2. \A c \in Client : ~ (Owes(n, c) /\ Owes(p, c))
      BY <1>4, <1>5, <1>6 DEF OwedParts, Owed
    <3>3. /\ MergeMshr(n, p) \in Entry
          /\ \A c \in Client : Owes(MergeMshr(n, p), c) <=> Owes(n, c) \/ Owes(p, c)
      BY <1>5, <3>1, <3>2, ReadIntoMshrOwes
    <3> QED
      BY <2>1, <3>1, <3>3
  <2>4. /\ mshr' \subseteq Packet /\ mshr' \subseteq Entry /\ IsFiniteSet(mshr')
        /\ Distinct(mshr') /\ Cardinality(mshr') <= MSHR_SIZE
        /\ RequestsMatchMshr'
        /\ \E m \in mshr : m.line = p.line /\ mshr' = (mshr \ {m}) \cup {k[m]}
    <3>1. below' = below /\ InMshr(p.line) # {}
      BY <1>12
    <3>2. \A n \in mshr : n.line = p.line =>
             k[n] \in Entry /\ k[n].line = n.line /\ k[n].returned = n.returned
      BY <2>3
    <3>3. k \in [Packet -> Packet]
      BY <2>1
    <3> QED
      BY <2>2, <3>1, <3>2, <3>3, EntryMerged
  <2>5. PICK m \in mshr : m.line = p.line /\ mshr' = (mshr \ {m}) \cup {k[m]}
    BY <2>4
  <2>6. OwedParts(Range(rq) \ {p}, Range(pq), (mshr \ {m}) \cup {k[m]}, waiting)
    <3>1. k[m].line = m.line /\ \A c \in Client : Owes(k[m], c) <=> Owes(m, c) \/ Owes(p, c)
      BY <2>3, <2>5
    <3> QED
      BY <1>3, <1>4, <1>5, <1>6, <2>5, <3>1, MshrFacts, Merged
  <2>7. ClientsBounded'
    BY <1>2, <1>12 DEF ClientsBounded
  <2>8. /\ waiting' = waiting /\ l1d' = l1d /\ failed' = failed
        /\ below' = below /\ llc_rq' = llc_rq
    BY <1>12
  <2> QED
    BY <1>9, <2>4, <2>5, <2>6, <2>7, <2>8, IInvFacts, MshrFacts
<1> QED
  BY <1>1, <1>10, <1>11, <1>12

(* A prefetch is answered, takes an entry of MSHR, merges into one, or     *)
(* passes by to the LLC, which nobody waits for.                           *)
LEMMA HandlePrefetchStep ==
    ASSUME IInv, handle_prefetch
    PROVE  IInv'
<1> DEFINE p == Head(pq)
<1>1. /\ pq # <<>> /\ pq' = Tail(pq)
      /\ UNCHANGED <<wq, rq, block, modified>>
      /\ llc_rq' = llc_rq
      /\ \/ /\ Answer(waiting, ByFlags(p), p.line)
            /\ UNCHANGED <<mshr, below>>
         \/ /\ InMshr(p.line) = {} /\ MshrHasRoom
            /\ mshr' = IF TakesEntry(p) THEN mshr \cup {p} ELSE mshr
            /\ below' = IF p.fill_level <= 2 THEN below \cup {p.line} ELSE below
            /\ UNCHANGED <<waiting, l1d, failed>>
         \/ /\ InMshr(p.line) # {}
            /\ mshr' = {IF m.line = p.line THEN MergePrefetch(m, p) ELSE m : m \in mshr}
            /\ UNCHANGED <<waiting, l1d, failed, below>>
  BY DEF handle_prefetch, llcVars
<1>2. TypeOK /\ Held /\ OwedInOnePlace /\ ClientsBounded
      /\ RequestsMatchMshr /\ ModifiedKept /\ NoAssertionFails
  BY DEF IInv
<1>3. pq \in Seq(Packet) /\ NoLineTwice(pq) /\ Distinct(Range(pq)) /\ Len(pq) \in Nat
  BY IInvFacts
<1>4. /\ pq' \in Seq(Packet) /\ Len(pq') = Len(pq) - 1 /\ NoLineTwice(pq')
      /\ p \in Range(pq) /\ p \in Packet /\ Range(pq') = Range(pq) \ {p}
  BY <1>1, <1>3, TailRemoves
<1> HIDE DEF p
<1>5. p \in PrefetchPacket /\ p \in Entry /\ p.returned = "INFLIGHT" /\ p.line \in AnyLine
  <2>1. p \in PrefetchPacket
    BY <1>2, <1>4 DEF Held
  <2> QED
    BY <2>1, PacketsFit, DataForL1D DEF PrefetchPacket
<1>6. OwedParts(Range(pq), Range(rq), mshr, waiting)
  BY <1>2, PlacesAlike DEF OwedInOnePlace
<1>7. Len(pq') <= PQ_SIZE /\ Range(pq') \subseteq PrefetchPacket
  <2>1. Len(pq) <= PQ_SIZE /\ PQ_SIZE \in Nat
    BY <1>2, L2CacheAssumption DEF TypeOK
  <2> QED
    BY <1>2, <1>3, <1>4, <2>1 DEF Held
<1>8. ModifiedKept'
  BY <1>1, <1>2 DEF ModifiedKept
(* What is left to show of each way to handle the prefetch *)
<1>9. ASSUME /\ waiting' \in [Client -> SUBSET AnyLine] /\ l1d' \subseteq Line /\ failed' = {}
             /\ mshr' \subseteq Packet /\ mshr' \subseteq Entry /\ IsFiniteSet(mshr')
             /\ Distinct(mshr') /\ Cardinality(mshr') <= MSHR_SIZE
             /\ llc_rq' \subseteq below' /\ below' \subseteq AnyLine
             /\ OwedParts(Range(pq) \ {p}, Range(rq), mshr', waiting')
             /\ ClientsBounded' /\ RequestsMatchMshr'
      PROVE  IInv'
  <2>1. OwedInOnePlace'
    BY <1>1, <1>4, <1>9, PlacesAlike DEF OwedInOnePlace
  <2>2. TypeOK'
    BY <1>1, <1>2, <1>4, <1>7, <1>9 DEF TypeOK, NoLineTwice, Distinct, AnyLine
  <2> QED
    BY <1>1, <1>2, <1>7, <1>8, <1>9, <2>1, <2>2 DEF IInv, Held, NoAssertionFails
<1>10. CASE Answer(waiting, ByFlags(p), p.line) /\ UNCHANGED <<mshr, below>>
  <2>1. ByFlags(p) = {c \in Client : Owes(p, c)}
    BY <1>5, RecipientsAreOwed
  <2>2. \A c \in Client : Owes(p, c) => p.line \in waiting[c]
    BY <1>4, <1>5, <1>6 DEF OwedParts, Owed
  <2>3. /\ waiting' \in [Client -> SUBSET AnyLine]
        /\ \A c \in Client : waiting'[c] = IF Owes(p, c) THEN waiting[c] \ {p.line} ELSE waiting[c]
        /\ l1d' \subseteq Line /\ failed' = {}
        /\ ClientsBounded'
    BY <1>5, <1>10, <2>1, <2>2, AnswerStep
  <2>4. OwedParts(Range(pq) \ {p}, Range(rq), mshr, waiting')
    BY <1>3, <1>4, <1>5, <1>6, <2>3, Answered
  <2>5. RequestsMatchMshr'
    BY <1>2, <1>10 DEF RequestsMatchMshr
  <2>6. mshr' = mshr /\ below' = below /\ llc_rq' = llc_rq
    BY <1>1, <1>10
  <2> QED
    BY <1>9, <2>3, <2>4, <2>5, <2>6, MshrFacts
<1>11. CASE /\ InMshr(p.line) = {} /\ MshrHasRoom
            /\ mshr' = IF TakesEntry(p) THEN mshr \cup {p} ELSE mshr
            /\ below' = IF p.fill_level <= 2 THEN below \cup {p.line} ELSE below
            /\ UNCHANGED <<waiting, l1d, failed>>
  <2>1. ClientsBounded' /\ waiting' = waiting /\ l1d' = l1d /\ failed' = failed
    BY <1>2, <1>11 DEF ClientsBounded
  <2>2. CASE p.fill_level <= 2
    <3>1. mshr' = mshr \cup {p} /\ below' = below \cup {p.line}
      BY <1>11, <2>2 DEF TakesEntry
    <3>2. /\ mshr' \subseteq Packet /\ mshr' \subseteq Entry /\ IsFiniteSet(mshr')
          /\ Distinct(mshr') /\ Cardinality(mshr') <= MSHR_SIZE
          /\ RequestsMatchMshr' /\ below' \subseteq AnyLine
          /\ \A m \in mshr : m.line # p.line
      BY <1>5, <1>11, <3>1, EntryTaken
    <3>3. OwedParts(Range(pq) \ {p}, Range(rq), mshr \cup {p}, waiting)
      BY <1>3, <1>4, <1>6, <3>2, Moved
    <3>4. llc_rq' \subseteq below'
      BY <1>1, <3>1, MshrFacts
    <3> QED
      BY <1>9, <2>1, <3>1, <3>2, <3>3, <3>4, IInvFacts
  <2>3. CASE ~ (p.fill_level <= 2)
    <3>1. mshr' = mshr /\ below' = below
      BY <1>11, <2>3 DEF TakesEntry
    <3>2. \A c \in Client : ~ Owes(p, c)
      BY <1>5, <2>3 DEF PrefetchPacket, Owes
    <3>3. \A c \in Client, y \in AnyLine :
             Owed(Range(pq) \ {p}, c, y) <=> Owed(Range(pq), c, y)
      BY <3>2 DEF Owed
    <3>4. OwedParts(Range(pq) \ {p}, Range(rq), mshr, waiting)
      BY <1>6, <3>3, Indifferent
    <3>5. RequestsMatchMshr'
      BY <1>2, <3>1 DEF RequestsMatchMshr
    <3> QED
      BY <1>1, <1>9, <2>1, <3>1, <3>4, <3>5, IInvFacts, MshrFacts
  <2> QED
    BY <2>2, <2>3
<1>12. CASE /\ InMshr(p.line) # {}
            /\ mshr' = {IF m.line = p.line THEN MergePrefetch(m, p) ELSE m : m \in mshr}
            /\ UNCHANGED <<waiting, l1d, failed, below>>
  <2> DEFINE k == [n \in Packet |-> IF n.line = p.line THEN MergePrefetch(n, p) ELSE n]
  <2>1. k \in [Packet -> Packet]
        /\ \A n \in Packet : n.line = p.line =>
              k[n] = MergePrefetch(n, p) /\ k[n].line = n.line /\ k[n].returned = n.returned
    BY <1>4, MergePrefetchFields
  <2> HIDE DEF k
  <2>2. mshr' = Changed(mshr, p.line, k)
    <3> DEFINE u(n) == IF n.line = p.line THEN MergePrefetch(n, p) ELSE n
               v(n) == IF n.line = p.line THEN k[n] ELSE n
    <3>1. \A n \in mshr : u(n) = v(n)
      BY <2>1, MshrFacts
    <3>2. mshr' = {u(n) : n \in mshr}
      BY <1>12
    <3> HIDE DEF u, v
    <3>3. mshr' = {v(n) : n \in mshr}
      BY <3>1, <3>2
    <3> QED
      BY <3>3 DEF v, Changed
  <2>3. \A n \in mshr : n.line = p.line =>
           /\ n \in Entry /\ n \in Packet
           /\ k[n] \in Entry /\ k[n].line = n.line /\ k[n].returned = n.returned
           /\ \A c \in Client : Owes(k[n], c) <=> Owes(n, c) \/ Owes(p, c)
    <3> SUFFICES ASSUME NEW n \in mshr, n.line = p.line
                 PROVE  /\ n \in Entry /\ n \in Packet
                        /\ k[n] \in Entry /\ k[n].line = n.line /\ k[n].returned = n.returned
                        /\ \A c \in Client : Owes(k[n], c) <=> Owes(n, c) \/ Owes(p, c)
      OBVIOUS
    <3>1. n \in Entry /\ n \in Packet
      BY MshrFacts
    <3>2. \A c \in Client : ~ (Owes(n, c) /\ Owes(p, c))
      BY <1>4, <1>5, <1>6 DEF OwedParts, Owed
    <3>3. /\ MergePrefetch(n, p) \in Entry
          /\ \A c \in Client : Owes(MergePrefetch(n, p), c) <=> Owes(n, c) \/ Owes(p, c)
      BY <1>5, <3>1, <3>2, PrefetchIntoMshrOwes
    <3> QED
      BY <2>1, <3>1, <3>3
  <2>4. /\ mshr' \subseteq Packet /\ mshr' \subseteq Entry /\ IsFiniteSet(mshr')
        /\ Distinct(mshr') /\ Cardinality(mshr') <= MSHR_SIZE
        /\ RequestsMatchMshr'
        /\ \E m \in mshr : m.line = p.line /\ mshr' = (mshr \ {m}) \cup {k[m]}
    <3>1. below' = below /\ InMshr(p.line) # {}
      BY <1>12
    <3>2. \A n \in mshr : n.line = p.line =>
             k[n] \in Entry /\ k[n].line = n.line /\ k[n].returned = n.returned
      BY <2>3
    <3>3. k \in [Packet -> Packet]
      BY <2>1
    <3> QED
      BY <2>2, <3>1, <3>2, <3>3, EntryMerged
  <2>5. PICK m \in mshr : m.line = p.line /\ mshr' = (mshr \ {m}) \cup {k[m]}
    BY <2>4
  <2>6. OwedParts(Range(pq) \ {p}, Range(rq), (mshr \ {m}) \cup {k[m]}, waiting)
    <3>1. k[m].line = m.line /\ \A c \in Client : Owes(k[m], c) <=> Owes(m, c) \/ Owes(p, c)
      BY <2>3, <2>5
    <3> QED
      BY <1>3, <1>4, <1>5, <1>6, <2>5, <3>1, MshrFacts, Merged
  <2>7. ClientsBounded'
    BY <1>2, <1>12 DEF ClientsBounded
  <2>8. /\ waiting' = waiting /\ l1d' = l1d /\ failed' = failed
        /\ below' = below /\ llc_rq' = llc_rq
    BY <1>1, <1>12
  <2> QED
    BY <1>9, <2>4, <2>5, <2>6, <2>7, <2>8, IInvFacts, MshrFacts
<1> QED
  BY <1>1, <1>10, <1>11, <1>12

-----------------------------------------------------------------------------
(* The theorems.                                                           *)

(* The invariant holds at the start. *)
LEMMA InitEstablishes == Init => IInv
<1> SUFFICES ASSUME Init PROVE IInv
  OBVIOUS
<1>1. /\ rq = <<>> /\ wq = <<>> /\ pq = <<>> /\ mshr = {}
      /\ block = [w \in Way |-> [line |-> NoLine, dirty |-> FALSE]]
      /\ waiting = [c \in Client |-> {}]
      /\ l1d = {} /\ below = {} /\ llc_rq = {} /\ modified = {} /\ failed = {}
  BY DEF Init
<1>2. /\ rq \in Seq(Packet) /\ pq \in Seq(Packet) /\ wq \in Seq(Line)
      /\ Len(rq) = 0 /\ Len(pq) = 0 /\ Len(wq) = 0
      /\ DOMAIN rq = {} /\ DOMAIN pq = {} /\ DOMAIN wq = {}
      /\ Range(rq) = {} /\ Range(pq) = {}
  <2>1. rq \in Seq(Packet) /\ pq \in Seq(Packet) /\ wq \in Seq(Line)
    BY <1>1, EmptySeq
  <2>2. Len(rq) = 0 /\ Len(pq) = 0 /\ Len(wq) = 0
    BY <1>1, EmptySeq
  <2>3. DOMAIN rq = {} /\ DOMAIN pq = {} /\ DOMAIN wq = {}
    BY <2>1, <2>2, SeqFacts
  <2> QED
    BY <2>1, <2>2, <2>3 DEF Range
<1>3. IsFiniteSet(mshr) /\ Cardinality(mshr) = 0
  BY <1>1, FS_EmptySet
<1>4. {RQ_SIZE, WQ_SIZE, PQ_SIZE, MSHR_SIZE, L1I_MSHR_SIZE, L1D_MSHR_SIZE} \subseteq Nat
  BY L2CacheAssumption
<1>5. TypeOK
  <2>1. block \in [Way -> Block]
    BY <1>1 DEF Block
  <2>2. Len(rq) <= RQ_SIZE /\ Len(wq) <= WQ_SIZE /\ Len(pq) <= PQ_SIZE
    BY <1>2, <1>4
  <2>3. mshr \subseteq Packet /\ Cardinality(mshr) <= MSHR_SIZE
        /\ \A m, n \in mshr : m.line = n.line => m = n
    BY <1>1, <1>3, <1>4
  <2>4. /\ \A i, j \in DOMAIN rq : rq[i].line = rq[j].line => i = j
        /\ \A i, j \in DOMAIN pq : pq[i].line = pq[j].line => i = j
        /\ \A i, j \in DOMAIN wq : wq[i] = wq[j] => i = j
    BY <1>2
  <2>5. /\ waiting \in [Client -> SUBSET (Line \cup PageTable)]
        /\ l1d \subseteq Line /\ llc_rq \subseteq below /\ below \subseteq Line \cup PageTable
        /\ modified \subseteq Line
    BY <1>1
  <2> QED
    BY <1>2, <2>1, <2>2, <2>3, <2>4, <2>5 DEF TypeOK
<1>6. Held
  BY <1>1, <1>2, <1>3 DEF Held
<1>7. OwedInOnePlace
  BY <1>1, <1>2 DEF OwedInOnePlace, OwedParts, Owed
<1>8. ClientsBounded
  BY <1>1, <1>4, FS_EmptySet DEF ClientsBounded, Client
<1>9. RequestsMatchMshr /\ ModifiedKept /\ NoAssertionFails
  BY <1>1 DEF RequestsMatchMshr, ModifiedKept, NoAssertionFails
<1> QED
  BY <1>5, <1>6, <1>7, <1>8, <1>9 DEF IInv

(* Every step keeps it. *)
LEMMA NextKeeps == IInv /\ [Next]_vars => IInv'
<1> SUFFICES ASSUME IInv, [Next]_vars PROVE IInv'
  OBVIOUS
<1>1. CASE Requests
  <2>1. ASSUME NEW x \in Line, L1I_read(x) PROVE IInv'
    BY <2>1, L1IReadStep
  <2>2. ASSUME NEW x \in Line, L1D_read(x) PROVE IInv'
    BY <2>2, L1DReadStep
  <2>3. ASSUME NEW x \in Line, add_wq(x) PROVE IInv'
    BY <2>3, AddWqStep
  <2>4. ASSUME NEW x \in Line, L1I_prefetch(x) \/ L1D_prefetch(x) PROVE IInv'
    BY <2>4, L1PrefetchStep
  <2>5. ASSUME NEW x \in PageTable, NEW instruction \in BOOLEAN, PTW_read(x, instruction)
        PROVE  IInv'
    BY <2>5, PTWReadStep
  <2>6. ASSUME NEW x \in Line \cup PageTable, NEW level \in {2, 4}, prefetch_line(x, level)
        PROVE  IInv'
    BY <2>6, PrefetchLineStep DEF AnyLine
  <2> QED
    BY <1>1, <2>1, <2>2, <2>3, <2>4, <2>5, <2>6 DEF Requests
<1>2. CASE Operate
  <2>1. ASSUME NEW m \in mshr, NEW w \in Way, handle_fill(m, w) PROVE IInv'
    BY <2>1, FillStep
  <2>2. ASSUME NEW w \in Way, handle_writeback(w) PROVE IInv'
    BY <2>2, WritebackStep
  <2>3. CASE handle_read
    BY <2>3, HandleReadStep
  <2>4. CASE handle_prefetch
    BY <2>4, HandlePrefetchStep
  <2>5. ASSUME NEW x \in below, LLC_takes(x) PROVE IInv'
    BY <2>5, LLCTakesStep
  <2>6. ASSUME NEW x \in below, return_data(x) PROVE IInv'
    BY <2>6, ReturnDataStep
  <2> QED
    BY <1>2, <2>1, <2>2, <2>3, <2>4, <2>5, <2>6 DEF Operate
<1>3. CASE UNCHANGED vars
  <2>1. UNCHANGED <<rq, wq, pq, mshr, block, waiting, l1d, below, llc_rq, modified, failed>>
    BY <1>3 DEF vars, queueVars, llcVars
  <2> QED
    BY <2>1 DEF IInv, TypeOK, Held, OwedInOnePlace, ClientsBounded, RequestsMatchMshr,
                ModifiedKept, NoAssertionFails
<1> QED
  BY <1>1, <1>2, <1>3 DEF Next

(* The invariant holds in every reachable state. *)
LEMMA Inductive == Spec => []IInv
  BY InitEstablishes, NextKeeps, PTL DEF Spec

(* The positions of a queue whose packets answer client c's request for x *)
Promising(q, c, x) == {i \in InQueue(q, x) : Owes(q[i], c)}

(* There is one, or none. *)
LEMMA QueuePromises ==
    ASSUME NEW q \in Seq(Packet), NoLineTwice(q), NEW c, NEW x
    PROVE  /\ ~ Owed(Range(q), c, x) => Promising(q, c, x) = {}
           /\ Owed(Range(q), c, x) => \E i : Promising(q, c, x) = {i}
<1>1. /\ DOMAIN q = 1 .. Len(q) /\ Range(q) = {q[i] : i \in 1 .. Len(q)}
  BY SeqFacts
<1>2. \A i, j \in Promising(q, c, x) : i = j
  BY DEF Promising, InQueue, NoLineTwice
<1>3. Owed(Range(q), c, x) <=> \E i : i \in Promising(q, c, x)
  BY <1>1 DEF Promising, InQueue, Owed
<1> QED
  BY <1>2, <1>3

(* The packets that owe client c the line x are those counted by Promises: *)
(* one of the three places has one, if c waits for x.                      *)
LEMMA OwedIsOnce == IInv => OwedOnce
<1> SUFFICES ASSUME IInv, NEW c \in Client, NEW x \in AnyLine
             PROVE  Cardinality(Promises(c, x)) = IF x \in waiting[c] THEN 1 ELSE 0
  BY DEF OwedOnce, AnyLine
<1> DEFINE R == Promising(rq, c, x)
           P == Promising(pq, c, x)
           M == {n \in mshr : n.line = x /\ Owes(n, c)}
<1>1. Promises(c, x) = {<<"RQ", i>> : i \in R} \cup {<<"PQ", i>> : i \in P}
                          \cup {<<"MSHR", m.line>> : m \in M}
  <2>1. R = {j \in InQueue(rq, x) : c \in Recipients(rq[j])}
    <3>1. \A j \in InQueue(rq, x) : rq[j] \in DemandPacket
      BY IInvFacts, SeqFacts DEF IInv, Held, InQueue
    <3> QED
      BY <3>1, RecipientsAreOwed DEF Promising
  <2>2. P = {j \in InQueue(pq, x) : c \in ByFlags(pq[j])}
    <3>1. \A j \in InQueue(pq, x) : pq[j] \in PrefetchPacket
      BY IInvFacts, SeqFacts DEF IInv, Held, InQueue
    <3> QED
      BY <3>1, RecipientsAreOwed DEF Promising
  <2>3. M = {n \in InMshr(x) : c \in Recipients(n)}
    BY MshrFacts, RecipientsAreOwed DEF InMshr
  <2> HIDE DEF R, P, M
  <2> QED
    BY <2>1, <2>2, <2>3 DEF Promises
<1>2. /\ ~ Owed(Range(rq), c, x) => R = {}
      /\ Owed(Range(rq), c, x) => \E i : R = {i}
  BY IInvFacts, QueuePromises
<1>3. /\ ~ Owed(Range(pq), c, x) => P = {}
      /\ Owed(Range(pq), c, x) => \E i : P = {i}
  BY IInvFacts, QueuePromises
<1>4. /\ ~ Owed(mshr, c, x) => M = {}
      /\ Owed(mshr, c, x) => \E m : M = {m}
  <2>1. \A m, n \in M : m = n
    BY MshrFacts DEF Distinct
  <2>2. Owed(mshr, c, x) <=> \E m : m \in M
    BY DEF Owed
  <2> QED
    BY <2>1, <2>2
<1>5. /\ x \in waiting[c] <=>
            Owed(Range(rq), c, x) \/ Owed(Range(pq), c, x) \/ Owed(mshr, c, x)
      /\ ~ (Owed(Range(rq), c, x) /\ Owed(Range(pq), c, x))
      /\ ~ (Owed(Range(rq), c, x) /\ Owed(mshr, c, x))
      /\ ~ (Owed(Range(pq), c, x) /\ Owed(mshr, c, x))
  BY DEF IInv, OwedInOnePlace, OwedParts
<1> HIDE DEF R, P, M
<1>6. CASE x \in waiting[c]
  <2>1. \E e : Promises(c, x) = {e}
    <3>1. CASE Owed(Range(rq), c, x)
      <4>1. P = {} /\ M = {} /\ \E i : R = {i}
        BY <1>2, <1>3, <1>4, <1>5, <3>1
      <4>2. PICK i : R = {i}
        BY <4>1
      <4>3. Promises(c, x) = {<<"RQ", i>>}
        BY <1>1, <4>1, <4>2
      <4> QED
        BY <4>3
    <3>2. CASE Owed(Range(pq), c, x)
      <4>1. R = {} /\ M = {} /\ \E i : P = {i}
        BY <1>2, <1>3, <1>4, <1>5, <3>2
      <4>2. PICK i : P = {i}
        BY <4>1
      <4>3. Promises(c, x) = {<<"PQ", i>>}
        BY <1>1, <4>1, <4>2
      <4> QED
        BY <4>3
    <3>3. CASE Owed(mshr, c, x)
      <4>1. R = {} /\ P = {} /\ \E m : M = {m}
        BY <1>2, <1>3, <1>4, <1>5, <3>3
      <4>2. PICK m : M = {m}
        BY <4>1
      <4>3. Promises(c, x) = {<<"MSHR", m.line>>}
        BY <1>1, <4>1, <4>2
      <4> QED
        BY <4>3
    <3> QED
      BY <1>5, <1>6, <3>1, <3>2, <3>3
  <2> QED
    BY <1>6, <2>1, FS_Singleton
<1>7. CASE x \notin waiting[c]
  <2>1. R = {} /\ P = {} /\ M = {}
    BY <1>2, <1>3, <1>4, <1>5, <1>7
  <2>2. Promises(c, x) = {}
    BY <1>1, <2>1
  <2> QED
    BY <1>7, <2>2, FS_EmptySet
<1> QED
  BY <1>6, <1>7

(* add_rq, add_wq, add_pq and the handlers keep RQ, WQ, PQ and MSHR within *)
(* their sizes, with each line in them at most once, whatever merges and   *)
(* whatever the sizes are that inc/cache.h allows.                         *)
THEOREM QueuesKept == Spec => []TypeOK
  BY Inductive, PTL DEF IInv

(* The assertions of return_data never fail, of those above (an answer for *)
(* a line they have no MSHR entry for) or of the L2C, and the walker never *)
(* finds its line already in RQ.                                           *)
THEOREM NoAnswerUnasked == Spec => []NoAssertionFails
  BY Inductive, PTL DEF IInv

(* Through every merge in RQ, PQ and MSHR, take-over of a prefetch by a    *)
(* read, forward from WQ and fill, a client that waits for a line has      *)
(* exactly one packet in the cache that answers it, others none.           *)
THEOREM AnsweredOnce == Spec => []OwedOnce
  BY Inductive, OwedIsOnce, PTL

(* The LLC owes the lines of the unanswered MSHR entries, and no others:   *)
(* although handle_read does not look at what the LLC's add_rq returns, no *)
(* request of it is dropped.                                               *)
THEOREM LLCOwesTheEntries == Spec => []RequestsMatchMshr
  BY Inductive, PTL DEF IInv

(* A line that the L1D writes back is in WQ or dirty in the set until the  *)
(* L2C writes it to the LLC: neither handle_fill nor handle_writeback      *)
(* overwrites it, whatever way they choose.                                *)
THEOREM WritesAreKept == Spec => []ModifiedKept
  BY Inductive, PTL DEF IInv

(* Whenever an L1 has a free MSHR entry, RQ has room for the read it may   *)
(* ask for, and whenever the L2C has one, the RQ of the LLC has.           *)
RequestsHaveRoom ==
    /\ Cardinality(waiting["L1I"]) < L1I_MSHR_SIZE => Len(rq) < RQ_SIZE
    /\ Cardinality(waiting["L1D"]) < L1D_MSHR_SIZE => Len(rq) < RQ_SIZE
    /\ MshrHasRoom => Cardinality(llc_rq) < LLC_RQ_SIZE

(* No read is dropped between the levels, although neither the L1s nor the *)
(* L2C looks at what add_rq returns (-2 for a full RQ).                    *)
THEOREM NoRequestDropped == Spec => []RequestsHaveRoom
<1>1. IInv => RequestsHaveRoom
  BY RequestsFit, LLCHasRoom DEF RequestsHaveRoom
<1> QED
  BY <1>1, Inductive, PTL
=============================================================================
