------------------------------ MODULE FastSet ------------------------------
(***************************************************************************)
(* The set of slot indices of inc/set.h (class fastset).  The simulator    *)
(* keeps one in every ROB entry (who waits for my registers, who waits for *)
(* my stores) and in every packet (which loads, stores and requests were   *)
(* merged into me).  A small set is a sorted array, a larger one a bitset; *)
(* both live in one union, and insert and join move a set from the first   *)
(* form to the second.                                                     *)
(***************************************************************************)
EXTENDS Naturals, Sequences, FiniteSets, SequencesExt

CONSTANTS Names,        \* the sets in play
          MAX_SIZE,     \* elements are 0 .. MAX_SIZE - 1
          SMALL_SIZE,   \* cardinality at which the array becomes a bitset
          SMALLER_SIZE  \* below it the array is searched from the left

(* The sizes the class is used with. *)
ASSUME FastSetAssumption ==
    /\ MAX_SIZE \in Nat \ {0}
    /\ SMALL_SIZE \in Nat \ {0, 1}
    /\ SMALLER_SIZE \in 1 .. SMALL_SIZE

Elem == 0 .. MAX_SIZE - 1

VARIABLES fs,           \* the concrete sets
          mem           \* the sets they stand for (history of the calls)

setVars == <<fs, mem>>

NewSet == [card |-> 0, values |-> <<>>, bits |-> {}]

(* smalltobit: the array becomes bits; the caller has the last word on card *)
smalltobit(s) == [s EXCEPT !.values = <<>>, !.bits = ToSet(s.values)]

MutInsertUnsorted(s, x) ==
    IF x \in ToSet(s.values) THEN s
    ELSE [s EXCEPT !.values = Append(s.values, x), !.card = s.card + 1]

insert_small(s, x) ==
    IF x \in ToSet(s.values) THEN s
    ELSE LET i == Cardinality({k \in 1 .. s.card : s.values[k] < x}) + 1
         IN  [s EXCEPT !.values = InsertAt(s.values, i, x), !.card = s.card + 1]

insert(s, x) ==
    IF s.card = 0 THEN [s EXCEPT !.values = <<x>>, !.card = 1]
    ELSE IF s.card < SMALL_SIZE
         THEN LET t == insert_small(s, x)
              IN  IF t.card = SMALL_SIZE THEN smalltobit(t) ELSE t
         ELSE [s EXCEPT !.bits = s.bits \cup {x}]

(* the scan stops at the first larger element *)
search_small_linear(s, x) ==
    \E k \in 1 .. s.card : /\ s.values[k] = x
                           /\ \A j \in 1 .. k - 1 : s.values[j] < x

(* the binary search of search_small, over the zero-based window begin ..  *)
(* begin + n - 1                                                           *)
bisect(s, x) ==
    LET Window == {w \in (0 .. s.card) \X (0 .. s.card) : w[1] + w[2] <= s.card}
        found[w \in Window] ==
          LET begin == w[1]
              n == w[2]
              middle == (begin + begin + n - 1) \div 2
              y == s.values[middle + 1]
          IN  /\ n # 0
              /\ IF x < y THEN found[<<begin, middle - begin>>]
                 ELSE IF x > y THEN found[<<middle + 1, begin + n - 1 - middle>>]
                 ELSE TRUE
    IN  found[<<0, s.card>>]

search(s, x) ==
    /\ s.card # 0
    /\ IF s.card = 1 THEN s.values[1] = x
       ELSE IF s.card < SMALLER_SIZE THEN search_small_linear(s, x)
       ELSE IF s.card < SMALL_SIZE THEN bisect(s, x)
       ELSE x \in s.bits

(* the elements of a small set are inserted one by one *)
insert_each(s, values) ==
    LET after[k \in 0 .. Len(values)] ==
          IF k = 0 THEN s ELSE insert(after[k - 1], values[k])
    IN  after[Len(values)]

MutJoinNoConvert(s, other) ==
    IF other.card < SMALL_SIZE THEN insert_each(s, other.values)
    ELSE [s EXCEPT !.card = SMALL_SIZE, !.bits = @ \cup other.bits]

join(s, other) ==
    IF other.card < SMALL_SIZE THEN insert_each(s, other.values)
    ELSE IF s.card < SMALL_SIZE
         THEN [smalltobit(s) EXCEPT !.card = SMALL_SIZE, !.bits = @ \cup other.bits]
         ELSE [s EXCEPT !.bits = @ \cup other.bits]

expand(s) == IF s.card < SMALL_SIZE THEN ToSet(s.values) ELSE s.bits

-----------------------------------------------------------------------------
SetInit == /\ fs = [n \in Names |-> NewSet]
           /\ mem = [n \in Names |-> {}]

Insert(n, x) == /\ fs' = [fs EXCEPT ![n] = insert(@, x)]
                /\ mem' = [mem EXCEPT ![n] = @ \cup {x}]

Join(n, o) == /\ n # o
              /\ fs' = [fs EXCEPT ![n] = join(@, fs[o])]
              /\ mem' = [mem EXCEPT ![n] = @ \cup mem[o]]

SetNext == \/ \E n \in Names, x \in Elem : Insert(n, x)
           \/ \E n, o \in Names : Join(n, o)

SetSpec == SetInit /\ [][SetNext]_setVars

-----------------------------------------------------------------------------
(* A set acts as the set of the indices inserted into it or joined to it,  *)
(* whichever form it has.  Its iteration yields exactly these: no          *)
(* dependent is ever forgotten (its instruction would never be woken) and  *)
(* none is invented.  And search, whose bisection relies on the order the  *)
(* insertions keep, answers membership in them.                            *)
ActsAsSet ==
    \A n \in Names :
        /\ expand(fs[n]) = mem[n]
        /\ \A x \in Elem : search(fs[n], x) <=> x \in mem[n]
=============================================================================
