------------------------------- MODULE Metrics -------------------------------
(***************************************************************************)
(* cal_final_results of the evaluation scripts: from the merged reports to *)
(* the rows the CSV files show.  The function works in place, prefetcher by*)
(* prefetcher in the order the rows were inserted, and repairs the entries *)
(* it reads (a '-' or a zero becomes 1), the baseline's too: one row's     *)
(* repair is what the next row divides by.                                 *)
(*                                                                         *)
(* A trace's table s maps a prefetcher to its entry; an entry maps a field *)
(* and a core to a cell.  The four ways the scripts compute a cache's      *)
(* metrics are definitions of their own.                                   *)
(***************************************************************************)
EXTENDS ReportParser

CONSTANTS
    my_prefetcher,  \* CONFIGS["my_prefetcher"]
    EvaluateCaches  \* ["L1D","L2C","LLC"], or as many of them as a model keeps

\* a field is a pair, of a cache or "" and a name
ASSUME FieldsAssumption == Fields \subseteq STRING \X STRING
ASSUME CachesAssumption == {"L1D", "L2C"} \subseteq EvaluateCaches /\ EvaluateCaches \subseteq CACHES

\* The fields cal_final_results reads and writes.  A field that "metrics" does
\* not list would end every run of the script with a KeyError.
RowFields(variant) ==
    {""} \X {"IPC", "Instructions", "IPCI", "Global Coverage"}
      \union EvaluateCaches \X {"Accesses", "Misses", "Prefetches", "Prefetch Hits", "Non-useful Prefetches",
                                "traffic", "Coverage", "Uncovered", "Overprediction", "Accuracy", "MPKI"}
      \union (IF variant = "total traffic" THEN EvaluateCaches \X {"TOTAL_Misses"} ELSE {})
      \union (IF variant = "miss traffic"
              THEN EvaluateCaches \X {"Prefetch Miss", "Prefetch Access"}
                     \union (IF "LLC" \in EvaluateCaches THEN {<<"", "DRAM traffic">>} ELSE {})
              ELSE {})

Or(v, default) == IF v = Dash THEN default ELSE v
One == Num(1)
Zero == Num(0)
In(s, p, f, i) == s[p][<<f, i>>]

\* entry with some fields of cache c on core i written
With(entry, c, i, cells) ==
    [x \in DOMAIN entry |->
        IF x[1][1] = c /\ x[2] = i /\ x[1][2] \in DOMAIN cells THEN cells[x[1][2]] ELSE entry[x]]

\* mutant: a baseline without misses gets the row's
MutRepaired(s, p, c, i) ==
    LET row(name) == In(s, p, <<c, name>>, i)
        base(name) == In(s, "no", <<c, name>>, i)
        misses == IF base("Misses") \notin {Dash, Zero} THEN base("Misses")
                  ELSE IF row("Misses") = Zero THEN One ELSE Or(row("Misses"), One)
    IN  [accesses |-> Or(row("Accesses"), One),
         baseAccesses |-> Or(base("Accesses"), One),
         baseMisses |-> misses,
         misses |-> IF p = "no" THEN misses ELSE Or(row("Misses"), One)]

\* What the rows of one cache have after the repairs every variant makes: the
\* row's and the baseline's accesses, then the baseline's misses, then the
\* row's.  The baseline's own row is the baseline.
Repaired(s, p, c, i) ==
    LET row(name) == In(s, p, <<c, name>>, i)
        base(name) == In(s, "no", <<c, name>>, i)
        misses == IF base("Misses") \in {Dash, Zero} THEN One ELSE base("Misses")
    IN  [accesses |-> Or(row("Accesses"), One),
         baseAccesses |-> Or(base("Accesses"), One),
         baseMisses |-> misses,
         misses |-> IF p = "no" THEN misses ELSE Or(row("Misses"), One)]

\* TOTAL_Misses: '-' becomes 0, then the baseline's '-' or 0 becomes the row's, or 1
RepairedTotal(s, p, c, i) ==
    LET total == Or(In(s, p, <<c, "TOTAL_Misses">>, i), Zero)
        base == IF p = "no" THEN total ELSE Or(In(s, "no", <<c, "TOTAL_Misses">>, i), One)
        left == IF base # Zero THEN base ELSE IF total = Zero THEN One ELSE total
    IN  [total |-> IF p = "no" THEN left ELSE total, baseTotal |-> left]

\* the baseline's cells and the row's that a step leaves
Leaves(s, p, c, i, base, row) ==
    OnValues(LAMBDA b, r : [[s EXCEPT !["no"] = With(@, c, i, b)] EXCEPT ![p] = With(s[p], c, i, r)], base, row)

\* the repairs of the baseline
BaseCells(r) == [name \in {"Accesses", "Misses"} |-> IF name = "Accesses" THEN r.baseAccesses ELSE r.baseMisses]

\* the row's cells, most of which every variant derives alike
RowCells(s, p, c, i, r, traffic, coverage, overprediction, none) ==
    LET hits == In(s, p, <<c, "Prefetch Hits">>, i)
        used == Plus(hits, In(s, p, <<c, "Non-useful Prefetches">>, i))
    IN  [name \in {"Accesses", "Misses", "traffic", "Coverage", "Uncovered", "Overprediction", "Accuracy", "MPKI"} |->
            CASE name = "Accesses" -> r.accesses
              [] name = "Misses" -> r.misses
              [] name = "traffic" -> traffic
              [] name = "Coverage" -> coverage
              [] name = "Uncovered" -> Minus(One, coverage)
              [] name = "Overprediction" -> overprediction
              [] name = "Accuracy" -> IF used = Zero THEN none ELSE Over(hits, used)
              [] name = "MPKI" -> Over(Times(Num(1000), r.misses), In(s, p, <<"", "Instructions">>, i))]

\* cells, and more
Also(cells, more) ==
    [name \in DOMAIN cells \union DOMAIN more |-> IF name \in DOMAIN more THEN more[name] ELSE cells[name]]

Ratio(r) == Over(r.misses, r.baseMisses)
Scale(r) == Over(r.baseAccesses, r.accesses)
Useless(s, p, c, i, r) == Over(In(s, p, <<c, "Non-useful Prefetches">>, i), r.baseMisses)

\* (accesses + prefetches) / accesses of the baseline
RequestTraffic(s, p, c, i, r) == Over(Plus(r.accesses, In(s, p, <<c, "Prefetches">>, i)), r.baseAccesses)
-----------------------------------------------------------------------------
(* One cache of one row on one core.                                       *)

\* coverage scaled by the accesses
CacheScaled(s, p, c, i) ==
    LET r == Repaired(s, p, c, i)
    IN  Leaves(s, p, c, i, BaseCells(r),
            RowCells(s, p, c, i, r, RequestTraffic(s, p, c, i, r), Minus(One, Times(Ratio(r), Scale(r))),
                     Times(Useless(s, p, c, i, r), Scale(r)), Dash))

\* coverage of the misses alone
CachePlain(s, p, c, i) ==
    LET r == Repaired(s, p, c, i)
    IN  Leaves(s, p, c, i, BaseCells(r),
            RowCells(s, p, c, i, r, RequestTraffic(s, p, c, i, r), Minus(One, Ratio(r)),
                     Times(Useless(s, p, c, i, r), Scale(r)), Dash))

\* traffic from the misses of loads and prefetches, after the repairs
CacheMissTraffic(s, p, c, i) ==
    LET r == Repaired(s, p, c, i)
        missed == Or(In(s, p, <<c, "Prefetch Miss">>, i), Zero)
        asked == Or(In(s, p, <<c, "Prefetch Access">>, i), Zero)
        traffic == IF r.baseAccesses = One THEN One ELSE Over(Plus(r.misses, missed), r.baseMisses)
    IN  Leaves(s, p, c, i, BaseCells(r),
            Also(RowCells(s, p, c, i, r, traffic, Minus(One, Times(Ratio(r), Scale(r))),
                          Times(Useless(s, p, c, i, r), Scale(r)), Dash),
                 [name \in {"Prefetch Miss", "Prefetch Access"} |-> IF name = "Prefetch Miss" THEN missed ELSE asked]))

\* traffic from all misses: divides by the baseline's misses before they are
\* repaired; a row without prefetches is fully accurate
CacheTotalTraffic(s, p, c, i) ==
    LET r == Repaired(s, p, c, i)
        t == RepairedTotal(s, p, c, i)
        traffic == Over(Plus(t.total, In(s, p, <<c, "Misses">>, i)), In(s, "no", <<c, "Misses">>, i))
    IN  Leaves(s, p, c, i, Also(BaseCells(r), [name \in {"TOTAL_Misses"} |-> t.baseTotal]),
            Also(RowCells(s, p, c, i, r, traffic, Minus(One, Ratio(r)), Useless(s, p, c, i, r), One),
                 [name \in {"TOTAL_Misses"} |-> t.total]))
-----------------------------------------------------------------------------
(* One row: IPCI, the caches in their order, and what spans caches.        *)

Caches == IF "LLC" \in EvaluateCaches THEN <<"L1D", "L2C", "LLC">> ELSE <<"L1D", "L2C">>
Ipci(s, p, i) == Over(In(s, p, <<"", "IPC">>, i), In(s, "no", <<"", "IPC">>, i))

GlobalCoverage(s, p, i) ==
    LET l1 == In(s, p, <<"L1D", "Coverage">>, i)
    IN  Plus(l1, Times(Minus(One, l1), In(s, p, <<"L2C", "Coverage">>, i)))

DramTraffic(s, p, i) ==
    Over(Plus(In(s, p, <<"LLC", "Misses">>, i), In(s, p, <<"LLC", "Prefetch Miss">>, i)),
         In(s, "no", <<"LLC", "Misses">>, i))

\* What a row adds once its caches are done.  Most variants write the IPCI
\* before them; no cache reads it, or writes what it is made of.
Spanning(s, p, i) ==
    [name \in {"IPCI", "Global Coverage"} |-> IF name = "IPCI" THEN Ipci(s, p, i) ELSE GlobalCoverage(s, p, i)]
Complete(s, p, i) == [s EXCEPT ![p] = With(@, "", i, Spanning(s, p, i))]
CompleteTraffic(s, p, i) ==
    [s EXCEPT ![p] = With(@, "", i,
        IF "LLC" \notin EvaluateCaches THEN Spanning(s, p, i)
        ELSE Also(Spanning(s, p, i), [name \in {"DRAM traffic"} |-> DramTraffic(s, p, i)]))]

\* the steps of a row; "" is the last one, when the caches are done
Steps == Append(Caches, "")
StepScaled(s, p, c, i) == IF c = "" THEN Complete(s, p, i) ELSE CacheScaled(s, p, c, i)
StepPlain(s, p, c, i) == IF c = "" THEN Complete(s, p, i) ELSE CachePlain(s, p, c, i)
StepTotalTraffic(s, p, c, i) == IF c = "" THEN Complete(s, p, i) ELSE CacheTotalTraffic(s, p, c, i)
StepMissTraffic(s, p, c, i) == IF c = "" THEN CompleteTraffic(s, p, i) ELSE CacheMissTraffic(s, p, c, i)

\* how a script names its variant, and the steps it stands for
RowVariants == {"scaled", "plain", "miss traffic", "total traffic"}
Step(variant, s, p, c, i) ==
    CASE variant = "scaled" -> StepScaled(s, p, c, i)
      [] variant = "plain" -> StepPlain(s, p, c, i)
      [] variant = "miss traffic" -> StepMissTraffic(s, p, c, i)
      [] variant = "total traffic" -> StepTotalTraffic(s, p, c, i)

\* one row on one core, and on all of them
Row(variant, s, p, i) == FoldValues(LAMBDA u, c : Step(variant, u, p, c, i), s, Steps)
CoreOrder == [n \in 1..core_num |-> n - 1]
RowOnCores(variant, s, p) == FoldValues(LAMBDA u, i : Row(variant, u, p, i), s, CoreOrder)

\* The keys of the nested dictionaries in the order they were inserted: the
\* traces, and the prefetchers of each.
PrefetchersOf(rows, t) ==
    LET mine == Subsequence(rows, {k \in ToSet(rows) : k[1] = t})
    IN  [i \in DOMAIN mine |-> mine[i][2]]
TraceOrder(rows) == FirstOnly([i \in DOMAIN rows |-> rows[i][1]])
TracesOf(rows) == {rows[i][1] : i \in DOMAIN rows}

TraceTable(roi, order, t) == Settled([p \in ToSet(order) |-> roi[<<t, p>>]])

RowsOfTrace(variant, roi, order, t) ==
    FoldValues(LAMBDA s, p : RowOnCores(variant, s, p), TraceTable(roi, order, t), order)

\* The loop dies with the first trace without a baseline and the first value
\* that raises.
HasBaseline(rows) == \A t \in TracesOf(rows) : <<t, "no">> \in ToSet(rows)
NoneRaised(table) ==
    \A t \in DOMAIN table : \A p \in DOMAIN table[t] : \A f \in Fields, i \in Cores :
        In(table[t], p, f, i) # Raised

RowsOf(variant, roi, rows) ==
    Settled([t \in TracesOf(rows) |-> RowsOfTrace(variant, roi, PrefetchersOf(rows, t), t)])
-----------------------------------------------------------------------------
(* The means: first over the cores, then over the traces.                  *)

OverCores(f, entry) ==
    LET s == [n \in 1..core_num |-> entry[<<f, n - 1>>]]
    IN  IF f = <<"", "IPC">> THEN geo_mean(s) ELSE arith_mean(s)

CoreMeans(table) ==
    Settled([t \in DOMAIN table |->
        Settled([p \in DOMAIN table[t] |-> Settled([f \in Fields |-> OverCores(f, table[t][p])])])])

\* The values of one prefetcher's field over the traces.  A trace that lacks
\* it adds none; both means leave '-' out.
Column(means, order, p, f) ==
    [n \in DOMAIN order |-> IF p \in DOMAIN means[order[n]] THEN means[order[n]][p][f] ELSE Dash]

\* IPCI by the geometric mean, the rest by the arithmetic one
MeanOf(f, x) == IF f = <<"", "IPCI">> THEN geo_mean(x) ELSE arith_mean(x)

AverageOver(means, order) ==
    Settled([p \in UNION {DOMAIN means[t] : t \in ToSet(order)} |->
        Settled([f \in Fields |-> MeanOf(f, Column(means, order, p, f))])])

WithAverage(means, order) ==
    Settled([t \in DOMAIN means \union {"Average"} |->
        IF t \in DOMAIN means THEN means[t] ELSE AverageOver(means, order)])
-----------------------------------------------------------------------------
(* The lead of my_prefetcher.  A root is compared by its powers; the       *)
(* difference of two roots is kept as the pair.                            *)

Below(a, b) == Power(a.n, b.r) * Power(b.d, a.r) < Power(b.n, a.r) * Power(a.d, b.r)

\* The best of the others; max_ipci starts at 0.
BestOther(trace, order) ==
    FoldValues(LAMBDA best, p :
                IF p = my_prefetcher THEN best
                ELSE IF Below(IF best = "" THEN Zero ELSE trace[best][<<"", "IPCI">>], trace[p][<<"", "IPCI">>])
                THEN p ELSE best,
             "", order)

Delta(trace, order) ==
    LET mine == trace[my_prefetcher][<<"", "IPCI">>]
        best == BestOther(trace, order)
        top == IF best = "" THEN Zero ELSE trace[best][<<"", "IPCI">>]
    IN  [p \in DOMAIN trace |->
            IF p = my_prefetcher THEN [delta |-> <<>>, lead |-> <<mine, top>>]
            ELSE [delta |-> <<trace[p][<<"", "IPCI">>], mine>>,
                  lead |-> IF p = best THEN <<top, mine>> ELSE <<>>]]

\* Every trace in turn, 'Average' last; one without my_prefetcher ends the loop.
PrefetcherOrder(rows, t) ==
    IF t # "Average" THEN PrefetchersOf(rows, t)
    ELSE FirstOnly(FoldValues(LAMBDA s, u : s \o PrefetchersOf(rows, u), <<>>, TraceOrder(rows)))

Leads(stats, rows) ==
    LET order == Append(TraceOrder(rows), "Average")
        reached == {i \in DOMAIN order : \A j \in 1..i : my_prefetcher \in DOMAIN stats[order[j]]}
    IN  [t \in {order[i] : i \in reached} |-> Delta(stats[t], PrefetcherOrder(rows, t))]
=============================================================================
