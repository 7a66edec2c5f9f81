------------------------------ MODULE Recorder ------------------------------
(***************************************************************************)
(* record_results of the evaluation scripts: which cells go into the two   *)
(* CSV files, and where writing them raises.  The figures' CSV has a line  *)
(* per output workload and one for 'Average', with a cell for each metric  *)
(* and prefetcher; the results' CSV has a row per prefetcher, from the     *)
(* table's 'Average'.  Every live list of configurations asks for the order*)
(* of output_prefetchers, so that is the one modelled.                     *)
(*                                                                         *)
(* stats maps a trace (and 'Average') to its prefetchers, and a prefetcher *)
(* to its fields; order is the order of its keys.  A line is <<ok, cells>>:*)
(* ok is FALSE when computing it raises, and then nothing of it is written.*)
(***************************************************************************)
EXTENDS Metrics

CONSTANTS
    output_metrics,     \* CONFIGS["output_metrics"]
    Occurs(_, _)        \* Python's "s in t" for the names of a configuration

Workloads == output_workloads \o <<"Average">>
Prefetchers == ToSet(output_prefetchers)

LineOf(cell(_, _), ok) ==
    <<ok, IF ok THEN [p \in Prefetchers |-> [f \in output_metrics |-> cell(p, f)]] ELSE Nothing>>

\* mutant: a trace that lacks a prefetcher gets '-' instead of ending the process
MutPlainLine(stats, t) ==
    LineOf(LAMBDA p, f : IF p \in DOMAIN stats[t] THEN stats[t][p][f] ELSE Dash,
         t # "Average" \/ Prefetchers \subseteq DOMAIN stats[t])

\* One row per trace, as computed; a workload nobody ran has no line, and one
\* that lacks a prefetcher ends the process (assert(0)).
PlainLine(stats, t) == LineOf(LAMBDA p, f : stats[t][p][f], Prefetchers \subseteq DOMAIN stats[t])
HasPlainLine(stats, t) == t \in DOMAIN stats

\* The detail scripts merge the simpoints of a workload into one line.
MergedLine(stats, parts) ==
    LineOf(LAMBDA p, f : MeanOf(f, [n \in DOMAIN parts |-> stats[parts[n]][p][f]]),
         \A t \in ToSet(parts) : Prefetchers \subseteq DOMAIN stats[t])

\* mutant: the average is not taken over as it is
MutGapParts(order, w) == Subsequence(order, {t \in ToSet(order) : Occurs(w \o "-", t)})

GapParts(order, w) == Subsequence(order, {t \in ToSet(order) : Occurs(w \o "-", t) \/ t = w})
LigraParts(order, w) == Subsequence(order, {t \in ToSet(order) : Occurs(w \o ".com", t) \/ t = w})
ParsecParts(order, w) == Subsequence(order, {t \in ToSet(order) : Occurs(w, t) \/ t = w})
StorageParts(order, w) == Subsequence(order, {t \in ToSet(order) : Occurs("." \o w \o "-", t) \/ t = w})
PhaseParts(order, w) == Subsequence(order, {t \in ToSet(order) : Occurs(w \o "_phase", t) \/ t = w})

GapLine(stats, order, w) == MergedLine(stats, GapParts(order, w))
LigraLine(stats, order, w) == MergedLine(stats, LigraParts(order, w))
Parsec4Line(stats, order, w) == MergedLine(stats, ParsecParts(order, w))

\* The spec scripts also count, once a line is written, who is best in it, by
\* the names of four prefetchers that all their configurations have.
SpecLine(stats, order, w) == MergedLine(stats, GapParts(order, w))
StorageLine(stats, order, w) == MergedLine(stats, StorageParts(order, w))
\* in evaluation4 the counting is commented out
Spec4Line(stats, order, w) == MergedLine(stats, GapParts(order, w))
Gap4Line(stats, order, w) == MergedLine(stats, GapParts(order, w))
Ligra4Line(stats, order, w) == MergedLine(stats, LigraParts(order, w))

\* The cs scripts merge first, into DIC_MERGE, with an average of their own
\* over the workloads instead of the traces.
CsMerged(stats, order) == [w \in ToSet(output_workloads) |-> MergedLine(stats, PhaseParts(order, w))]
CsLine(stats, order, w) ==
    LET merged == CsMerged(stats, order)
        ok == \A x \in DOMAIN merged : merged[x][1]
        average(p, f) ==
            MeanOf(f, [n \in DOMAIN output_workloads |-> merged[output_workloads[n]][2][p][f]])
    IN  IF w = "Average" THEN LineOf(average, ok) ELSE <<ok, merged[w][2]>>

\* The line of a workload as each kind of script writes it.
FigsLine(kind, stats, order, w) ==
    CASE kind = "plain" -> PlainLine(stats, w)
      [] kind = "gap" -> GapLine(stats, order, w)
      [] kind = "ligra" -> LigraLine(stats, order, w)
      [] kind = "spec" -> SpecLine(stats, order, w)
      [] kind = "storage" -> StorageLine(stats, order, w)
      [] kind = "cs" -> CsLine(stats, order, w)
      [] kind = "gap4" -> Gap4Line(stats, order, w)
      [] kind = "ligra4" -> Ligra4Line(stats, order, w)
      [] kind = "parsec4" -> Parsec4Line(stats, order, w)
      [] kind = "spec4" -> Spec4Line(stats, order, w)

HasFigsLine(kind, stats, w) == kind # "plain" \/ HasPlainLine(stats, w)

\* The rows of the results' CSV: 'Average' of the table the script merged.
ResultRow(kind, stats, order, p) ==
    IF kind = "cs" THEN CsLine(stats, order, "Average")[2][p]
    ELSE [f \in output_metrics |-> stats["Average"][p][f]]
=============================================================================
