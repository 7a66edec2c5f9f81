----------------------------- MODULE Evaluation -----------------------------
(***************************************************************************)
(* One evaluation process (bingo_setting of an evaluation script): the     *)
(* tables are cleared and the configuration read, the reports are parsed by*)
(* the pool and merged, the metrics computed and the two CSV files written *)
(* over those of an earlier run.  An exception anywhere ends the process,  *)
(* and leaves the files as they are then.                                  *)
(*                                                                         *)
(* The readings of the reports are fixed by the listing; ResultPool models *)
(* the parsing and the merge, Metrics the rows, Recorder the lines.        *)
(***************************************************************************)
EXTENDS Recorder, ResultPool

CONSTANTS
    Scripts,            \* [final, record]: the variants a script is made of
    Listings(_)         \* the listings of reports a script may find

\* a script's parts fit each other
ASSUME ScriptsAssumption ==
    \A s \in Scripts :
        /\ s.final \in RowVariants /\ RowFields(s.final) \subseteq Fields
        /\ s.record \in {"plain", "gap", "ligra", "spec", "storage", "cs", "gap4", "ligra4", "parsec4", "spec4"}
        /\ s.record = "plain" => s.average = "found"

\* a plain script reads the reports of its output workloads only
ASSUME ListingsAssumption ==
    \A s \in Scripts :
        /\ Listings(s) \subseteq Seq(Reading)
        /\ \A listing \in Listings(s) : \A i \in DOMAIN listing :
            s.record = "plain" /\ listing[i].kind = "reached" => listing[i].key[1] \in ToSet(output_workloads)

\* the lists of a configuration
ASSUME ConfigurationAssumption ==
    /\ output_workloads \in Seq(STRING) /\ output_prefetchers \in Seq(STRING) \ {<<>>}
    /\ output_metrics \subseteq Fields /\ <<"", "IPCI">> \in output_metrics

\* what parse_file finds: '-' or a number, for a field and a core
ASSUME CellsAssumption ==
    /\ Cell = Fields \X Cores
    /\ Blank = Dash
    /\ \A v \in Value \ {Dash} : Plain(v) /\ v \in Cells /\ v = Quotient(v.n, v.d)

\* no trace is called 'Average', or as a part of it would be
ASSUME KeyAssumption ==
    /\ Key \subseteq STRING \X STRING
    /\ \A k \in Key :
        /\ k[1] # "Average"
        /\ \A s \in {"Average" \o "-", "Average" \o ".com", "Average", "." \o "Average" \o "-", "Average" \o "_phase"} :
            ~ Occurs(s, k[1])

VARIABLES
    script,     \* the script that runs
    stage,      \* "parse", "final", "figs", "results", "done" or "died"
    stats,      \* ROI_ORIGIN_STATS after cal_final_results
    lead,       \* the Delta fields
    figs,       \* the figures' CSV: the lines it holds, and whether this run wrote it
    results     \* the results' CSV: its rows, likewise

evalVars == <<script, stage, stats, lead, figs, results>>
vars == <<poolVars, evalVars>>

OldFile == [run |-> "earlier", lines |-> <<>>]
NewFile == [run |-> "this", lines |-> <<>>]
AppendTo(file, name, cells) == [file EXCEPT !.lines = Append(@, <<name, cells>>)]

Init ==
    /\ script \in Scripts
    /\ PoolInit(Listings(script))
    /\ stage = "parse"
    /\ stats = Nothing
    /\ lead = Nothing
    /\ figs = OldFile
    /\ results = OldFile

ParentParses == stage = "parse" /\ ParentStep /\ UNCHANGED evalVars
WorkerParses(w) == stage = "parse" /\ WorkerStep(w) /\ UNCHANGED evalVars

Die ==
    /\ stage' = "died"
    /\ UNCHANGED <<poolVars, script, stats, lead, figs, results>>

\* pool.map raised
ParseDies == stage = "parse" /\ pool = "died" /\ Die

\* The table 'Average' is made of what was found, or, in one script, of the
\* output workloads.
AverageTraces == IF script.average = "found" THEN TraceOrder(rows) ELSE output_workloads

Computes(table) ==
    /\ NoneRaised(table)
    /\ ToSet(AverageTraces) \subseteq TracesOf(rows)

\* a trace without baseline, a value that cannot be computed, a workload
\* that is not there
FinalRaises ==
    /\ stage = "parse"
    /\ pool = "done"
    /\ HasBaseline(rows) => \E table \in {RowsOf(script.final, roi, rows)} : ~ Computes(table)
    /\ Die

cal_final_results ==
    /\ stage = "parse"
    /\ pool = "done"
    /\ HasBaseline(rows)
    /\ \E table \in {RowsOf(script.final, roi, rows)} :
        /\ Computes(table)
        /\ \E means \in {CoreMeans(table)}, order \in {AverageTraces} :
            \E all \in {WithAverage(means, order)} :
                /\ stats' = all
                /\ lead' = Leads(all, rows)
    /\ stage' = "final"
    /\ UNCHANGED <<poolVars, script, figs, results>>

\* the keys of ROI_ORIGIN_STATS now
Keys == Append(TraceOrder(rows), "Average")

\* The cs scripts merge before they open the file.
MergesFirst == script.record = "cs"
CanMerge == \A w \in ToSet(output_workloads) : FigsLine(script.record, stats, Keys, w)[1]

OpenFigs ==
    /\ stage = "final"
    /\ MergesFirst => CanMerge
    /\ figs' = NewFile
    /\ stage' = "figs"
    /\ UNCHANGED <<poolVars, script, stats, lead, results>>

MergeRaises == stage = "final" /\ MergesFirst /\ ~ CanMerge /\ Die

\* The workloads with a line, in the order of the configuration.
WithLine(kind, table) ==
    Subsequence(Workloads, {w \in ToSet(Workloads) : HasFigsLine(kind, table, w)})
FigsLines == WithLine(script.record, stats)
NextLine == FigsLines[Len(figs.lines) + 1]
LinesLeft == stage = "figs" /\ Len(figs.lines) < Len(FigsLines)

WriteLine ==
    /\ LinesLeft
    /\ FigsLine(script.record, stats, Keys, NextLine)[1]
    /\ figs' = AppendTo(figs, NextLine, FigsLine(script.record, stats, Keys, NextLine)[2])
    /\ UNCHANGED <<poolVars, script, stage, stats, lead, results>>

\* assert(0) or a KeyError: the lines so far stay
LineRaises == LinesLeft /\ ~ FigsLine(script.record, stats, Keys, NextLine)[1] /\ Die

\* mutant: the results' CSV is opened inside the with of the figures' CSV
MutOpenResults ==
    /\ stage = "figs"
    /\ results' = NewFile
    /\ stage' = "results"
    /\ UNCHANGED <<poolVars, script, stats, lead, figs>>

OpenResults ==
    /\ stage = "figs"
    /\ Len(figs.lines) = Len(FigsLines)
    /\ results' = NewFile
    /\ stage' = "results"
    /\ UNCHANGED <<poolVars, script, stats, lead, figs>>

RowsLeft == stage = "results" /\ Len(results.lines) < Len(output_prefetchers)
NextPrefetcher == output_prefetchers[Len(results.lines) + 1]

\* This cannot raise: the figures' line 'Average' read the same cells.
WriteRows ==
    /\ RowsLeft
    /\ results' = AppendTo(results, NextPrefetcher, ResultRow(script.record, stats, Keys, NextPrefetcher))
    /\ UNCHANGED <<poolVars, script, stage, stats, lead, figs>>

Finish ==
    /\ stage = "results"
    /\ Len(results.lines) = Len(output_prefetchers)
    /\ stage' = "done"
    /\ UNCHANGED <<poolVars, script, stats, lead, figs, results>>

Record == OpenFigs \/ WriteLine \/ OpenResults \/ WriteRows \/ Finish
RecordRaises == MergeRaises \/ LineRaises

Main == ParentParses \/ ParseDies \/ FinalRaises \/ cal_final_results \/ Record \/ RecordRaises
Next == Main \/ \E w \in Worker : WorkerParses(w)

\* The operating system runs every process: the parent and each worker go on
\* while they can.
Fairness == WF_vars(Main) /\ \A w \in Worker : WF_vars(WorkerParses(w))

Spec == Init /\ [][Next]_vars /\ Fairness
-----------------------------------------------------------------------------
\* The order in which glob listed the reports does not reach the numbers: had
\* the rows been inserted in any other order, cal_final_results would compute
\* the same table, although it repairs the baseline in place as it goes.
OrderIndependent ==
    stage = "final" /\ script.final # "total traffic" =>
        \A t \in TracesOf(rows) : \A order \in SetToSeqs(ToSet(PrefetchersOf(rows, t))) :
            CoreMeans(Settled([u \in {t} |-> RowsOfTrace(script.final, roi, order, t)]))[t] = stats[t]

\* The rows of the results' CSV can be compared: when record_results of the
\* plain scripts got that far, every prefetcher's IPCI is the mean of the same
\* number of traces, those for which any report finished.
AveragesComparable ==
    \A i \in DOMAIN results.lines :
        results.run = "this" /\ script.record = "plain"
            => results.lines[i][2][<<"", "IPCI">>].r = Cardinality(TracesOf(rows))

\* A results' CSV of this run has beside it a complete figures' CSV of this
\* run, whose line 'Average' holds the same numbers.
CsvsAgree ==
    results.run = "this" =>
        /\ figs.run = "this"
        /\ Len(figs.lines) = Len(FigsLines)
        /\ \A i \in DOMAIN results.lines :
            figs.lines[Len(figs.lines)] =
                <<"Average", [figs.lines[Len(figs.lines)][2] EXCEPT ![results.lines[i][1]] = results.lines[i][2]]>>

\* The two files of a process as CsvWriter sees them: the figures' CSV first
\* and whole, a results' CSV that is opened completed, an earlier one never
\* cut off, and an end in any case, whatever the reports hold.
Extent(file, lines) ==
    IF file.run = "earlier" THEN "old" ELSE IF Len(file.lines) = lines THEN "whole" ELSE "part"
Writer == INSTANCE CsvWriter WITH
    phase <- IF stage \in {"parse", "final"} THEN "run" ELSE stage,
    figs <- Extent(figs, Len(FigsLines)),
    results <- Extent(results, Len(output_prefetchers))
WritesCsvs == Writer!Spec

\* traverse_files_and_parse joins the process: whatever the reports hold, it ends.
EvaluationEnds == <>(stage \in {"done", "died"})
=============================================================================
