---------------------------- MODULE ReportParser ----------------------------
(***************************************************************************)
(* parse_file of the evaluation scripts (analysis_py): what one report of  *)
(* the simulator adds to the table.  A report has a name (the prefetchers  *)
(* and the trace it stands for) and lines.  A line is abstracted to its    *)
(* kind, the cache or cpu it speaks of and the numbers in it.  The scripts *)
(* differ in the names they accept and in the lines they read; each variant*)
(* is a definition of its own.                                             *)
(*                                                                         *)
(* A reading is what one report assigns: a function from <<field, core>>   *)
(* to the number.  A field is a pair <<cache, name>>; the cache is "" for  *)
(* the fields of no cache.                                                 *)
(***************************************************************************)
EXTENDS Integers, Sequences, FiniteSets, TLC, SequencesExt, Values

CONSTANTS
    core_num,           \* CONFIGS["core_num"]
    output_workloads,   \* CONFIGS["output_workloads"], in its order
    output_prefetchers, \* CONFIGS["output_prefetchers"], in its order
    Fields              \* CONFIGS["metrics"]

ASSUME ConfigAssumption ==
    /\ core_num \in 1..4
    /\ IsFiniteSet(Fields)

Cores == 0..(core_num - 1)
CACHES == {"L1D", "L2C", "LLC"}

\* entry[field][-1] is the last core's: a line read before any IPC line.
At(cpu) == IF cpu = -1 THEN core_num - 1 ELSE cpu

-----------------------------------------------------------------------------
(* The fields one line assigns, by kind of line.                           *)

IpcLine(l) == <<"", "IPC">> :> l.val[1] @@ <<"", "Instructions">> :> l.val[2]

LoadLine(l) == <<l.cache, "Accesses">> :> l.val[1] @@ <<l.cache, "Misses">> :> l.val[2]

\* REQUESTED .. USEFUL .. USELESS
PrefetchLine(l) ==
    <<l.cache, "Prefetches">> :> Plus(l.val[1], l.val[2])
        @@ <<l.cache, "Prefetch Hits">> :> l.val[1]
        @@ <<l.cache, "Non-useful Prefetches">> :> l.val[2]

\* TIMELY PREFETCHES: a LATE PREFETCHES: b.  The first group is taken.
TimelyLine(l) == <<l.cache, "prefetch_late">> :> l.val[1]

\* The L1D line is matched once per evaluate_cache and written to each.
UsefulLine(l) == [f \in CACHES \X {"LOAD_ACCURACY"} |-> l.val[1]]

Nothing == [f \in {} |-> Dash]

BaseLine(l) ==
    CASE l.kind = "IPC" -> IpcLine(l)
      [] l.kind = "LOAD" /\ l.cache \in CACHES -> LoadLine(l)
      [] l.kind = "PREFETCH" /\ l.cache \in CACHES -> PrefetchLine(l)
      [] l.kind = "TIMELY" /\ l.cache \in CACHES -> TimelyLine(l)
      [] l.kind = "USEFUL" /\ l.cache = "L1D" -> UsefulLine(l)
      [] OTHER -> Nothing

OccupancyLine(l) ==
    CASE l.kind = "GHB PAGE" -> <<"", "GHB PAGE OCCUPANCY">> :> l.val[1]
      [] l.kind = "GHB PC" -> <<"", "GHB PC OCCUPANCY">> :> l.val[1]
      [] OTHER -> BaseLine(l)

\* <cache> PREFETCH ACCESS: a .. MISS: b, and LLC TOTAL ACCESS: a
TrafficLine(l) ==
    CASE l.kind = "PF ACCESS" /\ l.cache \in CACHES ->
            <<l.cache, "Prefetch Access">> :> l.val[1] @@ <<l.cache, "Prefetch Miss">> :> l.val[2]
      [] l.kind = "TOTAL" /\ l.cache = "LLC" -> <<"", "DRAM Access">> :> l.val[1]
      [] OTHER -> BaseLine(l)

LengthLine(l) ==
    CASE l.kind = "LEN PAGE" -> <<"", "Ave_len_page">> :> l.val[1]
      [] l.kind = "LEN PC" -> <<"", "Ave_len_pc">> :> l.val[1]
      [] l.kind = "PF ACCESS" /\ l.cache \in CACHES -> <<l.cache, "TOTAL_Misses">> :> l.val[2]
      [] OTHER -> BaseLine(l)

\* The MPKI of L1I is computed while parsing, from the instructions read so far.
L1ILine(l, instructions) ==
    CASE l.kind = "LOAD" /\ l.cache = "L1I" ->
            <<"L1I", "Misses">> :> l.val[2]
              @@ <<"L1I", "MPKI">> :> Over(Times(Num(1000), l.val[2]), instructions)
      [] l.kind = "LATENCY" /\ l.cache \in {"L1D", "L1I"} ->
            <<l.cache, "AVERAGE MISS LATENCY">> :> l.val[1]
      [] OTHER -> LengthLine(l)
-----------------------------------------------------------------------------
(* A report, line by line.  reading.cpu is the last core an IPC line named;*)
(* the reading is broken when parse_file raises: a field that "metrics"    *)
(* does not list, a core the configuration does not have, or arithmetic on *)
(* a cell nobody wrote.                                                    *)

Unwritable(cpu, cells) ==
    \/ ~ DOMAIN cells \subseteq Fields
    \/ At(cpu) \notin Cores
    \/ \E f \in DOMAIN cells : cells[f] = Raised

Assign(reading, cpu, cells) ==
    IF Unwritable(cpu, cells) THEN [reading EXCEPT !.broken = TRUE]
    ELSE [reading EXCEPT
            !.cpu = cpu,
            !.cells = [fc \in (DOMAIN cells) \X {At(cpu)} |-> cells[fc[1]]] @@ @]

Read(reading, l, cells) ==
    IF reading.broken \/ cells = Nothing THEN reading
    ELSE Assign(reading, IF l.kind = "IPC" THEN l.cpu ELSE reading.cpu, cells)

Instructions(reading) ==
    LET fc == <<<<"", "Instructions">>, At(reading.cpu)>>
    IN  IF fc \in DOMAIN reading.cells THEN reading.cells[fc] ELSE Dash

Unread == [cpu |-> -1, cells |-> Nothing, broken |-> FALSE]

ReadBase(lines) == FoldValues(LAMBDA s, l : Read(s, l, BaseLine(l)), Unread, lines)
ReadOccupancy(lines) == FoldValues(LAMBDA s, l : Read(s, l, OccupancyLine(l)), Unread, lines)
ReadTraffic(lines) == FoldValues(LAMBDA s, l : Read(s, l, TrafficLine(l)), Unread, lines)
ReadLength(lines) == FoldValues(LAMBDA s, l : Read(s, l, LengthLine(l)), Unread, lines)
ReadL1I(lines) ==
    FoldValues(LAMBDA s, l : Read(s, l, L1ILine(l, Instructions(s))), Unread, lines)
-----------------------------------------------------------------------------
(* Names.  A name is [prefs |-> the one or two prefetchers, trace |-> the  *)
(* trace, ext |-> "trace" or "out"].                                       *)

\* '-(.*)-no' takes both prefetchers with the dash between them
OneName(name) == IF Len(name.prefs) = 1 THEN name.prefs[1] ELSE name.prefs[1] \o "-" \o name.prefs[2]
\* '-(\w+)-(\w+)-no', else '-(\w+)-no'
TwoLevelName(name) == IF Len(name.prefs) = 1 THEN name.prefs[1] ELSE name.prefs[1] \o "+" \o name.prefs[2]

Wanted(prefetcher) ==
    \/ prefetcher = "no"
    \/ output_prefetchers = <<>>
    \/ prefetcher \in ToSet(output_prefetchers)

OutputTrace(trace) == trace \in ToSet(output_workloads)
SomeOutput(trace) == output_workloads # <<>>

\* What parse_file returns: its key, and what it read.  A report that the
\* name excludes is not opened.
Parsed(key, taken, reading) ==
    [key |-> key,
     kind |-> IF ~ taken THEN "skipped"
              ELSE IF reading.broken THEN "broken"
              ELSE IF reading.cpu = -1 THEN "unreached" ELSE "reached",
     cells |-> IF taken THEN reading.cells ELSE Nothing]

parse_file_base(name, lines) ==
    LET p == OneName(name)
    IN  Parsed(<<name.trace, p>>, name.ext = "trace" /\ OutputTrace(name.trace) /\ Wanted(p), ReadBase(lines))

parse_file_detail(name, lines) ==
    LET p == OneName(name)
    IN  Parsed(<<name.trace, p>>, name.ext = "trace" /\ SomeOutput(name.trace) /\ Wanted(p), ReadBase(lines))

parse_file_two_level(name, lines) ==
    LET p == TwoLevelName(name)
    IN  Parsed(<<name.trace, p>>, name.ext = "trace" /\ OutputTrace(name.trace) /\ Wanted(p), ReadBase(lines))

parse_file_storage(name, lines) ==
    LET p == TwoLevelName(name)
    IN  Parsed(<<name.trace, p>>, name.ext = "trace" /\ SomeOutput(name.trace) /\ Wanted(p), ReadBase(lines))

parse_file_traffic(name, lines) ==
    LET p == TwoLevelName(name)
    IN  Parsed(<<name.trace, p>>, name.ext = "trace" /\ OutputTrace(name.trace) /\ Wanted(p), ReadTraffic(lines))

parse_file_4core(name, lines) ==
    LET p == OneName(name)
    IN  Parsed(<<name.trace, p>>, name.ext = "out" /\ OutputTrace(name.trace) /\ Wanted(p), ReadBase(lines))

parse_file_occupancy(name, lines) ==
    LET p == OneName(name)
    IN  Parsed(<<name.trace, p>>, name.ext = "trace" /\ OutputTrace(name.trace) /\ Wanted(p), ReadOccupancy(lines))

parse_file_length(name, lines) ==
    LET p == OneName(name)
    IN  Parsed(<<name.trace, p>>, name.ext = "trace" /\ OutputTrace(name.trace) /\ Wanted(p), ReadLength(lines))

parse_file_l1i(name, lines) ==
    LET p == OneName(name)
    IN  Parsed(<<name.trace, p>>,
               name.ext = "trace" /\ OutputTrace(name.trace) /\ (Wanted(p) \/ p = "ip_stride"), ReadL1I(lines))
=============================================================================
