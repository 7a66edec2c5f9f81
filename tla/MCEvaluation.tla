---------------------------- MODULE MCEvaluation ----------------------------
(***************************************************************************)
(* Evaluation on two traces, two prefetchers and the baseline, one core and*)
(* two caches.  The baseline directory is listed twice, as in most of the  *)
(* configurations, and at most one report is out of the ordinary: cut off, *)
(* empty, of a core the configuration lacks, without misses or prefetches, *)
(* or missing.                                                             *)
(***************************************************************************)
EXTENDS Evaluation

MCWorkloads == <<"bc", "cc">>
MCPrefetchers == <<"A", "B">>
MCMetrics == {<<"", "IPCI">>, <<"L1D", "Coverage">>, <<"L2C", "Accuracy">>, <<"L2C", "LOAD_ACCURACY">>}

MCFields ==
    {<<"", x>> : x \in {"IPC", "Instructions", "IPCI", "Global Coverage"}}
        \union {"L1D", "L2C"} \X {"Accesses", "Misses", "Prefetches", "Prefetch Hits",
            "Non-useful Prefetches", "traffic", "Coverage", "Uncovered", "Overprediction",
            "Accuracy", "MPKI", "TOTAL_Misses", "Prefetch Access", "Prefetch Miss"}
        \union CACHES \X {"LOAD_ACCURACY"}
        \union {<<"", x>> : x \in {"GHB PAGE OCCUPANCY", "Ave_len_page", "DRAM Access"}}
        \union {"L1I"} \X {"Misses", "MPKI"}

\* The traces of the workloads: a detail configuration names the workload,
\* its traces carry the simpoint; the plain ones name the trace.
Simpoint(w) == w \o "-0"
Phase(w) == w \o "_phase0"
Ligra(w) == w \o ".com-0"
Storage(w) == "1." \o w \o "-0"
MCOccurs(s, t) ==
    \E w \in {"bc", "cc", "xx"} :
        \/ <<s, t>> \in {<<w \o "-", Simpoint(w)>>, <<w \o "-", Storage(w)>>, <<w \o "_phase", Phase(w)>>,
                         <<w \o ".com", Ligra(w)>>, <<"." \o w \o "-", Storage(w)>>}
        \/ s = w /\ t \in {w, Simpoint(w), Phase(w), Ligra(w), Storage(w)}

S == INSTANCE Scripts
Variant(parse, final, average, record) == S!Variant(parse, final, average, record)

\* What a report says, by its name and how its run went.
Ipc(t, p) == CASE p = "no" -> 1 [] p = "A" -> 2 [] p = "B" -> IF t = "bc" THEN 3 ELSE 1
Line(kind, cache, cpu, val) == [kind |-> kind, cache |-> cache, cpu |-> cpu, val |-> val]
IpcOf(t, p, cpu) == Line("IPC", "", cpu, <<Num(Ipc(t, p)), Num(10)>>)
CacheLines(c, p, misses, useful) ==
    <<Line("LOAD", c, 0, <<Num(8), Num(misses)>>),
      Line("PREFETCH", c, 0, <<Num(useful), Num(useful)>>),
      Line("PF ACCESS", c, 0, <<Num(2), Num(useful)>>),
      Line("USEFUL", c, 0, <<Num(IF c = "L1D" THEN 90 ELSE 40)>>)>>

OtherLines(misses) ==
    <<Line("LOAD", "L1I", 0, <<Num(8), Num(misses)>>), Line("TOTAL", "LLC", 0, <<Num(5)>>),
      Line("GHB PAGE", "", 0, <<Num(1)>>), Line("LEN PAGE", "", 0, <<Num(3)>>)>>

Report(t, p, fate) ==
    LET useful == IF p = "no" \/ fate = "idle" THEN 0 ELSE 1
        misses == IF fate = "no misses" THEN 0
                  ELSE CASE p = "no" -> 4 [] p = "A" -> 2 [] p = "B" -> 3
    IN  CASE fate = "empty" -> <<>>
          [] fate = "cut" -> <<IpcOf(t, p, 0)>>
          [] fate = "core" -> <<IpcOf(t, p, 1)>>
          [] OTHER -> <<IpcOf(t, p, 0)>> \o CacheLines("L1D", p, misses, useful)
                                         \o CacheLines("L2C", p, misses, useful)
                                         \o OtherLines(misses)

Fates == {"well", "empty", "cut", "core", "no misses", "idle"}

\* A listing: the reports with their fates, in one of several orders.
ReadingOf(parse, t, p, fate) ==
    LET name(ext) == [prefs |-> <<p>>, trace |-> t, ext |-> ext]
        lines == Report(t, p, fate)
    IN  CASE parse = "base" -> parse_file_base(name("trace"), lines)
          [] parse = "detail" -> parse_file_detail(name("trace"), lines)
          [] parse = "two level" -> parse_file_two_level(name("trace"), lines)
          [] parse = "storage" -> parse_file_storage(name("trace"), lines)
          [] parse = "traffic" -> parse_file_traffic(name("trace"), lines)
          [] parse = "4core" -> parse_file_4core(name("out"), lines)
          [] parse = "occupancy" -> parse_file_occupancy(name("trace"), lines)
          [] parse = "length" -> parse_file_length(name("trace"), lines)
          [] parse = "l1i" -> parse_file_l1i(name("trace"), lines)

Baselines(ts) == <<<<ts[1], "no">>, <<ts[2], "no">>>>
ByTrace(ts) == <<<<ts[2], "B">>, <<ts[2], "A">>, <<ts[1], "B">>, <<ts[1], "A">>, <<ts[2], "no">>, <<ts[1], "no">>>>
Mixed(ts) == <<<<ts[1], "A">>, <<ts[1], "no">>, <<ts[2], "B">>, <<ts[1], "B">>, <<ts[2], "no">>, <<ts[2], "A">>>>
Orders(script_, ts) == IF script_.final = "scaled" /\ script_.record # "plain" THEN {Mixed(ts)} ELSE {Mixed(ts), ByTrace(ts)}

\* the files of the odd report have its fate, or are not there
Listing(script_, odd, fate, names) ==
    LET there == IF fate = "missing" THEN SelectSeq(names, LAMBDA k : k # odd) ELSE names
    IN  Settled([i \in DOMAIN there |->
            ReadingOf(script_.parse, there[i][1], there[i][2], IF there[i] = odd THEN fate ELSE "well")])

\* both traces in full, for the scripts whose parts differ most
Traces(script_) ==
    CASE script_.record = "plain" -> {MCWorkloads}
      [] script_.record = "gap" -> {<<Simpoint("bc"), Simpoint("cc")>>, <<Simpoint("bc"), Simpoint("xx")>>}
      [] script_.record = "cs" -> {<<Phase("bc"), Phase("cc")>>}

WholeListings(script_) ==
    UNION {{Listing(script_, <<ts[n], p>>, fate, Baselines(ts) \o order) :
                n \in {1, 2}, p \in {"no", "A", "B"}, fate \in Fates \union {"missing"}, order \in Orders(script_, ts)} :
            ts \in Traces(script_)}

\* one trace in one chunk, for every script
ShortNames(t) == <<<<t, "B">>, <<t, "no">>, <<t, "A">>>>
TraceOf(record) ==
    CASE record \in {"gap", "gap4", "spec", "spec4"} -> Simpoint("bc")
      [] record = "storage" -> Storage("bc")
      [] record \in {"ligra", "ligra4"} -> Ligra("bc")
      [] record = "cs" -> Phase("bc")
      [] OTHER -> "bc"
ShortListings(script_) ==
    {Listing(script_, <<TraceOf(script_.record), p>>, fate, ShortNames(TraceOf(script_.record))) :
        p \in {"no", "A"}, fate \in Fates \union {"missing"}}

Interleaved ==
    {Variant("base", "scaled", "found", "plain"), Variant("detail", "scaled", "found", "gap"),
     Variant("detail", "scaled", "found", "cs"), Variant("length", "total traffic", "found", "plain")}
MCScripts == S!Variants

MCListings(script_) ==
    ShortListings(script_) \union (IF script_ \in Interleaved THEN WholeListings(script_) ELSE {})

MCKey == {<<t, p>> : t \in {"bc", "cc", "bc-0", "cc-0", "xx-0", "bc_phase0", "cc_phase0", "bc.com-0", "1.bc-0"}, p \in {"no", "A", "B"}}
MCCell == MCFields \X {0}
MCReading == UNION {{l[i] : i \in DOMAIN l} : l \in UNION {MCListings(s) : s \in Scripts}}
MCValue == {Dash} \union UNION {{r.cells[c] : c \in DOMAIN r.cells} : r \in MCReading}
\* A column of the CSVs that names a cache shows what the simulator printed
\* for that cache ("L2C LOAD_ACCURACY" is one of the output_metrics).
ColumnsOfTheirCache ==
    \A i \in DOMAIN results.lines : results.run = "this" =>
        results.lines[i][2][<<"L2C", "LOAD_ACCURACY">>] = Num(40)
=============================================================================
