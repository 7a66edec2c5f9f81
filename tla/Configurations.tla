--------------------------- MODULE Configurations ---------------------------
(***************************************************************************)
(* The configurations of analysis_py (the .json files beside the scripts) *)
(* that the live lists name, as far as the figures see them: the suite and *)
(* the date that make the names of the two CSV files, the prefetchers in   *)
(* the order of their rows, and how many workloads have a line.            *)
(*                                                                         *)
(* A prefetcher is <<name, point>>: point is empty, or the values of the   *)
(* parameters that a sweep writes into the name (a threshold of 0.80 is    *)
(* the 80 here).  The prefetchers of a configuration that no modelled      *)
(* figure reads are left out, and so are the workloads where no figure     *)
(* shows single workloads.                                                 *)
(***************************************************************************)
EXTENDS Integers, Sequences, SequencesExt

Named(names) == [i \in DOMAIN names |-> <<names[i], <<>>>>]
Sweep(name, values) == [i \in DOMAIN values |-> <<name, <<values[i]>>>>]
Config(suite, date, prefetchers) ==
    [suite |-> suite, date |-> date, prefetchers |-> prefetchers, workloads |-> 0]
Detail(suite, date, prefetchers, workloads) ==
    [suite |-> suite, date |-> date, prefetchers |-> prefetchers, workloads |-> workloads]
Unplotted(suite, date) == Config(suite, date, <<>>)

Pref1(suite) ==
    Config(suite, "0326", Named(<<"mlop_dpc3", "ipcp_isca2020", "vberti", "hyperion_hpc_2table_UTBh1_buffer8_10">>))

Pref4(suite) ==
    Config(suite, "0326", Named(<<"mlop_dpc3", "ipcp_isca2020", "vberti", "hyperion_hpc_2table_UTBh1_buffer9_2">>))

Mpref(suite) ==
    Config(suite, "0102",
           Named(<<"no", "mlop_dpc3", "mlop_dpc3+bingo_dpc3", "mlop_dpc3+ppf", "ipcp_isca2020",
                   "ipcp_isca2020+ipcp_isca2020", "vberti", "vberti+bingo_dpc3", "vberti+ppf",
                   "hyperion_hpc", "hyperion_hpc+bingo_dpc3", "hyperion_hpc+ppf">>))

\* each prefetcher at the default 6400 MT/s, at 3200 and at 1600
Mtps(suite) ==
    Config(suite, "0110",
           Named(<<"no">>) \o FlattenSeq([n \in 1..4 |->
               Sweep(<<"mlop_dpc3", "ipcp_isca2020", "vberti", "hyperion_hpc">>[n], <<6400, 3200, 1600>>)]))

Hisnum == Config("4suites", "0331", Sweep("hisnum", <<4, 8, 16, 32, 64>>))
ThreshL1D == Config("4suites", "0337", Sweep("thresh_L1D", <<50, 60, 70, 80, 90>>))
ThreshL2C == Config("4suites", "0339", Sweep("thresh_L2C", <<10, 20, 30, 40, 50>>))
L1DOff == Config("4suites", "0340", Sweep("L1D_off", <<0, 10, 20, 30, 40, 50, 60, 70, 80, 90>>))
PrefetchBuffer == Config("4suites", "0341", Sweep("PB", <<0, 4, 8, 16, 32, 64, 128, 256>>))
IssueNum == Config("4suites", "0342", Sweep("issue_num", <<2, 4, 6, 8, 10, 12, 14, 16>>))
PageSize == Config("4suites", "0343", Sweep("page_size", <<2, 4, 8, 16, 32, 64, 128, 256>>))

\* thresholds of L1D and L2C: a grid, then a line along each axis, which
\* repeats points of the grid.  The suite and the date are those of ThreshL2C.
SensitiveDesign ==
    LET point(l1d, l2c) == <<"sensitive_design", <<l1d, l2c>>>>
        along(l1d) == [n \in 1..5 |-> point(l1d, 10 * n)]
    IN  Config("4suites", "0339",
               along(60) \o along(70) \o along(80) \o along(90)
                   \o [n \in 1..7 |-> point(20 + 10 * n, 20)] \o along(80))

\* thresholds of pages and of PCs, every one with every other
Thresholds ==
    LET point(n) == <<50 + 10 * (n \div 100), 10 + 10 * ((n \div 20) % 5),
                      50 + 10 * ((n \div 5) % 4), 10 + 10 * (n % 5)>>
    IN  Config("spec2k17", "1226", Named(<<"no">>) \o [n \in 1..400 |-> <<"thresholds", point(n - 1)>>])

\* histories per PC and per page, adjacent powers of two, each with one or
\* two times as many deltas
TableSize ==
    LET powers == <<4, 8, 16, 32, 64, 128>>
        near(pc) == SelectSeq(powers, LAMBDA page : page \in {pc, 2 * pc} \/ 2 * page = pc)
        deltas == <<<<1, 1>>, <<1, 2>>, <<2, 1>>, <<2, 2>>>>
        names(pc, page) == [i \in DOMAIN deltas |-> <<"table_size", <<pc, deltas[i][1], page, deltas[i][2]>>>>]
    IN  Config("4suites", "0338",
               FlattenSeq([n \in DOMAIN powers |->
                   FlattenSeq([k \in DOMAIN near(powers[n]) |-> names(powers[n], near(powers[n])[k])])]))

Storage ==
    Config("spec2k17", "1230",
           Named(<<"no", "ppfl2", "bingo_dpc3l2", "mlop_dpc3", "mlop_dpc3+bingo_dpc3", "mlop_dpc3+ppf", "ipcp_isca2020",
                   "ipcp_isca2020+ipcp_isca2020", "vberti", "vberti+bingo_dpc3", "vberti+ppf", "hyperion_hpc",
                   "hyperion_hpc+bingo_dpc3", "hyperion_hpc+ppf">>))

\* the detail configurations of evaluation3 (cs: of evaluation4 too)
FivePrefetchers == Named(<<"no", "mlop_dpc3", "ipcp_isca2020", "vberti", "hyperion_hpc">>)
DetailCs == Detail("cs", "0106", FivePrefetchers, 5)
DetailGap == Detail("gap", "0101", FivePrefetchers, 5)
DetailLigra == Detail("ligra", "0106", FivePrefetchers, 13)
DetailSpec == Detail("spec2k17", "0101", FivePrefetchers, 30)

\* those of evaluation4
HermesPrefetchers == Named(<<"no", "hyperion", "hermes", "hyperion_hermes">>)
HermesGap == Detail("gap", "1214", HermesPrefetchers, 5)
HermesLigra == Detail("ligra", "1214", HermesPrefetchers, 13)
HermesParsec == Detail("parsec", "1214", HermesPrefetchers, 4)
HermesSpec17 == Detail("spec2k17", "1214", HermesPrefetchers, 45)
=============================================================================
