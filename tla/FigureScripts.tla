--------------------------- MODULE FigureScripts ---------------------------
(***************************************************************************)
(* The figures: one definition per script of analysis_py that draws one.   *)
(* Several read files that no live configuration writes, or have a legend  *)
(* without a prefetcher that is in the file: these end with an exception.  *)
(***************************************************************************)
EXTENDS Figures

\* a text that is looked up by the metric, or repeats its name
Titled(column) == Axis(column, column)
TrafficText == Axis("NMT", "LLC traffic")

-----------------------------------------------------------------------------
(* evaluation3/1core_1pref_all, MT: the single core suites.                *)

FIVE_SUITES == <<"spec2k06", "spec2k17", "gap", "parsec", "4suites">>
OLD_LEGENDS == {"ipcp_isca2020", "mlop_dpc3", "vberti", "hyperion_hpc_aDiGHB_UTBh1_buffer8_8", "bingo_dpc3", "ppf"}
TWO_TABLE_LEGENDS ==
    {"no", "ipcp_isca2020", "mlop_dpc3", "vberti", "hyperion_hpc_2table_UTBh1_buffer8_10", "bingo_dpc3", "ppf"}
FIRST_LEGENDS == {"ipcp_isca2020", "mlop_dpc3", "vberti", "hyperion_hpc", "bingo_dpc3", "ppf"}

FiveSuites(metric, legends) == Bars(FIVE_SUITES, "0326", metric, 1, 8, legends)

OnePrefIpci == <<FiveSuites(SpeedUp, OLD_LEGENDS)>>
L1DCoverage == <<FiveSuites(Axis(Silent, "L1D Coverage"), OLD_LEGENDS)>>

\* both call the accuracy of the L1D a speedup
L2Accuracy == <<FiveSuites(Axis("SpeedUp", "L1D Accuracy"), OLD_LEGENDS)>>
L2Coverage == <<FiveSuites(Axis("SpeedUp", "L1D Accuracy"), OLD_LEGENDS)>>

AC_LEGENDS == {"ipcp_isca2020", "mlop_dpc3", "vberti", "hyperion_hpc_2table_UTBh1_buffer8_8", "bingo_dpc3", "ppf"}
AccuraciesAndCoverages(metrics, legends) ==
    <<FiveSuites(SpeedUp, NoLegend)>> \o [n \in DOMAIN metrics |-> FiveSuites(Titled(metrics[n]), legends)]
FIVE_METRICS == <<"L1D Accuracy", "L2C Accuracy", "L1D Coverage", "L2C Coverage", "LLC Coverage">>

AC == AccuraciesAndCoverages(<<"L1D Accuracy", "L1D Coverage", "L2C Accuracy", "L2C Coverage">>, AC_LEGENDS)
AC2 == AccuraciesAndCoverages(FIVE_METRICS, TWO_TABLE_LEGENDS)
ACIpStride == AccuraciesAndCoverages(FIVE_METRICS, TWO_TABLE_LEGENDS)

MT_LEGENDS == {"ipcp_isca2020", "mlop_dpc3", "vberti", "vberti20", "hyperion_hpc_2table_UTBh1_buffer8_10", "bingo_dpc3", "ppf"}
MemoryTraffic == <<FiveSuites(TrafficText, MT_LEGENDS)>>

\* the suites of an earlier evaluation
FOUR_SUITES == <<"spec2k17", "gap", "ligra", "cs">>
FourSuites(date, metric) == Bars(FOUR_SUITES, date, metric, 2, 4, FIRST_LEGENDS)

\* the levels are the ticks, the metric is on the axis
Mpki ==
    <<FourSuites("0101", Axis("L1D MPKI", "L1D MPKI")), FourSuites("0101", Axis("L2C MPKI", "L2C MPKI")),
      FourSuites("0101", Axis("LLC MPKI", "LLC MPKI"))>>
Coverage ==
    <<FourSuites("0106", Axis("L1D Coverage", "L1D Coverage")), FourSuites("0106", Axis("L2C Coverage", "L2C Coverage"))>>
-----------------------------------------------------------------------------
(* evaluation3/1core_mpref_all: prefetchers on two levels.                 *)

NINE_LEGENDS ==
    {"mlop_dpc3", "mlop_dpc3+bingo_dpc3", "mlop_dpc3+ppf", "vberti", "vberti+bingo_dpc3", "vberti+ppf",
     "hyperion_hpc", "hyperion_hpc+bingo_dpc3", "hyperion_hpc+ppf"}
ELEVEN_LEGENDS == NINE_LEGENDS \union {"ipcp_isca2020", "ipcp_isca2020+ipcp_isca2020"}

TwoLevelBars(suites, metric) == Bars(suites, "0102", metric, 2, 11, ELEVEN_LEGENDS)
NineBars(suites, metric) == Bars(suites, "0102", metric, 2, 9, NINE_LEGENDS)

TwoLevelCoverage ==
    LET suites == <<"spec2k17", "gap", "ligra">>
    IN  <<TwoLevelBars(suites, Axis("L2 Coverage", "L2C Coverage")),
          TwoLevelBars(suites, Axis("LLC Coverage", "LLC Coverage"))>>
TwoLevelIpci == <<TwoLevelBars(FOUR_SUITES, SpeedUp)>>
TwoLevelMpki == <<NineBars(FOUR_SUITES, Titled("L2C MPKI")), NineBars(FOUR_SUITES, Titled("LLC MPKI"))>>
TwoLevelMemoryTraffic == <<TwoLevelBars(<<"4suites">>, TrafficText)>>
TwoLevelTraffic ==
    [n \in 1..4 |-> NineBars(<<"4suites">>, Titled(<<"L1D traffic", "L2C traffic", "LLC traffic", "DRAM traffic">>[n]))]
-----------------------------------------------------------------------------
(* evaluation3/4core, 4core_1pref_all: four cores.                         *)

FOUR_CORE_LEGENDS == {"ipcp_isca2020", "mlop_dpc3", "vberti", "hyperion_hpc_2table_UTBh1_buffer9_2", "bingo_dpc3", "ppf"}
FourCoreSpeedup ==
    <<Bars(<<"spec2k06_4core", "spec2k17_4core", "gap4core", "parsec4core", "homo", "hete", "4core_all">>, "0326",
           SpeedUp, 1, 8, FOUR_CORE_LEGENDS)>>
FourCoreIpci ==
    <<TitledBars(FOUR_SUITES \o <<"homo", "hete">>, <<"SPEC", "GAP", "Ligra", "CloudSuite", "Homo", "Hetero">>, "0107",
                 SpeedUp, 2, 4, FIRST_LEGENDS)>>
-----------------------------------------------------------------------------
(* evaluation3/mtps: the speed of the memory.                              *)

MtpsFigure ==
    <<Speeds("spec2k17", "SPEC", "0110"), Speeds("gap", "GAP", "0110"), Speeds("ligra", "Ligra", "0110"),
      Speeds("cs", "CloudSuite", "0110")>>
MtpsAllFigure == <<Speeds("4suites", Silent, "0110")>>
-----------------------------------------------------------------------------
(* evaluation3, a directory per parameter, and dse: the design space.      *)

TENTHS == <<0, 10, 20, 30, 40, 50, 60, 70, 80, 90>>
L1D_THRESHOLDS == <<50, 60, 70, 80, 90>>
L2C_THRESHOLDS == <<10, 20, 30, 40, 50>>
BUFFER_SIZES == <<0, 4, 8, 16, 32, 64, 128, 256>>

IPCI_METRIC == <<"IPCI">>
IPCI_LEGEND == <<"SpeedUp">>
L1D_METRICS == <<"IPCI", "L1D Accuracy", "L1D Coverage">>
L1D_LEGEND == <<"SpeedUp", "L1D Accuracy", "L1D Coverage">>
L2C_METRICS == <<"IPCI", "L2C Accuracy", "L2C Coverage">>
L2C_LEGEND == <<"SpeedUp", "L2C Accuracy", "L2C Coverage">>

L1DOffFigure == Curves("0340", L1D_METRICS, L1D_LEGEND, "L1D_off", TENTHS)
ThreshL1DFigure == Curves("0337", L1D_METRICS, L1D_LEGEND, "thresh_L1D", L1D_THRESHOLDS)
ThreshL2CFigure == Curves("0339", L2C_METRICS, L2C_LEGEND, "thresh_L2C", L2C_THRESHOLDS)
PbFigure == Curves("0341", IPCI_METRIC, IPCI_LEGEND, "PB", BUFFER_SIZES)
HisnumFigure == Curves("0331", IPCI_METRIC, IPCI_LEGEND, "hisnum", <<4, 6, 8, 12, 16, 32, 64>>)

plot_hisnum == Curves("0331", IPCI_METRIC, IPCI_LEGEND, "hisnum", <<4, 8, 16, 32, 64>>)
plot_table_size == <<Sizes("0338", "table_size")>>
plot_thresh_L1D == ThreshL1DFigure
plot_thresh_L2C == ThreshL2CFigure
plot_L1D_off ==
    LET labels == [n \in 1..10 |-> IF n % 2 = 1 THEN 10 * (n - 1) ELSE Unlabelled]
    IN  Curves("0340", L1D_METRICS, L1D_LEGEND, "L1D_off", labels)
plot_PB == PbFigure
plot_MAX_PF == Curves("0342", L1D_METRICS, L1D_LEGEND, "issue_num", <<2, 4, 6, 8, 10, 12, 14, 16>>)
plot_page_size == Curves("0343", L1D_METRICS, L1D_LEGEND, "page_size", <<2, 4, 8, 16, 32, 64, 128, 256>>)

\* one file with all of them, saved at the end
Dse ==
    plot_hisnum \o plot_table_size \o plot_thresh_L1D \o plot_thresh_L2C \o plot_L1D_off \o plot_PB \o plot_MAX_PF
        \o plot_page_size

\* the names of the rows have changed since: hyperion_2table_size, where the
\* figure looks for hyperion_hpc_size, so its curves stay empty
TableSize2 == <<Sizes("0338", "hpc_size")>>
-----------------------------------------------------------------------------
(* evaluation3/sensitive_design.                                           *)

ThreshSpeedup == <<Grids("spec2k17", "1226", Axis(Silent, "IPCI"))>>
ThreshAccuracy == <<Grids("spec2k17", "1226", Axis(Silent, "L1D Accuracy"))>>
-----------------------------------------------------------------------------
(* evaluation3/speedup_storage.                                            *)

STORAGES == ELEVEN_LEGENDS \union {"ppfl2", "bingo_dpc3l2"}
SpeedupStorageFigure == <<StoragePoints("spec2k17", "1230storage", STORAGES)>>
-----------------------------------------------------------------------------
(* evaluation3 and evaluation4, 1core_1pref_detail: every workload.        *)

HERMES_LEGENDS == {"no", "hyperion", "hermes", "hyperion_hermes"}
FivePrefs(suite, name) == <<Lines(suite, Silent, name, SpeedUp, "but the first", "renamed", FIRST_LEGENDS)>>
FourPrefs(suite, title, columns) == <<Lines(suite, title, "1214", SpeedUp, "all", columns, HERMES_LEGENDS)>>

Detail3IpciCs == FivePrefs("cs", "0106merge")
Detail3IpciLigra == FivePrefs("ligra", "0106merge")
Detail3IpciGap == FivePrefs("gap", "0106")
Detail3IpciSpec06 == FivePrefs("spec2k06", "0106")
Detail3IpciSpec17 == FourPrefs("spec2k17", Silent, "renamed")

Detail4IpciCs == FivePrefs("cs", "0106merge")
Detail4IpciLigra == FivePrefs("ligra", "0106merge")
Detail4IpciGap == FivePrefs("gap", "0106")
Detail4IpciSpec06 == FourPrefs("spec2k06", Silent, "renamed")
Detail4IpciSpec17 == FourPrefs("spec2k17", Silent, "renamed")

IpciGapSort == FourPrefs("gap", "GAP", "as they are")
IpciParsecSort == FourPrefs("parsec", "PARSEC", "as they are")
IpciSpec06Sort == FourPrefs("spec2k06", "SPEC CPU 2006", "sorted")
IpciSpec17Sort == FourPrefs("spec2k17", "SPEC CPU 2017", "sorted")

Coverages(suite, title) ==
    <<Lines(suite, title, "1214", Titled("Global Coverage"), "the second", "sorted", HERMES_LEGENDS)>>

CoverageGap == Coverages("gap", "GAP")
CoverageParsec == Coverages("parsec", "PARSEC")
CoverageSpec06 == Coverages("spec2k06", "SPEC CPU 2006")
CoverageSpec17 == Coverages("spec2k17", "SPEC CPU 2017")
=============================================================================
