------------------------------- MODULE Scripts -------------------------------
(***************************************************************************)
(* The evaluation scripts of analysis_py (1core_1pref_evaluate*.py and the *)
(* like).  Each is a copy of the same program with parts exchanged: how it *)
(* reads a report, computes the table, and writes a line.  bingo_evaluate  *)
(* starts one process per configuration of its list and waits for them.    *)
(*                                                                         *)
(* A script is a sequence of stages, each the processes of one             *)
(* bingo_evaluate; only the merge scripts have more than one.              *)
(***************************************************************************)
EXTENDS Configurations

Variant(parse, final, average, record) ==
    [parse |-> parse, final |-> final, average |-> average, record |-> record]
Stage(parse, final, record, configs) ==
    <<[variant |-> Variant(parse, final, "found", record), configs |-> configs]>>

\* What record_results appends to CONFIGS["date"] in the names of its files.
Suffix(record) ==
    CASE record \in {"gap", "ligra", "spec", "cs"} -> "merge"
      [] record = "storage" -> "storage"
      [] OTHER -> ""
FileName(stage, config) == config.date \o Suffix(stage.variant.record)

-----------------------------------------------------------------------------
(* evaluation3                                                             *)

OnePref == Stage("l1i", "total traffic", "plain", <<Pref1("spec2k06"), Pref1("spec2k17"), Pref1("4suites"), Pref1("parsec"), Pref1("gap")>>)
OnePrefAll == Stage("base", "scaled", "plain", <<Pref1("4suites")>>)

Detail3Cs == Stage("detail", "scaled", "cs", <<DetailCs>>)
Detail3Gap == Stage("detail", "scaled", "gap", <<DetailGap>>)
Detail3Ligra == Stage("detail", "scaled", "ligra", <<DetailLigra>>)
Detail3Spec == Stage("detail", "scaled", "spec", <<DetailSpec>>)
Detail3Merge == Detail3Cs \o Detail3Gap \o Detail3Ligra \o Detail3Spec

TwoLevel == Stage("two level", "plain", "plain", <<Mpref("spec2k17"), Mpref("gap"), Mpref("ligra"), Mpref("cs")>>)
TwoLevelAll == Stage("traffic", "miss traffic", "plain", <<Mpref("4suites")>>)

FourCore ==
    Stage("4core", "plain", "plain",
          <<Pref4("hete"), Pref4("4core_all"), Pref4("homo"), Pref4("spec2k06_4core"), Pref4("spec2k17_4core"),
            Pref4("gap4core"), Pref4("parsec4core")>>)

\* one directory per parameter
L1DOffScript == Stage("occupancy", "plain", "plain", <<L1DOff>>)
MaxPf == Stage("occupancy", "plain", "plain", <<IssueNum>>)
Pb == Stage("occupancy", "plain", "plain", <<PrefetchBuffer>>)
DeltaHisPage == Stage("occupancy", "plain", "plain", <<Unplotted("spec", "0334")>>)
DeltaHisPc == Stage("occupancy", "plain", "plain", <<Unplotted("spec", "0333")>>)
GhbOccupancy == Stage("occupancy", "plain", "plain", <<Hisnum>>)
PageSizeScript == Stage("occupancy", "plain", "plain", <<PageSize>>)
ThreshL1DScript == Stage("base", "plain", "plain", <<ThreshL1D, Unplotted("parsec", "0423")>>)
ThreshL2CScript == Stage("length", "total traffic", "plain", <<ThreshL2C>>)
TableSizeScript == Stage("base", "plain", "plain", <<Unplotted("spec", "0335"), Unplotted("parsec", "0425"), TableSize>>)

MtpsScript == Stage("two level", "plain", "plain", <<Mtps("spec2k17"), Mtps("gap"), Mtps("ligra"), Mtps("cs")>>)
MtpsAll == Stage("traffic", "miss traffic", "plain", <<Mtps("4suites")>>)

SensitiveDesignScript == Stage("base", "plain", "plain", <<SensitiveDesign>>)
ThreshSpec == Stage("base", "scaled", "plain", <<Thresholds>>)
SpeedupStorage == Stage("storage", "scaled", "storage", <<Storage>>)
-----------------------------------------------------------------------------
(* evaluation4                                                             *)

Detail4Cs == Stage("detail", "scaled", "cs", <<DetailCs>>)
Detail4Gap == Stage("detail", "scaled", "gap4", <<HermesGap>>)
Detail4Ligra == Stage("detail", "scaled", "ligra4", <<HermesLigra>>)
Detail4Parsec == Stage("detail", "scaled", "parsec4", <<HermesParsec>>)

\* the only script whose 'Average' is over the output workloads
Detail4Spec ==
    <<[variant |-> Variant("detail", "scaled", "output workloads", "spec4"), configs |-> <<HermesSpec17>>]>>

\* parsec is not among them
Detail4Merge == Detail4Cs \o Detail4Gap \o Detail4Ligra \o Detail4Spec
-----------------------------------------------------------------------------
AllScripts ==
    {OnePref, OnePrefAll, Detail3Cs, Detail3Gap, Detail3Ligra, Detail3Spec, Detail3Merge, TwoLevel, TwoLevelAll,
     FourCore, L1DOffScript, MaxPf, Pb, DeltaHisPage, DeltaHisPc, GhbOccupancy, PageSizeScript, ThreshL1DScript,
     ThreshL2CScript, TableSizeScript, MtpsScript, MtpsAll, SensitiveDesignScript, ThreshSpec, SpeedupStorage,
     Detail4Cs, Detail4Gap, Detail4Ligra, Detail4Parsec, Detail4Spec, Detail4Merge}

\* the variants there are
Variants == UNION {{s[n].variant : n \in DOMAIN s} : s \in AllScripts}
=============================================================================
