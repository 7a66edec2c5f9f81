----------------------------- MODULE MCWorkspace -----------------------------
(***************************************************************************)
(* Sessions for Workspace: every script and every figure appears in one of *)
(* them.  A session runs the scripts that share files with its figures,    *)
(* and some of them twice, so that files of an earlier run are there.      *)
(***************************************************************************)
EXTENDS Workspace

Session(scripts, figures) == [scripts |-> scripts, figures |-> figures]

OneCore == {OnePrefIpci, L1DCoverage, L2Accuracy, L2Coverage, AC, AC2, ACIpStride, MemoryTraffic, Mpki, Coverage}
TwoLevels == {TwoLevelCoverage, TwoLevelIpci, TwoLevelMpki, TwoLevelMemoryTraffic, TwoLevelTraffic}
Sweeps == {L1DOffFigure, ThreshL1DFigure, ThreshL2CFigure, PbFigure, HisnumFigure, TableSize2, Dse}
Detail3 == {Detail3IpciCs, Detail3IpciLigra, Detail3IpciGap, Detail3IpciSpec06, Detail3IpciSpec17}
Detail4 ==
    {Detail4IpciCs, Detail4IpciLigra, Detail4IpciGap, Detail4IpciSpec06, Detail4IpciSpec17, IpciGapSort,
     IpciParsecSort, IpciSpec06Sort, IpciSpec17Sort, CoverageGap, CoverageParsec, CoverageSpec06, CoverageSpec17}

MCSessions ==
    {Session(<<OnePref, OnePrefAll, OnePrefAll>>, OneCore),
     Session(<<TwoLevel, TwoLevelAll, TwoLevelAll>>, TwoLevels),
     Session(<<MtpsScript, MtpsAll, MtpsAll>>, {MtpsFigure, MtpsAllFigure}),
     Session(<<FourCore>>, {FourCoreSpeedup, FourCoreIpci}),
     Session(<<L1DOffScript, MaxPf, Pb, GhbOccupancy, PageSizeScript, ThreshL1DScript, TableSizeScript,
               SensitiveDesignScript, ThreshL2CScript, SensitiveDesignScript>>, Sweeps),
     Session(<<DeltaHisPage, DeltaHisPc, SpeedupStorage, SpeedupStorage>>, {SpeedupStorageFigure}),
     Session(<<ThreshSpec, ThreshSpec>>, {ThreshSpeedup, ThreshAccuracy}),
     Session(<<Detail3Cs, Detail3Merge>>, Detail3),
     Session(<<Detail3Gap, Detail3Ligra, Detail3Spec>>, Detail3),
     Session(<<Detail4Cs, Detail4Parsec, Detail4Merge>>, Detail4),
     Session(<<Detail4Gap, Detail4Ligra, Detail4Spec, Detail3Cs>>, Detail4)}
=============================================================================
