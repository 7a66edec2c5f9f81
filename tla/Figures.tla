------------------------------- MODULE Figures -------------------------------
(***************************************************************************)
(* The figure scripts of analysis_py: which CSV files each reads, and what *)
(* its marks (bars, points) say and show.  A mark says the metric, the     *)
(* suite or workload and the prefetcher that the texts around it give it:  *)
(* axis, title, legend and ticks.  It shows what the cell it was taken from*)
(* holds.  Many figures go by position: the n-th row of the CSV is drawn at*)
(* the n-th place of a list in the figure.                                 *)
(*                                                                         *)
(* A figure is a sequence of panels, drawn in that order and saved when all*)
(* are.  disk maps a path <<suite, name, kind>> to a file [config, run,    *)
(* lines, whole]; a results' CSV has one row per prefetcher, a figures' CSV*)
(* one line per workload, numbered from 1, and then that of the average.   *)
(* The first column whose name contains the metric is the metric's own in  *)
(* every configuration, so columns are named.                              *)
(*                                                                         *)
(* pandas and matplotlib are modelled from their calls: read_csv raises    *)
(* when the file is missing, and set_xticklabels when the labels are not as*)
(* many as the ticks.                                                      *)
(***************************************************************************)
EXTENDS Integers, Sequences, FiniteSets, SequencesExt

ResultsCsv(suite, name) == <<suite, name, "results">>
FigsCsv(suite, name) == <<suite, name, "figs">>
There(disk, path) == path \in DOMAIN disk

RowsIn(disk, path) == disk[path].config.prefetchers
Average == 0

\* The column that a text names, or the suite.
Meant(words) ==
    CASE words = "SpeedUp" -> "IPCI"
      [] words = "NMT" -> "LLC traffic"
      [] words = "L2 Coverage" -> "L2C Coverage"
      [] words = "SPEC CPU 2006" -> "spec2k06"
      [] words \in {"SPEC", "SPEC CPU 2017"} -> "spec2k17"
      [] words = "GAP" -> "gap"
      [] words = "PARSEC" -> "parsec"
      [] words = "Ligra" -> "ligra"
      [] words = "CloudSuite" -> "cs"
      [] words = "Homo" -> "homo"
      [] words = "Hetero" -> "hete"
      [] OTHER -> words

\* A figure without a text is right about what it draws.
Silent == "no text"
Said(words, drawn) == IF words = Silent THEN drawn ELSE Meant(words)

\* what axis, title or legend say of the metric, and the column that is drawn
Axis(words, column) == [words |-> words, column |-> column]
SpeedUp == Axis("SpeedUp", "IPCI")
MetricSaid(panel) == Said(panel.metric.words, panel.metric.column)

\* a label is <<what the figure says, what the cell holds>>
Marked(file, labels) == {[says |-> label[1], shows |-> label[2], whole |-> file.whole] : label \in labels}

-----------------------------------------------------------------------------
(* Bars: for each suite a group with a bar per prefetcher, from the row    *)
(* `first' on.  The names are those of the first suite; the n-th group has *)
(* the n-th title.                                                         *)

NoLegend == {}
TitledBars(suites, titles, name, metric, first, colors, legends) ==
    [kind |-> "bars", suites |-> suites, titles |-> titles, name |-> name, metric |-> metric, first |-> first,
     colors |-> colors, legends |-> legends]

\* each title is looked up by its suite
Bars(suites, name, metric, first, colors, legends) ==
    TitledBars(suites, suites, name, metric, first, colors, legends)

BarNames(panel, disk) == RowsIn(disk, ResultsCsv(panel.suites[1], panel.name))

BarsDrawn(panel, disk) ==
    LET path(suite) == ResultsCsv(suite, panel.name)
        names == BarNames(panel, disk)
        bars == panel.first..Len(names)
    IN  /\ \A suite \in ToSet(panel.suites) : There(disk, path(suite))
        /\ \A suite \in ToSet(panel.suites) : Len(RowsIn(disk, path(suite))) = Len(names)
        /\ Cardinality(bars) <= panel.colors
        /\ panel.legends = NoLegend \/ \A i \in bars : names[i][1] \in panel.legends

BarLabels(panel, n, names, rows) ==
    {<<<<MetricSaid(panel), Said(panel.titles[n], panel.suites[n]), names[i]>>,
       <<panel.metric.column, panel.suites[n], rows[i]>>>> : i \in panel.first..Len(names)}

BarMarks(panel, disk) ==
    LET path(n) == ResultsCsv(panel.suites[n], panel.name)
    IN  UNION {Marked(disk[path(n)], BarLabels(panel, n, BarNames(panel, disk), RowsIn(disk, path(n)))) :
                  n \in DOMAIN panel.suites}
-----------------------------------------------------------------------------
(* Curves over a swept parameter: the n-th row at the n-th label.  A figure*)
(* has a curve per metric, in the order of its legend.                     *)

Unlabelled == -1
Curves(name, metrics, legend, swept, labels) ==
    [n \in DOMAIN metrics |->
        [kind |-> "curve", suites |-> <<"4suites">>, name |-> name, metric |-> Axis(legend[n], metrics[n]),
         swept |-> swept, labels |-> labels]]

CurveDrawn(panel, rows) == Len(rows) = Len(panel.labels)

CurveLabels(panel, rows) ==
    {<<<<MetricSaid(panel), <<panel.swept, <<panel.labels[i]>>>>>>, <<panel.metric.column, rows[i]>>>> :
        i \in {j \in DOMAIN panel.labels : panel.labels[j] # Unlabelled}}
-----------------------------------------------------------------------------
(* Four curves over the memory's speed, each three rows of one CSV.        *)

Speeds(suite, title, name) ==
    [kind |-> "speeds", suites |-> <<suite>>, title |-> title, name |-> name, metric |-> Axis(Silent, "IPCI")]

\* mutant: in the order of the legends of the bars
MutSPEED_CURVES == <<"ipcp_isca2020", "mlop_dpc3", "vberti", "hyperion_hpc">>

\* the labels MLOP, IPCP, Berti and Hyperion, as the rows have them
SPEED_CURVES == <<"mlop_dpc3", "ipcp_isca2020", "vberti", "hyperion_hpc">>
SPEED_LABELS == <<6400, 3200, 1600>>

\* data_all[3 * (c - 1) + 1 : 3 * c + 1], counted from 0
SpeedRow(c, n) == 3 * (c - 1) + n + 1

SpeedsDrawn(panel, rows) == Len(rows) >= SpeedRow(4, 3)

SpeedLabels(panel, rows) ==
    {<<<<MetricSaid(panel), Said(panel.title, panel.suites[1]), <<SPEED_CURVES[c], <<SPEED_LABELS[n]>>>>>>,
       <<panel.metric.column, panel.suites[1], rows[SpeedRow(c, n)]>>>> :
        c \in DOMAIN SPEED_CURVES, n \in DOMAIN SPEED_LABELS}
-----------------------------------------------------------------------------
(* The sizes of the tables: twelve curves of five or six places.  A row is *)
(* put by the four numbers in its name: the curve says how the histories   *)
(* per PC compare to those per page, and by how much the deltas of each    *)
(* exceed its histories; the place says the histories per page.            *)

Sizes(name, table) ==
    [kind |-> "sizes", suites |-> <<"4suites">>, name |-> name, table |-> table, metric |-> SpeedUp]

PAGE_LABELS == <<4, 8, 16, 32, 64, 128>>
PlaceOf(page) == CHOOSE n \in DOMAIN PAGE_LABELS : PAGE_LABELS[n] = page

\* <<curve, cell>> of a row <<pc, pc_delta, page, page_delta>>: the curve as
\* <<1: half, 2: equal, 3: double; deltas>>, the cell from 1
CellOf(point) ==
    LET deltas == <<point[4], point[2]>>
    IN  CASE 2 * point[1] = point[3] -> <<<<1, deltas>>, PlaceOf(point[3]) - 1>>
          [] point[1] = point[3] -> <<<<2, deltas>>, PlaceOf(point[3])>>
          [] point[1] = 2 * point[3] -> <<<<3, deltas>>, PlaceOf(point[3])>>

\* the label under a cell: the first four curves start at the second label
LabelOf(cell) == PAGE_LABELS[IF cell[1][1] = 1 THEN cell[2] + 1 ELSE cell[2]]

\* what curve and label say of the row drawn there
SaidBy(cell) ==
    LET page == LabelOf(cell)
        pc == CASE cell[1][1] = 1 -> page \div 2
                [] cell[1][1] = 2 -> page
                [] cell[1][1] = 3 -> 2 * page
    IN  <<"table_size", <<pc, cell[1][2][2], page, cell[1][2][1]>>>>

\* Rows of another table's name are passed over.  Two rows of one cell would
\* leave only the second.
SizeLabels(panel, rows) ==
    LET matched == {i \in DOMAIN rows : rows[i][1] = panel.table}
        last == {i \in matched : \A j \in matched : CellOf(rows[j][2]) = CellOf(rows[i][2]) => j <= i}
    IN  {<<<<MetricSaid(panel), SaidBy(CellOf(rows[i][2]))>>, <<panel.metric.column, rows[i]>>>> : i \in last}
-----------------------------------------------------------------------------
(* Two grids over the thresholds of pages and of PCs.  A row's name has the*)
(* L1D's and the L2C's of the one and then of the other: the first grid    *)
(* shows the rows whose last two are 0.70 and 0.1, the second those whose  *)
(* first two are.  A square is drawn if its L1D threshold is the larger.   *)

Grids(suite, name, metric) == [kind |-> "grids", suites |-> <<suite>>, name |-> name, metric |-> metric]

FIXED == <<70, 10>>
GRID_L1D == <<50, 60, 70, 80>>
GRID_L2C == <<10, 20, 30, 40, 50>>

Shown(point, grid) == IF grid = 1 THEN SubSeq(point, 1, 2) ELSE SubSeq(point, 3, 4)
Others(point, grid) == Shown(point, 3 - grid)

\* a name without four numbers, or a threshold that the figure does not know,
\* raises
Placeable(point) ==
    /\ Len(point) = 4
    /\ \A grid \in {1, 2} :
        Others(point, grid) = FIXED => Shown(point, grid) \in ToSet(GRID_L1D) \X ToSet(GRID_L2C)

GridsDrawn(rows) == {i \in 2..Len(rows) : ~ Placeable(rows[i][2])} = {}

GridLabels(panel, rows) ==
    LET says(grid, square) == <<"thresholds", IF grid = 1 THEN square \o FIXED ELSE FIXED \o square>>
        squares(grid) ==
            {i \in 2..Len(rows) : /\ Others(rows[i][2], grid) = FIXED
                                  /\ Shown(rows[i][2], grid)[1] > Shown(rows[i][2], grid)[2]}
    IN  UNION {{<<<<MetricSaid(panel), says(grid, Shown(rows[i][2], grid))>>, <<panel.metric.column, rows[i]>>>> :
                   i \in squares(grid)} : grid \in {1, 2}}
-----------------------------------------------------------------------------
(* Speedup over storage: every point is placed and named by its prefetcher.*)

StoragePoints(suite, name, known) ==
    [kind |-> "storage", suites |-> <<suite>>, name |-> name, known |-> known, metric |-> SpeedUp]

StorageDrawn(panel, rows) == \A i \in 2..Len(rows) : rows[i][1] \in panel.known

StorageLabels(panel, rows) ==
    {<<<<MetricSaid(panel), rows[i]>>, <<panel.metric.column, rows[i]>>>> : i \in 2..Len(rows)}
-----------------------------------------------------------------------------
(* Bars per workload, from a figures' CSV.  The last column is renamed     *)
(* Geomean, or all keep their names, or the last is dropped and the others *)
(* are sorted (which moves names and bars together).                       *)

Lines(suite, title, name, metric, rows, columns, legends) ==
    [kind |-> "lines", suites |-> <<suite>>, title |-> title, name |-> name, metric |-> metric, rows |-> rows,
     columns |-> columns, legends |-> legends]

\* all rows, all but the baseline's, or hyperion's alone; there are 4 colours
RowsDrawn(panel, disk) ==
    LET all == Len(RowsIn(disk, FigsCsv(panel.suites[1], panel.name)))
    IN  CASE panel.rows = "all" -> 1..all
          [] panel.rows = "but the first" -> 2..all
          [] panel.rows = "the second" -> {2}

LinesDrawn(panel, disk) ==
    LET path == FigsCsv(panel.suites[1], panel.name)
    IN  /\ There(disk, path)
        /\ panel.columns = "as they are" \/ disk[path].lines > 0
        /\ panel.rows = "but the first" \/ Len(RowsIn(disk, path)) >= 4
        /\ Cardinality(RowsDrawn(panel, disk)) <= 4
        /\ \A i \in RowsDrawn(panel, disk) : RowsIn(disk, path)[i][1] \in panel.legends

\* the workload of a line of a file, Average for the last of a whole one
WorkloadOf(file, n) == IF n > file.config.workloads THEN Average ELSE n

LineLabels(panel, file, shown) ==
    LET last == IF panel.columns = "sorted" THEN file.lines - 1 ELSE file.lines
        named(n) == IF panel.columns = "renamed" /\ n = last THEN Average ELSE WorkloadOf(file, n)
        rows == file.config.prefetchers
    IN  {<<<<MetricSaid(panel), Said(panel.title, panel.suites[1]), named(n), rows[i]>>,
           <<panel.metric.column, panel.suites[1], WorkloadOf(file, n), rows[i]>>>> : n \in 1..last, i \in shown}

LineMarks(panel, disk) ==
    LET file == disk[FigsCsv(panel.suites[1], panel.name)]
    IN  Marked(file, LineLabels(panel, file, RowsDrawn(panel, disk)))
-----------------------------------------------------------------------------
(* Panels and figures.  All panels but bars and lines are drawn from the   *)
(* rows of one results' CSV.                                               *)

RowsFit(panel, rows) ==
    CASE panel.kind = "curve" -> CurveDrawn(panel, rows)
      [] panel.kind = "speeds" -> SpeedsDrawn(panel, rows)
      [] panel.kind = "sizes" -> TRUE
      [] panel.kind = "grids" -> GridsDrawn(rows)
      [] panel.kind = "storage" -> StorageDrawn(panel, rows)

RowLabels(panel, rows) ==
    CASE panel.kind = "curve" -> CurveLabels(panel, rows)
      [] panel.kind = "speeds" -> SpeedLabels(panel, rows)
      [] panel.kind = "sizes" -> SizeLabels(panel, rows)
      [] panel.kind = "grids" -> GridLabels(panel, rows)
      [] panel.kind = "storage" -> StorageLabels(panel, rows)

PanelDrawn(panel, disk) ==
    LET path == ResultsCsv(panel.suites[1], panel.name)
    IN  CASE panel.kind = "bars" -> BarsDrawn(panel, disk)
          [] panel.kind = "lines" -> LinesDrawn(panel, disk)
          [] OTHER -> There(disk, path) /\ RowsFit(panel, RowsIn(disk, path))

PanelMarks(panel, disk) ==
    LET path == ResultsCsv(panel.suites[1], panel.name)
    IN  CASE panel.kind = "bars" -> BarMarks(panel, disk)
          [] panel.kind = "lines" -> LineMarks(panel, disk)
          [] OTHER -> Marked(disk[path], RowLabels(panel, RowsIn(disk, path)))

\* an exception in any panel ends the script before it saves the figure
Drawable(figure, disk) == \A n \in DOMAIN figure : PanelDrawn(figure[n], disk)
Marks(figure, disk) == UNION {PanelMarks(figure[n], disk) : n \in DOMAIN figure}
Reads(figure) ==
    UNION {{<<suite, figure[n].name, IF figure[n].kind = "lines" THEN "figs" ELSE "results">> :
                suite \in ToSet(figure[n].suites)} : n \in DOMAIN figure}
=============================================================================
