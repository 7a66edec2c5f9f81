------------------------------ MODULE Workspace ------------------------------
(***************************************************************************)
(* A session in the workspace: evaluation scripts are run one after the    *)
(* other, and figures are drawn from the CSV files when no script runs.    *)
(* A script starts one process per configuration; the processes share the  *)
(* disk and nothing else.  What a process computes is Evaluation's matter; *)
(* here it opens, extends and completes its two files, or dies on the way  *)
(* as CsvWriter lets it.                                                   *)
(*                                                                         *)
(* The scripts and figures of a session are CONSTANTS; when to draw what is*)
(* the user's choice.                                                      *)
(***************************************************************************)
EXTENDS Scripts, FigureScripts

CONSTANTS
    Sessions,   \* [scripts, in the order they are run; figures]
    MaxDeaths   \* how many processes of a session may die

ASSUME MaxDeathsAssumption == MaxDeaths \in Nat

\* A script has at least one stage; a configuration lists some number of
\* workloads; a figure is made of the panels of Figures, of which only bars
\* are of several suites.
ASSUME SessionsAssumption ==
    \A s \in Sessions :
        /\ s.scripts \in Seq(ToSet(s.scripts))
        /\ \A n \in DOMAIN s.scripts : s.scripts[n] \in Seq(ToSet(s.scripts[n])) \ {<<>>}
        /\ \A n \in DOMAIN s.scripts : \A k \in DOMAIN s.scripts[n] :
               \A c \in DOMAIN s.scripts[n][k].configs : s.scripts[n][k].configs[c].workloads \in Nat
        /\ \A figure \in s.figures : \A n \in DOMAIN figure :
               \/ /\ figure[n].kind = "bars"
                  /\ figure[n].suites \in Seq(ToSet(figure[n].suites)) \ {<<>>}
               \/ /\ figure[n].kind \in {"curve", "sizes"}
                  /\ figure[n].suites = <<"4suites">>
               \/ /\ figure[n].kind \in {"speeds", "grids", "storage", "lines"}
                  /\ figure[n].suites = <<figure[n].suites[1]>>

\* The configurations of a session's scripts that write files of that suite
\* and name: one that several scripts share can have several.
Authors(s, suite, name) ==
    UNION {UNION {{config \in ToSet(stages[k].configs) : config.suite = suite /\ FileName(stages[k], config) = name} :
                    k \in DOMAIN stages} : stages \in ToSet(s.scripts)}

VARIABLES
    session,
    script,     \* which script of the session was started last, 0 for none
    stage,      \* which of its stages
    procs,      \* its processes: [phase, and the lines of the figures' CSV written]
    started,    \* how many stages have been started: the number of the run
    disk,       \* path -> the file there
    latest,     \* path -> the last run that was to write it, and whether its process died
    deaths,
    drawn       \* what the last figure did: [outcome, marks, read]

vars == <<session, script, stage, procs, started, disk, latest, deaths, drawn>>

Stages == IF script = 0 THEN <<>> ELSE session.scripts[script]
Configs == IF stage = 0 THEN <<>> ELSE Stages[stage].configs
FigsPath(c) == FigsCsv(Configs[c].suite, FileName(Stages[stage], Configs[c]))
ResultsPath(c) == ResultsCsv(Configs[c].suite, FileName(Stages[stage], Configs[c]))

\* the workloads and the average
LinesOf(c) == Configs[c].workloads + 1

Nowhere == [path \in {} |-> <<>>]

\* f, with the same entry at all the paths: a file that is opened for writing
\* takes the place of the one there
Written(f, paths, entry) ==
    [path \in DOMAIN f \cup paths |-> IF path \in paths THEN entry ELSE f[path]]

NoFigure == [outcome |-> "none", marks |-> {}, read |-> {}]

Init ==
    /\ session \in Sessions
    /\ script = 0
    /\ stage = 0
    /\ procs = <<>>
    /\ started = 0
    /\ disk = Nowhere
    /\ latest = Nowhere
    /\ deaths = 0
    /\ drawn = NoFigure

\* mutant: bingo_evaluate returns without joining its processes
MutJoined == TRUE

\* for p in processes: p.join().  A process that died counts as joined.
Joined == \A c \in DOMAIN procs : procs[c].phase \in {"done", "died"}

Begin(which, number) ==
    LET next == session.scripts[which][number]
        paths == UNION {{ResultsCsv(config.suite, FileName(next, config)), FigsCsv(config.suite, FileName(next, config))} :
                          config \in ToSet(next.configs)}
    IN  /\ script' = which
        /\ stage' = number
        /\ started' = started + 1
        /\ procs' = [c \in DOMAIN next.configs |-> [phase |-> "run", lines |-> 0]]
        /\ latest' = Written(latest, paths, [run |-> started + 1, lost |-> FALSE])
        /\ drawn' = NoFigure
        /\ UNCHANGED <<session, disk, deaths>>

\* the next bingo_evaluate of a merge script
NextStage == Joined /\ stage < Len(Stages) /\ Begin(script, stage + 1)

Returned == Joined /\ stage = Len(Stages)

RunScript == Returned /\ script < Len(session.scripts) /\ Begin(script + 1, 1)

-----------------------------------------------------------------------------
(* The processes.                                                          *)

At(c, phase) == c \in DOMAIN procs /\ procs[c].phase = phase
File(c, lines, whole) == [config |-> Configs[c], run |-> started, lines |-> lines, whole |-> whole]
Proceed(c, phase, lines) == procs' = [procs EXCEPT ![c] = [phase |-> phase, lines |-> lines]]

OpenFigs(c) ==
    /\ At(c, "run")
    /\ Proceed(c, "figs", 0)
    /\ disk' = Written(disk, {FigsPath(c)}, File(c, 0, FALSE))
    /\ UNCHANGED <<session, script, stage, started, latest, deaths, drawn>>

WriteLine(c) ==
    /\ At(c, "figs")
    /\ procs[c].lines < LinesOf(c)
    /\ Proceed(c, "figs", procs[c].lines + 1)
    /\ disk' = Written(disk, {FigsPath(c)},
                        File(c, procs[c].lines + 1, procs[c].lines + 1 = LinesOf(c)))
    /\ UNCHANGED <<session, script, stage, started, latest, deaths, drawn>>

OpenResults(c) ==
    /\ At(c, "figs")
    /\ procs[c].lines = LinesOf(c)
    /\ Proceed(c, "results", 0)
    /\ disk' = Written(disk, {ResultsPath(c)}, File(c, 0, FALSE))
    /\ UNCHANGED <<session, script, stage, started, latest, deaths, drawn>>

WriteResults(c) ==
    /\ At(c, "results")
    /\ Proceed(c, "done", 0)
    /\ disk' = Written(disk, {ResultsPath(c)}, File(c, 0, TRUE))
    /\ UNCHANGED <<session, script, stage, started, latest, deaths, drawn>>

\* The cs scripts compute every line before they open the file.
Die(c) ==
    /\ deaths < MaxDeaths
    /\ \/ At(c, "run")
       \/ At(c, "figs") /\ procs[c].lines < LinesOf(c) /\ Stages[stage].variant.record # "cs"
    /\ Proceed(c, "died", procs[c].lines)
    /\ latest' = Written(latest, {FigsPath(c), ResultsPath(c)}, [run |-> started, lost |-> TRUE])
    /\ deaths' = deaths + 1
    /\ UNCHANGED <<session, script, stage, started, disk, drawn>>

-----------------------------------------------------------------------------
(* The figures.                                                            *)

Draw(figure) ==
    /\ Returned
    /\ Drawable(figure, disk)
    /\ drawn' = [outcome |-> "drawn", marks |-> Marks(figure, disk), read |-> Reads(figure)]
    /\ UNCHANGED <<session, script, stage, procs, started, disk, latest, deaths>>

DrawRaises(figure) ==
    /\ Returned
    /\ ~ Drawable(figure, disk)
    /\ drawn' = [outcome |-> "raised", marks |-> {}, read |-> {}]
    /\ UNCHANGED <<session, script, stage, procs, started, disk, latest, deaths>>

Next ==
    \/ RunScript
    \/ NextStage
    \/ \E c \in DOMAIN procs : OpenFigs(c) \/ WriteLine(c) \/ OpenResults(c) \/ WriteResults(c) \/ Die(c)
    \/ \E figure \in session.figures : Draw(figure) \/ DrawRaises(figure)

Spec == Init /\ [][Next]_vars
-----------------------------------------------------------------------------
\* Every mark that a figure takes from a complete CSV is what the texts around
\* it say: the metric of its axis, title or legend, the suite of its title, the
\* workload or the prefetcher of its tick and curve.  The lists that figures go
\* through by position agree with the lists of prefetchers in the
\* configurations, whichever scripts wrote the files, and in which order.
MarksTrue == \A mark \in drawn.marks : mark.whole => mark.says = mark.shows

\* The files a figure is drawn from were written by the last run that was to
\* write them, unless the process that should have done so died: a run is over
\* when its script returns.
FiguresOfOneRun ==
    \A path \in drawn.read : latest[path].lost \/ disk[path].run = latest[path].run
=============================================================================
