-------------------------- MODULE Workspace_proofs --------------------------
(***************************************************************************)
(* Proofs about Workspace, for every list of scripts, every set of figures *)
(* and any number of processes that die.  The invariant follows each file  *)
(* from the start of the run that is to write it: the file is there, whole *)
(* and of that run, or its process died, or a process of the stage that is *)
(* running has still to write it (FiguresOfOneRun).  A second invariant    *)
(* says who can have written a file: a configuration that writes there, so *)
(* the rows a figure goes through by position are those of one of a few    *)
(* lists.                                                                  *)
(***************************************************************************)
EXTENDS Workspace, SequenceTheorems, TLAPS

Phases == {"run", "figs", "results", "done", "died"}
Process == [phase : Phases, lines : Int]

Typed ==
    /\ session \in Sessions
    /\ script \in Nat /\ (script # 0 => script \in DOMAIN session.scripts)
    /\ stage \in Nat /\ (script = 0 <=> stage = 0)
    /\ DOMAIN procs = DOMAIN Configs
    /\ \A c \in DOMAIN procs : procs[c] \in Process /\ LinesOf(c) \in Nat \ {0}

PathsOf(c) == {FigsPath(c), ResultsPath(c)}

(* What process c has still to write at the path *)
Unwritten(c, path) ==
    \/ /\ FigsPath(c) = path
       /\ At(c, "run") \/ (At(c, "figs") /\ procs[c].lines # LinesOf(c))
    \/ /\ ResultsPath(c) = path
       /\ At(c, "run") \/ At(c, "figs") \/ At(c, "results")

(* The file of the last run that was to write it *)
WrittenLast(path) ==
    /\ path \in DOMAIN disk
    /\ disk[path].run = latest[path].run
    /\ disk[path].whole = TRUE

Settled(path) == latest[path].lost = TRUE \/ WrittenLast(path)

Announced ==
    /\ DOMAIN disk \subseteq DOMAIN latest
    /\ \A c \in DOMAIN procs : \A path \in PathsOf(c) :
          path \in DOMAIN latest /\ latest[path].run = started

Pending == \A path \in DOMAIN latest : Settled(path) \/ \E c \in DOMAIN procs : Unwritten(c, path)

(* A figure is drawn from files that are there, while no script runs. *)
DrawnAtRest == drawn.read # {} => Joined /\ drawn.read \subseteq DOMAIN disk

IInv == Typed /\ Announced /\ Pending /\ DrawnAtRest

-----------------------------------------------------------------------------
(* Files                                                                   *)

(* Written changes the entries at the paths and no others. *)
LEMMA WrittenFacts ==
    ASSUME NEW f, NEW paths, NEW entry
    PROVE  /\ DOMAIN Written(f, paths, entry) = DOMAIN f \cup paths
           /\ \A path \in paths : Written(f, paths, entry)[path] = entry
           /\ \A path \in DOMAIN f \ paths : Written(f, paths, entry)[path] = f[path]
  BY DEF Written

(* The two files of a process differ. *)
LEMMA PathsDiffer ==
    ASSUME NEW c, NEW d PROVE FigsPath(c) # ResultsPath(d)
<1>1. \A s, n, t, m : FigsCsv(s, n) # ResultsCsv(t, m)
  BY DEF FigsCsv, ResultsCsv
<1> QED BY <1>1 DEF FigsPath, ResultsPath

(* When all processes have ended, every file is settled. *)
LEMMA JoinedSettles ==
    ASSUME Pending, Joined PROVE \A path \in DOMAIN latest : Settled(path)
  BY DEF Pending, Joined, Unwritten, At

(* A figure that can be drawn finds its files. *)
LEMMA DrawableReads ==
    ASSUME NEW s \in Sessions, NEW figure \in s.figures, Drawable(figure, disk)
    PROVE  Reads(figure) \subseteq DOMAIN disk
<1> SUFFICES ASSUME NEW n \in DOMAIN figure, NEW suite \in ToSet(figure[n].suites)
             PROVE  <<suite, figure[n].name, IF figure[n].kind = "lines" THEN "figs" ELSE "results">>
                       \in DOMAIN disk
  BY DEF Reads
<1>1. PanelDrawn(figure[n], disk)
  BY DEF Drawable
<1>2. \/ figure[n].kind = "bars"
      \/ /\ figure[n].kind \in {"curve", "sizes"}
         /\ figure[n].suites = <<"4suites">>
      \/ /\ figure[n].kind \in {"speeds", "grids", "storage", "lines"}
         /\ figure[n].suites = <<figure[n].suites[1]>>
  BY SessionsAssumption
<1>3. ASSUME NEW x, figure[n].suites = <<x>> PROVE suite = x
  BY <1>3 DEF ToSet
<1>4. CASE figure[n].kind = "bars"
  <2>1. BarsDrawn(figure[n], disk)
    BY <1>1, <1>4 DEF PanelDrawn
  <2> QED BY <1>4, <2>1 DEF BarsDrawn, There, ResultsCsv
<1>5. CASE figure[n].kind = "lines" /\ figure[n].suites = <<figure[n].suites[1]>>
  <2>1. LinesDrawn(figure[n], disk) /\ suite = figure[n].suites[1]
    BY <1>1, <1>3, <1>5 DEF PanelDrawn
  <2> QED BY <1>5, <2>1 DEF LinesDrawn, There, FigsCsv
<1>6. CASE /\ figure[n].kind \in {"curve", "sizes", "speeds", "grids", "storage"}
           /\ suite = figure[n].suites[1]
  <2>1. There(disk, ResultsCsv(figure[n].suites[1], figure[n].name))
    BY <1>1, <1>6 DEF PanelDrawn
  <2> QED BY <1>6, <2>1 DEF There, ResultsCsv
<1>7. figure[n].suites = <<"4suites">> => suite = figure[n].suites[1]
  BY <1>3
<1>8. figure[n].suites = <<figure[n].suites[1]>> => suite = figure[n].suites[1]
  BY <1>3
<1> QED BY <1>2, <1>4, <1>5, <1>6, <1>7, <1>8

-----------------------------------------------------------------------------
(* The steps                                                               *)

(* Nothing is announced before the first script. *)
LEMMA InitIInv == Init => IInv
<1> SUFFICES ASSUME Init PROVE IInv
  OBVIOUS
<1>1. procs = <<>> /\ DOMAIN procs = {} /\ Configs = <<>> /\ DOMAIN Configs = {}
  BY DEF Init, Configs
<1>2. DOMAIN disk = {} /\ DOMAIN latest = {} /\ drawn.read = {}
  BY DEF Init, Nowhere, NoFigure
<1>3. Typed
  BY <1>1 DEF Init, Typed
<1> QED BY <1>1, <1>2, <1>3 DEF IInv, Announced, Pending, DrawnAtRest

(* A stage begins: its files are announced, and its processes have them    *)
(* to write.                                                               *)
LEMMA BeginKeeps ==
    ASSUME IInv, Joined, NEW which \in Nat \ {0}, NEW number \in Nat \ {0}, Begin(which, number),
           which \in DOMAIN session.scripts, number \in DOMAIN session.scripts[which]
    PROVE  IInv'
<1> DEFINE next == session.scripts[which][number]
           paths == UNION {{ResultsCsv(config.suite, FileName(next, config)), FigsCsv(config.suite, FileName(next, config))} :
                              config \in ToSet(next.configs)}
           entry == [run |-> started + 1, lost |-> FALSE]
<1>1. /\ script' = which /\ stage' = number /\ started' = started + 1
      /\ procs' = [c \in DOMAIN next.configs |-> [phase |-> "run", lines |-> 0]]
      /\ latest' = Written(latest, paths, entry)
      /\ drawn' = NoFigure /\ session' = session /\ disk' = disk
  BY DEF Begin
<1>2. Stages' = session.scripts[which] /\ Stages'[stage'] = next /\ Configs' = next.configs
  BY <1>1 DEF Stages, Configs
<1>3. /\ DOMAIN procs' = DOMAIN next.configs
      /\ \A c \in DOMAIN procs' : procs'[c] = [phase |-> "run", lines |-> 0]
  BY <1>1
<1>4. \A c \in DOMAIN procs' : next.configs[c].workloads \in Nat
  BY <1>3, SessionsAssumption DEF IInv, Typed
<1>5. Typed'
  <2>1. \A c \in DOMAIN procs' : LinesOf(c)' \in Nat \ {0}
    BY <1>2, <1>4 DEF LinesOf
  <2>2. \A c \in DOMAIN procs' : procs'[c] \in Process
    BY <1>3 DEF Process, Phases
  <2> QED BY <1>1, <1>2, <1>3, <2>1, <2>2 DEF IInv, Typed
<1>6. /\ DOMAIN latest' = DOMAIN latest \cup paths
      /\ \A path \in paths : latest'[path] = entry
      /\ \A path \in DOMAIN latest \ paths : latest'[path] = latest[path]
  <2> HIDE DEF paths, entry
  <2> QED BY <1>1 DEF Written
<1>7. \A c \in DOMAIN procs' :
         /\ FigsPath(c)' = FigsCsv(next.configs[c].suite, FileName(next, next.configs[c]))
         /\ ResultsPath(c)' = ResultsCsv(next.configs[c].suite, FileName(next, next.configs[c]))
  BY <1>2 DEF FigsPath, ResultsPath
<1>8. ToSet(next.configs) = {next.configs[c] : c \in DOMAIN next.configs}
  BY DEF ToSet
<1>9. \A c \in DOMAIN procs' : FigsPath(c)' \in paths /\ ResultsPath(c)' \in paths
  BY <1>3, <1>7, <1>8
<1>10. \A path \in paths : \E c \in DOMAIN procs' : FigsPath(c)' = path \/ ResultsPath(c)' = path
  BY <1>3, <1>7, <1>8
<1>11. Announced'
  <2>1. DOMAIN disk' \subseteq DOMAIN latest'
    BY <1>1, <1>6 DEF IInv, Announced
  <2>2. ASSUME NEW c \in DOMAIN procs', NEW path \in PathsOf(c)'
        PROVE  path \in DOMAIN latest' /\ latest'[path].run = started'
    <3>1. path \in paths
      BY <1>9, <2>2 DEF PathsOf
    <3>2. entry.run = started'
      BY <1>1
    <3> HIDE DEF paths, entry
    <3> QED BY <1>6, <3>1, <3>2
  <2> QED BY <2>1, <2>2 DEF Announced
<1>12. Pending'
  <2> SUFFICES ASSUME NEW path \in DOMAIN latest'
               PROVE  Settled(path)' \/ \E c \in DOMAIN procs' : Unwritten(c, path)'
    BY DEF Pending
  <2>1. CASE path \in paths
    <3>1. PICK c \in DOMAIN procs' : FigsPath(c)' = path \/ ResultsPath(c)' = path
      BY <1>10, <2>1
    <3>2. At(c, "run")'
      BY <1>3 DEF At
    <3> QED BY <3>1, <3>2 DEF Unwritten
  <2>2. CASE path \notin paths
    <3>1. path \in DOMAIN latest /\ latest'[path] = latest[path]
      BY <1>6, <2>2
    <3>2. Settled(path)
      BY <3>1, JoinedSettles DEF IInv
    <3> QED BY <1>1, <3>1, <3>2 DEF Settled, WrittenLast
  <2> QED BY <2>1, <2>2
<1>13. DrawnAtRest'
  BY <1>1 DEF DrawnAtRest, NoFigure
<1> QED BY <1>5, <1>11, <1>12, <1>13 DEF IInv

(* A process writes to one of its two files: the others stay as they are,  *)
(* and that one is of this run.                                            *)
LEMMA WriteKeeps ==
    ASSUME IInv, NEW c \in DOMAIN procs, NEW phase \in Phases, NEW lines \in Int,
           NEW path \in PathsOf(c), NEW size, NEW whole \in BOOLEAN,
           procs[c].phase \in {"run", "figs", "results"},
           Proceed(c, phase, lines),
           disk' = Written(disk, {path}, File(c, size, whole)),
           UNCHANGED <<session, script, stage, started, latest, deaths, drawn>>,
           whole \/ Unwritten(c, path)',
           \A p \in PathsOf(c) : p # path /\ Unwritten(c, p) => Unwritten(c, p)'
    PROVE  IInv'
<1>1. /\ session' = session /\ script' = script /\ stage' = stage
      /\ started' = started /\ latest' = latest /\ drawn' = drawn
  OBVIOUS
<1>2. Stages' = Stages /\ Configs' = Configs
  BY <1>1 DEF Stages, Configs
<1>3. \A d : FigsPath(d)' = FigsPath(d) /\ ResultsPath(d)' = ResultsPath(d) /\ LinesOf(d)' = LinesOf(d)
  BY <1>1, <1>2 DEF FigsPath, ResultsPath, LinesOf
<1>4. /\ DOMAIN procs' = DOMAIN procs
      /\ procs'[c] = [phase |-> phase, lines |-> lines]
      /\ \A d \in DOMAIN procs : d # c => procs'[d] = procs[d]
  BY DEF Proceed
<1>5. Typed'
  <2>1. \A d \in DOMAIN procs' : procs'[d] \in Process
    BY <1>4 DEF IInv, Typed, Process
  <2> QED BY <1>1, <1>2, <1>3, <1>4, <2>1 DEF IInv, Typed
<1>6. /\ DOMAIN disk' = DOMAIN disk \cup {path}
      /\ disk'[path] = File(c, size, whole)
      /\ \A p \in DOMAIN disk : p # path => disk'[p] = disk[p]
  BY DEF Written
<1>7. Announced'
  <2>1. \A d \in DOMAIN procs : PathsOf(d)' = PathsOf(d)
    BY <1>3 DEF PathsOf
  <2> QED BY <1>1, <1>4, <1>6, <2>1 DEF IInv, Announced
<1>8. \A d \in DOMAIN procs : \A p : d # c => (Unwritten(d, p)' <=> Unwritten(d, p))
  BY <1>3, <1>4 DEF Unwritten, At
<1>9. \A p : Unwritten(c, p) => p \in PathsOf(c)
  BY DEF Unwritten, PathsOf
<1>10. Pending'
  <2> SUFFICES ASSUME NEW p \in DOMAIN latest
               PROVE  Settled(p)' \/ \E d \in DOMAIN procs : Unwritten(d, p)'
    BY <1>1, <1>4 DEF Pending
  <2>1. CASE p = path /\ whole
    <3>1. File(c, size, whole).run = started /\ File(c, size, whole).whole = TRUE
      BY <2>1 DEF File
    <3>2. latest[path].run = started
      BY DEF IInv, Announced
    <3>3. disk'[path].run = latest'[path].run /\ disk'[path].whole = TRUE /\ path \in DOMAIN disk'
      BY <1>1, <1>6, <3>1, <3>2
    <3> QED BY <2>1, <3>3 DEF Settled, WrittenLast
  <2>2. CASE p = path /\ ~ whole
    BY <2>2
  <2>3. CASE p # path
    <3>1. Settled(p) => Settled(p)'
      BY <1>1, <1>6, <2>3 DEF Settled, WrittenLast
    <3>2. ASSUME NEW d \in DOMAIN procs, Unwritten(d, p) PROVE Unwritten(d, p)'
      BY <1>8, <1>9, <2>3, <3>2
    <3> QED BY <3>1, <3>2 DEF IInv, Pending
  <2> QED BY <2>1, <2>2, <2>3
<1>11. DrawnAtRest'
  <2>1. ~ Joined
    BY DEF Joined
  <2> QED BY <1>1, <2>1 DEF IInv, DrawnAtRest
<1> QED BY <1>5, <1>7, <1>10, <1>11 DEF IInv

(* A process dies: its two files are given up. *)
LEMMA DieKeeps ==
    ASSUME IInv, NEW c \in DOMAIN procs, Die(c)
    PROVE  IInv'
<1>1. /\ session' = session /\ script' = script /\ stage' = stage
      /\ started' = started /\ disk' = disk /\ drawn' = drawn
      /\ Proceed(c, "died", procs[c].lines)
      /\ procs[c].phase \in {"run", "figs"}
      /\ latest' = Written(latest, PathsOf(c), [run |-> started, lost |-> TRUE])
  BY DEF Die, At, PathsOf
<1>2. Stages' = Stages /\ Configs' = Configs
  BY <1>1 DEF Stages, Configs
<1>3. \A d : FigsPath(d)' = FigsPath(d) /\ ResultsPath(d)' = ResultsPath(d) /\ LinesOf(d)' = LinesOf(d)
  BY <1>1, <1>2 DEF FigsPath, ResultsPath, LinesOf
<1>4. /\ DOMAIN procs' = DOMAIN procs
      /\ procs'[c] = [phase |-> "died", lines |-> procs[c].lines]
      /\ \A d \in DOMAIN procs : d # c => procs'[d] = procs[d]
  BY <1>1 DEF Proceed
<1>5. Typed'
  <2>1. \A d \in DOMAIN procs' : procs'[d] \in Process
    BY <1>4 DEF IInv, Typed, Process, Phases
  <2> QED BY <1>1, <1>2, <1>3, <1>4, <2>1 DEF IInv, Typed
<1>6. /\ DOMAIN latest' = DOMAIN latest \cup PathsOf(c)
      /\ \A p \in PathsOf(c) : latest'[p].run = started /\ latest'[p].lost = TRUE
      /\ \A p \in DOMAIN latest \ PathsOf(c) : latest'[p] = latest[p]
  BY <1>1 DEF Written
<1>7. Announced'
  <2>1. \A d \in DOMAIN procs : PathsOf(d)' = PathsOf(d)
    BY <1>3 DEF PathsOf
  <2>2. \A d \in DOMAIN procs : \A p \in PathsOf(d) : p \in DOMAIN latest' /\ latest'[p].run = started
    BY <1>6 DEF IInv, Announced
  <2>3. DOMAIN disk' \subseteq DOMAIN latest'
    BY <1>1, <1>6 DEF IInv, Announced
  <2>4. \A d \in DOMAIN procs' : \A p \in PathsOf(d)' : p \in DOMAIN latest' /\ latest'[p].run = started'
    BY <1>1, <1>4, <2>1, <2>2
  <2> QED BY <2>3, <2>4 DEF Announced
<1>8. Pending'
  <2> SUFFICES ASSUME NEW p \in DOMAIN latest'
               PROVE  Settled(p)' \/ \E d \in DOMAIN procs : Unwritten(d, p)'
    BY <1>4 DEF Pending
  <2>1. CASE p \in PathsOf(c)
    BY <1>6, <2>1 DEF Settled
  <2>2. CASE p \notin PathsOf(c)
    <3>1. p \in DOMAIN latest /\ latest'[p] = latest[p]
      BY <1>6, <2>2
    <3>2. Settled(p) => Settled(p)'
      BY <1>1, <3>1 DEF Settled, WrittenLast
    <3>3. ASSUME NEW d \in DOMAIN procs, Unwritten(d, p) PROVE Unwritten(d, p)'
      <4>1. d # c
        BY <2>2, <3>3 DEF Unwritten, PathsOf
      <4> QED BY <1>3, <1>4, <3>3, <4>1 DEF Unwritten, At
    <3> QED BY <3>1, <3>2, <3>3 DEF IInv, Pending
  <2> QED BY <2>1, <2>2
<1>9. DrawnAtRest'
  <2>1. ~ Joined
    BY <1>1 DEF Joined
  <2> QED BY <1>1, <2>1 DEF IInv, DrawnAtRest
<1> QED BY <1>5, <1>7, <1>8, <1>9 DEF IInv

(* A figure changes nothing but what was drawn last. *)
LEMMA DrawKeeps ==
    ASSUME IInv, NEW figure \in session.figures, Draw(figure) \/ DrawRaises(figure)
    PROVE  IInv'
<1>1. /\ UNCHANGED <<session, script, stage, procs, started, disk, latest, deaths>>
      /\ Joined
      /\ drawn'.read # {} => (drawn'.read = Reads(figure) /\ Drawable(figure, disk))
  BY DEF Draw, DrawRaises, Returned
<1>2. /\ session' = session /\ script' = script /\ stage' = stage /\ procs' = procs
      /\ started' = started /\ disk' = disk /\ latest' = latest
  BY <1>1
<1>3. Stages' = Stages /\ Configs' = Configs
  BY <1>2 DEF Stages, Configs
<1>4. \A d : FigsPath(d)' = FigsPath(d) /\ ResultsPath(d)' = ResultsPath(d) /\ LinesOf(d)' = LinesOf(d)
  BY <1>2, <1>3 DEF FigsPath, ResultsPath, LinesOf
<1>5. Typed'
  BY <1>2, <1>3, <1>4 DEF IInv, Typed
<1>6. Announced'
  BY <1>2, <1>4 DEF IInv, Announced, PathsOf
<1>7. Pending'
  <2>1. \A p : Settled(p)' <=> Settled(p)
    BY <1>2 DEF Settled, WrittenLast
  <2>2. \A d, p : Unwritten(d, p)' <=> Unwritten(d, p)
    BY <1>2, <1>4 DEF Unwritten, At
  <2> QED BY <1>2, <2>1, <2>2 DEF IInv, Pending
<1>8. DrawnAtRest'
  <2>1. Joined' <=> Joined
    BY <1>2 DEF Joined
  <2>2. Drawable(figure, disk) => Reads(figure) \subseteq DOMAIN disk
    BY DrawableReads DEF IInv, Typed
  <2> QED BY <1>1, <1>2, <2>1, <2>2 DEF DrawnAtRest
<1> QED BY <1>5, <1>6, <1>7, <1>8 DEF IInv

(* Each step of a session keeps the invariant. *)
LEMMA NextKeeps == IInv /\ [Next]_vars => IInv'
<1> SUFFICES ASSUME IInv, [Next]_vars PROVE IInv'
  OBVIOUS
<1> DEFINE scripts == session.scripts
<1>10. /\ Len(scripts) \in Nat /\ DOMAIN scripts = 1 .. Len(scripts)
      /\ \A n \in DOMAIN scripts : /\ Len(scripts[n]) \in Nat \ {0}
                                   /\ DOMAIN scripts[n] = 1 .. Len(scripts[n])
  <2>1. /\ scripts \in Seq(ToSet(scripts))
        /\ \A n \in DOMAIN scripts : scripts[n] \in Seq(ToSet(scripts[n])) \ {<<>>}
    BY SessionsAssumption DEF IInv, Typed
  <2> HIDE DEF scripts
  <2>2. \A S : \A q \in Seq(S) : Len(q) \in Nat /\ DOMAIN q = 1 .. Len(q) /\ (q # <<>> => Len(q) # 0)
    BY LenProperties, EmptySeq
  <2> QED BY <2>1, <2>2
<1>11. \A c : UNCHANGED <<session, script, stage>> =>
         FigsPath(c)' = FigsPath(c) /\ ResultsPath(c)' = ResultsPath(c) /\ LinesOf(c)' = LinesOf(c)
  BY DEF FigsPath, ResultsPath, LinesOf, Configs, Stages
<1>1. CASE RunScript
  <2>1. Joined /\ Begin(script + 1, 1) /\ script \in Nat /\ script < Len(scripts)
    BY <1>1 DEF RunScript, Returned, IInv, Typed
  <2>2. script + 1 \in DOMAIN scripts /\ 1 \in DOMAIN scripts[script + 1]
    <3> HIDE DEF scripts
    <3>1. script + 1 \in DOMAIN scripts
      BY <1>10, <2>1
    <3> QED BY <1>10, <3>1
  <2>3. PICK which \in Nat \ {0} : which = script + 1
    BY <2>1
  <2> QED BY <2>1, <2>2, <2>3, BeginKeeps
<1>2. CASE NextStage
  <2>1. Joined /\ stage < Len(Stages) /\ Begin(script, stage + 1) /\ script \in Nat /\ stage \in Nat
    BY <1>2 DEF NextStage, IInv, Typed
  <2>2. script # 0 /\ Stages = scripts[script] /\ script \in DOMAIN scripts
    <3>1. script = 0 => stage = 0 /\ Stages = <<>>
      BY DEF Stages, IInv, Typed
    <3>2. script # 0
      BY <2>1, <3>1
    <3>3. Stages = scripts[script]
      BY <3>2 DEF Stages
    <3>4. script \in DOMAIN scripts
      BY <3>2 DEF IInv, Typed
    <3> QED BY <3>2, <3>3, <3>4
  <2>3. stage + 1 \in DOMAIN scripts[script]
    <3> HIDE DEF scripts
    <3> QED BY <1>10, <2>1, <2>2
  <2>4. PICK which \in Nat \ {0}, number \in Nat \ {0} : which = script /\ number = stage + 1
    BY <2>1, <2>2
  <2> QED BY <2>1, <2>2, <2>3, <2>4, BeginKeeps
<1>3. ASSUME NEW c \in DOMAIN procs, OpenFigs(c) PROVE IInv'
  <2>1. PICK path \in PathsOf(c), whole \in BOOLEAN : path = FigsPath(c) /\ whole = FALSE
    BY DEF PathsOf
  <2>2. /\ procs[c].phase = "run" /\ Proceed(c, "figs", 0)
        /\ disk' = Written(disk, {path}, File(c, 0, whole))
        /\ UNCHANGED <<session, script, stage, started, latest, deaths, drawn>>
    BY <1>3, <2>1 DEF OpenFigs, At
  <2>3. /\ DOMAIN procs' = DOMAIN procs /\ procs'[c] = [phase |-> "figs", lines |-> 0]
        /\ LinesOf(c)' # 0 /\ FigsPath(c)' = path /\ ResultsPath(c)' = ResultsPath(c)
    BY <1>11, <2>1, <2>2 DEF Proceed, IInv, Typed
  <2>4. Unwritten(c, path)' /\ \A p \in PathsOf(c) : p # path => Unwritten(c, p)'
    BY <2>1, <2>3 DEF Unwritten, At, PathsOf
  <2>5. path \in PathsOf(c) /\ "figs" \in Phases
    BY <2>1 DEF PathsOf, Phases
  <2> QED BY <2>2, <2>4, <2>5, WriteKeeps
<1>4. ASSUME NEW c \in DOMAIN procs, WriteLine(c) PROVE IInv'
  <2>7. procs[c].lines + 1 \in Int
    BY DEF IInv, Typed, Process
  <2>8. PICK lines \in Int : lines = procs[c].lines + 1
    BY <2>7
  <2>9. PICK path : path = FigsPath(c)
    OBVIOUS
  <2>10. PICK whole \in BOOLEAN : whole = (lines = LinesOf(c))
    OBVIOUS
  <2>1. /\ path = FigsPath(c) /\ lines = procs[c].lines + 1
        /\ whole = (procs[c].lines + 1 = LinesOf(c))
        /\ ~ whole => lines # LinesOf(c)
    BY <2>8, <2>9, <2>10
  <2>2. /\ procs[c].phase = "figs" /\ Proceed(c, "figs", lines)
        /\ disk' = Written(disk, {path}, File(c, lines, whole))
        /\ UNCHANGED <<session, script, stage, started, latest, deaths, drawn>>
    BY <1>4, <2>1 DEF WriteLine, At
  <2>3. /\ DOMAIN procs' = DOMAIN procs /\ procs'[c] = [phase |-> "figs", lines |-> lines]
        /\ LinesOf(c)' = LinesOf(c) /\ FigsPath(c)' = path /\ ResultsPath(c)' = ResultsPath(c)
    BY <1>11, <2>1, <2>2 DEF Proceed
  <2>4. whole \/ Unwritten(c, path)'
    BY <2>1, <2>3 DEF Unwritten, At
  <2>5. \A p \in PathsOf(c) : p # path => Unwritten(c, p)'
    BY <2>1, <2>3 DEF Unwritten, At, PathsOf
  <2>6. path \in PathsOf(c) /\ "figs" \in Phases
    BY <2>1 DEF PathsOf, Phases
  <2> QED BY <2>2, <2>4, <2>5, <2>6, WriteKeeps
<1>5. ASSUME NEW c \in DOMAIN procs, OpenResults(c) PROVE IInv'
  <2>1. PICK path \in PathsOf(c), whole \in BOOLEAN : path = ResultsPath(c) /\ whole = FALSE
    BY DEF PathsOf
  <2>2. /\ procs[c].phase = "figs" /\ procs[c].lines = LinesOf(c) /\ Proceed(c, "results", 0)
        /\ disk' = Written(disk, {path}, File(c, 0, whole))
        /\ UNCHANGED <<session, script, stage, started, latest, deaths, drawn>>
    BY <1>5, <2>1 DEF OpenResults, At
  <2>3. /\ DOMAIN procs' = DOMAIN procs /\ procs'[c] = [phase |-> "results", lines |-> 0]
        /\ ResultsPath(c)' = path
    BY <1>11, <2>1, <2>2 DEF Proceed
  <2>4. Unwritten(c, path)'
    BY <2>3 DEF Unwritten, At
  <2>5. \A p \in PathsOf(c) : p # path => ~ Unwritten(c, p)
    BY <2>1, <2>2 DEF Unwritten, At, PathsOf
  <2>6. path \in PathsOf(c) /\ "results" \in Phases
    BY <2>1 DEF PathsOf, Phases
  <2> QED BY <2>2, <2>4, <2>5, <2>6, WriteKeeps
<1>6. ASSUME NEW c \in DOMAIN procs, WriteResults(c) PROVE IInv'
  <2>1. PICK path \in PathsOf(c), whole \in BOOLEAN : path = ResultsPath(c) /\ whole = TRUE
    BY DEF PathsOf
  <2>2. /\ procs[c].phase = "results" /\ Proceed(c, "done", 0)
        /\ disk' = Written(disk, {path}, File(c, 0, whole))
        /\ UNCHANGED <<session, script, stage, started, latest, deaths, drawn>>
    BY <1>6, <2>1 DEF WriteResults, At
  <2>3. \A p \in PathsOf(c) : p # path => ~ Unwritten(c, p)
    BY <2>1, <2>2 DEF Unwritten, At, PathsOf
  <2>4. path \in PathsOf(c) /\ "done" \in Phases
    BY <2>1 DEF PathsOf, Phases
  <2>5. whole \/ Unwritten(c, path)'
    BY <2>1
  <2>6. \A p \in PathsOf(c) : p # path /\ Unwritten(c, p) => Unwritten(c, p)'
    BY <2>3
  <2>7. procs[c].phase \in {"run", "figs", "results"} /\ 0 \in Int
    BY <2>2
  <2> QED BY <2>2, <2>4, <2>5, <2>6, <2>7, WriteKeeps
<1>7. ASSUME NEW c \in DOMAIN procs, Die(c) PROVE IInv'
  BY <1>7, DieKeeps
<1>8. ASSUME NEW figure \in session.figures, Draw(figure) \/ DrawRaises(figure) PROVE IInv'
  BY <1>8, DrawKeeps
<1>9. CASE UNCHANGED vars
  <2>1. /\ session' = session /\ script' = script /\ stage' = stage /\ procs' = procs
        /\ started' = started /\ disk' = disk /\ latest' = latest /\ drawn' = drawn
    BY <1>9 DEF vars
  <2>2. Typed'
    BY <2>1 DEF IInv, Typed, LinesOf, Configs, Stages
  <2>3. \A c : FigsPath(c)' = FigsPath(c) /\ ResultsPath(c)' = ResultsPath(c) /\ LinesOf(c)' = LinesOf(c)
    BY <1>11, <2>1
  <2>4. Announced'
    BY <2>1, <2>3 DEF IInv, Announced, PathsOf
  <2>5. \A p : Settled(p)' <=> Settled(p)
    BY <2>1 DEF Settled, WrittenLast
  <2>6. \A c, p : Unwritten(c, p)' <=> Unwritten(c, p)
    BY <2>1, <2>3 DEF Unwritten, At
  <2>7. Pending'
    BY <2>1, <2>5, <2>6 DEF IInv, Pending
  <2>8. DrawnAtRest'
    BY <2>1 DEF IInv, DrawnAtRest, Joined
  <2> QED BY <2>2, <2>4, <2>7, <2>8 DEF IInv
<1> QED BY <1>1, <1>2, <1>3, <1>4, <1>5, <1>6, <1>7, <1>8, <1>9 DEF Next

(* Every state of every session satisfies it. *)
LEMMA IInvHolds == Spec => []IInv
  BY InitIInv, NextKeeps, PTL DEF Spec

-----------------------------------------------------------------------------
(* A figure is drawn from the files of the last run that was to write      *)
(* them, unless the process that should have done so died: bingo_evaluate  *)
(* joins all its processes, and no figure is drawn before it returns,      *)
(* however the processes interleave and whatever files they share.         *)
THEOREM OneRunPerFigure == Spec => []FiguresOfOneRun
<1>1. IInv => FiguresOfOneRun
  <2> SUFFICES ASSUME IInv, NEW path \in drawn.read
               PROVE  latest[path].lost \/ disk[path].run = latest[path].run
    BY DEF FiguresOfOneRun
  <2>1. Joined /\ path \in DOMAIN disk /\ path \in DOMAIN latest
    BY DEF IInv, DrawnAtRest, Announced
  <2>2. Settled(path)
    BY <2>1, JoinedSettles DEF IInv
  <2> QED BY <2>2 DEF Settled, WrittenLast
<1> QED BY <1>1, IInvHolds, PTL

(* When every process of the last stage has ended, each file that any      *)
(* script so far was to write is there, whole, and of the last run that    *)
(* was to write it, or a process that should have written it died.         *)
FilesAreWhole == Joined => \A path \in DOMAIN latest : Settled(path)

(* A script that has returned leaves no CSV half written, unless a process *)
(* of it died.                                                             *)
THEOREM ReturnsWithWholeFiles == Spec => []FilesAreWhole
<1>1. IInv => FilesAreWhole
  BY JoinedSettles DEF IInv, FilesAreWhole
<1> QED BY <1>1, IInvHolds, PTL

-----------------------------------------------------------------------------
(* Authors                                                                 *)

(* The running stage is one of the script's. *)
Staged == stage # 0 => stage \in DOMAIN Stages

(* A file is one of a configuration that some script of the session writes *)
(* there, and a whole figures' CSV has all its lines.                      *)
Authored ==
    \A path \in DOMAIN disk :
        /\ disk[path].config \in Authors(session, path[1], path[2])
        /\ disk[path].whole \in BOOLEAN
        /\ path[3] = "figs" /\ disk[path].whole = TRUE => disk[path].lines = disk[path].config.workloads + 1

Credited == Staged /\ Authored
AuthorsInv == IInv /\ Credited

(* A process writes files of which its configuration is an author. *)
LEMMA ProcessIsAuthor ==
    ASSUME Typed, Staged, NEW c \in DOMAIN procs
    PROVE  Configs[c] \in Authors(session, Configs[c].suite, FileName(Stages[stage], Configs[c]))
<1>1. stage # 0 /\ script # 0
  BY DEF Typed, Configs
<1>2. PICK stages : stages = Stages
  OBVIOUS
<1>3. stages \in ToSet(session.scripts) /\ stage \in DOMAIN stages
  BY <1>1, <1>2 DEF Typed, Staged, Stages, ToSet
<1>4. Configs[c] \in ToSet(stages[stage].configs)
  BY <1>1, <1>2 DEF Typed, Configs, ToSet
<1> QED BY <1>2, <1>3, <1>4 DEF Authors

(* Before the first script there are no files. *)
LEMMA InitAuthors == Init => AuthorsInv
<1> SUFFICES ASSUME Init PROVE AuthorsInv
  OBVIOUS
<1>1. DOMAIN disk = {} /\ stage = 0
  BY DEF Init, Nowhere
<1> QED BY <1>1, InitIInv DEF AuthorsInv, Credited, Staged, Authored

(* A process puts a file where its configuration belongs; a whole one of   *)
(* the figures has every line.                                             *)
LEMMA WriteKeepsAuthors ==
    ASSUME AuthorsInv, NEW c \in DOMAIN procs, NEW path, NEW kind, NEW lines, NEW whole \in BOOLEAN,
           path = <<Configs[c].suite, FileName(Stages[stage], Configs[c]), kind>>,
           disk' = Written(disk, {path}, File(c, lines, whole)),
           kind = "figs" /\ whole = TRUE => lines = LinesOf(c),
           UNCHANGED <<session, script, stage>>
    PROVE  Credited'
<1>1. Staged'
  BY DEF AuthorsInv, Credited, Staged, Stages
<1>2. PICK file : file = File(c, lines, whole)
  OBVIOUS
<1>3. file.config = Configs[c] /\ file.lines = lines /\ file.whole = whole
  BY <1>2 DEF File
<1>4. /\ DOMAIN disk' = DOMAIN disk \cup {path}
      /\ disk'[path] = file
      /\ \A p \in DOMAIN disk \ {path} : disk'[p] = disk[p]
  BY <1>2 DEF Written
<1>5. path[1] = Configs[c].suite /\ path[2] = FileName(Stages[stage], Configs[c]) /\ path[3] = kind
  OBVIOUS
<1>6. Configs[c] \in Authors(session, path[1], path[2])
  BY <1>5, ProcessIsAuthor DEF AuthorsInv, Credited, IInv
<1>7. kind = "figs" /\ whole = TRUE => lines = Configs[c].workloads + 1
  BY DEF LinesOf
<1>8. ASSUME NEW p \in DOMAIN disk'
      PROVE  /\ disk'[p].config \in Authors(session', p[1], p[2])
             /\ disk'[p].whole \in BOOLEAN
             /\ p[3] = "figs" /\ disk'[p].whole = TRUE => disk'[p].lines = disk'[p].config.workloads + 1
  <2>1. CASE p = path
    BY <1>3, <1>4, <1>5, <1>6, <1>7, <2>1
  <2>2. CASE p # path
    <3>1. p \in DOMAIN disk /\ disk'[p] = disk[p]
      BY <1>4, <1>8, <2>2
    <3> QED BY <3>1 DEF AuthorsInv, Credited, Authored
  <2> QED BY <2>1, <2>2
<1> QED BY <1>1, <1>8 DEF Credited, Authored

(* Every step keeps the authors of the files. *)
LEMMA NextAuthors == AuthorsInv /\ [Next]_vars => AuthorsInv'
<1> SUFFICES ASSUME AuthorsInv, [Next]_vars PROVE AuthorsInv'
  OBVIOUS
<1>1. IInv'
  BY NextKeeps DEF AuthorsInv
<1> SUFFICES Credited'
  BY <1>1 DEF AuthorsInv
<1>2. ASSUME NEW which, NEW number, Begin(which, number), which # 0,
             number \in DOMAIN session.scripts[which]
      PROVE  Credited'
  <2>1. script' = which /\ stage' = number /\ session' = session /\ disk' = disk
    BY <1>2 DEF Begin
  <2>2. Staged'
    BY <1>2, <2>1 DEF Staged, Stages
  <2>3. Authored'
    BY <2>1 DEF AuthorsInv, Credited, Authored
  <2> QED BY <2>2, <2>3 DEF Credited
<1>3. CASE RunScript
  <2>1. Begin(script + 1, 1) /\ script < Len(session.scripts) /\ script \in Nat /\ session \in Sessions
    BY <1>3 DEF RunScript, AuthorsInv, IInv, Typed
  <2>2. PICK which : which = script + 1
    OBVIOUS
  <2>3. which # 0 /\ which \in DOMAIN session.scripts
    BY <2>1, <2>2, SessionsAssumption
  <2>4. session.scripts[which] \in Seq(ToSet(session.scripts[which])) \ {<<>>}
    BY <2>1, <2>3, SessionsAssumption
  <2>5. 1 \in DOMAIN session.scripts[which]
    BY <2>4
  <2> QED BY <1>2, <2>1, <2>2, <2>3, <2>5
<1>4. CASE NextStage
  <2>1. Begin(script, stage + 1) /\ stage < Len(Stages) /\ script \in Nat /\ stage \in Nat /\ session \in Sessions
    BY <1>4 DEF NextStage, AuthorsInv, IInv, Typed
  <2>2. script # 0 /\ script \in DOMAIN session.scripts
    BY <2>1 DEF AuthorsInv, Credited, IInv, Typed, Stages
  <2>3. session.scripts[script] \in Seq(ToSet(session.scripts[script]))
    BY <2>1, <2>2, SessionsAssumption
  <2>4. PICK number : number = stage + 1
    OBVIOUS
  <2>5. number \in DOMAIN session.scripts[script]
    BY <2>1, <2>2, <2>3, <2>4 DEF Stages
  <2> QED BY <1>2, <2>1, <2>2, <2>4, <2>5
<1>5. ASSUME NEW c \in DOMAIN procs, OpenFigs(c) \/ WriteLine(c) \/ OpenResults(c) \/ WriteResults(c)
      PROVE  Credited'
  <2>1. UNCHANGED <<session, script, stage>>
    BY <1>5 DEF OpenFigs, WriteLine, OpenResults, WriteResults
  <2>2. CASE OpenFigs(c)
    <3>1. PICK path, kind, lines : path = FigsPath(c) /\ kind = "figs" /\ lines = 0
      OBVIOUS
    <3>2. PICK whole \in BOOLEAN : whole = FALSE
      OBVIOUS
    <3>3. disk' = Written(disk, {path}, File(c, lines, whole))
      BY <2>2, <3>1, <3>2 DEF OpenFigs
    <3>4. path = <<Configs[c].suite, FileName(Stages[stage], Configs[c]), kind>>
      BY <3>1 DEF FigsPath, FigsCsv
    <3> QED BY <2>1, <3>2, <3>3, <3>4, WriteKeepsAuthors
  <2>3. CASE WriteLine(c)
    <3>1. PICK path, kind, lines : path = FigsPath(c) /\ kind = "figs" /\ lines = procs[c].lines + 1
      OBVIOUS
    <3>2. PICK whole \in BOOLEAN : whole = (lines = LinesOf(c))
      OBVIOUS
    <3>3. disk' = Written(disk, {path}, File(c, lines, whole))
      BY <2>3, <3>1, <3>2 DEF WriteLine
    <3>4. path = <<Configs[c].suite, FileName(Stages[stage], Configs[c]), kind>>
      BY <3>1 DEF FigsPath, FigsCsv
    <3>5. whole = TRUE => lines = LinesOf(c)
      BY <3>2
    <3> QED BY <2>1, <3>3, <3>4, <3>5, WriteKeepsAuthors
  <2>4. CASE OpenResults(c)
    <3>1. PICK path, kind, lines : path = ResultsPath(c) /\ kind = "results" /\ lines = 0
      OBVIOUS
    <3>2. PICK whole \in BOOLEAN : whole = FALSE
      OBVIOUS
    <3>3. disk' = Written(disk, {path}, File(c, lines, whole))
      BY <2>4, <3>1, <3>2 DEF OpenResults
    <3>4. path = <<Configs[c].suite, FileName(Stages[stage], Configs[c]), kind>>
      BY <3>1 DEF ResultsPath, ResultsCsv
    <3> QED BY <2>1, <3>2, <3>3, <3>4, WriteKeepsAuthors
  <2>5. CASE WriteResults(c)
    <3>1. PICK path, kind, lines : path = ResultsPath(c) /\ kind = "results" /\ lines = 0
      OBVIOUS
    <3>2. PICK whole \in BOOLEAN : whole = TRUE
      OBVIOUS
    <3>3. disk' = Written(disk, {path}, File(c, lines, whole))
      BY <2>5, <3>1, <3>2 DEF WriteResults
    <3>4. path = <<Configs[c].suite, FileName(Stages[stage], Configs[c]), kind>>
      BY <3>1 DEF ResultsPath, ResultsCsv
    <3> QED BY <2>1, <3>1, <3>3, <3>4, WriteKeepsAuthors
  <2> QED BY <1>5, <2>2, <2>3, <2>4, <2>5
<1>6. ASSUME UNCHANGED <<session, script, stage, disk>>
      PROVE  Credited'
  BY <1>6 DEF AuthorsInv, Credited, Staged, Authored, Stages
<1>7. ASSUME NEW c \in DOMAIN procs, Die(c) PROVE Credited'
  <2>1. UNCHANGED <<session, script, stage, disk>>
    BY <1>7 DEF Die
  <2> QED BY <1>6, <2>1
<1>8. ASSUME NEW figure \in session.figures, Draw(figure) \/ DrawRaises(figure)
      PROVE  Credited'
  <2>1. UNCHANGED <<session, script, stage, disk>>
    BY <1>8 DEF Draw, DrawRaises
  <2> QED BY <1>6, <2>1
<1>9. CASE UNCHANGED vars
  <2>1. UNCHANGED <<session, script, stage, disk>>
    BY <1>9 DEF vars
  <2> QED BY <1>6, <2>1
<1> QED BY <1>3, <1>4, <1>5, <1>7, <1>8, <1>9 DEF Next

(* A file holds the rows of a configuration that writes files of its suite *)
(* and name, whichever scripts ran, in whatever order, and whichever       *)
(* process died; and a whole figures' CSV has a line for each workload of  *)
(* that configuration and one more, which a figure calls Geomean.          *)
THEOREM FilesHaveAuthors == Spec => []Authored
<1>1. AuthorsInv => Authored
  BY DEF AuthorsInv, Credited
<1> QED BY <1>1, InitAuthors, NextAuthors, PTL DEF Spec
=============================================================================
