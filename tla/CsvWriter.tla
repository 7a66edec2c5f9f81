------------------------------ MODULE CsvWriter ------------------------------
(***************************************************************************)
(* What an evaluation process promises about its two CSV files: the        *)
(* figures' CSV is whole before the results' CSV is opened, a process that *)
(* has opened the results' CSV completes it, and one that dies leaves the  *)
(* results' CSV of an earlier run as it was.  Every process ends.          *)
(***************************************************************************)
VARIABLES
    phase,      \* "run", "figs", "results", "done" or "died"
    figs,       \* "old" (an earlier run's, or none), "part" or "whole"
    results

vars == <<phase, figs, results>>

Init == phase = "run" /\ figs = "old" /\ results = "old"

OpenFigs == phase = "run" /\ phase' = "figs" /\ figs' = "part" /\ UNCHANGED results
CloseFigs == phase = "figs" /\ figs = "part" /\ figs' = "whole" /\ UNCHANGED <<phase, results>>
OpenResults ==
    /\ phase = "figs"
    /\ figs = "whole"
    /\ phase' = "results"
    /\ results' = "part"
    /\ UNCHANGED figs
CloseResults == phase = "results" /\ results = "part" /\ results' = "whole" /\ UNCHANGED <<phase, figs>>
Finish == phase = "results" /\ results = "whole" /\ phase' = "done" /\ UNCHANGED <<figs, results>>

\* an exception, while it computes or while it writes the figures' CSV
Die ==
    /\ phase = "run" \/ (phase = "figs" /\ figs = "part")
    /\ phase' = "died"
    /\ UNCHANGED <<figs, results>>

Next == OpenFigs \/ CloseFigs \/ OpenResults \/ CloseResults \/ Finish \/ Die

Spec == Init /\ [][Next]_vars /\ WF_vars(Next)
=============================================================================
