------------------------------ MODULE MCL2Cache ------------------------------
(* The lines and ways of the checked instances.  Nothing tells two data    *)
(* lines, or two ways, apart.                                              *)
EXTENDS L2Cache

CONSTANTS x1, x2, pt1, w1, w2

Symmetry == Permutations({x1, x2}) \cup Permutations({w1, w2})
=============================================================================
