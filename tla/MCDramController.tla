-------------------------- MODULE MCDramController --------------------------
(* Two banks with two rows, three lines: two of them share a bank and      *)
(* differ in the row, and the third is alone on the other bank.            *)
EXTENDS DramController

CONSTANTS a1, a2, a3, b1, b2, r1, r2

MCBankOf == [a \in Addr |-> IF a = a3 THEN b2 ELSE b1]
MCRowOf == [a \in Addr |-> IF a = a2 THEN r2 ELSE r1]
MCBufferSetOf == [a \in Addr |-> 1]
=============================================================================
