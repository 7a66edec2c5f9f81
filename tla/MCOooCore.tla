----------------------------- MODULE MCOooCore -----------------------------
(* The instructions of the checked traces: a register and the flags, two   *)
(* addresses of one line.                                                  *)
EXTENDS OooCore

CONSTANTS rax, flags, adr1, adr2

MCLineOf == [x \in Addr |-> 1]

Make(sources, destinations, loads, stores) ==
    [source_registers |-> [j \in Source |-> IF j <= Len(sources) THEN sources[j] ELSE NoReg],
     destination_registers |-> destinations,
     source_memory |-> [j \in Source |-> IF j <= Len(loads) THEN loads[j] ELSE NoAddr],
     destination_memory |-> [j \in Destination |-> IF j <= Len(stores) THEN stores[j] ELSE NoAddr]]

Alu == Make(<<rax, flags>>, {rax, flags}, <<>>, <<>>)
LoadA == Make(<<>>, {rax}, <<adr1>>, <<>>)
Chase == Make(<<rax>>, {rax}, <<adr1>>, <<>>)
StoreA == Make(<<rax>>, {}, <<>>, <<adr1>>)
StoreB == Make(<<>>, {}, <<>>, <<adr2>>)
StoreAB == Make(<<>>, {}, <<>>, <<adr1, adr2>>)
LoadAB == Make(<<>>, {}, <<adr1, adr2>>, <<>>)
Increment == Make(<<>>, {}, <<adr1>>, <<adr1>>)

MCKind == {Alu, Chase, StoreA, StoreB, LoadAB, Increment}
LiveKind == {Alu, Chase, StoreA, StoreAB}
DeadlockKind == {Alu, Chase, StoreA, LoadA}
AssertKind == {StoreAB, StoreB, LoadAB}
=============================================================================
