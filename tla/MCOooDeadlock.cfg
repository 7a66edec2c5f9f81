CONSTANTS
    rax = rax
    flags = flags
    adr1 = adr1
    adr2 = adr2
    Reg = {rax, flags}
    NoReg = NoReg
    Addr = {adr1, adr2}
    NoAddr = NoAddr
    LineOf <- MCLineOf
    Kind <- DeadlockKind
    ROB_SIZE = 4
    LQ_SIZE = 1
    SQ_SIZE = 2
    MaxInstr = 4
SPECIFICATION Spec
INVARIANTS
    NeverStuck
CHECK_DEADLOCK FALSE
