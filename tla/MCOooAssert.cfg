CONSTANTS
    rax = rax
    flags = flags
    adr1 = adr1
    adr2 = adr2
    Reg = {rax, flags}
    NoReg = NoReg
    Addr = {adr1, adr2}
    NoAddr = NoAddr
    LineOf <- MCLineOf
    Kind <- AssertKind
    ROB_SIZE = 3
    LQ_SIZE = 2
    SQ_SIZE = 2
    MaxInstr = 3
SPECIFICATION Spec
INVARIANTS
    NoAssertionFails
