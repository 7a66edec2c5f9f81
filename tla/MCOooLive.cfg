CONSTANTS
    rax = rax
    flags = flags
    adr1 = adr1
    adr2 = adr2
    Reg = {rax, flags}
    NoReg = NoReg
    Addr = {adr1, adr2}
    NoAddr = NoAddr
    LineOf <- MCLineOf
    Kind <- LiveKind
    ROB_SIZE = 3
    LQ_SIZE = 2
    SQ_SIZE = 2
    MaxInstr = 4
SPECIFICATION FairSpec
PROPERTIES
    RobDrains
CHECK_DEADLOCK FALSE
