CONSTANTS
    a1 = a1
    a2 = a2
    a3 = a3
    b1 = b1
    b2 = b2
    r1 = r1
    r2 = r2
    Addr = {a1, a2, a3}
    NoAddr = NoAddr
    Bank = {b1, b2}
    Row = {r1, r2}
    NoRow = NoRow
    BankOf <- MCBankOf
    RowOf <- MCRowOf
    DRAM_RQ_SIZE = 2
    DRAM_WQ_SIZE = 2
    DRAM_WRITE_HIGH_WM = 2
    DRAM_WRITE_LOW_WM = 1
    enable_ddrp = TRUE
    enable_ddrp_buffer = TRUE
    BufferSet = {1}
    BufferSetOf <- MCBufferSetOf
    ddrp_buffer_assoc = 2
SPECIFICATION FairSpec
INVARIANTS
    TypeOK
    NoAssertionFails
    BanksMatchRequests
    CountersExact
    ReadsOwed
    WritebackKept
    BufferExclusive
PROPERTIES
    ReadsSeeWrites
    Drains
