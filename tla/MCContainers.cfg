CONSTANTS
    p1 = p1
    p2 = p2
    p3 = p3
    a = a
    b = b
    Packet = {p1, p2, p3}
    Address = {a, b}
    AddressOf <- MCAddressOf
    Empty = Empty
    SIZE = 4
    Names = {a, b}
    MAX_SIZE = 6
    SMALL_SIZE = 5
    SMALLER_SIZE = 3
SPECIFICATION ContainersSpec
INVARIANTS
    AssertionsHold
    OccupiedSlots
    ActsAsSet
PROPERTIES
    ImplementsFifo
