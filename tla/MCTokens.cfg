SPECIFICATION Spec
CONSTANTS
    h1 = h1
    h2 = h2
    p1 = p1
    p2 = p2
    p3 = p3
    p4 = p4
    NoPair = NoPair
    Handlers = {h1, h2}
    Pairs = {p1, p2, p3, p4}
    Faults = {"set", "del", "get", "answer", "crash"}
SYMMETRY Symmetric
INVARIANTS
    TypeOK
    RedeemedOnce
    SessionNotForked
    HeldPairsAreHonoured
PROPERTIES
    ImplementsSessions
CHECK_DEADLOCK FALSE
