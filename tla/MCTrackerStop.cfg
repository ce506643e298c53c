SPECIFICATION Spec
CONSTANTS
    h1 = h1
    h2 = h2
    h3 = h3
    bot = bot
    w1 = w1
    w2 = w2
    s1 = s1
    s2 = s2
    f1 = f1
    f2 = f2
    Hits = {h1, h2, h3, bot}
    Ignored = {bot}
    Workers = {w1, w2}
    Stoppers = {s1, s2}
    Flushers = {f1}
    WorkerBufferSize = 2
    StoreFails = TRUE
    ExitAllowed = TRUE
SYMMETRY Symmetric
INVARIANTS
    TypeOK
    NothingVanishes
    StopKeepsEarlierHits
    PoolIsDown
PROPERTY
    ImplementsLedger
CHECK_DEADLOCK FALSE
