SPECIFICATION Spec
CONSTANTS
    c1 = c1
    c2 = c2
    Calls = {c1, c2}
    OwnStatus = {401, 404}
INVARIANT
    GracefulShutdown
CHECK_DEADLOCK FALSE
