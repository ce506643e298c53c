SPECIFICATION FairSpec
CONSTANTS
    c1 = c1
    c2 = c2
    Calls = {c1, c2}
    OwnStatus = {401, 404}
INVARIANTS
    TypeOK
    LoggedAsAnswered
    FailuresAreTold
PROPERTIES
    ProcessEnds
CHECK_DEADLOCK FALSE
