SPECIFICATION FairSpec
CONSTANTS
    h1 = h1
    h2 = h2
    u1 = u1
    u2 = u2
    NoURL = NoURL
    NoRequest = NoRequest
    NoClaim = NoClaim
    Empty = ""
    URLs <- MCURLs
    StoredURLs <- MCStoredURLs
    Canonical <- MCCanonical
    Ids <- MCIds
    Decimal <- MCDecimal
    Base62 <- MCBase62
    Names <- MCNames
    Suggestions <- MCSuggestions
    Wishes = {"", "e'"}
    Panics = {"e'"}
    Handlers = {h1, h2}
    Users = {u1}
    MaxRequests = 2
    Faults = {"exists", "hmset", "begin", "insert", "commit", "crash"}
INVARIANTS
    TypeOK
    SequentialUniqueness
    BackedByRedis
    LinkHasOwner
    AnsweredLinkIsListed
PROPERTIES
    LinksKeepTheirURL
    EveryRequestAnswered
    ImplementsRegistry
CHECK_DEADLOCK FALSE
