SPECIFICATION Spec
CONSTANTS
    h1 = h1
    h2 = h2
    e1 = e1
    e2 = e2
    p1 = p1
    p2 = p2
    NoUser = NoUser
    NoCode = NoCode
    NoRequest = NoRequest
    Handlers = {h1, h2}
    Emails = {e1, e2}
    MailAddresses = {e1, e2}
    Passwords = {p1, p2}
    Codes <- MCCodes
    Numerals <- MCNumerals
    Faults = {"insert", "set", "get", "del", "post", "begin", "update", "commit", "crash"}
SYMMETRY Symmetric
INVARIANTS
    TypeOK
    VerifiedByItsCode
    AccountsStayVerifiable
CHECK_DEADLOCK FALSE
