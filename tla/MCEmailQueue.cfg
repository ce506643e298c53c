SPECIFICATION FairSpec
CONSTANTS
    v1 = v1
    v2 = v2
    NoEmail = NoEmail
    Views = {v1, v2}
    MailAddresses <- MCAddresses
    Emails <- MCEmails
    Prefetch = 2
    Faults = {"bind", "publish", "close", "dial", "disconnect", "crash"}
    MaxLosses = 2
INVARIANTS
    TypeOK
    AnsweredEmailIsKept
    RetriedOnlyAfterLoss
    TriedInOrder
PROPERTIES
    AnsweredEmailIsTried
    ImplementsMailbox
CHECK_DEADLOCK FALSE
