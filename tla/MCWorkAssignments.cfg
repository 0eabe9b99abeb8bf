SPECIFICATION Spec
CONSTANTS
    Sessions = {s1, s2}
    MailboxBound = {s2}
    Keys = {k1}
    Requests <- MCRequests
    Evidence = {"e1"}
    NoDeadline = NoDeadline
    Nobody = Nobody
    LeaseLength = 1
    MaxTime = 2
    MaxRevision = 6
    MaxGeneration = 2
INVARIANTS
    TypeOK
    AttemptsAreFenced
    ShownIsTrue
PROPERTIES
    RevisionsAreHistory
CHECK_DEADLOCK FALSE
