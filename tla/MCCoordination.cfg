SPECIFICATION MessagingSpec
VIEW Staleness
CONSTANTS
    s1 = s1
    s2 = s2
    s3 = s3
    Sessions = {s1, s2, s3}
    Operator = Operator
    Specs <- MCSpecs
    MaxVersion = 2
    Holders = {q1, q2, q3}
    Procs = {p1, p2}
    MaxSecret = 3
    Nothing = Nothing
    Incarnations = {p1, p2}
    Humans = {h1}
    Requests <- MCRequests
    MaxAttempts = 2
    MaxInbox = 2
    Nobody = Nobody
INVARIANTS
    ProtocolIsFenced
    DiscussionIsEarned
    MailboxIsBound
    MailIsAccounted
PROPERTIES
    HistoryIsKept
    MailboxStands
SYMMETRY BoxSymmetry
CONSTRAINTS ReplacesScopes TwoOfOneKind
