SPECIFICATION HeldSpec
CONSTANTS
    Handles = {h1, h2}
    Agents = {}
    Foreign = {}
    MaxTasks = 1
    None = None
    LeaseLength = 1
    ClaimLength = 1
    StaleTTL = 0
    ReportedStates = {"running", "completed"}
    Operators = {o1, o2}
    Consumers = {c1, c2}
    NoConsumer = NoConsumer
    MessageIds = {m1}
    Interactive = TRUE
    MaxAttempts = 2
    MaxCommands = 2
    MaxClaims = 2
INVARIANTS
    OwnershipIsSound
    CommandsAreSound
PROPERTIES
    LifecycleStands
    CommandsStand
    NothingIsHeldForEver
CHECK_DEADLOCK FALSE
CONSTRAINT CommandsApart
