SPECIFICATION Spec
CONSTANTS
    Handles = {h1}
    Agents = {a1}
    Foreign = {a1}
    MaxTasks = 2
    None = None
    LeaseLength = 0
    ClaimLength = 0
    StaleTTL = 0
    ReportedStates = {"blocked", "failed"}
INVARIANTS
    OwnershipIsSound
PROPERTIES
    LifecycleStands
CONSTRAINT SecondTaskAlone
