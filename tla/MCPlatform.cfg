SPECIFICATION PlatformSpec
CONSTANTS
    old = old
    new = new
    Runners = {r1, r2}
    Builds = {old, new}
    Newest = new
    Ids = {1, 2, 3}
    Ships <- Corpus
    Implements <- Implemented
    Covered = {2}
    MaxSetbacks = 1
    Starts = {1, 2, 3}
    LISTENER_FAILURE_LIMIT = 2
    MaxFaults = 2
    Pids = {1, 2}
    Supervisors = {1, 2}
    Keys = {k1}
    Processes = {p1, p2}
    MaxWrites = 3
INVARIANTS
    LedgerIsTrue
    HostIsHonest
PROPERTIES
    HostRecordsStand
    Supervised
CONSTRAINT OneBuild
CHECK_DEADLOCK FALSE
