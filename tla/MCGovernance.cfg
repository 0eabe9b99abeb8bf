SPECIFICATION FairSpec
CONSTANTS
    p1 = p1
    p2 = p2
    h1 = h1
    h2 = h2
    Procs = {p1, p2}
    Gates = {g1}
    Keys = {k1}
    People = {h1, h2}
    Nobody = Nobody
    Lease = 2
    Ttl = 1
    MaxCode = 2
    MaxAttempt = 2
INVARIANTS
    EffectsAreSound
PROPERTIES
    RecordStands
    OrphansAreSettled
CHECK_DEADLOCK FALSE
CONSTRAINTS InTurn GatesAlone
