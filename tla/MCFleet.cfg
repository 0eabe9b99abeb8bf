SPECIFICATION FleetSpec
CONSTANTS
    Orgs = {a1, a2}
    Tools = {b1, b2}
    Tokens = {1, 2}
    Writers = {c1, c2}
    None = None
    MaxBeats = 2
    Daemons = {a1, a2}
    Dispatchers = {e1}
    Sessions = {b1, b2}
    NoOne = NoOne
    Handlers = {c1, c2}
    MaxTries = 3
INVARIANTS
    MachinesAreSound
    QueueIsSound
    DeliveriesAreSound
PROPERTIES
    LateWritesDoNoHarm
SYMMETRY FleetSymmetry
CONSTRAINT Apart
CHECK_DEADLOCK FALSE
