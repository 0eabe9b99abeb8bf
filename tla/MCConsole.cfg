SPECIFICATION ConsoleSpec
CONSTANTS
    Topics = {ta, tb}
    Retention = 2
    ReplayLimit = 2
    MaxEvents = 4
    MaxMoves = 3
    Daemons = {d1}
    Dispatchers = {e1}
    Sessions = {s1, s2}
    NoOne = NoOne
INVARIANTS
    CursorIsSafe
PROPERTIES
    EventuallyApplied
    SessionsSettle
CHECK_DEADLOCK FALSE
CONSTRAINT ConsoleApart
