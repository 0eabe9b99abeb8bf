SPECIFICATION BoardsSpec
CONSTANTS
    Appenders = {p1, p2}
    Nobody = Nobody
    MaxEntries = 6
    Codes = {1, 2}
    Peers = {a, b}
    NoPeer = NoPeer
    MAX_ASK_DEPTH = 1
    MaxReleases = 1
    Callers = {c1, c2}
    Titles = {t1, t2}
    MaxHandoffs = 2
    Boards = {x, y}
    Subscribers = {s1, s2}
    PageSize = 1
    MaxPosts = 3
    Copies = {1, 2}
    Workers = {w1, w2}
    NoWorker = NoWorker
    MAX_ATTEMPTS = 2
    MaxDestinations = 2
INVARIANTS
    ChainIsSound
    HelpIsSound
    BoardsAreSound
PROPERTIES
    SlowReadersDoNoHarm
    AppendOnly
    AsksReturn
CONSTRAINT Apart
CHECK_DEADLOCK FALSE
