\* The server process, one part at a time.  It may have nothing more to do.
SPECIFICATION LifeSpec
CONSTANTS
    d1 = d1
    d2 = d2
    d3 = d3
    h1 = h1
    h2 = h2
    Requests = {r1, r2}
    MaxSimReqs = 2
    Commands <- AllCommands
    Failures <- AllFailures
    Shutdown = Shutdown
    Nobody = Nobody
    JReqs = {j1, j2}
    JLogs = {1, 2}
    JKeep = 1
    JTimeouts = 1
    JCycles = 2
    StProcs = {p1, p2}
    StCtls = {k1, k2}
    StCmds = 2
    StEvents = 1
    StNone = StNone
    DkDisks = {d1, d2, d3}
    DkHosts = {h1, h2}
    DkArchiving = {h1}
    DkEvents = 2
    DkNone = DkNone
    NfKinds = {i1, i2}
    NfMessages = 3
    NfMax = 2
    NfEvents = 2
SYMMETRY Symmetry
CHECK_DEADLOCK FALSE
INVARIANTS
    TypeOK
    AnsweredWhenDone
    SemaphoreHeld
    ServingExact
    BusyBacked
    JanitorCareful
    OneServerToldOf
    DiskRowsTrue
    NotifiedOnce
PROPERTIES
    CheckedSet
    NothingTakenBack
