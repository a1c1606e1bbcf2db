SPECIFICATION Spec

CONSTANTS
    f = f
    u = u
    nas = nas
    p1 = p1
    p2 = p2
    c1 = c1
    c2 = c2
    NoFile = NoFile
    HalfLine = HalfLine
    Blank = Blank
    NoTorrent = NoTorrent
    NoRule = NoRule
    NoPolicy = NoPolicy
    NoRemote = NoRemote
    Remotes = {nas}
    Ids = {f, u}
    FileRule <- FromFile
    Counts = {0, 1}
    Waits = {0}
    Secrets = {p1, p2}
    Typed <- Sent
    Omitted = Omitted
    Negative = Negative
    DefaultCount = 0
    DefaultWait = 0
    Clients = {c1, c2}
    MaxRequests = 3
    MaxFaults = 1
    MaxStops = 1

CHECK_DEADLOCK FALSE

SYMMETRY Handlers

INVARIANTS
    TypeOK
    RunsOnWholeConfig
    MemoryIsStored

PROPERTIES
    OwnedConfigStays
    PasswordsAreKept
    UnconfirmedDeletesAreSafe
