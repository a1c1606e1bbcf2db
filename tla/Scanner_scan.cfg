SPECIFICATION FairSpec

CONSTANTS
    a1 = a1
    a2 = a2
    b = b
    c1 = c1
    c2 = c2
    pa = pa
    pb = pb
    pc1 = pc1
    t1 = t1
    NoPayload = NoPayload
    NoTorrent = NoTorrent
    JobIds = {1, 2, 3, 4}
    Objects = {a1, a2}
    Paths = {pa}
    PathOf <- GenerationPaths
    Selected = {pa}
    Torrents = {t1}
    Under <- PayloadPaths
    Required = FALSE
    IgnoreExisting = TRUE
    MaxFailures = 2

INVARIANTS
    TypeOK
    OneDiscoveredGeneration
    ExistingIsIgnored

PROPERTIES
    ReadinessIsRTorrents
    SupersededIsNotQueued
    StableFilesAreQueued
    CompletedPayloadsAreTaken
