SPECIFICATION FairSpec

CONSTANTS
    a1 = a1
    a2 = a2
    pa = pa
    NoPayload = NoPayload
    NoTorrent = NoTorrent
    NoFile = NoFile
    JobIds = {1, 2}
    Objects = {a1, a2}
    Paths = {pa}
    PathOf <- OnePath
    Selected = {pa}
    SizeOf <- Growing
    RetryLimit = 1
    MaxFailures = 1
    MaxCrashes = 1
    MaxFaults = 0

INVARIANTS
    OneGenerationWaits

PROPERTIES
    DoneIsDelivered
    NewestArrives
