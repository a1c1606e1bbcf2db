SPECIFICATION FairSpec

CONSTANTS
    a = a
    b = b
    c = c
    d = d
    n = n
    pa = pa
    pb = pb
    pe = pe
    pd = pd
    pn = pn
    first = first
    second = second
    c1 = c1
    c2 = c2
    NoFile = NoFile
    NoPayload = NoPayload
    JobIds = {1}
    Objects = {a}
    Payloads = {first}
    ItemsOf <- OneItem
    Paths = {pa}
    PathOf <- OnePath
    SizeOf <- SameSize
    TreeOf <- OneTree
    DirPayloads = {}
    Late = {}
    Filtered = {}
    Selected = {pa}
    Mode = "copy"
    Verification = "size"
    RetryLimit = 1
    Clients = {c1, c2}
    MaxRequests = 3
    MaxCrashes = 1
    MaxFaults = 1

INVARIANTS
    TypeOK
    ControlMarksAreCurrent
    RetryScheduled
    AttemptsBounded
    ItemsMatchJob
    CopyingIsWorked

PROPERTIES
    EndedJobsStay
    AcceptedCancelEnds
