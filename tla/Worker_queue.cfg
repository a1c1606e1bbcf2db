SPECIFICATION FairSpec

CONSTANTS
    a = a
    b = b
    c = c
    d = d
    n = n
    pa = pa
    pb = pb
    pe = pe
    pd = pd
    pn = pn
    first = first
    second = second
    c1 = c1
    c2 = c2
    NoFile = NoFile
    NoPayload = NoPayload
    JobIds = {1, 2}
    Objects = {a, b}
    Payloads = {first, second}
    ItemsOf <- SingleItems
    Paths = {pa, pb}
    PathOf <- SinglePaths
    SizeOf <- SameSize
    TreeOf <- SingleTrees
    DirPayloads = {}
    Late = {}
    Filtered = {}
    Selected = {pa, pb}
    Mode = "copy"
    Verification = "size"
    RetryLimit = 1
    Clients = {c1}
    MaxRequests = 1
    MaxCrashes = 0
    MaxFaults = 0

INVARIANTS
    ControlMarksAreCurrent
    ItemsMatchJob

PROPERTIES
    JobsSettle
