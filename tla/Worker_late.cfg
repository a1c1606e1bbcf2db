SPECIFICATION Spec

CONSTANTS
    a = a
    b = b
    c = c
    d = d
    n = n
    pa = pa
    pb = pb
    pe = pe
    pd = pd
    pn = pn
    first = first
    second = second
    c1 = c1
    c2 = c2
    NoFile = NoFile
    NoPayload = NoPayload
    JobIds = {1}
    Objects = {a, b, n}
    Payloads = {first}
    ItemsOf <- LateItems
    Paths = {pa, pb, pn}
    PathOf <- LatePaths
    SizeOf <- SameSize
    TreeOf <- LateTrees
    DirPayloads = {first}
    Late = {n}
    Filtered = {}
    Selected = {pa, pb, pn}
    Mode = "move"
    Verification = "size"
    RetryLimit = 1
    Clients = {c1}
    MaxRequests = 0
    MaxCrashes = 0
    MaxFaults = 0

PROPERTIES
    RemovedOnlyWhenDelivered
