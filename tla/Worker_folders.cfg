SPECIFICATION Spec

CONSTANTS
    a = a
    b = b
    c = c
    d = d
    n = n
    pa = pa
    pb = pb
    pe = pe
    pd = pd
    pn = pn
    first = first
    second = second
    c1 = c1
    c2 = c2
    NoFile = NoFile
    NoPayload = NoPayload
    JobIds = {1}
    Objects = {a, b, c, d, n}
    Payloads = {first, second}
    ItemsOf <- FolderItems
    Paths = {pa, pb, pe, pd, pn}
    PathOf <- FolderPaths
    SizeOf <- SameSize
    TreeOf <- FolderTrees
    DirPayloads = {first, second}
    Late = {n}
    Filtered = {first}
    Selected = {pa, pb, pe, pd}
    Mode = "move"
    Verification = "size"
    RetryLimit = 1
    Clients = {c1}
    MaxRequests = 1
    MaxCrashes = 1
    MaxFaults = 1

PROPERTIES
    KeepsPromise
