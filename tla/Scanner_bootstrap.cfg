SPECIFICATION Spec

CONSTANTS
    a1 = a1
    a2 = a2
    b = b
    c1 = c1
    c2 = c2
    pa = pa
    pb = pb
    pc1 = pc1
    t1 = t1
    NoPayload = NoPayload
    NoTorrent = NoTorrent
    JobIds = {1, 2, 3}
    Objects = {c1}
    Paths = {pc1}
    PathOf <- GenerationPaths
    Selected = {pc1}
    Torrents = {}
    Under <- PayloadPaths
    Required = FALSE
    IgnoreExisting = TRUE
    MaxFailures = 1

INVARIANTS
    OnlyWhatAppears
