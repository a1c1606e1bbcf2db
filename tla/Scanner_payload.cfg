SPECIFICATION Spec

CONSTANTS
    a1 = a1
    a2 = a2
    b = b
    c1 = c1
    c2 = c2
    pa = pa
    pb = pb
    pc1 = pc1
    t1 = t1
    NoPayload = NoPayload
    NoTorrent = NoTorrent
    JobIds = {1, 2, 3}
    Objects = {a1, a2, b}
    Paths = {pa, pb, pc1}
    PathOf <- GenerationPaths
    Selected = {pa, pb, pc1}
    Torrents = {t1}
    Under <- PayloadPaths
    Required = FALSE
    IgnoreExisting = TRUE
    MaxFailures = 0

PROPERTIES
    PayloadJobIsWhole
