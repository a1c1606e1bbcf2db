SPECIFICATION FairSpec

CONSTANTS
    old = old
    new = new
    r1 = r1
    p = p
    x = x
    NoFile = NoFile
    NoRule = NoRule
    NoGen = NoGen
    Rules = {r1}
    Gens = {old, new}
    RuleOf <- GenRules
    PathOf <- GenPaths
    Foreign = {x}
    SizeOf <- SameSizes
    Paths = {p}
    MaxFaults = 1

INVARIANTS
    TypeOK
    RequestsWait

PROPERTIES
    AgedFilesLeave
    CleanupIsJustified
