SPECIFICATION Spec

CONSTANTS
    old = old
    new = new
    r1 = r1
    p = p
    x = x
    NoFile = NoFile
    NoRule = NoRule
    NoGen = NoGen
    Rules = {r1}
    Gens = {old, new}
    RuleOf <- GenRules
    PathOf <- GenPaths
    Foreign = {x}
    SizeOf <- GrownSizes
    Paths = {p}
    MaxFaults = 0

PROPERTIES
    RemovedSizeIsRecorded
