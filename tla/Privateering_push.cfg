SPECIFICATION FairSpec

CONSTANTS
    base = base
    ingest = ingest
    t1 = t1
    c1 = c1
    c2 = c2
    None = None
    Keep = Keep
    Ticker = Ticker
    Raw = {ingest, None}
    Normalize <- BaseOf
    Tokens = {t1}
    TokenFor <- OneNexus
    Intervals = {0, 1}
    DefaultInterval = 2
    Clients = {c1, c2}
    MaxVersion = 1
    MaxRequests = 2
    MaxFaults = 1

INVARIANTS
    TypeOK

PROPERTIES
    DisabledIsSilent
    TickerKeepsInterval
    NexusCatchesUp
