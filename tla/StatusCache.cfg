\* Probes, lookups and invalidations of two threads.
CONSTANTS
    c1 = c1
    c2 = c2
    t1 = t1
    t2 = t2
    d1 = d1
    Callers <- TwoCallers
    Targets <- TwoTargets
    Contracts = {k1}
    Epochs = {e1, e2}
    Policies = {p1, p2}
    Directories <- OneDirectory
    DirectoryOf <- SharedDirectory
    Inodes = {i1, i2}
    Ttls = {1}
    MaxEntries = 1
    MaxGeneration = 3
    MaxReplacements = 1
    MaxClock = 1
    NoEntry = NoEntry
    NoCall = NoCall
SPECIFICATION Spec
SYMMETRY Interchangeable
INVARIANTS
    EntriesMatchAuthority
PROPERTIES
    NoResurrection
