\* A directory made again under the inode number of the one it replaces.
CONSTANTS
    c1 = c1
    c2 = c2
    t1 = t1
    t2 = t2
    d1 = d1
    Callers <- TwoCallers
    Targets <- TwoTargets
    Contracts = {k1}
    Epochs = {e1}
    Policies = {p1}
    Directories <- OneDirectory
    DirectoryOf <- SharedDirectory
    Inodes = {i1, i2}
    Ttls = {1}
    MaxEntries = 1
    MaxGeneration = 2
    MaxReplacements = 1
    MaxClock = 0
    NoEntry = NoEntry
    NoCall = NoCall
SPECIFICATION Spec
PROPERTIES
    RevalidationRejectsReplacement
