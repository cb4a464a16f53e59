\* Three runs against limits that any two of them can fill.
CONSTANTS
    Runs = {r1, r2, r3}
    Outputs = {1, 2}
    Memories = {0, 1}
    Artifacts = {1, 2}
    MaxActive = 2
    MaxOutput = 3
    MaxResult = 4
    MaxMemory = 1
SPECIFICATION Spec
SYMMETRY Interchangeable
INVARIANTS
    CountersMatchHoldings
PROPERTY
    ImplementsBudget
