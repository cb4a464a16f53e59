\* Leases, revisions and recovery with two coordinator objects over one epoch.
CONSTANTS
    Coordinators = {c1, c2}
    Epochs = {e1}
    Targets = {t1}
    LoginTimeouts = {3}
    IdleTimeout = 2
    MaxLeases = 1
    MaxEpochs = 1
    MaxRevision = 4
    MaxSequence = 3
    MaxInstance = 3
    MaxClock = 3
    NoLease = NoLease
    NoEpoch = NoEpoch
SPECIFICATION Spec
CHECK_DEADLOCK FALSE
INVARIANTS
    OneLoginPerTarget
    NoSuccessAfterAbort
PROPERTIES
    RevisionNamesState
    TicketFreesItsLogin
    ImplementsExclusiveLogin
