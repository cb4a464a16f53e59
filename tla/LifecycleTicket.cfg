\* A ticket issued twice for one login: a late request_cancel unmarks it.
CONSTANTS
    Coordinators = {c1}
    Epochs = {e1}
    Targets = {t1}
    LoginTimeouts = {3}
    IdleTimeout = 2
    MaxLeases = 1
    MaxEpochs = 1
    MaxRevision = 5
    MaxSequence = 2
    MaxInstance = 2
    MaxClock = 3
    NoLease = NoLease
    NoEpoch = NoEpoch
SPECIFICATION Spec
CHECK_DEADLOCK FALSE
PROPERTIES
    TicketIssuedOnce
