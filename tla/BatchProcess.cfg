CONSTANTS
    EscapedTo = {"stdout"}
    StdoutWrites = 2
    StderrWrites = 0
    MaxStdout = 1
    MaxStderr = 1
    Depth = 1
    Watched = TRUE
    WithStdin = TRUE
    WaitsFail = TRUE
SPECIFICATION Spec
CHECK_DEADLOCK FALSE
INVARIANTS
    NothingSurvives
    ExitCarriesAllOutput
    ExitIsAuthoritative
PROPERTY
    CallReturns
