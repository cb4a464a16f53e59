CONSTANTS
    EscapedTo = {"stdout"}
    StdoutWrites = 2
    StderrWrites = 0
    MaxStdout = 1
    MaxStderr = 1
    Depth = 1
    Watched = FALSE
    WithStdin = FALSE
    WaitsFail = FALSE
SPECIFICATION Spec
CHECK_DEADLOCK FALSE
PROPERTY
    DeadlineBounds
