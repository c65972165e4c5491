CONSTANTS
    None = None
    MaxStdout = 2
    MaxStderr = 1
    PipeSize = 2
    MaxWritten = 2
SPECIFICATION LateTimeout
INVARIANTS
    GroupDoesNotOutlive
CHECK_DEADLOCK FALSE
