SPECIFICATION Spec
CONSTANTS
    Streams <- Pairs
    MaxBody = 1
    ReadRoom = 9
    WriteRoom = 3
    SendRoom = 1
CHECK_DEADLOCK FALSE
INVARIANT OnlyWholeRequests
