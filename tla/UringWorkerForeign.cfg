SPECIFICATION Spec
CONSTANTS
    s1 = s1
    s2 = s2
    f1 = f1
    f2 = f2
    Sessions = {s1, s2}
    Fds = {f1}
    NoFd = NoFd
    NoSession = NoSession
    Unclaimed = Unclaimed
    SqSize = 4
    CqSize = 3
    MaxUnits = 1
    MaxSends = 2
    PromptKernel = TRUE
CHECK_DEADLOCK FALSE
INVARIANT NoForeignIo
