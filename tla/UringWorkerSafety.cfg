SPECIFICATION Spec
CONSTANTS
    s1 = s1
    s2 = s2
    f1 = f1
    f2 = f2
    Sessions = {s1, s2}
    Fds = {f1}
    NoFd = NoFd
    NoSession = NoSession
    Unclaimed = Unclaimed
    SqSize = 2
    CqSize = 1
    MaxUnits = 1
    MaxSends = 2
    PromptKernel = FALSE
SYMMETRY Symmetry
CHECK_DEADLOCK FALSE
INVARIANTS TypeOK RecvPinned FlagsBacked NoLimbo FdOwnership ListenerArmed
PROPERTIES SlotsKept
