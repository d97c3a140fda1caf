SPECIFICATION Spec
CONSTANTS
    w1 = w1
    w2 = w2
    s1 = s1
    s2 = s2
    s3 = s3
    f1 = f1
    f2 = f2
    f3 = f3
    Workers = {w1, w2}
    Sessions = {s1, s2, s3}
    Home <- HomeOfTwo
    Fds = {f1, f2}
    NoFd = NoFd
    NoSession = NoSession
    WheelSlots = 1
    MaxLag = 1
SYMMETRY Symmetry
INVARIANTS TypeOK FdOwnership DispatchSafe ClosedOnWheel NoStranded
PROPERTIES SlotsKept
