SPECIFICATION FairSpec
CONSTANTS
    get = get
    post = post
    Cores = 2
    Configs <- Files
    Unreadable = Unreadable
    Services <- Registrations
CHECK_DEADLOCK FALSE
INVARIANTS TypeOK RoutesBeforeWorkers NoTerminate NoneOutlivesMain ListenersClosed
PROPERTIES ShutdownCompletes
