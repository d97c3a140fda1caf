SPECIFICATION FairSpec
CONSTANTS
    Scripts <- Talks
    Routes <- Talkers
    Builds = {"epoll", "uring"}
    MaxControl = 1
    MaxBody = 2
    ReadRoom = 4
    WriteRoom = 5
CHECK_DEADLOCK FALSE
INVARIANTS TypeOK FramesInOrder NothingLeft FullOfOneFrame RepliesIntact
PROPERTIES SilentOnceOver EachFrameHandled
