SPECIFICATION FairSpec
CONSTANTS
    Loops = {"loop1", "loop2"}
    Callers = {"call"}
    Intervals = {0, 1}
    MaxInterval = 1
    CtxKinds = {"root", "request"}
    TaskSeesCtx = TRUE
    MaxRestarts = 1
INVARIANT
    TypeOK
PROPERTIES
    RefreshSpaced
    RootLoopRefreshes
