SPECIFICATION FairSpec
CONSTANTS
    Loops = {"loop"}
    Callers = {}
    Intervals = {2}
    MaxInterval = 2
    CtxKinds = {"request"}
    TaskSeesCtx = TRUE
    MaxRestarts = 0
PROPERTY
    RefreshForever
