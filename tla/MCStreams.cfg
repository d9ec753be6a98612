SPECIFICATION FairSpec
CONSTANTS
    Clients = {c1, c2}
    Channels = {"ch1"}
    NoChannel = "nochan"
    InitialTuners = 1
    ReportedTuners = {0, 4}
INVARIANTS
    TypeOK
    TokensMatchHolders
    StreamsCounted
    OtaWithinCap
PROPERTIES
    PoolImplemented
    EndedStreamFreesTuner
