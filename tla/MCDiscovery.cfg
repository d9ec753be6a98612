SPECIFICATION FairSpec
CONSTANTS
    Malformed = Malformed
    None = None
    Configs <- MCConfigs
    Tuners = {0, 4}
    Requests <- MCRequests
    Searches = {"all", "other"}
    Sockets <- MCSockets
    MaxFailures = 1
INVARIANTS
    TypeOK
    AnswersFaithful
    SilentUntilReady
PROPERTIES
    RequestAnswered
    AnnouncementsConverge
