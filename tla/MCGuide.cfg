SPECIFICATION FairSpec
CONSTANTS
    Account <- MCAccount
    Ott <- MCOtt
    Dirs = {"d1", "d2"}
    Loop = "loop"
    Admins = {"admin"}
    LineupLoop = "lineup"
    Liners = {"lineup", "request"}
    MaxEdition = 2
    Setups <- MCSetups
    Absent = Absent
    Torn = Torn
    NoAirings = NoAirings
INVARIANT
    TypeOK
PROPERTIES
    RefreshExact
    SettledStays
    GuideConverges
\* loops whose context has ended may have stopped for good
CHECK_DEADLOCK FALSE
