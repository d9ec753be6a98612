SPECIFICATION Spec
CONSTANTS
    Devices = {d1, d2}
    NoDevice = "none"
    Main = "main"
    Loop = "loop"
    Handlers = {h1}
    Secrets = {s1, s2}
    Surroundings <- Each
    Keys = {1, 2}
    Vectors <- SomeVectors
    Plains <- SealedTexts
    Encipher <- ShiftOn
    Decipher <- ShiftBack
    Failed = Failed
CHECK_DEADLOCK FALSE
SYMMETRY Symmetry
INVARIANTS
    TypeOK
    ReadyMeansServable
    ReadySurvivesRestart
    CredsSaved
    WarmStart
PROPERTIES
    SelectActivates
    SelectedDeviceSaved
