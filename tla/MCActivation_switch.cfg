SPECIFICATION Spec
CONSTANTS
    Devices = {d1, d2}
    NoDevice = "none"
    Main = "main"
    Loop = "loop"
    Handlers = {h1}
    Secrets = {s1}
    Surroundings <- Few
    Keys = {1, 2}
    Vectors <- SomeVectors
    Plains <- SealedTexts
    Encipher <- ShiftOn
    Decipher <- ShiftBack
    Failed = Failed
CHECK_DEADLOCK FALSE
PROPERTY
    SelectedDeviceServed
