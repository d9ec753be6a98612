SPECIFICATION Spec
CONSTANTS
    Clients = {c1, c2, c3}
    Channels = {"ch1"}
    NoChannel = "nochan"
    InitialTuners = 2
    ReportedTuners = {4}
SYMMETRY ClientSymmetry
PROPERTY
    RefusedOnlyWhenTunersBusy
