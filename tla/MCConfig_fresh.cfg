SPECIFICATION BootSpec
CONSTANTS
    Handlers = {"h1"}
    Ports = {"p1", "p2"}
    OutDirs = {"o1", "o2"}
    TabloDevices = {"none"}
    Addresses = {"a1", "a2"}
    Hosts = {"a1"}
    Empty = "empty"
    Unset = "unset"
    NoRow = NoRow
    NoFile = NoFile
    DefaultPort = "p1"
    DefaultDevice = "none"
    BaseDir = "o1"
    Overridable = {"Port", "OutDir", "TabloDevice", "IPAddress"}
    Environments <- MCNothing
    EnvFiles <- MCNoFiles
    CommandLines <- MCNothing
    MaxRestarts = 1
PROPERTY
    FreshNeedsNoRestart
