SPECIFICATION BootSpec
CONSTANTS
    Handlers = {"h1"}
    Ports = {"p1", "p2"}
    OutDirs = {"o1", "o2"}
    TabloDevices = {"none", "t1"}
    Addresses = {"a1", "a2"}
    Hosts = {"a1", "a2"}
    Empty = "empty"
    Unset = "unset"
    NoRow = NoRow
    NoFile = NoFile
    DefaultPort = "p1"
    DefaultDevice = "none"
    BaseDir = "o1"
    Overridable = {"Port", "OutDir", "TabloDevice", "IPAddress"}
    Environments <- MCEnvironments
    EnvFiles <- MCEnvFiles
    CommandLines <- MCCommandLines
    MaxRestarts = 1
INVARIANTS
    TypeOK
    ConfigsAgree
    SettingsKept
    StaleFieldsFlagged
    UrlServed
PROPERTIES
    SettingsPrecedence
    StoreImplemented
