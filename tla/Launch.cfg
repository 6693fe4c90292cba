SPECIFICATION Spec
CONSTANTS
    MaxNameLength = 3
    Loaders = {"launcher", "n1", "n2"}
    Launcher = "launcher"
    Malformed = Malformed
    Unreadable = Unreadable
    None = None
    Day = 5
    MaxRestarts = 3
    ManifestPath <- MCManifestPath
    EnvPaths <- MCEnvPaths
    Aliases <- MCAliases
    Worlds <- MCWorlds
INVARIANTS
    ImportsResolved
    KahnFindsCycles
    AcceptedProjectsRegister
    SuppliersAgree
    NodesLoadWhatWasChecked
CHECK_DEADLOCK FALSE
