\* The life of the process: every kind of configuration; a request that streams,
\* the health check, and two lifespans.
SPECIFICATION ServiceFairSpec
CONSTANTS
    Env = {"K"}
    NaN = nan
    One = 2
    Job = {j1}
    Task = task
    Key = {k1, k2}
    Configs <- FileConfigs
    Bodies <- StreamBodies
    MaxStarts = 2
INVARIANTS
    ServiceTypeOK
    RelayFaithful
    LinesPrompt
    ModelHidden
    CallsOnOpenClients
    ClientsAccounted
    QuietWhenStopped
    TaskFollowsLifespan
PROPERTIES
    LoadedIsSound
    ShutdownAdvances
    KeepsClients
    ShutdownEnds
\* The process may end.
CHECK_DEADLOCK FALSE
