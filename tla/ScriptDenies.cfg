SPECIFICATION Spec
CONSTANTS
    Clients = {c1, c2}
    Capacity = 2
    MaxCrashes = 1
    None = None
    Configs <- MCConfigs
INVARIANT ScriptDenies
CHECK_DEADLOCK FALSE
