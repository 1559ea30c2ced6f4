SPECIFICATION Spec
CONSTANTS
    Configs <- MCConfigs
    Upstreams = {"a", "b"}
    Requests = {r1}
    MaxHups = 1
    MaxEdits = 1
INVARIANT
    ListenersHaveTls
CHECK_DEADLOCK FALSE
