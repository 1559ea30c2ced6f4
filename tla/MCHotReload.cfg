SPECIFICATION Spec
CONSTANTS
    Configs <- MCConfigs
    Upstreams = {"a", "b"}
    Requests = {r1}
    MaxHups = 2
    MaxEdits = 2
INVARIANTS
    SupervisorCurrent
    OneLiveGeneration
    NoUpstreamMissing
    EffectiveIsServed
CHECK_DEADLOCK FALSE
