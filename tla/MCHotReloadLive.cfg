SPECIFICATION Spec
CONSTANTS
    Configs <- LiveConfigs
    Upstreams = {"a"}
    Requests = {}
    MaxHups = 2
    MaxEdits = 1
PROPERTIES
    HupIsServed
    ChecksFollowReload
    StoppedLoopsExit
CHECK_DEADLOCK FALSE
