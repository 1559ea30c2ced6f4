SPECIFICATION Spec
CONSTANTS
    U32 = 12
    MaxTargets = 3
    MaxWeight = 6
    LowerCase <- Lower
    Addresses = {"0.0.0.0:8080"}
    Levels = {"trace", "debug", "info", "warn", "error", "off"}
    MIN_HEADER_BYTES = 4
    MillisPerSecond = 1000
    NotUnicode = NotUnicode
    Text <- MCText
    Environments <- MCEnvironments
    Requests <- MCRequests
    AdminRequests <- MCAdminRequests
INVARIANTS
    Proportional
    EveryTargetScheduled
    Interleaved
    MostSpecific
    StripKeepsRest
    ClientIsOrigin
    EncodedAsLabelled
    ValidatedIsSafe
    NoFallThrough
    TokenInForceGuards
CHECK_DEADLOCK FALSE
