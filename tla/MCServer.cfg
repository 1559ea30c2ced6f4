SPECIFICATION Spec
CONSTANTS
    NumListeners = 2
    Tls = {2}
    Conns = {c1, c2}
    DRAIN_TIMEOUT = 3
    ADMIN_DRAIN_TIMEOUT = 2
    HANDSHAKE_TIMEOUT = 2
INVARIANTS
    TypeOK
    CutOnlyAfterDrain
    ShutdownBounded
PROPERTY
    Stops
CHECK_DEADLOCK FALSE
