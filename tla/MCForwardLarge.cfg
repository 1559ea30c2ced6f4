SPECIFICATION Spec
CONSTANTS
    a = a
    b = b
    r1 = r1
    r2 = r2
    Requests = {r1}
    Targets = {a, b}
    Sched <- Alternating
    HealthyThreshold = 1
    UnhealthyThreshold = 2
    Retries <- TwoTries
    BODY_BUFFER_CAP = 2
    max_body_bytes = 1
    Kinds <- LargeChunked
PROPERTY LargeBodiesAreAttempted
