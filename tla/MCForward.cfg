SPECIFICATION Spec
CONSTANTS
    a = a
    b = b
    r1 = r1
    r2 = r2
    Requests = {r1, r2}
    Targets = {a, b}
    Sched <- Alternating
    HealthyThreshold = 1
    UnhealthyThreshold = 1
    Retries <- ThreeTries
    BODY_BUFFER_CAP = 2
    max_body_bytes = 1
    Kinds <- AllKinds
INVARIANT TypeOK
INVARIANT RetriesAreLicensed
INVARIANT AnswerIsLastOutcome
INVARIANT RetryMovesOn
INVARIANT CountersAddUp
INVARIANT OversizeNotDelivered
PROPERTY ClientErrorsBlameNobody
SYMMETRY Alike
