SPECIFICATION Spec
CONSTANTS
    w1 = w1
    w2 = w2
    k1 = k1
    k2 = k2
    Workers = {w1, w2}
    Keys = {k1, k2}
    Limits <- Rates
    Unit = 2
    SWEEP_THRESHOLD = 1
    MaxClock = 2
INVARIANTS
    TypeOK
    AdmittedWithinSkew
    InvisibleUnlessAhead
SYMMETRY Alike
