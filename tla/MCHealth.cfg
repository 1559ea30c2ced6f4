SPECIFICATION Spec
CONSTANTS
    managed = TRUE
    Observers = {o1, o2}
    healthy_threshold = 0
    unhealthy_threshold = 3
INVARIANTS
    TypeOK
    StreakDecides
PROPERTIES
    Settles
    Refines
