SPECIFICATION Spec
CONSTANTS
    Events = {e1, e2}
    MaxAttempts = 3
INVARIANTS
    CopiesBounded
PROPERTIES
    KeepsPromise
    RepeatsTransient
\* Every call returns.
CHECK_DEADLOCK FALSE
