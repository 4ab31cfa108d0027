\* What the documentation says of one participation.
CONSTANTS
    Participations = {"p1", "p2"}
    DtoNames = {"score", "level"}
    Values = {"v1", "v2"}
    Targets <- MCTargets
    MaxResolutions = 1
SPECIFICATION Spec
INVARIANT OneResolved
CHECK_DEADLOCK FALSE
