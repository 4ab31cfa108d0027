\* Two participations, two keys, up to two resolutions.
CONSTANTS
    Participations = {"p1", "p2"}
    DtoNames = {"score", "level"}
    Values = {"v1", "v2"}
    Targets <- MCTargets
    MaxResolutions = 2
SPECIFICATION Spec
INVARIANTS TypeOK Merged BearerKept
CHECK_DEADLOCK FALSE
