\* Concurrent requests and their jobs contend for one slot.
SPECIFICATION Spec
CONSTANTS
    Requests = {r1, r2}
    Methods = {"POST"}
    Statuses = {"2xx"}
    GivenOutcomes = {"none", "success"}
    GivenActors = {FALSE}
    MaxDeliveries = 1
    MaxRecords = 2
SYMMETRY RequestSymmetry
INVARIANTS
    TypeOK
    SlotAccounting
PROPERTIES
    HandedOverOnce
    DroppedOnlyUnderLoad
\* A finite set of requests ends; a real service keeps receiving them.
CHECK_DEADLOCK FALSE
