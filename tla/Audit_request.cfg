\* One request with every choice open; a second event may find the slot taken.
SPECIFICATION Spec
CONSTANTS
    Requests = {r1}
    Methods = {"POST", "GET"}
    Statuses = {"2xx", "401", "403", "other"}
    GivenOutcomes = {"none", "success"}
    GivenActors = {TRUE, FALSE}
    MaxDeliveries = 1
    MaxRecords = 3
INVARIANTS
    NoDuplicateEntry
    AuditedOrLogged
    NoRecordLost
    TruthfulOutcome
    FlushedInOrder
PROPERTY
    EventsSettle
\* A finite set of requests ends; a real service keeps receiving them.
CHECK_DEADLOCK FALSE
