\* One request of every caller on every wiring, two administrative changes.
CONSTANTS
    Requests = {r1}
    Callers <- ScopeCallers
    Routes <- ScopeRoutes
    Logins = {"ab"}
    Teams = {"team1", "team2"}
    Participants = {p1}
    MaxChanges = 2
SPECIFICATION Spec
INVARIANTS ReadsScoped LegitimateNotDenied
PROPERTY ConfinedWrite
CHECK_DEADLOCK FALSE
