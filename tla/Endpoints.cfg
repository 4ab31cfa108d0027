\* One request: every caller against every list of roles, and against every
\* endpoint with and without an AuthenticationMiddleware on its group.
CONSTANTS
    Requests = {r1}
    Callers <- AllCallers
    Routes <- AllRoutes
SPECIFICATION Spec
INVARIANTS
    OnlyHoldersAdmitted DeniedHoldNothing
    EntitledDeletion AnswerTruthful OwnersOnly OwnersRecognised
\* Every request ends.
CHECK_DEADLOCK FALSE
