\* What the documentation of AuthenticationMiddleware says of invalid tokens.
CONSTANTS
    Requests = {r1}
    Callers <- AllCallers
    Routes <- AllRoutes
SPECIFICATION Spec
INVARIANT InvalidCredentialsGet401
CHECK_DEADLOCK FALSE
