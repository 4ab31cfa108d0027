\* Two connections, signals, failures of every step and slow handlers.
CONSTANTS
    Connections = {c1, c2}
    Audited = {c1}
    Outputs <- AllOutputs
    Methods = {"POST"}
    Statuses = {"2xx"}
    GivenOutcomes = {"none", "success"}
    GivenActors = {FALSE}
    MaxDeliveries = 1
    MaxRecords = 1
SPECIFICATION BootSpec
INVARIANTS
    BootTypeOK ResultTruthful ClosedWhenDrained ResourcesReleased LossBounded
    ErrorsReported CredentialHidden
PROPERTIES Ends ShutdownCompletes
\* The process ends.
CHECK_DEADLOCK FALSE
