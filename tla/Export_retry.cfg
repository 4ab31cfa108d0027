\* What the documentation of UploadTo says of its return.
CONSTANTS
    Names = {"users", "grades", "../keys"}
    Invalid = {"../keys"}
    MaxCalls = 3
SPECIFICATION ExportSpec

INVARIANT UploadReturns
CHECK_DEADLOCK FALSE
