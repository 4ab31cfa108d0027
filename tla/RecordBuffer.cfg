\* What the documentation of Record says of a buffered event.
SPECIFICATION Spec
CONSTANTS
    MaxRecords = 4
    MaxJobRecords = 1
INVARIANT
    RecordedIsFlushed
CHECK_DEADLOCK FALSE
