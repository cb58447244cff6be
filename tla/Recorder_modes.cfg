SPECIFICATION Spec
CONSTANTS
    Hosts <- MCHosts
    Requests <- MCRequests
INVARIANTS
    TypeOK
    RecordingOrder
    PacedFilesSurvive
PROPERTIES
    RecordKeepsContract
    RecordReturns
CHECK_DEADLOCK FALSE
