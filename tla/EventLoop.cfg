SPECIFICATION Spec
CONSTANTS
    Conns = {c1, c2}
    MaxEvents = 2
    OutSize = 1
    MaxRequests = 3
INVARIANTS TypeOK BatchLive
PROPERTIES Served HangupNoticed ShutdownSaves
CHECK_DEADLOCK FALSE
