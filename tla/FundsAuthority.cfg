CONSTANTS
    p1 = p1
    p2 = p2
    Processes <- MCProcesses
    MaxEpochs = 2
    MaxTransports = 1
    MaxCrashes = 1
    MaxFaults = 2
SYMMETRY Symmetry
SPECIFICATION Spec
INVARIANTS OneHolder LeaseNotInherited HoldKept
PROPERTIES HolderNotMisled TransportAuthorised
CHECK_DEADLOCK FALSE
