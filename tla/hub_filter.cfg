SPECIFICATION Spec
CONSTANTS
    Pdos = {1, 2}
    Dev = 1
    Settings <- MCSettings
    Handles = {11, 12}
    MaxSelects = 2
    MaxQueued = 2
    MaxFaults = 1
INVARIANTS
    OneFilterPerDevice
    ServerFollows
    RightEndpointCleared
