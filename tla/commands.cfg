SPECIFICATION CommandsSpec
CONSTANTS
    NewNodes = {n1, n2}
    OtherNodes <- MCOtherNodes
    HwId = "hwid"
    IdsFiles <- MCIdsFiles
    Numbers = {0, 1, 2}
    Procs = {p1, p2}
    Locations = {l1, l2, l3}
    l1 = l1
    l2 = l2
    Stashed <- MCStashed
    TooLongs = {l3}
    PortCount = 2
    FirstCount = 1
    NoLocation = none
    NoNode = nonode
    MaxCommands = 3
SYMMETRY MCSymmetry
INVARIANTS
    SteadyIsListed
    RemoveIsExact
    NamesAreDeclared
CHECK_DEADLOCK FALSE
