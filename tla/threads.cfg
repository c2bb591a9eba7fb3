SPECIFICATION FairSpec
CONSTANTS
    MaxAddrs = 2
    MaxTries = 2
    MaxEvents = 1
    MaxDevices = 2
    MaxInterfaces = 1
    Lists <- MCLists
    Values <- MCValues
    Alnum <- MCAlnum
    TooLong <- MCTooLong
    DevicesCnt = 3
    FirstBuf = 1
    MaxWrites = 2
INVARIANTS
    ListIsWhole
    ReadIsOneValue
    StoredIsUnderstood
PROPERTIES
    CloseEnds
    CommandEnds
CHECK_DEADLOCK FALSE
