SPECIFICATION FairSpec
CONSTANTS
    Locs = {l1}
    Usb3Locs = {}
    Persistent = {}
    Usb2Ports = 1
    DevicesCnt = 1
    ReqLimit = 2
    MaxAttempts = 2
    MaxDevs = 1
    MaxReqs = 2
    MaxIoctls = 1
PROPERTIES
    StoppedStaysStopped
    RemovalDrains
    QueueMoves
CHECK_DEADLOCK FALSE
