SPECIFICATION Spec
CONSTANTS
    Locs = {l1, l2}
    Usb3Locs = {l2}
    Persistent = {l2}
    Usb2Ports = 1
    DevicesCnt = 2
    ReqLimit = 1
    MaxAttempts = 0
    MaxDevs = 2
    MaxReqs = 1
    MaxIoctls = 1
INVARIANTS
    PortsAgree
    DeletedDevicesAreUnused
CHECK_DEADLOCK FALSE
