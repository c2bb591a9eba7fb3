SPECIFICATION ClientsSpec
CONSTANTS
    Devices <- MCDevices
    Configurations <- MCConfigurations
    RawPolicies <- MCRawPolicies
    Inputs <- MCInputs
    device_type_categories <- MCCategories
    Classes <- MCClasses
    Capacity = 3
    FirstCount = 1
    MaxSets = 2
    NoPolicy = NoPolicy
    NoDevice = NoDevice
INVARIANTS
    EverythingWasJudged
    PresentedIsAllowed
    FailClosed
    MarkedIsRefused
PROPERTIES
    DialogNeverWidens
CHECK_DEADLOCK FALSE
