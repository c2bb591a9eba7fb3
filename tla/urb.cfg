SPECIFICATION FairSpec
CONSTANTS
    Requests = {r1, r2}
    FirstRequest = r1
    Endpoints = {ep0}
    Ep0 = ep0
    MaxUrbs = 2
    NoRequest = none
CONSTRAINT FirstHandle
INVARIANTS
    FrameworkContract
    AnsweredIsNotUnlinked
    CleanupAssertions
PROPERTIES
    CancelledUrbCompletes
    DetachCompletesUrbs
CHECK_DEADLOCK FALSE
