SPECIFICATION Spec
CONSTANTS
    Files = {f1, f2}
    Posters = {p1, p2}
    MaxEvents = 2
    MaxPosts = 3
    MaxReads = 1
SYMMETRY EventSymmetry
INVARIANTS
    ParkedReadMeansNoEvents
    EventsInOrder
    SubscribersHearEvents
CHECK_DEADLOCK FALSE
