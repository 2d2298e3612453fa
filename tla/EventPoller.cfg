SPECIFICATION Spec
CONSTANTS
    Tickets = {k1}
    Comments = {1, 2}
    PostRetries = 1
    MaxClock = 3
    MaxEvents = 1
    MaxFaults = 1
INVARIANTS NothingLost
PROPERTIES NotAgain AnnouncedEventually
CHECK_DEADLOCK FALSE
