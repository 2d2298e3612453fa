\* Four rosters; every log may grow at every moment.
SPECIFICATION Spec
CONSTANTS
    Rosters <- MCRosters
    NSessions = 2
    Day = 3
    MaxSleep = 2
    MinDelta = 2
    SectionItems = 2
    Threshold = 4
    SliceTokens = 2
    MessageTokens = 2
    TriggerSlots = 1
    MaxClock = 4
    MaxGrowth = 3
    MaxAsked = 1
    MaxFaults = 2
INVARIANTS NothingSkipped HandledOnce NotStarved
PROPERTIES OverdueFiresOnce
CHECK_DEADLOCK FALSE
