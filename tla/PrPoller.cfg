SPECIFICATION Spec
CONSTANTS
    Prs = {mine, theirs}
    Own = {mine}
    Items = {note}
    MaxClock = 3
    MaxEvents = 2
    MaxFaults = 1
INVARIANTS
    NothingLost
    RecordedMeansReturned
PROPERTIES
    NotAgain
    HeadsReviewed
CHECK_DEADLOCK FALSE
