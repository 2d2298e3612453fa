SPECIFICATION MCSpec
CONSTANTS
    Calls = {"a"}
    Rules = {"r1", "r2", "r3"}
    MaxIterations = 3
    RepeatLimit = 2
    RepeatStrikeLimit = 2
    PolicyStrikeLimit = 2
    PolicyRoundLimit = 3
    StrikeHalt = 2
    Policies <- MCPolicies
    MaxRetries = 1
    EmptyRetries = 0
    MaxCalls = 2
    MaxTurns = 2
    MaxFaults = 2
    Slots = {c1, c2}
    Jobs = {j1, j2}
    MaxEdits = 1
    MaxAsks = 2
    Nobody = Nobody
INVARIANTS
    AnsweredBeforeCompletion
    DrawsBilled
    FreshDevshell
PROPERTIES
    SeenBeforeHalt
    TurnEnds
    WarmReleases
CHECK_DEADLOCK FALSE
