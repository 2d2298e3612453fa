SPECIFICATION MCSpec
CONSTANTS
    Calls = {"a"}
    Rules = {}
    MaxIterations = 3
    RepeatLimit = 2
    RepeatStrikeLimit = 2
    PolicyStrikeLimit = 2
    PolicyRoundLimit = 3
    StrikeHalt = 2
    Policies <- MCPolicies
    MaxRetries = 0
    EmptyRetries = 0
    MaxCalls = 1
    MaxTurns = 2
    MaxFaults = 0
    Slots = {c1}
    Jobs = {j1}
    MaxEdits = 0
    MaxAsks = 0
    Nobody = Nobody
INVARIANTS
    EveryCallAnswered
CHECK_DEADLOCK FALSE
