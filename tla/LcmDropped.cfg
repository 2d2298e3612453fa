SPECIFICATION Spec
CONSTANTS
    FreshTail = 1
    MinFanout = 2
    LeafBudget = 4
    Weights = {1}
    SummaryTokens = {1}
    MaxMessages = 8
    MaxCalls = 2
INVARIANT NothingDropped
