SPECIFICATION MCSpec
CONSTANTS
    FreshTail = 1
    MinFanout = 2
    LeafBudget = 2
    Weights = {1}
    SummaryTokens = {1}
    MaxMessages = 5
    MaxCalls = 2
    Sessions = {general, other}
    General = general
    Payloads = {p}
    Paths = {a, b}
    ListCap = 1
    Depths = {1, 2}
    Caps = {4, 20}
    Nothing = Nothing
    MaxStored = 4
    MaxBreaks = 1
INVARIANTS
    InOrder
    SourcesNeverRepeat
    AnsweredOnce
    ReferencesKept
    WritesVisible
    ExpandTells
PROPERTIES
    ProtectedKept
    PromiseKept
    CompactionEnds
