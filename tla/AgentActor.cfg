SPECIFICATION MCSpec
CONSTANTS
    Events = {"g1", "g2", "project"}
    Envelope <- MCEnvelope
    Channels = {"github", "telegram"}
    Attended = {"telegram"}
    Tasks = {"pr", "chat"}
    Names = {"o/r", "o--r", "general"}
    Sessions = {"o--r", "general"}
    Sanitize <- MCSanitize
    General = "general"
    NoHint = "none"
    None = "nothing"
    Engine = "lcm"
    RetryTier = TRUE
    MaxFaults = 1
    MaxStops = 1
    Clients = {a, b}
    Telegram = Telegram
    Nobody = Nobody
    SendRetries = 1
    MaxLines = 1
    MaxUpdates = 2
    MaxKills = 1
INVARIANTS
    RoutedHome
    SelectionKept
    RetryIsEarned
    Accompanied
PROPERTIES
    DeliveryKept
    EveryAnswered
    DrainEnds
    Answered
CHECK_DEADLOCK FALSE
