SPECIFICATION MCSpec
CONSTANTS
    Branches = {b1, b2}
    Works = {w1, w2}
    HumanWorks = {h1}
    MaxRewrites = 2
    MaxFaults = 1
    Slots = {c1, c2}
    Trees = {t1, t2}
    MaxRounds = 2
    MaxDeaths = 2
    Nobody = Nobody
INVARIANTS
    OwnAnswer
    ReviewAccounted
PROPERTIES
    OverwritesSeen
    ReplayIsWhole
    FixupUndone
CHECK_DEADLOCK FALSE
