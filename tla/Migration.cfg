SPECIFICATION Spec
CONSTANTS
    Primary = primary
    orphan = orphan
    Ids = {primary, orphan}
    Slugs = {s1}
    Reqs = {r1}
    None = None
    SlotsPerHour = 2
    SlotsPerDay = 4
    ChunkDays = 1
    Days = 3
    Histories <- MCHistories
    MaxKills = 2
    MaxFaults = 1
INVARIANTS
    TypeOK
    ReplayedOnce
    LiftedIsComplete
    HistoryKept
PROPERTIES
    GetsThere
CHECK_DEADLOCK FALSE
