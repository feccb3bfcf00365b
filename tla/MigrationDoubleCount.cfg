SPECIFICATION Spec
CONSTANTS
    Primary = primary
    orphan = orphan
    Ids = {primary, orphan}
    Slugs = {s1}
    Reqs = {r1}
    None = None
    SlotsPerHour = 2
    SlotsPerDay = 4
    ChunkDays = 1
    Days = 3
    Histories <- PlainHistory
    MaxKills = 0
    MaxFaults = 0
INVARIANTS
    NeverTwice
CHECK_DEADLOCK FALSE
