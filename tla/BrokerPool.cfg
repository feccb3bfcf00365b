SPECIFICATION Spec
CONSTANTS
    Holders = {tier, export}
    Params = {p1, p2}
    Tier = tier
    Exports = {export}
    Entries = {e1, e2}
    Clients = {1, 2, 3, 4, 5}
    MaxEdits = 2
    None = None
INVARIANTS
    DialledAsSaved
    SubscriptionsTravel
    NeverStranded
PROPERTIES
    DialsOnlyWhatIsHeld
    ComesUp
CHECK_DEADLOCK FALSE
