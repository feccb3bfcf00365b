SPECIFICATION Spec
CONSTANTS
    Dashboard = {d}
    Admin = {a}
    MaxHolders = 1
    MaxFrames = 2
    MaxMishaps = 2
    MaxEmits = 1
INVARIANTS
    TypeOK
    NoStraySubscription
    HeldIsAllowed
    NothingMissed
PROPERTIES
    GoesLive
CHECK_DEADLOCK FALSE
