SPECIFICATION Spec
CONSTANTS
    Devices = {d1, d2}
    Endpoints = {e1, e2}
    None = None
    FirstDevice = d1
    FirstEndpoint = e1
    Boot = boot
    Writers = {boot, w1}
    MaxWrites = 1
    MaxTaken = 3
    MaxFaults = 2
INVARIANTS
    TypeOK
    ReadingsKept
    SourceFollows
PROPERTIES
    KeyedAsRead
    RegisteredAgain
CHECK_DEADLOCK FALSE
