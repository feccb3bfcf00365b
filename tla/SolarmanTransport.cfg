SPECIFICATION Spec
CONSTANTS
    Poll = poll
    Setting = setting
    MaxPorts = 2
    MaxOps = 3
    SeqMod = 3
    MaxCloses = 1
INVARIANTS
    AnsweredByOwnReply
    OpenIsClient
    SplitAfterTwoRefusals
PROPERTIES
    NothingOvertaken
    EveryOpEnds
CHECK_DEADLOCK FALSE
