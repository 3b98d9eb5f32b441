SPECIFICATION FairSpec
CONSTANTS
    MaxFailures = 0
    MaxConnects = 2
    MaxFrames = 4
INVARIANTS
    PublishedSound
    ReturnedFresh
PROPERTIES
    NeverBack
    DisconnectEnds
CHECK_DEADLOCK FALSE
