SPECIFICATION FairSpec
CONSTANTS
    Capacity = 2
    Threshold = 2
    MaxWorkers = 3
    SaveFreq = 1
    OnlineSteps = 2
    Kinds = {"step", "done", "nan"}
    UseThreads = {TRUE, FALSE}
    MaxSteps = 3
    MaxTraining = 1
    MaxFaults = 1
INVARIANTS
    SamplesSound
    LearnerSafe
PROPERTIES
    WeightsForward
    EpisodesArrive
    
CHECK_DEADLOCK FALSE
