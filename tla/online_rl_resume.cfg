SPECIFICATION Spec
CONSTANTS
    Capacity = 2
    Threshold = 2
    MaxWorkers = 3
    SaveFreq = 1
    OnlineSteps = 2
    Kinds = {"done"}
    UseThreads = {TRUE}
    MaxSteps = 2
    MaxTraining = 1
    MaxFaults = 1
INVARIANT PolicyResumed
CHECK_DEADLOCK FALSE
