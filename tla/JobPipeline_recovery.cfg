CONSTANTS
    w1 = w1
    w2 = w2
    i1 = i1
    NoWorker = NoWorker
    Worker = {w1, w2}
    Item = {i1}
    Running = {w1, w2}
    FlushAt = 2
    BatchLimit = 1
    VerifyLimit = 1
    Ops = {}
    Faults = {"worker"}
    MaxFaults = 1
SPECIFICATION FairSpec
PROPERTY CrashRecovered
