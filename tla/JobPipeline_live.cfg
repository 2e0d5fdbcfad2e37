CONSTANTS
    w1 = w1
    i1 = i1
    i2 = i2
    NoWorker = NoWorker
    Worker = {w1}
    Item = {i1, i2}
    Running = {w1}
    FlushAt = 2
    BatchLimit = 1
    VerifyLimit = 1
    Ops = {}
    Faults = {"worker", "master", "nats", "panic"}
    MaxFaults = 2
SPECIFICATION FairSpec
PROPERTY CompletesUnlessStranded
