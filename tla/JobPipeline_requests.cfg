CONSTANTS
    w1 = w1
    i1 = i1
    NoWorker = NoWorker
    Worker = {w1}
    Item = {i1}
    Running = {w1}
    FlushAt = 2
    BatchLimit = 1
    VerifyLimit = 1
    Ops = {"cancel", "delete"}
    Faults = {"db", "nats"}
    MaxFaults = 1
SPECIFICATION FairSpec
INVARIANT NoStranding
PROPERTY CancelStops
PROPERTY DeleteQuiesces
