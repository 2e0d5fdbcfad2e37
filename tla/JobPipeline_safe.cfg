CONSTANTS
    w1 = w1
    w2 = w2
    i1 = i1
    i2 = i2
    NoWorker = NoWorker
    Worker = {w1, w2}
    Item = {i1, i2}
    Running = {w1, w2}
    FlushAt = 2
    BatchLimit = 2
    VerifyLimit = 1
    Ops = {}
    Faults = {"worker", "master"}
    MaxFaults = 1
SPECIFICATION Spec
SYMMETRY Symmetry
INVARIANT TypeOK
INVARIANT DoneMeansVerified
INVARIANT DoneMeansScanned
INVARIANT OneScanner
INVARIANT NoStranding
INVARIANT NoChunkLost
PROPERTY HitsKept
PROPERTY VerifiedStable
PROPERTY PhaseMonotone
PROPERTY ImplementsScanJob
