CONSTANTS
    MaxCidrs = 4
    MaxShards = 3
    BigBits = 2
    MaxInt = 16
    Port = {443}
    Concurrency = 2
    TestIps = {0}
    MaxLive = 3
SPECIFICATION Spec
CHECK_DEADLOCK FALSE
INVARIANT TypeOK
INVARIANT OwnSubset
INVARIANT Balanced
INVARIANT WrapNeedsBig
INVARIANT CompletedMeansCollected
PROPERTY RunnerReports
PROPERTY GoroutinesEnd
