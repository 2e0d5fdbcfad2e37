CONSTANTS
    t1 = t1
    t2 = t2
    w1 = w1
    s1 = s1
    Task = {t1, t2}
    Worker = {w1}
    Session = {s1}
    NoWorker = NoWorker
    NoSession = NoSession
    NoTask = NoTask
    Loop = Loop
    MaxTasks = 1
    Ops = {"cancel"}
    Faults = {"hang", "late"}
    MaxFaults = 2
SPECIFICATION FairSpec
INVARIANT CompletedMeansRun
PROPERTY FinishesUnlessLeaked
