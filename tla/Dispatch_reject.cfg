CONSTANTS
    t1 = t1
    t2 = t2
    w1 = w1
    s1 = s1
    Task = {t1, t2}
    Worker = {w1}
    Session = {s1}
    NoWorker = NoWorker
    NoSession = NoSession
    NoTask = NoTask
    Loop = Loop
    MaxTasks = 1
    Ops = {}
    Faults = {}
    MaxFaults = 0
SPECIFICATION Spec
SYMMETRY Symmetry
INVARIANT FailedMeansRun
