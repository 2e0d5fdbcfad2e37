CONSTANTS
    t1 = t1
    t2 = t2
    w1 = w1
    w2 = w2
    s1 = s1
    s2 = s2
    Task = {t1, t2}
    Worker = {w1, w2}
    Session = {s1, s2}
    NoWorker = NoWorker
    NoSession = NoSession
    NoTask = NoTask
    Loop = Loop
    MaxTasks = 1
    Ops = {}
    Faults = {}
    MaxFaults = 0
SPECIFICATION Spec
SYMMETRY Symmetry
INVARIANT TypeOK
INVARIANT CountCovers
INVARIANT OneHolder
