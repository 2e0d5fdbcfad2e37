CONSTANTS
    t1 = t1
    t2 = t2
    t3 = t3
    w1 = w1
    w2 = w2
    Task = {t1, t2, t3}
    Worker = {w1, w2}
    NoWorker = NoWorker
SPECIFICATION StoreSpec
SYMMETRY Symmetry
INVARIANT StoreTypeOK
INVARIANT PendingInLine
INVARIANT QueuedOnce
INVARIANT HeldNotQueued
PROPERTY FinishedStaysFinished
