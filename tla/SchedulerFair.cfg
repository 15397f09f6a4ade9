CONSTANTS
    Cpu = {c1, c2}
    Boot = c1
    Worker = {t1, t2}
    Queue = {w1}
    Null = Null
    MaxThreads = 2
    MaxTime = 1
    WakeTargets = {}
    Parks = {t1, t2}
    Programs = {t1}
SPECIFICATION FairSpec
PROPERTY EveryThreadProgresses
