CONSTANTS
    Cpu = {c1, c2}
    Worker = {t1, t2, t3}
    Queue = {w1}
    Null = Null
    MaxThreads = 3
    MaxTime = 1
    WakeTargets = {"Sleeping"}
    Parks = {t1, t2, t3}
    Programs = {t1, t2, t3}
    Boot = c1
SPECIFICATION Spec
SYMMETRY Symmetry
INVARIANT OneCpuPerThread
PROPERTIES ThreadsAccounted IsRoundRobin
