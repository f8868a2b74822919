SPECIFICATION RunnerSpec
CONSTANTS
    r1 = r1
    f1 = f1
    t1 = t1
    t2 = t2
    t3 = t3
    None = None
    Runners = {r1}
    Fingerprints = {f1}
    Tasks = {t1, t2, t3}
CHECK_DEADLOCK FALSE
INVARIANT NextTaskAlone
PROPERTY LockReleased
