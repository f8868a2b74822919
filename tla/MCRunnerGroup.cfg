SPECIFICATION RunnerSpec
CONSTANTS
    r1 = r1
    r2 = r2
    f1 = f1
    t1 = t1
    None = None
    Runners = {r1, r2}
    Fingerprints = {f1}
    Tasks = {t1}
CHECK_DEADLOCK FALSE
PROPERTY GroupKilledOnReturn
