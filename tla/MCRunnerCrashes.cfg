SPECIFICATION RunnerSpec
CONSTANTS
    r1 = r1
    r2 = r2
    r3 = r3
    f1 = f1
    f2 = f2
    t1 = t1
    None = None
    Runners = {r1, r2, r3}
    Fingerprints = {f1, f2}
    Tasks = {t1}
SYMMETRY Interchangeable
CHECK_DEADLOCK FALSE
INVARIANTS
    RowsCoherent
    Explained
    ExitsCurrent
PROPERTY CompleteIsKept
