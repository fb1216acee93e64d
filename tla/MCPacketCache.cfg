CONSTANTS
    t1 = t1
    t2 = t2
    p1 = p1
    p2 = p2
    Task = {t1, t2}
    Project = {p1, p2}
    ProjectOf <- OneProject
    Getter = {g1}
    Prefetcher = {f1}
    None = None
    MaxEntries = 1
    TTL = 1
    Width = 1
    Faults = {"silent", "listener", "restart"}
    MaxRev = 1
SPECIFICATION Spec
INVARIANT CacheIsBounded
INVARIANT RegisteredIsRunning
INVARIANT StaleIsAnnounced
