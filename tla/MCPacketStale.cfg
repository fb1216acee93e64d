CONSTANTS
    t1 = t1
    t2 = t2
    p1 = p1
    p2 = p2
    Task = {t1}
    Project = {p1, p2}
    ProjectOf <- OneTask
    Getter = {g1, g2}
    Prefetcher = {}
    None = None
    MaxEntries = 1
    TTL = 2
    Width = 0
    Faults = {"silent", "listener", "restart"}
    MaxRev = 1
SPECIFICATION FairSpec
PROPERTY StaleExpires
