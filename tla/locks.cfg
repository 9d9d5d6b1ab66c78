\* Two threads and every lock of the server.
SPECIFICATION FairSpec
CONSTANTS
    t1 = t1  t2 = t2  VIP = VIP  PREFERENTIAL = PREFERENTIAL  GENERAL = GENERAL
    Threads = {t1, t2}
    Sections = {VIP, PREFERENTIAL, GENERAL}
    SectionValue <- SectionEnum
    MaxValue = 2
    MaxNests = 1
INVARIANTS HierarchyRespected NoCircularWait
PROPERTIES LocksAreGranted
