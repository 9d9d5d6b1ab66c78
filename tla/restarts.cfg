\* The process is killed or stopped, or killed while it stops, and started again.
SPECIFICATION ServerSpec
CONSTANTS
    u1 = u1  u2 = u2  t1 = t1  t2 = t2  s1 = s1  s2 = s2  VIP = VIP  Nobody = Nobody
    Users = {u1, u2}
    Threads = {t1}
    Seats = {s1, s2}
    Sections = {VIP}
    SectionOf <- OneSection
    Subscribers = {}
    TicketsWritable = FALSE
    TTL = 1
    WarningTicks = 0
    MaxBatch = 1
    MaxSessions = 3
    MaxLockWait = 1
    MaxLogFaults = 0
    MaxEnds = 1
SYMMETRY OneSectionSymmetry
INVARIANTS ServerTypeOK NoSlotIsLost SoldSeatsAreSaved ServedSeatsAreListed
PROPERTIES ImplementsLastingSale SavedSaleIsFinal StopSavesEverySale
