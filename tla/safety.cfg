\* Two clients and two request threads compete for a section of two seats.
\* Two threads may confirm one session, and tickets are written.
SPECIFICATION Spec
CONSTANTS
    u1 = u1  u2 = u2  t1 = t1  t2 = t2  s1 = s1  s2 = s2  s3 = s3  VIP = VIP  GENERAL = GENERAL  Nobody = Nobody
    Users = {u1, u2}
    Threads = {t1, t2}
    Seats = {s1, s2}
    Sections = {VIP}
    SectionOf <- OneSection
    Subscribers = {}
    TicketsWritable = TRUE
    TTL = 1
    WarningTicks = 0
    MaxBatch = 2
    MaxSessions = 3
    MaxLockWait = 1
    MaxLogFaults = 0
SYMMETRY OneSectionSymmetry
INVARIANTS TypeOK SeatHeldExactlyOnce SemaphoreMatchesAvailable SeatsAreSaved ReservationsAreSaved SalesAreSavedWhole OneTicketPerSale
PROPERTIES SoldIsFinal SoldOnlyToHolder MonitorSparesLiveSessions ImplementsSessionSale
