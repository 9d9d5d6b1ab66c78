\* Two requests of one user at a time compete for the locks, and refresh the
\* session: requests are answered, reservations end.
SPECIFICATION FairSpec
CONSTANTS
    u1 = u1  u2 = u2  t1 = t1  t2 = t2  s1 = s1  s2 = s2  s3 = s3  VIP = VIP  GENERAL = GENERAL  Nobody = Nobody
    Users = {u1}
    Threads = {t1, t2}
    Seats = {s1, s2}
    Sections = {VIP}
    SectionOf <- OneSection
    Subscribers = {}
    TicketsWritable = FALSE
    TTL = 1
    WarningTicks = 0
    MaxBatch = 1
    MaxSessions = 3
    MaxLockWait = 1
    MaxLogFaults = 0
PROPERTIES RequestsAreAnswered ReservationsEnd
