\* Two users and one seat; one log append raises OSError, anywhere.
\* Notifications and warnings are sent, and tickets written.
SPECIFICATION FairSpec
CONSTANTS
    u1 = u1  u2 = u2  t1 = t1  t2 = t2  s1 = s1  s2 = s2  s3 = s3  VIP = VIP  GENERAL = GENERAL  Nobody = Nobody
    Users = {u1, u2}
    Threads = {t1}
    Seats = {s1}
    Sections = {VIP}
    SectionOf <- OneSeat
    Subscribers = {u1}
    TicketsWritable = TRUE
    TTL = 1
    WarningTicks = 1
    MaxBatch = 2
    MaxSessions = 3
    MaxLockWait = 1
    MaxLogFaults = 1
INVARIANTS NoSlotIsLost
PROPERTIES SoldIsFinal ReservationsEndWithMonitor
