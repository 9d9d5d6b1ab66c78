\* One user subscribes from two connections, or two users from one each; one
\* log append raises.  With the notifier dead and both connections over, nothing
\* is left to happen.
SPECIFICATION FairSpec
CONSTANTS
    u1 = u1  u2 = u2  c1 = c1  c2 = c2  None = None
    Users = {u1, u2}
    Connections = {c1, c2}
    Callers <- OneOrTwoUsers
    Buffer = 1
    MaxEvents = 2
    MaxLogFaults = 1
CHECK_DEADLOCK FALSE
INVARIANTS SocketsMatchSubscriptions EventsInOrder
PROPERTIES NotificationsAreTaken GoneClientsAreClosed
