\* A user subscribes a second time; nothing fails.
SPECIFICATION Spec
CONSTANTS
    u1 = u1  u2 = u2  c1 = c1  c2 = c2  None = None
    Users = {u1}
    Connections = {c1, c2}
    Callers <- Resubscribing
    Buffer = 1
    MaxEvents = 2
    MaxLogFaults = 0
PROPERTIES SubscriptionsEndWithTheirConnection
