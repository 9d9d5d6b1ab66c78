\* One user after another at the same window; nothing fails.
SPECIFICATION Spec
CONSTANTS
    u1 = u1  u2 = u2  s1 = s1  s2 = s2  p1 = p1  w1 = w1  w2 = w2
    Nobody = Nobody
    Users = {u1, u2}
    WindowUsers = {u1, u2}
    Seats = {s1, s2}
    Pollers = {p1}
    Workers = {w1}
    MaxActions = 5
    MaxFaults = 0
CHECK_DEADLOCK FALSE
INVARIANTS HighlightsAreOwn
