\* One user at the window and one elsewhere; one answer is lost.  When people
\* have stopped and the window is closed, nothing is left to happen.
SPECIFICATION FairSpec
CONSTANTS
    u1 = u1  u2 = u2  s1 = s1  s2 = s2  p1 = p1  w1 = w1  w2 = w2
    Nobody = Nobody
    Users = {u1, u2}
    WindowUsers = {u1}
    Seats = {s1, s2}
    Pollers = {p1}
    Workers = {w1, w2}
    MaxActions = 4
    MaxFaults = 1
CHECK_DEADLOCK FALSE
INVARIANTS SoldShownIsBought
PROPERTIES NewestIsShown ClicksAreSettled
