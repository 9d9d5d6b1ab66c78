------------------------------ MODULE SeatSale ------------------------------
(***************************************************************************)
(* What the server promises the audience, without threads, locks, sessions *)
(* or a database: a seat is free, reserved by one user, or sold to one     *)
(* user, and changes hands only in the ways below.                         *)
(***************************************************************************)
CONSTANTS Users, Nobody, Seats
VARIABLE status

Free        == [state |-> "AVAILABLE", user |-> Nobody]
Reserved(u) == [state |-> "RESERVED", user |-> u]
Sold(u)     == [state |-> "SOLD", user |-> u]

Give(S, value) == [s \in Seats |-> IF s \in S THEN value ELSE status[s]]

Init == status = [s \in Seats |-> Free]

\* All the seats of a request, or none.
Reserve(u, S) ==
    /\ S # {} /\ \A s \in S : status[s] = Free
    /\ status' = Give(S, Reserved(u))

ReservedBy(u) == {s \in Seats : status[s] = Reserved(u)}

\* A user's reservations end all at once: they are all sold to that user,
\* or all given up.
Buy(u)    == status' = Give(ReservedBy(u), Sold(u))
GiveUp(u) == status' = Give(ReservedBy(u), Free)

Next == \E u \in Users :
    \/ \E S \in SUBSET Seats : Reserve(u, S)
    \/ Buy(u)
    \/ GiveUp(u)

Spec == Init /\ [][Next]_status
=============================================================================
