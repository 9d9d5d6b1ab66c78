----------------------------- MODULE SessionSale -----------------------------
(***************************************************************************)
(* SeatSale with what the users see of their sessions: the seats a user has *)
(* reserved belong to one session, which is made before them or with them, *)
(* ends with them, and never comes back under its number.                  *)
(***************************************************************************)
EXTENDS SeatSale, Naturals

VARIABLES
    session,        \* the number of each user's session, 0 without one
    last            \* the last number given

SessionInit == Init /\ session = [u \in Users |-> 0] /\ last = 0

\* The user has the session there was, or else a new one.
GetSession(u) ==
    IF session[u] # 0 THEN UNCHANGED <<session, last>>
    ELSE last' = last + 1 /\ session' = [session EXCEPT ![u] = last + 1]

Open(u)         == GetSession(u) /\ UNCHANGED status
ReserveIn(u, S) == GetSession(u) /\ Reserve(u, S)

\* With all that is reserved in it, which is bought or given up.
End(u) ==
    /\ session[u] # 0 /\ session' = [session EXCEPT ![u] = 0]
    /\ Buy(u) \/ GiveUp(u)
    /\ UNCHANGED last

SessionNext == \E u \in Users :
    \/ Open(u)
    \/ \E S \in SUBSET Seats : ReserveIn(u, S)
    \/ End(u)

SessionSpec == SessionInit /\ [][SessionNext]_<<status, session, last>>
=============================================================================
