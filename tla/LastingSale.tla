----------------------------- MODULE LastingSale -----------------------------
(***************************************************************************)
(* What is promised about the seats of a concert whatever happens: log      *)
(* appends that fail, waits of any length, a process that is killed or      *)
(* stopped.  A sale is for good, is of reserved seats, and is to one buyer; *)
(* a reservation may not survive the process, and who made it is not known. *)
(***************************************************************************)
CONSTANTS Users, Nobody, Seats

VARIABLES
    status,         \* of each seat
    process         \* "serving", "stopping" or "down"

Free     == [state |-> "AVAILABLE", user |-> Nobody]
Reserved == [state |-> "RESERVED", user |-> Nobody]
Sold(u)  == [state |-> "SOLD", user |-> u]

Init == status = [s \in Seats |-> Free] /\ process = "serving"

\* The seats of S change from one state into another, all at once.
Turn(S, from, into) ==
    /\ process # "down" /\ UNCHANGED process
    /\ S # {} /\ \A s \in S : status[s] = from
    /\ status' = [s \in Seats |-> IF s \in S THEN into ELSE status[s]]

Reserve(S) == Turn(S, Free, Reserved)
GiveUp(S)  == Turn(S, Reserved, Free)
Buy(u, S)  == Turn(S, Reserved, Sold(u))

\* What a start or an end of the process leaves: the seats that are sold, with
\* some of the others reserved.
Remaining(R) ==
    [s \in Seats |-> IF status[s].state = "SOLD" THEN status[s]
                     ELSE IF s \in R THEN Reserved ELSE Free]

Stop == process = "serving" /\ process' = "stopping" /\ UNCHANGED status

Start ==
    /\ process = "down" /\ process' = "serving"
    /\ \E R \in SUBSET Seats : status' = Remaining(R)

End ==
    /\ process # "down" /\ process' = "down"
    /\ \E R \in SUBSET Seats : status' = Remaining(R)

\* A process that is killed while it stops may leave one reserved seat sold,
\* and nobody knows to whom.
EndWithinSale(s, u) ==
    /\ process = "stopping" /\ process' = "down"
    /\ status[s] = Reserved
    /\ \E R \in SUBSET Seats : status' = [Remaining(R) EXCEPT ![s] = Sold(u)]

Next ==
    \/ \E S \in SUBSET Seats :
           Reserve(S) \/ GiveUp(S) \/ \E u \in Users : Buy(u, S)
    \/ Stop \/ Start \/ End
    \/ \E s \in Seats, u \in Users \cup {Nobody} : EndWithinSale(s, u)

Spec == Init /\ [][Next]_<<status, process>>
=============================================================================
