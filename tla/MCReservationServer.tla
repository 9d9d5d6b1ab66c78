------------------------ MODULE MCReservationServer ------------------------
(***************************************************************************)
(* Small venues and client populations for model checking the server.      *)
(***************************************************************************)
EXTENDS ReservationServer, TLC

CONSTANTS u1, u2, t1, t2, s1, s2, s3, VIP, GENERAL

\* Two seats of one section: symmetric in users, threads and seats.
OneSection == [s \in {s1, s2} |-> VIP]
OneSectionSymmetry ==
    Permutations({u1, u2}) \cup Permutations({t1, t2}) \cup Permutations({s1, s2})

\* A single seat.
OneSeat == [s \in {s1} |-> VIP]

\* One seat in each of two sections.
TwoSections == [s \in {s1, s2} |-> IF s = s1 THEN VIP ELSE GENERAL]
ClientSymmetry == Permutations({u1, u2}) \cup Permutations({t1, t2})
=============================================================================
