-------------------------- MODULE MCConcertServer --------------------------
(***************************************************************************)
(* Small instances of the server process with crashes.                     *)
(***************************************************************************)
EXTENDS ConcertServer, TLC

CONSTANTS u1, u2, t1, t2, s1, s2, VIP

OneSection == [s \in {s1, s2} |-> VIP]
OneSectionSymmetry == Permutations({u1, u2}) \cup Permutations({s1, s2})
=============================================================================
