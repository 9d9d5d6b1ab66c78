-------------------------- MODULE MCLockHierarchy --------------------------
(***************************************************************************)
(* Two threads and the three sections, with the values of the Section enum. *)
(***************************************************************************)
EXTENDS LockHierarchy, TLC

CONSTANTS t1, t2, VIP, PREFERENTIAL, GENERAL

SectionEnum == (VIP :> 0) @@ (PREFERENTIAL :> 1) @@ (GENERAL :> 2)
=============================================================================
