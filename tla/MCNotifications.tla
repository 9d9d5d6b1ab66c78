-------------------------- MODULE MCNotifications --------------------------
(***************************************************************************)
(* Two connections, of one user who subscribes twice or of two users.      *)
(***************************************************************************)
EXTENDS Notifications, TLC

CONSTANTS u1, u2, c1, c2

OneUser  == (c1 :> u1) @@ (c2 :> u1)
TwoUsers == (c1 :> u1) @@ (c2 :> u2)
Resubscribing == {OneUser}
OneOrTwoUsers == {OneUser, TwoUsers}
=============================================================================
