-------------------------- MODULE MCDesktopClient --------------------------
(***************************************************************************)
(* One window and its users, and perhaps somebody at another client.       *)
(***************************************************************************)
EXTENDS DesktopClient

CONSTANTS u1, u2, s1, s2, p1, w1, w2
=============================================================================
