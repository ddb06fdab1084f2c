---------------------------- MODULE MC_Certificates ----------------------------
(***************************************************************************)
(* A small instance of Certificates: two machines, two processes on the    *)
(* first and one on the second, two invitations.                           *)
(***************************************************************************)
EXTENDS Certificates, TLC

CONSTANTS m1, m2, p1, p2, q1

TwoOnOne == p1 :> m1 @@ p2 :> m1 @@ q1 :> m2
===============================================================================
