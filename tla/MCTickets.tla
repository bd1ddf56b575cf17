----------------------------- MODULE MCTickets -----------------------------
(***************************************************************************)
(* Instances of Tickets for TLC: every order has one ticket.               *)
(***************************************************************************)
EXTENDS Tickets, TLC

CONSTANTS e1, e2, k1, k2

MCEvents == {e1, e2}
MCTickets2 == {k1, k2}
MCEventOf == (k1 :> e1) @@ (k2 :> e2)
MCNoTickets == <<>>
MCOneEventOf == (k1 :> e1)

Symmetry == Permutations(Workers) \cup Permutations(Scans)
=============================================================================
