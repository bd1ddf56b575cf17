----------------------------- MODULE MCCheckout -----------------------------
(***************************************************************************)
(* Instances of Checkout for TLC: one showtime of two seats, and one       *)
(* customer who asks for both under one key and for one of them under      *)
(* another.                                                                *)
(***************************************************************************)
EXTENDS Checkout, TLC

CONSTANTS s1, s2, t1, u1, k1, k2

MCUsers == {u1}
MCKeys == {k1, k2}
MCSeats == {s1, s2}
MCShowtimes == {t1}
MCShowtimeOf == [s \in MCSeats |-> t1]
MCHoldInputs ==
    {[user |-> u1, key |-> k1, showtime |-> t1, seats |-> {s1, s2}],
     [user |-> u1, key |-> k2, showtime |-> t1, seats |-> {s1}]}

\* For liveness, one request for both seats.
MCOneInput == {i \in MCHoldInputs : i.seats = MCSeats}

\* Calls, requests and event ids are interchangeable.
Symmetry ==
    Permutations(Orders) \cup Permutations(Intents) \cup Permutations(Deliveries)
        \cup Permutations(Events)
=============================================================================
