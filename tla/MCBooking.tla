----------------------------- MODULE MCBooking -----------------------------
(***************************************************************************)
(* Instances of Booking for TLC: two customers with one idempotency key    *)
(* each, one showtime of two seats.                                        *)
(***************************************************************************)
EXTENDS BookingClaims, TLC

CONSTANTS s1, s2, t1

MCSeats == {s1, s2}
MCShowtimes == {t1}
MCShowtimeOf == [s \in MCSeats |-> t1]
MCHoldInputs == HoldInput

\* For liveness, requests that overlap in a seat or differ in all of them.
MCOverlappingInputs ==
    {i \in HoldInput : s2 \in i.seats => i.seats = MCSeats}

\* Calls, workers, seats and customers are interchangeable.
Symmetry ==
    Permutations(Orders) \cup Permutations(Workers) \cup Permutations(MCSeats)
        \cup Permutations(Users)
=============================================================================
