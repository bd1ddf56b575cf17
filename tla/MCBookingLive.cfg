\* Liveness of seat holds: every hold ends under the fairness of BookingFairness,
\* and the holds implement the abstract SeatClaims.
SPECIFICATION FairBookingSpec
CONSTANTS
    Orders = {o1, o2}
    Cancels = {c1}
    Workers = {w1, w2}
    Users = {u1}
    Keys = {k1, k2}
    s1 = s1
    s2 = s2
    t1 = t1
    Showtimes <- MCShowtimes
    Seats <- MCSeats
    ShowtimeOf <- MCShowtimeOf
    HoldInputs <- MCOverlappingInputs
    HoldDuration = 1
    BatchSize = 1
    MaxTime = 2
    NoOrder = NoOrder
    NoInput = NoInput
    Nobody = Nobody
PROPERTIES
    HoldsEnd
    ImplementsSeatClaims
