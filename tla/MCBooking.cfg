\* Safety of seat holds: three hold calls, one cancellation, two workers.
SPECIFICATION BookingSpec
CONSTANTS
    Orders = {o1, o2, o3}
    Cancels = {c1}
    Workers = {w1, w2}
    Users = {u1, u2}
    Keys = {k1}
    s1 = s1
    s2 = s2
    t1 = t1
    Showtimes <- MCShowtimes
    Seats <- MCSeats
    ShowtimeOf <- MCShowtimeOf
    HoldInputs <- MCHoldInputs
    HoldDuration = 1
    BatchSize = 1
    MaxTime = 2
    NoOrder = NoOrder
    NoInput = NoInput
    Nobody = Nobody
SYMMETRY Symmetry
INVARIANTS
    BookingTypeOK
    HeldSeatsBacked
    LiveHoldsComplete
    OneOrderPerKey
    RepliesMatchRequests
PROPERTIES
    OrderLifecycle
