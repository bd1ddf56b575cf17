\* Liveness of checkout: successes are accounted for.
SPECIFICATION FairCheckoutSpec
CONSTANTS
    Orders = {o1}
    Cancels = {c1}
    Workers = {w1}
    u1 = u1
    k1 = k1
    k2 = k2
    s1 = s1
    s2 = s2
    t1 = t1
    Users <- MCUsers
    Keys <- MCKeys
    Showtimes <- MCShowtimes
    Seats <- MCSeats
    ShowtimeOf <- MCShowtimeOf
    HoldInputs <- MCOneInput
    HoldDuration = 1
    BatchSize = 1
    MaxTime = 1
    NoOrder = NoOrder
    NoInput = NoInput
    Nobody = Nobody
    Intents = {i1}
    Deliveries = {d1}
    Events = {e1, e2}
    NoEvent = NoEvent
PROPERTIES
    SuccessesSettle
