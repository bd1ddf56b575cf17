\* Payment of two competing orders, with a cancellation and a sweep.
SPECIFICATION CheckoutSpec
CONSTANTS
    Orders = {o1, o2}
    Cancels = {c1}
    Workers = {w1}
    u1 = u1
    k1 = k1
    k2 = k2
    s1 = s1
    s2 = s2
    t1 = t1
    Users <- MCUsers
    Keys <- MCKeys
    Showtimes <- MCShowtimes
    Seats <- MCSeats
    ShowtimeOf <- MCShowtimeOf
    HoldInputs <- MCHoldInputs
    HoldDuration = 1
    BatchSize = 1
    MaxTime = 2
    NoOrder = NoOrder
    NoInput = NoInput
    Nobody = Nobody
    Intents = {i1}
    Deliveries = {d1}
    Events = {e1}
    NoEvent = NoEvent
SYMMETRY Symmetry
INVARIANTS
    CheckoutTypeOK
    HeldSeatsBacked
    LiveHoldsComplete
    SweepsConsistent
    SoldSeatsTicketed
PROPERTIES
    TimelyPaymentSells
