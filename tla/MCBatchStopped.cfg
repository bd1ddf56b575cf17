\* A failed delivery stops the rest of its batch.
SPECIFICATION TicketsSpec
CONSTANTS
    e1 = e1
    e2 = e2
    k1 = k1
    k2 = k2
    Events <- MCEvents
    Tickets = {}
    EventOf <- MCNoTickets
    Workers = {w1, w2}
    Scans = {}
    Lease = 1
    BatchSize = 2
    MaxLate = 0
    NoEvent = NoEvent
    NoTicket = NoTicket
    Nobody = Nobody
PROPERTIES
    FailureContained
