\* Every requested delivery is completed: one worker, batches of one.
SPECIFICATION FairTicketsSpec
CONSTANTS
    e1 = e1
    e2 = e2
    k1 = k1
    k2 = k2
    Events <- MCEvents
    Tickets = {}
    EventOf <- MCNoTickets
    Workers = {w1}
    Scans = {}
    Lease = 2
    BatchSize = 1
    MaxLate = 1
    NoEvent = NoEvent
    NoTicket = NoTicket
    Nobody = Nobody
PROPERTIES
    DeliveriesEnd
