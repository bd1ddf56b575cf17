\* Two workers deliver two events; two administrators scan a ticket.
SPECIFICATION TicketsSpec
CONSTANTS
    e1 = e1
    e2 = e2
    k1 = k1
    k2 = k2
    Events <- MCEvents
    Tickets = {k1}
    EventOf <- MCOneEventOf
    Workers = {w1, w2}
    Scans = {a1, a2}
    Lease = 1
    BatchSize = 2
    MaxLate = 1
    NoEvent = NoEvent
    NoTicket = NoTicket
    Nobody = Nobody
SYMMETRY Symmetry
INVARIANTS
    TicketsTypeOK
    CompletedDelivered
    DeliveredOnce
    CheckedInOnce
PROPERTIES
    CompletedForGood
