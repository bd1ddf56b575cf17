CONSTANTS
    c1 = c1
    c2 = c2
    c3 = c3
    k1 = k1
    k2 = k2
    m1 = m1
    m2 = m2
    n1 = n1
    n2 = n2
    n3 = n3
    p1 = p1
    p2 = p2
    w1 = w1
    w2 = w2
    NoCinema = NoCinema
    Cinemas = {k1, k2}
    Studios = {1, 2, 3}
    Names = {n1, n2, n3}
    Seats = {1, 2, 3, 4}
    Places = {p1, p2}
    Movies = {m1, m2}
    Showtimes = {w1, w2}
    Calls = {c1, c2, c3}
    Requests <- MCRequests
    Tables <- MCTables
SYMMETRY CallSymmetry
SPECIFICATION SchedulingSpec
INVARIANTS
    SchedulingTypeOK
    InventoryMatchesLayout
    NoOverlap
    ReferencesHold
    PriceAsShown
    DeadlockCauses
    LayoutsNeverDeadlock
    HoldDeadlocks
PROPERTIES
    OrderedScreeningsKept
