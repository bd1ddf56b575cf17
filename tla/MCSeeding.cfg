CONSTANTS
    r1 = r1
    r2 = r2
    c1 = c1
    c2 = c2
    e1 = e1
    e2 = e2
    good = good
    short = short
    jakarta = jakarta
    bandung = bandung
    s1 = s1
    k1 = k1
    k2 = k2
    k3 = k3
    other = other
    OtherTitle = other
    t1 = t1
    t2 = t2
    Clients = {r1, r2, c1, c2}
    Runners = {r1, r2}
    Emails = {e1, e2}
    Passwords = {good, short}
    ShortPassword = short
    AdminEmail = e1
    AdminPassword = good
    Limit = 2
    Window = 2
    TTL = 2
    MaxTime = 2
    Titles = {t1, t2}
    MovieIds = {1, 2, 3}
    PageSize = 1
    FirstMovies <- MCFirstMovies
    Wanted <- MCWanted
    CinemaIds = {k1, k2, k3}
    MaxStarts = 2
    Casts <- MCCasts
SYMMETRY MCSymmetry
SPECIFICATION SeedingSpec
INVARIANTS
    SeedingTypeOK
    OneAdministrator
    AdmissionBound
    NeverLockedOut
    PagesComplete
    SeedComplete
    NothingTwice
