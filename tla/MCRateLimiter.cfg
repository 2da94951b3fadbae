\* One client, five requests; two a minute, a burst configured below that.
SPECIFICATION Spec
CONSTANTS
    c1 = c1
    r1 = r1  r2 = r2  r3 = r3  r4 = r4  r5 = r5
    NoBucket = NoBucket
    Clients <- MCClients
    Requests <- MCRequests
    RequestsPerMin = 2
    BurstSize = 1
    Minute = 3
    IdleMinutes = 1
    MaxNow = 6
SYMMETRY RequestsAreAlike
INVARIANTS
    ClientWithinRate
PROPERTIES
    RefusedOnlyOverRate
CHECK_DEADLOCK FALSE
