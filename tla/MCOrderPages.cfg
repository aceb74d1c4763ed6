SPECIFICATION PagesSpec
CONSTANTS
    Orders <- MCOrders
    Perps <- MCPerps
    Precision = 1
    StableMax = 12
    Reqs <- MCReqs
    Acceptable <- MCOrders
    Expiration <- MCExpiration
    MaxTime = 1
    DbFaults = TRUE
    NoOrder = NoOrder
    Wanted <- MCWanted
    PageSizes = {1, 2}
    Earlier <- MCEarlier
INVARIANTS NoneMissed QuietWalkIsList
CHECK_DEADLOCK FALSE
