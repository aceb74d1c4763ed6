SPECIFICATION LiveSpec
CONSTANTS
    Orders <- MCThree
    Perps <- MCPerps
    Precision = 1
    StableMax = 12
    NoPerp = NoPerp
    HasChain = TRUE
    Faults = {}
    Encodable <- MCThree
    Reqs = {r1, r2, r3}
    Acceptable <- MCThree
    Expiration <- MCExpiration
    MaxTime = 0
    NoOrder = NoOrder
INVARIANTS SuccessInEngine NothingLost
PROPERTIES AcceptedTrade RequestsAnswered FillsArrive
CHECK_DEADLOCK FALSE
