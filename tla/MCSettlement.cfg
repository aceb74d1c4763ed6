SPECIFICATION Spec
CONSTANTS
    Orders <- MCOrders
    Perps <- MCPerps
    Precision = 1
    StableMax = 12
    HasChain = TRUE
    Faults = {"db", "rpc"}
    Encodable <- MCEncodable
INVARIANTS StatusAgrees RowsBehindLedger NothingTwice RecordsFollowChain
PROPERTIES FillsOnlyGrow
CHECK_DEADLOCK FALSE
