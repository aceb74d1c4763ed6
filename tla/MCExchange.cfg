SPECIFICATION Spec
CONSTANTS
    Orders <- MCPair
    Perps <- MCPerps
    Precision = 1
    StableMax = 12
    NoPerp = NoPerp
    HasChain = TRUE
    Faults = {"db", "rpc"}
    Encodable <- MCPair
    Reqs = {r1, r2, r3}
    Acceptable <- MCPair
    Expiration <- MCExpiration
    MaxTime = 1
    NoOrder = NoOrder
INVARIANTS RowsAreHanded AddedOnce FillsWithinSigned FilledIsGone
PROPERTIES SettlementRefined
CHECK_DEADLOCK FALSE
