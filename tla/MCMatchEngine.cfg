SPECIFICATION Spec
CONSTANTS
    Orders <- MCOrders
    Perps <- MCPerps
    Precision = 1
    StableMax = 12
    NoPerp = NoPerp
INVARIANTS TypeOK RemainIsOpen RemainAccounts NoOverfill
           TradesWithinLimits HeadsHaveRemain PassUncrosses
PROPERTIES PricePriority TimePriority ImplementsLedger
