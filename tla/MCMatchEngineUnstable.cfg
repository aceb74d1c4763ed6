SPECIFICATION Spec
CONSTANTS
    Orders <- MCEqualBuys
    Perps <- MCPerps
    Precision = 1
    StableMax = 2
    NoPerp = NoPerp
PROPERTIES TimePriority
