SPECIFICATION LiveSpec
CONSTANTS
    Perps <- MCPerps
    Markets <- MCMarkets
    Accounts <- MCAccounts
    Precision = 2
    TraderRisk <- MCTraderRisk
    MaxBlocks = 2
    Nil = Nil
INVARIANTS NoDivisionByZero AnswersWereTrue
PROPERTIES StreamEnds
CHECK_DEADLOCK FALSE
