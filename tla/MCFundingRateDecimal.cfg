SPECIFICATION Spec
CONSTANTS
    Markets <- MCMarkets
    Marks <- MCMarks
    Indexes <- MCIndexes
    Scale = 30
    Limit = 2
    LimitIsInteger = FALSE
    Feeds <- MCFeeds
    MaxRounds = 2
    NoMarket = NoMarket
    NotRead = NotRead
PROPERTIES StepWithinLimit
CHECK_DEADLOCK FALSE
