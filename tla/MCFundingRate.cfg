SPECIFICATION Spec
CONSTANTS
    Markets <- MCMarkets
    Marks <- MCMarks
    Indexes <- MCIndexes
    Scale = 30
    Limit = 2
    LimitIsInteger = TRUE
    Feeds <- MCFeeds
    MaxRounds = 2
    NoMarket = NoMarket
    NotRead = NotRead
INVARIANTS RecordedWasSent
PROPERTIES NoUpdateLost StepWithinLimit
CHECK_DEADLOCK FALSE
