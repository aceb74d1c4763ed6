SPECIFICATION LiveSpec
CONSTANTS
    Senders <- MCSenders
    Waiting <- MCWaiting
    GasPrices = {1, 2}
    Bump = 10
    RpcFails = TRUE
    MaxCalls <- MCMaxCalls
INVARIANTS NoGap SentOnceInOrder
PROPERTIES WaitEnds
CHECK_DEADLOCK FALSE
