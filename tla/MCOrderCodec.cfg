SPECIFICATION Spec
CONSTANTS
    Requests <- MCRequests
    Word = 4
    Wide = 8
    Precision = 2
    NotANumber = NotANumber
    NoV = NoV
    NoRequest = NoRequest
INVARIANTS ContractReadsRequest SignedOrderOnce DuplicateExists ReadAlike
