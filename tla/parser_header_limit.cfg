SPECIFICATION StreamSpec
CONSTANTS
    MaxKeyLength = 1
    MaxValueLength = 2
    MaxArrayElements = 3
    MaxHeaderLineLength = 3
    MaxInt = 21
    Nil = Nil
    Requests <- MCRequests
    Zeros = {0, 2}
    Byte <- MCByte
    MaxSlips = 0
INVARIANT
    IncompleteInputNeedsMoreData
CHECK_DEADLOCK FALSE
