SPECIFICATION Spec
CONSTANTS
    MaxKeyLength = 1
    MaxValueLength = 2
    MaxArrayElements = 3
    MaxHeaderLineLength = 3
    MaxInt = 21
    Nil = Nil
    Scripts <- MCScripts
    StoredValue <- MCStoredValue
    MaxInFlight = 2
    MaxInput = 25
    MaxOutput = 12
INVARIANTS
    TypeOK
    OverrunOnlyWhenThrottled
    WaitingInputIsRetried
    NothingIsLost
PROPERTY
    ImplementsSession
CHECK_DEADLOCK FALSE
