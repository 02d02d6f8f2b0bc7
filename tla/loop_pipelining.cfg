SPECIFICATION FairSpec
CONSTANTS
    Worker = {w1, w2}
    FdLimit = 1
    MaxClients = 2
    MaxRequests = 3
    MaxSent = 3
    Kind = {"command", "invalid", "broken"}
    MaxInFlight = 2
    MaxInput = 2
    MaxOutput = 2
    QueueCapacity = 1
    ClientsLeave = TRUE
    ClientsAreSlow = TRUE
    Nil = Nil
INVARIANTS
    TypeOK
    RepliesFollowRequests
    OutstandingRequestIsSomewhere
    CompletionIsNoticed
    ReorderBufferIsBounded
    OnlyThrottledInputWaits
    UnsentOutputIsWatched
PROPERTY
    EveryRequestIsAnswered
