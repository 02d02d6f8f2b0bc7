SPECIFICATION FairProcessSpec
CONSTANTS
    Defaults <- MCDefaults
    Number <- MCNumber
    MaxPort = 7
    CommandLines <- MCCommandLines
    IPv4Addresses = {"0.0.0.0"}
    MaxWorkers = 3
    MaxRequests = 3
INVARIANTS
    ProcessTypeOK
    NobodyWakesADeadLoop
    QueuedWorkIsFinished
    NoThreadOutlivesMain
    ExitCodeIsTruthful
PROPERTIES
    ShutdownCompletes
