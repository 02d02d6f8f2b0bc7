SPECIFICATION FairProcessSpec
CONSTANTS
    Defaults <- MCDefaults
    Number <- MCNumber
    MaxPort = 7
    CommandLines <- SmallQueue
    IPv4Addresses = {"0.0.0.0"}
    MaxWorkers = 3
    MaxRequests = 3
PROPERTIES
    ShutdownCompletes
