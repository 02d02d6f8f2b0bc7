SPECIFICATION Spec
CONSTANTS
    Worker = {w1, w2}
    FdLimit = 1
    MaxClients = 1
    MaxRequests = 3
    MaxSent = 3
    Kind = {"command"}
    MaxInFlight = 2
    MaxInput = 2
    MaxOutput = 2
    QueueCapacity = 2
    ClientsLeave = FALSE
    ClientsAreSlow = FALSE
    Nil = Nil
SYMMETRY Symmetry
PROPERTIES
    PipelinedCommandsRunInOrder
