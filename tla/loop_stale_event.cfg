SPECIFICATION Spec
CONSTANTS
    Worker = {w1, w2}
    FdLimit = 2
    MaxClients = 2
    MaxRequests = 1
    MaxSent = 2
    Kind = {"command"}
    MaxInFlight = 2
    MaxInput = 2
    MaxOutput = 2
    QueueCapacity = 1
    ClientsLeave = TRUE
    ClientsAreSlow = FALSE
    Nil = Nil
SYMMETRY Symmetry
INVARIANTS
    EventsAreCurrent
