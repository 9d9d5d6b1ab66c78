\* Two connections; a thread that cannot be started, a log append that raises.
SPECIFICATION FairConnSpec
CONSTANTS
    c1 = c1  c2 = c2  NoOne = NoOne  Main = Main
    Clients = {c1, c2}
    RequestsOf <- TwoClients
    Names = {"user"}
    Ids = {"id"}
    Venue <- SmallVenue
    Blank = " "
    SeatLimit = 2
    MaxStartFailures = 1
    MaxLogFaults = 1
CHECK_DEADLOCK FALSE
INVARIANTS RegistryIsExact SocketsHaveOwners RequestsAreJudgedRight
PROPERTIES ClientsAreHeard StopReturns OnlySilentClientsHoldTheProcess
