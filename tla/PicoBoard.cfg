CONSTANTS
    Clients = {c1, c2, closer}
    Worker = worker
    Scanner = scanner
    Main = main
    Closer = closer
    Tasks = {c1, c2, closer, worker, scanner, main}
    InPins <- MCBoardInPins
    OutPins = {13}
    AdcPins = {}
    UnknownIds = {}
    ClientActions <- MCBoardActions
    RgbPins <- MCBoardRgbPins
    QueueSize = 1
    MaxUnfinished = 1
    Names = {n1}
    FirstName = n1
    Off = off
    NoName = noname
    GapFails = TRUE
    Ssids = {s1}
    FirstSsid = s1
    NoSsid = nossid
    NicFails = FALSE
SPECIFICATION BoardSpec
INVARIANTS BoardLockHolds FlagOutlivesErrors
PROPERTIES AnsweredUnlessWedged ShutdownCompletes
