CONSTANTS
    Clients = {c1}
    Worker = worker
    Scanner = scanner
    Tasks = {c1, worker, scanner}
    InPins <- MCInPins
    OutPins = {13, 14}
    AdcPins = {26}
    UnknownIds = {99}
    ClientActions <- MCClientActions
    RgbPins <- MCRgbPins
    QueueSize = 2
    MaxUnfinished = 4
SPECIFICATION PinSpec
INVARIANTS WorkerIsSound
PROPERTIES WorkerServes CacheCatchesUp
