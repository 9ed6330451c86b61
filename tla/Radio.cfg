SPECIFICATION Spec
CONSTANTS
    Clients = {c1, c2, c3}
    Worker = worker
    Scanner = scanner
    Tasks = {c1, c2, c3, worker, scanner}
    Names = {n1, n2}
    FirstName = n1
    Off = off
    NoName = noname
    GapFails = FALSE
    Ssids = {s1, s2}
    FirstSsid = s1
    NoSsid = nossid
    NicFails = TRUE
INVARIANTS FlagTracksRadio NicJoinsReportedSsid
PROPERTIES OneRadioUser RequestsAnswered
