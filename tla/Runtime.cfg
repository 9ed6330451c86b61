SPECIFICATION Spec
CONSTANTS
    Tasks = {main, t1, t2}
    NoTask = NoTask
    Main = main
    MaxTime = 1
    MaxCancels = 2
    Depth = 2
    Nodes = {n1, n2}
    NoNode = NoNode
    MaxCalls = 4
    MaxNodes = 3
    MaxLocks = 3
    NSlots = 2
    MaxIrqs = 2
    MaxSuspends = 2
    MaxNesting = 3
    MaxSections = 4
    MaxThreads = 3
INVARIANTS TasksAreConsistent ScheduleIsKept
PROPERTIES ResultsReachWaiters CallsAreMade SlotsAreDispatched
           SectionsAreAtomic
