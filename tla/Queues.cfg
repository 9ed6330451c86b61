SPECIFICATION Spec
CONSTANTS
    Nodes = {n1, n2, n3, n4}
    NULL = NULL
    Period = 8
    MaxAhead = 2
    MaxLate = 1
    StartTime = 6
    MaxTime = 8
    Tasks = {t1, t2, t3}
    Streams = {s1, s2}
    NoTask = NoTask
    Writers = {w1, w2}
    MaxBytes = 4
    Cancels = 2
SYMMETRY Symmetry
INVARIANTS WaitersAreWatched SentOnceInOrder
PROPERTIES HeapImplementsQueue
