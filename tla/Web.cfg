SPECIFICATION Spec
CONSTANTS
    Tasks <- MCTasks
    Calls = 2
    Timeout = 2
    MaxTime = 3
    MaxCancels = 1
    Clients = {c1, c2}
    MaxVersion = 3
    MaxActions = 2
    MaxFetches = 2
    Conns = {p1, p2, p3, p4}
    NULL = NULL
    Backlog = 3
    MinRoom = 2
    MaxRoom = 3
    Retries = 2
    MaxIn = 4
    MaxOut = 2
PROPERTIES AnswerLimitOrCancel AnswersAreWhole WaitingAreServed
           StreamIsDelivered PageFollowsBoard
