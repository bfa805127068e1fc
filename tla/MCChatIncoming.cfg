SPECIFICATION Spec
CONSTANTS
    j1 = j1
    j2 = j2
    j3 = j3
    j4 = j4
    Convs = {c1, c2}
    Agents = {a1}
    HasAI = {}
    CloseBatch = 1
    None = None
    Jobs = {j1, j2, j3, j4}
    Messages = {"m1", "fim"}
    Msg <- TwiceEach
    Commands = {"fim"}
    Workers = 2
    Runs = 2
SYMMETRY Interchangeable
INVARIANTS TypeOK OpenAtMostWorkers RetryStoresOnce EndedIsDone OneConfirmation
CHECK_DEADLOCK FALSE
