CONSTANTS
    Convs <- TwoConvs
    Agents = {Ana, Bia}
    HasAI <- FirstHasAI
    CloseBatch = 1
    None = None
SPECIFICATION FairConvSpec
INVARIANTS
    AgentMatchesStatus
    ClosedOnce
PROPERTIES
    ClosedIsFinal
    SilentIsClosed
CHECK_DEADLOCK FALSE
