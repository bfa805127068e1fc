CONSTANTS
    Convs <- OneConv
    Agents = {Ana}
    HasAI <- OneConv
    CloseBatch = 1
    None = None
    Widget <- NoConv
    Jobs = {"j1", "j2"}
    ConvOf <- SameConv
    MaxReplies = 2
    MaxAttempts = 3
SPECIFICATION Spec
INVARIANTS TypeOK BotWithinLimit
PROPERTIES ImplementsConversation ForgottenMessages
CHECK_DEADLOCK FALSE
