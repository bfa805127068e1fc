CONSTANTS
    Subs = {"s1"}
    External = {}
    Events = {"e1", "e2"}
    Kind <- FailThenPay
    SubOf <- AllOfS1
    PaymentOf <- TwoPayments
    Payments = {"p1", "p2"}
    Unreadable = {}
    BatchLimit = 1
    Recon = Recon
    None = None
SPECIFICATION Spec
INVARIANTS
    TypeOK
    AccessIsPaidFor
    DebtIsFindable
    ProcessedIsRecorded
PROPERTY ImplementsInbox
CHECK_DEADLOCK FALSE
