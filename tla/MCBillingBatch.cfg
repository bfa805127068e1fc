CONSTANTS
    Subs = {"s1", "x1"}
    External = {"x1"}
    Events = {"e1", "e2"}
    Kind <- FailThenCancel
    SubOf <- WithExternal
    PaymentOf <- TwoPayments
    Payments = {"p1", "p2"}
    Unreadable = {"e1"}
    BatchLimit = 2
    Recon = Recon
    None = None
SPECIFICATION RetrySpec
INVARIANT ExternalUntouched
PROPERTY FailedIsRetried
CHECK_DEADLOCK FALSE
