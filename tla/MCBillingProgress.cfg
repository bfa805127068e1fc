CONSTANTS
    Subs = {"s1"}
    External = {}
    Events = {"e1"}
    Kind <- OneFailure
    SubOf <- OneOfS1
    PaymentOf <- FirstPayment
    Payments = {"p1"}
    Unreadable = {}
    BatchLimit = 1
    Recon = Recon
    None = None
SPECIFICATION FairSpec
PROPERTY DueIsExpired
CHECK_DEADLOCK FALSE
