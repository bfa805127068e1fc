CONSTANTS
    Proposals = {"p1"}
    Terms = {t1, t2}
    Free = {t2}
    Policies = {"k1", "k2"}
    ProposalOf <- SameProposal
    Ids = {"c1", "c2", "c3"}
    Requests = {r1, r2}
    None = None
SPECIFICATION Spec
INVARIANTS
    TypeOK
    DatesFitStatus
    OneCommission
    ReversedIsBalanced
PROPERTIES
    Lifecycle
CHECK_DEADLOCK FALSE
