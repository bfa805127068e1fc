SPECIFICATION Spec
CONSTANTS
    Requests = {r1, r2}
    Promotions = {p1}
    Initial = "CAPTURE"
    AfterQuote = "PAYMENT"
    Extras = {"BRANCH"}
PROPERTY StagesInOrder
SYMMETRY RequestSymmetry
INVARIANTS TypeOK RowIsConsistent LeavesWithItems ClientDataNoticed
CHECK_DEADLOCK FALSE
