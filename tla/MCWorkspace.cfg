SPECIFICATION Spec
CONSTANTS
    Users = {u1, u2}
    Roles = {"OWNER", "ADMIN"}
    Founder = u1
    Invitations = {i1, i2}
    Requests = {r1, r2}
    Readers = {l1}
    None = None
SYMMETRY Symmetries
INVARIANTS TypeOK ListIsFresh
PROPERTIES LastOwnerLeaves CanceledKeepsOut OneOpenInvitation
CHECK_DEADLOCK FALSE
