SPECIFICATION Spec
CONSTANTS
    Users = {u1, u2}
    Roles = {"OWNER", "ADMIN"}
    Founder = u1
    Invitations = {i1}
    Requests = {r1, r2}
    Readers = {}
    None = None
INVARIANT AlwaysOwned
CHECK_DEADLOCK FALSE
