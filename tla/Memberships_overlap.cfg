SPECIFICATION Spec
CONSTANTS
    a = a
    b = b
    c = c
    People = {a, b, c}
    Invitations = {i1}
    Seed <- TwoOwners
    None = None
    Slots = {s1, s2}
    MaxRequests = 4
SYMMETRY Alike
INVARIANTS
    AnOwnerRemains
    PrivilegeFromOwner
    AcceptedOnce
CHECK_DEADLOCK FALSE
