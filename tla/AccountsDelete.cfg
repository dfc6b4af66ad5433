SPECIFICATION Spec
CONSTANTS
    u1 = u1
    u2 = u2
    a1 = a1
    s1 = s1
    Users = {u1, u2}
    Accounts = {a1}
    Sessions = {s1}
    Slots = {k1, k2}
    FirstOwner <- MCFirstOwner
    FirstSession <- NoSession
    Uses <- MCUses
    MaxOps = 3
    SessionLimit = 1
    Nobody = Nobody
    None = None
SYMMETRY Alike
PROPERTY DeletesOwn
CHECK_DEADLOCK FALSE
