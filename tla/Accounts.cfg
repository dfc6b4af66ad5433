SPECIFICATION Spec
CONSTANTS
    u1 = u1
    u2 = u2
    a1 = a1
    s1 = s1
    Users = {u1, u2}
    Accounts = {a1, a2}
    Sessions = {s1, s2}
    Slots = {k1, k2}
    FirstOwner <- MCFirstOwner
    FirstSession <- OneSession
    Uses <- MCUses
    MaxOps = 2
    SessionLimit = 1
    Nobody = Nobody
    None = None
SYMMETRY Alike
INVARIANTS
    TypeOK
    Confirmed
    LogoutForgets
    RegistryAgrees
    ServedByOwner
PROPERTY OwnerKept
CHECK_DEADLOCK FALSE
