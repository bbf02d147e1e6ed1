CONSTANTS
    admin = admin
    ann = ann
    bob = bob
    k1 = k1
    k2 = k2
    k3 = k3
    Users = {admin, ann, bob}
    Admins = {admin}
    Keys = {k1, k3}
    LegacyKeys = {k1}
    XrayEndpoints = {x1}
    HysteriaEndpoints = {y1}
    Handlers = {h1, h2}
    MaxFaults = 1
    Attempts = {a1, a2}
    Periodic = periodic
    None = None
    Inviter <- MCInviter
    Tree <- MCTree
    Owner <- MCOwner

CONSTRAINT FewTasks
SYMMETRY TaskSymmetry
SPECIFICATION Spec
INVARIANTS
    TypeOK
    FriendRevokeNotRepublished
    DeletedUserHasNoKey
    NoFaultServed
    NobodyWaitsInVain
PROPERTIES
    KeepsLedger
