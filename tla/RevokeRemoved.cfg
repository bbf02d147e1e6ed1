CONSTANTS
    admin = admin
    ann = ann
    bob = bob
    k1 = k1
    k2 = k2
    k3 = k3
    Users = {admin, ann}
    Admins = {admin}
    Keys = {k1}
    LegacyKeys = {}
    XrayEndpoints = {x1}
    HysteriaEndpoints = {y1}
    Handlers = {h1}
    MaxFaults = 0
    Attempts = {a1, a2}
    Periodic = periodic
    None = None
    Inviter <- MCInviter
    Tree <- MCTree
    Owner <- MCOwner

SPECIFICATION FairSpec
PROPERTY
    RevokedClientsRemoved
