CONSTANTS
    admin = admin
    ann = ann
    bob = bob
    k1 = k1
    k2 = k2
    k3 = k3
    Users = {ann}
    Admins = {}
    Keys = {k1, k2}
    LegacyKeys = {k1}
    XrayEndpoints = {x1}
    HysteriaEndpoints = {y1}
    Handlers = {h1}
    MaxFaults = 1
    MaxIps = 2
    IpCounts = {0, 3, 128}
    EmailLength <- MCEmailLength
    Attempts = {a1}
    Periodic = periodic
    None = None
    Inviter <- MCInviter
    Tree <- MCTree
    Owner <- MCOwner

SPECIFICATION FairSpecWithLimiter
INVARIANTS
    HysteriaOnlyCommitted
    WireUnderstood
PROPERTIES
    ActiveKeysServed
    LegacyClientsRetired
    HysteriaFollows
