CONSTANTS
    admin = admin
    ann = ann
    private = private
    group = group
    k0 = k0
    Users = {admin, ann}
    Admins = {admin}
    Keys = {k0, k1, k2, k3}
    MaxActive = 2
    Updates = {t1, t2}
    None = None
    Chats <- MCChats
    Migrated <- MCMigrated

SPECIFICATION Spec
INVARIANT
    OneWhitelistKey
