CONSTANTS
    admin = admin
    ann = ann
    bob = bob
    People = {admin, ann, bob}
    Admin = admin
    Codes = {c1, c2}
    Handlers = {h1, h2}
    None = None
    MaxLen = 9
    NameWidth <- MCNameWidth

SYMMETRY MCSymmetry
SPECIFICATION Spec
INVARIANTS
    TypeOK
    InviterForest
    L1ByAdmin
    CodeClosesAfterUse
    TreeListsEveryone
    ChunksFit
PROPERTIES
    DeletionIsWhole
    KeepsRegistry
