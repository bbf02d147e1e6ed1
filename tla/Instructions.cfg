CONSTANTS
    Updates = {u1, u2}
    Timers = {f1}
    Albums = {g1}
    Ids = {i1, i2}
    Titles = {n1}
    Texts = {a}
    Files = {p1, p2, p3}
    None = None
    MaxOpen = 2
    MaxWaiting = 1

CONSTRAINTS FewTasks FewPhotos
SYMMETRY MCSymmetry
SPECIFICATION Spec
INVARIANTS
    TypeOK
    PhotosOfOneSubmission
    OrdersDistinct
    DialogueHasSubject
PROPERTIES
    KeepsCatalogue
    EmptiedByOvertakenText
