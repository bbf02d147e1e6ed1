CONSTANTS
    Updates = {t1, t2}
    Timers = {f1, f2}
    Albums = {g1, g2}
    Recipients = 2
    None = None

SYMMETRY TaskSymmetry
SPECIFICATION Spec
PROPERTY
    CancelButtonWorks
