SPECIFICATION Spec
CONSTANTS
    Products = {p1, p2}
    Files = {f1, f2, f3}
    Threads = {t1, t2}
    None = None
SYMMETRY MCSymmetry
INVARIANTS
    TypeOK
    PicturesPresent
    NoOrphans
    NoSharedFile
CHECK_DEADLOCK FALSE
