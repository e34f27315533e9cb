SPECIFICATION Spec
CONSTANTS
    Names = {ann, ben, cat}
    Workers = {w1, w2}
    SignUps = {s1}
    None = None
SYMMETRY MCSymmetry
INVARIANTS
    TypeOK
PROPERTIES
    ActiveAdminSurvives
    OnlyDemotionRemovesAdmins
