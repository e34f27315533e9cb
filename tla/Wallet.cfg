SPECIFICATION FairSpec
CONSTANTS
    Users = {alice, bob}
    Products = {bike}
    TReqs = {t1, t2}
    AReqs = {a1}
    Amounts = {2}
    Deltas <- MCDeltas
    SignupBonus = 2
    MaxStatusChanges = 1
    None = None
INVARIANTS
    TypeOK
    FullInv
    ReconciledUnlessOverwritten
    NoDanglingProduct
    AuditHonest
PROPERTIES
    LockReleased
    Answered
    Implements
CHECK_DEADLOCK FALSE
