SPECIFICATION Spec
CONSTANTS
    Users = {alice, bob}
    Products = {bike}
    TReqs = {t1, t2}
    AReqs = {a1}
    Amounts = {2}
    Deltas <- MCDeltas
    SignupBonus = 2
    MaxStatusChanges = 1
    None = None
INVARIANT
    EveryTransferAudited
CHECK_DEADLOCK FALSE
