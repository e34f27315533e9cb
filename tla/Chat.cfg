SPECIFICATION Spec
CONSTANTS
    ann = ann
    bob = bob
    cyd = cyd
    tabA = tabA
    tabB = tabB
    All = All
    None = None
    Users <- MCUsers
    Clients <- MCClients
    Owner <- MCOwner
    View <- MCView
    Requests = {m1, m2}
    MaxEvents = 1
    Window = 0
    MaxTime = 1
    MaxSuspensions = 1
    HistoryLimit = 1
SYMMETRY MCSymmetry
INVARIANTS
    TypeOK
    RateKept
    OrderKept
    ScreenComplete
PROPERTIES
    RefusalJustified
    SuspendedSilenced
    Implements
