SPECIFICATION Spec
CONSTANTS
    Browsers = {b1}
    Requests = {r1, r2}
    Idle = 1
    ReauthWindow = 0
    Lifetime = 2
    MaxTime = 3
    LastTyping = 0
    MaxChanges = 1
    None = None
    Keep = Keep
SYMMETRY MCSymmetry
INVARIANTS
    TypeOK
    LogoutHolds
    SocketBounded
PROPERTIES
    PasswordChangeRevokes
    IdleTimeKept
    ReauthEarned
