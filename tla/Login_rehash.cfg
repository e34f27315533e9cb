SPECIFICATION Spec
CONSTANTS
    Passwords = {right, other}
    Logins = {l1, l2}
    Changers = {c1}
    MaxFailures = 2
    Lockout = 2
    MaxTime = 4
    MaxWrong = 4
    None = None
SYMMETRY MCSymmetry
PROPERTY
    RehashKeepsPassword
