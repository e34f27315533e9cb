SPECIFICATION Spec
CONSTANTS
    adm = adm
    bob = bob
    carl = carl
    bike = bike
    Users = {adm, bob, carl}
    InitialAdmins = {adm}
    Products = {bike}
    Seller <- MCSeller
    ReportReqs = {r1, r2}
    SellerReqs = {s1}
    ProductThreshold = 2
    UserThreshold = 2
    DailyLimit = 1
    MaxInterventions = 1
    None = None
PROPERTY
    OnlyAdminsUnblock
CHECK_DEADLOCK FALSE
