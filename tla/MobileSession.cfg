SPECIFICATION Spec
CONSTANTS
    r1 = r1
    r2 = r2
    r3 = r3
    Req = {r1, r2, r3}
    KindsOf <- MCKindsOf
    User = {ana, ben}
    None = None
    MaxExpiries = 1
    MaxVisits = 2
INVARIANTS
    TypeOK
    WaitersHaveARefresh
    StoreAgrees
PROPERTIES
    OnlyLoginSignsIn
    WaitersAreServed
CHECK_DEADLOCK FALSE
