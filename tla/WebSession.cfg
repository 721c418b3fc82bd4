SPECIFICATION Spec
CONSTANTS
    t1 = t1
    t2 = t2
    r1 = r1
    r2 = r2
    r3 = r3
    ana = ana
    ben = ben
    None = None
    Tab = {t1, t2}
    Req = {r1, r2, r3}
    User = {ana, ben}
    Admins = {ana}
    TabOf <- MCTabOf
    MaxExpiries = 1
    MaxVisits = 2
INVARIANTS
    TypeOK
    QueueIsServed
    TokensAreTheUsers
PROPERTIES
    LossHasACause
    WaitersAreServed
CHECK_DEADLOCK FALSE
