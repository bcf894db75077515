\* The first user's tabs may vanish; the second keeps asking.
CONSTANTS
    u1 = u1
    u2 = u2
    t1 = t1
    t2 = t2
    t3 = t3
    User = {u1, u2}
    Tab = {t1, t2, t3}
    Owner <- TwoTabs
    Manager = {}
    Mortal = {t1, t3}
    Ops <- Waiting
    LockId = {i1, i2, i3, i4}
    TTL = 3
    Delay = 1
    Margin = 1
SPECIFICATION FairSpec
PROPERTIES AbandonedLockFreed
CHECK_DEADLOCK FALSE
