\* Two users, one with two tabs, who keep their locks fresh; a manager overrides.
CONSTANTS
    u1 = u1
    u2 = u2
    t1 = t1
    t2 = t2
    t3 = t3
    User = {u1, u2}
    Tab = {t1, t2, t3}
    Owner <- TwoTabs
    Manager = {u2}
    Mortal = {}
    Ops <- AllOps
    LockId = {i1, i2, i3, i4}
    TTL = 3
    Delay = 1
    Margin = 1
SPECIFICATION Spec
INVARIANTS TypeOK 
PROPERTIES LiveLockKept EditKeepsOthers
CHECK_DEADLOCK FALSE
