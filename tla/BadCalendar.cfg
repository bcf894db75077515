\* The double booking the locking is written against.
CONSTANTS
    Handler = {h1, h2}
    Appraiser = {p1, p2}
    Equipment = {q1, q2}
    Event = {e1, e2}
    Time = {0, 1, 3}
    Duration = {1}
    Address = {x}
    Drive <- NoDrive
    Fallback = 1
    Day = 2
    Scenario <- OnlyBookings
SYMMETRY Symmetry
SPECIFICATION Spec
INVARIANT NoDoubleBooking
CHECK_DEADLOCK FALSE
