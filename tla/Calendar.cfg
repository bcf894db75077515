\* Two requests at once, two visits, with and without an address, four kinds of days.
CONSTANTS
    Handler = {h1, h2}
    Appraiser = {p1, p2}
    Equipment = {q1, q2}
    Event = {e1, e2}
    Time = {0, 1, 3}
    Duration = {1}
    Address = {x}
    Drive <- NoDrive
    Fallback = 1
    Day = 2
    Scenario <- Scenarios
SYMMETRY Symmetry
SPECIFICATION Spec
INVARIANTS TypeOK BookedApart VisitsMatchStatus 
CHECK_DEADLOCK FALSE
