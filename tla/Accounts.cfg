\* Two requests at once, every operation, two cut-offs.
CONSTANTS
    Handler = {h1, h2}
    Session = {s1, s2}
    Code = {c1}
    Scenario <- Scenarios
    MaxCuts = 2
SPECIFICATION FairSpec
INVARIANTS TypeOK CutOffHolds
PROPERTIES ErasureIsFinal ErasureHappens
CHECK_DEADLOCK FALSE
