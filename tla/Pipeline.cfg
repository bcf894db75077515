\* Two request handlers on one record: every operation but the admin override.
CONSTANTS
    Worker = {w1, w2}
    Submission = {s1, s2}
    Event = {e1}
    Request = {r1}
    Ops <- Pipeline
    AdminTargets = {}
    HasAccount = TRUE
    ProviderFails = FALSE
SYMMETRY Symmetry
SPECIFICATION Spec
INVARIANTS TypeOK PublishedIsSigned EsignedIsCompleted
PROPERTIES DecisionFinal SignatureKept
CHECK_DEADLOCK FALSE
