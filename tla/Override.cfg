\* The same, with an administrator who moves the record by hand.
CONSTANTS
    Worker = {w1, w2}
    Submission = {s1, s2}
    Event = {}
    Request = {}
    Ops <- Overridden
    AdminTargets = {"new_request", "esigned_pending_publish"}
    HasAccount = TRUE
    ProviderFails = TRUE
SYMMETRY Symmetry
SPECIFICATION Spec
PROPERTIES ImplementsGate
CHECK_DEADLOCK FALSE
