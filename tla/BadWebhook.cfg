\* A redelivered completed webhook overlaps a publish.
CONSTANTS
    Worker = {w1, w2}
    Submission = {s1}
    Event = {}
    Request = {}
    Ops <- DeliveredAndPublished
    AdminTargets = {}
    HasAccount = TRUE
    ProviderFails = FALSE
SPECIFICATION Spec
INVARIANTS WebhookIdempotent
CHECK_DEADLOCK FALSE
