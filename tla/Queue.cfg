\* Two workers that may fail, three jobs, batches of two.
CONSTANTS
    Worker = {w1, w2}
    k1 = k1
    k2 = k2
    k3 = k3
    Key = {k1, k2, k3}
    Via <- Channels
    MaxAttempts = 2
    BatchSize = 2
SPECIFICATION FairSpec
INVARIANTS TypeOK ClaimExclusive
PROPERTIES ImplementsDelivery EveryJobSettles
CHECK_DEADLOCK FALSE
