CONSTANTS
    x1 = x1
    x2 = x2
    y1 = y1
    y2 = y2
    z1 = z1
    z2 = z2
    bad = bad
    list = list
    Admin = {x1, x2}
    Pass = {y1, y2}
    Integration = {"twilio"}
    Parsed = {"twilio"}
    Secret = {z1, z2, bad, list}
    Good = {z1, z2}
    Malformed = {list}
    Order <- Probes
    Cooldown = 2
    MaxTime = 2
    Load <- Loads
    Visit = {x1, x2}
    User = {z1, z2}
    Customer = {c1, c2}
    Record = {y1, y2}
    Job = {j1}
    Errand <- Errands
    Sweeper = {x1, x2}
    Entry = {y1, y2}
    Back = 0
    Forward = 0
    MaxMonth = 3
    Chore <- Chores
    Person = {x1, x2}
    Status = {"new_request", "listed", "esigned_pending_publish"}
    Facing = {"listed"}
    Working = {"esigned_pending_publish"}
    Choice = {"sms", "slack"}
    Topic <- Topics
SPECIFICATION Spec
INVARIANTS TypeOK AlertsRight BadgeTruthful CascadeReaches ExportFaithful 
PROPERTIES NoticesReach
CHECK_DEADLOCK FALSE
SYMMETRY Symmetry
