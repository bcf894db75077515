\* Two requests at once, three rules to begin with, two records.
CONSTANTS
    a = a
    b = b
    near = near
    far = far
    r1 = r1
    r2 = r2
    r3 = r3
    Handler = {h1, h2}
    Rep = {a, b}
    Customer = {near, far}
    Domain <- DomainOf
    State <- StateOf
    Zip <- ZipOf
    Place <- PlaceOf
    Record = {x1, x2}
    Rule = {r1, r2, r3}
    Conditions <- Entered
    Priority = {0, 1}
    Assignee = {a, "none"}
    Seed <- Seeded
    Scenario <- Scenarios
    MaxTurn = 2
SYMMETRY Symmetry
SPECIFICATION Spec
INVARIANTS TypeOK TurnsExact TestPredicts ReorderFits HandedToActive
CHECK_DEADLOCK FALSE
