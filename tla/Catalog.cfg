\* Two administrators and two appraisers at once.
CONSTANTS
    c1 = c1
    c2 = c2
    c3 = c3
    a1 = a1
    a2 = a2
    a3 = a3
    k1 = k1
    l1 = l1
    g1 = g1
    x1 = x1
    x2 = x2
    v1 = v1
    v2 = v2
    Admin = {h1, h2}
    Field = {f1, f2}
    Category = {c1, c2, c3}
    Asset = {a1, a2, a3}
    Component = {k1, k2}
    PhotoSlot = {l1, l2}
    Record = {r1}
    Slug = {g1, g2}
    Label = {x1, x2}
    Value = {v1, v2}
    Weight = {20, 80}
    Seed <- FromBundle
    File <- Files
    Submission = {s1}
    Raw = {150, 499}
    Photo = {p1, p2, p3}
    Scenario <- Scenarios
SYMMETRY Symmetry
SPECIFICATION Spec
INVARIANTS TypeOK  DeletedUnused  PhotosKept
CHECK_DEADLOCK FALSE
