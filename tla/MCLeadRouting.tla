--------------------------- MODULE MCLeadRouting ---------------------------
(* Small instances of LeadRouting for TLC.                                 *)
EXTENDS LeadRouting, TLC

CONSTANTS a, b, near, far, r1, r2, r3

\* One customer in the state and the metro area of the rules, and one whom only
\* an ad hoc rule or the rotation reaches: his address cannot be geocoded.
DomainOf == near :> "acme" @@ far :> "other"
StateOf  == near :> "GA"   @@ far :> "OR"
ZipOf    == near :> 30305  @@ far :> 97201
PlaceOf  == near :> {10}   @@ far :> {}

AdHoc(type, value) == [condition_type |-> type, value |-> value]
Geo(states, zips, center, radius) ==
    [state_list |-> states, zip_list |-> zips, center |-> center, radius |-> radius]
Rotation(reps) == [rep_ids |-> reps]

Entered == [ad_hoc |-> {AdHoc("email_domain", "other")},
            geographic |-> {Geo({}, {}, 12, 5), Geo({"GA"}, {<<30301, 30399>>}, 0, 0)},
            round_robin |-> {Rotation(<<a, b>>), Rotation(<<b>>)}]

Row(type, priority, conditions, rep) ==
    [type |-> type, priority |-> priority, conditions |-> conditions, rep |-> rep,
     index |-> 0, active |-> TRUE, deleted |-> FALSE]

\* Rules that are edited while they route; rules created and reordered; reps who leave.
Edited    == {"intake", "conditions", "active", "delete"}
Arranged  == {"create", "delete", "reorder", "priority"}
Abandoned == {"intake", "deactivate", "assign", "default"}
Named     == {"intake", "rep"}
Scenarios == {Edited, Arranged, Abandoned, Named}

\* A rotation and a rule for the place of `near`, or two such rules to arrange.
Rotating == r1 :> Row("round_robin", 0, Rotation(<<a, b>>), "none")
         @@ r2 :> Row("geographic", 0, Geo({}, {}, 12, 5), a)
ByPlace  == r2 :> Row("geographic", 0, Geo({}, {}, 12, 5), a)
         @@ r3 :> Row("geographic", 1, Geo({"GA"}, {<<30301, 30399>>}, 0, 0), b)
Seeded   == Edited :> Rotating @@ Arranged :> ByPlace @@ Abandoned :> Rotating @@ Named :> Rotating

Symmetry == Permutations(Handler) \cup Permutations(Record)
=============================================================================
