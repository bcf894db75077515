---------------------------- MODULE MCAppraisal ----------------------------
(* Small instances of Appraisal for TLC.                                   *)
EXTENDS Appraisal, TLC

CONSTANTS c1, c2, c3, a1, a2, a3, k1, l1, g1, x1, x2, v1, v2

FromBundle == [cat |-> c1, rule |-> a1, comp |-> k1, slot |-> l1,
               slug |-> g1, label |-> x1, body |-> v1, weight |-> 20]

\* One file changes the rule of the bundle, one brings a part of each other sort.
Files == {[status |-> "active", assets |-> {Item("rule", x1, v2, TRUE)}, comps |-> {}, slots |-> {}],
          [status |-> "inactive", assets |-> {Item("prompt", x2, v1, FALSE)},
           comps |-> {[name |-> x1, weight |-> 80]},
           slots |-> {[label |-> x2, required |-> TRUE, active |-> TRUE]}]}

Asked(ops, admins, fields) == [ops |-> ops, admins |-> admins, fields |-> fields]

\* Categories and intakes; rules edited and imported, two at once; rules edited, and
\* added, under a submission; photos retaken; scores given while weights change.
Scenarios == {Asked({"update_category", "delete_category", "intake"}, 2, 0),
              Asked({"create_category", "update_category"}, 2, 0),
              Asked({"edit", "import"}, 2, 0),
              Asked({"import", "import_new"}, 2, 0),
              Asked({"update_category", "import", "import_new"}, 1, 0),
              Asked({"edit", "category", "draft", "submit"}, 1, 2),
              Asked({"add", "category", "draft", "submit"}, 1, 1),
              Asked({"update_slot", "category", "photo", "submit"}, 1, 2),
              Asked({"add_slot", "category", "photo", "submit"}, 1, 1),
              Asked({"update_component", "score", "submit"}, 1, 2),
              Asked({"add_component", "update_component", "score", "submit"}, 1, 1)}
Symmetry == Permutations(Admin) \cup Permutations(Field)
                \cup Permutations({c2, c3}) \cup Permutations({a2, a3})
=============================================================================
