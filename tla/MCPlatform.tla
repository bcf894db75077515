------------------------------ MODULE MCPlatform ------------------------------
(***************************************************************************)
(* Integrations, Customers, Retention and Notices for TLC.  They share no  *)
(* variable: each behaviour is one of one of them.                         *)
(***************************************************************************)
EXTENDS Integrations, Customers, Retention, Notices, TLC

CONSTANTS x1, x2, y1, y2, z1, z2, bad, list

Loads == {{}, {"store", "test", "drop_key"}, {"poll", "refresh", "outage"}, {"poll", "store"}}
Probes == <<"database", "r2", "twilio">>
Errands == {{}, {"access", "submit", "delete", "walkin"}, {"submit", "delete", "export"}}
Chores == {{}, {"sweep"}}
Topics == {{}, {"watch", "unwatch", "deactivate", "edit"}, {"watch", "prefer"}, {"watch", "force"},
           {"assign", "deactivate", "edit"}, {"assign", "prefer"}, {"assign", "force"}}

Init ==
    /\ IntegrationsInit /\ CustomersInit /\ RetentionInit /\ NoticesInit
    /\ Cardinality({n \in 1 .. 4 : <<load, errand, chore, topic>>[n] # {}}) = 1

Next ==
    \/ IntegrationsNext /\ UNCHANGED <<customerVars, retentionVars, noticeVars>>
    \/ CustomersNext /\ UNCHANGED <<integrationVars, retentionVars, noticeVars>>
    \/ RetentionNext /\ UNCHANGED <<integrationVars, customerVars, noticeVars>>
    \/ NoticesNext /\ UNCHANGED <<integrationVars, customerVars, retentionVars>>

Spec == Init /\ [][Next]_<<integrationVars, customerVars, retentionVars, noticeVars>>

TypeOK == IntegrationsTypeOK /\ CustomersTypeOK /\ RetentionTypeOK /\ NoticesTypeOK

\* Components share model values, so that the group of permutations is small.
Symmetry == Permutations({x1, x2}) \cup Permutations({y1, y2}) \cup Permutations({z1, z2})
=============================================================================
