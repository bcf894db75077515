------------------------------ MODULE SaleGate ------------------------------
(***************************************************************************)
(* What the consignment pipeline promises the owner of a machine: it is    *)
(* offered to the public only once its appraisal has been approved, the    *)
(* consignment agreement sent and signed, and a report written.  None of   *)
(* these facts is ever taken back.                                         *)
(***************************************************************************)

VARIABLES
    approved,   \* a manager has approved an appraisal
    sent,       \* the agreement has been sent for signature
    signed,     \* the customer has signed it
    reported,   \* a report of an approved appraisal exists
    published   \* the machine has been offered to the public

gate == <<approved, sent, signed, reported, published>>

Init ==
    /\ approved = FALSE
    /\ sent = FALSE
    /\ signed = FALSE
    /\ reported = FALSE
    /\ published = FALSE

\* Approving sends the agreement, when there is somebody to send it to.
Approve ==
    /\ approved' = TRUE
    /\ sent' \in {sent, TRUE}
    /\ UNCHANGED <<signed, reported, published>>

Sign ==
    /\ sent
    /\ signed' = TRUE
    /\ UNCHANGED <<approved, sent, reported, published>>

Report ==
    /\ approved
    /\ reported' = TRUE
    /\ UNCHANGED <<approved, sent, signed, published>>

Publish ==
    /\ signed
    /\ reported
    /\ published' = TRUE
    /\ UNCHANGED <<approved, sent, signed, reported>>

Next == Approve \/ Sign \/ Report \/ Publish

Spec == Init /\ [][Next]_gate
=============================================================================
