--------------------------- MODULE MCConsignment ---------------------------
(* Small instances of Consignment for TLC.                                 *)
EXTENDS Consignment, TLC

\* The pipeline without an administrator's overrides.
Pipeline == AllOps \ {"transition"}

\* The signature webhook, and only what has to come before it.
Delivered == {"create_draft", "submit", "approve", "completed"}
DeliveredAndPublished == Delivered \cup {"publish"}

\* The pipeline from the draft on, with an administrator who moves the record.
Overridden == Delivered \cup {"reject", "declined", "publish", "patch_listing", "transition"}

\* Rows are interchangeable, and so are the request handlers.
Symmetry == Permutations(Worker) \cup Permutations(Submission)
                \cup Permutations(Event) \cup Permutations(Request)
=============================================================================
