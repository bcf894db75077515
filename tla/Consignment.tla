---------------------------- MODULE Consignment ----------------------------
(***************************************************************************)
(* The life of one equipment record, from intake to a public listing.      *)
(*                                                                         *)
(* The state is the committed content of the rows that belong to the       *)
(* record: its own status, its status_events trail, the calendar events,   *)
(* appraisal submissions, consignment contract, appraisal reports, change  *)
(* requests and public listing.  Records do not share any of these rows,   *)
(* so one record stands for all of them.                                   *)
(*                                                                         *)
(* Every HTTP request runs in one READ COMMITTED transaction (get_db): it  *)
(* loads its rows, decides, writes, and the writes become visible when it  *)
(* commits.  Only row locks and unique indexes order two requests, so a    *)
(* request is a Begin step, which reads and applies the guards, and a      *)
(* Commit step, which writes what was decided from the values read,        *)
(* whatever has been committed in between.  Handlers that flush a row      *)
(* before they read the record (cancel_event and the two webhooks) have a  *)
(* Lock step between the two: the flush waits for the row lock, and the    *)
(* record is read only then.  A request whose guards fail is no step, or   *)
(* a Rollback if it had begun.                                             *)
(***************************************************************************)
EXTENDS Naturals

CONSTANTS
    Worker,          \* concurrent request handlers of the API process
    Submission,      \* appraisal submissions the appraisers may create
    Event,           \* calendar events the sales team may create
    Request,         \* change requests the customer may submit
    Ops,             \* the requests this instance issues
    AdminTargets,    \* the statuses its administrators set by hand
    HasAccount,      \* the customer has a user account (walk-ins do not)
    ProviderFails    \* create_envelope may raise

AllOps == {"create_event", "cancel_event", "create_draft", "submit", "approve",
           "reject", "completed", "declined", "publish", "patch_listing",
           "ask", "resolve", "refuse", "transition"}

ASSUME OpsAssumption == Ops \subseteq AllOps
ASSUME FlagAssumption == HasAccount \in BOOLEAN /\ ProviderFails \in BOOLEAN

-----------------------------------------------------------------------------
(* equipment_status_machine: the statuses and the rules attached to them.  *)

Status == {"new_request", "appraiser_assigned", "appraisal_scheduled",
           "appraisal_complete", "offer_ready", "approved_pending_esign",
           "esigned_pending_publish", "listed", "sold", "declined", "withdrawn"}

ASSUME TargetsAssumption == AdminTargets \subseteq Status

ForbiddenTransitions ==
    {<<"sold", "new_request">>, <<"declined", "new_request">>,
     <<"sold", "listed">>, <<"sold", "appraisal_scheduled">>}

NotifiesCustomer == {"appraisal_scheduled", "appraisal_complete", "offer_ready",
                     "listed", "sold", "declined"}

\* The two refusals (409) of record_transition.
MayTransition(from, to) == from # to /\ <<from, to>> \notin ForbiddenTransitions

-----------------------------------------------------------------------------
VARIABLES
    status,      \* equipment_records.status
    trail,       \* to_status of the latest status_events row
    signings,    \* status_events rows the completed webhook wrote, up to 2
    mail,        \* statuses whose status_update:<record>:<status> job exists
    event,       \* calendar_events
    sub,         \* appraisal_submissions.status
    contract,    \* the consignment_contracts row
    pdf,         \* background report tasks not yet run
    report,      \* submissions with an appraisal_reports row
    request,     \* change_requests
    listing,     \* public_listings.status
    tx           \* the request each worker is running

record  == <<status, trail, mail>>
consign == <<signings, contract>>
reports == <<pdf, report>>
vars == <<status, trail, signings, mail, event, sub, contract, pdf, report,
          request, listing, tx>>

SubStatus     == {"absent", "draft", "submitted", "approved", "rejected"}
EventStatus   == {"absent", "booked", "cancelled"}
RequestStatus == {"absent", "pending", "resolved", "rejected"}
ListingStatus == {"active", "sold", "withdrawn"}

ContractRow == [status : {"none", "sent", "completed", "declined"}, signed : BOOLEAN]
ChangeRow   == [status : RequestStatus, withdraw : BOOLEAN]

\* A request in flight: how far it is, the row it works on besides the record,
\* the record status it will write (Stay: none) and whether it mails the customer.
Stay == "stay"
TxRow == [at : {"idle", "loaded", "ready"}, op : AllOps \cup {"none"},
          row : Submission \cup Event \cup Request \cup {"none", "insert", "update"},
          to : Status \cup {Stay}, mail : BOOLEAN]

Loaded(op, row) ==
    [at |-> "loaded", op |-> op, row |-> row, to |-> Stay, mail |-> FALSE]
Ready(op, row, to, notify) ==
    [at |-> "ready", op |-> op, row |-> row, to |-> to, mail |-> notify]
Idle == [at |-> "idle", op |-> "none", row |-> "none", to |-> Stay, mail |-> FALSE]

\* The rows hold values their columns allow.
TypeOK ==
    /\ status \in Status
    /\ trail \in Status
    /\ signings \in 0..2
    /\ mail \subseteq Status
    /\ event \in [Event -> EventStatus]
    /\ sub \in [Submission -> SubStatus]
    /\ contract \in ContractRow
    /\ pdf \subseteq Submission
    /\ report \subseteq Submission
    /\ request \in [Request -> ChangeRow]
    /\ listing \in ListingStatus \cup {"absent"}
    /\ tx \in [Worker -> TxRow]

\* submit_intake: a new request, with no status_events row yet.
Init ==
    /\ status = "new_request"
    /\ trail = "new_request"
    /\ signings = 0
    /\ mail = {}
    /\ event = [e \in Event |-> "absent"]
    /\ sub = [s \in Submission |-> "absent"]
    /\ contract = [status |-> "none", signed |-> FALSE]
    /\ pdf = {}
    /\ report = {}
    /\ request = [r \in Request |-> [status |-> "absent", withdraw |-> FALSE]]
    /\ listing = "absent"
    /\ tx = [w \in Worker |-> Idle]

-----------------------------------------------------------------------------
(* Transactions.                                                           *)

\* Reading and deciding changes no row.
Begin(w, t) ==
    /\ tx[w] = Idle
    /\ t.op \in Ops
    /\ tx' = [tx EXCEPT ![w] = t]
    /\ UNCHANGED <<record, consign, event, sub, reports, request, listing>>

Proceed(w, t) ==
    /\ tx' = [tx EXCEPT ![w] = t]
    /\ UNCHANGED <<record, consign, event, sub, reports, request, listing>>

Committing(w, op) ==
    /\ tx[w].at = "ready"
    /\ tx[w].op = op
    /\ tx' = [tx EXCEPT ![w] = Idle]

\* Mutant: the webhook's "already there" check is gone and Stay is written.
RecordTransitionAlways(t) ==
    /\ status' = t.to
    /\ trail' = t.to
    /\ mail' = IF t.mail THEN mail \cup {t.to} ELSE mail

\* What record_transition writes: the event row, the status and the customer's
\* mail, whose idempotency key swallows a second one for the same status.
RecordTransition(t) ==
    IF t.to = Stay
    THEN UNCHANGED record
    ELSE /\ status' = t.to
         /\ trail' = t.to
         /\ mail' = IF t.mail THEN mail \cup {t.to} ELSE mail

\* send_status_update, where the caller passes the customer to record_transition.
CustomerMail(to) == HasAccount /\ to \in NotifiesCustomer

\* A refused guard, an integrity error or a lost process: get_db rolls back.
Rollback(w) ==
    /\ tx[w] # Idle
    /\ Proceed(w, Idle)

-----------------------------------------------------------------------------
(* calendar_service: create_event and cancel_event.                        *)

BeginCreateEvent(w, e) ==
    /\ status = "new_request"
    /\ event[e] = "absent"
    /\ \A v \in Worker : tx[v].row # e
    /\ Begin(w, Ready("create_event", e, "appraisal_scheduled",
                      CustomerMail("appraisal_scheduled")))

CommitCreateEvent(w) ==
    /\ Committing(w, "create_event")
    /\ event' = [event EXCEPT ![tx[w].row] = "booked"]
    /\ RecordTransition(tx[w])
    /\ UNCHANGED <<consign, sub, reports, request, listing>>

LoadCancelEvent(w, e) ==
    /\ event[e] = "booked"
    /\ Begin(w, Loaded("cancel_event", e))

\* The flush of cancelled_at waits for the event's row; the record is read next.
LockCancelEvent(w) ==
    /\ tx[w].at = "loaded"
    /\ tx[w].op = "cancel_event"
    /\ \A v \in Worker : ~(tx[v].at = "ready" /\ tx[v].op = "cancel_event"
                           /\ tx[v].row = tx[w].row)
    /\ Proceed(w, Ready("cancel_event", tx[w].row,
                        IF status = "appraisal_scheduled" THEN "new_request" ELSE Stay,
                        FALSE))

\* The status is written directly: no status_events row, no status mail.
CommitCancelEvent(w) ==
    /\ Committing(w, "cancel_event")
    /\ event' = [event EXCEPT ![tx[w].row] = "cancelled"]
    /\ status' = IF tx[w].to = Stay THEN status ELSE tx[w].to
    /\ UNCHANGED <<trail, mail, consign, sub, reports, request, listing>>

-----------------------------------------------------------------------------
(* appraisal_submission_service: create_draft and submit.                  *)

NoDraft == \A s \in Submission : sub[s] # "draft"

BeginCreateDraft(w, s) ==
    /\ NoDraft
    /\ sub[s] = "absent"
    /\ \A v \in Worker : tx[v].row # s
    /\ Begin(w, Ready("create_draft", s, Stay, FALSE))

\* The partial unique index admits one draft per record.
CommitCreateDraft(w) ==
    /\ Committing(w, "create_draft")
    /\ NoDraft
    /\ sub' = [sub EXCEPT ![tx[w].row] = "draft"]
    /\ UNCHANGED <<record, consign, event, reports, request, listing>>

\* Mutant: the submission is read without FOR UPDATE.
NoRowLock(s) == TRUE

\* SELECT ... FOR UPDATE on the submission, held until the request ends.
LockFree(s) ==
    \A v \in Worker : tx[v].op \in {"submit", "approve", "reject"} => tx[v].row # s

BeginSubmit(w, s) ==
    /\ LockFree(s)
    /\ sub[s] = "draft"
    /\ MayTransition(status, "appraisal_complete")
    /\ Begin(w, Ready("submit", s, "appraisal_complete", CustomerMail("appraisal_complete")))

CommitSubmit(w) ==
    /\ Committing(w, "submit")
    /\ sub' = [sub EXCEPT ![tx[w].row] = "submitted"]
    /\ RecordTransition(tx[w])
    /\ UNCHANGED <<consign, event, reports, request, listing>>

-----------------------------------------------------------------------------
(* approval_service: approve and reject, and esign_service.                *)

BeginApprove(w, s) ==
    /\ LockFree(s)
    /\ sub[s] = "submitted"
    /\ MayTransition(status, "approved_pending_esign")
    /\ Begin(w, Ready("approve", s, "approved_pending_esign", FALSE))

\* Mutant: the latest approved submission is taken instead of the only one.
MaySendAny(approved) ==
    contract.status \in {"none", "declined"} /\ approved # {} /\ HasAccount

\* dispatch_contract, given the approved submissions: scalar_one_or_none raises
\* unless there is exactly one, a walk-in has nobody to send to, and approve
\* swallows what the provider raises.  It runs after the flush of the record, so
\* the record's row lock orders it against every other approval.
MaySend(approved) ==
    /\ contract.status \in {"none", "declined"}
    /\ \E s \in approved : approved = {s}
    /\ HasAccount

DispatchContract(approved) ==
    \/ /\ MaySend(approved)
       /\ contract' = [status |-> "sent", signed |-> FALSE]
    \/ /\ ~MaySend(approved) \/ ProviderFails
       /\ UNCHANGED contract

ApprovedOf(subs) == {s \in Submission : subs[s] = "approved"}

\* approve_submission also queues the background report of the submission.
CommitApprove(w) ==
    /\ Committing(w, "approve")
    /\ sub' = [sub EXCEPT ![tx[w].row] = "approved"]
    /\ RecordTransition(tx[w])
    /\ DispatchContract(ApprovedOf(sub'))
    /\ pdf' = pdf \cup {tx[w].row}
    /\ UNCHANGED <<signings, event, report, request, listing>>

\* Neither approve nor reject passes the customer to record_transition.
BeginReject(w, s, to) ==
    /\ LockFree(s)
    /\ sub[s] = "submitted"
    /\ MayTransition(status, to)
    /\ Begin(w, Ready("reject", s, to, FALSE))

CommitReject(w) ==
    /\ Committing(w, "reject")
    /\ sub' = [sub EXCEPT ![tx[w].row] = "rejected"]
    /\ RecordTransition(tx[w])
    /\ UNCHANGED <<consign, event, reports, request, listing>>

\* pdf_generation_worker, best effort: a report, or an audit row and no retry.
RunReport(s) ==
    /\ s \in pdf
    /\ pdf' = pdf \ {s}
    /\ report' \in {report, report \cup {s}}
    /\ UNCHANGED <<record, consign, event, sub, request, listing, tx>>

-----------------------------------------------------------------------------
(* routers/esign: the provider's webhooks, possibly delivered twice.       *)

LoadCompleted(w) ==
    /\ contract.status \notin {"none", "completed"}
    /\ Begin(w, Loaded("completed", "none"))

LoadDeclined(w) ==
    /\ contract.status \notin {"none", "declined"}
    /\ Begin(w, Loaded("declined", "none"))

\* Mutant: the record is read before the flush that waits for the row lock.
ContractUnlocked == TRUE

\* The flush of the contract waits for its row lock; the record is read next.
ContractFree ==
    \A v \in Worker : tx[v].at = "ready" => tx[v].op \notin {"completed", "declined"}

LockCompleted(w) ==
    /\ tx[w].at = "loaded"
    /\ tx[w].op = "completed"
    /\ ContractFree
    /\ MayTransition(status, "esigned_pending_publish")
    /\ Proceed(w, Ready("completed", "none", "esigned_pending_publish", FALSE))

LockDeclined(w) ==
    /\ tx[w].at = "loaded"
    /\ tx[w].op = "declined"
    /\ ContractFree
    /\ Proceed(w, Ready("declined", "none",
                        IF status = "approved_pending_esign" THEN Stay
                        ELSE "approved_pending_esign", FALSE))

CommitCompleted(w) ==
    /\ Committing(w, "completed")
    /\ contract' = [status |-> "completed", signed |-> TRUE]
    /\ signings' = IF signings = 2 THEN 2 ELSE signings + 1
    /\ RecordTransition(tx[w])
    /\ UNCHANGED <<event, sub, reports, request, listing>>

\* signed_at keeps its value.
CommitDeclined(w) ==
    /\ Committing(w, "declined")
    /\ contract' = [contract EXCEPT !.status = "declined"]
    /\ RecordTransition(tx[w])
    /\ UNCHANGED <<signings, event, sub, reports, request, listing>>

-----------------------------------------------------------------------------
(* sales_service.publish_record and listing_service.patch_listing.         *)

\* Mutants: publish without the report check, or without the signature check.
BeginPublishUnreported(w) ==
    /\ status = "esigned_pending_publish"
    /\ contract.signed
    /\ Begin(w, Ready("publish", "insert", "listed", CustomerMail("listed")))

BeginPublishUnsigned(w) ==
    /\ status = "esigned_pending_publish"
    /\ report # {}
    /\ Begin(w, Ready("publish", "insert", "listed", CustomerMail("listed")))

BeginPublish(w) ==
    /\ status = "esigned_pending_publish"
    /\ contract.signed
    /\ report # {}
    /\ Begin(w, Ready("publish", IF listing = "absent" THEN "insert" ELSE "update",
                      "listed", CustomerMail("listed")))

\* One listing per record: a second insert is refused.
CommitPublish(w) ==
    /\ Committing(w, "publish")
    /\ tx[w].row = "insert" => listing = "absent"
    /\ listing' = "active"
    /\ RecordTransition(tx[w])
    /\ UNCHANGED <<consign, event, sub, reports, request>>

PatchListing(to) ==
    /\ "patch_listing" \in Ops
    /\ listing # "absent"
    /\ listing' = to
    /\ UNCHANGED <<record, consign, event, sub, reports, request, tx>>

-----------------------------------------------------------------------------
(* change_request_service.                                                 *)

\* One insert; the partial unique index admits one pending request per record.
SubmitChangeRequest(r, withdraw) ==
    /\ "ask" \in Ops
    /\ HasAccount
    /\ request[r].status = "absent"
    /\ \A q \in Request : request[q].status # "pending"
    /\ request' = [request EXCEPT ![r] = [status |-> "pending", withdraw |-> withdraw]]
    /\ UNCHANGED <<record, consign, event, sub, reports, listing, tx>>

BeginResolve(w, r) ==
    /\ request[r].status = "pending"
    /\ request[r].withdraw => MayTransition(status, "withdrawn")
    /\ Begin(w, Ready("resolve", r, IF request[r].withdraw THEN "withdrawn" ELSE Stay, FALSE))

BeginRefuse(w, r) ==
    /\ request[r].status = "pending"
    /\ Begin(w, Ready("refuse", r, Stay, FALSE))

CommitResolution(w) ==
    /\ \/ /\ Committing(w, "resolve")
          /\ request' = [request EXCEPT ![tx[w].row].status = "resolved"]
       \/ /\ Committing(w, "refuse")
          /\ request' = [request EXCEPT ![tx[w].row].status = "rejected"]
    /\ RecordTransition(tx[w])
    /\ UNCHANGED <<consign, event, sub, reports, listing>>

-----------------------------------------------------------------------------
(* routers/admin.manual_transition: any status; the admin may force or     *)
(* silence the customer's mail.                                            *)

BeginTransition(w, to, notify) ==
    /\ MayTransition(status, to)
    /\ notify => HasAccount
    /\ Begin(w, Ready("transition", "none", to, notify))

CommitTransition(w) ==
    /\ Committing(w, "transition")
    /\ RecordTransition(tx[w])
    /\ UNCHANGED <<consign, event, sub, reports, request, listing>>

-----------------------------------------------------------------------------
BeginStep(w) ==
    \/ \E e \in Event : BeginCreateEvent(w, e) \/ LoadCancelEvent(w, e)
    \/ \E s \in Submission : BeginCreateDraft(w, s) \/ BeginSubmit(w, s) \/ BeginApprove(w, s)
    \/ \E s \in Submission, to \in {"new_request", "declined"} : BeginReject(w, s, to)
    \/ LoadCompleted(w) \/ LoadDeclined(w)
    \/ BeginPublish(w)
    \/ \E r \in Request : BeginResolve(w, r) \/ BeginRefuse(w, r)
    \/ \E to \in AdminTargets, notify \in BOOLEAN : BeginTransition(w, to, notify)

LockStep(w) == LockCancelEvent(w) \/ LockCompleted(w) \/ LockDeclined(w)

CommitStep(w) ==
    \/ CommitCreateEvent(w) \/ CommitCancelEvent(w)
    \/ CommitCreateDraft(w) \/ CommitSubmit(w)
    \/ CommitApprove(w) \/ CommitReject(w)
    \/ CommitCompleted(w) \/ CommitDeclined(w)
    \/ CommitPublish(w) \/ CommitResolution(w) \/ CommitTransition(w)

Next ==
    \/ \E w \in Worker : BeginStep(w) \/ LockStep(w) \/ CommitStep(w) \/ Rollback(w)
    \/ \E s \in Submission : RunReport(s)
    \/ \E to \in ListingStatus : PatchListing(to)
    \/ \E r \in Request, withdraw \in BOOLEAN : SubmitChangeRequest(r, withdraw)

Spec == Init /\ [][Next]_vars

-----------------------------------------------------------------------------
(* What the pipeline guarantees, whatever the interleaving.                *)

\* A record that has (or had) a public listing has a signed contract and a
\* report: publish_record checks both in one step and writes in another.
PublishedIsSigned == listing # "absent" => contract.signed /\ report # {}

\* A contract was sent only for an approved submission, and the approval stays.
ContractBacked == contract.status # "none" => ApprovedOf(sub) # {}

\* A record waiting to be published has a completed contract: the webhooks keep
\* the contract and the record in step although they never lock the record
\* (an admin may set the status by hand).
EsignedIsCompleted ==
    status = "esigned_pending_publish" /\ "transition" \notin Ops
        => contract = [status |-> "completed", signed |-> TRUE]

\* approve dispatches the contract itself: with an account and a working
\* provider no approved record is left without one.
AutoDispatch ==
    HasAccount /\ ~ProviderFails /\ ApprovedOf(sub) # {} => contract.status # "none"

\* The trail ends at the record's status, except that a cancelled appointment
\* takes the record back to new_request without a status_events row; requests
\* that overlap never leave any other status unexplained.
UntrailedIsNewRequest == trail # status => status = "new_request"

\* Whoever moves a record into a status the customer is to be told of, the mail
\* of that status exists; a declined record is the exception, since reject does
\* not pass the customer on (an admin may silence the mail).
MailedOnEntry ==
    HasAccount /\ "transition" \notin Ops /\ status \in NotifiesCustomer \ {"declined"}
        => status \in mail

\* A manager's decision is never overwritten: approve, reject and submit
\* re-read the submission under its row lock.
DecisionFinal ==
    [][\A s \in Submission : sub[s] \in {"approved", "rejected"} => sub'[s] = sub[s]]_sub

\* signed_at is never cleared: the reset in dispatch_contract cannot reach a
\* signed contract.
SignatureKept == [][contract.signed => contract'.signed]_contract

\* The pipeline implements the gate an owner relies on.
Gate == INSTANCE SaleGate WITH
    approved  <- ApprovedOf(sub) # {},
    sent      <- contract.status # "none",
    signed    <- contract.signed,
    reported  <- report # {},
    published <- listing # "absent"

\* No interleaving of the requests takes a record past a gate that is closed.
ImplementsGate == Gate!Spec

-----------------------------------------------------------------------------
(* What the repository says and the code does not do.                      *)

\* routers/esign: a completed webhook delivered twice, even at the same time,
\* moves the record once ("Idempotent on the contract row").
WebhookIdempotent == signings <= 1
=============================================================================
