------------------------ MODULE Consignment_proofs ------------------------
(***************************************************************************)
(* Theorems of Consignment, for any number of handlers and rows and any    *)
(* choice of operations.                                                   *)
(*                                                                         *)
(* The properties speak of committed rows; what makes them inductive is    *)
(* what a request in flight still knows to be true when it commits.        *)
(***************************************************************************)
EXTENDS Consignment, TLAPS

LockOps    == {"create_draft", "submit", "approve", "reject"}
WebhookOps == {"completed", "declined"}

\* What a request in flight may rely on: rows it holds have not moved, facts
\* that are never withdrawn still hold, and it was one of this instance's Ops.
InFlight(t) ==
    /\ t.at = "idle" => t.op = "none" /\ t.to = Stay
    /\ t.op \in Ops \cup {"none"}
    /\ t.op \in LockOps => t.row \in Submission
    /\ t.op = "create_draft" => sub[t.row] = "absent"
    /\ t.op = "submit" => sub[t.row] = "draft"
    /\ t.op \in {"approve", "reject"} => sub[t.row] = "submitted"
    /\ t.op \in WebhookOps => contract.status # "none"
    /\ t.op = "publish" => contract.signed /\ report # {}

FlightOK == \A w \in Worker : InFlight(tx[w])

\* FOR UPDATE: two requests never hold one submission.
RowsExclusive ==
    \A v, w \in Worker :
        v # w /\ tx[v].op \in LockOps /\ tx[w].op \in LockOps => tx[v].row # tx[w].row

\* What the committed rows say about one another.
RowsAgree ==
    /\ contract.signed => contract.status # "none"
    /\ ContractBacked
    /\ PublishedIsSigned
    /\ pdf \cup report \subseteq ApprovedOf(sub)

IInv == TypeOK /\ FlightOK /\ RowsExclusive /\ RowsAgree

-----------------------------------------------------------------------------
(* Types.                                                                  *)

USE DEF MayTransition, vars, record, consign, reports

\* What the sets of values contain, for the leaves below.
LEMMA Values ==
    /\ "new_request" \in Status /\ "appraisal_scheduled" \in Status
    /\ "appraisal_complete" \in Status /\ "approved_pending_esign" \in Status
    /\ "esigned_pending_publish" \in Status /\ "listed" \in Status
    /\ "declined" \in Status /\ "withdrawn" \in Status
    /\ Stay \notin Status
    /\ Idle \in TxRow
BY DEF Status, Stay, Idle, TxRow

\* A request that is being started or taken further is well typed.
LEMMA TxTypes ==
    ASSUME NEW op \in AllOps, NEW to \in Status \cup {Stay}, NEW notify \in BOOLEAN,
           NEW row \in Submission \cup Event \cup Request \cup {"none", "insert", "update"}
    PROVE  Ready(op, row, to, notify) \in TxRow /\ Loaded(op, row) \in TxRow
BY DEF Ready, Loaded, TxRow, Stay

\* record_transition keeps the record's columns in their types.
LEMMA RecordTypes ==
    ASSUME TypeOK, NEW t \in TxRow, RecordTransition(t)
    PROVE  status' \in Status /\ trail' \in Status /\ mail' \subseteq Status
<1>1. CASE t.to = Stay
    BY <1>1 DEF RecordTransition, TypeOK
<1>2. CASE t.to # Stay
    <2>1. t.to \in Status
        BY <1>2 DEF TxRow
    <2> QED BY <1>2, <2>1 DEF RecordTransition, TypeOK
<1> QED BY <1>1, <1>2

\* A request's first step keeps the types.
LEMMA TypeBegin ==
    ASSUME TypeOK, NEW w \in Worker, BeginStep(w)
    PROVE  TypeOK'
<1>1. ASSUME NEW t \in TxRow, Begin(w, t) PROVE TypeOK'
    BY <1>1 DEF Begin, TypeOK
<1>2. \A to : CustomerMail(to) \in BOOLEAN
    BY FlagAssumption DEF CustomerMail
<1>3. CASE \E e \in Event : BeginCreateEvent(w, e)
    BY <1>1, <1>2, <1>3, TxTypes, Values DEF BeginCreateEvent, AllOps
<1>4. CASE \E e \in Event : LoadCancelEvent(w, e)
    BY <1>1, <1>4, TxTypes, Values DEF LoadCancelEvent, AllOps
<1>5. CASE \E s \in Submission : BeginCreateDraft(w, s)
    BY <1>1, <1>5, TxTypes, Values DEF BeginCreateDraft, AllOps
<1>6. CASE \E s \in Submission : BeginSubmit(w, s)
    BY <1>1, <1>2, <1>6, TxTypes, Values DEF BeginSubmit, AllOps
<1>7. CASE \E s \in Submission : BeginApprove(w, s)
    BY <1>1, <1>7, TxTypes, Values DEF BeginApprove, AllOps
<1>8. CASE \E s \in Submission, to \in {"new_request", "declined"} : BeginReject(w, s, to)
    BY <1>1, <1>8, TxTypes, Values DEF BeginReject, AllOps
<1>9. CASE LoadCompleted(w) \/ LoadDeclined(w)
    BY <1>1, <1>9, TxTypes, Values DEF LoadCompleted, LoadDeclined, AllOps
<1>10. CASE BeginPublish(w)
    BY <1>1, <1>2, <1>10, TxTypes, Values DEF BeginPublish, AllOps
<1>11. CASE \E r \in Request : BeginResolve(w, r)
    BY <1>1, <1>11, TxTypes, Values DEF BeginResolve, AllOps
<1>12. CASE \E r \in Request : BeginRefuse(w, r)
    BY <1>1, <1>12, TxTypes, Values DEF BeginRefuse, AllOps
<1>13. CASE \E to \in AdminTargets, notify \in BOOLEAN : BeginTransition(w, to, notify)
    BY <1>1, <1>13, TxTypes, Values, TargetsAssumption DEF BeginTransition, AllOps
<1> QED BY <1>3, <1>4, <1>5, <1>6, <1>7, <1>8, <1>9, <1>10, <1>11, <1>12, <1>13 DEF BeginStep

\* So does the flush that waits for a row lock.
LEMMA TypeLock ==
    ASSUME TypeOK, NEW w \in Worker, LockStep(w) \/ Rollback(w)
    PROVE  TypeOK'
<1>1. ASSUME NEW t \in TxRow, Proceed(w, t) PROVE TypeOK'
    BY <1>1 DEF Proceed, TypeOK
<1>2. tx[w] \in TxRow /\ tx[w].row \in Submission \cup Event \cup Request \cup {"none", "insert", "update"}
    BY DEF TypeOK, TxRow
<1>3. CASE LockCancelEvent(w)
    BY <1>1, <1>2, <1>3, TxTypes, Values DEF LockCancelEvent, AllOps
<1>4. CASE LockCompleted(w) \/ LockDeclined(w)
    BY <1>1, <1>4, TxTypes, Values DEF LockCompleted, LockDeclined, AllOps
<1>5. CASE Rollback(w)
    BY <1>1, <1>5, Values DEF Rollback
<1> QED BY <1>3, <1>4, <1>5 DEF LockStep

\* So does a commit, of every operation.
LEMMA TypeCommit ==
    ASSUME TypeOK, FlightOK, NEW w \in Worker, CommitStep(w)
    PROVE  TypeOK'
<1>1. tx[w] \in TxRow
    BY DEF TypeOK
<1>2. ASSUME NEW op, Committing(w, op) PROVE tx' \in [Worker -> TxRow]
    BY <1>2, Values DEF Committing, TypeOK
<1>3. CASE CommitCreateEvent(w)
    BY <1>1, <1>2, <1>3, RecordTypes DEF CommitCreateEvent, TypeOK, EventStatus
<1>4. CASE CommitCancelEvent(w)
    <2>1. status' \in Status
        BY <1>1, <1>4 DEF CommitCancelEvent, TypeOK, TxRow
    <2> QED BY <1>2, <1>4, <2>1 DEF CommitCancelEvent, TypeOK, EventStatus
<1>5. CASE CommitCreateDraft(w)
    BY <1>2, <1>5 DEF CommitCreateDraft, TypeOK, SubStatus
<1>6. CASE CommitSubmit(w)
    BY <1>1, <1>2, <1>6, RecordTypes DEF CommitSubmit, TypeOK, SubStatus
<1>7. CASE CommitApprove(w)
    <2>1. contract' \in ContractRow
        <3>1. contract' = [status |-> "sent", signed |-> FALSE] \/ contract' = contract
            BY <1>7, Zenon DEF CommitApprove, DispatchContract
        <3>2. [status |-> "sent", signed |-> FALSE] \in ContractRow
            BY DEF ContractRow
        <3> QED BY <3>1, <3>2 DEF TypeOK
    <2>2. tx[w].row \in Submission
        BY <1>7 DEF CommitApprove, Committing, FlightOK, InFlight, LockOps
    <2> QED BY <1>1, <1>2, <1>7, <2>1, <2>2, RecordTypes DEF CommitApprove, TypeOK, SubStatus
<1>8. CASE CommitReject(w)
    BY <1>1, <1>2, <1>8, RecordTypes DEF CommitReject, TypeOK, SubStatus
<1>9. CASE CommitCompleted(w)
    <2>1. contract' \in ContractRow /\ signings' \in 0..2
        BY <1>9 DEF CommitCompleted, ContractRow, TypeOK
    <2> QED BY <1>1, <1>2, <1>9, <2>1, RecordTypes DEF CommitCompleted, TypeOK
<1>10. CASE CommitDeclined(w)
    <2>1. contract' \in ContractRow
        BY <1>10 DEF CommitDeclined, ContractRow, TypeOK
    <2> QED BY <1>1, <1>2, <1>10, <2>1, RecordTypes DEF CommitDeclined, TypeOK
<1>11. CASE CommitPublish(w)
    BY <1>1, <1>2, <1>11, RecordTypes DEF CommitPublish, TypeOK, ListingStatus
<1>12. CASE CommitResolution(w)
    <2>1. request' \in [Request -> ChangeRow]
        BY <1>12 DEF CommitResolution, TypeOK, ChangeRow, RequestStatus
    <2> QED BY <1>1, <1>2, <1>12, <2>1, RecordTypes DEF CommitResolution, TypeOK
<1>13. CASE CommitTransition(w)
    BY <1>1, <1>2, <1>13, RecordTypes DEF CommitTransition, TypeOK
<1> QED BY <1>3, <1>4, <1>5, <1>6, <1>7, <1>8, <1>9, <1>10, <1>11, <1>12, <1>13 DEF CommitStep

-----------------------------------------------------------------------------
(* What no step takes back.                                                *)

Durable ==
    /\ \A s \in Submission : sub[s] \in {"approved", "rejected"} => sub'[s] = sub[s]
    /\ contract.signed => contract'.signed
    /\ contract.status # "none" => contract'.status # "none"
    /\ report \subseteq report'

\* A step that is not a commit, or commits none of these rows, is durable.
LEMMA DurableSame ==
    ASSUME UNCHANGED <<sub, contract>>, report \subseteq report'
    PROVE  Durable
BY DEF Durable

\* A request that holds a submission commits it from draft or submitted, so a
\* decided submission is not touched.
LEMMA DecisionDurable ==
    ASSUME IInv, NEW w \in Worker, NEW op \in LockOps, Committing(w, op),
           NEW new, sub' = [sub EXCEPT ![tx[w].row] = new]
    PROVE  /\ sub[tx[w].row] \in {"absent", "draft", "submitted"}
           /\ \A s \in Submission :
                  sub[s] \in {"approved", "rejected"} => sub'[s] = sub[s]
           /\ tx[w].row \in Submission /\ sub'[tx[w].row] = new
BY DEF IInv, TypeOK, FlightOK, InFlight, Committing, LockOps

\* The reset in dispatch_contract needs a contract and exactly one approved
\* submission; the contract's own submission is approved already, so another
\* approval makes two.
LEMMA ContractDurable ==
    ASSUME IInv, NEW w \in Worker, CommitApprove(w)
    PROVE  /\ contract.status # "none" => contract' = contract
           /\ contract' = contract \/ contract' = [status |-> "sent", signed |-> FALSE]
<1>1. Committing(w, "approve") /\ sub' = [sub EXCEPT ![tx[w].row] = "approved"]
    BY DEF CommitApprove
<1>2. tx[w].row \in Submission /\ sub[tx[w].row] = "submitted"
    BY <1>1 DEF IInv, FlightOK, InFlight, Committing, LockOps
<1>3. DispatchContract(ApprovedOf(sub'))
    BY DEF CommitApprove
<1>4. contract' = contract \/ contract' = [status |-> "sent", signed |-> FALSE]
    BY <1>3, Zenon DEF DispatchContract
<1>5. ASSUME contract.status # "none" PROVE ~MaySend(ApprovedOf(sub'))
    <2>1. PICK s \in Submission : sub[s] = "approved"
        BY <1>5 DEF IInv, RowsAgree, ContractBacked, ApprovedOf
    <2>2. s # tx[w].row
        BY <1>2, <2>1
    <2>3. s \in ApprovedOf(sub') /\ tx[w].row \in ApprovedOf(sub')
        BY <1>1, <1>2, <2>1, <2>2 DEF ApprovedOf, IInv, TypeOK
    <2> QED BY <2>2, <2>3 DEF MaySend
<1> QED BY <1>3, <1>4, <1>5 DEF DispatchContract

\* No step takes back an approval, a sent contract, a signature, a report or a listing.
LEMMA DurableStep ==
    ASSUME IInv, [Next]_vars
    PROVE  Durable
<1>1. CASE UNCHANGED vars
    BY <1>1, DurableSame
<1>2. ASSUME NEW w \in Worker, BeginStep(w) PROVE Durable
    <2>1. \E t : Begin(w, t)
        BY <1>2 DEF BeginStep, BeginCreateEvent, LoadCancelEvent, BeginCreateDraft, BeginSubmit,
           BeginApprove, BeginReject, LoadCompleted, LoadDeclined, BeginPublish, BeginResolve,
           BeginRefuse, BeginTransition
    <2> QED BY <2>1, DurableSame DEF Begin
<1>3. ASSUME NEW w \in Worker, LockStep(w) \/ Rollback(w) PROVE Durable
    <2>1. \E t : Proceed(w, t)
        BY <1>3 DEF LockStep, LockCancelEvent, LockCompleted, LockDeclined, Rollback
    <2> QED BY <2>1, DurableSame DEF Proceed
<1>4. ASSUME NEW w \in Worker, CommitStep(w) PROVE Durable
    <2>1. CASE CommitCreateEvent(w) \/ CommitCancelEvent(w) \/ CommitPublish(w)
                   \/ CommitResolution(w) \/ CommitTransition(w)
        BY <2>1, DurableSame DEF CommitCreateEvent, CommitCancelEvent, CommitPublish,
           CommitResolution, CommitTransition
    <2>2. CASE CommitCreateDraft(w)
        BY <2>2, DecisionDurable DEF CommitCreateDraft, Durable, LockOps
    <2>3. CASE CommitSubmit(w)
        BY <2>3, DecisionDurable DEF CommitSubmit, Durable, LockOps
    <2>4. CASE CommitReject(w)
        BY <2>4, DecisionDurable DEF CommitReject, Durable, LockOps
    <2>5. CASE CommitApprove(w)
        <3>1. contract.signed => contract.status # "none"
            BY DEF IInv, RowsAgree
        <3>2. contract.status # "none" => contract' = contract
            BY <2>5, ContractDurable
        <3>3. \A s \in Submission : sub[s] \in {"approved", "rejected"} => sub'[s] = sub[s]
            BY <2>5, DecisionDurable DEF CommitApprove, LockOps
        <3>4. report' = report
            BY <2>5 DEF CommitApprove
        <3> QED BY <3>1, <3>2, <3>3, <3>4 DEF Durable
    <2>6. CASE CommitCompleted(w)
        BY <2>6 DEF CommitCompleted, Durable
    <2>7. CASE CommitDeclined(w)
        BY <2>7 DEF CommitDeclined, Durable, IInv, TypeOK, ContractRow
    <2> QED BY <1>4, <2>1, <2>2, <2>3, <2>4, <2>5, <2>6, <2>7 DEF CommitStep
<1>5. ASSUME NEW s \in Submission, RunReport(s) PROVE Durable
    BY <1>5, DurableSame DEF RunReport
<1>6. ASSUME NEW to, PatchListing(to) PROVE Durable
    BY <1>6, DurableSame DEF PatchListing
<1>7. ASSUME NEW r, NEW withdraw, SubmitChangeRequest(r, withdraw) PROVE Durable
    BY <1>7, DurableSame DEF SubmitChangeRequest
<1> QED BY <1>1, <1>2, <1>3, <1>4, <1>5, <1>6, <1>7 DEF Next

-----------------------------------------------------------------------------
(* The inductive invariant.                                                *)

Invs == FlightOK /\ RowsExclusive /\ RowsAgree

\* Starting a request, or taking it further, on unchanged rows.
LEMMA FlightStart ==
    ASSUME IInv, NEW w \in Worker, NEW t, InFlight(t),
           t.op \in LockOps => \A v \in Worker :
               v # w /\ tx[v].op \in LockOps => tx[v].row # t.row,
           Begin(w, t) \/ Proceed(w, t)
    PROVE  Invs'
<1>1. /\ tx' = [tx EXCEPT ![w] = t]
      /\ UNCHANGED <<sub, contract, pdf, report, listing>>
    BY DEF Begin, Proceed
<1>2. RowsAgree'
    BY <1>1 DEF IInv, RowsAgree, ContractBacked, PublishedIsSigned, ApprovedOf
<1>3. FlightOK'
    BY <1>1 DEF IInv, TypeOK, FlightOK, InFlight
<1>4. RowsExclusive'
    BY <1>1 DEF IInv, TypeOK, RowsExclusive
<1> QED BY <1>2, <1>3, <1>4 DEF Invs

\* A request that holds no submission.
LEMMA FlightOther ==
    ASSUME IInv, NEW w \in Worker, NEW t,
           t.op \notin LockOps, t.at # "idle",
           t.op \in WebhookOps => contract.status # "none",
           t.op = "publish" => contract.signed /\ report # {},
           Begin(w, t) \/ (Proceed(w, t) /\ t.op \in Ops)
    PROVE  Invs'
<1>1. InFlight(t)
    BY DEF InFlight, LockOps, Begin
<1> QED BY <1>1, FlightStart

\* The fields of the three kinds of request in flight.
LEMMA Fields ==
    \A op, row, to, notify :
        /\ Ready(op, row, to, notify).at = "ready"
        /\ Ready(op, row, to, notify).op = op
        /\ Ready(op, row, to, notify).row = row
        /\ Ready(op, row, to, notify).to = to
        /\ Loaded(op, row).at = "loaded"
        /\ Loaded(op, row).op = op
        /\ Loaded(op, row).row = row
        /\ Loaded(op, row).to = Stay
BY DEF Ready, Loaded

\* A request that takes the lock of a submission, or is about to insert it.
LEMMA FlightLocked ==
    ASSUME IInv, NEW w \in Worker, NEW t, t.op \in LockOps, t.row \in Submission, t.at # "idle",
           t.op = "create_draft" => sub[t.row] = "absent",
           t.op = "submit" => sub[t.row] = "draft",
           t.op \in {"approve", "reject"} => sub[t.row] = "submitted",
           \A v \in Worker : tx[v].op \in LockOps => tx[v].row # t.row,
           Begin(w, t)
    PROVE  Invs'
<1>1. InFlight(t)
    BY DEF InFlight, LockOps, WebhookOps, Begin
<1> QED BY <1>1, FlightStart

\* The row lock and the status of the submission keep two requests apart.
LEMMA LockFreeExcludes ==
    ASSUME IInv, NEW s \in Submission, LockFree(s), sub[s] # "absent"
    PROVE  \A v \in Worker : tx[v].op \in LockOps => tx[v].row # s
BY DEF IInv, FlightOK, InFlight, LockFree, LockOps

\* What a first step puts in flight keeps FlightOK.
LEMMA FlightBegin ==
    ASSUME IInv, NEW w \in Worker, BeginStep(w)
    PROVE  Invs'
<1>1. ASSUME NEW e \in Event, BeginCreateEvent(w, e) PROVE Invs'
    <2>1. Begin(w, Ready("create_event", e, "appraisal_scheduled",
                         CustomerMail("appraisal_scheduled")))
        BY <1>1 DEF BeginCreateEvent
    <2> QED BY <2>1, FlightOther, Fields DEF LockOps, WebhookOps
<1>2. ASSUME NEW e \in Event, LoadCancelEvent(w, e) PROVE Invs'
    <2>1. Begin(w, Loaded("cancel_event", e))
        BY <1>2 DEF LoadCancelEvent
    <2> QED BY <2>1, FlightOther, Fields DEF LockOps, WebhookOps
<1>3. ASSUME NEW s \in Submission, BeginCreateDraft(w, s) PROVE Invs'
    <2> DEFINE t == Ready("create_draft", s, Stay, FALSE)
    <2>1. t.op = "create_draft" /\ t.row = s /\ t.at = "ready"
        BY DEF Ready
    <2> HIDE DEF t
    <2>2. Begin(w, t) /\ sub[s] = "absent"
        BY <1>3 DEF BeginCreateDraft, t
    <2>3. \A v \in Worker : tx[v].op \in LockOps => tx[v].row # s
        BY <1>3, <2>2 DEF BeginCreateDraft
    <2> QED BY <2>1, <2>2, <2>3, FlightLocked DEF LockOps
<1>4. ASSUME NEW s \in Submission, BeginSubmit(w, s) PROVE Invs'
    <2> DEFINE t == Ready("submit", s, "appraisal_complete", CustomerMail("appraisal_complete"))
    <2>1. t.op = "submit" /\ t.row = s /\ t.at = "ready"
        BY DEF Ready
    <2> HIDE DEF t
    <2>2. Begin(w, t) /\ sub[s] = "draft"
        BY <1>4 DEF BeginSubmit, t
    <2>3. \A v \in Worker : tx[v].op \in LockOps => tx[v].row # s
        BY <1>4, <2>2, LockFreeExcludes DEF BeginSubmit
    <2> QED BY <2>1, <2>2, <2>3, FlightLocked DEF LockOps
<1>5. ASSUME NEW s \in Submission, BeginApprove(w, s) PROVE Invs'
    <2> DEFINE t == Ready("approve", s, "approved_pending_esign", FALSE)
    <2>1. t.op = "approve" /\ t.row = s /\ t.at = "ready"
        BY DEF Ready
    <2> HIDE DEF t
    <2>2. Begin(w, t) /\ sub[s] = "submitted"
        BY <1>5 DEF BeginApprove, t
    <2>3. \A v \in Worker : tx[v].op \in LockOps => tx[v].row # s
        BY <1>5, <2>2, LockFreeExcludes DEF BeginApprove
    <2> QED BY <2>1, <2>2, <2>3, FlightLocked DEF LockOps
<1>6. ASSUME NEW s \in Submission, NEW to, BeginReject(w, s, to) PROVE Invs'
    <2> DEFINE t == Ready("reject", s, to, FALSE)
    <2>1. t.op = "reject" /\ t.row = s /\ t.at = "ready"
        BY DEF Ready
    <2> HIDE DEF t
    <2>2. Begin(w, t) /\ sub[s] = "submitted"
        BY <1>6 DEF BeginReject, t
    <2>3. \A v \in Worker : tx[v].op \in LockOps => tx[v].row # s
        BY <1>6, <2>2, LockFreeExcludes DEF BeginReject
    <2> QED BY <2>1, <2>2, <2>3, FlightLocked DEF LockOps
<1>7. CASE LoadCompleted(w)
    <2>1. Begin(w, Loaded("completed", "none")) /\ contract.status # "none"
        BY <1>7 DEF LoadCompleted
    <2> QED BY <2>1, FlightOther, Fields DEF LockOps
<1>8. CASE LoadDeclined(w)
    <2>1. Begin(w, Loaded("declined", "none")) /\ contract.status # "none"
        BY <1>8 DEF LoadDeclined
    <2> QED BY <2>1, FlightOther, Fields DEF LockOps
<1>9. CASE BeginPublish(w)
    <2>1. /\ Begin(w, Ready("publish", IF listing = "absent" THEN "insert" ELSE "update",
                            "listed", CustomerMail("listed")))
          /\ contract.signed /\ report # {}
        BY <1>9 DEF BeginPublish
    <2>2. PICK row : Begin(w, Ready("publish", row, "listed", CustomerMail("listed")))
        BY <2>1
    <2> QED BY <2>1, <2>2, FlightOther, Fields DEF LockOps, WebhookOps
<1>10. ASSUME NEW r \in Request, BeginResolve(w, r) \/ BeginRefuse(w, r) PROVE Invs'
    <2>1. \/ Begin(w, Ready("resolve", r, IF request[r].withdraw THEN "withdrawn" ELSE Stay, FALSE))
          \/ Begin(w, Ready("refuse", r, Stay, FALSE))
        BY <1>10 DEF BeginResolve, BeginRefuse
    <2>2. PICK t : /\ Begin(w, t)
                   /\ t.op \in {"resolve", "refuse"} /\ t.at = "ready"
        BY <2>1 DEF Ready
    <2> QED BY <2>2, FlightOther DEF LockOps, WebhookOps
<1>11. ASSUME NEW to, NEW notify, BeginTransition(w, to, notify) PROVE Invs'
    <2>1. Begin(w, Ready("transition", "none", to, notify))
        BY <1>11 DEF BeginTransition
    <2> QED BY <2>1, FlightOther, Fields DEF LockOps, WebhookOps
<1> QED BY <1>1, <1>2, <1>3, <1>4, <1>5, <1>6, <1>7, <1>8, <1>9, <1>10, <1>11 DEF BeginStep

\* What a flush decides keeps FlightOK.
LEMMA FlightLock ==
    ASSUME IInv, NEW w \in Worker, LockStep(w) \/ Rollback(w)
    PROVE  Invs'
<1>1. InFlight(tx[w])
    BY DEF IInv, FlightOK
<1>2. ASSUME NEW op \in {"cancel_event", "completed", "declined"}, NEW row, NEW to,
             tx[w].op = op, Proceed(w, Ready(op, row, to, FALSE))
      PROVE  Invs'
    <2> DEFINE t == Ready(op, row, to, FALSE)
    <2>1. t.op = op /\ t.at = "ready"
        BY DEF Ready
    <2> HIDE DEF t
    <2>2. /\ op \in Ops
          /\ op \in WebhookOps => contract.status # "none"
        BY <1>1, <1>2 DEF InFlight, WebhookOps
    <2>3. Proceed(w, t)
        BY <1>2 DEF t
    <2> QED BY <2>1, <2>2, <2>3, FlightOther DEF LockOps
<1>3. CASE LockCancelEvent(w)
    BY <1>2, <1>3 DEF LockCancelEvent
<1>4. CASE LockCompleted(w)
    BY <1>2, <1>4 DEF LockCompleted
<1>5. CASE LockDeclined(w)
    BY <1>2, <1>5 DEF LockDeclined
<1>6. CASE Rollback(w)
    <2>1. InFlight(Idle) /\ Idle.op \notin LockOps
        BY DEF Idle, InFlight, LockOps, WebhookOps
    <2> QED BY <1>6, <2>1, FlightStart DEF Rollback
<1> QED BY <1>3, <1>4, <1>5, <1>6 DEF LockStep

\* A commit releases the worker's locks; the requests still in flight hold
\* other submissions and rely only on what is never taken back.
LEMMA FlightKept ==
    ASSUME IInv, NEW w \in Worker, NEW op, Committing(w, op), Durable,
           \A s \in Submission : sub'[s] # sub[s] => op \in LockOps /\ s = tx[w].row
    PROVE  FlightOK' /\ RowsExclusive'
<1>1. /\ tx'[w] = Idle /\ tx[w].op = op
      /\ \A v \in Worker : v # w => tx'[v] = tx[v]
    BY DEF Committing, IInv, TypeOK
<1>2. InFlight(Idle)'
    BY DEF InFlight, Idle, LockOps, WebhookOps
<1>3. Idle.op \notin LockOps
    BY DEF Idle, LockOps
<1>4. ASSUME NEW v \in Worker, v # w PROVE InFlight(tx[v])'
    <2>1. InFlight(tx[v]) /\ tx'[v] = tx[v]
        BY <1>1, <1>4 DEF IInv, FlightOK
    <2>2. ASSUME tx[v].op \in LockOps PROVE sub'[tx[v].row] = sub[tx[v].row]
        <3>1. tx[v].row \in Submission
            BY <2>1, <2>2 DEF InFlight
        <3>2. op \in LockOps => tx[v].row # tx[w].row
            BY <1>1, <1>4, <2>2 DEF IInv, RowsExclusive
        <3> QED BY <3>1, <3>2
    <2>3. report # {} => report' # {}
        BY DEF Durable
    <2> QED BY <2>1, <2>2, <2>3 DEF InFlight, LockOps, Durable
<1>5. FlightOK'
    BY <1>1, <1>2, <1>4 DEF FlightOK
<1>6. RowsExclusive'
    BY <1>1, <1>3 DEF IInv, RowsExclusive
<1> QED BY <1>5, <1>6

\* Approved submissions stay approved.
LEMMA ApprovedKept ==
    ASSUME Durable
    PROVE  ApprovedOf(sub) \subseteq ApprovedOf(sub')
BY DEF Durable, ApprovedOf

\* A commit changes no row that another request in flight relies on.
LEMMA FlightCommit ==
    ASSUME IInv, NEW w \in Worker, CommitStep(w), Durable
    PROVE  Invs'
<1>1. RowsAgree /\ InFlight(tx[w]) /\ ApprovedOf(sub) \subseteq ApprovedOf(sub')
    BY ApprovedKept DEF IInv, FlightOK
<1>2. ASSUME UNCHANGED <<contract, pdf, report, listing>> PROVE RowsAgree'
    BY <1>1, <1>2 DEF RowsAgree, ContractBacked, PublishedIsSigned
<1>3. CASE CommitCreateEvent(w) \/ CommitCancelEvent(w) \/ CommitResolution(w)
               \/ CommitTransition(w)
    <2>1. \E op : Committing(w, op) /\ UNCHANGED <<sub, contract, pdf, report, listing>>
        BY <1>3 DEF CommitCreateEvent, CommitCancelEvent, CommitResolution, CommitTransition
    <2> QED BY <1>2, <2>1, FlightKept DEF Invs
<1>4. CASE CommitCreateDraft(w)
    <2>1. /\ Committing(w, "create_draft")
          /\ sub' = [sub EXCEPT ![tx[w].row] = "draft"]
          /\ UNCHANGED <<contract, pdf, report, listing>>
        BY <1>4 DEF CommitCreateDraft
    <2> QED BY <1>2, <2>1, FlightKept DEF Invs, LockOps, IInv, TypeOK
<1>5. CASE CommitSubmit(w)
    <2>1. /\ Committing(w, "submit")
          /\ sub' = [sub EXCEPT ![tx[w].row] = "submitted"]
          /\ UNCHANGED <<contract, pdf, report, listing>>
        BY <1>5 DEF CommitSubmit
    <2> QED BY <1>2, <2>1, FlightKept DEF Invs, LockOps, IInv, TypeOK
<1>6. CASE CommitReject(w)
    <2>1. /\ Committing(w, "reject")
          /\ sub' = [sub EXCEPT ![tx[w].row] = "rejected"]
          /\ UNCHANGED <<contract, pdf, report, listing>>
        BY <1>6 DEF CommitReject
    <2> QED BY <1>2, <2>1, FlightKept DEF Invs, LockOps, IInv, TypeOK
<1>7. CASE CommitApprove(w)
    <2>1. /\ Committing(w, "approve")
          /\ sub' = [sub EXCEPT ![tx[w].row] = "approved"]
          /\ pdf' = pdf \cup {tx[w].row}
          /\ UNCHANGED <<report, listing>>
        BY <1>7 DEF CommitApprove
    <2>2. tx[w].row \in ApprovedOf(sub')
        BY <2>1, DecisionDurable DEF LockOps, ApprovedOf
    <2>3. contract' = contract \/ contract' = [status |-> "sent", signed |-> FALSE]
        BY <1>7, ContractDurable
    <2>4. contract'.signed => contract'.status # "none"
        BY <1>1, <2>3 DEF RowsAgree
    <2>5. RowsAgree'
        BY <1>1, <2>1, <2>2, <2>4 DEF RowsAgree, ContractBacked, PublishedIsSigned, Durable
    <2>6. \A s \in Submission : sub'[s] # sub[s] => s = tx[w].row
        BY <2>1 DEF IInv, TypeOK
    <2> QED BY <2>1, <2>5, <2>6, FlightKept DEF Invs, LockOps
<1>8. CASE CommitCompleted(w)
    <2>1. /\ Committing(w, "completed")
          /\ contract' = [status |-> "completed", signed |-> TRUE]
          /\ UNCHANGED <<sub, pdf, report, listing>>
        BY <1>8 DEF CommitCompleted
    <2>2. contract.status # "none"
        BY <1>1, <2>1 DEF InFlight, Committing, WebhookOps
    <2>3. RowsAgree'
        BY <1>1, <2>1, <2>2 DEF RowsAgree, ContractBacked, PublishedIsSigned
    <2> QED BY <2>1, <2>3, FlightKept DEF Invs
<1>9. CASE CommitDeclined(w)
    <2>1. /\ Committing(w, "declined")
          /\ contract' = [contract EXCEPT !.status = "declined"]
          /\ UNCHANGED <<sub, pdf, report, listing>>
        BY <1>9 DEF CommitDeclined
    <2>2. contract.status # "none"
        BY <1>1, <2>1 DEF InFlight, Committing, WebhookOps
    <2>3. contract'.status = "declined" /\ contract'.signed = contract.signed
        BY <2>1 DEF IInv, TypeOK, ContractRow
    <2>4. RowsAgree'
        BY <1>1, <2>1, <2>2, <2>3 DEF RowsAgree, ContractBacked, PublishedIsSigned
    <2> QED BY <2>1, <2>4, FlightKept DEF Invs
<1>10. CASE CommitPublish(w)
    <2>1. Committing(w, "publish") /\ UNCHANGED <<sub, contract, pdf, report>>
        BY <1>10 DEF CommitPublish
    <2>2. contract.signed /\ report # {}
        BY <1>1, <2>1 DEF InFlight, Committing
    <2>3. RowsAgree'
        BY <1>1, <2>1, <2>2 DEF RowsAgree, ContractBacked, PublishedIsSigned
    <2> QED BY <2>1, <2>3, FlightKept DEF Invs
<1> QED BY <1>3, <1>4, <1>5, <1>6, <1>7, <1>8, <1>9, <1>10 DEF CommitStep

\* Background reports, listing edits and new change requests disturb no request in flight.
LEMMA FlightTask ==
    ASSUME IInv,
           \/ \E s \in Submission : RunReport(s)
           \/ \E to \in ListingStatus : PatchListing(to)
           \/ \E r \in Request, withdraw \in BOOLEAN : SubmitChangeRequest(r, withdraw)
    PROVE  (TypeOK /\ Invs)'
<1>1. ASSUME NEW s \in Submission, RunReport(s) PROVE (TypeOK /\ Invs)'
    <2>1. report \subseteq report' /\ pdf' \cup report' \subseteq pdf \cup report
        BY <1>1 DEF RunReport, IInv, TypeOK
    <2>2. UNCHANGED <<record, consign, event, sub, request, listing, tx>>
        BY <1>1 DEF RunReport
    <2>3. TypeOK'
        BY <1>1, <2>1, <2>2 DEF IInv, TypeOK, RunReport
    <2>4. FlightOK'
        BY <2>1, <2>2 DEF IInv, FlightOK, InFlight
    <2>5. RowsExclusive' /\ RowsAgree'
        BY <2>1, <2>2 DEF IInv, RowsExclusive, RowsAgree, ContractBacked, PublishedIsSigned,
           ApprovedOf
    <2> QED BY <2>3, <2>4, <2>5 DEF Invs
<1>2. ASSUME NEW to \in ListingStatus, PatchListing(to) PROVE (TypeOK /\ Invs)'
    <2>1. listing # "absent" /\ listing' = to
          /\ UNCHANGED <<record, consign, event, sub, reports, request, tx>>
        BY <1>2 DEF PatchListing
    <2>2. TypeOK'
        BY <2>1 DEF IInv, TypeOK
    <2>3. FlightOK' /\ RowsExclusive'
        BY <2>1 DEF IInv, FlightOK, InFlight, RowsExclusive
    <2>4. RowsAgree'
        BY <2>1 DEF IInv, RowsAgree, ContractBacked, PublishedIsSigned, ApprovedOf
    <2> QED BY <2>2, <2>3, <2>4 DEF Invs
<1>3. ASSUME NEW r \in Request, NEW withdraw \in BOOLEAN, SubmitChangeRequest(r, withdraw)
      PROVE  (TypeOK /\ Invs)'
    <2>1. /\ request' = [request EXCEPT ![r] = [status |-> "pending", withdraw |-> withdraw]]
          /\ UNCHANGED <<record, consign, event, sub, reports, listing, tx>>
        BY <1>3 DEF SubmitChangeRequest
    <2>2. [status |-> "pending", withdraw |-> withdraw] \in ChangeRow
        BY DEF ChangeRow, RequestStatus
    <2>3. TypeOK'
        BY <2>1, <2>2 DEF IInv, TypeOK
    <2>4. FlightOK' /\ RowsExclusive'
        BY <2>1 DEF IInv, FlightOK, InFlight, RowsExclusive
    <2>5. RowsAgree'
        BY <2>1 DEF IInv, RowsAgree, ContractBacked, PublishedIsSigned, ApprovedOf
    <2> QED BY <2>3, <2>4, <2>5 DEF Invs
<1> QED BY <1>1, <1>2, <1>3

\* The invariant holds of a new request.
LEMMA InitIInv == Init => IInv
<1> SUFFICES ASSUME Init PROVE IInv
    OBVIOUS
<1>1. TypeOK
    BY Values DEF Init, TypeOK, EventStatus, SubStatus, ContractRow, ChangeRow, RequestStatus
<1>2. \A w \in Worker : tx[w].at = "idle" /\ tx[w].op = "none" /\ tx[w].to = Stay
    BY DEF Init, Idle
<1>3. FlightOK /\ RowsExclusive
    BY <1>2 DEF FlightOK, InFlight, RowsExclusive, LockOps, WebhookOps
<1>4. RowsAgree
    BY DEF Init, RowsAgree, ContractBacked, PublishedIsSigned
<1> QED BY <1>1, <1>3, <1>4 DEF IInv

\* Every step of every handler keeps the invariant.
LEMMA NextIInv == IInv /\ [Next]_vars => IInv'
<1> SUFFICES ASSUME IInv, [Next]_vars PROVE IInv'
    OBVIOUS
<1>1. Durable
    BY DurableStep
<1>2. TypeOK /\ FlightOK
    BY DEF IInv
<1>3. CASE UNCHANGED vars
    BY <1>3 DEF IInv, TypeOK, FlightOK, InFlight, RowsExclusive, RowsAgree, ContractBacked,
       PublishedIsSigned, ApprovedOf
<1>4. ASSUME NEW w \in Worker, BeginStep(w) PROVE IInv'
    BY <1>2, <1>4, TypeBegin, FlightBegin DEF IInv, Invs
<1>5. ASSUME NEW w \in Worker, LockStep(w) \/ Rollback(w) PROVE IInv'
    BY <1>2, <1>5, TypeLock, FlightLock DEF IInv, Invs
<1>6. ASSUME NEW w \in Worker, CommitStep(w) PROVE IInv'
    BY <1>1, <1>2, <1>6, TypeCommit, FlightCommit DEF IInv, Invs
<1>7. CASE \/ \E s \in Submission : RunReport(s)
           \/ \E to \in ListingStatus : PatchListing(to)
           \/ \E r \in Request, withdraw \in BOOLEAN : SubmitChangeRequest(r, withdraw)
    BY <1>7, FlightTask DEF IInv, Invs
<1> QED BY <1>3, <1>4, <1>5, <1>6, <1>7 DEF Next

\* Every committed row and every request in flight is as the invariant says.
THEOREM Invariance == Spec => []IInv
BY InitIInv, NextIInv, PTL DEF Spec

-----------------------------------------------------------------------------
(* The theorems.                                                           *)

\* Every column keeps a value of its type (the CHECK constraints of the tables).
THEOREM TypeCorrect == Spec => []TypeOK
<1>1. IInv => TypeOK
    BY DEF IInv
<1> QED BY <1>1, Invariance, PTL

\* publish_record: a record that was ever offered to the public has a signed
\* contract and a report, although publish checks both before it commits.
THEOREM PublishedSigned == Spec => []PublishedIsSigned
<1>1. IInv => PublishedIsSigned
    BY DEF IInv, RowsAgree
<1> QED BY <1>1, Invariance, PTL

\* dispatch_contract: no contract without an approved submission.
THEOREM ContractHasApproval == Spec => []ContractBacked
<1>1. IInv => ContractBacked
    BY DEF IInv, RowsAgree
<1> QED BY <1>1, Invariance, PTL

\* approve and reject: a decision is never overwritten, however many managers
\* decide at once, because of SELECT ... FOR UPDATE.
THEOREM DecisionIsFinal == Spec => DecisionFinal
<1>1. IInv /\ [Next]_vars
          => [\A s \in Submission : sub[s] \in {"approved", "rejected"} => sub'[s] = sub[s]]_sub
    BY DurableStep DEF Durable
<1> QED BY <1>1, Invariance, PTL DEF Spec, DecisionFinal

\* dispatch_contract: signed_at of a signed contract is never reset.
THEOREM SignatureIsKept == Spec => SignatureKept
<1>1. IInv /\ [Next]_vars => [contract.signed => contract'.signed]_contract
    BY DurableStep DEF Durable
<1> QED BY <1>1, Invariance, PTL DEF Spec, SignatureKept

-----------------------------------------------------------------------------
(* approve dispatches the contract itself.                                 *)

\* The first approval is the only approved submission, so it is sent.
LEMMA DispatchStep ==
    ASSUME IInv, AutoDispatch, [Next]_vars
    PROVE  AutoDispatch'
<1> SUFFICES ASSUME HasAccount, ~ProviderFails, ApprovedOf(sub') # {}
             PROVE  contract'.status # "none"
    BY DEF AutoDispatch
<1>1. Durable
    BY DurableStep
<1>2. CASE sub' = sub
    BY <1>1, <1>2 DEF AutoDispatch, Durable
<1>3. CASE contract.status # "none"
    BY <1>1, <1>3 DEF Durable
<1>4. CASE sub' # sub /\ contract.status = "none"
    <2>1. ApprovedOf(sub) = {}
        BY <1>4 DEF AutoDispatch
    <2>2. PICK w \in Worker : \/ CommitCreateDraft(w) \/ CommitSubmit(w)
                              \/ CommitReject(w) \/ CommitApprove(w)
        <3>1. PICK w \in Worker : BeginStep(w) \/ LockStep(w) \/ CommitStep(w) \/ Rollback(w)
            BY <1>4 DEF Next, RunReport, PatchListing, SubmitChangeRequest
        <3>2. ~BeginStep(w)
            BY <1>4 DEF BeginStep, BeginCreateEvent, LoadCancelEvent, BeginCreateDraft,
               BeginSubmit, BeginApprove, BeginReject, LoadCompleted, LoadDeclined,
               BeginPublish, BeginResolve, BeginRefuse, BeginTransition, Begin
        <3>3. ~LockStep(w) /\ ~Rollback(w)
            BY <1>4 DEF LockStep, LockCancelEvent, LockCompleted, LockDeclined, Rollback, Proceed
        <3> QED BY <1>4, <3>1, <3>2, <3>3 DEF CommitStep, CommitCreateEvent, CommitCancelEvent,
                   CommitCompleted, CommitDeclined, CommitPublish, CommitResolution,
                   CommitTransition
    <2>3. ASSUME NEW new, new # "approved", sub' = [sub EXCEPT ![tx[w].row] = new] PROVE FALSE
        BY <2>1, <2>3 DEF ApprovedOf, IInv, TypeOK
    <2>4. CommitApprove(w)
        BY <2>2, <2>3 DEF CommitCreateDraft, CommitSubmit, CommitReject
    <2>5. /\ sub' = [sub EXCEPT ![tx[w].row] = "approved"] /\ tx[w].row \in Submission
          /\ DispatchContract(ApprovedOf(sub'))
        BY <2>4, DecisionDurable DEF CommitApprove, LockOps
    <2>6. ApprovedOf(sub') = {tx[w].row}
        BY <2>1, <2>5 DEF ApprovedOf, IInv, TypeOK
    <2>7. MaySend(ApprovedOf(sub'))
        BY <1>4, <2>5, <2>6 DEF MaySend
    <2> QED BY <2>5, <2>7 DEF DispatchContract
<1> QED BY <1>2, <1>3, <1>4

\* Automatic dispatch: an approved record of a customer with an account has a
\* contract, unless the provider fails.
THEOREM AutoDispatched == Spec => []AutoDispatch
<1>1. Init => AutoDispatch
    BY DEF Init, AutoDispatch, ApprovedOf
<1>2. IInv /\ AutoDispatch /\ [Next]_vars => AutoDispatch'
    BY DispatchStep
<1> QED BY <1>1, <1>2, Invariance, PTL DEF Spec

-----------------------------------------------------------------------------
(* The signing protocol.  A webhook that is ready holds the contract's row *)
(* and has read the record after taking it, so only it can take the record *)
(* to or from esigned_pending_publish until it commits.                    *)

Signed == [status |-> "completed", signed |-> TRUE]
HoldsContract(t) == t.at = "ready" /\ t.op \in WebhookOps

\* What a request in flight will write to the record.
Writes(t) ==
    /\ t.to = "esigned_pending_publish" => t.op \in {"completed", "transition"}
    /\ t.op = "approve" => t.to = "approved_pending_esign"

SigningOK ==
    /\ status = "esigned_pending_publish" => contract = Signed
    /\ \A w \in Worker : Writes(tx[w])
    /\ \A v, w \in Worker : HoldsContract(tx[v]) /\ HoldsContract(tx[w]) => v = w
    /\ \A w \in Worker :
           HoldsContract(tx[w]) /\ tx[w].op = "declined" /\ tx[w].to = Stay
               => status # "esigned_pending_publish"

\* Reading and deciding, with nothing committed.
LEMMA SigningRead ==
    ASSUME IInv, SigningOK, NEW w \in Worker, NEW t, Begin(w, t) \/ Proceed(w, t), Writes(t),
           HoldsContract(t) => ContractFree /\
               (t.op = "declined" /\ t.to = Stay => status # "esigned_pending_publish")
    PROVE  SigningOK'
<1>1. tx' = [tx EXCEPT ![w] = t] /\ UNCHANGED <<status, contract>>
    BY DEF Begin, Proceed
<1>2. tx'[w] = t /\ \A v \in Worker : v # w => tx'[v] = tx[v]
    BY <1>1 DEF IInv, TypeOK
<1>3. HoldsContract(t) => \A v \in Worker : ~HoldsContract(tx[v])
    BY DEF ContractFree, HoldsContract, WebhookOps
<1>4. \A v, u \in Worker : HoldsContract(tx'[v]) /\ HoldsContract(tx'[u]) => v = u
    BY <1>2, <1>3 DEF SigningOK
<1> QED BY <1>1, <1>2, <1>4 DEF SigningOK, HoldsContract, Writes

\* A first step keeps the contract in step with the record.
LEMMA SigningBegin ==
    ASSUME IInv, SigningOK, NEW w \in Worker, BeginStep(w)
    PROVE  SigningOK'
<1> USE DEF Ready, Loaded, Writes, HoldsContract, WebhookOps, Stay
<1>1. ASSUME NEW t, Begin(w, t), Writes(t), ~HoldsContract(t) PROVE SigningOK'
    BY <1>1, SigningRead
<1>2. ASSUME NEW e \in Event, BeginCreateEvent(w, e) \/ LoadCancelEvent(w, e) PROVE SigningOK'
    BY <1>1, <1>2 DEF BeginCreateEvent, LoadCancelEvent
<1>3. ASSUME NEW s \in Submission, BeginCreateDraft(w, s) \/ BeginSubmit(w, s)
      PROVE  SigningOK'
    BY <1>1, <1>3 DEF BeginCreateDraft, BeginSubmit
<1>4. ASSUME NEW s \in Submission, BeginApprove(w, s) PROVE SigningOK'
    BY <1>1, <1>4 DEF BeginApprove
<1>5. ASSUME NEW s \in Submission, NEW to \in {"new_request", "declined"}, BeginReject(w, s, to)
      PROVE  SigningOK'
    BY <1>1, <1>5 DEF BeginReject
<1>6. CASE LoadCompleted(w) \/ LoadDeclined(w)
    BY <1>1, <1>6 DEF LoadCompleted, LoadDeclined
<1>7. CASE BeginPublish(w)
    BY <1>1, <1>7 DEF BeginPublish
<1>8. ASSUME NEW r \in Request, BeginResolve(w, r) \/ BeginRefuse(w, r) PROVE SigningOK'
    BY <1>1, <1>8 DEF BeginResolve, BeginRefuse
<1>9. ASSUME NEW to, NEW notify, BeginTransition(w, to, notify) PROVE SigningOK'
    BY <1>1, <1>9 DEF BeginTransition
<1> QED BY <1>2, <1>3, <1>4, <1>5, <1>6, <1>7, <1>8, <1>9 DEF BeginStep

\* A webhook's flush admits no second one, so it decides from the contract it will write.
LEMMA SigningLock ==
    ASSUME IInv, SigningOK, NEW w \in Worker, LockStep(w) \/ Rollback(w)
    PROVE  SigningOK'
<1> USE DEF Ready, Writes, HoldsContract, WebhookOps, Stay
<1>1. CASE LockCancelEvent(w)
    <2>1. \E t : Proceed(w, t) /\ Writes(t) /\ ~HoldsContract(t)
        BY <1>1 DEF LockCancelEvent
    <2> QED BY <2>1, SigningRead
<1>2. CASE LockCompleted(w)
    <2>1. \E t : Proceed(w, t) /\ Writes(t) /\ t.op = "completed" /\ ContractFree
        BY <1>2 DEF LockCompleted
    <2> QED BY <2>1, SigningRead
<1>3. CASE LockDeclined(w)
    <2>1. \E t : /\ Proceed(w, t) /\ Writes(t) /\ ContractFree
                 /\ t.to = Stay => status # "esigned_pending_publish"
        BY <1>3 DEF LockDeclined
    <2> QED BY <2>1, SigningRead
<1>4. CASE Rollback(w)
    BY <1>4, SigningRead DEF Rollback, Idle
<1> QED BY <1>1, <1>2, <1>3, <1>4 DEF LockStep

\* A commit of anything but a webhook does not bring the record to signed, and
\* leaves a signed contract alone.
LEMMA SigningCommit ==
    ASSUME IInv, SigningOK, "transition" \notin Ops, NEW w \in Worker, CommitStep(w)
    PROVE  SigningOK'
<1>1. /\ tx'[w] = Idle /\ tx[w].at = "ready"
      /\ \A v \in Worker : v # w => tx'[v] = tx[v]
    BY DEF CommitStep, CommitCreateEvent, CommitCancelEvent, CommitCreateDraft, CommitSubmit,
       CommitApprove, CommitReject, CommitCompleted, CommitDeclined, CommitPublish,
       CommitResolution, CommitTransition, Committing, IInv, TypeOK
<1>2. Writes(Idle) /\ ~HoldsContract(Idle)
    BY DEF Idle, Writes, HoldsContract, Stay
<1>3. /\ \A v \in Worker : Writes(tx'[v])
      /\ \A v, u \in Worker : HoldsContract(tx'[v]) /\ HoldsContract(tx'[u]) => v = u
    BY <1>1, <1>2 DEF SigningOK
<1>4. Writes(tx[w]) /\ InFlight(tx[w])
    BY DEF SigningOK, IInv, FlightOK
<1> DEFINE esigned == "esigned_pending_publish"
           Kept == status' = esigned =>
                       /\ contract' = Signed
                       /\ \A v \in Worker :
                              v # w /\ HoldsContract(tx[v]) /\ tx[v].op = "declined"
                                  => tx[v].to # Stay
<1>5. SUFFICES Kept
    BY <1>1, <1>2, <1>3 DEF SigningOK, HoldsContract
<1>6. ASSUME status' = esigned => status = esigned, contract' = contract
      PROVE  Kept
    BY <1>6 DEF SigningOK
<1>7. ASSUME RecordTransition(tx[w]), tx[w].op \notin {"completed", "transition"}
      PROVE  status' = esigned => status = esigned
    BY <1>4, <1>7 DEF RecordTransition, Writes
<1>8. CASE CommitCreateEvent(w) \/ CommitSubmit(w) \/ CommitReject(w) \/ CommitPublish(w)
               \/ CommitResolution(w)
    <2>1. RecordTransition(tx[w]) /\ tx[w].op \notin {"completed", "transition"}
        BY <1>8 DEF CommitCreateEvent, CommitSubmit, CommitReject, CommitPublish,
           CommitResolution, Committing
    <2>2. contract' = contract
        BY <1>8 DEF CommitCreateEvent, CommitSubmit, CommitReject, CommitPublish,
           CommitResolution
    <2> QED BY <1>6, <1>7, <2>1, <2>2
<1>9. CASE CommitCancelEvent(w)
    <2>1. tx[w].op = "cancel_event" /\ contract' = contract
          /\ status' = IF tx[w].to = Stay THEN status ELSE tx[w].to
        BY <1>9 DEF CommitCancelEvent, Committing
    <2> QED BY <1>4, <1>6, <2>1 DEF Writes
<1>10. CASE CommitCreateDraft(w)
    BY <1>6, <1>10 DEF CommitCreateDraft
<1>11. CASE CommitApprove(w)
    <2>1. RecordTransition(tx[w]) /\ tx[w].op = "approve"
        BY <1>11 DEF CommitApprove, Committing
    <2>2. status' = "approved_pending_esign"
        BY <1>4, <2>1 DEF RecordTransition, Writes, Stay
    <2> QED BY <2>2
<1>12. CASE CommitCompleted(w)
    <2>1. tx[w].op = "completed" /\ contract' = Signed
        BY <1>12 DEF CommitCompleted, Committing, Signed
    <2>2. HoldsContract(tx[w])
        BY <1>1, <2>1 DEF HoldsContract, WebhookOps
    <2> QED BY <2>1, <2>2 DEF SigningOK
<1>13. CASE CommitDeclined(w)
    <2>1. RecordTransition(tx[w]) /\ tx[w].op = "declined"
        BY <1>13 DEF CommitDeclined, Committing
    <2>2. HoldsContract(tx[w])
        BY <1>1, <2>1 DEF HoldsContract, WebhookOps
    <2>3. status' # esigned
        BY <1>4, <2>1, <2>2 DEF RecordTransition, Writes, SigningOK
    <2> QED BY <2>3
<1>14. CASE CommitTransition(w)
    <2>1. tx[w].op = "transition"
        BY <1>14 DEF CommitTransition, Committing
    <2> QED BY <1>4, <2>1 DEF InFlight
<1> QED BY <1>8, <1>9, <1>10, <1>11, <1>12, <1>13, <1>14 DEF CommitStep

\* Every step keeps the contract in step with the record.
LEMMA SigningStep ==
    ASSUME IInv, SigningOK, "transition" \notin Ops, [Next]_vars
    PROVE  SigningOK'
<1>1. CASE UNCHANGED <<status, contract, tx>>
    BY <1>1 DEF SigningOK, Writes, HoldsContract
<1>2. ASSUME NEW w \in Worker, BeginStep(w) \/ LockStep(w) \/ CommitStep(w) \/ Rollback(w)
      PROVE  SigningOK'
    BY <1>2, SigningBegin, SigningLock, SigningCommit
<1> QED BY <1>1, <1>2 DEF Next, RunReport, PatchListing, SubmitChangeRequest

\* The completed and declined webhooks: without an admin override, a record
\* waiting to be published has a completed, signed contract, whatever
\* webhooks and staff requests overlap.
THEOREM EsignedHasContract == Spec => []EsignedIsCompleted
<1>1. CASE "transition" \in Ops
    <2>1. EsignedIsCompleted
        BY <1>1 DEF EsignedIsCompleted
    <2> QED BY <2>1, PTL
<1>2. CASE "transition" \notin Ops
    <2>1. Init => SigningOK
        BY DEF Init, Idle, SigningOK, Writes, HoldsContract, Stay
    <2>2. IInv /\ SigningOK /\ [Next]_vars => SigningOK'
        BY <1>2, SigningStep
    <2>3. SigningOK => EsignedIsCompleted
        BY DEF SigningOK, EsignedIsCompleted, Signed
    <2> QED BY <2>1, <2>2, <2>3, Invariance, PTL DEF Spec
<1> QED BY <1>1, <1>2

-----------------------------------------------------------------------------
(* The status, its trail and the customer's mail.                          *)

\* What a request in flight will do to the record: cancel_event writes beside
\* record_transition, and only to new_request; without an admin's override
\* every status to be mailed is written with its mail.
Announced == NotifiesCustomer \ {"declined"}
Cancels(t) == t.op = "cancel_event" => t.to \in {Stay, "new_request"}
Mails(t) ==
    HasAccount /\ t.op # "transition" /\ t.to \in Announced => t.mail

TrailOK == UntrailedIsNewRequest /\ \A w \in Worker : Cancels(tx[w])
MailOK ==
    /\ HasAccount /\ status \in Announced => status \in mail
    /\ \A w \in Worker : Cancels(tx[w]) /\ Mails(tx[w])

\* Every request writes the record as it means to.
LEMMA RecordRead ==
    ASSUME NEW w \in Worker, BeginStep(w) \/ LockStep(w) \/ Rollback(w)
    PROVE  /\ UNCHANGED record
           /\ \E t : tx' = [tx EXCEPT ![w] = t] /\ Cancels(t) /\ Mails(t)
<1> DEFINE Read == /\ UNCHANGED record
                   /\ \E t : tx' = [tx EXCEPT ![w] = t] /\ Cancels(t) /\ Mails(t)
<1> SUFFICES Read
    OBVIOUS
<1>0. ASSUME NEW t, Begin(w, t) \/ Proceed(w, t), Cancels(t), Mails(t) PROVE Read
    BY <1>0 DEF Begin, Proceed
<1> HIDE DEF Read
<1> USE DEF Cancels, Mails, Announced
<1> USE DEF Ready, Loaded, Idle, Stay, CustomerMail, NotifiesCustomer
<1>1. ASSUME NEW e \in Event, BeginCreateEvent(w, e) \/ LoadCancelEvent(w, e) PROVE Read
    BY <1>0, <1>1 DEF BeginCreateEvent, LoadCancelEvent
<1>2. ASSUME NEW s \in Submission, BeginCreateDraft(w, s) \/ BeginSubmit(w, s) \/ BeginApprove(w, s)
      PROVE  Read
    BY <1>0, <1>2 DEF BeginCreateDraft, BeginSubmit, BeginApprove
<1>3. ASSUME NEW s \in Submission, NEW to \in {"new_request", "declined"}, BeginReject(w, s, to)
      PROVE  Read
    BY <1>0, <1>3 DEF BeginReject
<1>4. CASE LoadCompleted(w) \/ LoadDeclined(w)
    BY <1>0, <1>4 DEF LoadCompleted, LoadDeclined
<1>5. CASE BeginPublish(w)
    BY <1>0, <1>5 DEF BeginPublish
<1>6. ASSUME NEW r \in Request, BeginResolve(w, r) \/ BeginRefuse(w, r) PROVE Read
    BY <1>0, <1>6 DEF BeginResolve, BeginRefuse
<1>7. ASSUME NEW to, NEW notify, BeginTransition(w, to, notify) PROVE Read
    BY <1>0, <1>7 DEF BeginTransition
<1>8. CASE LockCancelEvent(w)
    BY <1>0, <1>8 DEF LockCancelEvent
<1>9. CASE LockCompleted(w) \/ LockDeclined(w)
    BY <1>0, <1>9 DEF LockCompleted, LockDeclined
<1>10. CASE Rollback(w)
    BY <1>0, <1>10 DEF Rollback
<1> QED BY <1>1, <1>2, <1>3, <1>4, <1>5, <1>6, <1>7, <1>8, <1>9, <1>10 DEF BeginStep, LockStep

\* A commit writes the record through record_transition, or as cancel_event does.
LEMMA RecordCommit ==
    ASSUME NEW w \in Worker, CommitStep(w)
    PROVE  /\ tx' = [tx EXCEPT ![w] = Idle]
           /\ \/ UNCHANGED record
              \/ RecordTransition(tx[w])
              \/ /\ tx[w].op = "cancel_event"
                 /\ status' = IF tx[w].to = Stay THEN status ELSE tx[w].to
                 /\ UNCHANGED <<trail, mail>>
BY DEF CommitStep, CommitCreateEvent, CommitCancelEvent, CommitCreateDraft, CommitSubmit,
   CommitApprove, CommitReject, CommitCompleted, CommitDeclined, CommitPublish,
   CommitResolution, CommitTransition, Committing

\* A step of anything but a request's handler leaves the record alone.
LEMMA RecordElse ==
    ASSUME [Next]_vars, \A w \in Worker : ~(BeginStep(w) \/ LockStep(w) \/ CommitStep(w) \/ Rollback(w))
    PROVE  UNCHANGED <<status, trail, mail, tx>>
BY DEF Next, RunReport, PatchListing, SubmitChangeRequest

\* Every step leaves the trail explained.
LEMMA TrailStep ==
    ASSUME TypeOK, TrailOK, [Next]_vars
    PROVE  TrailOK'
<1>1. CASE UNCHANGED <<status, trail, mail, tx>>
    BY <1>1 DEF TrailOK, UntrailedIsNewRequest, Cancels
<1>2. ASSUME NEW w \in Worker, BeginStep(w) \/ LockStep(w) \/ Rollback(w) PROVE TrailOK'
    <2>1. PICK t : UNCHANGED record /\ tx' = [tx EXCEPT ![w] = t] /\ Cancels(t)
        BY <1>2, RecordRead
    <2>2. \A v \in Worker : Cancels(tx'[v])
        BY <2>1 DEF TypeOK, TrailOK
    <2> QED BY <2>1, <2>2 DEF TrailOK, UntrailedIsNewRequest, Cancels
<1>3. ASSUME NEW w \in Worker, CommitStep(w) PROVE TrailOK'
    <2>1. tx' = [tx EXCEPT ![w] = Idle] /\ Cancels(Idle)
        BY <1>3, RecordCommit DEF Idle, Cancels
    <2>2. \A v \in Worker : Cancels(tx'[v])
        BY <2>1 DEF TypeOK, TrailOK
    <2>3. UntrailedIsNewRequest'
        BY <1>3, RecordCommit DEF RecordTransition, TrailOK, UntrailedIsNewRequest, Cancels
    <2> QED BY <2>2, <2>3 DEF TrailOK, Cancels
<1> QED BY <1>1, <1>2, <1>3, RecordElse

\* cancel_event and record_transition: whatever requests overlap, a status the
\* trail does not explain is new_request.
THEOREM TrailExplained == Spec => []UntrailedIsNewRequest
<1>1. Init => TrailOK
    BY DEF Init, Idle, TrailOK, UntrailedIsNewRequest, Cancels
<1>2. TypeOK /\ TrailOK /\ [Next]_vars => TrailOK'
    BY TrailStep
<1>3. TrailOK => UntrailedIsNewRequest
    BY DEF TrailOK
<1> QED BY <1>1, <1>2, <1>3, TypeCorrect, PTL DEF Spec

\* Every step leaves the status mailed.
LEMMA MailStep ==
    ASSUME IInv, MailOK, "transition" \notin Ops, [Next]_vars
    PROVE  MailOK'
<1>1. CASE UNCHANGED <<status, trail, mail, tx>>
    BY <1>1 DEF MailOK, Cancels, Mails
<1>2. ASSUME NEW w \in Worker, BeginStep(w) \/ LockStep(w) \/ Rollback(w) PROVE MailOK'
    <2>1. PICK t : UNCHANGED record /\ tx' = [tx EXCEPT ![w] = t] /\ Cancels(t) /\ Mails(t)
        BY <1>2, RecordRead
    <2>2. \A v \in Worker : Cancels(tx'[v]) /\ Mails(tx'[v])
        BY <2>1 DEF IInv, TypeOK, MailOK
    <2> QED BY <2>1, <2>2 DEF MailOK, Cancels, Mails
<1>3. ASSUME NEW w \in Worker, CommitStep(w) PROVE MailOK'
    <2>1. tx' = [tx EXCEPT ![w] = Idle] /\ Cancels(Idle) /\ Mails(Idle)
        BY <1>3, RecordCommit DEF Idle, Cancels, Mails, Stay, Announced, NotifiesCustomer
    <2>2. \A v \in Worker : Cancels(tx'[v]) /\ Mails(tx'[v])
        BY <2>1 DEF IInv, TypeOK, MailOK
    <2>3. tx[w].op # "transition"
        BY DEF IInv, FlightOK, InFlight
    <2>4. Cancels(tx[w]) /\ Mails(tx[w])
        BY DEF MailOK
    <2>5. HasAccount /\ status' \in Announced => status' \in mail'
        <3>1. CASE UNCHANGED record
            BY <3>1 DEF MailOK
        <3>2. CASE RecordTransition(tx[w])
            BY <2>3, <2>4, <3>2 DEF RecordTransition, MailOK, Mails
        <3>3. CASE /\ tx[w].op = "cancel_event"
                   /\ status' = IF tx[w].to = Stay THEN status ELSE tx[w].to
                   /\ UNCHANGED <<trail, mail>>
            BY <2>4, <3>3 DEF MailOK, Cancels, Announced, NotifiesCustomer
        <3> QED BY <1>3, <3>1, <3>2, <3>3, RecordCommit
    <2> QED BY <2>2, <2>5 DEF MailOK, Cancels, Mails
<1> QED BY <1>1, <1>2, <1>3, RecordElse

\* record_transition's mails: without an admin override, a customer with an
\* account has the mail of every status he is to be told of, except a decline.
THEOREM StatusMailed == Spec => []MailedOnEntry
<1>1. CASE "transition" \in Ops
    <2>1. MailedOnEntry
        BY <1>1 DEF MailedOnEntry
    <2> QED BY <2>1, PTL
<1>2. CASE "transition" \notin Ops
    <2>1. Init => MailOK
        BY DEF Init, Idle, MailOK, Cancels, Mails, Stay, Announced, NotifiesCustomer
    <2>2. IInv /\ MailOK /\ [Next]_vars => MailOK'
        BY <1>2, MailStep
    <2>3. MailOK => MailedOnEntry
        BY DEF MailOK, MailedOnEntry, Announced
    <2> QED BY <2>1, <2>2, <2>3, Invariance, PTL DEF Spec
<1> QED BY <1>1, <1>2

-----------------------------------------------------------------------------
(* The pipeline implements SaleGate.                                       *)

\* Only a committed approval adds an approved submission or a contract.
LEMMA GateStep ==
    ASSUME IInv, IInv', [Next]_vars
    PROVE  [Gate!Next]_(Gate!gate)
<1> DEFINE approved == ApprovedOf(sub) # {}
           sent == contract.status # "none"
           signed == contract.signed
           reported == report # {}
           published == listing # "absent"
<1>1. Durable
    BY DurableStep
<1>2. ApprovedOf(sub) \subseteq ApprovedOf(sub')
    BY <1>1, ApprovedKept
<1>3. signed \in BOOLEAN
    BY DEF IInv, TypeOK, ContractRow
<1> USE DEF Gate!Next, Gate!gate, Gate!Approve, Gate!Sign, Gate!Report, Gate!Publish
<1>4. CASE UNCHANGED <<sub, contract, report, listing>>
    BY <1>4 DEF ApprovedOf
<1>5. ASSUME NEW w \in Worker, CommitApprove(w) PROVE Gate!Approve
    <2>1. /\ contract.status # "none" => contract' = contract
          /\ contract' = contract \/ contract' = [status |-> "sent", signed |-> FALSE]
        BY <1>5, ContractDurable
    <2>2. UNCHANGED <<report, listing>>
        BY <1>5 DEF CommitApprove
    <2>3. ApprovedOf(sub') # {}
        BY <1>5, DecisionDurable DEF CommitApprove, LockOps, ApprovedOf
    <2>4. sent' \in {sent, TRUE}
        BY <2>1
    <2>5. signed' = signed
        BY <2>1 DEF IInv, RowsAgree, TypeOK, ContractRow
    <2> QED BY <2>2, <2>3, <2>4, <2>5
<1>6. ASSUME NEW w \in Worker, NEW op \in LockOps, NEW new, new # "approved", Committing(w, op),
             sub' = [sub EXCEPT ![tx[w].row] = new], UNCHANGED <<contract, report, listing>>
      PROVE  UNCHANGED Gate!gate
    <2>1. ApprovedOf(sub') = ApprovedOf(sub)
        BY <1>2, <1>6, DecisionDurable DEF ApprovedOf, IInv, TypeOK
    <2> QED BY <1>6, <2>1
<1>7. ASSUME NEW w \in Worker, CommitCompleted(w) PROVE Gate!Sign
    <2>1. /\ contract' = [status |-> "completed", signed |-> TRUE]
          /\ UNCHANGED <<sub, report, listing>> /\ tx[w].op = "completed"
        BY <1>7 DEF CommitCompleted, Committing
    <2>2. sent
        BY <2>1 DEF IInv, FlightOK, InFlight, WebhookOps
    <2> QED BY <2>1, <2>2 DEF ApprovedOf
<1>8. ASSUME NEW w \in Worker, CommitDeclined(w) PROVE UNCHANGED Gate!gate
    <2>1. /\ contract' = [contract EXCEPT !.status = "declined"]
          /\ UNCHANGED <<sub, report, listing>> /\ tx[w].op = "declined"
        BY <1>8 DEF CommitDeclined, Committing
    <2>2. sent
        BY <2>1 DEF IInv, FlightOK, InFlight, WebhookOps
    <2>3. sent' /\ signed' = signed
        BY <2>1 DEF IInv, TypeOK, ContractRow
    <2> QED BY <2>1, <2>2, <2>3 DEF ApprovedOf
<1>9. ASSUME NEW w \in Worker, CommitPublish(w) PROVE Gate!Publish
    <2>1. /\ UNCHANGED <<sub, contract, report>> /\ tx[w].op = "publish"
          /\ listing' = "active"
        BY <1>9 DEF CommitPublish, Committing
    <2>2. signed /\ reported
        BY <2>1 DEF IInv, FlightOK, InFlight
    <2> QED BY <2>1, <2>2 DEF ApprovedOf
<1>10. ASSUME NEW s \in Submission, RunReport(s) PROVE [Gate!Next]_(Gate!gate)
    <2>1. /\ UNCHANGED <<sub, contract, listing>> /\ report \subseteq report'
          /\ s \in pdf
        BY <1>10 DEF RunReport
    <2>2. approved
        BY <2>1 DEF IInv, RowsAgree
    <2>3. CASE report' = report
        BY <1>4, <2>1, <2>3
    <2>4. CASE report' # report
        <3>1. report' # {}
            BY <2>1, <2>4
        <3>2. Gate!Report
            BY <2>1, <2>2, <3>1 DEF ApprovedOf
        <3> QED BY <3>2
    <2> QED BY <2>3, <2>4
<1>11. ASSUME NEW to \in ListingStatus, PatchListing(to) PROVE UNCHANGED Gate!gate
    <2>1. published /\ published'
        BY <1>11 DEF PatchListing, ListingStatus
    <2> QED BY <1>11, <2>1 DEF PatchListing, ApprovedOf
<1>12. ASSUME NEW w \in Worker, BeginStep(w) \/ LockStep(w) \/ Rollback(w)
       PROVE  UNCHANGED <<sub, contract, report, listing>>
    <2>1. \E t : Begin(w, t) \/ Proceed(w, t)
        BY <1>12 DEF BeginStep, BeginCreateEvent, LoadCancelEvent, BeginCreateDraft, BeginSubmit,
           BeginApprove, BeginReject, LoadCompleted, LoadDeclined, BeginPublish, BeginResolve,
           BeginRefuse, BeginTransition, LockStep, LockCancelEvent, LockCompleted,
           LockDeclined, Rollback
    <2> QED BY <2>1 DEF Begin, Proceed
<1>13. ASSUME NEW w \in Worker, CommitStep(w) PROVE [Gate!Next]_(Gate!gate)
    <2>1. CASE CommitCreateDraft(w)
        BY <1>6, <2>1 DEF CommitCreateDraft, LockOps
    <2>2. CASE CommitSubmit(w)
        BY <1>6, <2>2 DEF CommitSubmit, LockOps
    <2>3. CASE CommitReject(w)
        BY <1>6, <2>3 DEF CommitReject, LockOps
    <2>4. CASE CommitCreateEvent(w) \/ CommitCancelEvent(w) \/ CommitResolution(w)
                   \/ CommitTransition(w)
        BY <1>4, <2>4 DEF CommitCreateEvent, CommitCancelEvent, CommitResolution,
           CommitTransition
    <2> QED BY <1>5, <1>7, <1>8, <1>9, <1>13, <2>1, <2>2, <2>3, <2>4 DEF CommitStep
<1>14. ASSUME NEW r, NEW withdraw, SubmitChangeRequest(r, withdraw)
       PROVE  UNCHANGED <<sub, contract, report, listing>>
    BY <1>14 DEF SubmitChangeRequest
<1> HIDE DEF Gate!Next, Gate!gate, Gate!Approve, Gate!Sign, Gate!Report, Gate!Publish
<1> QED BY <1>4, <1>10, <1>11, <1>12, <1>13, <1>14 DEF Next

\* Whatever the interleaving, a record is offered to the public only after its
\* appraisal was approved, its agreement sent and signed, and a report written.
THEOREM GateImplemented == Spec => ImplementsGate
<1>1. Init => Gate!Init
    BY DEF Init, Gate!Init, ApprovedOf
<1>2. IInv /\ IInv' /\ [Next]_vars => [Gate!Next]_(Gate!gate)
    BY GateStep
<1> QED BY <1>1, <1>2, Invariance, PTL DEF Spec, ImplementsGate, Gate!Spec
===========================================================================
