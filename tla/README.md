# Verification of the consignment API

TLA+ models of the back end of the equipment consignment platform (`src/api`,
with the workers of `src/scripts` and the lock hook of the web client), TLC
configurations that check them on small instances, and TLAPS proofs that hold
for every instance. Paths below are relative to the repository's `src/`
directory unless they start with `src/`.

## The system

The platform takes in heavy equipment that its owners want to sell. A record
goes from an intake request through an on-site appraisal, a manager's approval,
an electronically signed consignment agreement and a generated report to a public
listing. The API is FastAPI over PostgreSQL: every HTTP request runs in one
READ COMMITTED transaction (`api/database/base.py:42-57`) that a 4xx or 5xx answer
rolls back; requests of staff, customers and the eSign provider run concurrently,
and only row locks and unique indexes order them. Slow effects (mail, SMS, push)
go through a durable queue that separate worker processes drain; a poller probes
the integrations and an hourly sweep erases what is due.

| Part | State it keeps | Operations | Correct when |
|---|---|---|---|
| record pipeline: status machine, submissions, approvals, eSign, reports, publishing, change requests, listings, admin override | record status, trail, mails, submission, contract, report and listing rows | `record_transition`, `create_draft`, `submit`, `approve`, `reject`, `dispatch_contract`, the webhooks, the report task, `publish_record`, ... | nothing is public unsigned or unreported; a decision and a signature stay |
| intake and lead routing | rules with priority slots and a round-robin position, records, the default rep | `submit_intake`, rule create / update / delete / reorder, `test_rule`, `apply_assignment`, `deactivate_user` | each turn is given out once; the dry run tells the truth; work reaches an active rep |
| calendar | visits, record status | create, update (move, address), cancel, hand-over | visits of one appraiser leave time to drive; a record is scheduled exactly while it has a visit |
| record locks and their web client | lock rows, what a user believes | acquire, heartbeat, release, override, edits under the lock | a live lock is kept; an abandoned one goes away; edits are not lost |
| accounts and sessions | user row, sessions, recovery codes; signed tokens outside | login, second factor, refresh, reset, change, deletion, sweep | a cut-off cuts off; erased data stays erased |
| category catalog and appraisal submissions | versioned categories, prompts and rules; scores, flags, photos, snapshots | catalog edits and imports, drafts, scores, submit, finalize | history is a line; a submitted appraisal keeps saying what it said |
| notification queue | `notification_jobs` | enqueue, claim, dispatch, record | no double dispatch, bounded retries, every job settled |
| notices | watchers, preferences, template overrides | `record_transition` as it tells people | every watcher is told, over a channel he chose |
| integrations and health | encrypted credentials with a test badge, health rows | store, test, health pass, refresh | a badge speaks of the stored secret; one alert per outage and cooldown |
| customers and exports | customers, records, export jobs and files | access, submit, walk-in, delete, export | deletion reaches the records; an export is complete and nobody else's |
| retention | audit partitions, expired rows | the sweep and its scripts | a committed sweep leaves nothing overdue |
| configuration, pricing, valuation, reporting, legal texts, inquiries, device tokens, seeds, web pages, iOS app | single rows, or local to a device | | not modelled, see the end |

The parts interact through the database. `record_transition` is called by every
pipeline operation and enqueues jobs under idempotency keys, which the workers
claim; `update_assignment` and `publish` ask `ensure_lock_held` for the lock;
`deactivate_user` reassigns records and visits; a category edit changes what a
draft is judged by; the sweep erases accounts. The hard behaviours are all about
time between a read and a write: guards evaluated on a snapshot, webhooks
delivered twice or in either order, locks that expire between check and use,
turns that two intakes claim at once, workers that die between claim and
dispatch. `PROJECT.json` lists each such hazard with its line.

## Modules

| Module | Models | Checked by | Proved in |
|---|---|---|---|
| `Consignment` | one record, from intake to listing: all operations that change its status | `MCConsignment` | `Consignment_proofs` |
| `SaleGate` | the abstract promise to the owner: approve, send, sign, report, then publish | refined by `Consignment` | `Consignment_proofs` |
| `RecordLock` | the lock of one record, its users' tabs and their edits | `MCRecordLock` | `RecordLock_proofs` |
| `NotificationQueue` | the queue and its workers | `MCNotificationQueue` | `NotificationQueue_proofs` |
| `Delivery` | the abstract promise of one notification: asked for, taken, sent, answered or lost | refined by `NotificationQueue` | `NotificationQueue_proofs` |
| `Account` | one account with its sessions, tokens and deletion | `MCAccount` | `Account_proofs` |
| `LeadRouting` | intakes, routing rules, reassignment | `MCLeadRouting` | `LeadRouting_proofs` |
| `Calendar` | visits and their conflicts | `MCCalendar` | `Calendar_proofs` |
| `Catalog`, `Appraisal` | the versioned catalog, and submissions filled in while it changes (`Appraisal` extends `Catalog`) | `MCAppraisal` | `Appraisal_proofs` |
| `Integrations` | credentials, badges, health passes and alerts | `MCPlatform` | `Platform_proofs` |
| `Customers` | customers, their records, exports | `MCPlatform` | `Platform_proofs` |
| `Retention` | audit partitions and sweeps | `MCPlatform` | `Platform_proofs` |
| `Notices` | whom a transition tells | `MCPlatform` | `Platform_proofs` |

A request is as a rule a `Begin...` step that reads and applies all guards, and a
`Commit...` step that writes what was decided, whatever has been committed in
between; the ORM writes only the columns that differ from those it read, and the
commit steps do the same. Row locks and unique indexes are guards of the step
that meets them. `Rollback`, `Fail`, `Abandon...` is a lost process, an integrity
error or a 4xx answer. A *scenario* (`Scenario`, `Load`, `Errand`, `Chore`,
`Topic`) names the operations that occur in one behaviour: it keeps operations
that share no row out of one state space. The guard of each operation asks for
it; the proofs hold for any scenarios.

**Consignment.** Records share no rows, so one record stands for all. The
variables are the committed rows (`status`, `trail`, `mail`, `event`, `sub`,
`contract`, `pdf`, `report`, `request`, `listing`) and `tx`, the request each
handler is running. `cancel_event` and the webhooks flush one row *before* they
read the record, so they have a `Load...`, a `Lock...` and a `Commit...` step.
`SELECT ... FOR UPDATE` on a submission is `LockFree`; the partial unique indexes
are guards of the commit. `dispatch_contract` runs inside approve's commit because
it is ordered by the record's row lock after the flush; its `scalar_one_or_none`
needs exactly one approved submission (`MaySend`), and approve swallows what goes
wrong. Envelopes, prices, scores and texts are not distinguished. The title hold
that approve refuses is left out: it only removes behaviours.

**RecordLock.** The lock row has an identity, because acquire and override delete
by the id they read. Time is discrete: `left` is what remains of the TTL, `Tick`
counts it down, and a request may take up to `Delay` ticks between its reading of
the clock and its write. `belief` is what a user's client believes, `broken` the
users whose lock was overridden. An `editor` of `"late"` is a write that landed
after the lock of its check was gone; `cascade_assignment`, which writes without
a lock by design, is `Cascade` and counts as late.

**NotificationQueue.** `LockBatch` is the SELECT ... FOR UPDATE SKIP LOCKED,
`CommitClaim` the committed UPDATE, `Dispatch` the end of the provider call,
`Record` the row's update, and `Fail` a crash or an exception at any of these
points. `attempts` is the row's counter, `tries` what the workers really did.

**Account.** `user`, `sessions` and `codes` are rows; `access`, `partial` and
`links` are the signed tokens the owner holds, which no row takes back. `cuts`
counts what revokes all sessions (reset, new address, deletion request); a login
carries the count it began with, and whether another request was under way
(`over`). `failed_login_count` and `locked_until` are left out: they are written
only just before the 401 that undoes the write.

**LeadRouting.** `Claim` is the UPDATE ... RETURNING of the position, with its row
lock held until the request ends; the list of reps is the one read before it. A
reorder locks its bucket and is checked after every row update, because the
unique index is (`Collides`). The distance to a metro centre has one dimension.
`crossed` has the reps whose deactivations overlapped.

**Calendar.** The conflict check fixes the rows it will look at (`rows`), waits for
those that are locked, and reads them as they are by then; what was inserted or
moved in meanwhile is `unseen`, which is how PostgreSQL's READ COMMITTED works.

**Catalog and Appraisal.** An edit of a category, prompt or rule marks the row
replaced and inserts a successor (`origin`, `version`); components and slots change
in place. `forked` and `crossed` keep what two overlapping requests did to one
row. Scores are integers in hundredths, as the code's `Decimal` with two places;
`CalculateOverall` rounds as it does.

**MCPlatform** instantiates four components that share no variable and lets each
behaviour be one of one of them, which is one state space of the size of their
sum.

## Runs

| Run | Question | Bounds |
|---|---|---|
| `pipeline` | do rows stay in step under any overlap of two requests? | 2 handlers, 2 submissions, 1 event, 1 change request |
| `override` | does the pipeline implement `SaleGate` even with an admin who moves the record and a provider that fails? | 2 handlers, 2 submissions, two target statuses |
| `lock` | is a lock exclusive, kept while live, and does it protect edits? | 2 users, 3 tabs (one user has two), a manager, TTL 3, delay 1; 1.3 million states |
| `abandoned` | is the lock of a user who vanished freed? | the same users and tabs; 52 thousand states |
| `queue` | are claims exclusive, does the queue implement `Delivery`, and does every job settle, with failing workers? | 2 workers, 3 jobs, batches of 2, 2 attempts |
| `accounts` | do cut-offs hold, does an erasure happen and stay? | 2 requests, 2 sessions, 1 recovery code, 2 cut-offs, 4 scenarios |
| `routing` | are turns exact, does the dry run predict, what can a reorder and a deactivation meet? | 2 requests, 3 rules, 2 records, 2 reps, 2 customers, 2 turns, 4 scenarios; 0.9 million states |
| `calendar` | do visits keep their distance and agree with the records, and who can deadlock? | 2 requests, 2 visits, 2 appraisers, 2 records, times 0, 1, 3; 1.3 million states |
| `catalog` | is history a line, and does a submitted appraisal keep its meaning? | 2 administrators and 2 appraisers at once at most, 3 categories, 3 prompts or rules, 1 submission |
| `platform` | the promises of the four components beside the pipeline | two requests, passes or sweeps of each, 4 months, 3 clock ticks; 1.2 million states |
| `bad_webhook`, `bad_calendar` | what the repository says and the code does not do | the smallest instance that shows it |

Two handlers are enough for every lost-update pattern, since a handler reads once
and writes once; a third only repeats one side. Two submissions are what `MaySend`
distinguishes (none, one, several). Two tabs of one user and one of another are
the least in which a release, a refresh and a foreign acquire can overlap. Three
jobs with batches of two make claims partial, and two attempts show both outcomes
of a retry. Two turns let a rotation of two reps go round once and a rotation of
one wrap. Times 0, 1 and 3 hold a clash, a neighbour the drive fits before, and one
out of reach; visits have a site or none, so both the computed drive and the
fallback occur. Two sessions are a login and its rotation, or two logins around a
cut-off. Three catalog rows are a bundle's own, its successor and one more of an
overlapping edit. Four months let a sweep be missed for as long as it prepares
ahead. Symmetry is used where no liveness is checked, on values that no property
and no `CHOOSE` tells apart. Deadlock is not checked: nothing obliges people to
act, and the small sets of fresh rows run out. What a real deadlock could be,
requests that wait for each other's rows, is stated instead (`OnlySwapsDeadlock`).

*pipeline, override.* `PublishedIsSigned` and `EsignedIsCompleted` relate rows that
different requests write without a common lock. `DecisionFinal` and
`SignatureKept` are action properties. `ImplementsGate` is the refinement of
`SaleGate`.

*lock, abandoned.* `BeliefSound`: who takes the lock for his has it for exactly as
long as he thinks (or a manager broke it). `LiveLockKept`: a live lock goes only by
its owner's release or an override. `EditKeepsOthers`: while the lock of its check
is there, an edit overwrites no foreign edit it has not seen. These need
`SlackAssumption` (`Delay <= Margin` and `TTL > 2 * Delay`): a holder uses a lock
only while more than `Margin` ticks are left, which `useRecordLock` arranges with a
heartbeat a minute against a TTL of fifteen; without it a slow heartbeat and an
acquirer that read the expired row break the first two.

*queue.* `ClaimExclusive`. `ImplementsDelivery` is the refinement of `Delivery`, in
which there are no batches, transactions, backoffs or row locks: a notification is
waiting, held by one worker, lost with it, or ended. The mapping reads its phase off
the row's status - a row in processing that is in no worker's batch is lost - its
holders off the batches, and compares the dispatches there were (`tries`) with the
attempts the row counts. So a batch is taken whole from what waits, a worker sends
what it holds once before the answer is written, a retry waits again only while an
attempt is left, a settled job is never touched again, and a job is lost only with
the worker that held it. `EveryJobSettles`: every job that is not lost is settled.

*accounts.* `CutOffHolds`: a session lives past a cut-off only if its login or a
rotation was under way at the time. `ErasureIsFinal`, `ErasureHappens`.

*routing.* `TurnsExact` ("concurrent intakes don't double-assign or skip"),
`TestPredicts`, `ReorderFits` (a reorder that cannot be written has met a rule
created after it locked the bucket), `HandedToActive`.

*calendar.* `BookedApart`: two visits of one appraiser that some check compared
leave the drive between them. `VisitsMatchStatus` ties visits to the record's
status. `OnlySwapsDeadlock`: requests wait for each other only when each moves a
visit the other has checked against.

*catalog.* `OneCurrent` (one current version, no number twice, except after two
requests replaced the same row at once), `DeletedUnused`, `HistoryStands` (flag and
score follow from what was snapshotted), `PhotosKept`.

*platform.* `AlertsRight`, `BadgeTruthful`, `CascadeReaches`, `ExportFaithful`,
`SweepHolds`, `NoticesReach`.

Several of these are weaker than one would wish: "unless two requests crossed" is
what the code guarantees, and the exceptions are in history variables (`crossed`,
`forked`, `late`, `mixed`, `stale`) that only an overlap of the named kind fills, so
that any other way to break the property is found.

**Fairness.** `RecordLock`: the clock runs, a begun request ends, and the user who
still waits keeps asking, between his other requests (SF on his acquire) - the
client retries acquire. `NotificationQueue`: a worker's loop goes on (WF), the
backoff ends (WF), and a job is claimed at last (SF on its claim and its commit):
batches are taken in the order of `scheduled_for`, so no job is passed over for
ever, and workers do not die every time at the same point. `Account`: requests end
and tokens expire (WF); the grace period ends (SF, because a request that is under
way puts its end off in the model, and people do not keep an account busy for
thirty days without a break); the sweep is begun (WF) and gets through (SF): it
runs every hour, for ever, and an abandoned one changes nothing. Nobody is assumed
to act: no fairness is put on a person's request. The other modules have no
liveness.

## Proofs

All theorems are about the modules' specifications, for any constants that satisfy
the named assumptions. In each module the properties speak of committed rows and
are not inductive: a commit is right only because of what its request still knows.
`IInv` adds that, and one lemma per action preserves it.

`Consignment_proofs`: `TypeCorrect`, `PublishedSigned`, `EsignedHasContract`,
`DecisionIsFinal`, `SignatureIsKept` and `GateImplemented` (`Spec => Gate!Spec`).
`FlightOK` says that a request that holds a submission finds it as it read it, and
a publish in flight has its signature and report; `RowsExclusive` that two requests
never hold one submission. `DurableStep` shows that approvals, contracts, signatures
and reports are never taken back - the step that carries the weight is
`ContractDurable`: a second approval makes two approved submissions, so
`dispatch_contract` cannot reset an existing contract. Four theorems state more than
a run checks: `ContractHasApproval`, `AutoDispatched` (an approval without a
contract is one whose sending failed), `TrailExplained` (overlap never leaves a
status without its trail, except where `cancel_event` writes it directly) and
`StatusMailed` (the customer has the mail of the status the record is in, except
after a rejection).

`NotificationQueue_proofs`: `TypeCorrect`, `ClaimsExclusive`, `DeliveryImplemented`
(`Spec => D!Spec`), and beyond the run `TriesAreBounded` (real dispatches, not only
the counter), `SettledIsFinal` and `FaultsStrandOnly`. A locked row is pending, a
batch is processing (`ClaimsOK`), and a row's count differs from its dispatches only
by the one whose result is not recorded (`CountsOK`). For the refinement each action
has a lemma that names its image: `EnqueueAsks`, `CommitClaimTakes`, `DispatchSends`,
`RecordAnswers`, `FailGivesUp`; locking a batch and the passing of the backoff are
stutters. `CountsOK` is what makes an answer the answer to the one dispatch since
the claim, and `ClaimsOK` what lets a claim take only what waits and nobody holds.

`RecordLock_proofs`: `TypeCorrect`, `BeliefsHold`, `LiveLocksStay`,
`EditsKeepOthers`, from `SlackAssumption`. A request in flight adds its age to what
the row has left: a refresh finds a row that is live until it is over
(`RefreshOK`), an insert deletes only a row that was expired when it read it and is
still (`InsertOK`), and the id it read ties the rest to the row (`OverrideOK`,
`AssignOK`). A pool of ids larger than the tabs (`IdAssumption`) is what makes a
fresh id exist.

`Account_proofs`: `TypeCorrect`, `CutOffsHold`, `ErasureFinal`. Every login that can
become a session is current or overtaken (`CutsOK`); for the erasure, an account
that is *doomed* (erased, past its grace period or being swept) is *settled*: no
token, link, session or request is left that could use it (`DoomOK`).

`LeadRouting_proofs`: `TypeCorrect`, `TurnsGivenOnce`, `HandsOver`, `DryRunAgrees`,
`ReordersFit`. A request that holds a turn holds the position's next value, no two
hold one rotation's (`TurnsApart`, from the row lock), and a rolled-back one has
written nothing. For the hand-over: whatever the one who leaves is given after his
deactivation has read his records comes from a deactivation that was running too
(`HandsOK`). `Typed` adds to the types what a request will write (`WorkOK`): a patch
has values of its field's type, and the rules a reorder has locked stay in its
bucket, each once (`OrderOK`) - with which `TypeOK`, which has migration 017's
unique index among its parts, is inductive: without the check after each row update
a reorder could break it. From `RuleAssumption` (finitely many rules) the
renumbering is a bijection, and from `RotationAssumption` a rotation lists reps.

`Calendar_proofs`: `TypeCorrect`, `VisitsApart`, `StatusMatches`,
`SwapsOnlyDeadlock`, from `TimeAssumption` and `DayAssumption` (a visit and the
drive after it fit in the window the check looks at; without it the check would
look too near). `KnownOK` says what a booking knows of each other visit: that it
has it to check, that it leaves room, or that it has missed it.

`Appraisal_proofs`: `TypeCorrect`, `HistoryIsALine`, `DeletedNotUsed`, `HistoryStays`,
`PhotosAreKept`, and two action properties beyond the run: `WordingFixed` (no step
changes what a prompt or rule asks, nor its version, so what a snapshot names can be
read for ever) and `SubmittedOnce` (no step, a late commit of an edit included,
changes the status, snapshot or flag of a submitted appraisal: submit holds the row
from its check of the draft to its commit). Two invariants carry them.

`CatalogInv`: the current row of an unforked history has its greatest version
number (`Line`), and that is still so, unless the history is marked, for a request
that read the row as current; the rows an import has read are of different
histories (`ReadApart`). One lemma, `LineKept`, then covers the edit, the version
of a category and both imports, which all mark rows replaced and insert successors
numbered one higher. A request that counted the records of a category it deletes
has counted all but those in `stale`.

`FieldInv`: a snapshot names rows as they still are (`Noted`, from `WordingFixed`),
what submit notes is of the category the row still has, because submit holds the
row (`LocksApart`), and a retake replaces photos of its own slot only
(`PhotoKnows`). For scores: every double of a component has a number of its own
(`Numbered`), what a request read a row for still has one (`KeysIn`), and the
doubles there are and the requests that will still add one are together no more
than the requests at once (`ScoresOK`); from this `Landed`, what a commit leaves of
the rows, adds one row or replaces one, and where nobody else scored it is what the
request averaged (`Inserted`, `Replaced`, `Uncrossed`). That an average lies in
0..500 needs `FoldSet` to return a natural number: `FoldsAgree` and `FoldsExist`
show that the recursive function behind it exists, with the smallest
counterexample of a well-founded order (`Smallest`) where one would use induction.
Assumed are `FileAssumption` (an imported file holds what an export writes; the
importer itself checks neither status nor weights), `FieldAssumption` (finitely
many requests at once) and `RawAssumption`.

`Platform_proofs`: for each of the four components its types and its promise, and
`TypeCorrect` for all of them together. `Separate` says that a behaviour of
`MCPlatform` is one of each component, since they share no variable; the other
theorems are about the component alone, a stronger statement.

- `DeletionReaches`, `ExportsAreFaithful`: from what a request read and is still
  its user's (`ProfileKept`, `DeletionKnows`, `ExportKnows`).
- `SweepsHold`: a row is in the default partition exactly when its month has no
  partition of its own, a partition that a running sweep makes has no rows to move
  (`MakingOK`), and what was due before a sweep began is in what it deletes
  (`DeletingOK`).
- `BadgesTruthful`: the secret a test has read is still stored unless the
  integration is marked `mixed`, and a badge of "none" stays that under a save that
  has read it (`RequestKnows`).
- `AlertsAreRight`: every pass writes the database's row first, and keeps it locked
  to its commit, so only one pass has written anything (`OneWrites`). What that one
  read of the other rows is what is stored, unless it read them before it waited
  (`SeenOK`); the row of a service names its last alert (`HealthOK`), and what the
  pass is about to write names its own (`WroteOK`). Assumed are a positive
  `Cooldown` and that `Order` lists every service once, the database first.
- `NoticesAllReach`: whoever watches all along is told or still to be told, over a
  channel he has had meanwhile (`ChangeOK`).

Only model-checked: liveness (`AbandonedLockFreed`, `EveryJobSettles`,
`ErasureHappens`), which is out of the prover's reach. Every invariant and every
action property that a passing run checks, and both refinements, are also theorems.
What `CalculateOverall` computes is proved as far as its range and its value
without rows go; that it is the weighted mean is its definition. TLC evaluates the
assumptions of the constants on every instance.

## Where the repository and the code disagree

Two disagreements have a run with a counterexample (`bad_webhook`, `bad_calendar`;
see `findings`). Others that the models made visible, without a run of their own:

*Pipeline*

- `record_transition` checks the denylist on an unlocked read, so two overlapping
  requests can take an edge that "must always be blocked"
  (`api/services/equipment_status_service.py:97-107`,
  `api/services/equipment_status_machine.py:17-18`).
- Two resolutions of one change request can both pass the check and the later
  overwrites the earlier (`api/services/change_request_service.py:208-211`).
- `cancel_event` assigns the status without `record_transition`, which the same
  file calls the single entry point (`api/services/calendar_service.py:311`, `:23`).
- A record that re-enters a status mails nothing, and a newly assigned rep is told
  nothing: the idempotency key of the first mail swallows the second
  (`api/services/equipment_status_service.py:163-164` says that is "blocked
  upstream"; it is not).
- `reject` declines a record without mailing the customer
  (`api/services/approval_service.py:241`), although `declined` sets
  `notifies_customer` (`api/services/equipment_status_machine.py:68`).
- `publish_record` tests `signed_at` and not that the contract is completed
  (`api/services/sales_service.py:346`; `dev_plan/03_phase3_sales_crm.md:75`); only
  an admin's override makes the difference visible.
- A declined contract is not re-sent after a second approval: two approved
  submissions make `scalar_one_or_none` raise (`api/services/esign_service.py:80`,
  against `:121`), and a record approved again after its contract was completed
  cannot reach `esigned_pending_publish` (`api/routers/esign.py:160`).
- A failed report has no retry.

*Locks and the queue*

- An edit checks the lock, then writes after it may have gone
  (`api/services/sales_service.py:144`, `dev_plan/03_phase3_sales_crm.md:241`).
- A slow heartbeat can refresh a lock that an acquirer has just read as expired
  and then deletes (`api/services/record_lock_service.py:106`, `:157`).
- One tab's release deletes the lock that another tab of the same user edits under
  (`api/services/record_lock_service.py:187`).
- Every override after the first of the same user's lock on the same record
  notifies nobody (`api/routers/record_locks.py:206`).
- A worker that dies after its claim strands the batch
  (`scripts/notification_worker.py:74`), though
  `api/services/notification_service.py:12` says "At-least-once"; e-mail failures
  are swallowed below the queue and recorded as delivered (`:234`).

*Accounts*

- `account_deletion_service.py:9-12` lets a user who waits for deletion "log in
  normally"; login and refresh refuse him, which makes the race of a cancellation
  with the sweep unreachable.
- `failed_login_count` and the lockout are written just before a 401 that `get_db`
  rolls back, so they never take effect (`api/services/auth_service.py:345`, `:372`;
  `dev_plan/11_security_baseline.md:70`).
- A login or a refresh that overlaps a password reset survives it
  (`dev_plan/11_security_baseline.md:24`); `CutOffHolds` names the overlap.
- Deactivating an account in its grace period drops the erasure. A rep's deletion
  request leaves his records with him; only `deactivate_user` reassigns.

*Intake, routing and calendar*

- Ad hoc rules are taken in the order of an unsorted SELECT
  (`api/services/lead_routing_service.py:108`); a deactivated rep whom a rule or the
  default still names keeps getting records.
- A database error inside routing aborts the transaction, so the intake is lost,
  though `api/services/equipment_service.py:165` says "A failure here must not block
  intake". Two first intakes of one customer at once: one fails.
- The priority check of a rule is not locked (`lead_routing_service.py:449`): the
  loser of a race gets a 500 from the index, not the 409.
- Deactivation overwrites a concurrent reassignment
  (`api/services/admin_user_service.py:204`), and two that cross leave work with
  somebody deactivated. Its hand-over of visits checks no conflicts (`:252`).
- Migration 017's backfill of duplicate priorities can make new duplicates
  ({1, 1, 2} becomes {1, 2, 2}), and then the index cannot be created.
- Two moves that swap places deadlock (`api/services/calendar_service.py:362-375`);
  a duplicate cancel that comes late reverts the record of a new booking (`:285`);
  a change of the address alone is not checked (`:233`); "409 always includes a next
  available hint" (`:16`) but the hint may be None (`:425`) and ignores the drive.

*Catalog and appraisals*

- Superseding a category gives it a new id and leaves prompts, rules, components
  and slots with the replaced row, which stays "active" and is still offered
  (`equipment_service.py:83-86`; `dev_plan/04_phase4_admin_panel.md:218`). Deletion
  counts the records of the current row only (`:219`).
- `submit` claims a snapshot consistent with a concurrent supersede
  (`api/services/appraisal_submission_service.py:185-190`); nothing locks the
  catalog. `update_draft` checks the status unlocked and can update after a submit;
  overlapping score updates lose contributions; two edits of one prompt both
  supersede it; photo slots are matched by label only, and `finalize` accepts photos
  after the submission.
- An import with duplicate labels supersedes one row twice, and ignores `active` of
  items it matches. It takes any weight (`admin_category_service.py:874`), where the
  forms ask for 0 to 100 and `scoring_service.py:52` says "any positive float".

*Integrations, notices, customers, retention*

- A test and a store that overlap leave a badge of another secret ("previous test
  result is no longer authoritative", `api/services/admin_credentials_service.py:249`).
- The administrator's refresh lists the rows before it runs
  (`api/routers/admin_health.py:51-53`), so it can alert a second time within the
  cooldown ("two pollers racing the alert produce one set of jobs").
- Alert jobs carry only `variables`, and the dispatchers want a subject and a body
  (`api/services/health_check_service.py:276-306`,
  `api/services/notification_service.py:227`): every alert job ends `failed`, against
  `dev_plan/04_phase4_admin_panel.md:199`. `AlertsRight` is about queued alerts.
- A Twilio credential that is JSON but no object raises in `_parse_twilio`, so the
  test answers 500 and every health pass fails
  (`api/services/integration_testers/__init__.py:17-19` promises "graceful failure").
- A template override is stored without being rendered; one bad override of
  `status_update` blocks every customer-facing transition that has a recipient.
  Watchers over SMS get the e-mail's HTML. `communication_prefs.status_updates` is
  never consulted.
- `ensure_profile` ignores `deleted_at`; a walk-in is never linked at registration;
  the failure row of an export is rolled back (`request_export`'s docstring), and a
  zip can stay in storage with no job.
- `fn_ensure_audit_partitions` does not "migrate rows out of" the default partition
  (`api/alembic/versions/003_partition_audit_logs_by_month.py:112-114`): once the
  default holds a row of a month to be prepared (after three months without a
  sweep), CREATE TABLE ... PARTITION fails, and with it, in one transaction,
  deletion, erasure and scrubbing, for good. `Account`'s fairness assumes that
  sweeps succeed. `audit_pii_retention_days` is called configurable but is not in
  the registry.

## Not modelled

- *Price re-approval*: no route passes `proposed_consignment_price`, so the state it
  guards is unreachable.
- *Configuration*: typed reads and single-row writes with a short cache. *Seeds and
  the bundle script* run before the system serves; importing itself is
  `Catalog`'s `BeginImport`, `CommitImport`.
- *Reporting, valuation, maps, legal texts, inquiries, device tokens, rate limits*:
  reads and single-row inserts without protocol state. APNs has no tester and its
  dispatch is skipped; rate-limit counters are written in the request's transaction
  and roll back with it.
- *Rendering, wording, display orders, attachments, audit rows*: no property is
  about them.
- *Upload of photos to storage and intake photos*: their finalize is one insert.
  *Roles*: grants and revocations are single rows.
- *Web pages and the iOS app*: clients of the modelled endpoints; the lock hook is
  in `RecordLock`.

What could be added next: the iOS app's manual retry as a client of `CreateDraft` and
`submit`.
