------------------------- MODULE NotificationQueue -------------------------
(***************************************************************************)
(* The durable notification queue: rows of notification_jobs that the API  *)
(* inserts (notification_service.enqueue) and any number of worker         *)
(* processes drain (scripts/notification_worker).                          *)
(*                                                                         *)
(* A worker claims a batch in one transaction - SELECT ... FOR UPDATE SKIP *)
(* LOCKED, then UPDATE ... 'processing' - commits it, and then dispatches  *)
(* the jobs one by one, each in a transaction of its own that records the  *)
(* result.  Nothing ever claims a 'processing' row again.                  *)
(***************************************************************************)
EXTENDS Naturals, FiniteSets

CONSTANTS
    Worker,        \* worker processes
    Key,           \* idempotency keys of the jobs
    Via,           \* the channel of each job
    MaxAttempts,   \* notification_jobs.max_attempts
    BatchSize      \* WORKER_BATCH_SIZE

ASSUME QueueAssumption ==
    /\ MaxAttempts \in Nat \ {0}
    /\ BatchSize \in Nat \ {0}
ASSUME KeyAssumption == "none" \notin Key

VARIABLES
    status,     \* notification_jobs.status, or "absent"
    attempts,   \* notification_jobs.attempts
    due,        \* keys with scheduled_for in the past
    locked,     \* rows each worker's claim transaction has locked
    batch,      \* claimed jobs a worker has still to record
    result,     \* what the dispatch of a worker's current job came to
    tries       \* dispatches started, per key, counted up to TriesCap

vars == <<status, attempts, due, locked, batch, result, tries>>

TriesCap == MaxAttempts + 1

Status  == {"absent", "pending", "processing", "delivered", "failed", "skipped"}
Settled == {"delivered", "failed", "skipped"}
NoResult == [job |-> "none", status |-> "none"]
Result == [job : Key, status : Settled \cup {"retry"}]

\* The rows and the workers hold values of their types.
TypeOK ==
    /\ status \in [Key -> Status]
    /\ attempts \in [Key -> 0..MaxAttempts]
    /\ due \subseteq Key
    /\ locked \in [Worker -> SUBSET Key]
    /\ batch \in [Worker -> SUBSET Key]
    /\ result \in [Worker -> Result \cup {NoResult}]
    /\ tries \in [Key -> 0..TriesCap]

Init ==
    /\ status = [k \in Key |-> "absent"]
    /\ attempts = [k \in Key |-> 0]
    /\ due = {}
    /\ locked = [w \in Worker |-> {}]
    /\ batch = [w \in Worker |-> {}]
    /\ result = [w \in Worker |-> NoResult]
    /\ tries = [k \in Key |-> 0]

-----------------------------------------------------------------------------
\* enqueue: ON CONFLICT (idempotency_key) DO NOTHING.
Enqueue(k) ==
    /\ status[k] = "absent"
    /\ status' = [status EXCEPT ![k] = "pending"]
    /\ due' = due \cup {k}
    /\ UNCHANGED <<attempts, locked, batch, result, tries>>

\* The backoff of a retried job runs out.
ComeDue(k) ==
    /\ status[k] = "pending"
    /\ k \notin due
    /\ due' = due \cup {k}
    /\ UNCHANGED <<status, attempts, locked, batch, result, tries>>

-----------------------------------------------------------------------------
Resting(w) == locked[w] = {} /\ batch[w] = {} /\ result[w] = NoResult

\* Mutant: the claim reads the pending rows without locking them.
ClaimableUnlocked == {k \in due : status[k] = "pending"}

\* The rows SKIP LOCKED lets a claim see.
Claimable ==
    {k \in due : status[k] = "pending" /\ \A w \in Worker : k \notin locked[w]}

\* claim_next_batch locks up to BatchSize of them; the order among them is the
\* order of scheduled_for, which the queue does not otherwise remember.
LockBatch(w) ==
    /\ Resting(w)
    /\ \E ids \in SUBSET Claimable :
        /\ ids # {}
        /\ Cardinality(ids) <= BatchSize
        /\ ids = Claimable \/ Cardinality(ids) = BatchSize
        /\ locked' = [locked EXCEPT ![w] = ids]
    /\ UNCHANGED <<status, attempts, due, batch, result, tries>>

CommitClaim(w) ==
    /\ locked[w] # {}
    /\ status' = [k \in Key |-> IF k \in locked[w] THEN "processing" ELSE status[k]]
    /\ batch' = [batch EXCEPT ![w] = locked[w]]
    /\ locked' = [locked EXCEPT ![w] = {}]
    /\ UNCHANGED <<attempts, due, result, tries>>

-----------------------------------------------------------------------------
\* How the dispatch over a channel may end.  Delivered: the provider took the message,
\* but email_service also swallows the failure of a send.  Failed: a payload, an
\* address or a token that is no good.  Skipped: nothing is configured.  Retry: an
\* exception, though the provider may have taken the message all the same.
Emailed == {"delivered", "failed", "retry"}
Texted == {"delivered", "skipped", "failed", "retry"}
Posted == {"delivered", "skipped", "failed", "retry"}
Pushed == {"delivered", "skipped", "failed", "retry"}

Answers(channel) ==
    CASE channel = "email" -> Emailed
      [] channel = "sms" -> Texted
      [] channel = "slack" -> Posted
      [] channel = "apns" -> Pushed
      [] OTHER -> {"failed"}

\* The provider is called, and the job's row not yet written.
Dispatch(w, k) ==
    /\ k \in batch[w]
    /\ result[w] = NoResult
    /\ tries' = [tries EXCEPT ![k] = IF @ = TriesCap THEN @ ELSE @ + 1]
    /\ \E s \in Answers(Via[k]) :
          result' = [result EXCEPT ![w] = [job |-> k, status |-> s]]
    /\ UNCHANGED <<status, attempts, due, locked, batch>>

\* Mutant: a job that has used up its attempts is retried once more.
OutcomeOffByOne(k, s) ==
    IF s # "retry" THEN s ELSE IF attempts[k] + 1 > MaxAttempts THEN "failed" ELSE "pending"

\* What process_job writes to the row for the result of a dispatch.
Outcome(k, s) ==
    IF s # "retry" THEN s ELSE IF attempts[k] + 1 >= MaxAttempts THEN "failed" ELSE "pending"

\* Mutant: the row is written without counting the attempt.
RecordUncounted(w) ==
    LET k == result[w].job IN
    /\ result[w] # NoResult
    /\ status' = [status EXCEPT ![k] = Outcome(k, result[w].status)]
    /\ due' = IF status'[k] = "pending" THEN due \ {k} ELSE due
    /\ batch' = [batch EXCEPT ![w] = @ \ {k}]
    /\ result' = [result EXCEPT ![w] = NoResult]
    /\ UNCHANGED <<attempts, locked, tries>>

\* Mutant: a retried job is left in processing.
RecordStuck(w) ==
    LET k == result[w].job IN
    /\ result[w] # NoResult
    /\ status' = [status EXCEPT ![k] =
                    IF result[w].status = "retry" THEN @ ELSE result[w].status]
    /\ attempts' = [attempts EXCEPT ![k] = @ + 1]
    /\ batch' = [batch EXCEPT ![w] = @ \ {k}]
    /\ result' = [result EXCEPT ![w] = NoResult]
    /\ UNCHANGED <<due, locked, tries>>

\* process_job updates the row and _process_batch commits.
Record(w) ==
    LET k == result[w].job IN
    /\ result[w] # NoResult
    /\ status' = [status EXCEPT ![k] = Outcome(k, result[w].status)]
    /\ attempts' = [attempts EXCEPT ![k] = @ + 1]
    /\ due' = IF status'[k] = "pending" THEN due \ {k} ELSE due
    /\ batch' = [batch EXCEPT ![w] = @ \ {k}]
    /\ result' = [result EXCEPT ![w] = NoResult]
    /\ UNCHANGED <<locked, tries>>

\* The process dies, or a statement raises and main drops the rest of the batch:
\* an open transaction is rolled back and the claimed rows stay as they are.
Fail(w) ==
    /\ ~Resting(w)
    /\ locked' = [locked EXCEPT ![w] = {}]
    /\ batch' = [batch EXCEPT ![w] = {}]
    /\ result' = [result EXCEPT ![w] = NoResult]
    /\ UNCHANGED <<status, attempts, due, tries>>

-----------------------------------------------------------------------------
Work(w) ==
    \/ LockBatch(w) \/ CommitClaim(w) \/ Record(w)
    \/ \E k \in Key : Dispatch(w, k)

Next ==
    \/ \E k \in Key : Enqueue(k) \/ ComeDue(k)
    \/ \E w \in Worker : Work(w) \/ Fail(w)

\* The worker loop polls for ever (main), and the clock runs.  A job is not
\* passed over for ever, since batches are taken in the order of scheduled_for,
\* and workers do not die every single time between its claim and the commit.
Fairness ==
    /\ \A w \in Worker : WF_vars(Work(w))
    /\ \A k \in Key :
        /\ WF_vars(ComeDue(k))
        /\ SF_vars(\E w \in Worker : LockBatch(w) /\ k \in locked'[w])
        /\ SF_vars(\E w \in Worker : CommitClaim(w) /\ k \in locked[w])

Spec == Init /\ [][Next]_vars
FairSpec == Spec /\ Fairness

-----------------------------------------------------------------------------
\* No job is in the hands of two workers: "the SKIP LOCKED claim avoids
\* duplicate dispatch".
ClaimExclusive ==
    \A v, w \in Worker : v # w =>
        /\ locked[v] \cap locked[w] = {}
        /\ (locked[v] \cup batch[v]) \cap batch[w] = {}

\* A job is dispatched once for each attempt on its row, and for the one under
\* way or lost with its worker: nobody gets more copies than max_attempts.
TriesBounded ==
    \A k \in Key :
        /\ tries[k] <= attempts[k] + 1
        /\ tries[k] > attempts[k] => status[k] = "processing"
        /\ tries[k] <= MaxAttempts

\* A row nobody works on and no claim will see again.
Stranded(k) == status[k] = "processing" /\ \A w \in Worker : k \notin batch[w]

\* Only a worker that fails with the job in its batch strands it (the worker: "a
\* human unsticks it"): nothing else leaves a job where no claim sees it.
OnlyFaultsStrand ==
    [][\A k \in Key : ~Stranded(k) /\ Stranded(k)'
           => \E w \in Worker : Fail(w) /\ k \in batch[w]]_vars

\* A settled job is final, whatever is enqueued again under its key.
SettledFinal ==
    [][\A k \in Key : status[k] \in Settled => status'[k] = status[k]]_status

\* The queue is a way to deliver: what a notification is in, and who holds it.
Holders == [k \in Key |-> {w \in Worker : k \in batch[w]}]
Phase ==
    [k \in Key |-> CASE status[k] = "pending" -> "waiting"
                     [] Stranded(k) -> "lost"
                     [] status[k] = "processing" /\ ~Stranded(k) -> "held"
                     [] OTHER -> status[k]]

D == INSTANCE Delivery WITH phase <- Phase, holders <- Holders, sent <- tries, counted <- attempts

\* Every step of the queue is a step of a delivery or none at all: no batch, rollback
\* or retry sends a notification behind its holder's back, twice in one hold, or again
\* after its end, its loss or its last attempt.
ImplementsDelivery == D!Spec

\* Retries end and no job starves: every notification is settled, unless its
\* worker dies with it.
EveryJobSettles ==
    \A k \in Key : status[k] = "pending" ~> status[k] \in Settled \/ Stranded(k)
=============================================================================
