--------------------- MODULE NotificationQueue_proofs ---------------------
(***************************************************************************)
(* Theorems of NotificationQueue, for any number of workers and jobs, any  *)
(* batch size and any max_attempts, and with workers failing at will.      *)
(***************************************************************************)
EXTENDS NotificationQueue, TLAPS

\* A claim's locked rows are pending, a claimed batch is processing, and a
\* worker's result is about a job of its batch; a worker does one at a time.
ClaimsOK ==
    \A w \in Worker :
        /\ locked[w] # {} => batch[w] = {} /\ result[w] = NoResult
        /\ \A k \in locked[w] : status[k] = "pending"
        /\ \A k \in batch[w] : status[k] = "processing"
        /\ result[w] # NoResult => result[w].job \in batch[w]

\* An unsettled job has an attempt left; the dispatches of a job are those its
\* row has counted, and the one whose result is not recorded yet (or never).
CountsOK ==
    /\ \A k \in Key :
        /\ status[k] \in {"absent", "pending", "processing"} => attempts[k] < MaxAttempts
        /\ tries[k] = attempts[k] \/ (status[k] = "processing" /\ tries[k] = attempts[k] + 1)
    /\ \A w \in Worker : \A k \in batch[w] :
        tries[k] = IF result[w].job = k THEN attempts[k] + 1 ELSE attempts[k]

IInv == TypeOK /\ ClaimExclusive /\ ClaimsOK /\ CountsOK

USE QueueAssumption, KeyAssumption DEF vars, TriesCap

-----------------------------------------------------------------------------
(* The inductive invariant, action by action.                              *)

\* A queue with no jobs and idle workers.
LEMMA InitOK == Init => IInv
BY DEF Init, IInv, TypeOK, Status, Result, NoResult, ClaimExclusive, ClaimsOK, CountsOK

\* The insert of a job no worker has seen.
LEMMA EnqueueOK ==
    ASSUME IInv, NEW k \in Key, Enqueue(k)
    PROVE  IInv'
<1> USE DEF IInv, Enqueue
<1>1. TypeOK'
    BY DEF TypeOK, Status
<1>2. ClaimExclusive'
    BY DEF ClaimExclusive
<1>3. ClaimsOK'
    BY DEF ClaimsOK, TypeOK
<1>4. CountsOK'
    BY DEF CountsOK, TypeOK
<1> QED BY <1>1, <1>2, <1>3, <1>4

\* Time passing.
LEMMA ComeDueOK ==
    ASSUME IInv, NEW k \in Key, ComeDue(k)
    PROVE  IInv'
BY DEF IInv, ComeDue, TypeOK, ClaimExclusive, ClaimsOK, CountsOK

\* SKIP LOCKED: the rows a worker locks are pending and nobody else's.
LEMMA LockBatchOK ==
    ASSUME IInv, NEW w \in Worker, LockBatch(w)
    PROVE  IInv'
<1> USE DEF IInv
<1>1. PICK ids \in SUBSET Claimable : locked' = [locked EXCEPT ![w] = ids]
    BY DEF LockBatch
<1>2. Resting(w) /\ UNCHANGED <<status, attempts, due, batch, result, tries>>
    BY DEF LockBatch
<1>3. \A k \in ids : /\ k \in Key /\ status[k] = "pending"
                     /\ \A v \in Worker : k \notin locked[v]
    BY <1>1 DEF Claimable, TypeOK
<1>4. /\ locked'[w] = ids
      /\ \A v \in Worker : v # w => locked'[v] = locked[v]
    BY <1>1 DEF TypeOK
<1>5. TypeOK'
    BY <1>1, <1>2, <1>3 DEF TypeOK
<1>6. ClaimExclusive'
    <2>1. \A v \in Worker : ids \cap locked[v] = {} /\ ids \cap batch[v] = {}
        BY <1>3 DEF ClaimsOK
    <2> QED BY <1>2, <1>4, <2>1 DEF ClaimExclusive
<1>7. ClaimsOK'
    BY <1>2, <1>3, <1>4 DEF ClaimsOK, Resting
<1>8. CountsOK'
    BY <1>2 DEF CountsOK
<1> QED BY <1>5, <1>6, <1>7, <1>8

\* The claim's commit turns the locked rows into the worker's batch.
LEMMA CommitClaimOK ==
    ASSUME IInv, NEW w \in Worker, CommitClaim(w)
    PROVE  IInv'
<1> USE DEF IInv, CommitClaim
<1>1. /\ locked'[w] = {} /\ batch'[w] = locked[w]
      /\ \A v \in Worker : v # w => locked'[v] = locked[v] /\ batch'[v] = batch[v]
      /\ \A k \in Key : status'[k] = IF k \in locked[w] THEN "processing" ELSE status[k]
    BY DEF TypeOK
<1>2. TypeOK'
    BY DEF TypeOK, Status
<1>3. ClaimExclusive'
    BY <1>1 DEF ClaimExclusive
<1>4. \A v \in Worker : v # w => locked[v] \cap locked[w] = {}
    BY DEF ClaimExclusive
<1>5. ClaimsOK'
    BY <1>1, <1>4 DEF ClaimsOK, TypeOK
<1>6. \A k \in locked[w] : /\ k \in Key /\ tries[k] = attempts[k] /\ attempts[k] < MaxAttempts
                           /\ result[w].job # k
    BY DEF ClaimsOK, CountsOK, TypeOK, NoResult
<1>7. CountsOK'
    BY <1>1, <1>6 DEF CountsOK, TypeOK
<1> QED BY <1>2, <1>3, <1>5, <1>7

\* A dispatch is counted by its worker and not yet by the row.
LEMMA DispatchOK ==
    ASSUME IInv, NEW w \in Worker, NEW k \in Key, Dispatch(w, k)
    PROVE  IInv'
<1> USE DEF IInv
<1>0. Answers(Via[k]) \subseteq Settled \cup {"retry"}
    BY DEF Answers, Emailed, Texted, Posted, Pushed, Settled
<1>1. PICK s \in Settled \cup {"retry"} :
          result' = [result EXCEPT ![w] = [job |-> k, status |-> s]]
    BY <1>0 DEF Dispatch
<1>2. /\ k \in batch[w] /\ result[w] = NoResult
      /\ UNCHANGED <<status, attempts, due, locked, batch>>
    BY DEF Dispatch
<1>3. /\ result'[w] = [job |-> k, status |-> s]
      /\ \A v \in Worker : v # w => result'[v] = result[v]
    BY <1>1 DEF TypeOK
<1>4. tries[k] = attempts[k] /\ attempts[k] < MaxAttempts /\ status[k] = "processing"
    BY <1>2 DEF CountsOK, ClaimsOK, NoResult, TypeOK
<1>5. tries' = [tries EXCEPT ![k] = attempts[k] + 1]
    <2>1. tries[k] # TriesCap
        BY <1>4 DEF TypeOK
    <2>2. tries' = [tries EXCEPT ![k] = IF tries[k] = TriesCap THEN tries[k] ELSE tries[k] + 1]
        BY DEF Dispatch
    <2> QED BY <1>4, <2>1, <2>2
<1>6. TypeOK'
    BY <1>1, <1>2, <1>4, <1>5 DEF TypeOK, Result
<1>7. ClaimExclusive'
    BY <1>2 DEF ClaimExclusive
<1>8. ClaimsOK'
    BY <1>2, <1>3 DEF ClaimsOK
<1>9. \A v \in Worker : v # w => k \notin batch[v]
    BY <1>2 DEF ClaimExclusive
<1>10. \A j \in Key : tries'[j] = IF j = k THEN attempts[k] + 1 ELSE tries[j]
    BY <1>5 DEF TypeOK
<1>11. ASSUME NEW v \in Worker, NEW j \in batch'[v]
       PROVE  tries'[j] = IF result'[v].job = j THEN attempts'[j] + 1 ELSE attempts'[j]
    <2>1. j \in batch[v] /\ j \in Key /\ j # "none"
        BY <1>2 DEF TypeOK
    <2>2. tries[j] = IF result[v].job = j THEN attempts[j] + 1 ELSE attempts[j]
        BY <2>1 DEF CountsOK
    <2>3. CASE v = w
        BY <1>2, <1>3, <1>10, <2>1, <2>2, <2>3 DEF NoResult
    <2>4. CASE v # w
        BY <1>2, <1>3, <1>9, <1>10, <2>1, <2>2, <2>4
    <2> QED BY <2>3, <2>4
<1>12. CountsOK'
    BY <1>2, <1>4, <1>10, <1>11 DEF CountsOK
<1> QED BY <1>6, <1>7, <1>8, <1>12

\* The row counts the dispatch, and is retried only with an attempt left.
LEMMA RecordOK ==
    ASSUME IInv, NEW w \in Worker, Record(w)
    PROVE  IInv'
<1> USE DEF IInv
<1> DEFINE k == result[w].job
           s == Outcome(k, result[w].status)
<1>1. k \in batch[w] /\ k \in Key /\ status[k] = "processing" /\ result[w].status \in Settled \cup {"retry"}
    BY DEF Record, ClaimsOK, TypeOK, Result
<1>2. /\ status' = [status EXCEPT ![k] = s]
      /\ attempts' = [attempts EXCEPT ![k] = @ + 1]
      /\ due' = IF status'[k] = "pending" THEN due \ {k} ELSE due
      /\ batch' = [batch EXCEPT ![w] = @ \ {k}]
      /\ result' = [result EXCEPT ![w] = NoResult]
      /\ UNCHANGED <<locked, tries>>
    BY DEF Record
<1>3. /\ batch'[w] = batch[w] \ {k} /\ result'[w] = NoResult
      /\ \A v \in Worker : v # w => batch'[v] = batch[v] /\ result'[v] = result[v]
      /\ \A j \in Key : j # k => status'[j] = status[j] /\ attempts'[j] = attempts[j]
      /\ status'[k] = s /\ attempts'[k] = attempts[k] + 1
    BY <1>1, <1>2 DEF TypeOK
<1>4. /\ attempts[k] < MaxAttempts
      /\ s \in Settled \cup {"pending"}
      /\ s = "pending" => attempts[k] + 1 < MaxAttempts
    BY <1>1 DEF CountsOK, Outcome, TypeOK, Settled
<1>5. TypeOK'
    BY <1>1, <1>2, <1>4 DEF TypeOK, Status, Settled
<1>6. ClaimExclusive'
    BY <1>2, <1>3 DEF ClaimExclusive
<1>7. \A v \in Worker : k \notin locked[v] /\ (v # w => k \notin batch[v])
    BY <1>1 DEF ClaimExclusive, ClaimsOK
<1>8. ClaimsOK'
    BY <1>2, <1>3, <1>7 DEF ClaimsOK, TypeOK
<1>9. tries[k] = attempts[k] + 1
    BY <1>1 DEF CountsOK
<1>10. ASSUME NEW v \in Worker, NEW j \in batch'[v]
       PROVE  tries'[j] = IF result'[v].job = j THEN attempts'[j] + 1 ELSE attempts'[j]
    <2>1. j # k /\ j \in batch[v] /\ j \in Key /\ j # "none"
        BY <1>3, <1>7 DEF TypeOK
    <2>2. tries[j] = IF result[v].job = j THEN attempts[j] + 1 ELSE attempts[j]
        BY <2>1 DEF CountsOK
    <2>3. (result'[v].job = j) <=> (result[v].job = j)
        BY <1>3, <2>1 DEF NoResult
    <2> QED BY <1>2, <1>3, <2>1, <2>2, <2>3
<1>11. ASSUME NEW j \in Key
       PROVE  /\ status'[j] \in {"absent", "pending", "processing"} => attempts'[j] < MaxAttempts
              /\ tries'[j] = attempts'[j] \/ (status'[j] = "processing" /\ tries'[j] = attempts'[j] + 1)
    <2>1. CASE j = k
        BY <1>2, <1>3, <1>4, <1>9, <2>1 DEF Settled
    <2>2. CASE j # k
        BY <1>2, <1>3, <2>2 DEF CountsOK
    <2> QED BY <2>1, <2>2
<1>12. CountsOK'
    BY <1>10, <1>11 DEF CountsOK
<1> QED BY <1>5, <1>6, <1>8, <1>12

\* A failed worker forgets its batch; its rows stay as they are.
LEMMA FailOK ==
    ASSUME IInv, NEW w \in Worker, Fail(w)
    PROVE  IInv'
<1> USE DEF IInv, Fail
<1>1. /\ locked'[w] = {} /\ batch'[w] = {} /\ result'[w] = NoResult
      /\ \A v \in Worker : v # w => /\ locked'[v] = locked[v] /\ batch'[v] = batch[v]
                                    /\ result'[v] = result[v]
    BY DEF TypeOK
<1>2. TypeOK'
    BY DEF TypeOK
<1>3. ClaimExclusive'
    BY <1>1 DEF ClaimExclusive
<1>4. ClaimsOK'
    BY <1>1 DEF ClaimsOK
<1>5. CountsOK'
    BY <1>1 DEF CountsOK
<1> QED BY <1>2, <1>3, <1>4, <1>5

\* Every step keeps the inductive invariant.
LEMMA StepOK == IInv /\ [Next]_vars => IInv'
<1> SUFFICES ASSUME IInv, [Next]_vars PROVE IInv'
    OBVIOUS
<1>1. CASE UNCHANGED vars
    BY <1>1 DEF IInv, TypeOK, ClaimExclusive, ClaimsOK, CountsOK
<1> QED BY <1>1, EnqueueOK, ComeDueOK, LockBatchOK, CommitClaimOK, DispatchOK, RecordOK, FailOK
        DEF Next, Work

\* The inductive invariant holds in every state.
LEMMA Invariance == Spec => []IInv
BY InitOK, StepOK, PTL DEF Spec

-----------------------------------------------------------------------------
(* What follows.                                                           *)

\* claim_next_batch: the rows and the workers hold values of their types.
THEOREM TypeCorrect == Spec => []TypeOK
<1>1. IInv => TypeOK
    BY DEF IInv
<1> QED BY <1>1, Invariance, PTL

\* SKIP LOCKED: however many workers poll, no job is in the hands of two.
THEOREM ClaimsExclusive == Spec => []ClaimExclusive
<1>1. IInv => ClaimExclusive
    BY DEF IInv
<1> QED BY <1>1, Invariance, PTL

\* process_job: whatever fails, a job is dispatched at most max_attempts times,
\* and at most once more than its row says.
THEOREM TriesAreBounded == Spec => []TriesBounded
<1>1. IInv => TriesBounded
    BY DEF IInv, CountsOK, TypeOK, TriesBounded
<1> QED BY <1>1, Invariance, PTL

\* enqueue and process_job never touch a settled job.
THEOREM SettledIsFinal == Spec => SettledFinal
<1>1. ASSUME IInv, [Next]_vars
      PROVE  \A k \in Key : status[k] \in Settled => status'[k] = status[k]
    <2> SUFFICES ASSUME NEW k \in Key, status[k] \in Settled, status' # status
                 PROVE  status'[k] = status[k]
        OBVIOUS
    <2>1. status[k] \notin {"absent", "pending", "processing"}
        BY DEF Settled
    <2>2. ASSUME NEW j \in Key, Enqueue(j) PROVE status'[k] = status[k]
        BY <1>1, <2>1, <2>2 DEF Enqueue, IInv, TypeOK
    <2>3. ASSUME NEW w \in Worker, CommitClaim(w) PROVE status'[k] = status[k]
        BY <1>1, <2>1, <2>3 DEF CommitClaim, IInv, ClaimsOK
    <2>4. ASSUME NEW w \in Worker, Record(w) PROVE status'[k] = status[k]
        <3>1. status[result[w].job] = "processing"
            BY <1>1, <2>4 DEF Record, IInv, ClaimsOK
        <3> QED BY <1>1, <2>1, <2>4, <3>1 DEF Record, IInv, TypeOK
    <2> QED BY <1>1, <2>2, <2>3, <2>4
            DEF Next, Work, ComeDue, LockBatch, Dispatch, Fail
<1>2. IInv /\ [Next]_vars
          => [\A k \in Key : status[k] \in Settled => status'[k] = status[k]]_status
    BY <1>1
<1> QED BY <1>2, Invariance, PTL DEF Spec, SettledFinal

\* _process_batch: a job is left in processing only by the worker that fails
\* with it, never by a claim, a dispatch or a result.
THEOREM FaultsStrandOnly == Spec => OnlyFaultsStrand
<1> DEFINE Strands(k) == ~Stranded(k) /\ Stranded(k)'
           ByFault(k) == \E w \in Worker : Fail(w) /\ k \in batch[w]
<1>1. ASSUME IInv, [Next]_vars, NEW k \in Key, Strands(k)
      PROVE  ByFault(k)
    <2> USE DEF Stranded
    <2>1. ASSUME NEW j \in Key, Enqueue(j) \/ ComeDue(j) PROVE FALSE
        BY <1>1, <2>1 DEF Enqueue, ComeDue, IInv, TypeOK
    <2>2. ASSUME NEW w \in Worker, LockBatch(w) PROVE FALSE
        BY <1>1, <2>2 DEF LockBatch
    <2>3. ASSUME NEW w \in Worker, CommitClaim(w) PROVE FALSE
        <3>1. /\ batch'[w] = locked[w]
              /\ \A v \in Worker : v # w => batch'[v] = batch[v]
              /\ status'[k] = IF k \in locked[w] THEN "processing" ELSE status[k]
            BY <1>1, <2>3 DEF CommitClaim, IInv, TypeOK
        <3>2. batch[w] = {}
            BY <1>1, <2>3 DEF CommitClaim, IInv, ClaimsOK
        <3> QED BY <1>1, <3>1, <3>2
    <2>4. ASSUME NEW w \in Worker, NEW j \in Key, Dispatch(w, j) PROVE FALSE
        BY <1>1, <2>4 DEF Dispatch
    <2>5. ASSUME NEW w \in Worker, Record(w) PROVE FALSE
        <3>1. result[w].job \in Key /\ result[w].status \in Settled \cup {"retry"}
            BY <1>1, <2>5 DEF Record, IInv, TypeOK, Result
        <3>2. Outcome(result[w].job, result[w].status) # "processing"
            BY <3>1 DEF Outcome, Settled
        <3>3. /\ batch'[w] = batch[w] \ {result[w].job}
              /\ \A v \in Worker : v # w => batch'[v] = batch[v]
              /\ status'[result[w].job] # "processing"
              /\ k # result[w].job => status'[k] = status[k]
            BY <1>1, <2>5, <3>1, <3>2 DEF Record, IInv, TypeOK
        <3> QED BY <1>1, <3>3
    <2>6. ASSUME NEW w \in Worker, Fail(w) PROVE ByFault(k)
        <3>1. /\ batch'[w] = {} /\ status' = status
              /\ \A v \in Worker : v # w => batch'[v] = batch[v]
            BY <1>1, <2>6 DEF Fail, IInv, TypeOK
        <3>2. k \in batch[w]
            BY <1>1, <3>1
        <3> QED BY <2>6, <3>2
    <2>7. CASE UNCHANGED vars
        BY <1>1, <2>7
    <2> QED BY <1>1, <2>1, <2>2, <2>3, <2>4, <2>5, <2>6, <2>7 DEF Next, Work
<1>2. IInv /\ [Next]_vars => [\A k \in Key : Strands(k) => ByFault(k)]_vars
    BY <1>1
<1> QED BY <1>2, Invariance, PTL DEF Spec, OnlyFaultsStrand

-----------------------------------------------------------------------------
(* The refinement.  A delivery sees of a row its phase and its holders.    *)

LEMMA Sight ==
    /\ Phase = [k \in Key |-> Phase[k]] /\ Holders = [k \in Key |-> Holders[k]]
    /\ \A k \in Key : /\ Holders[k] = {w \in Worker : k \in batch[w]}
                      /\ status[k] = "pending" => Phase[k] = "waiting"
                      /\ status[k] = "processing" => Phase[k] = IF Holders[k] = {} THEN "lost" ELSE "held"
                      /\ status[k] \notin {"pending", "processing"} => Phase[k] = status[k]
<1>1. /\ Phase = [k \in Key |-> Phase[k]] /\ Holders = [k \in Key |-> Holders[k]]
      /\ \A k \in Key : Holders[k] = {w \in Worker : k \in batch[w]}
    BY DEF Phase, Holders
<1>2. ASSUME NEW k \in Key
      PROVE  /\ status[k] = "pending" => Phase[k] = "waiting"
             /\ status[k] = "processing" => Phase[k] = IF Holders[k] = {} THEN "lost" ELSE "held"
             /\ status[k] \notin {"pending", "processing"} => Phase[k] = status[k]
    <2>1. Stranded(k) <=> status[k] = "processing" /\ Holders[k] = {}
        BY <1>1 DEF Stranded
    <2>2. Phase[k] = CASE status[k] = "pending" -> "waiting"
                       [] Stranded(k) -> "lost"
                       [] status[k] = "processing" /\ ~Stranded(k) -> "held"
                       [] OTHER -> status[k]
        BY DEF Phase
    <2> QED BY <2>1, <2>2
<1> QED BY <1>1, <1>2

\* The same in the next state.
LEMMA SightNext ==
    /\ Phase' = [k \in Key |-> Phase'[k]] /\ Holders' = [k \in Key |-> Holders'[k]]
    /\ \A k \in Key : /\ Holders'[k] = {w \in Worker : k \in batch'[w]}
                      /\ status'[k] = "pending" => Phase'[k] = "waiting"
                      /\ status'[k] = "processing" => Phase'[k] = IF Holders'[k] = {} THEN "lost" ELSE "held"
                      /\ status'[k] \notin {"pending", "processing"} => Phase'[k] = status'[k]
<1> DEFINE Sees ==
        /\ Phase = [k \in Key |-> Phase[k]] /\ Holders = [k \in Key |-> Holders[k]]
        /\ \A k \in Key : /\ Holders[k] = {w \in Worker : k \in batch[w]}
                          /\ status[k] = "pending" => Phase[k] = "waiting"
                          /\ status[k] = "processing" => Phase[k] = IF Holders[k] = {} THEN "lost" ELSE "held"
                          /\ status[k] \notin {"pending", "processing"} => Phase[k] = status[k]
<1>1. Sees
    BY Sight
<1>2. Sees'
    BY <1>1, PTL
<1> QED BY <1>2

\* Whose row and batch stay, its delivery sees nothing.
LEMMA Unseen ==
    ASSUME NEW k \in Key, status'[k] = status[k], \A w \in Worker : k \in batch'[w] <=> k \in batch[w]
    PROVE  Phase'[k] = Phase[k] /\ Holders'[k] = Holders[k]
<1>1. Holders'[k] = Holders[k]
    <2>1. Holders[k] = {w \in Worker : k \in batch[w]} /\ Holders'[k] = {w \in Worker : k \in batch'[w]}
        BY DEF Holders
    <2>2. {w \in Worker : k \in batch'[w]} = {w \in Worker : k \in batch[w]}
        OBVIOUS
    <2> QED BY <2>1, <2>2
<1> QED BY <1>1, Sight, SightNext

\* Steps that concern the claims, the clock and lost claims only.
LEMMA Stutter ==
    ASSUME UNCHANGED <<status, attempts, tries>>,
           \A k \in Key : \A w \in Worker : k \in batch'[w] <=> k \in batch[w]
    PROVE  UNCHANGED D!delivery
<1>1. \A k \in Key : Phase'[k] = Phase[k] /\ Holders'[k] = Holders[k]
    BY Unseen
<1>2. Phase' = Phase
    BY <1>1, Sight, SightNext
<1>3. Holders' = Holders
    BY <1>1, Sight, SightNext
<1> QED BY <1>2, <1>3 DEF D!delivery

LEMMA DeliveryInit == Init => D!Init
<1> SUFFICES ASSUME Init PROVE D!Init
    OBVIOUS
<1>1. \A k \in Key : Phase[k] = "absent" /\ Holders[k] = {}
    BY Sight DEF Init
<1>2. Phase = [k \in Key |-> "absent"] /\ Holders = [k \in Key |-> {}]
    BY <1>1, Sight
<1> QED BY <1>2 DEF Init, D!Init

\* An insert asks for a delivery.
LEMMA EnqueueAsks == ASSUME IInv, NEW k \in Key, Enqueue(k) PROVE D!Ask(k)
<1>1. /\ status[k] = "absent" /\ status'[k] = "pending"
      /\ \A j \in Key : j # k => status'[j] = status[j]
      /\ UNCHANGED <<attempts, batch, tries>>
    BY DEF Enqueue, IInv, TypeOK
<1>2. Holders' = Holders
    BY <1>1 DEF Holders
<1>3. Phase[k] = "absent" /\ Phase'[k] = "waiting"
    BY <1>1, Sight, SightNext
<1>4. ASSUME NEW j \in Key, j # k PROVE Phase'[j] = Phase[j]
    BY <1>1, <1>4, Unseen
<1>5. Phase' = [Phase EXCEPT ![k] = "waiting"]
    BY <1>3, <1>4, Sight, SightNext
<1> QED BY <1>1, <1>2, <1>3, <1>5 DEF D!Ask

\* The commit of a claim takes the locked rows.
LEMMA CommitClaimTakes == ASSUME IInv, NEW w \in Worker, CommitClaim(w) PROVE D!Take(w)
<1> DEFINE ks == locked[w]
<1>1. /\ ks # {} /\ batch[w] = {} /\ batch'[w] = ks
      /\ \A v \in Worker : v # w => batch'[v] = batch[v]
      /\ \A k \in Key : status'[k] = IF k \in ks THEN "processing" ELSE status[k]
      /\ UNCHANGED <<attempts, tries>>
    BY DEF CommitClaim, IInv, TypeOK, ClaimsOK
<1>2. \A k \in ks : k \in Key /\ status[k] = "pending" /\ \A v \in Worker : k \notin batch[v]
    BY DEF IInv, TypeOK, ClaimsOK
<1> HIDE DEF ks
<1>3. ks \in SUBSET {k \in Key : Phase[k] = "waiting"}
    BY <1>2, Sight
<1>4. ASSUME NEW k \in ks PROVE Phase'[k] = "held" /\ Holders'[k] = {w}
    <2>1. Holders'[k] = {w}
        BY <1>1, <1>2, <1>4, SightNext
    <2>2. status'[k] = "processing" /\ k \in Key
        BY <1>1, <1>2, <1>4
    <2> QED BY <2>1, <2>2, SightNext
<1>5. ASSUME NEW k \in Key \ ks PROVE Phase'[k] = Phase[k] /\ Holders'[k] = Holders[k]
    BY <1>1, <1>5, Unseen
<1>6. \A k \in Key : w \notin Holders[k]
    BY <1>1, Sight
<1>7. /\ Phase' = [k \in Key |-> IF k \in ks THEN "held" ELSE Phase[k]]
      /\ Holders' = [k \in Key |-> IF k \in ks THEN {w} ELSE Holders[k]]
    BY <1>4, <1>5, SightNext
<1> QED BY <1>1, <1>3, <1>6, <1>7 DEF D!Take

\* Nobody else holds what a worker holds.
LEMMA HeldAlone ==
    ASSUME IInv, NEW w \in Worker, NEW k \in batch[w]
    PROVE  k \in Key /\ status[k] = "processing" /\ Phase[k] = "held" /\ Holders[k] = {w}
<1>1. k \in Key /\ status[k] = "processing" /\ \A v \in Worker : v # w => k \notin batch[v]
    BY DEF IInv, TypeOK, ClaimsOK, ClaimExclusive
<1>2. Holders[k] = {w}
    BY <1>1, Sight
<1> QED BY <1>1, <1>2, Sight

\* A dispatch sends what the worker holds and has not sent yet.
LEMMA DispatchSends == ASSUME IInv, NEW w \in Worker, NEW k \in Key, Dispatch(w, k) PROVE D!Send(w, k)
<1>1. k \in batch[w] /\ result[w] = NoResult /\ UNCHANGED <<status, attempts, batch>>
    BY DEF Dispatch
<1>2. tries[k] = attempts[k] /\ attempts[k] < MaxAttempts /\ tries[k] \in Nat /\ MaxAttempts \in Nat
    <2>1. k # "none"
        OBVIOUS
    <2> QED BY <1>1, <2>1 DEF IInv, CountsOK, ClaimsOK, NoResult, TypeOK
<1>3. tries' = [tries EXCEPT ![k] = tries[k] + 1]
    <2>1. tries[k] # TriesCap
        BY <1>2
    <2>2. tries' = [tries EXCEPT ![k] = IF tries[k] = TriesCap THEN tries[k] ELSE tries[k] + 1]
        BY DEF Dispatch
    <2> QED BY <2>1, <2>2
<1>4. Phase[k] = "held" /\ Holders[k] = {w}
    BY <1>1, HeldAlone
<1>5. UNCHANGED <<Phase, Holders>>
    <2>1. \A j \in Key : Phase'[j] = Phase[j] /\ Holders'[j] = Holders[j]
        BY <1>1, Unseen
    <2> QED BY <2>1, Sight, SightNext
<1> QED BY <1>1, <1>2, <1>3, <1>4, <1>5 DEF D!Send

\* The write of a result answers the one dispatch there was since the claim.
LEMMA RecordAnswers ==
    ASSUME IInv, NEW w \in Worker, Record(w)
    PROVE  result[w].job \in Key /\ D!Answer(w, result[w].job)
<1> SUFFICES ASSUME NEW k, k = result[w].job
             PROVE  k \in Key /\ D!Answer(w, k)
    OBVIOUS
<1> DEFINE end == Outcome(k, result[w].status)
<1>1. /\ k \in batch[w] /\ k \in Key /\ status[k] = "processing"
      /\ result[w].status \in Settled \cup {"retry"}
    BY DEF Record, IInv, ClaimsOK, TypeOK, Result
<1>2. /\ status'[k] = end /\ batch'[w] = batch[w] \ {k}
      /\ attempts' = [attempts EXCEPT ![k] = attempts[k] + 1] /\ UNCHANGED tries
      /\ \A j \in Key : j # k => status'[j] = status[j]
      /\ \A v \in Worker : v # w => batch'[v] = batch[v]
    BY <1>1 DEF Record, IInv, TypeOK
<1>3. tries[k] = attempts[k] + 1 /\ attempts[k] \in Nat /\ MaxAttempts \in Nat
    BY <1>1 DEF IInv, CountsOK, TypeOK
<1>4. end \in D!Ends \cup {"pending"} /\ (end = "pending" => tries[k] < MaxAttempts)
    BY <1>1, <1>3 DEF Outcome, Settled, D!Ends
<1> HIDE DEF end
<1>5. Phase[k] = "held" /\ Holders[k] = {w}
    BY <1>1, HeldAlone
<1>6. Holders'[k] = {}
    <2>1. \A v \in Worker : v # w => k \notin batch[v]
        BY <1>1, <1>5, Sight
    <2>2. \A v \in Worker : k \notin batch'[v]
        BY <1>2, <2>1
    <2> QED BY <1>1, <2>2, SightNext
<1>7. Phase'[k] = IF end = "pending" THEN "waiting" ELSE end
    BY <1>1, <1>2, <1>4, SightNext DEF D!Ends
<1>8. ASSUME NEW j \in Key, j # k PROVE Phase'[j] = Phase[j] /\ Holders'[j] = Holders[j]
    BY <1>2, <1>8, Unseen
<1>9. /\ Phase' = [Phase EXCEPT ![k] = Phase'[k]]
      /\ Holders' = [Holders EXCEPT ![k] = {}]
    BY <1>6, <1>8, Sight, SightNext
<1>10. /\ Phase'[k] \in D!Ends \cup {"waiting"}
       /\ Phase'[k] = "waiting" => tries[k] < MaxAttempts
    BY <1>4, <1>7 DEF D!Ends
<1>11. attempts' = [attempts EXCEPT ![k] = tries[k]]
    BY <1>2, <1>3
<1> QED BY <1>1, <1>2, <1>3, <1>5, <1>9, <1>10, <1>11 DEF D!Answer

\* A worker that fails loses its whole batch, and nothing of anybody else's.
LEMMA FailGivesUp == ASSUME IInv, NEW w \in Worker, Fail(w) PROVE D!GiveUp(w)
<1>1. /\ batch'[w] = {} /\ UNCHANGED <<status, attempts, tries>>
      /\ \A v \in Worker : v # w => batch'[v] = batch[v]
    BY DEF Fail, IInv, TypeOK
<1>2. \A k \in Key : Holders'[k] = Holders[k] \ {w}
    BY <1>1, Sight, SightNext
<1>3. ASSUME NEW k \in Key
      PROVE  Phase'[k] = IF w \in Holders[k] THEN "lost" ELSE Phase[k]
    <2>1. CASE w \in Holders[k]
        <3>1. k \in batch[w]
            BY <2>1, Sight
        <3>2. status[k] = "processing" /\ Holders[k] = {w}
            BY <3>1, HeldAlone
        <3>3. Holders'[k] = {} /\ status'[k] = "processing"
            BY <1>1, <1>2, <3>2
        <3> QED BY <2>1, <3>3, SightNext
    <2>2. CASE w \notin Holders[k]
        <3>1. k \notin batch[w]
            BY <2>2, Sight
        <3> QED BY <1>1, <2>2, <3>1, Unseen
    <2> QED BY <2>1, <2>2
<1>4. /\ Phase' = [k \in Key |-> IF w \in Holders[k] THEN "lost" ELSE Phase[k]]
      /\ Holders' = [k \in Key |-> Holders[k] \ {w}]
    BY <1>2, <1>3, SightNext
<1> QED BY <1>1, <1>4 DEF D!GiveUp

LEMMA DeliveryStep == IInv /\ [Next]_vars => [D!Next]_(D!delivery)
<1> SUFFICES ASSUME IInv, [Next]_vars PROVE [D!Next]_(D!delivery)
    OBVIOUS
<1>1. ASSUME NEW k \in Key, Enqueue(k) PROVE D!Next
    BY <1>1, EnqueueAsks DEF D!Next
<1>2. ASSUME NEW k \in Key, ComeDue(k) PROVE UNCHANGED D!delivery
    BY <1>2, Stutter DEF ComeDue
<1>3. ASSUME NEW w \in Worker, LockBatch(w) PROVE UNCHANGED D!delivery
    BY <1>3, Stutter DEF LockBatch
<1>4. ASSUME NEW w \in Worker, CommitClaim(w) PROVE D!Next
    BY <1>4, CommitClaimTakes DEF D!Next
<1>5. ASSUME NEW w \in Worker, NEW k \in Key, Dispatch(w, k) PROVE D!Next
    BY <1>5, DispatchSends DEF D!Next
<1>6. ASSUME NEW w \in Worker, Record(w) PROVE D!Next
    BY <1>6, RecordAnswers DEF D!Next
<1>7. ASSUME NEW w \in Worker, Fail(w) PROVE D!Next
    BY <1>7, FailGivesUp DEF D!Next
<1>8. CASE UNCHANGED vars
    BY <1>8, Stutter
<1> QED BY <1>1, <1>2, <1>3, <1>4, <1>5, <1>6, <1>7, <1>8 DEF Next, Work

\* The queue delivers as promised: each notification is asked for once, held by one
\* worker, sent at most once per hold and never after its end, its loss or its last
\* attempt, whatever batches, rollbacks, retries and failures there are.
THEOREM DeliveryImplemented == Spec => ImplementsDelivery
<1>1. IInv /\ [Next]_vars => [D!Next]_(D!delivery)
    BY DeliveryStep
<1> QED BY <1>1, DeliveryInit, Invariance, PTL DEF Spec, ImplementsDelivery, D!Spec
===========================================================================
