------------------------- MODULE RecordLock_proofs -------------------------
(***************************************************************************)
(* Theorems of RecordLock, for any users, tabs and managers, any TTL and   *)
(* any Delay a request may take that the slack of the heartbeats covers.   *)
(***************************************************************************)
EXTENDS RecordLock, FiniteSetTheorems, TLAPS

\* An expired row stays expired, whatever is in flight when it is read.
InsertOK(t) ==
    job[t].op = "insert" /\ lock.id = job[t].id => lock.left <= 0

\* The row of a refresh is its user's, and live until the refresh is over.
RefreshOK(t) ==
    job[t].op = "refresh" =>
        /\ job[t].id \in LockId
        /\ lock.id = job[t].id => lock.by = Owner[t] /\ lock.left + job[t].age > Delay

\* A heartbeat is either refused or finds a lock that is live until it is over.
HeartbeatOK(t) ==
    job[t].op = "heartbeat" /\ lock.by = Owner[t] =>
        lock.left + job[t].age <= 0 \/ lock.left + job[t].age > Delay

\* A row has one holder for life.
OverrideOK(t) ==
    job[t].op = "override" =>
        /\ job[t].id \in LockId
        /\ lock.id = job[t].id => lock.by = job[t].saw

\* While the lock of its check is there only its user edits.
AssignOK(t) ==
    job[t].op = "assign" =>
        /\ job[t].id \in LockId
        /\ lock.id = job[t].id => /\ lock.by = Owner[t]
                                  /\ editor \in {job[t].saw, Owner[t], "late"}

JobOK(t) == InsertOK(t) /\ RefreshOK(t) /\ HeartbeatOK(t) /\ OverrideOK(t) /\ AssignOK(t)

IInv == TypeOK /\ BeliefSound /\ \A t \in Tab : JobOK(t)

USE OwnerAssumption, TimeAssumption, SlackAssumption, IdAssumption

-----------------------------------------------------------------------------
(* Facts about rows and requests.                                          *)

\* The row is NoLock, or of a user, and then it has an identity.
LEMMA RowFacts ==
    ASSUME TypeOK
    PROVE  /\ lock.left \in (-Delay)..TTL
           /\ lock = NoLock => lock.id = "none" /\ lock.by = "none" /\ lock.left = 0
           /\ lock # NoLock => lock.id \in LockId /\ lock.by \in User
           /\ \A u \in User : lock.by = u => lock # NoLock
           /\ \A t \in Tab : /\ job[t].age \in 0..Delay
                             /\ job[t].id \in LockId \cup {"none"}
                             /\ Owner[t] \in User
<1>1. \A t \in Tab : job[t] \in JobRow /\ Owner[t] \in User
    BY DEF TypeOK
<1>2. lock = NoLock => lock.id = "none" /\ lock.by = "none" /\ lock.left = 0
    BY DEF NoLock
<1>3. lock # NoLock => lock.id \in LockId /\ lock.by \in User /\ lock.left \in (-Delay)..TTL
    BY DEF TypeOK, LockRow
<1> QED BY <1>1, <1>2, <1>3 DEF JobRow

\* There are more identities than requests can remember: FreshId is one of them.
LEMMA Fresh ==
    ASSUME TypeOK, NEW t \in Tab, lock.id \in {"none", job[t].id}
    PROVE  FreshId \in LockId /\ \A s \in Tab : job[s].id # FreshId
<1>1. \E i \in LockId : i # lock.id /\ \A s \in Tab : job[s].id # i
    <2>1. SUFFICES ASSUME \A i \in LockId : \E s \in Tab : job[s].id = i
                   PROVE  FALSE
        OBVIOUS
    <2> DEFINE f == [i \in LockId |-> CHOOSE s \in Tab : job[s].id = i]
    <2>2. f \in [LockId -> Tab] /\ \A i \in LockId : job[f[i]].id = i
        BY <2>1
    <2>3. Cardinality(Tab) \in Nat /\ Cardinality(LockId) \in Nat
        BY FS_CardinalityType
    <2> HIDE DEF f
    <2>4. \E i, j \in LockId : i # j /\ f[i] = f[j]
        BY <2>2, <2>3, FS_PigeonHole
    <2> QED BY <2>2, <2>4
<1> QED BY <1>1 DEF FreshId

\* A request that is idle needs nothing.
LEMMA IdleOK ==
    ASSUME NEW t \in Tab, job[t] = Idle
    PROVE  JobOK(t)
BY DEF JobOK, InsertOK, RefreshOK, HeartbeatOK, OverrideOK, AssignOK, Idle, Job

\* A new request of one tab leaves the others as they were.
LEMMA StartOK ==
    ASSUME IInv, NEW t \in Tab, NEW j \in JobRow, Start(t, j), JobOK(t)'
    PROVE  IInv'
<1> USE DEF IInv, Start
<1>1. job' \in [Tab -> JobRow] /\ \A s \in Tab \ {t} : job'[s] = job[s]
    BY DEF TypeOK
<1>2. TypeOK'
    BY <1>1 DEF TypeOK
<1>3. BeliefSound'
    BY DEF BeliefSound
<1>4. ASSUME NEW s \in Tab PROVE JobOK(s)'
    <2>1. CASE s = t
        BY <2>1
    <2>2. CASE s # t
        BY <1>1, <2>2 DEF JobOK, InsertOK, RefreshOK, HeartbeatOK, OverrideOK, AssignOK
    <2> QED BY <2>1, <2>2
<1> QED BY <1>2, <1>3, <1>4

\* Nobody has a lock or wants one.
LEMMA InitOK == Init => IInv
<1> SUFFICES ASSUME Init PROVE IInv
    OBVIOUS
<1>1. TypeOK
    BY DEF Init, TypeOK, JobRow, Idle, Job, Editor
<1>2. BeliefSound
    BY DEF Init, BeliefSound
<1>3. \A t \in Tab : JobOK(t)
    BY IdleOK DEF Init
<1> QED BY <1>1, <1>2, <1>3 DEF IInv

-----------------------------------------------------------------------------
(* What begins: a request knows of its row what it read.                   *)

\* acquire finds no row, an expired one, or its user's with enough time left.
LEMMA BeginAcquireOK ==
    ASSUME IInv, NEW t \in Tab, BeginAcquire(t)
    PROVE  IInv'
<1> USE DEF Job, JobRow
<1>0. TypeOK
    BY DEF IInv
<1>1. CASE lock = NoLock /\ Start(t, Job("insert", "none", "none"))
    <2>1. Job("insert", "none", "none") \in JobRow
        BY DEF Editor
    <2>2. job'[t] = Job("insert", "none", "none") /\ lock' = lock
        BY <1>0, <1>1 DEF Start, TypeOK
    <2>3. JobOK(t)'
        BY <1>0, <1>1, <2>2, RowFacts DEF JobOK, InsertOK, RefreshOK, HeartbeatOK, OverrideOK, AssignOK
    <2> QED BY <1>1, <2>1, <2>3, StartOK
<1>2. CASE Expired /\ Start(t, Job("insert", lock.id, "none"))
    <2>1. Job("insert", lock.id, "none") \in JobRow
        BY <1>0, <1>2, RowFacts DEF Editor, Expired
    <2>2. job'[t] = Job("insert", lock.id, "none") /\ lock' = lock
        BY <1>0, <1>2 DEF Start, TypeOK
    <2>3. JobOK(t)'
        BY <1>2, <2>2 DEF Expired, JobOK, InsertOK, RefreshOK, HeartbeatOK, OverrideOK, AssignOK
    <2> QED BY <1>2, <2>1, <2>3, StartOK
<1>3. CASE Holds(Owner[t]) /\ Start(t, Job("refresh", lock.id, "none"))
    <2>1. lock.id \in LockId /\ lock.by = Owner[t] /\ lock.left > Delay
        BY <1>0, <1>3, RowFacts DEF Holds, BeginAcquire, InTime
    <2>2. Job("refresh", lock.id, "none") \in JobRow
        BY <2>1 DEF Editor
    <2>3. job'[t] = Job("refresh", lock.id, "none") /\ lock' = lock
        BY <1>0, <1>3 DEF Start, TypeOK
    <2>4. JobOK(t)'
        BY <1>0, <2>1, <2>3, RowFacts DEF JobOK, InsertOK, RefreshOK, HeartbeatOK, OverrideOK, AssignOK
    <2> QED BY <1>3, <2>2, <2>4, StartOK
<1> QED BY <1>1, <1>2, <1>3 DEF BeginAcquire

\* heartbeat is asked for in time or not at all.
LEMMA BeginHeartbeatOK ==
    ASSUME IInv, NEW t \in Tab, BeginHeartbeat(t)
    PROVE  IInv'
<1> USE DEF Job, JobRow
<1>0. TypeOK /\ Start(t, Job("heartbeat", "none", "none"))
    BY DEF IInv, BeginHeartbeat
<1>1. Job("heartbeat", "none", "none") \in JobRow
    BY DEF Editor
<1>2. job'[t] = Job("heartbeat", "none", "none") /\ lock' = lock
    BY <1>0 DEF Start, TypeOK
<1>3. lock.by = Owner[t] => lock.left <= 0 \/ lock.left > Delay
    BY <1>0, RowFacts DEF BeginHeartbeat, InTime, Holds
<1>4. JobOK(t)'
    BY <1>0, <1>2, <1>3, RowFacts DEF JobOK, InsertOK, RefreshOK, HeartbeatOK, OverrideOK, AssignOK
<1> QED BY <1>0, <1>1, <1>4, StartOK

\* override remembers the row and its holder.
LEMMA BeginOverrideOK ==
    ASSUME IInv, NEW t \in Tab, BeginOverride(t)
    PROVE  IInv'
<1> USE DEF Job, JobRow
<1>0. TypeOK /\ Start(t, Job("override", lock.id, lock.by)) /\ lock # NoLock
    BY DEF IInv, BeginOverride
<1>1. lock.id \in LockId /\ lock.by \in User
    BY <1>0, RowFacts
<1>2. Job("override", lock.id, lock.by) \in JobRow
    BY <1>1 DEF Editor
<1>3. job'[t] = Job("override", lock.id, lock.by) /\ lock' = lock
    BY <1>0 DEF Start, TypeOK
<1>4. JobOK(t)'
    BY <1>1, <1>3 DEF JobOK, InsertOK, RefreshOK, HeartbeatOK, OverrideOK, AssignOK
<1> QED BY <1>0, <1>2, <1>4, StartOK

\* An edit remembers the row of its check and the last editor.
LEMMA BeginAssignOK ==
    ASSUME IInv, NEW t \in Tab, BeginAssign(t)
    PROVE  IInv'
<1> USE DEF Job, JobRow
<1>0. TypeOK /\ Start(t, Job("assign", lock.id, editor)) /\ Holds(Owner[t])
    BY DEF IInv, BeginAssign
<1>1. lock.id \in LockId /\ lock.by = Owner[t]
    BY <1>0, RowFacts DEF Holds
<1>2. Job("assign", lock.id, editor) \in JobRow
    BY <1>0, <1>1 DEF TypeOK
<1>3. job'[t] = Job("assign", lock.id, editor) /\ lock' = lock /\ editor' = editor
    BY <1>0 DEF Start, TypeOK
<1>4. JobOK(t)'
    BY <1>1, <1>3 DEF JobOK, InsertOK, RefreshOK, HeartbeatOK, OverrideOK, AssignOK
<1> QED BY <1>0, <1>2, <1>4, StartOK

-----------------------------------------------------------------------------
(* What commits, and what happens beside the requests.                     *)

\* The requests of the other tabs, and what the committing tab is left with.
LEMMA FinishFacts ==
    ASSUME TypeOK, NEW t \in Tab, job' = [job EXCEPT ![t] = Idle]
    PROVE  /\ job'[t] = Idle /\ \A s \in Tab \ {t} : job'[s] = job[s]
           /\ job' \in [Tab -> JobRow]
           /\ JobOK(t)'
<1>1. job'[t] = Idle /\ \A s \in Tab \ {t} : job'[s] = job[s]
    BY DEF TypeOK
<1>2. job' \in [Tab -> JobRow]
    BY <1>1 DEF TypeOK, Idle, Job, JobRow, Editor
<1>3. JobOK(t)'
    BY <1>1 DEF JobOK, InsertOK, RefreshOK, HeartbeatOK, OverrideOK, AssignOK, Idle, Job
<1> QED BY <1>1, <1>2, <1>3

\* What a client was told, it believes; the others believe what they did.
LEMMA ToldFacts ==
    ASSUME TypeOK, NEW u \in User, NEW n \in 0..TTL, Told(u, n)
    PROVE  /\ belief' \in [User -> 0..TTL] /\ broken' \subseteq User
           /\ belief'[u] = n
           /\ \A v \in User \ {u} : belief'[v] = belief[v] /\ (v \in broken' <=> v \in broken)
BY DEF TypeOK, Told

\* A new row is nobody's until now, and no request in flight knows it.
LEMMA NewRowOK ==
    ASSUME IInv, NEW t \in Tab, Finish(t, "insert"),
           lock.id \in {"none", job[t].id},
           lock' = [id |-> FreshId, by |-> Owner[t], left |-> TTL],
           Told(Owner[t], TTL)
    PROVE  IInv'
<1> USE DEF IInv, Finish
<1>1. FreshId \in LockId /\ \A s \in Tab : job[s].id # FreshId
    BY Fresh
<1>2. ~(\E v \in User : Holds(v))
    BY RowFacts DEF Holds, JobOK, InsertOK
<1> HIDE DEF IInv
<1>3. TypeOK /\ BeliefSound /\ \A s \in Tab : JobOK(s)
    BY DEF IInv
<1>4. TypeOK'
    <2>1. lock' \in LockRow /\ Owner[t] \in User
        BY <1>1, <1>3, RowFacts DEF LockRow
    <2>2. belief' \in [User -> 0..TTL] /\ broken' \subseteq User
        BY <1>3, <2>1, ToldFacts
    <2> QED BY <1>3, <2>1, <2>2, FinishFacts DEF TypeOK
<1>5. BeliefSound'
    BY <1>2, <1>3, ToldFacts, RowFacts DEF BeliefSound, Holds, TypeOK
<1>6. ASSUME NEW s \in Tab, s # t PROVE JobOK(s)'
    <2>1. job'[s] = job[s] /\ job[s].id # lock'.id /\ lock'.left = TTL /\ editor' = editor
        BY <1>1, <1>3, <1>6, FinishFacts
    <2>2. job[s].age \in 0..Delay
        BY <1>3, RowFacts
    <2> QED BY <1>3, <2>1, <2>2 DEF JobOK, InsertOK, RefreshOK, HeartbeatOK, OverrideOK, AssignOK
<1> QED BY <1>3, <1>4, <1>5, <1>6, FinishFacts DEF IInv

\* The insert of an acquire.
LEMMA CommitInsertOK ==
    ASSUME IInv, NEW t \in Tab, CommitInsert(t)
    PROVE  IInv'
<1>1. CASE /\ lock.id \in {"none", job[t].id}
           /\ lock' = [id |-> FreshId, by |-> Owner[t], left |-> TTL]
           /\ Told(Owner[t], TTL)
    BY <1>1, NewRowOK DEF CommitInsert
<1>2. CASE /\ lock.id \notin {"none", job[t].id}
           /\ UNCHANGED lock
           /\ IF lock.by = Owner[t]
              THEN Told(Owner[t], IF lock.left > 0 THEN lock.left ELSE 0)
              ELSE UNCHANGED <<belief, broken>>
    <2>0. TypeOK /\ BeliefSound /\ (\A s \in Tab : JobOK(s)) /\ Finish(t, "insert")
        BY DEF IInv, CommitInsert
    <2>1. \A s \in Tab : JobOK(s)'
        <3>1. /\ job' = [job EXCEPT ![t] = Idle] /\ lock' = lock /\ editor' = editor
              /\ \A s \in Tab \ {t} : job'[s] = job[s]
              /\ JobOK(t)'
            BY <1>2, <2>0, FinishFacts DEF Finish
        <3>2. ASSUME NEW s \in Tab \ {t} PROVE JobOK(s)'
            <4>1. JobOK(s) /\ job'[s] = job[s] /\ lock' = lock /\ editor' = editor
                BY <2>0, <3>1
            <4> QED BY <4>1 DEF JobOK, InsertOK, RefreshOK, HeartbeatOK, OverrideOK, AssignOK
        <3> QED BY <3>1, <3>2
    <2>2. CASE lock.by = Owner[t]
        <3>1. (IF lock.left > 0 THEN lock.left ELSE 0) \in 0..TTL
            BY <2>0, RowFacts
        <3>2. TypeOK'
            BY <1>2, <2>0, <2>2, <3>1, FinishFacts, ToldFacts, RowFacts DEF TypeOK, Finish
        <3>3. BeliefSound'
            BY <1>2, <2>0, <2>2, <3>1, ToldFacts, RowFacts DEF BeliefSound, TypeOK
        <3> QED BY <2>1, <3>2, <3>3 DEF IInv
    <2>3. CASE lock.by # Owner[t]
        <3>1. TypeOK'
            BY <1>2, <2>0, <2>3, FinishFacts DEF TypeOK, Finish
        <3>2. BeliefSound'
            BY <1>2, <2>0, <2>3 DEF BeliefSound
        <3> QED BY <2>1, <3>1, <3>2 DEF IInv
    <2> QED BY <2>2, <2>3
<1> QED BY <1>1, <1>2 DEF CommitInsert

\* A live row that lasts longer than any request in flight.
LEMMA RenewOK ==
    ASSUME IInv, NEW t \in Tab, job' = [job EXCEPT ![t] = Idle], UNCHANGED <<editor, gone>>,
           lock # NoLock, lock.by = Owner[t], lock.left > 0,
           lock' = [lock EXCEPT !.left = TTL - job[t].age],
           Told(Owner[t], TTL - job[t].age)
    PROVE  IInv'
<1>0. TypeOK /\ BeliefSound /\ \A s \in Tab : JobOK(s)
    BY DEF IInv
<1>1. TTL - job[t].age \in 0..TTL /\ TTL - job[t].age > Delay /\ Owner[t] \in User
    BY <1>0, RowFacts
<1>2. lock \in LockRow
    BY <1>0 DEF TypeOK
<1>3. lock'.id = lock.id /\ lock'.by = lock.by /\ lock'.left = TTL - job[t].age
    BY <1>2 DEF LockRow
<1>4. TypeOK'
    <2>1. lock' \in LockRow
        BY <1>1, <1>2 DEF LockRow
    <2>2. belief' \in [User -> 0..TTL] /\ broken' \subseteq User
        BY <1>0, <1>1, ToldFacts
    <2> QED BY <1>0, <2>1, <2>2, FinishFacts DEF TypeOK
<1>5. BeliefSound'
    BY <1>0, <1>1, <1>3, ToldFacts DEF BeliefSound
<1>6. ASSUME NEW s \in Tab, s # t PROVE JobOK(s)'
    <2>1. job'[s] = job[s] /\ job[s].age \in 0..Delay
        BY <1>0, <1>6, FinishFacts, RowFacts
    <2>2. InsertOK(s)' /\ RefreshOK(s)' /\ HeartbeatOK(s)'
        BY <1>0, <1>1, <1>3, <2>1, RowFacts DEF JobOK, InsertOK, RefreshOK, HeartbeatOK
    <2>3. OverrideOK(s)' /\ AssignOK(s)'
        BY <1>0, <1>3, <2>1 DEF JobOK, OverrideOK, AssignOK
    <2> QED BY <2>2, <2>3 DEF JobOK
<1> QED BY <1>0, <1>4, <1>5, <1>6, FinishFacts DEF IInv

\* What changes nothing but the end of requests, and what one user knows.
LEMMA KeepOK ==
    ASSUME IInv, NEW t \in Tab, UNCHANGED <<lock, editor>>, gone' \subseteq Mortal,
           job' \in [Tab -> JobRow], \A s \in Tab : job'[s] \in {job[s], Idle},
           UNCHANGED <<belief, broken>> \/ Told(Owner[t], 0)
    PROVE  IInv'
<1>0. TypeOK /\ BeliefSound /\ (\A s \in Tab : JobOK(s)) /\ Owner[t] \in User /\ 0 \in 0..TTL
    BY RowFacts DEF IInv
<1>1. TypeOK'
    BY <1>0, ToldFacts DEF TypeOK
<1>2. BeliefSound'
    BY <1>0, ToldFacts DEF BeliefSound
<1>3. ASSUME NEW s \in Tab PROVE JobOK(s)'
    <2>1. job'[s] = job[s] \/ job'[s].op = "idle"
        BY DEF Idle, Job
    <2> QED BY <1>0, <2>1 DEF JobOK, InsertOK, RefreshOK, HeartbeatOK, OverrideOK, AssignOK
<1> QED BY <1>1, <1>2, <1>3 DEF IInv

\* The holder's own acquire renews the row it read, if it is there.
LEMMA CommitRefreshOK ==
    ASSUME IInv, NEW t \in Tab, CommitRefresh(t)
    PROVE  IInv'
<1>0. TypeOK /\ JobOK(t) /\ Finish(t, "refresh")
    BY DEF IInv, CommitRefresh
<1>1. CASE lock.id = job[t].id
    <2>1. lock # NoLock /\ lock.by = Owner[t] /\ lock.left > 0
        BY <1>0, <1>1, RowFacts DEF JobOK, RefreshOK, Finish
    <2>2. TTL > job[t].age
        BY <1>0, RowFacts
    <2> QED BY <1>1, <2>1, <2>2, RenewOK DEF CommitRefresh, Finish
<1>2. CASE lock.id # job[t].id
    BY <1>0, <1>2, KeepOK, FinishFacts DEF CommitRefresh, Finish, IInv, TypeOK
<1> QED BY <1>1, <1>2

\* A heartbeat renews a live row and tells everyone else that he has none.
LEMMA CommitHeartbeatOK ==
    ASSUME IInv, NEW t \in Tab, CommitHeartbeat(t)
    PROVE  IInv'
<1>0. TypeOK /\ JobOK(t) /\ Finish(t, "heartbeat")
    BY DEF IInv, CommitHeartbeat
<1>1. CASE lock.by = Owner[t] /\ lock.left + job[t].age > 0
    <2>1. lock # NoLock /\ lock.left > 0
        BY <1>0, <1>1, RowFacts DEF JobOK, HeartbeatOK, Finish
    <2>2. TTL - job[t].age > 0
        BY <1>0, RowFacts
    <2> QED BY <1>1, <2>1, <2>2, RenewOK DEF CommitHeartbeat, Finish
<1>2. CASE ~(lock.by = Owner[t] /\ lock.left + job[t].age > 0)
    BY <1>0, <1>2, KeepOK, FinishFacts DEF CommitHeartbeat, Finish, IInv, TypeOK
<1> QED BY <1>1, <1>2

\* A row that goes takes nobody's with it.
LEMMA NoRowOK ==
    ASSUME IInv, lock' = NoLock, UNCHANGED <<editor, gone>>,
           job' \in [Tab -> JobRow], belief' \in [User -> 0..TTL], broken' \subseteq User,
           \A s \in Tab : job'[s] \in {job[s], Idle},
           \A v \in User \ broken' : belief'[v] > 0 => belief'[v] = belief[v] /\ lock.by # v /\ v \notin broken
    PROVE  IInv'
<1>0. TypeOK /\ BeliefSound /\ \A s \in Tab : JobOK(s)
    BY DEF IInv
<1>1. TypeOK'
    BY <1>0 DEF TypeOK
<1>2. BeliefSound'
    BY <1>0 DEF BeliefSound
<1>3. lock'.id = "none" /\ lock'.by = "none" /\ lock'.left = 0
    BY DEF NoLock
<1>4. ASSUME NEW s \in Tab PROVE JobOK(s)'
    <2>1. (job'[s].op = job[s].op /\ job'[s] = job[s]) \/ job'[s].op = "idle"
        BY DEF Idle, Job
    <2>2. "none" \notin LockId /\ Owner[s] # "none"
        OBVIOUS
    <2> QED BY <1>0, <1>3, <2>1, <2>2 DEF JobOK, InsertOK, RefreshOK, HeartbeatOK, OverrideOK, AssignOK
<1> QED BY <1>1, <1>2, <1>4 DEF IInv

\* release takes the caller's row, whichever tab asks.
LEMMA ReleaseOK ==
    ASSUME IInv, NEW t \in Tab, Release(t)
    PROVE  IInv'
<1>0. TypeOK /\ Owner[t] \in User /\ 0 \in 0..TTL /\ Told(Owner[t], 0)
    BY RowFacts DEF IInv, Release
<1>1. CASE lock.by = Owner[t]
    <2>1. \A v \in User \ broken' :
              belief'[v] > 0 => belief'[v] = belief[v] /\ lock.by # v /\ v \notin broken
        BY <1>0, <1>1, ToldFacts
    <2> QED BY <1>0, <1>1, <2>1, NoRowOK, ToldFacts DEF Release, TypeOK
<1>2. CASE lock.by # Owner[t]
    BY <1>0, <1>2, KeepOK DEF Release, TypeOK
<1> QED BY <1>1, <1>2

\* An override takes the row it read, and its holder with it.
LEMMA CommitOverrideOK ==
    ASSUME IInv, NEW t \in Tab, CommitOverride(t)
    PROVE  IInv'
<1>0. TypeOK /\ JobOK(t) /\ Finish(t, "override") /\ UNCHANGED belief
    BY DEF IInv, CommitOverride
<1>1. CASE lock.id = job[t].id
    <2>1. lock.by = job[t].saw /\ lock.by \in User
        BY <1>0, <1>1, RowFacts DEF JobOK, OverrideOK, Finish
    <2>2. lock' = NoLock /\ broken' = broken \cup {lock.by}
        BY <1>1, <2>1 DEF CommitOverride
    <2> QED BY <1>0, <2>1, <2>2, NoRowOK, FinishFacts DEF Finish, TypeOK
<1>2. CASE lock.id # job[t].id
    BY <1>0, <1>2, KeepOK, FinishFacts DEF CommitOverride, Finish, TypeOK
<1> QED BY <1>1, <1>2

\* Whoever edits under the lock of his check is its user; the others' checks are
\* of his lock, or of one that is gone.
LEMMA EditorOK ==
    ASSUME IInv, editor' \in Editor, UNCHANGED <<lock, belief, broken, gone>>,
           job' \in [Tab -> JobRow], \A s \in Tab : job'[s] \in {job[s], Idle},
           editor' # "late" => lock # NoLock /\ editor' = lock.by
    PROVE  IInv'
<1>0. TypeOK /\ BeliefSound /\ \A s \in Tab : JobOK(s)
    BY DEF IInv
<1>1. TypeOK' /\ BeliefSound'
    BY <1>0 DEF TypeOK, BeliefSound
<1>2. ASSUME NEW s \in Tab PROVE JobOK(s)'
    <2>1. job'[s] = job[s] \/ job'[s].op = "idle"
        BY DEF Idle, Job
    <2> QED BY <1>0, <2>1 DEF JobOK, InsertOK, RefreshOK, HeartbeatOK, OverrideOK, AssignOK
<1> QED BY <1>1, <1>2 DEF IInv

\* The write of an edit.
LEMMA CommitAssignOK ==
    ASSUME IInv, NEW t \in Tab, CommitAssign(t)
    PROVE  IInv'
<1>0. TypeOK /\ JobOK(t) /\ Owner[t] \in User
    BY RowFacts DEF IInv
<1>1. StillLocked(t) => lock # NoLock /\ lock.by = Owner[t]
    BY <1>0, RowFacts DEF CommitAssign, StillLocked, JobOK, AssignOK
<1> QED BY <1>0, <1>1, EditorOK, FinishFacts DEF CommitAssign, Editor, TypeOK

\* cascade_assignment is late for everyone.
LEMMA CascadeOK ==
    ASSUME IInv, Cascade
    PROVE  IInv'
BY EditorOK DEF IInv, TypeOK, Cascade, Editor

\* Time runs for the row, the users and the requests at once.
LEMMA TickOK ==
    ASSUME IInv, Tick
    PROVE  IInv'
<1>0. TypeOK /\ BeliefSound /\ \A s \in Tab : JobOK(s)
    BY DEF IInv
<1>1. /\ lock'.id = lock.id /\ lock'.by = lock.by
      /\ lock = NoLock => lock' = NoLock
      /\ lock # NoLock => /\ lock' \in LockRow
                          /\ lock'.left = IF lock.left > -Delay THEN lock.left - 1 ELSE lock.left
    <2>1. CASE lock = NoLock
        BY <2>1 DEF Tick
    <2>2. CASE lock # NoLock
        <3>1. lock \in LockRow
            BY <1>0, <2>2 DEF TypeOK
        <3>2. lock' = [lock EXCEPT !.left = IF @ > -Delay THEN @ - 1 ELSE @]
            BY <2>2 DEF Tick
        <3> QED BY <2>2, <3>1, <3>2 DEF LockRow
    <2> QED BY <2>1, <2>2
<1>2. ASSUME NEW s \in Tab
      PROVE  \/ job'[s] = Idle
             \/ /\ job'[s] \in JobRow
                /\ job'[s].op = job[s].op /\ job'[s].id = job[s].id /\ job'[s].saw = job[s].saw
                /\ job'[s].age = job[s].age + 1 /\ job'[s].age \in 0..Delay
    <2>1. job[s] \in JobRow
        BY <1>0 DEF TypeOK
    <2>2. job[s] = Idle \/ (job[s].age < Delay /\ job'[s] = [job[s] EXCEPT !.age = @ + 1])
        BY DEF Tick
    <2>3. job[s] = Idle => job'[s] = Idle
        BY DEF Tick
    <2> QED BY <2>1, <2>2, <2>3 DEF JobRow
<1>3. \A v \in User : belief'[v] = IF belief[v] > 0 THEN belief[v] - 1 ELSE 0
    BY DEF Tick
<1>4. TypeOK'
    <2>1. job' \in [Tab -> JobRow]
        <3>1. Idle \in JobRow
            BY DEF Idle, Job, JobRow, Editor
        <3> QED BY <1>2, <3>1 DEF Tick
    <2>2. belief' \in [User -> 0..TTL]
        BY <1>0, <1>3 DEF Tick, TypeOK
    <2> QED BY <1>0, <1>1, <2>1, <2>2 DEF TypeOK, Tick
<1>5. BeliefSound'
    <2> SUFFICES ASSUME NEW v \in User, v \notin broken, belief'[v] > 0
                 PROVE  lock'.by = v /\ lock'.left = belief'[v]
        BY DEF BeliefSound, Tick
    <2>1. belief[v] \in 0..TTL /\ belief[v] > 0 /\ belief'[v] = belief[v] - 1
        BY <1>0, <1>3 DEF TypeOK
    <2>2. lock.by = v /\ lock.left = belief[v] /\ lock # NoLock
        BY <1>0, <2>1, RowFacts DEF BeliefSound
    <2> QED BY <1>1, <2>1, <2>2
<1>6. ASSUME NEW s \in Tab PROVE JobOK(s)'
    <2>1. CASE job'[s] = Idle
        BY <2>1, IdleOK DEF JobOK, InsertOK, RefreshOK, HeartbeatOK, OverrideOK, AssignOK, Idle, Job
    <2>2. CASE job'[s] # Idle
        <3>1. /\ job'[s].op = job[s].op /\ job'[s].id = job[s].id /\ job'[s].saw = job[s].saw
              /\ job'[s].age = job[s].age + 1 /\ job[s].age \in 0..Delay /\ job'[s].age \in 0..Delay
            BY <1>0, <1>2, <2>2, RowFacts
        <3>2. InsertOK(s)' /\ RefreshOK(s)' /\ HeartbeatOK(s)'
            BY <1>0, <1>1, <3>1, RowFacts DEF JobOK, InsertOK, RefreshOK, HeartbeatOK
        <3>3. OverrideOK(s)' /\ AssignOK(s)'
            BY <1>0, <1>1, <3>1 DEF JobOK, OverrideOK, AssignOK, Tick
        <3> QED BY <3>2, <3>3 DEF JobOK
    <2> QED BY <2>1, <2>2
<1> QED BY <1>4, <1>5, <1>6 DEF IInv

\* Every step.
LEMMA NextOK ==
    ASSUME IInv, [Next]_vars
    PROVE  IInv'
<1>1. CASE Tick
    BY <1>1, TickOK
<1>2. CASE Cascade
    BY <1>2, CascadeOK
<1>3. ASSUME NEW t \in Tab, BeginAcquire(t) \/ BeginHeartbeat(t) \/ BeginOverride(t) \/ BeginAssign(t)
      PROVE  IInv'
    BY <1>3, BeginAcquireOK, BeginHeartbeatOK, BeginOverrideOK, BeginAssignOK
<1>4. ASSUME NEW t \in Tab, Commit(t)
      PROVE  IInv'
    BY <1>4, CommitInsertOK, CommitRefreshOK, CommitHeartbeatOK, CommitOverrideOK, CommitAssignOK DEF Commit
<1>5. ASSUME NEW t \in Tab, Release(t)
      PROVE  IInv'
    BY <1>5, ReleaseOK
<1>6. ASSUME NEW t \in Tab, Lost(t) \/ Vanish(t)
      PROVE  IInv'
    BY <1>6, KeepOK, FinishFacts, OpsAssumption DEF IInv, TypeOK, Lost, Vanish
<1>7. CASE UNCHANGED vars
    BY <1>7 DEF vars, IInv, TypeOK, BeliefSound, JobOK, InsertOK, RefreshOK, HeartbeatOK, OverrideOK, AssignOK
<1> QED BY <1>1, <1>2, <1>3, <1>4, <1>5, <1>6, <1>7 DEF Next

-----------------------------------------------------------------------------
\* The invariant behind the theorems: TypeOK, BeliefSound and JobOK.
THEOREM Inductive == Spec => []IInv
<1>1. Init => IInv
    BY InitOK
<1>2. IInv /\ [Next]_vars => IInv'
    BY NextOK
<1> QED BY <1>1, <1>2, PTL DEF Spec

\* The lock row, the requests and the clients hold values of their types (RecordLock).
THEOREM TypeCorrect == Spec => []TypeOK
BY Inductive, PTL DEF IInv

\* However long requests take and whatever is lost, a user who takes the lock for his
\* has it for as long as he thinks, unless a manager broke it (record_lock_service).
THEOREM BeliefsHold == Spec => []BeliefSound
BY Inductive, PTL DEF IInv

\* acquire takes no live lock from anybody: only its owner's release and an override do.
THEOREM LiveLocksStay == Spec => LiveLockKept
<1>1. ASSUME IInv, [Next]_vars
      PROVE  [\A u \in User : Holds(u) /\ lock'.by # u =>
                 \E t \in Tab : (Owner[t] = u /\ Release(t)) \/ CommitOverride(t)]_vars
    <2> SUFFICES ASSUME NEW u \in User, Holds(u), lock'.by # u
                 PROVE  \E t \in Tab : (Owner[t] = u /\ Release(t)) \/ CommitOverride(t)
        OBVIOUS
    <2>0. TypeOK /\ (\A s \in Tab : JobOK(s)) /\ lock.by = u /\ lock.left > 0 /\ lock \in LockRow
        BY <1>1, RowFacts DEF IInv, Holds, TypeOK
    <2>1. ~Tick
        BY <2>0, RowFacts DEF Tick, LockRow
    <2>2. ASSUME NEW t \in Tab, CommitInsert(t)
          PROVE  FALSE
        BY <2>0, <2>2, RowFacts DEF CommitInsert, Finish, JobOK, InsertOK
    <2>3. ASSUME NEW t \in Tab, CommitRefresh(t) \/ CommitHeartbeat(t)
          PROVE  FALSE
        BY <2>0, <2>3 DEF CommitRefresh, CommitHeartbeat, LockRow
    <2>4. ASSUME NEW t \in Tab,
                 BeginAcquire(t) \/ BeginHeartbeat(t) \/ BeginOverride(t) \/ BeginAssign(t)
          PROVE  FALSE
        BY <2>0, <2>4 DEF BeginAcquire, BeginHeartbeat, BeginOverride, BeginAssign, Start
    <2>5. ASSUME NEW t \in Tab, CommitAssign(t) \/ Lost(t) \/ Vanish(t)
          PROVE  FALSE
        BY <2>0, <2>5 DEF CommitAssign, Lost, Vanish
    <2>6. ~Cascade /\ ~UNCHANGED vars
        BY <2>0 DEF Cascade, vars
    <2>7. ASSUME NEW t \in Tab, Release(t)
          PROVE  Owner[t] = u
        BY <2>0, <2>7 DEF Release
    <2> QED BY <1>1, <2>1, <2>2, <2>3, <2>4, <2>5, <2>6, <2>7 DEF Next, Commit
<1> QED BY <1>1, Inductive, PTL DEF Spec, LiveLockKept

\* An edit under the lock of its check is not written over a foreign one its user has
\* not seen (ensure_lock_held, apply_assignment).
THEOREM EditsKeepOthers == Spec => EditKeepsOthers
<1>1. ASSUME IInv, [Next]_vars
      PROVE  [\A t \in Tab : CommitAssign(t) /\ StillLocked(t)
                => editor \in {job[t].saw, Owner[t], "late"}]_vars
    BY <1>1 DEF IInv, JobOK, AssignOK, CommitAssign, StillLocked
<1> QED BY <1>1, Inductive, PTL DEF Spec, EditKeepsOthers
=============================================================================
