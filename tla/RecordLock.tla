----------------------------- MODULE RecordLock -----------------------------
(***************************************************************************)
(* The pessimistic lock on one record (record_lock_service and its router) *)
(* and the assignment edits it guards (sales_service).                     *)
(*                                                                         *)
(* The lock is a row of record_locks; a unique constraint admits one row   *)
(* per record.  Its expiry is kept as the ticks that are left, which Tick  *)
(* counts down: the row is live while left > 0.  A request reads the row   *)
(* and the clock in one step and writes in another (READ COMMITTED), and   *)
(* may take up to Delay ticks, so that what it read can be stale when it   *)
(* writes.  Statements that decide inside one UPDATE or DELETE decide in   *)
(* the step that writes.  A statement and its commit are one step.  What   *)
(* the router adds - audit rows, the mail to an overridden holder - feeds  *)
(* back into nothing here and is left out.                                 *)
(*                                                                         *)
(* A user may have the record open in several browser tabs; each runs one  *)
(* request at a time, but its release on close may overtake it.            *)
(***************************************************************************)
EXTENDS Integers, FiniteSets

CONSTANTS
    User, Tab, Owner,   \* Owner[t] is the user of tab t
    Manager,            \* the users who may override a lock
    Mortal,             \* the tabs that may vanish without releasing
    Ops,                \* the requests this instance issues
    LockId,             \* identities of lock rows, reused once forgotten
    TTL,                \* LOCK_TTL_SECONDS, in ticks
    Delay,              \* the longest a request takes, in ticks
    Margin              \* a holder uses a lock only with more than this left

AllOps == {"acquire", "heartbeat", "release", "override", "assign", "cascade"}

ASSUME OwnerAssumption == Owner \in [Tab -> User] /\ Manager \subseteq User
ASSUME OpsAssumption == Mortal \subseteq Tab /\ Ops \subseteq AllOps
ASSUME TimeAssumption ==
    /\ TTL \in Nat \ {0}
    /\ Delay \in Nat
    /\ Margin \in Nat
\* Heartbeats come a minute apart, requests take seconds, a lock lasts fifteen minutes.
ASSUME SlackAssumption == Delay <= Margin /\ TTL > 2 * Delay
ASSUME IdAssumption ==
    /\ IsFiniteSet(Tab) /\ IsFiniteSet(LockId)
    /\ Cardinality(LockId) > Cardinality(Tab)
    /\ {"none", "late"} \cap (LockId \cup User) = {}

VARIABLES
    lock,     \* the record_locks row, or NoLock
    job,      \* the request each tab has in flight
    belief,   \* ticks a user still takes the lock for his (LockInfo.expires_at)
    broken,   \* users whose lock a manager broke and who still take it for theirs
    editor,   \* the user who last wrote the record's assignment, or "late"
    gone      \* tabs that vanished

vars == <<lock, job, belief, broken, editor, gone>>

NoLock == [id |-> "none", by |-> "none", left |-> 0]
LockRow == [id : LockId, by : User, left : (-Delay)..TTL]

\* An edit written after the lock row of its check is gone, or one that no lock was
\* asked for, counts as late.
Editor == User \cup {"none", "late"}

\* A request in flight: the row it read, the clock's age since, and the holder
\* (override) or the last editor (assign) it read.
JobRow == [op : {"idle", "insert", "refresh", "heartbeat", "override", "assign"},
           id : LockId \cup {"none"}, age : 0..Delay, saw : Editor]
Job(op, id, saw) == [op |-> op, id |-> id, age |-> 0, saw |-> saw]
Idle == Job("idle", "none", "none")

\* The rows and the requests hold values of their types.
TypeOK ==
    /\ lock \in LockRow \cup {NoLock}
    /\ job \in [Tab -> JobRow]
    /\ belief \in [User -> 0..TTL]
    /\ broken \subseteq User
    /\ editor \in Editor
    /\ gone \subseteq Mortal

Init ==
    /\ lock = NoLock
    /\ job = [t \in Tab |-> Idle]
    /\ belief = [u \in User |-> 0]
    /\ broken = {}
    /\ editor = "none"
    /\ gone = {}

-----------------------------------------------------------------------------
\* Mutant: a row is never taken for expired.
NeverExpired == FALSE

Holds(u) == lock.by = u /\ lock.left > 0
Expired == lock # NoLock /\ lock.left <= 0

\* The client keeps its lock fresh: heartbeats come every minute of the fifteen.
InTime(u) == Holds(u) => lock.left > Margin

\* What a client that got its answer knows.
Told(u, left) ==
    /\ belief' = [belief EXCEPT ![u] = left]
    /\ broken' = broken \ {u}

Start(t, j) ==
    /\ job[t] = Idle
    /\ t \notin gone
    /\ job' = [job EXCEPT ![t] = j]
    /\ UNCHANGED <<lock, belief, broken, editor, gone>>

Finish(t, op) ==
    /\ job[t].op = op
    /\ job' = [job EXCEPT ![t] = Idle]
    /\ UNCHANGED <<editor, gone>>

-----------------------------------------------------------------------------
(* acquire                                                                 *)

\* acquire: a lock another user holds is refused (LockHeldError) and changes nothing.
BeginAcquire(t) ==
    /\ "acquire" \in Ops
    /\ InTime(Owner[t])
    /\ \/ lock = NoLock /\ Start(t, Job("insert", "none", "none"))
       \/ Expired /\ Start(t, Job("insert", lock.id, "none"))
       \/ Holds(Owner[t]) /\ Start(t, Job("refresh", lock.id, "none"))

\* The identity of a new row: no request remembers it.
FreshId == CHOOSE i \in LockId : i # lock.id /\ \A t \in Tab : job[t].id # i

\* Mutant: the expired lock is deleted by record instead of by row.
CommitInsertByRecord(t) ==
    /\ Finish(t, "insert")
    /\ LET u == Owner[t] IN
       /\ lock' = [id |-> FreshId, by |-> u, left |-> TTL]
       /\ Told(u, TTL)

\* Delete the expired row that was read, if it is still there, and insert.  When
\* the insert meets another row, its holder is told of it and anyone else refused.
CommitInsert(t) ==
    /\ Finish(t, "insert")
    /\ LET u == Owner[t] IN
       \/ /\ lock.id \in {"none", job[t].id}
          /\ lock' = [id |-> FreshId, by |-> u, left |-> TTL]
          /\ Told(u, TTL)
       \/ /\ lock.id \notin {"none", job[t].id}
          /\ UNCHANGED lock
          /\ IF lock.by = u
             THEN Told(u, IF lock.left > 0 THEN lock.left ELSE 0)
             ELSE UNCHANGED <<belief, broken>>

\* The holder's own acquire sets a new expiry on the row it read; if that row is
\* gone the flush raises StaleDataError and the request fails.
CommitRefresh(t) ==
    /\ Finish(t, "refresh")
    /\ IF lock.id = job[t].id
       THEN /\ lock' = [lock EXCEPT !.left = TTL - job[t].age]
            /\ Told(Owner[t], IF TTL > job[t].age THEN TTL - job[t].age ELSE 0)
       ELSE UNCHANGED <<lock, belief, broken>>

-----------------------------------------------------------------------------
(* heartbeat, release, override                                            *)

\* heartbeat reads the clock, for both the test and the new expiry, and then
\* runs one UPDATE.
BeginHeartbeat(t) ==
    /\ "heartbeat" \in Ops
    /\ InTime(Owner[t])
    /\ Start(t, Job("heartbeat", "none", "none"))

\* Mutant: the expiry is pushed back by a TTL instead of set a TTL from now.
CommitHeartbeatExtends(t) ==
    /\ Finish(t, "heartbeat")
    /\ lock.by = Owner[t]
    /\ lock.left + job[t].age > 0
    /\ lock' = [lock EXCEPT !.left = @ + TTL]
    /\ Told(Owner[t], TTL)

CommitHeartbeat(t) ==
    /\ Finish(t, "heartbeat")
    /\ LET u == Owner[t]
           left == TTL - job[t].age IN
       \/ /\ lock.by = u
          /\ lock.left + job[t].age > 0
          /\ lock' = [lock EXCEPT !.left = left]
          /\ Told(u, IF left > 0 THEN left ELSE 0)
       \/ /\ ~(lock.by = u /\ lock.left + job[t].age > 0)
          /\ UNCHANGED lock
          /\ Told(u, 0)

\* One DELETE of the caller's row, whichever tab acquired it.
Release(t) ==
    /\ "release" \in Ops
    /\ t \notin gone
    /\ lock' = IF lock.by = Owner[t] THEN NoLock ELSE lock
    /\ Told(Owner[t], 0)
    /\ UNCHANGED <<job, editor, gone>>

BeginOverride(t) ==
    /\ "override" \in Ops
    /\ Owner[t] \in Manager
    /\ lock # NoLock
    /\ Start(t, Job("override", lock.id, lock.by))

\* Mutant: whatever lock the record has by then is deleted.
CommitOverrideByRecord(t) ==
    /\ Finish(t, "override")
    /\ lock' = NoLock
    /\ broken' = broken \cup {job[t].saw}
    /\ UNCHANGED belief

\* The row that was read is deleted and its holder notified, once per record.
CommitOverride(t) ==
    /\ Finish(t, "override")
    /\ lock' = IF lock.id = job[t].id THEN NoLock ELSE lock
    /\ broken' = IF lock.id = job[t].id THEN broken \cup {job[t].saw} ELSE broken
    /\ UNCHANGED belief

-----------------------------------------------------------------------------
(* sales_service: the edits the lock is for                                *)

\* Mutant: the edit does not ask for the caller's lock, only for a lock.
BeginAssignAnyLock(t) ==
    /\ "assign" \in Ops
    /\ lock.left > 0
    /\ Start(t, Job("assign", lock.id, editor))

\* update_assignment: ensure_lock_held, and then apply_assignment writes.
BeginAssign(t) ==
    /\ "assign" \in Ops
    /\ Holds(Owner[t])
    /\ InTime(Owner[t])
    /\ Start(t, Job("assign", lock.id, editor))

StillLocked(t) == lock.id = job[t].id

CommitAssign(t) ==
    /\ job[t].op = "assign"
    /\ job' = [job EXCEPT ![t] = Idle]
    /\ editor' = IF StillLocked(t) THEN Owner[t] ELSE "late"
    /\ UNCHANGED <<lock, belief, broken, gone>>

\* cascade_assignment writes all new records of a customer and asks for no lock.
Cascade ==
    /\ "cascade" \in Ops
    /\ editor' = "late"
    /\ UNCHANGED <<lock, job, belief, broken, gone>>

-----------------------------------------------------------------------------
(* The environment: time, lost requests, closed laptops                    *)

\* Time passes while no request has taken as long as it may.  An expired lock
\* needs no more history than a request in flight can ask about.
Tick ==
    /\ \A t \in Tab : job[t] # Idle => job[t].age < Delay
    /\ lock' = IF lock = NoLock THEN lock
               ELSE [lock EXCEPT !.left = IF @ > -Delay THEN @ - 1 ELSE @]
    /\ belief' = [u \in User |-> IF belief[u] > 0 THEN belief[u] - 1 ELSE 0]
    /\ job' = [t \in Tab |-> IF job[t] = Idle THEN Idle
                             ELSE [job[t] EXCEPT !.age = @ + 1]]
    /\ UNCHANGED <<broken, editor, gone>>

\* The API process dies before the commit.
Lost(t) ==
    /\ job[t] # Idle
    /\ job' = [job EXCEPT ![t] = Idle]
    /\ UNCHANGED <<lock, belief, broken, editor, gone>>

\* The browser is gone; what it sent still runs.
Vanish(t) ==
    /\ t \in Mortal \ gone
    /\ gone' = gone \cup {t}
    /\ UNCHANGED <<lock, job, belief, broken, editor>>

-----------------------------------------------------------------------------
Commit(t) ==
    \/ CommitInsert(t) \/ CommitRefresh(t) \/ CommitHeartbeat(t)
    \/ CommitOverride(t) \/ CommitAssign(t)

Next ==
    \/ Tick \/ Cascade
    \/ \E t \in Tab :
        \/ BeginAcquire(t) \/ BeginHeartbeat(t) \/ BeginOverride(t) \/ BeginAssign(t)
        \/ Commit(t) \/ Release(t) \/ Lost(t) \/ Vanish(t)

\* The clock runs, a request ends, and a user who is still there and wants the
\* record asks for it again and again, between his other requests.
Fairness ==
    /\ WF_vars(Tick)
    /\ \A t \in Tab : WF_vars(Commit(t) \/ Lost(t))
    /\ \A t \in Tab \ Mortal : SF_vars(BeginAcquire(t)) /\ SF_vars(CommitInsert(t))

Spec == Init /\ [][Next]_vars
FairSpec == Spec /\ Fairness

-----------------------------------------------------------------------------
\* A user who takes the lock for his has it, for exactly as long as he thinks,
\* unless a manager broke it: so at most one user edits at a time.
BeliefSound ==
    \A u \in User \ broken :
        belief[u] > 0 => lock.by = u /\ lock.left = belief[u]

\* A live lock is lost only to its owner's release or to a manager: acquire
\* refuses "when another user holds a still-valid lock".
LiveLockKept ==
    [][\A u \in User : Holds(u) /\ lock'.by # u =>
            \E t \in Tab : (Owner[t] = u /\ Release(t)) \/ CommitOverride(t)]_vars

\* As long as the lock of its check is there, an edit is not written over an edit
\* of somebody else that its user has not seen, unless that one was late.
EditKeepsOthers ==
    [][\A t \in Tab : CommitAssign(t) /\ StillLocked(t)
           => editor \in {job[t].saw, Owner[t], "late"}]_vars

\* A lock whose user vanished does not stay: somebody else gets past it.
AbandonedLockFreed ==
    \A u \in User : (\A t \in Tab : Owner[t] = u => t \in gone) ~> [](lock.by # u)
=============================================================================
