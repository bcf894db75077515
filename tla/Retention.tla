------------------------------- MODULE Retention -------------------------------
(***************************************************************************)
(* The monthly partitions of audit_logs (migrations 003, 004), and the     *)
(* hourly sweep that prepares them, deletes expired rows, erases accounts  *)
(* and scrubs old addresses from the audit log (sweep_retention,           *)
(* scrub_audit_pii, delete_expired_accounts).                              *)
(*                                                                         *)
(* A sweep is one transaction and now() is the time it began.  Time counts *)
(* months.  Which table an expired row is in is left out: due has the      *)
(* months in which something expired that is still kept.                   *)
(***************************************************************************)
EXTENDS Integers, FiniteSets

CONSTANTS
    Sweeper,       \* sweeps and scripts that run at once
    Entry,         \* rows of audit_logs
    Back, Forward, \* months before and after its own that migration 003 prepares
    MaxMonth,      \* bound of the clock
    Chore          \* what occurs in one behaviour: "sweep", or nothing

ASSUME RetentionAssumption == Back \in Nat /\ Forward \in Nat /\ MaxMonth \in Nat \ {0}

\* Months a sweep prepares from the current one on, and months of rows that keep
\* their addresses: 30 days reach into the month before.
Ahead == 0 .. 2
Kept == 1

VARIABLES
    month,     \* the current month
    parts,     \* months that have a partition
    entries,   \* audit_logs
    due,       \* months in which something expired that is still kept
    sweep,     \* the transaction each of Sweeper runs
    swept,     \* months in which a sweep began that committed
    chore      \* what occurs in this behaviour

retentionVars == <<month, parts, entries, due, sweep, swept, chore>>

NoEntry == [absent |-> TRUE]
Resting == [at |-> "rest"]
First == 1
Month == 0 .. MaxMonth

\* default: the row is in audit_logs_default, not in the partition of its month.
EntryRow == [month : Month, default : BOOLEAN, pii : BOOLEAN]
Logged == {e \in Entry : entries[e] # NoEntry}

\* The row of an event of month m, given the partitions there are.
Routed(m, ps) == [month |-> m, default |-> m \notin ps, pii |-> TRUE]

RetentionTypeOK ==
    /\ month \in First .. MaxMonth
    /\ parts \subseteq Int
    /\ entries \in [Entry -> EntryRow \cup {NoEntry}]
    /\ \A e \in Logged : entries[e].default <=> entries[e].month \notin parts
    /\ due \subseteq Month
    /\ swept \subseteq First .. month

\* The migration copies the rows there were into the partitions it made.
RetentionInit ==
    /\ chore \in Chore
    /\ month = First
    /\ parts = First - Back .. First + Forward
    /\ entries \in [Entry -> {NoEntry} \cup {Routed(m, parts) : m \in 0 .. First}]
    /\ chore = {} => Logged = {}
    /\ due = {}
    /\ sweep = [p \in Sweeper |-> Resting]
    /\ swept = {}

-----------------------------------------------------------------------------
(* The application                                                         *)

\* A partition that is being created locks the log until the sweep ends.
LogFree == \A p \in Sweeper : sweep[p] # Resting => sweep[p].made = {}

Audit ==
    /\ "sweep" \in chore
    /\ LogFree
    /\ \E e \in Entry \ Logged : entries' = [entries EXCEPT ![e] = Routed(month, parts)]
    /\ UNCHANGED <<month, parts, due, sweep, swept, chore>>

FallDue ==
    /\ "sweep" \in chore
    /\ due' = due \cup {month}
    /\ UNCHANGED <<month, parts, entries, sweep, swept, chore>>

NextMonth ==
    /\ "sweep" \in chore
    /\ month < MaxMonth
    /\ month' = month + 1
    /\ UNCHANGED <<parts, entries, due, sweep, swept, chore>>

-----------------------------------------------------------------------------
(* The sweep                                                               *)

SweepFrame == UNCHANGED <<month, swept, chore>>

Begin(p, at) ==
    /\ "sweep" \in chore
    /\ sweep[p] = Resting
    /\ sweep' = [sweep EXCEPT ![p] =
           [at |-> at, now |-> month, made |-> {}, done |-> {}, whole |-> at = "ensure"]]
    /\ UNCHANGED <<parts, entries, due>> /\ SweepFrame

BeginSweep(p) == Begin(p, "ensure")
BeginErasureScript(p) == Begin(p, "work")
BeginScrubScript(p) == Begin(p, "scrub")

\* The advisory lock is held to the end of the transaction.
PartitionsLocked(p) == \E q \in Sweeper \ {p} :
    sweep[q] # Resting /\ sweep[q].whole /\ sweep[q].at # "ensure"

\* Mutant: the months ahead are one too few.
MissingBriefly(now) == {now, now + 1} \ parts

Missing(now) == {now + n : n \in Ahead} \ parts

\* A partition cannot be created while the default one has a row that belongs to it:
\* the sweep then fails.
Creatable(ms) == \A e \in Logged : entries[e].default => entries[e].month \notin ms

EnsurePartitions(p) ==
    /\ sweep[p].at = "ensure"
    /\ ~PartitionsLocked(p)
    /\ Creatable(Missing(sweep[p].now))
    /\ sweep' = [sweep EXCEPT ![p].at = "work", ![p].made = Missing(sweep[p].now)]
    /\ UNCHANGED <<parts, entries, due>> /\ SweepFrame

\* fn_sweep_retention and fn_delete_expired_accounts.
DeleteExpired(p) ==
    /\ sweep[p].at = "work"
    /\ sweep' = [sweep EXCEPT ![p].at = IF sweep[p].whole THEN "scrub" ELSE "commit",
                              ![p].done = {d \in due : d <= sweep[p].now}]
    /\ UNCHANGED <<parts, entries, due>> /\ SweepFrame

ScrubAudit(p) ==
    /\ sweep[p].at = "scrub"
    /\ sweep' = [sweep EXCEPT ![p].at = "scrubbed"]
    /\ UNCHANGED <<parts, entries, due>> /\ SweepFrame

Old(e, now) == entries[e].month < now - Kept

\* The whole sweep commits at once.
CommitSweep(p) ==
    /\ sweep[p].at \in {"scrubbed", "commit"}
    /\ LET t == sweep[p] IN
       /\ parts' = parts \cup t.made
       /\ due' = due \ t.done
       /\ entries' = [e \in Entry |->
              IF t.at = "scrubbed" /\ e \in Logged /\ Old(e, t.now)
              THEN [entries[e] EXCEPT !.pii = FALSE] ELSE entries[e]]
       /\ swept' = IF t.whole THEN swept \cup {t.now} ELSE swept
    /\ sweep' = [sweep EXCEPT ![p] = Resting]
    /\ UNCHANGED <<month, chore>>

\* An error or a crash rolls everything back.
AbandonSweep(p) ==
    /\ sweep[p] # Resting
    /\ sweep' = [sweep EXCEPT ![p] = Resting]
    /\ UNCHANGED <<parts, entries, due>> /\ SweepFrame

RetentionNext ==
    \/ Audit \/ FallDue \/ NextMonth
    \/ \E p \in Sweeper :
           \/ BeginSweep(p) \/ BeginErasureScript(p) \/ BeginScrubScript(p)
           \/ EnsurePartitions(p) \/ DeleteExpired(p) \/ ScrubAudit(p)
           \/ CommitSweep(p) \/ AbandonSweep(p)

RetentionSpec == RetentionInit /\ [][RetentionNext]_retentionVars

-----------------------------------------------------------------------------
\* A row is in the default partition only if the migration did not prepare its month
\* and no sweep committed that began in that month or the two before it.
DefaultNeedsGap ==
    \A e \in Logged : entries[e].default =>
        /\ entries[e].month \notin First - Back .. First + Forward
        /\ \A k \in swept : entries[e].month \notin k .. k + 2

\* Whatever runs beside it, a sweep that committed has left nothing that was due in
\* an earlier month, and no address older than it keeps.
RetentionKept ==
    \A k \in swept :
        /\ \A d \in due : d >= k
        /\ \A e \in Logged : entries[e].pii => entries[e].month >= k - Kept

\* Sweeps keep the log partitioned and its rows and addresses within their time
\* (fn_ensure_audit_partitions, fn_sweep_retention, fn_scrub_audit_pii).
SweepHolds == DefaultNeedsGap /\ RetentionKept
=============================================================================
