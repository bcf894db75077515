------------------------------ MODULE Calendar ------------------------------
(***************************************************************************)
(* The shared appraisal calendar: booking, moving and cancelling visits    *)
(* with conflict detection (calendar_service), and the hand-over of the    *)
(* visits of an appraiser who leaves (admin_user_service).                 *)
(*                                                                         *)
(* The conflict check is one SELECT ... FOR UPDATE in a READ COMMITTED     *)
(* transaction.  It fixes the rows it will look at when it starts, waits   *)
(* for those that another request has locked, and then reads them as they  *)
(* are by then: a row that was changed is seen changed, a row that was     *)
(* inserted is not seen.  Its locks last to the end of the request, and    *)
(* every UPDATE of a locked row waits for them.                            *)
(*                                                                         *)
(* Times, durations and drive times are numbers of one unit; traffic does  *)
(* not change.  Mails, audit rows and the read-through cache of drive times*)
(* are left out, and what happens to a record after its visit is           *)
(* Consignment's.                                                          *)
(***************************************************************************)
EXTENDS Integers, FiniteSets

CONSTANTS
    Handler,      \* requests that run at once
    Appraiser,    \* users with the appraiser role
    Equipment,    \* rows of equipment_records
    Event,        \* rows of calendar_events
    Time,         \* the starts that are asked for
    Duration,     \* the lengths that are asked for
    Address,      \* sites
    Drive,        \* [from, to] -> what the distance matrix knows: {} or {a time}
    Fallback,     \* the setting drive_time_fallback_minutes
    Day,          \* the check looks a day back and a day ahead
    Scenario      \* what is asked for in one behaviour: the requests, times and sites

AllOps == {"create", "move", "readdress", "cancel", "hand_over"}
Site == Address \cup {"none"}

ASSUME ScenarioAssumption ==
    Scenario \subseteq [ops : SUBSET AllOps, times : SUBSET Time, sites : SUBSET Site]

ASSUME TimeAssumption ==
    /\ Time \subseteq Nat
    /\ Duration \subseteq Nat \ {0}
    /\ Day \in Nat \ {0}
    /\ Fallback \in Nat
ASSUME DriveAssumption ==
    /\ Drive \in [Address \X Address -> SUBSET Nat]
    /\ \A leg \in Address \X Address : Cardinality(Drive[leg]) <= 1

\* Nothing longer than a day keeps two visits apart: a visit lasts eight hours at
\* most, and sites are less than sixteen hours' drive from each other.
ASSUME DayAssumption ==
    \A d \in Duration : /\ d + Fallback <= Day
                        /\ \A leg \in Address \X Address : \A t \in Drive[leg] : d + t <= Day

VARIABLES
    events,    \* calendar_events
    status,    \* status of the equipment records
    active,    \* the appraisers whose account is active
    excused,   \* pairs of visits that no check has compared
    crossed,   \* records booked or cancelled by two requests at once
    tx,        \* the request each handler runs
    asked      \* the scenario of this behaviour

vars == <<events, status, active, excused, crossed, tx, asked>>

None == [none |-> TRUE]
Row == [record : Equipment, appraiser : Appraiser, start : Time, length : Duration,
        site : Site, cancelled : BOOLEAN]
Idle == [op |-> "idle"]

Exists(e) == events[e] # None
Booked == {e \in Event : Exists(e) /\ ~events[e].cancelled}
Pairs(e) == {{e, f} : f \in Event \ {e}}

\* The rows hold values of their types.
TypeOK ==
    /\ \A e \in Event : Exists(e) => events[e] \in Row
    /\ status \in [Equipment -> {"new_request", "appraisal_scheduled"}]
    /\ active \subseteq Appraiser
    /\ crossed \subseteq Equipment
    /\ asked \in Scenario

Init ==
    /\ events = [e \in Event |-> None]
    /\ status = [r \in Equipment |-> "new_request"]
    /\ active = Appraiser
    /\ excused = {}
    /\ crossed = {}
    /\ tx = [h \in Handler |-> Idle]
    /\ asked \in Scenario

-----------------------------------------------------------------------------
(* Conflict detection                                                      *)

End(v) == v.start + v.length
RangesOverlap(v, w) == v.start < End(w) /\ w.start < End(v)

\* What the distance matrix knows of the leg.
DriveTime(from, to) == IF "none" \in {from, to} THEN {} ELSE Drive[from, to]

\* The drive from one site to the other, or the fallback.
Buffer(from, to) ==
    IF DriveTime(from, to) = {} THEN Fallback ELSE CHOOSE t \in DriveTime(from, to) : TRUE

\* Mutant: the drive to the next visit is forgotten.
ClashesAfterOnly(v, w) ==
    \/ RangesOverlap(v, w)
    \/ End(w) <= v.start /\ v.start < End(w) + Buffer(w.site, v.site)

\* The visits overlap, or there is no time to drive from the first to the second.
Clashes(v, w) ==
    \/ RangesOverlap(v, w)
    \/ End(w) <= v.start /\ v.start < End(w) + Buffer(w.site, v.site)
    \/ End(v) <= w.start /\ End(v) > w.start - Buffer(v.site, w.site)

\* Mutant: the check looks at all visits of the appraiser.
EverInWindow(e, v) == e \in Booked /\ events[e].appraiser = v.appraiser

\* The rows of the check: booked visits of the appraiser within a day.
InWindow(e, v) ==
    /\ e \in Booked
    /\ events[e].appraiser = v.appraiser
    /\ v.start - Day <= events[e].start
    /\ events[e].start < v.start + Day

Window(v, except) == {e \in Event \ except : InWindow(e, v)}

-----------------------------------------------------------------------------
(* Requests                                                                *)

Booking == {"create", "move"}

\* The rows a request has locked, and those its next step waits for.
Locks(h) == IF tx[h].op \in Booking /\ tx[h].checked THEN tx[h].rows ELSE {}
Wants(h) ==
    CASE tx[h].op \in Booking /\ ~tx[h].checked -> tx[h].rows
      [] tx[h].op \in {"move", "readdress", "cancel"} -> {tx[h].event}
      [] tx[h].op = "hand_over" -> tx[h].rows
      [] OTHER -> {}
WaitsFor(h) == {k \in Handler \ {h} : Locks(k) \cap Wants(h) # {}}

\* The request ends; the bookings in flight have not seen what it wrote.
Finish(h, written) ==
    tx' = [k \in Handler |-> IF k = h THEN Idle
                             ELSE IF tx[k].op \in Booking THEN [tx[k] EXCEPT !.unseen = @ \cup written]
                             ELSE tx[k]]

Begin(h, t) ==
    /\ t.op \in asked.ops
    /\ tx[h] = Idle
    /\ tx' = [tx EXCEPT ![h] = t]
    /\ UNCHANGED <<events, status, active, excused, crossed, asked>>

\* create_event: a record that is not scheduled yet, and somebody with the role.
BeginCreate(h) ==
    \E r \in Equipment, p \in Appraiser, t \in asked.times, d \in Duration, site \in asked.sites :
        LET v == [record |-> r, appraiser |-> p, start |-> t, length |-> d,
                  site |-> site, cancelled |-> FALSE] IN
        /\ status[r] = "new_request"
        /\ Begin(h, [op |-> "create", row |-> v, rows |-> Window(v, {}),
                     checked |-> FALSE, unseen |-> {}])

\* _check_conflict: the rows are locked and read again.  A conflict is answered
\* with 409 and the request is over.
Check(h) ==
    /\ tx[h].op \in Booking
    /\ ~tx[h].checked
    /\ WaitsFor(h) = {}
    /\ LET seen == {e \in tx[h].rows : InWindow(e, tx[h].row)}
           unknown == tx[h].unseen \ seen IN
       tx' = [tx EXCEPT ![h] =
                 IF \E e \in seen : Clashes(tx[h].row, events[e]) THEN Idle
                 ELSE [@ EXCEPT !.checked = TRUE, !.rows = seen, !.unseen = unknown]]
    /\ UNCHANGED <<events, status, active, excused, crossed, asked>>

\* The visit is inserted and the record scheduled (record_transition).
CommitCreate(h) ==
    /\ tx[h].op = "create"
    /\ tx[h].checked
    /\ \E e \in Event :
           /\ ~Exists(e)
           /\ events' = [events EXCEPT ![e] = tx[h].row]
           /\ excused' = excused \cup {{e, f} : f \in tx[h].unseen}
           /\ Finish(h, {e})
    /\ LET r == tx[h].row.record IN
       /\ status' = [status EXCEPT ![r] = "appraisal_scheduled"]
       /\ crossed' = IF status[r] = "new_request" THEN crossed ELSE crossed \cup {r}
    /\ UNCHANGED <<active, asked>>

\* update_event with another time, length or appraiser is checked like a new visit;
\* what it does not change it writes back only in memory.
BeginMove(h) ==
    \E e \in Booked, p \in Appraiser, t \in asked.times, d \in Duration :
        \E site \in asked.sites \cup {events[e].site} :
            LET old == events[e]
                v == [old EXCEPT !.appraiser = p, !.start = t, !.length = d] IN
            /\ v # old
            /\ Begin(h, [op |-> "move", event |-> e, old |-> old, row |-> [v EXCEPT !.site = site],
                         rows |-> Window(v, {e}), checked |-> FALSE, unseen |-> {}])

\* A column that differs from what was read is written.
Column(old, new, now) == IF new # old THEN new ELSE now

\* Mutant: the move is applied to what is there now, as a difference.
MergeShift(old, new, now) ==
    [now EXCEPT !.appraiser = Column(old.appraiser, new.appraiser, @),
                !.start = @ + (new.start - old.start),
                !.length = Column(old.length, new.length, @),
                !.site = Column(old.site, new.site, @)]

Merge(old, new, now) ==
    [now EXCEPT !.appraiser = Column(old.appraiser, new.appraiser, @),
                !.start = Column(old.start, new.start, @),
                !.length = Column(old.length, new.length, @),
                !.site = Column(old.site, new.site, @)]

CommitMove(h) ==
    /\ tx[h].op = "move"
    /\ tx[h].checked
    /\ WaitsFor(h) = {}
    /\ LET e == tx[h].event IN
       /\ events' = [events EXCEPT ![e] = Merge(tx[h].old, tx[h].row, @)]
       /\ excused' = IF e \in tx[h].unseen THEN excused \cup Pairs(e)
                     ELSE (excused \ Pairs(e)) \cup {{e, f} : f \in tx[h].unseen}
       /\ Finish(h, {e})
    /\ UNCHANGED <<status, active, crossed, asked>>

\* update_event with another address only is not checked.
BeginReaddress(h) ==
    \E e \in Booked, site \in asked.sites :
        /\ site # events[e].site
        /\ Begin(h, [op |-> "readdress", event |-> e, site |-> site])

CommitReaddress(h) ==
    /\ tx[h].op = "readdress"
    /\ WaitsFor(h) = {}
    /\ LET e == tx[h].event IN
       /\ events' = [events EXCEPT ![e].site = tx[h].site]
       /\ excused' = excused \cup Pairs(e)
       /\ Finish(h, {e})
    /\ UNCHANGED <<status, active, crossed, asked>>

\* cancel_event: a visit that was cancelled before is left alone.
BeginCancel(h) ==
    \E e \in Booked : Begin(h, [op |-> "cancel", event |-> e])

\* Mutant: the record stays scheduled.
CommitCancelQuiet(h) ==
    /\ tx[h].op = "cancel"
    /\ WaitsFor(h) = {}
    /\ events' = [events EXCEPT ![tx[h].event].cancelled = TRUE]
    /\ Finish(h, {tx[h].event})
    /\ UNCHANGED <<status, active, excused, crossed, asked>>

CommitCancel(h) ==
    /\ tx[h].op = "cancel"
    /\ WaitsFor(h) = {}
    /\ LET e == tx[h].event IN
       /\ events' = [events EXCEPT ![e].cancelled = TRUE]
       /\ status' = [status EXCEPT ![events[e].record] = "new_request"]
       /\ crossed' = IF events[e].cancelled THEN crossed \cup {events[e].record} ELSE crossed
       /\ Finish(h, {e})
    /\ UNCHANGED <<active, excused, asked>>

\* deactivate_user: the leaving appraiser's visits go to another active one, and
\* nobody looks whether there is room for them.
BeginHandOver(h) ==
    \E p \in active : \E q \in active \ {p} :
        Begin(h, [op |-> "hand_over", user |-> p, to |-> q,
                  rows |-> {e \in Booked : events[e].appraiser = p}])

CommitHandOver(h) ==
    /\ tx[h].op = "hand_over"
    /\ WaitsFor(h) = {}
    /\ events' = [e \in Event |-> IF e \in tx[h].rows
                                  THEN [events[e] EXCEPT !.appraiser = tx[h].to] ELSE events[e]]
    /\ active' = active \ {tx[h].user}
    /\ excused' = excused \cup UNION {Pairs(e) : e \in tx[h].rows}
    /\ Finish(h, tx[h].rows)
    /\ UNCHANGED <<status, crossed, asked>>

\* A lost process, or the victim of the database's deadlock detection.
Rollback(h) ==
    /\ tx[h] # Idle
    /\ Finish(h, {})
    /\ UNCHANGED <<events, status, active, excused, crossed, asked>>

-----------------------------------------------------------------------------
Next == \E h \in Handler :
    \/ BeginCreate(h) \/ Check(h) \/ CommitCreate(h)
    \/ BeginMove(h) \/ CommitMove(h) \/ BeginReaddress(h) \/ CommitReaddress(h)
    \/ BeginCancel(h) \/ CommitCancel(h) \/ BeginHandOver(h) \/ CommitHandOver(h)
    \/ Rollback(h)

Spec == Init /\ [][Next]_vars

-----------------------------------------------------------------------------
Together(e, f) == e # f /\ events[e].appraiser = events[f].appraiser

\* Visits of one appraiser leave time to drive between them, except where nothing
\* compared them: the later request began before the earlier was committed, only
\* the address was edited, or they were handed over.
BookedApart ==
    \A e, f \in Booked : Together(e, f) /\ Clashes(events[e], events[f]) => {e, f} \in excused

\* A record with a booked visit is scheduled, and has one visit only, unless two
\* requests booked it, or cancelled the same visit, at once.
VisitsMatchStatus ==
    \A r \in Equipment \ crossed :
        LET visits == {e \in Booked : events[e].record = r}
        IN  /\ Cardinality(visits) <= 1
            /\ visits # {} <=> status[r] = "appraisal_scheduled"

\* Requests block each other for good only when two moves swap places: each moves
\* a visit that the other has locked, within a day of where its own goes.
OnlySwapsDeadlock ==
    \A h, k \in Handler : h \in WaitsFor(k) /\ k \in WaitsFor(h) =>
        /\ tx[h].op = "move" /\ tx[k].op = "move"
        /\ events[tx[k].event].start - tx[h].row.start \in (-Day)..Day

\* "Two concurrent schedule-attempts serialize on that lock; only the first wins,
\* the second sees the conflict."
NoDoubleBooking ==
    \A e, f \in Booked : Together(e, f) => ~RangesOverlap(events[e], events[f])
=============================================================================
