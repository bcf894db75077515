--------------------------- MODULE Calendar_proofs --------------------------
(***************************************************************************)
(* Theorems of Calendar, for any number of requests, visits and appraisers,*)
(* any times and any drives that leave a visit and its drive in a day.     *)
(***************************************************************************)
EXTENDS Calendar, FiniteSetTheorems, TLAPS

CreateTx == [op : {"create"}, row : Row, rows : SUBSET Event, checked : BOOLEAN,
             unseen : SUBSET Event]
MoveTx == [op : {"move"}, event : Event, old : Row, row : Row, rows : SUBSET Event,
           checked : BOOLEAN, unseen : SUBSET Event]
ReaddressTx == [op : {"readdress"}, event : Event, site : Site]
CancelTx == [op : {"cancel"}, event : Event]
HandOverTx == [op : {"hand_over"}, user : Appraiser, to : Appraiser, rows : SUBSET Event]
TxRow == {Idle} \cup CreateTx \cup MoveTx \cup ReaddressTx \cup CancelTx \cup HandOverTx

Types ==
    /\ TypeOK
    /\ events \in [Event -> Row \cup {None}]
    /\ tx \in [Handler -> TxRow]

\* The visit a request moves.
Own(t) == IF t.op = "move" THEN {t.event} ELSE {}

\* What a booking knows of the other visits: of those it has not checked, which there
\* are; of those it has checked, that they leave room; of all others, that it missed them.
KnownOK(t) ==
    /\ t.row \in Row /\ ~t.row.cancelled
    /\ \A e \in t.rows : e \in Event \ Own(t) /\ Exists(e)
    /\ ~t.checked => \A e \in Booked \ Own(t) : InWindow(e, t.row) => e \in t.rows \cup t.unseen
    /\ t.checked => \A e \in Booked \ Own(t) :
           events[e].appraiser = t.row.appraiser /\ Clashes(t.row, events[e]) => e \in t.unseen

\* The locks of a check keep the visits where they were.
LockedOK(t) == t.checked => \A e \in t.rows : events[e].start - t.row.start \in (-Day) .. Day

\* A visit that is moved is as it was read, unless the request missed a change of it.
MoveOK(t) ==
    /\ Exists(t.event)
    /\ t.event \in t.unseen \/ events[t.event] = t.old
    /\ t.row.record = t.old.record /\ ~t.old.cancelled

RequestOK(t) ==
    /\ t.op \in Booking => KnownOK(t) /\ LockedOK(t)
    /\ t.op = "move" => MoveOK(t)
    /\ t.op \in {"readdress", "cancel"} => Exists(t.event)
    /\ t.op = "hand_over" => \A e \in t.rows : Exists(e)

\* A record that no two requests crossed on has one visit at most, and is scheduled
\* exactly if it has one.
OneVisit ==
    \A r \in Equipment \ crossed :
        /\ \A e, f \in Booked : events[e].record = r /\ events[f].record = r => e = f
        /\ status[r] = "appraisal_scheduled" <=> \E e \in Booked : events[e].record = r

IInv == Types /\ BookedApart /\ OneVisit /\ \A h \in Handler : RequestOK(tx[h])

USE TimeAssumption DEF TimeAssumption

-----------------------------------------------------------------------------
(* Visits                                                                  *)

LEMMA RowFacts ==
    ASSUME NEW v \in Row
    PROVE  /\ v # None /\ v.start \in Nat /\ v.length \in Nat /\ v.length > 0
           /\ v.length \in Duration /\ v.site \in Site
           /\ v.appraiser \in Appraiser /\ v.record \in Equipment /\ v.cancelled \in BOOLEAN
<1>1. v # None
    BY DEF Row, None
<1>2. /\ v.start \in Time /\ v.length \in Duration /\ v.site \in Site
      /\ v.appraiser \in Appraiser /\ v.record \in Equipment /\ v.cancelled \in BOOLEAN
    BY DEF Row
<1>3. v.start \in Nat /\ v.length \in Nat \ {0}
    BY <1>2
<1>4. v.length > 0
    BY <1>3
<1> QED BY <1>1, <1>2, <1>3, <1>4

LEMMA EventFacts ==
    ASSUME Types
    PROVE  /\ \A e \in Event : Exists(e) => events[e] \in Row
           /\ \A e \in Booked : e \in Event /\ Exists(e) /\ ~events[e].cancelled
           /\ \A e \in Event : Exists(e) /\ ~events[e].cancelled => e \in Booked
BY DEF Types, Exists, Booked

\* A drive is known or it is the fallback, and with a visit it takes a day at most.
LEMMA BufferFacts ==
    ASSUME NEW from \in Site, NEW to \in Site, NEW d \in Duration
    PROVE  Buffer(from, to) \in Nat /\ d + Buffer(from, to) <= Day
<1>1. CASE DriveTime(from, to) = {}
    <2>1. Buffer(from, to) = Fallback
        BY <1>1 DEF Buffer
    <2>2. d + Fallback <= Day
        BY DayAssumption
    <2>3. Fallback \in Nat
        BY TimeAssumption
    <2> QED BY <2>1, <2>2, <2>3
<1>2. CASE DriveTime(from, to) # {}
    <2>0. "none" \notin {from, to}
        BY <1>2 DEF DriveTime
    <2>1. from \in Address /\ to \in Address /\ DriveTime(from, to) = Drive[<<from, to>>]
        BY <2>0 DEF DriveTime, Site
    <2>2. PICK t \in DriveTime(from, to) : Buffer(from, to) = t
        BY <1>2 DEF Buffer
    <2>3. <<from, to>> \in Address \X Address /\ t \in Drive[<<from, to>>]
        BY <2>1, <2>2
    <2>4. t \in Nat /\ d + t <= Day
        BY <2>3, DriveAssumption, DayAssumption
    <2> QED BY <2>2, <2>4
<1> QED BY <1>1, <1>2

\* The check looks far enough: whatever clashes starts within a day.
LEMMA ClashNear ==
    ASSUME NEW v \in Row, NEW w \in Row, Clashes(v, w)
    PROVE  v.start - Day <= w.start /\ w.start < v.start + Day
<1>1. /\ v.start \in Nat /\ w.start \in Nat /\ v.length \in Nat /\ w.length \in Nat
      /\ v.length \in Duration /\ w.length \in Duration /\ v.site \in Site /\ w.site \in Site
    BY RowFacts
<1>2. /\ Buffer(w.site, v.site) \in Nat /\ w.length + Buffer(w.site, v.site) <= Day
      /\ Buffer(v.site, w.site) \in Nat /\ v.length + Buffer(v.site, w.site) <= Day
    BY <1>1, BufferFacts
<1> QED BY <1>1, <1>2 DEF Clashes, RangesOverlap, End

LEMMA ClashSymmetric ==
    ASSUME NEW v \in Row, NEW w \in Row
    PROVE  Clashes(v, w) <=> Clashes(w, v)
<1>1. /\ v.start \in Nat /\ w.start \in Nat /\ v.length \in Nat /\ w.length \in Nat
      /\ v.length \in Duration /\ w.length \in Duration /\ v.site \in Site /\ w.site \in Site
    BY RowFacts
<1>2. Buffer(w.site, v.site) \in Nat /\ Buffer(v.site, w.site) \in Nat
    BY <1>1, BufferFacts
<1> QED BY <1>1, <1>2 DEF Clashes, RangesOverlap, End

-----------------------------------------------------------------------------
(* Requests                                                                *)

\* The requests by their kind.
LEMMA TxFacts ==
    ASSUME NEW t \in TxRow
    PROVE  /\ t.op = "create" => t \in CreateTx
           /\ t.op = "move" => t \in MoveTx
           /\ t.op = "readdress" => t \in ReaddressTx
           /\ t.op = "cancel" => t \in CancelTx
           /\ t.op = "hand_over" => t \in HandOverTx
           /\ t.op = "idle" => t = Idle
           /\ t.op \in {"idle", "create", "move", "readdress", "cancel", "hand_over"}
BY DEF TxRow, Idle, CreateTx, MoveTx, ReaddressTx, CancelTx, HandOverTx

\* A booking that missed more.
Missed(t, written) == [t EXCEPT !.unseen = @ \cup written]

LEMMA MissedFacts ==
    ASSUME NEW t \in CreateTx \cup MoveTx, NEW written \in SUBSET Event
    PROVE  /\ Missed(t, written) \in TxRow
           /\ Missed(t, written).op = t.op /\ Missed(t, written).row = t.row
           /\ Missed(t, written).rows = t.rows /\ Missed(t, written).checked = t.checked
           /\ Missed(t, written).unseen = t.unseen \cup written
           /\ t.op = "move" => /\ Missed(t, written).event = t.event
                               /\ Missed(t, written).old = t.old
<1>1. CASE t \in CreateTx
    BY <1>1 DEF Missed, CreateTx, TxRow
<1>2. CASE t \in MoveTx
    BY <1>2 DEF Missed, MoveTx, TxRow
<1> QED BY <1>1, <1>2

LEMMA FinishFacts ==
    ASSUME Types, NEW h \in Handler, NEW written \in SUBSET Event, Finish(h, written)
    PROVE  /\ tx' \in [Handler -> TxRow]
           /\ tx'[h] = Idle
           /\ \A k \in Handler \ {h} :
                  IF tx[k].op \in Booking
                  THEN tx[k] \in CreateTx \cup MoveTx /\ tx'[k] = Missed(tx[k], written)
                  ELSE tx'[k] = tx[k]
<1>1. ASSUME NEW k \in Handler
      PROVE  /\ tx'[k] = IF k = h THEN Idle
                         ELSE IF tx[k].op \in Booking THEN Missed(tx[k], written) ELSE tx[k]
             /\ tx[k].op \in Booking => tx[k] \in CreateTx \cup MoveTx
             /\ tx[k] \in TxRow
    BY TxFacts DEF Finish, Missed, Types, Booking
<1>2. ASSUME NEW k \in Handler PROVE tx'[k] \in TxRow
    BY <1>1, MissedFacts DEF TxRow
<1>3. tx' \in [Handler -> TxRow]
    BY <1>2 DEF Finish
<1> QED BY <1>1, <1>3

LEMMA InitOK == Init => IInv
<1> SUFFICES ASSUME Init PROVE IInv
    OBVIOUS
<1>1. Types
    BY DEF Init, Types, TypeOK, TxRow, Exists
<1>2. Booked = {} /\ \A h \in Handler : tx[h].op = "idle"
    BY DEF Init, Booked, Exists, Idle
<1>3. BookedApart /\ OneVisit
    BY <1>2 DEF BookedApart, OneVisit, Init
<1>4. \A h \in Handler : RequestOK(tx[h])
    BY <1>2 DEF RequestOK, Booking
<1> QED BY <1>1, <1>3, <1>4 DEF IInv

-----------------------------------------------------------------------------
(* What one request writes, as the others see it.                          *)

\* The other requests know of a change, or did not look at it.
LEMMA OthersOK ==
    ASSUME IInv, Types', NEW h \in Handler, NEW written \in SUBSET Event, Finish(h, written),
           \A e \in Event : Exists(e) => Exists(e)',
           \A e \in Event \ written : events'[e] = events[e],
           \A e \in written : (\E k \in Handler \ {h} : e \in Locks(k)) =>
                                  Exists(e) /\ events'[e].start = events[e].start
    PROVE  \A k \in Handler : RequestOK(tx[k])'
<1> SUFFICES ASSUME NEW k \in Handler PROVE RequestOK(tx[k])'
    OBVIOUS
<1>0. Types /\ RequestOK(tx[k])
    BY DEF IInv
<1>1. CASE k = h
    <2>1. tx'[k].op = "idle"
        BY <1>0, <1>1, FinishFacts DEF Idle
    <2> QED BY <2>1 DEF RequestOK, Booking
<1>2. CASE k # h /\ tx[k].op \notin Booking
    <2>1. tx'[k] = tx[k]
        BY <1>0, <1>2, FinishFacts
    <2>2. \A e \in Event : Exists(e) => Exists(e)'
        OBVIOUS
    <2>3. /\ tx[k].op \in {"readdress", "cancel"} => tx[k].event \in Event
          /\ tx[k].op = "hand_over" => tx[k].rows \subseteq Event
        BY <1>0, TxFacts DEF Types, ReaddressTx, CancelTx, HandOverTx
    <2> QED BY <1>0, <1>2, <2>1, <2>2, <2>3 DEF RequestOK, Booking
<1>3. CASE k # h /\ tx[k].op \in Booking
    <2> DEFINE t == tx[k]
               u == tx'[k]
    <2>1. t \in CreateTx \cup MoveTx /\ u = Missed(t, written)
        BY <1>0, <1>3, FinishFacts
    <2>2. /\ u.op = t.op /\ u.row = t.row /\ u.rows = t.rows /\ u.checked = t.checked
          /\ u.unseen = t.unseen \cup written
          /\ t.op = "move" => u.event = t.event /\ u.old = t.old
        BY <2>1, MissedFacts
    <2>3. /\ t.row \in Row /\ t.rows \subseteq Event /\ t.checked \in BOOLEAN
          /\ t.op = "move" => t.event \in Event
        BY <2>1 DEF CreateTx, MoveTx
    <2>4. Own(u) = Own(t)
        BY <2>2 DEF Own
    <2>5. \A e \in Booked' \ written : e \in Booked /\ events'[e] = events[e]
        BY DEF Booked, Exists
    <2>6. \A e \in t.rows : e \in Event \ Own(u) /\ Exists(e)'
        BY <1>0, <1>3, <2>4 DEF RequestOK, KnownOK
    <2>7. ASSUME ~u.checked, NEW e \in Booked' \ Own(u), InWindow(e, t.row)'
          PROVE  e \in u.rows \cup u.unseen
        <3>1. CASE e \in written
            BY <2>2, <3>1
        <3>2. CASE e \notin written
            <4>1. e \in Booked /\ InWindow(e, t.row)
                BY <2>2, <2>5, <2>7, <3>2 DEF InWindow
            <4> QED BY <1>0, <1>3, <2>2, <2>4, <2>7, <4>1 DEF RequestOK, KnownOK
        <3> QED BY <3>1, <3>2
    <2>8. ASSUME u.checked, NEW e \in Booked' \ Own(u),
                 events'[e].appraiser = u.row.appraiser, Clashes(u.row, events'[e])
          PROVE  e \in u.unseen
        <3>1. CASE e \in written
            BY <2>2, <3>1
        <3>2. CASE e \notin written
            BY <1>0, <1>3, <2>2, <2>4, <2>5, <2>8, <3>2 DEF RequestOK, KnownOK
        <3> QED BY <3>1, <3>2
    <2>9. ASSUME u.checked, NEW e \in u.rows
          PROVE  events'[e].start - u.row.start \in (-Day) .. Day
        <3>1. e \in Event /\ e \in Locks(k) /\ t.checked
            BY <1>3, <2>2, <2>3, <2>9 DEF Locks
        <3>2. events'[e].start = events[e].start
            BY <1>3, <3>1
        <3>3. events[e].start - t.row.start \in (-Day) .. Day
            BY <1>0, <1>3, <2>2, <2>9, <3>1 DEF RequestOK, LockedOK
        <3> QED BY <2>2, <3>2, <3>3
    <2>10. KnownOK(t)'
        BY <1>0, <1>3, <2>2, <2>3, <2>6, <2>7, <2>8 DEF RequestOK, KnownOK
    <2>11. LockedOK(t)'
        BY <2>9 DEF LockedOK
    <2>12. ASSUME u.op = "move" PROVE MoveOK(t)'
        <3>1. MoveOK(t) /\ t.event \in Event
            BY <1>0, <2>2, <2>3, <2>12 DEF RequestOK
        <3> QED BY <2>2, <2>12, <3>1 DEF MoveOK
    <2> QED BY <1>3, <2>2, <2>10, <2>11, <2>12 DEF RequestOK, Booking
<1> QED BY <1>1, <1>2, <1>3

\* A request takes a step that writes nothing.
LEMMA StepOK ==
    ASSUME IInv, NEW h \in Handler, NEW t \in TxRow, tx' = [tx EXCEPT ![h] = t],
           UNCHANGED <<events, status, active, excused, crossed, asked>>, RequestOK(t)
    PROVE  IInv'
<1>1. Types'
    BY DEF IInv, Types, TypeOK, Exists
<1>2. tx'[h] = t /\ \A k \in Handler \ {h} : tx'[k] = tx[k]
    BY DEF IInv, Types
<1>3. Booked' = Booked
    BY DEF Booked, Exists
<1>4. BookedApart' /\ OneVisit'
    BY <1>3 DEF IInv, BookedApart, Together, OneVisit
<1>5. \A k \in Handler : RequestOK(tx'[k])
    BY <1>2 DEF IInv
<1>6. ASSUME NEW k \in Handler PROVE RequestOK(tx[k])'
    BY <1>3, <1>5 DEF RequestOK, KnownOK, LockedOK, MoveOK, InWindow, Exists
<1> QED BY <1>1, <1>4, <1>6 DEF IInv

LEMMA AskedFacts ==
    ASSUME Types
    PROVE  asked.times \subseteq Time /\ asked.sites \subseteq Site /\ active \subseteq Appraiser
BY ScenarioAssumption DEF Types, TypeOK, ScenarioAssumption

LEMMA BeginCreateOK ==
    ASSUME IInv, NEW h \in Handler, BeginCreate(h)
    PROVE  IInv'
<1>0. Types
    BY DEF IInv
<1>1. PICK r \in Equipment, p \in Appraiser, t \in asked.times, d \in Duration, site \in asked.sites :
          LET v == [record |-> r, appraiser |-> p, start |-> t, length |-> d,
                    site |-> site, cancelled |-> FALSE] IN
          Begin(h, [op |-> "create", row |-> v, rows |-> Window(v, {}), checked |-> FALSE, unseen |-> {}])
    BY DEF BeginCreate
<1> DEFINE v == [record |-> r, appraiser |-> p, start |-> t, length |-> d,
                 site |-> site, cancelled |-> FALSE]
           u == [op |-> "create", row |-> v, rows |-> Window(v, {}), checked |-> FALSE, unseen |-> {}]
<1>2. Begin(h, u)
    BY <1>1
<1>3. v \in Row /\ v.cancelled = FALSE
    BY <1>0, AskedFacts DEF Row
<1> HIDE DEF v
<1>4. Window(v, {}) \subseteq Event
    BY DEF Window
<1>5. u \in CreateTx
    BY <1>3, <1>4 DEF CreateTx
<1>6. /\ u.op = "create" /\ u.row = v /\ u.rows = Window(v, {}) /\ u.checked = FALSE
      /\ u.unseen = {}
    OBVIOUS
<1> HIDE DEF u
<1>7. KnownOK(u) /\ LockedOK(u)
    BY <1>0, <1>3, <1>6, EventFacts DEF KnownOK, LockedOK, Own, Window, InWindow
<1>8. RequestOK(u)
    BY <1>6, <1>7 DEF RequestOK
<1> QED BY <1>2, <1>5, <1>8, StepOK DEF Begin, TxRow

LEMMA BeginMoveOK ==
    ASSUME IInv, NEW h \in Handler, BeginMove(h)
    PROVE  IInv'
<1>0. Types
    BY DEF IInv
<1>1. PICK e \in Booked, p \in Appraiser, t \in asked.times, d \in Duration :
          \E site \in asked.sites \cup {events[e].site} :
            LET old == events[e]
                v == [old EXCEPT !.appraiser = p, !.start = t, !.length = d] IN
            /\ v # old
            /\ Begin(h, [op |-> "move", event |-> e, old |-> old, row |-> [v EXCEPT !.site = site],
                         rows |-> Window(v, {e}), checked |-> FALSE, unseen |-> {}])
    BY DEF BeginMove
<1> DEFINE old == events[e]
           v == [old EXCEPT !.appraiser = p, !.start = t, !.length = d]
<1>2. PICK site \in asked.sites \cup {old.site} :
            Begin(h, [op |-> "move", event |-> e, old |-> old, row |-> [v EXCEPT !.site = site],
                      rows |-> Window(v, {e}), checked |-> FALSE, unseen |-> {}])
    BY <1>1
<1> DEFINE w == [v EXCEPT !.site = site]
           u == [op |-> "move", event |-> e, old |-> old, row |-> w,
                 rows |-> Window(v, {e}), checked |-> FALSE, unseen |-> {}]
<1>3. e \in Event /\ Exists(e) /\ ~old.cancelled /\ old \in Row
    BY <1>0, EventFacts
<1>4. p \in Appraiser /\ t \in Time /\ d \in Duration /\ site \in Site
    BY <1>0, <1>2, <1>3, AskedFacts, RowFacts
<1> HIDE DEF old
<1>5. v \in Row /\ v.appraiser = p /\ v.start = t /\ v.record = old.record /\ v.cancelled = old.cancelled
    BY <1>3, <1>4 DEF Row
<1> HIDE DEF v
<1>6. /\ w \in Row /\ w.appraiser = v.appraiser /\ w.start = v.start /\ w.record = old.record
      /\ w.cancelled = old.cancelled
    BY <1>4, <1>5 DEF Row
<1> HIDE DEF w
<1>7. Window(v, {e}) \subseteq Event
    BY DEF Window
<1>8. u \in MoveTx
    BY <1>3, <1>6, <1>7 DEF MoveTx
<1>9. /\ u.op = "move" /\ u.row = w /\ u.rows = Window(v, {e}) /\ u.checked = FALSE
      /\ u.unseen = {} /\ u.event = e /\ u.old = old
    OBVIOUS
<1>10. Begin(h, u)
    BY <1>2 DEF w
<1> HIDE DEF u
<1>11. \A f : InWindow(f, w) <=> InWindow(f, v)
    BY <1>6 DEF InWindow
<1>12. KnownOK(u) /\ LockedOK(u)
    BY <1>0, <1>3, <1>6, <1>9, <1>11, EventFacts DEF KnownOK, LockedOK, Own, Window, InWindow
<1>13. MoveOK(u)
    BY <1>3, <1>6, <1>9 DEF MoveOK, old
<1>14. RequestOK(u)
    BY <1>9, <1>12, <1>13 DEF RequestOK
<1> QED BY <1>8, <1>10, <1>14, StepOK DEF Begin, TxRow

LEMMA BeginOthersOK ==
    ASSUME IInv, NEW h \in Handler, BeginReaddress(h) \/ BeginCancel(h) \/ BeginHandOver(h)
    PROVE  IInv'
<1>0. Types
    BY DEF IInv
<1>1. ASSUME NEW t \in ReaddressTx \cup CancelTx, Exists(t.event), Begin(h, t) PROVE IInv'
    <2>1. t \in TxRow /\ t.op \in {"readdress", "cancel"}
        BY <1>1 DEF ReaddressTx, CancelTx, TxRow
    <2>2. RequestOK(t)
        BY <1>1, <2>1 DEF RequestOK, Booking
    <2> QED BY <1>1, <2>1, <2>2, StepOK DEF Begin
<1>2. CASE BeginReaddress(h)
    <2>1. PICK e \in Booked, site \in asked.sites : Begin(h, [op |-> "readdress", event |-> e, site |-> site])
        BY <1>2 DEF BeginReaddress
    <2>2. e \in Event /\ Exists(e) /\ site \in Site
        BY <1>0, EventFacts, AskedFacts
    <2> QED BY <1>1, <2>1, <2>2 DEF ReaddressTx
<1>3. CASE BeginCancel(h)
    <2>1. PICK e \in Booked : Begin(h, [op |-> "cancel", event |-> e])
        BY <1>3 DEF BeginCancel
    <2>2. e \in Event /\ Exists(e)
        BY <1>0, EventFacts
    <2> QED BY <1>1, <2>1, <2>2 DEF CancelTx
<1>4. CASE BeginHandOver(h)
    <2>1. PICK p \in active : \E q \in active \ {p} :
              Begin(h, [op |-> "hand_over", user |-> p, to |-> q,
                        rows |-> {e \in Booked : events[e].appraiser = p}])
        BY <1>4 DEF BeginHandOver
    <2>2. PICK q \in active \ {p} :
              Begin(h, [op |-> "hand_over", user |-> p, to |-> q,
                        rows |-> {e \in Booked : events[e].appraiser = p}])
        BY <2>1
    <2> DEFINE rows == {e \in Booked : events[e].appraiser = p}
               t == [op |-> "hand_over", user |-> p, to |-> q, rows |-> rows]
    <2>3. p \in Appraiser /\ q \in Appraiser /\ rows \subseteq Event /\ \A e \in rows : Exists(e)
        BY <1>0, AskedFacts, EventFacts
    <2> HIDE DEF rows
    <2>4. t \in HandOverTx /\ t.op = "hand_over" /\ t.rows = rows
        BY <2>3 DEF HandOverTx
    <2>5. Begin(h, t)
        BY <2>2 DEF rows
    <2> HIDE DEF t
    <2>6. RequestOK(t)
        BY <2>3, <2>4 DEF RequestOK, Booking
    <2> QED BY <2>4, <2>5, <2>6, StepOK DEF Begin, TxRow
<1> QED BY <1>2, <1>3, <1>4

\* The request that asks and the one that is refused.
LEMMA IdleOK == Idle \in TxRow /\ RequestOK(Idle) /\ Idle.op = "idle"
BY DEF Idle, TxRow, RequestOK, Booking

\* What the check lets pass leaves room; what it did not see it has missed.
LEMMA CheckOK ==
    ASSUME IInv, NEW h \in Handler, Check(h)
    PROVE  IInv'
<1> DEFINE t == tx[h]
           seen == {e \in t.rows : InWindow(e, t.row)}
           unknown == t.unseen \ seen
           u == [t EXCEPT !.checked = TRUE, !.rows = seen, !.unseen = unknown]
<1>0. Types /\ RequestOK(t)
    BY DEF IInv
<1>1. t.op \in Booking /\ ~t.checked /\ UNCHANGED <<events, status, active, excused, crossed, asked>>
    BY DEF Check
<1>2. CASE \E e \in seen : Clashes(t.row, events[e])
    <2>1. tx' = [tx EXCEPT ![h] = Idle]
        BY <1>2 DEF Check
    <2> QED BY <1>1, <2>1, IdleOK, StepOK
<1>3. CASE ~\E e \in seen : Clashes(t.row, events[e])
    <2>1. tx' = [tx EXCEPT ![h] = u]
        BY <1>3 DEF Check
    <2>2. t \in CreateTx \cup MoveTx
        BY <1>0, <1>1, TxFacts DEF Types, Booking
    <2>3. seen \subseteq Event /\ unknown \subseteq Event /\ seen \subseteq t.rows
        BY <2>2 DEF CreateTx, MoveTx
    <2>4. \A e : e \in seen <=> e \in t.rows /\ InWindow(e, t.row)
        OBVIOUS
    <2>5. \A e : e \in unknown <=> e \in t.unseen /\ e \notin seen
        OBVIOUS
    <2>6. ~\E e \in seen : Clashes(t.row, events[e])
        BY <1>3
    <2> HIDE DEF seen, unknown
    <2>7. /\ u \in TxRow /\ u.op = t.op /\ u.row = t.row /\ u.checked = TRUE /\ u.rows = seen
          /\ u.unseen = unknown
          /\ t.op = "move" => u.event = t.event /\ u.old = t.old
        <3>1. CASE t \in CreateTx
            BY <2>3, <3>1 DEF CreateTx, TxRow
        <3>2. CASE t \in MoveTx
            BY <2>3, <3>2 DEF MoveTx, TxRow
        <3> QED BY <2>2, <3>1, <3>2
    <2> HIDE DEF u
    <2>8. Own(u) = Own(t) /\ KnownOK(t)
        BY <1>0, <1>1, <2>7 DEF Own, RequestOK
    <2>9. ASSUME NEW e \in Booked \ Own(t), events[e].appraiser = t.row.appraiser,
                 Clashes(t.row, events[e])
          PROVE  e \in unknown
        <3>1. events[e] \in Row /\ t.row \in Row
            BY <1>0, <2>8, EventFacts DEF KnownOK
        <3>2. InWindow(e, t.row)
            BY <2>9, <3>1, ClashNear DEF InWindow
        <3>3. e \in t.rows \cup t.unseen
            BY <1>1, <2>8, <2>9, <3>2 DEF KnownOK
        <3> QED BY <2>4, <2>5, <2>6, <2>9, <3>2, <3>3
    <2>10. KnownOK(u)
        BY <2>3, <2>7, <2>8, <2>9 DEF KnownOK
    <2>11. LockedOK(u)
        <3>1. ASSUME NEW e \in seen PROVE events[e].start - t.row.start \in (-Day) .. Day
            <4>1. events[e].start \in Nat /\ t.row.start \in Nat /\ InWindow(e, t.row)
                BY <1>0, <2>3, <2>4, <2>8, <3>1, EventFacts, RowFacts DEF KnownOK
            <4> QED BY <4>1 DEF InWindow
        <3> QED BY <2>7, <3>1 DEF LockedOK
    <2>12. ASSUME t.op = "move" PROVE MoveOK(u)
        <3>1. MoveOK(t) /\ t.event \notin t.rows
            BY <1>0, <2>8, <2>12 DEF RequestOK, KnownOK, Own
        <3> QED BY <2>3, <2>5, <2>7, <2>12, <3>1 DEF MoveOK
    <2>13. RequestOK(u)
        BY <1>1, <2>7, <2>10, <2>11, <2>12 DEF RequestOK, Booking
    <2> QED BY <1>1, <2>1, <2>7, <2>13, StepOK
<1> QED BY <1>2, <1>3

-----------------------------------------------------------------------------
(* Commits                                                                 *)

\* One visit is written; it leaves room for every other or the pair is excused.
LEMMA ApartOK ==
    ASSUME IInv, Types', NEW e \in Event,
           \A f \in Event \ {e} : events'[f] = events[f],
           excused \ Pairs(e) \subseteq excused',
           \A f \in Booked \ {e} :
               e \in Booked' /\ events'[e].appraiser = events[f].appraiser
                   /\ Clashes(events'[e], events[f]) => {e, f} \in excused'
    PROVE  BookedApart'
<1> SUFFICES ASSUME NEW x \in Booked', NEW y \in Booked', Together(x, y)',
                    Clashes(events'[x], events'[y])
             PROVE  {x, y} \in excused'
    BY DEF BookedApart
<1>0. Types /\ BookedApart
    BY DEF IInv
<1>1. x # y /\ x \in Event /\ y \in Event /\ events'[x].appraiser = events'[y].appraiser
    BY DEF Together, Booked
<1>2. \A f \in Booked' \ {e} : f \in Booked /\ events'[f] = events[f]
    BY DEF Booked, Exists
<1>3. \A f \in Booked' : events'[f] \in Row
    BY DEF Types, Booked, Exists
<1>4. CASE x = e
    BY <1>1, <1>2, <1>4
<1>5. CASE y = e
    <2>1. Clashes(events'[y], events'[x])
        BY <1>3, ClashSymmetric
    <2>2. {y, x} \in excused'
        BY <1>1, <1>2, <1>5, <2>1
    <2>3. {x, y} = {y, x}
        OBVIOUS
    <2> QED BY <2>2, <2>3
<1>6. CASE x # e /\ y # e
    <2>1. {x, y} \in excused
        BY <1>0, <1>1, <1>2, <1>6 DEF BookedApart, Together
    <2>2. {x, y} \notin Pairs(e)
        BY <1>6 DEF Pairs
    <2> QED BY <2>1, <2>2
<1> QED BY <1>4, <1>5, <1>6

\* Which visits a record has does not change.
LEMMA VisitsKept ==
    ASSUME IInv, Types', UNCHANGED <<status, crossed>>,
           \A e \in Event : /\ Exists(e)' <=> Exists(e)
                            /\ Exists(e) => /\ events'[e].record = events[e].record
                                            /\ events'[e].cancelled = events[e].cancelled
    PROVE  OneVisit'
<1>1. \A e : e \in Booked' <=> e \in Booked
    BY DEF Booked
<1>2. \A e \in Booked : events'[e].record = events[e].record
    BY DEF Booked
<1> QED BY <1>1, <1>2 DEF IInv, OneVisit

LEMMA CommitCreateOK ==
    ASSUME IInv, NEW h \in Handler, CommitCreate(h)
    PROVE  IInv'
<1> DEFINE t == tx[h]
           r == t.row.record
<1>0. Types /\ RequestOK(t) /\ t.op = "create" /\ t.checked
    BY DEF IInv, CommitCreate
<1>1. PICK e \in Event : /\ ~Exists(e) /\ events' = [events EXCEPT ![e] = t.row]
                          /\ excused' = excused \cup {{e, f} : f \in t.unseen}
                          /\ Finish(h, {e})
    BY DEF CommitCreate
<1>2. /\ status' = [status EXCEPT ![r] = "appraisal_scheduled"]
      /\ crossed' = IF status[r] = "new_request" THEN crossed ELSE crossed \cup {r}
      /\ UNCHANGED <<active, asked>>
    BY DEF CommitCreate
<1>3. KnownOK(t) /\ t.row \in Row /\ ~t.row.cancelled /\ Own(t) = {} /\ r \in Equipment
    BY <1>0, RowFacts DEF RequestOK, Booking, KnownOK, Own
<1>4. events'[e] = t.row /\ \A f \in Event \ {e} : events'[f] = events[f]
    BY <1>0, <1>1 DEF Types
<1>5. events' \in [Event -> Row \cup {None}]
    BY <1>0, <1>1, <1>3 DEF Types
<1>6. Types'
    <2>1. tx' \in [Handler -> TxRow]
        BY <1>0, <1>1, FinishFacts
    <2>2. TypeOK'
        BY <1>0, <1>2, <1>3, <1>5 DEF Types, TypeOK, Exists
    <2> QED BY <1>5, <2>1, <2>2 DEF Types
<1>7. BookedApart'
    <2>1. ASSUME NEW f \in Booked \ {e}, events'[e].appraiser = events[f].appraiser,
                 Clashes(events'[e], events[f])
          PROVE  {e, f} \in excused'
        BY <1>0, <1>1, <1>3, <1>4, <2>1 DEF KnownOK
    <2> QED BY <1>1, <1>4, <1>6, <2>1, ApartOK
<1>8. \A f : f \in Booked' <=> f \in Booked \/ f = e
    <2>1. t.row # None
        BY <1>3, RowFacts
    <2> QED BY <1>3, <1>4, <2>1 DEF Booked, Exists
<1>9. e \notin Booked
    BY <1>1 DEF Booked
<1>10. OneVisit'
    <2> SUFFICES ASSUME NEW q \in Equipment \ crossed'
                 PROVE  /\ \A x, y \in Booked' : events'[x].record = q /\ events'[y].record = q => x = y
                        /\ status'[q] = "appraisal_scheduled" <=> \E x \in Booked' : events'[x].record = q
        BY DEF OneVisit
    <2>1. q \notin crossed /\ OneVisit
        BY <1>2 DEF IInv
    <2>2. \A f \in Booked : f \in Event /\ f # e /\ events'[f] = events[f]
        BY <1>4, <1>9 DEF Booked
    <2>3. CASE q # r
        <3>1. status'[q] = status[q]
            BY <1>0, <1>2, <2>3 DEF Types, TypeOK
        <3> QED BY <1>4, <1>8, <2>1, <2>2, <2>3, <3>1 DEF OneVisit
    <2>4. CASE q = r
        <3>1. status[r] = "new_request" /\ status'[r] = "appraisal_scheduled"
            BY <1>0, <1>2, <1>3, <2>4 DEF Types, TypeOK
        <3>2. \A f \in Booked : events[f].record # r
            BY <1>3, <2>1, <2>4, <3>1 DEF OneVisit
        <3> QED BY <1>4, <1>8, <2>2, <2>4, <3>1, <3>2
    <2> QED BY <2>3, <2>4
<1>11. \A k \in Handler : RequestOK(tx[k])'
    <2>1. \A k \in Handler \ {h} : e \notin Locks(k)
        BY <1>1 DEF IInv, Locks, RequestOK, KnownOK
    <2>2. \A f \in Event : Exists(f) => Exists(f)'
        BY <1>1, <1>4 DEF Exists
    <2> QED BY <1>1, <1>4, <1>6, <2>1, <2>2, OthersOK
<1> QED BY <1>6, <1>7, <1>10, <1>11 DEF IInv

\* What a checked request still waits for.
LEMMA WantsFacts ==
    ASSUME NEW h \in Handler
    PROVE  /\ tx[h].op = "move" /\ tx[h].checked => Wants(h) = {tx[h].event}
           /\ tx[h].op = "create" /\ tx[h].checked => Wants(h) = {}
           /\ tx[h].op \in {"readdress", "cancel"} => Wants(h) = {tx[h].event}
BY DEF Wants, Booking

LEMMA CommitMoveOK ==
    ASSUME IInv, NEW h \in Handler, CommitMove(h)
    PROVE  IInv'
<1> DEFINE t == tx[h]
           e == t.event
           now == events[e]
<1>0. Types /\ RequestOK(t) /\ t.op = "move" /\ t.checked
    BY DEF IInv, CommitMove
<1>1. /\ events' = [events EXCEPT ![e] = Merge(t.old, t.row, @)]
      /\ excused' = IF e \in t.unseen THEN excused \cup Pairs(e)
                    ELSE (excused \ Pairs(e)) \cup {{e, f} : f \in t.unseen}
      /\ Finish(h, {e}) /\ WaitsFor(h) = {}
      /\ UNCHANGED <<status, active, crossed, asked>>
    BY DEF CommitMove
<1>2. t \in MoveTx /\ e \in Event /\ Exists(e) /\ t.row \in Row /\ t.old \in Row /\ now \in Row
    BY <1>0, TxFacts, EventFacts DEF Types, MoveTx, RequestOK, MoveOK
<1>3. KnownOK(t) /\ MoveOK(t) /\ Own(t) = {e}
    BY <1>0 DEF RequestOK, Booking, Own
<1>4. events'[e] = Merge(t.old, t.row, now) /\ \A f \in Event \ {e} : events'[f] = events[f]
    BY <1>0, <1>1, <1>2 DEF Types
<1>5. /\ events'[e] \in Row /\ events'[e].record = now.record /\ events'[e].cancelled = now.cancelled
      /\ now = t.old => events'[e] = t.row
    <2> DEFINE m == events'[e]
    <2>1. m = [now EXCEPT !.appraiser = Column(t.old.appraiser, t.row.appraiser, now.appraiser),
                          !.start = Column(t.old.start, t.row.start, now.start),
                          !.length = Column(t.old.length, t.row.length, now.length),
                          !.site = Column(t.old.site, t.row.site, now.site)]
        BY <1>4 DEF Merge
    <2>2. /\ Column(t.old.appraiser, t.row.appraiser, now.appraiser) \in Appraiser
          /\ Column(t.old.start, t.row.start, now.start) \in Time
          /\ Column(t.old.length, t.row.length, now.length) \in Duration
          /\ Column(t.old.site, t.row.site, now.site) \in Site
        BY <1>2 DEF Column, Row
    <2>3. /\ m \in Row /\ m.record = now.record /\ m.cancelled = now.cancelled
          /\ m.appraiser = Column(t.old.appraiser, t.row.appraiser, now.appraiser)
          /\ m.start = Column(t.old.start, t.row.start, now.start)
          /\ m.length = Column(t.old.length, t.row.length, now.length)
          /\ m.site = Column(t.old.site, t.row.site, now.site)
        BY <1>2, <2>1, <2>2 DEF Row
    <2>4. ASSUME now = t.old PROVE m = t.row
        <3>1. /\ m.appraiser = t.row.appraiser /\ m.start = t.row.start
              /\ m.length = t.row.length /\ m.site = t.row.site
            BY <2>3, <2>4 DEF Column
        <3>2. m.record = t.row.record /\ m.cancelled = t.row.cancelled
            BY <1>2, <1>3, <2>3, <2>4 DEF MoveOK, KnownOK, Row
        <3> HIDE DEF m
        <3> QED BY <1>2, <2>3, <3>1, <3>2 DEF Row
    <2> QED BY <2>3, <2>4
<1>6. Types'
    <2>1. tx' \in [Handler -> TxRow]
        BY <1>0, <1>1, <1>2, FinishFacts
    <2>2. events' \in [Event -> Row \cup {None}]
        BY <1>0, <1>1, <1>2, <1>4, <1>5 DEF Types
    <2>3. TypeOK'
        BY <1>0, <1>1, <2>2 DEF Types, TypeOK, Exists
    <2> QED BY <2>1, <2>2, <2>3 DEF Types
<1>7. BookedApart'
    <2>1. ASSUME NEW f \in Booked \ {e}, events'[e].appraiser = events[f].appraiser,
                 Clashes(events'[e], events[f])
          PROVE  {e, f} \in excused'
        <3>1. CASE e \in t.unseen
            BY <1>1, <3>1 DEF Pairs, Booked
        <3>2. CASE e \notin t.unseen
            <4>1. events'[e] = t.row
                BY <1>3, <1>5, <3>2 DEF MoveOK
            <4>2. f \in t.unseen
                BY <1>0, <1>3, <2>1, <4>1 DEF KnownOK
            <4> QED BY <1>1, <3>2, <4>2
        <3> QED BY <3>1, <3>2
    <2>2. excused \ Pairs(e) \subseteq excused'
        BY <1>1
    <2> QED BY <1>2, <1>4, <1>6, <2>1, <2>2, ApartOK
<1>8. events'[e] # None
    BY <1>5, RowFacts
<1>9. OneVisit'
    BY <1>1, <1>2, <1>4, <1>5, <1>6, <1>8, VisitsKept DEF Exists
<1>10. \A k \in Handler : RequestOK(tx[k])'
    <2>1. \A k \in Handler \ {h} : e \notin Locks(k)
        BY <1>0, <1>1, WantsFacts DEF WaitsFor
    <2>2. \A f \in Event : Exists(f) => Exists(f)'
        BY <1>4, <1>8 DEF Exists
    <2> QED BY <1>1, <1>2, <1>4, <1>6, <2>1, <2>2, OthersOK
<1> QED BY <1>6, <1>7, <1>9, <1>10 DEF IInv

LEMMA CommitReaddressOK ==
    ASSUME IInv, NEW h \in Handler, CommitReaddress(h)
    PROVE  IInv'
<1> DEFINE t == tx[h]
           e == t.event
<1>0. Types /\ RequestOK(t) /\ t.op = "readdress" /\ t \in ReaddressTx
    BY TxFacts DEF IInv, CommitReaddress, Types
<1>1. /\ events' = [events EXCEPT ![e].site = t.site] /\ excused' = excused \cup Pairs(e)
      /\ Finish(h, {e}) /\ UNCHANGED <<status, active, crossed, asked>>
    BY DEF CommitReaddress
<1>2. e \in Event /\ Exists(e) /\ events[e] \in Row /\ t.site \in Site
    BY <1>0, EventFacts DEF RequestOK, ReaddressTx
<1>3. events'[e] = [events[e] EXCEPT !.site = t.site] /\ \A f \in Event \ {e} : events'[f] = events[f]
    BY <1>0, <1>1, <1>2 DEF Types
<1>4. /\ events'[e] \in Row /\ events'[e].record = events[e].record /\ events'[e].start = events[e].start
      /\ events'[e].cancelled = events[e].cancelled
    BY <1>2, <1>3 DEF Row
<1>5. events'[e] # None
    BY <1>4, RowFacts
<1>6. Types'
    <2>1. tx' \in [Handler -> TxRow]
        BY <1>0, <1>1, <1>2, FinishFacts
    <2>2. events' \in [Event -> Row \cup {None}]
        BY <1>0, <1>1, <1>2, <1>3, <1>4 DEF Types
    <2>3. TypeOK'
        BY <1>0, <1>1, <2>2 DEF Types, TypeOK, Exists
    <2> QED BY <2>1, <2>2, <2>3 DEF Types
<1>7. BookedApart'
    <2>1. \A f \in Booked \ {e} : {e, f} \in excused'
        BY <1>1 DEF Pairs, Booked
    <2> QED BY <1>1, <1>2, <1>3, <1>6, <2>1, ApartOK
<1>8. OneVisit'
    BY <1>1, <1>2, <1>3, <1>4, <1>5, <1>6, VisitsKept DEF Exists
<1>9. \A k \in Handler : RequestOK(tx[k])'
    <2>1. \A f \in Event : Exists(f) => Exists(f)'
        BY <1>3, <1>5 DEF Exists
    <2> QED BY <1>1, <1>2, <1>3, <1>4, <1>6, <2>1, OthersOK
<1> QED BY <1>6, <1>7, <1>8, <1>9 DEF IInv

LEMMA CommitCancelOK ==
    ASSUME IInv, NEW h \in Handler, CommitCancel(h)
    PROVE  IInv'
<1> DEFINE t == tx[h]
           e == t.event
           r == events[e].record
<1>0. Types /\ RequestOK(t) /\ t.op = "cancel" /\ t \in CancelTx
    BY TxFacts DEF IInv, CommitCancel, Types
<1>1. /\ events' = [events EXCEPT ![e].cancelled = TRUE]
      /\ status' = [status EXCEPT ![r] = "new_request"]
      /\ crossed' = IF events[e].cancelled THEN crossed \cup {r} ELSE crossed
      /\ Finish(h, {e}) /\ UNCHANGED <<active, excused, asked>>
    BY DEF CommitCancel
<1>2. e \in Event /\ Exists(e) /\ events[e] \in Row /\ r \in Equipment
    BY <1>0, EventFacts, RowFacts DEF RequestOK, CancelTx
<1>3. events'[e] = [events[e] EXCEPT !.cancelled = TRUE] /\ \A f \in Event \ {e} : events'[f] = events[f]
    BY <1>0, <1>1, <1>2 DEF Types
<1>4. /\ events'[e] \in Row /\ events'[e].record = r /\ events'[e].start = events[e].start
      /\ events'[e].cancelled = TRUE
    BY <1>2, <1>3 DEF Row
<1>5. events'[e] # None
    BY <1>4, RowFacts
<1>6. Types'
    <2>1. tx' \in [Handler -> TxRow]
        BY <1>0, <1>1, <1>2, FinishFacts
    <2>2. events' \in [Event -> Row \cup {None}]
        BY <1>0, <1>1, <1>2, <1>3, <1>4 DEF Types
    <2>3. TypeOK'
        BY <1>0, <1>1, <1>2, <2>2 DEF Types, TypeOK, Exists
    <2> QED BY <2>1, <2>2, <2>3 DEF Types
<1>7. \A f : f \in Booked' <=> f \in Booked /\ f # e
    BY <1>3, <1>4 DEF Booked, Exists
<1>8. BookedApart'
    BY <1>1, <1>2, <1>3, <1>6, <1>7, ApartOK
<1>9. OneVisit'
    <2> SUFFICES ASSUME NEW q \in Equipment \ crossed'
                 PROVE  /\ \A x, y \in Booked' : events'[x].record = q /\ events'[y].record = q => x = y
                        /\ status'[q] = "appraisal_scheduled" <=> \E x \in Booked' : events'[x].record = q
        BY DEF OneVisit
    <2>1. q \notin crossed /\ OneVisit
        BY <1>1 DEF IInv
    <2>2. \A f \in Booked' : f \in Event /\ f \in Booked /\ f # e /\ events'[f] = events[f]
        BY <1>3, <1>7 DEF Booked
    <2>3. CASE q # r
        <3>1. status'[q] = status[q]
            BY <1>0, <1>1, <2>3 DEF Types, TypeOK
        <3>2. \A f \in Booked : events[f].record = q => f \in Booked'
            BY <1>7, <2>3
        <3> QED BY <2>1, <2>2, <3>1, <3>2 DEF OneVisit
    <2>4. CASE q = r
        <3>1. e \in Booked /\ status'[r] = "new_request"
            BY <1>0, <1>1, <1>2, <2>4 DEF Types, TypeOK, Booked
        <3>2. \A f \in Booked : events[f].record = r => f = e
            BY <2>1, <2>4, <3>1 DEF OneVisit
        <3> QED BY <2>2, <2>4, <3>1, <3>2
    <2> QED BY <2>3, <2>4
<1>10. \A k \in Handler : RequestOK(tx[k])'
    <2>1. \A f \in Event : Exists(f) => Exists(f)'
        BY <1>3, <1>5 DEF Exists
    <2> QED BY <1>1, <1>2, <1>3, <1>4, <1>6, <2>1, OthersOK
<1> QED BY <1>6, <1>8, <1>9, <1>10 DEF IInv

LEMMA CommitHandOverOK ==
    ASSUME IInv, NEW h \in Handler, CommitHandOver(h)
    PROVE  IInv'
<1> DEFINE t == tx[h]
<1>0. Types /\ RequestOK(t) /\ t.op = "hand_over" /\ t \in HandOverTx
    BY TxFacts DEF IInv, CommitHandOver, Types
<1>1. /\ events' = [e \in Event |-> IF e \in t.rows
                                     THEN [events[e] EXCEPT !.appraiser = t.to] ELSE events[e]]
      /\ active' = active \ {t.user} /\ excused' = excused \cup UNION {Pairs(e) : e \in t.rows}
      /\ Finish(h, t.rows) /\ UNCHANGED <<status, crossed, asked>>
    BY DEF CommitHandOver
<1>2. t.rows \subseteq Event /\ t.to \in Appraiser /\ \A e \in t.rows : Exists(e)
    BY <1>0 DEF RequestOK, HandOverTx
<1>3. ASSUME NEW e \in Event
      PROVE  /\ events'[e] \in Row \cup {None}
             /\ Exists(e)' <=> Exists(e)
             /\ e \notin t.rows => events'[e] = events[e]
             /\ Exists(e) => /\ events'[e].record = events[e].record
                             /\ events'[e].cancelled = events[e].cancelled
                             /\ events'[e].start = events[e].start
    <2>1. CASE e \in t.rows
        <3>1. events[e] \in Row /\ events'[e] = [events[e] EXCEPT !.appraiser = t.to] /\ Exists(e)
            BY <1>0, <1>1, <1>2, <2>1, EventFacts
        <3>2. /\ events'[e] \in Row /\ events'[e].record = events[e].record
              /\ events'[e].cancelled = events[e].cancelled /\ events'[e].start = events[e].start
            BY <1>2, <3>1 DEF Row
        <3>3. Exists(e)'
            BY <3>2, RowFacts DEF Exists
        <3> QED BY <2>1, <3>1, <3>2, <3>3
    <2>2. CASE e \notin t.rows
        BY <1>0, <1>1, <2>2 DEF Types, Exists
    <2> QED BY <2>1, <2>2
<1>4. Types'
    <2>1. tx' \in [Handler -> TxRow]
        BY <1>0, <1>1, <1>2, FinishFacts
    <2>2. events' \in [Event -> Row \cup {None}]
        BY <1>1, <1>3
    <2>3. TypeOK'
        BY <1>0, <1>1, <2>2 DEF Types, TypeOK, Exists
    <2> QED BY <2>1, <2>2, <2>3 DEF Types
<1>5. BookedApart'
    <2> SUFFICES ASSUME NEW x \in Booked', NEW y \in Booked', Together(x, y)',
                        Clashes(events'[x], events'[y])
                 PROVE  {x, y} \in excused'
        BY DEF BookedApart
    <2>1. x # y /\ x \in Event /\ y \in Event /\ events'[x].appraiser = events'[y].appraiser
        BY DEF Together, Booked
    <2>2. CASE x \in t.rows
        <3>1. {x, y} \in Pairs(x)
            BY <2>1 DEF Pairs
        <3> QED BY <1>1, <2>2, <3>1
    <2>3. CASE y \in t.rows
        <3>1. {x, y} \in Pairs(y)
            BY <2>1 DEF Pairs
        <3> QED BY <1>1, <2>3, <3>1
    <2>4. CASE x \notin t.rows /\ y \notin t.rows
        <3>1. x \in Booked /\ y \in Booked /\ events'[x] = events[x] /\ events'[y] = events[y]
            BY <1>3, <2>1, <2>4 DEF Booked, Exists
        <3> QED BY <1>1, <2>1, <3>1 DEF IInv, BookedApart, Together
    <2> QED BY <2>2, <2>3, <2>4
<1>6. OneVisit'
    BY <1>1, <1>3, <1>4, VisitsKept
<1>7. \A k \in Handler : RequestOK(tx[k])'
    BY <1>1, <1>2, <1>3, <1>4, OthersOK
<1> QED BY <1>4, <1>5, <1>6, <1>7 DEF IInv

LEMMA RollbackOK ==
    ASSUME IInv, NEW h \in Handler, Rollback(h)
    PROVE  IInv'
<1>0. Types
    BY DEF IInv
<1>1. Finish(h, {}) /\ UNCHANGED <<events, status, active, excused, crossed, asked>>
    BY DEF Rollback
<1>2. Types'
    BY <1>0, <1>1, FinishFacts DEF Types, TypeOK, Exists
<1>3. Booked' = Booked
    BY <1>1 DEF Booked, Exists
<1>4. BookedApart'
    BY <1>1, <1>3 DEF IInv, BookedApart, Together
<1>5. OneVisit'
    BY <1>1, <1>3 DEF IInv, OneVisit
<1>6. \A e \in Event : (Exists(e) => Exists(e)') /\ events'[e] = events[e]
    BY <1>1 DEF Exists
<1>7. \A k \in Handler : RequestOK(tx[k])'
    BY <1>1, <1>2, <1>6, OthersOK
<1> QED BY <1>2, <1>4, <1>5, <1>7 DEF IInv

LEMMA StutterOK ==
    ASSUME IInv, UNCHANGED vars
    PROVE  IInv'
BY DEF IInv, vars, Types, TypeOK, Exists, Booked, BookedApart, Together, OneVisit, RequestOK, KnownOK,
       LockedOK, MoveOK, InWindow

-----------------------------------------------------------------------------
LEMMA NextOK ==
    ASSUME IInv, [Next]_vars
    PROVE  IInv'
<1>1. ASSUME NEW h \in Handler,
             BeginCreate(h) \/ BeginMove(h) \/ BeginReaddress(h) \/ BeginCancel(h) \/ BeginHandOver(h)
      PROVE  IInv'
    BY <1>1, BeginCreateOK, BeginMoveOK, BeginOthersOK
<1>2. ASSUME NEW h \in Handler, Check(h) \/ Rollback(h)
      PROVE  IInv'
    BY <1>2, CheckOK, RollbackOK
<1>3. ASSUME NEW h \in Handler,
             \/ CommitCreate(h) \/ CommitMove(h) \/ CommitReaddress(h)
             \/ CommitCancel(h) \/ CommitHandOver(h)
      PROVE  IInv'
    BY <1>3, CommitCreateOK, CommitMoveOK, CommitReaddressOK, CommitCancelOK, CommitHandOverOK
<1> QED BY <1>1, <1>2, <1>3, StutterOK DEF Next

\* The strengthening of the three properties below that every step keeps.
THEOREM Inductive == Spec => []IInv
<1> QED BY InitOK, NextOK, PTL DEF Spec

\* The rows of the calendar and the records hold values of their types.
THEOREM TypeCorrect == Spec => []TypeOK
<1>1. IInv => TypeOK
    BY DEF IInv, Types
<1> QED BY <1>1, Inductive, PTL

\* Two visits of one appraiser leave time to drive between them unless nothing compared
\* them: the window of the check is wide enough, and its locks and the order of commits
\* leave out no others.
THEOREM VisitsApart == Spec => []BookedApart
<1>1. IInv => BookedApart
    BY DEF IInv
<1> QED BY <1>1, Inductive, PTL

\* A record is scheduled exactly while it has a visit, and has one at most, unless two
\* requests crossed on it.
THEOREM StatusMatches == Spec => []VisitsMatchStatus
<1>1. ASSUME IInv PROVE VisitsMatchStatus
    <2> SUFFICES ASSUME NEW r \in Equipment \ crossed
                 PROVE  LET visits == {e \in Booked : events[e].record = r}
                        IN  /\ Cardinality(visits) <= 1
                            /\ visits # {} <=> status[r] = "appraisal_scheduled"
        BY DEF VisitsMatchStatus
    <2> DEFINE visits == {e \in Booked : events[e].record = r}
    <2>1. /\ \A e, f \in visits : e = f
          /\ visits # {} <=> status[r] = "appraisal_scheduled"
        BY <1>1 DEF IInv, OneVisit
    <2>2. visits = {} \/ \E e : visits = {e}
        BY <2>1
    <2> HIDE DEF visits
    <2>3. Cardinality(visits) <= 1
        <3>1. Cardinality(visits) \in {0, 1}
            BY <2>2, FS_EmptySet, FS_Singleton, Zenon
        <3> QED BY <3>1
    <2> QED BY <2>1, <2>3 DEF visits
<1> QED BY <1>1, Inductive, PTL

\* Two requests wait for each other only if each moves a visit that the other has
\* checked against.
THEOREM SwapsOnlyDeadlock == Spec => []OnlySwapsDeadlock
<1>1. ASSUME IInv PROVE OnlySwapsDeadlock
    <2> SUFFICES ASSUME NEW h \in Handler, NEW k \in Handler, h \in WaitsFor(k), k \in WaitsFor(h)
                 PROVE  /\ tx[h].op = "move" /\ tx[k].op = "move"
                        /\ events[tx[k].event].start - tx[h].row.start \in (-Day) .. Day
        BY DEF OnlySwapsDeadlock
    <2>1. Locks(h) \cap Wants(k) # {} /\ Locks(k) \cap Wants(h) # {}
        BY DEF WaitsFor
    <2>2. tx[h].op \in Booking /\ tx[h].checked /\ tx[k].op \in Booking /\ tx[k].checked
        BY <2>1 DEF Locks
    <2>3. /\ tx[h].op = "move" /\ tx[k].op = "move" /\ Wants(k) = {tx[k].event}
          /\ Locks(h) = tx[h].rows
        BY <2>1, <2>2, WantsFacts DEF Booking, Locks
    <2>4. tx[k].event \in tx[h].rows
        BY <2>1, <2>3
    <2>5. LockedOK(tx[h])
        BY <1>1, <2>2 DEF IInv, RequestOK
    <2> QED BY <2>2, <2>3, <2>4, <2>5 DEF LockedOK
<1> QED BY <1>1, Inductive, PTL
=============================================================================
