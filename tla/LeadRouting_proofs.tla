------------------------- MODULE LeadRouting_proofs -------------------------
(***************************************************************************)
(* Theorems of LeadRouting, for any number of requests, rules, records and *)
(* reps.                                                                   *)
(***************************************************************************)
EXTENDS LeadRouting, FiniteSetTheorems, TLAPS

\* The records that a rotation gave out.
Given(r) == {x \in Record : records[x] # None /\ records[x].rule = r /\ records[x].turn > 0}

\* Rows have the fields that requests read and write.
RowsOK ==
    /\ rules = [r \in Rule |-> rules[r]]
    /\ records = [x \in Record |-> records[x]]
    /\ tx = [h \in Handler |-> tx[h]]
    /\ \A r \in Rule : Exists(r) => "index" \in DOMAIN rules[r] /\ rules[r].index \in Nat
    /\ \A x \in Record : records[x] # None =>
           /\ {"rep", "rule", "turn", "how"} \subseteq DOMAIN records[x]
           /\ records[x].turn \in Nat
           /\ records[x].turn > 0 => records[x].rule \in Rule /\ Exists(records[x].rule)

\* The turns given out are 1 to the position, each once.
TurnsOK ==
    \A r \in Rule : Exists(r) =>
        /\ \A x \in Given(r) : records[x].turn <= rules[r].index
        /\ \A n \in 1 .. rules[r].index : \E x \in Given(r) : records[x].turn = n
        /\ \A x, y \in Given(r) : records[x].turn = records[y].turn => x = y

\* A request knows rules that there are, and a turn that it took is the next.
Holds(h) == Running(h, "intake") /\ tx[h].decision.turn > 0
RequestOK(h) ==
    /\ Running(h, "intake") =>
           /\ "decision" \in DOMAIN tx[h] /\ "op" \in DOMAIN tx[h]
           /\ tx[h].decision.turn \in Nat
           /\ MustClaim(h) \/ Holds(h) =>
                  tx[h].decision.rule \in Rule /\ Exists(tx[h].decision.rule)
           /\ Holds(h) => tx[h].decision.turn = rules[tx[h].decision.rule].index + 1
    /\ Running(h, "create") => "index" \in DOMAIN tx[h].row /\ tx[h].row.index = 0
    /\ tx[h].op \in Patches =>
           tx[h].rule \in Rule /\ Exists(tx[h].rule) /\ DOMAIN tx[h].patch \subseteq Patches
    /\ Running(h, "delete") => tx[h].rule \in Rule /\ Exists(tx[h].rule)
    /\ Running(h, "reorder") => \A r \in Locks(h) : r \in Rule /\ Exists(r)
RequestsOK == \A h \in Handler : RequestOK(h)

\* No two requests hold a turn of one rotation.
TurnsApart ==
    \A h, k \in Handler : h # k /\ Holds(h) /\ Holds(k) => tx[h].decision.rule # tx[k].decision.rule

\* Records handed over are with an active rep, or the deactivation that leaves them
\* with nobody has read them, or it crossed another.
HandedTo(u) == {x \in Record : /\ records[x] # None
                               /\ records[x].how = "handed_over" /\ records[x].rep = u}
HandsOK ==
    /\ HandedToActive
    /\ \A h \in Handler : Running(h, "deactivate") =>
           /\ tx[h].to = "none" => tx[h].open = {}
           /\ tx[h].to # "none" => tx[h].to \in active \cup crossed /\ tx[h].to # tx[h].user
           /\ \A x \in tx[h].open : x \in Record /\ records[x] # None
           /\ \A x \in HandedTo(tx[h].user) : x \in tx[h].open \/ tx[h].user \in crossed

IInv == RowsOK /\ TurnsOK /\ RequestsOK /\ TurnsApart /\ HandsOK

-----------------------------------------------------------------------------
(* What requests look like.                                                *)

\* A row with a field of a rule or of a record is a row.
LEMMA RowIsSome ==
    ASSUME NEW row
    PROVE  /\ "index" \in DOMAIN row => row # None
           /\ "turn" \in DOMAIN row => row # None
BY DEF None

LEMMA PatchFacts ==
    /\ "index" \notin Patches
    /\ \A op \in {"idle", "intake", "create", "delete", "reorder", "deactivate"} : op \notin Patches
BY DEF Patches

\* Nothing is known of an idle handler, and nothing needs to be.
LEMMA IdleOK ==
    ASSUME NEW h \in Handler, tx[h] = Idle
    PROVE  RequestOK(h) /\ ~Holds(h) /\ ~Running(h, "deactivate")
<1>1. tx[h].op = "idle"
    BY DEF Idle
<1> QED BY <1>1, PatchFacts DEF RequestOK, Holds, Running

LEMMA InitOK == Init => IInv
<1> SUFFICES ASSUME Init PROVE IInv
    OBVIOUS
<1>1. \A h \in Handler : tx[h] = Idle
    BY DEF Init
<1>2. RequestsOK /\ TurnsApart
    BY <1>1, IdleOK DEF RequestsOK, TurnsApart
<1>3. HandsOK
    BY <1>1, IdleOK DEF Init, HandsOK, HandedToActive
<1>4. \A r \in Rule : Exists(r) => "index" \in DOMAIN rules[r] /\ rules[r].index = 0
    <2> SUFFICES ASSUME NEW r \in Rule, Exists(r)
                 PROVE  "index" \in DOMAIN rules[r] /\ rules[r].index = 0
        OBVIOUS
    <2>1. r \in DOMAIN Seed[ops] /\ rules[r] = Seed[ops][r] /\ ops \in Scenario
        BY DEF Init, Exists
    <2>2. PICK t \in Type : rules[r] \in RulesOf(t) /\ rules[r].index = 0
        BY <2>1, SeedAssumption DEF RuleRow
    <2> QED BY <2>2 DEF RulesOf
<1>5. \A x \in Record : records[x] = None
    BY DEF Init
<1>6. RowsOK
    BY <1>4, <1>5 DEF Init, RowsOK
<1>7. TurnsOK
    BY <1>4, <1>5 DEF TurnsOK, Given
<1> QED BY <1>2, <1>3, <1>6, <1>7 DEF IInv

-----------------------------------------------------------------------------
(* Requests begin and end.                                                 *)

\* What happens to one handler's request and leaves rules and records alone.
LEMMA OtherRequests ==
    ASSUME IInv, NEW h \in Handler, NEW t, tx' = [tx EXCEPT ![h] = t]
    PROVE  /\ tx' = [k \in Handler |-> tx'[k]]
           /\ tx'[h] = t
           /\ \A k \in Handler \ {h} : tx'[k] = tx[k]
BY DEF IInv, RowsOK

\* Rules stay and keep their position, a new one starts at 0, and no record changes
\* hands: turns and the other requests are as they were.
LEMMA RulesKept ==
    ASSUME IInv, NEW h \in Handler, NEW t, tx' = [tx EXCEPT ![h] = t],
           rules' = [r \in Rule |-> rules'[r]],
           \A r \in Rule : Exists(r) => /\ "index" \in DOMAIN rules'[r]
                                        /\ rules'[r].index = rules[r].index,
           \A r \in Rule : ~Exists(r) => \/ rules'[r] = None
                                         \/ "index" \in DOMAIN rules'[r] /\ rules'[r].index = 0,
           UNCHANGED <<active, records, crossed>>,
           RequestOK(h)',
           Holds(h)' => \A k \in Handler \ {h} : Holds(k) => tx[k].decision.rule # t.decision.rule,
           Running(h, "deactivate")' => Running(h, "deactivate") /\ t = tx[h]
    PROVE  IInv'
<1>1. \A r \in Rule : Exists(r) => Exists(r)'
    BY RowIsSome DEF Exists
<1>2. \A r \in Rule : Exists(r)' => "index" \in DOMAIN rules'[r]
                                    /\ rules'[r].index = IF Exists(r) THEN rules[r].index ELSE 0
    BY DEF Exists
<1>3. RowsOK'
    BY <1>1, <1>2, OtherRequests DEF IInv, RowsOK
<1>4. TurnsOK'
    <2> SUFFICES ASSUME NEW r \in Rule, Exists(r)'
                 PROVE  /\ \A x \in Given(r)' : records'[x].turn <= rules'[r].index
                        /\ \A n \in 1 .. rules'[r].index : \E x \in Given(r)' : records'[x].turn = n
                        /\ \A x, y \in Given(r)' : records'[x].turn = records'[y].turn => x = y
        BY DEF TurnsOK
    <2>1. Given(r)' = Given(r)
        BY DEF Given
    <2>2. CASE Exists(r)
        BY <1>2, <2>1, <2>2 DEF IInv, TurnsOK
    <2>3. CASE ~Exists(r)
        <3>1. Given(r) = {}
            BY <2>3 DEF IInv, RowsOK, Given
        <3>2. rules'[r].index = 0
            BY <1>2, <2>3
        <3> QED BY <2>1, <3>1, <3>2
    <2> QED BY <2>2, <2>3
<1>5. \A k \in Handler \ {h} : tx'[k] = tx[k] /\ RequestOK(k)
    BY OtherRequests DEF IInv, RequestsOK
<1>6. \A k \in Handler \ {h} : RequestOK(k)'
    <2> SUFFICES ASSUME NEW k \in Handler \ {h} PROVE RequestOK(k)'
        OBVIOUS
    <2> QED BY <1>1, <1>2, <1>5 DEF RequestOK, Running, Holds, MustClaim, Locks
<1>7. TurnsApart'
    BY <1>5, OtherRequests DEF IInv, TurnsApart, Holds, Running
<1>8. HandsOK'
    BY <1>5, OtherRequests DEF IInv, HandsOK, HandedToActive, HandedTo, Running
<1> QED BY <1>3, <1>4, <1>5, <1>6, <1>7, <1>8 DEF IInv, RequestsOK

\* A request that begins, and is no deactivation.
LEMMA BeginOK ==
    ASSUME IInv, NEW h \in Handler, NEW t, Begin(h, t), t.op # "deactivate",
           RequestOK(h)', ~Holds(h)'
    PROVE  IInv'
<1>1. rules' = [r \in Rule |-> rules'[r]]
      /\ \A r \in Rule : Exists(r) => "index" \in DOMAIN rules'[r] /\ rules'[r].index = rules[r].index
    BY DEF Begin, IInv, RowsOK
<1>2. ~Running(h, "deactivate")'
    BY OtherRequests DEF Begin, Running
<1> QED BY <1>1, <1>2, RulesKept DEF Begin, Exists

\* A request that ends with nothing written.
LEMMA RollbackOK ==
    ASSUME IInv, NEW h \in Handler, Rollback(h)
    PROVE  IInv'
<1>1. tx'[h] = Idle
    BY OtherRequests DEF Rollback, Done
<1>2. RequestOK(h)' /\ ~Holds(h)' /\ ~Running(h, "deactivate")'
    BY <1>1, PatchFacts DEF RequestOK, Holds, Running, Idle
<1> QED BY <1>2, RulesKept DEF Rollback, Done, Exists, IInv, RowsOK

\* An intake that begins.
IntakeOf(c, d, reps) == [op |-> "intake", customer |-> c, insert |-> c \notin profiles,
                         decision |-> d, reps |-> reps]

LEMMA IntakeBegins ==
    ASSUME IInv, NEW h \in Handler, BeginIntake(h)
    PROVE  \E c, d, reps : /\ Begin(h, IntakeOf(c, d, reps))
                           /\ d.turn = 0
                           /\ reps # <<>> => d.rule \in Rule /\ Exists(d.rule)
<1>1. ByDefault.turn = 0 /\ Undecided.turn = 0
    BY DEF ByDefault, Undecided
<1>2. \A r : [Undecided EXCEPT !.rule = r].turn = 0 /\ [Undecided EXCEPT !.rule = r].rule = r
    BY DEF Undecided
<1>3. \A c \in Customer : \A r \in Firing(c) : r \in Rule /\ Exists(r)
    BY DEF Firing, Foremost, Candidates, Bucket, Undeleted
<1>4. \A r, rep : [rep |-> rep, rule |-> r, turn |-> 0].turn = 0
    OBVIOUS
<1>5. PICK c \in Customer :
          \/ Begin(h, IntakeOf(c, Undecided, <<>>))
          \/ \E r \in Firing(c) :
                 \/ Begin(h, IntakeOf(c, [Undecided EXCEPT !.rule = r], rules[r].conditions.rep_ids))
                 \/ Begin(h, IntakeOf(c, [rep |-> rules[r].rep, rule |-> r, turn |-> 0], <<>>))
          \/ Begin(h, IntakeOf(c, ByDefault, <<>>))
    BY DEF BeginIntake, IntakeOf
<1>6. \E d, reps : /\ Begin(h, IntakeOf(c, d, reps)) /\ d.turn = 0
                   /\ reps # <<>> => d.rule \in Rule /\ Exists(d.rule)
    <2>1. CASE Begin(h, IntakeOf(c, Undecided, <<>>))
        BY <1>1, <2>1
    <2>2. CASE Begin(h, IntakeOf(c, ByDefault, <<>>))
        BY <1>1, <2>2
    <2>3. ASSUME NEW r \in Firing(c),
                 Begin(h, IntakeOf(c, [Undecided EXCEPT !.rule = r], rules[r].conditions.rep_ids))
          PROVE  \E d, reps : /\ Begin(h, IntakeOf(c, d, reps)) /\ d.turn = 0
                              /\ reps # <<>> => d.rule \in Rule /\ Exists(d.rule)
        <3>1. PICK d : d = [Undecided EXCEPT !.rule = r]
            OBVIOUS
        <3>2. d.turn = 0 /\ d.rule = r
            BY <1>2, <3>1
        <3>3. Begin(h, IntakeOf(c, d, rules[r].conditions.rep_ids))
            BY <2>3, <3>1
        <3>4. r \in Rule /\ Exists(r)
            BY <1>3
        <3> QED BY <3>2, <3>3, <3>4
    <2>4. ASSUME NEW r \in Firing(c),
                 Begin(h, IntakeOf(c, [rep |-> rules[r].rep, rule |-> r, turn |-> 0], <<>>))
          PROVE  \E d, reps : /\ Begin(h, IntakeOf(c, d, reps)) /\ d.turn = 0
                              /\ reps # <<>> => d.rule \in Rule /\ Exists(d.rule)
        BY <1>4, <2>4
    <2> QED BY <1>5, <2>1, <2>2, <2>3, <2>4
<1> QED BY <1>6

LEMMA BeginIntakeOK ==
    ASSUME IInv, NEW h \in Handler, BeginIntake(h)
    PROVE  IInv'
<1>1. PICK c, d, reps : /\ Begin(h, IntakeOf(c, d, reps))
                        /\ d.turn = 0
                        /\ reps # <<>> => d.rule \in Rule /\ Exists(d.rule)
    BY IntakeBegins
<1> DEFINE t == IntakeOf(c, d, reps)
<1>2. /\ t.op = "intake" /\ t.decision = d /\ t.reps = reps
      /\ "decision" \in DOMAIN t /\ "op" \in DOMAIN t
    BY DEF IntakeOf
<1> HIDE DEF t
<1>3. tx'[h] = t /\ UNCHANGED rules
    BY <1>1, OtherRequests DEF Begin, t
<1>4. RequestOK(h)' /\ ~Holds(h)'
    BY <1>1, <1>2, <1>3, PatchFacts DEF RequestOK, Holds, MustClaim, Running, Exists
<1> QED BY <1>1, <1>2, <1>4, BeginOK DEF t

LEMMA BeginCreateOK ==
    ASSUME IInv, NEW h \in Handler, BeginCreate(h)
    PROVE  IInv'
<1>1. PICK t : Begin(h, t) /\ t.op = "create" /\ "index" \in DOMAIN t.row /\ t.row.index = 0
    BY DEF BeginCreate
<1>2. tx'[h] = t
    BY <1>1, OtherRequests DEF Begin
<1>3. RequestOK(h)' /\ ~Holds(h)'
    BY <1>1, <1>2, PatchFacts DEF RequestOK, Holds, Running
<1> QED BY <1>1, <1>3, BeginOK

LEMMA BeginUpdateOK ==
    ASSUME IInv, NEW h \in Handler, BeginUpdate(h)
    PROVE  IInv'
<1>1. PICK r \in Rule, field \in Patches :
           /\ Exists(r)
           /\ \E v : Begin(h, [op |-> field, rule |-> r, patch |-> [f \in {field} |-> v]])
    BY DEF BeginUpdate, Undeleted, Patches
<1> PICK value : Begin(h, [op |-> field, rule |-> r, patch |-> [f \in {field} |-> value]])
    BY <1>1
<1> DEFINE t == [op |-> field, rule |-> r, patch |-> [f \in {field} |-> value]]
<1>2. t.op = field /\ t.rule = r /\ DOMAIN t.patch = {field}
    OBVIOUS
<1> HIDE DEF t
<1>3. tx'[h] = t /\ UNCHANGED rules
    BY <1>1, OtherRequests DEF Begin, t
<1>4. field \notin {"intake", "create", "delete", "reorder", "deactivate"}
    BY PatchFacts
<1>5. RequestOK(h)' /\ ~Holds(h)'
    BY <1>1, <1>2, <1>3, <1>4 DEF RequestOK, Holds, Running, Exists
<1> QED BY <1>1, <1>2, <1>4, <1>5, BeginOK DEF t

LEMMA BeginDeleteOK ==
    ASSUME IInv, NEW h \in Handler, BeginDelete(h)
    PROVE  IInv'
<1>1. PICK r \in Rule : Exists(r) /\ Begin(h, [op |-> "delete", rule |-> r])
    BY DEF BeginDelete, Undeleted
<1>2. tx'[h] = [op |-> "delete", rule |-> r] /\ UNCHANGED rules
    BY <1>1, OtherRequests DEF Begin
<1>3. RequestOK(h)' /\ ~Holds(h)'
    BY <1>1, <1>2, PatchFacts DEF RequestOK, Holds, Running, Exists
<1> QED BY <1>1, <1>3, BeginOK

LEMMA BeginReorderOK ==
    ASSUME IInv, NEW h \in Handler, BeginReorder(h)
    PROVE  IInv'
<1>1. PICK k \in Type : \E order \in Orders(Bucket(k)) :
           Begin(h, [op |-> "reorder", type |-> k, order |-> order])
    BY DEF BeginReorder
<1>2. PICK order \in Orders(Bucket(k)) : Begin(h, [op |-> "reorder", type |-> k, order |-> order])
    BY <1>1
<1> DEFINE t == [op |-> "reorder", type |-> k, order |-> order]
<1>3. t.op = "reorder" /\ t.order = order
    OBVIOUS
<1>4. \A i \in DOMAIN order : order[i] \in Rule /\ Exists(order[i])
    BY DEF Orders, Bucket, Undeleted
<1> HIDE DEF t
<1>5. tx'[h] = t /\ UNCHANGED rules
    BY <1>2, OtherRequests DEF Begin, t
<1>6. \A r \in Locks(h)' : r \in Rule /\ Exists(r)'
    BY <1>3, <1>4, <1>5 DEF Locks, Running, Exists
<1>7. RequestOK(h)' /\ ~Holds(h)'
    BY <1>3, <1>5, <1>6, PatchFacts DEF RequestOK, Holds, Running
<1> QED BY <1>2, <1>3, <1>7, BeginOK DEF t

-----------------------------------------------------------------------------
(* Rules are written.                                                      *)

\* Steps of Edit that end a request and keep every position.
LEMMA WriteOK ==
    ASSUME IInv, NEW h \in Handler, Done(h),
           rules' = [r \in Rule |-> rules'[r]],
           \A r \in Rule : Exists(r) => /\ "index" \in DOMAIN rules'[r]
                                        /\ rules'[r].index = rules[r].index,
           \A r \in Rule : ~Exists(r) => \/ rules'[r] = None
                                         \/ "index" \in DOMAIN rules'[r] /\ rules'[r].index = 0,
           UNCHANGED <<active, records, crossed>>
    PROVE  IInv'
<1>1. tx'[h] = Idle
    BY OtherRequests DEF Done
<1>2. RequestOK(h)' /\ ~Holds(h)' /\ ~Running(h, "deactivate")'
    BY <1>1, PatchFacts DEF RequestOK, Holds, Running, Idle
<1> QED BY <1>2, RulesKept DEF Done

LEMMA CommitCreateOK ==
    ASSUME IInv, NEW h \in Handler, CommitCreate(h)
    PROVE  IInv'
<1>1. PICK r \in Rule : ~Exists(r) /\ rules' = [rules EXCEPT ![r] = tx[h].row]
    BY DEF CommitCreate
<1>2. "index" \in DOMAIN tx[h].row /\ tx[h].row.index = 0
    BY DEF CommitCreate, IInv, RequestsOK, RequestOK
<1>3. rules'[r] = tx[h].row /\ \A q \in Rule \ {r} : rules'[q] = rules[q]
    BY <1>1 DEF IInv, RowsOK
<1>4. rules' = [q \in Rule |-> rules'[q]]
    BY <1>1 DEF IInv, RowsOK
<1>5. \A q \in Rule : Exists(q) => "index" \in DOMAIN rules'[q] /\ rules'[q].index = rules[q].index
    BY <1>1, <1>3 DEF IInv, RowsOK
<1>6. \A q \in Rule : ~Exists(q) => \/ rules'[q] = None
                                    \/ "index" \in DOMAIN rules'[q] /\ rules'[q].index = 0
    BY <1>2, <1>3 DEF Exists
<1> QED BY <1>4, <1>5, <1>6, WriteOK DEF CommitCreate

LEMMA CommitUpdateOK ==
    ASSUME IInv, NEW h \in Handler, CommitUpdate(h)
    PROVE  IInv'
<1> DEFINE r == tx[h].rule
           patch == tx[h].patch
           row == [f \in DOMAIN rules[r] |-> IF f \in DOMAIN patch THEN patch[f] ELSE rules[r][f]]
<1>1. r \in Rule /\ Exists(r) /\ DOMAIN patch \subseteq Patches
    BY DEF CommitUpdate, IInv, RequestsOK, RequestOK
<1>2. rules' = [rules EXCEPT ![r] = row]
    BY DEF CommitUpdate
<1>3. "index" \in DOMAIN rules[r] /\ "index" \notin DOMAIN patch
    BY <1>1, PatchFacts DEF IInv, RowsOK
<1>4. "index" \in DOMAIN row /\ row.index = rules[r].index
    BY <1>3
<1> HIDE DEF row, patch
<1>5. rules'[r] = row /\ \A q \in Rule \ {r} : rules'[q] = rules[q]
    BY <1>1, <1>2 DEF IInv, RowsOK
<1>6. rules' = [q \in Rule |-> rules'[q]]
    BY <1>2 DEF IInv, RowsOK
<1>7. \A q \in Rule : Exists(q) => "index" \in DOMAIN rules'[q] /\ rules'[q].index = rules[q].index
    BY <1>4, <1>5 DEF IInv, RowsOK
<1>8. \A q \in Rule : ~Exists(q) => rules'[q] = None
    BY <1>1, <1>5 DEF Exists
<1> QED BY <1>6, <1>7, <1>8, WriteOK DEF CommitUpdate

LEMMA CommitDeleteOK ==
    ASSUME IInv, NEW h \in Handler, CommitDelete(h)
    PROVE  IInv'
<1> DEFINE r == tx[h].rule
           row == [rules[r] EXCEPT !.deleted = TRUE, !.active = FALSE]
<1>1. r \in Rule /\ Exists(r)
    BY DEF CommitDelete, IInv, RequestsOK, RequestOK
<1>2. rules' = [rules EXCEPT ![r] = row]
    BY DEF CommitDelete
<1>3. "index" \in DOMAIN rules[r]
    BY <1>1 DEF IInv, RowsOK
<1>4. "index" \in DOMAIN row /\ row.index = rules[r].index
    BY <1>3
<1> HIDE DEF row
<1>5. rules'[r] = row /\ \A q \in Rule \ {r} : rules'[q] = rules[q]
    BY <1>1, <1>2 DEF IInv, RowsOK
<1>6. rules' = [q \in Rule |-> rules'[q]]
    BY <1>2 DEF IInv, RowsOK
<1>7. \A q \in Rule : Exists(q) => "index" \in DOMAIN rules'[q] /\ rules'[q].index = rules[q].index
    BY <1>4, <1>5 DEF IInv, RowsOK
<1>8. \A q \in Rule : ~Exists(q) => rules'[q] = None
    BY <1>1, <1>5 DEF Exists
<1> QED BY <1>6, <1>7, <1>8, WriteOK DEF CommitDelete

LEMMA CommitReorderOK ==
    ASSUME IInv, NEW h \in Handler, CommitReorder(h)
    PROVE  IInv'
<1>1. \A r \in Locks(h) : Exists(r)
    BY DEF CommitReorder, IInv, RequestsOK, RequestOK
<1>2. PICK new : rules' = [r \in Rule |-> IF r \in Locks(h) THEN [rules[r] EXCEPT !.priority = new[r]]
                                                            ELSE rules[r]]
    <2> DEFINE writes == InTwoPhases(tx[h].order)
               new == [r \in Rule |-> After(writes, Len(writes), r)]
    <2>1. \A r \in Rule : new[r] = After(writes, Len(writes), r)
        OBVIOUS
    <2>2. rules' = [r \in Rule |-> IF r \in Locks(h)
                                   THEN [rules[r] EXCEPT !.priority = After(writes, Len(writes), r)]
                                   ELSE rules[r]]
        BY DEF CommitReorder
    <2> HIDE DEF new, writes
    <2> QED BY <2>1, <2>2
<1>3. \A r \in Rule : Exists(r) => "index" \in DOMAIN rules'[r] /\ rules'[r].index = rules[r].index
    BY <1>2 DEF IInv, RowsOK
<1>4. \A r \in Rule : ~Exists(r) => rules'[r] = None
    BY <1>1, <1>2 DEF Exists
<1>5. rules' = [r \in Rule |-> rules'[r]]
    BY <1>2
<1> QED BY <1>3, <1>4, <1>5, WriteOK DEF CommitReorder

-----------------------------------------------------------------------------
(* Turns.                                                                  *)

\* The row lock of the UPDATE keeps the next turn from everybody else.
LEMMA ClaimOK ==
    ASSUME IInv, NEW h \in Handler, Claim(h)
    PROVE  IInv'
<1> DEFINE r == tx[h].decision.rule
           turn == rules[r].index + 1
           d == [rep |-> RepAt(tx[h].reps, turn), rule |-> r, turn |-> turn]
           t == [tx[h] EXCEPT !.decision = d]
<1>1. /\ Running(h, "intake") /\ MustClaim(h) /\ Free(h, {r})
      /\ tx' = [tx EXCEPT ![h] = t]
      /\ UNCHANGED <<rules, active, records, crossed>>
    <2>1. tx' = [tx EXCEPT ![h].decision = d]
        BY DEF Claim
    <2> QED BY <2>1 DEF Claim
<1>2. r \in Rule /\ Exists(r) /\ "decision" \in DOMAIN tx[h] /\ "op" \in DOMAIN tx[h]
    BY <1>1 DEF IInv, RequestsOK, RequestOK
<1>3. rules[r].index \in Nat
    BY <1>2 DEF IInv, RowsOK
<1>4. d.rule = r /\ d.turn = turn /\ turn \in Nat /\ turn > 0
    BY <1>3
<1> HIDE DEF d
<1>5. t.op = "intake" /\ t.decision = d /\ "decision" \in DOMAIN t /\ "op" \in DOMAIN t
    BY <1>1, <1>2 DEF Running
<1> HIDE DEF t
<1>6. tx'[h] = t
    BY <1>1, OtherRequests
<1>7. RequestOK(h)'
    <2>1. Holds(h)' /\ ~MustClaim(h)' /\ Running(h, "intake")'
        BY <1>4, <1>5, <1>6 DEF Holds, MustClaim, Running
    <2>2. tx'[h].decision = d /\ rules[r] # None /\ rules' = rules
        BY <1>1, <1>2, <1>5, <1>6 DEF Exists
    <2> QED BY <1>2, <1>4, <1>5, <1>6, <2>1, <2>2, PatchFacts DEF RequestOK, Running, Exists
<1>8. \A k \in Handler \ {h} : Holds(k) => tx[k].decision.rule # t.decision.rule
    <2> SUFFICES ASSUME NEW k \in Handler \ {h}, Holds(k)
                 PROVE  tx[k].decision.rule # r
        BY <1>4, <1>5
    <2>1. Locks(k) = {tx[k].decision.rule}
        BY DEF Holds, Locks, Running
    <2> QED BY <1>1, <2>1 DEF Free
<1>9. ~Running(h, "deactivate")'
    BY <1>5, <1>6 DEF Running
<1>10. /\ rules' = [q \in Rule |-> rules'[q]]
       /\ \A q \in Rule : Exists(q) => "index" \in DOMAIN rules'[q] /\ rules'[q].index = rules[q].index
       /\ \A q \in Rule : ~Exists(q) => rules'[q] = None
    BY <1>1 DEF IInv, RowsOK, Exists
<1> QED BY <1>1, <1>7, <1>8, <1>9, <1>10, RulesKept

\* The next turn becomes the position as its record appears.
LEMMA CommitIntakeOK ==
    ASSUME IInv, NEW h \in Handler, CommitIntake(h)
    PROVE  IInv'
<1> DEFINE d == tx[h].decision
<1>1. PICK x \in Unused :
           records' = [records EXCEPT ![x] = [customer |-> tx[h].customer, rep |-> d.rep,
                           rule |-> d.rule, turn |-> d.turn, how |-> "routed"]]
    BY DEF CommitIntake
<1> DEFINE row == [customer |-> tx[h].customer, rep |-> d.rep,
                   rule |-> d.rule, turn |-> d.turn, how |-> "routed"]
<1>2. /\ row.rep = d.rep /\ row.rule = d.rule /\ row.turn = d.turn /\ row.how = "routed"
      /\ {"rep", "rule", "turn", "how"} \subseteq DOMAIN row
      /\ row # None
    BY RowIsSome
<1>3. x \in Record /\ records[x] = None /\ records' = [records EXCEPT ![x] = row]
    BY <1>1 DEF Unused
<1> HIDE DEF row
<1>4. /\ records'[x] = row /\ \A y \in Record \ {x} : records'[y] = records[y]
      /\ records' = [y \in Record |-> records'[y]]
    BY <1>3 DEF IInv, RowsOK
<1>5. /\ Running(h, "intake") /\ d.turn \in Nat
      /\ d.turn > 0 => d.rule \in Rule /\ Exists(d.rule) /\ d.turn = rules[d.rule].index + 1
    BY DEF CommitIntake, IInv, RequestsOK, RequestOK, Holds
<1>6. tx'[h] = Idle /\ \A k \in Handler \ {h} : tx'[k] = tx[k]
    BY OtherRequests DEF CommitIntake, Done
<1>7. rules' = IF d.turn > 0 THEN [rules EXCEPT ![d.rule].index = d.turn] ELSE rules
    BY DEF CommitIntake
<1>8. /\ rules' = [r \in Rule |-> rules'[r]]
      /\ \A r \in Rule : rules'[r] # None <=> Exists(r)
      /\ \A r \in Rule : Exists(r) =>
             /\ "index" \in DOMAIN rules'[r]
             /\ rules'[r].index = IF d.turn > 0 /\ r = d.rule THEN d.turn ELSE rules[r].index
    <2>1. CASE d.turn > 0
        <3> DEFINE q == d.rule
                   new == [rules[q] EXCEPT !.index = d.turn]
        <3>1. rules' = [rules EXCEPT ![q] = new] /\ q \in Rule /\ Exists(q)
            BY <1>5, <1>7, <2>1
        <3>2. "index" \in DOMAIN rules[q]
            BY <3>1 DEF IInv, RowsOK
        <3>3. "index" \in DOMAIN new /\ new.index = d.turn /\ new # None
            BY <3>2, RowIsSome
        <3> HIDE DEF new
        <3>4. rules'[q] = new /\ \A r \in Rule \ {q} : rules'[r] = rules[r]
            BY <3>1 DEF IInv, RowsOK
        <3>5. rules' = [r \in Rule |-> rules'[r]]
            BY <3>1 DEF IInv, RowsOK
        <3> QED BY <2>1, <3>1, <3>3, <3>4, <3>5 DEF IInv, RowsOK, Exists
    <2>2. CASE ~(d.turn > 0)
        BY <1>7, <2>2 DEF IInv, RowsOK, Exists
    <2> QED BY <2>1, <2>2
<1>9. RowsOK'
    <2>1. tx' = [k \in Handler |-> tx'[k]]
        BY OtherRequests DEF CommitIntake, Done
    <2>2. \A r \in Rule : Exists(r)' => "index" \in DOMAIN rules'[r] /\ rules'[r].index \in Nat
        BY <1>5, <1>8 DEF IInv, RowsOK, Exists
    <2>3. \A y \in Record : records'[y] # None =>
              /\ {"rep", "rule", "turn", "how"} \subseteq DOMAIN records'[y]
              /\ records'[y].turn \in Nat
              /\ records'[y].turn > 0 => records'[y].rule \in Rule /\ rules'[records'[y].rule] # None
        <3> SUFFICES ASSUME NEW y \in Record, records'[y] # None
                     PROVE  /\ {"rep", "rule", "turn", "how"} \subseteq DOMAIN records'[y]
                            /\ records'[y].turn \in Nat
                            /\ records'[y].turn > 0 => records'[y].rule \in Rule /\ rules'[records'[y].rule] # None
            OBVIOUS
        <3>1. CASE y = x
            BY <1>2, <1>4, <1>5, <1>8, <3>1
        <3>2. CASE y # x
            BY <1>4, <1>8, <3>2 DEF IInv, RowsOK
        <3> QED BY <3>1, <3>2
    <2> QED BY <1>4, <1>8, <2>1, <2>2, <2>3 DEF RowsOK, Exists
<1>10. \A r \in Rule : Given(r)' = IF d.turn > 0 /\ r = d.rule THEN Given(r) \cup {x} ELSE Given(r)
    <2> SUFFICES ASSUME NEW r \in Rule, NEW y \in Record
                 PROVE  y \in Given(r)' <=> (y \in Given(r) \/ (y = x /\ d.turn > 0 /\ r = d.rule))
        BY <1>3 DEF Given
    <2>1. CASE y = x
        BY <1>2, <1>3, <1>4, <2>1 DEF Given
    <2>2. CASE y # x
        BY <1>4, <2>2 DEF Given
    <2> QED BY <2>1, <2>2
<1>11. \A r \in Rule : \A y \in Given(r) : y # x /\ records'[y] = records[y] /\ records[y].turn \in Nat
    BY <1>3, <1>4 DEF Given, IInv, RowsOK
<1>12. TurnsOK'
    <2> SUFFICES ASSUME NEW r \in Rule, Exists(r)'
                 PROVE  /\ \A y \in Given(r)' : records'[y].turn <= rules'[r].index
                        /\ \A n \in 1 .. rules'[r].index : \E y \in Given(r)' : records'[y].turn = n
                        /\ \A y, z \in Given(r)' : records'[y].turn = records'[z].turn => y = z
        BY DEF TurnsOK
    <2>1. /\ Exists(r) /\ rules[r].index \in Nat
          /\ \A y \in Given(r) : records[y].turn <= rules[r].index
          /\ \A n \in 1 .. rules[r].index : \E y \in Given(r) : records[y].turn = n
          /\ \A y, z \in Given(r) : records[y].turn = records[z].turn => y = z
        BY <1>8 DEF IInv, TurnsOK, RowsOK, Exists
    <2>2. CASE d.turn > 0 /\ r = d.rule
        <3>1. /\ Given(r)' = Given(r) \cup {x} /\ records'[x].turn = rules[r].index + 1
              /\ rules'[r].index = rules[r].index + 1
            BY <1>2, <1>4, <1>5, <1>8, <1>10, <2>1, <2>2
        <3>2. \A y \in Given(r) : records'[y].turn <= rules[r].index /\ records'[y].turn \in Nat
            BY <1>11, <2>1
        <3>3. \A n \in 1 .. rules'[r].index : \E y \in Given(r)' : records'[y].turn = n
            <4> SUFFICES ASSUME NEW n \in 1 .. rules'[r].index
                         PROVE  \E y \in Given(r)' : records'[y].turn = n
                OBVIOUS
            <4>1. CASE n = rules'[r].index
                BY <3>1, <4>1
            <4>2. CASE n # rules'[r].index
                <5>1. n \in 1 .. rules[r].index
                    BY <2>1, <3>1, <4>2
                <5> QED BY <1>11, <2>1, <3>1, <5>1
            <4> QED BY <4>1, <4>2
        <3>4. \A y, z \in Given(r)' : records'[y].turn = records'[z].turn => y = z
            <4> SUFFICES ASSUME NEW y \in Given(r)', NEW z \in Given(r)',
                                records'[y].turn = records'[z].turn
                         PROVE  y = z
                OBVIOUS
            <4>1. CASE y = x \/ z = x
                BY <2>1, <3>1, <3>2, <4>1
            <4>2. CASE y # x /\ z # x
                BY <1>11, <2>1, <3>1, <4>2
            <4> QED BY <4>1, <4>2
        <3>5. \A y \in Given(r)' : records'[y].turn <= rules'[r].index
            BY <2>1, <3>1, <3>2
        <3> QED BY <3>3, <3>4, <3>5
    <2>3. CASE ~(d.turn > 0 /\ r = d.rule)
        <3>1. Given(r)' = Given(r) /\ rules'[r].index = rules[r].index
            BY <1>8, <1>10, <2>1, <2>3
        <3> QED BY <1>11, <2>1, <3>1
    <2> QED BY <2>2, <2>3
<1>13. RequestsOK'
    <2>1. RequestOK(h)'
        BY <1>6, PatchFacts DEF RequestOK, Holds, Running, Idle
    <2>2. ASSUME NEW k \in Handler \ {h}
          PROVE  RequestOK(k)'
        <3>1. tx'[k] = tx[k] /\ RequestOK(k)
            BY <1>6 DEF IInv, RequestsOK
        <3>2. Holds(k) => rules'[tx[k].decision.rule].index = rules[tx[k].decision.rule].index
            <4> SUFFICES ASSUME Holds(k)
                         PROVE  rules'[tx[k].decision.rule].index = rules[tx[k].decision.rule].index
                OBVIOUS
            <4>1. tx[k].decision.rule \in Rule /\ Exists(tx[k].decision.rule)
                BY <3>1 DEF RequestOK, Holds
            <4>2. d.turn > 0 => tx[k].decision.rule # d.rule
                BY <1>5 DEF IInv, TurnsApart, Holds
            <4> QED BY <1>8, <4>1, <4>2
        <3> QED BY <1>8, <3>1, <3>2 DEF RequestOK, Running, Holds, MustClaim, Locks, Exists
    <2> QED BY <2>1, <2>2 DEF RequestsOK
<1>14. TurnsApart'
    <2>1. ~Holds(h)'
        BY <1>6 DEF Holds, Running, Idle
    <2> QED BY <1>6, <2>1 DEF IInv, TurnsApart, Holds, Running
<1>15. HandsOK'
    <2>1. UNCHANGED <<active, crossed>>
        BY DEF CommitIntake
    <2>2. HandedToActive'
        BY <1>2, <1>4, <2>1 DEF IInv, HandsOK, HandedToActive
    <2>3. \A u : HandedTo(u)' = HandedTo(u)
        BY <1>2, <1>3, <1>4 DEF HandedTo
    <2>4. ~Running(h, "deactivate")'
        BY <1>6 DEF Running, Idle
    <2> QED BY <1>3, <1>4, <1>6, <2>1, <2>2, <2>3, <2>4 DEF IInv, HandsOK, Running
<1> QED BY <1>9, <1>12, <1>13, <1>14, <1>15 DEF IInv

-----------------------------------------------------------------------------
(* People.                                                                 *)

\* A row that gets another rep keeps the rule and the turn that routed it.
Reassigned(row, rep, how) == [row EXCEPT !.rep = rep, !.how = how]

LEMMA AssignedRow ==
    ASSUME NEW row, NEW rep, NEW how, {"rep", "rule", "turn", "how"} \subseteq DOMAIN row
    PROVE  /\ Reassigned(row, rep, how).rep = rep
           /\ Reassigned(row, rep, how).how = how
           /\ Reassigned(row, rep, how).rule = row.rule
           /\ Reassigned(row, rep, how).turn = row.turn
           /\ DOMAIN Reassigned(row, rep, how) = DOMAIN row
           /\ Reassigned(row, rep, how) # None
BY RowIsSome DEF Reassigned

\* Records change hands, and nothing that has to do with turns.
LEMMA RepsChanged ==
    ASSUME IInv, UNCHANGED rules,
           tx' = [h \in Handler |-> tx'[h]],
           \A h \in Handler : tx'[h] \in {tx[h], Idle},
           records' = [x \in Record |-> records'[x]],
           \A x \in Record : \/ records'[x] = records[x]
                             \/ \E rep, how : records'[x] = Reassigned(records[x], rep, how),
           \A x \in Record : records[x] = None => records'[x] = None
    PROVE  /\ RowsOK' /\ TurnsOK' /\ RequestsOK' /\ TurnsApart'
           /\ \A x \in Record : records'[x] # None <=> records[x] # None
<1>1. \A x \in Record : records[x] # None =>
          /\ records'[x] # None /\ DOMAIN records'[x] = DOMAIN records[x]
          /\ records'[x].rule = records[x].rule /\ records'[x].turn = records[x].turn
    BY AssignedRow DEF IInv, RowsOK
<1>2. RowsOK'
    BY <1>1 DEF IInv, RowsOK, Exists
<1>3. \A r : Given(r)' = Given(r)
    BY <1>1 DEF Given
<1>4. \A r : \A x \in Given(r) : records'[x].turn = records[x].turn
    BY <1>1 DEF Given
<1>5. TurnsOK'
    BY <1>3, <1>4 DEF IInv, TurnsOK, Exists
<1>6. RequestsOK'
    <2> SUFFICES ASSUME NEW h \in Handler PROVE RequestOK(h)'
        BY DEF RequestsOK
    <2>1. CASE tx'[h] = Idle
        BY <2>1, PatchFacts DEF RequestOK, Holds, Running, Idle
    <2>2. CASE tx'[h] = tx[h]
        BY <2>2 DEF IInv, RequestsOK, RequestOK, Running, Holds, MustClaim, Locks, Exists
    <2> QED BY <2>1, <2>2
<1>7. \A h \in Handler : Holds(h)' => Holds(h) /\ tx'[h] = tx[h]
    BY DEF Holds, Running, Idle
<1>8. TurnsApart'
    BY <1>7 DEF IInv, TurnsApart
<1> QED BY <1>1, <1>2, <1>5, <1>6, <1>8

LEMMA SetDefaultOK ==
    ASSUME IInv, SetDefault
    PROVE  IInv'
<1>1. UNCHANGED <<rules, records, tx, active, crossed>>
    BY DEF SetDefault
<1>2. RowsOK' /\ TurnsOK' /\ RequestsOK' /\ TurnsApart'
    BY <1>1, RepsChanged DEF IInv, RowsOK
<1>3. HandsOK'
    BY <1>1 DEF IInv, HandsOK, HandedToActive, HandedTo, Running
<1> QED BY <1>2, <1>3 DEF IInv

LEMMA AssignOK ==
    ASSUME IInv, NEW x \in Record, Assign(x)
    PROVE  IInv'
<1>1. PICK rep : records' = [records EXCEPT ![x] = Reassigned(records[x], rep, "assigned")]
    BY DEF Assign, Reassigned
<1>2. /\ records'[x] = Reassigned(records[x], rep, "assigned")
      /\ \A y \in Record \ {x} : records'[y] = records[y]
      /\ records' = [y \in Record |-> records'[y]]
      /\ records[x] # None /\ UNCHANGED <<rules, tx, active, crossed>>
    BY <1>1 DEF IInv, RowsOK, Assign
<1>3. tx' = [h \in Handler |-> tx'[h]]
    BY <1>2 DEF IInv, RowsOK
<1>4. /\ RowsOK' /\ TurnsOK' /\ RequestsOK' /\ TurnsApart'
      /\ \A y \in Record : records'[y] # None <=> records[y] # None
    BY <1>2, <1>3, RepsChanged
<1>5. records'[x].how = "assigned"
    BY <1>2, AssignedRow DEF IInv, RowsOK
<1>6. HandedToActive' /\ \A u : HandedTo(u)' \subseteq HandedTo(u)
    BY <1>2, <1>4, <1>5 DEF IInv, HandsOK, HandedToActive, HandedTo
<1>7. HandsOK'
    BY <1>2, <1>4, <1>6 DEF IInv, HandsOK, Running
<1> QED BY <1>4, <1>7 DEF IInv

LEMMA BeginDeactivateOK ==
    ASSUME IInv, NEW h \in Handler, BeginDeactivate(h)
    PROVE  IInv'
<1>1. PICK u \in active, v \in SomeRep :
           /\ v = "none" => Holding(u) = {}
           /\ v # "none" => MayTakeOver(u, v)
           /\ Begin(h, [op |-> "deactivate", user |-> u, to |-> v, open |-> Holding(u)])
    BY DEF BeginDeactivate
<1> DEFINE t == [op |-> "deactivate", user |-> u, to |-> v, open |-> Holding(u)]
<1>2. t.op = "deactivate" /\ t.user = u /\ t.to = v /\ t.open = Holding(u)
    OBVIOUS
<1> HIDE DEF t
<1>3. /\ tx'[h] = t /\ \A k \in Handler \ {h} : tx'[k] = tx[k]
      /\ tx' = [k \in Handler |-> tx'[k]]
      /\ UNCHANGED <<rules, records, active, crossed>>
    BY <1>1, OtherRequests DEF Begin, t
<1>4. RowsOK' /\ TurnsOK'
    BY <1>3 DEF IInv, RowsOK, TurnsOK, Given, Exists
<1>5. RequestOK(h)' /\ ~Holds(h)'
    BY <1>2, <1>3, PatchFacts DEF RequestOK, Holds, Running
<1>6. \A k \in Handler \ {h} : RequestOK(k)'
    BY <1>3 DEF IInv, RequestsOK, RequestOK, Running, Holds, MustClaim, Locks, Exists
<1>7. TurnsApart'
    BY <1>3, <1>5 DEF IInv, TurnsApart, Holds, Running
<1>8. HandsOK'
    <2>1. HandedToActive' /\ \A w : HandedTo(w)' = HandedTo(w)
        BY <1>3 DEF IInv, HandsOK, HandedToActive, HandedTo
    <2>2. HandedTo(u) \subseteq Holding(u) /\ \A x \in Holding(u) : x \in Record /\ records[x] # None
        BY DEF HandedTo, Holding
    <2>3. v # "none" => v \in active /\ v # u
        BY <1>1 DEF MayTakeOver
    <2> QED BY <1>1, <1>2, <1>3, <2>1, <2>2, <2>3 DEF IInv, HandsOK, Running
<1> QED BY <1>4, <1>5, <1>6, <1>7, <1>8 DEF IInv, RequestsOK

\* The one who leaves has handed over what he had, and whatever reaches him later
\* comes from a deactivation that was running already.
LEMMA CommitDeactivateOK ==
    ASSUME IInv, NEW h \in Handler, CommitDeactivate(h)
    PROVE  IInv'
<1> DEFINE u == tx[h].user
           to == tx[h].to
           open == tx[h].open
<1>1. /\ Running(h, "deactivate")
      /\ records' = [x \in Record |->
                        IF to # "none" /\ x \in open
                        THEN Reassigned(records[x], to, "handed_over")
                        ELSE records[x]]
      /\ active' = active \ {u}
      /\ crossed' = IF \E k \in Handler \ {h} : Running(k, "deactivate")
                    THEN crossed \cup {tx[k].user : k \in {k \in Handler : Running(k, "deactivate")}}
                    ELSE crossed
      /\ UNCHANGED rules
    BY DEF CommitDeactivate, Reassigned
<1>2. /\ tx'[h] = Idle /\ \A k \in Handler \ {h} : tx'[k] = tx[k]
      /\ tx' = [k \in Handler |-> tx'[k]]
    BY OtherRequests DEF CommitDeactivate, Done
<1>3. /\ to = "none" => open = {}
      /\ to # "none" => to \in active \cup crossed /\ to # u
      /\ \A x \in open : x \in Record /\ records[x] # None
      /\ \A x \in HandedTo(u) : x \in open \/ u \in crossed
    BY <1>1 DEF IInv, HandsOK
<1> HIDE DEF u, to, open
<1>4. /\ RowsOK' /\ TurnsOK' /\ RequestsOK' /\ TurnsApart'
      /\ \A x \in Record : records'[x] # None <=> records[x] # None
    BY <1>1, <1>2, <1>3, RepsChanged
<1>5. \A x \in open : to # "none" /\ records'[x].rep = to /\ records'[x].how = "handed_over"
    <2> SUFFICES ASSUME NEW x \in open
                 PROVE  to # "none" /\ records'[x].rep = to /\ records'[x].how = "handed_over"
        OBVIOUS
    <2>1. to # "none" /\ x \in Record /\ records[x] # None
        BY <1>3
    <2>2. records'[x] = Reassigned(records[x], to, "handed_over")
        BY <1>1, <2>1
    <2>3. {"rep", "rule", "turn", "how"} \subseteq DOMAIN records[x]
        BY <2>1 DEF IInv, RowsOK
    <2> QED BY <2>1, <2>2, <2>3, AssignedRow
<1>6. \A x \in Record \ open : records'[x] = records[x]
    BY <1>1
<1>7. /\ crossed \subseteq crossed'
      /\ \A k \in Handler \ {h} : Running(k, "deactivate") => tx[k].user \in crossed' /\ u \in crossed'
    <2>1. crossed \subseteq crossed'
        BY <1>1
    <2>2. ASSUME NEW k \in Handler \ {h}, Running(k, "deactivate")
          PROVE  tx[k].user \in crossed' /\ u \in crossed'
        <3> DEFINE both == {q \in Handler : Running(q, "deactivate")}
        <3>1. crossed' = crossed \cup {tx[q].user : q \in both}
            BY <1>1, <2>2
        <3>2. h \in both /\ k \in both
            BY <1>1, <2>2
        <3> HIDE DEF both
        <3> QED BY <3>1, <3>2 DEF u
    <2> QED BY <2>1, <2>2
<1>8. \A v \in active \cup crossed : v # u => v \in active' \cup crossed'
    BY <1>1, <1>7
<1>9. HandedToActive'
    <2> SUFFICES ASSUME NEW x \in Record, records'[x] # None,
                        records'[x].how = "handed_over", records'[x].rep # "none"
                 PROVE  records'[x].rep \in active' \cup crossed'
        BY DEF HandedToActive
    <2>1. CASE x \in open
        BY <1>3, <1>5, <1>8, <2>1
    <2>2. CASE x \notin open
        <3>1. records[x].rep \in active \cup crossed
            BY <1>6, <2>2 DEF IInv, HandsOK, HandedToActive
        <3>2. CASE records[x].rep = u
            BY <1>3, <1>6, <1>7, <2>2, <3>2 DEF HandedTo
        <3> QED BY <1>6, <1>8, <2>2, <3>1, <3>2
    <2> QED BY <2>1, <2>2
<1>10. ASSUME NEW k \in Handler, Running(k, "deactivate")'
       PROVE  /\ tx'[k].to = "none" => tx'[k].open = {}
              /\ tx'[k].to # "none" => tx'[k].to \in active' \cup crossed' /\ tx'[k].to # tx'[k].user
              /\ \A x \in tx'[k].open : x \in Record /\ records'[x] # None
              /\ tx'[k].user \in crossed'
    <2>1. k # h /\ tx'[k] = tx[k] /\ Running(k, "deactivate")
        BY <1>2, <1>10 DEF Running, Idle
    <2>2. u \in crossed' /\ tx[k].user \in crossed'
        BY <1>7, <2>1
    <2> QED BY <1>4, <1>8, <2>1, <2>2 DEF IInv, HandsOK
<1>11. HandsOK'
    BY <1>9, <1>10 DEF HandsOK
<1> QED BY <1>4, <1>11 DEF IInv

-----------------------------------------------------------------------------
\* The invariant holds of every behaviour.
THEOREM Inductive == Spec => []IInv
<1>1. Init => IInv
    BY InitOK
<1>2. IInv /\ [Next]_vars => IInv'
    <2> SUFFICES ASSUME IInv, [Next]_vars PROVE IInv'
        OBVIOUS
    <2>1. ASSUME NEW h \in Handler, Intake(h) PROVE IInv'
        BY <2>1, BeginIntakeOK, ClaimOK, CommitIntakeOK DEF Intake
    <2>2. ASSUME NEW h \in Handler, Edit(h) PROVE IInv'
        BY <2>2, BeginCreateOK, CommitCreateOK, BeginUpdateOK, CommitUpdateOK,
           BeginDeleteOK, CommitDeleteOK, BeginReorderOK, CommitReorderOK DEF Edit
    <2>3. ASSUME NEW h \in Handler, BeginDeactivate(h) PROVE IInv'
        BY <2>3, BeginDeactivateOK
    <2>4. ASSUME NEW h \in Handler, CommitDeactivate(h) PROVE IInv'
        BY <2>4, CommitDeactivateOK
    <2>5. ASSUME NEW h \in Handler, Rollback(h) PROVE IInv'
        BY <2>5, RollbackOK
    <2>6. ASSUME SetDefault PROVE IInv'
        BY <2>6, SetDefaultOK
    <2>7. ASSUME NEW x \in Record, Assign(x) PROVE IInv'
        BY <2>7, AssignOK
    <2>8. CASE UNCHANGED vars
        <3>1. UNCHANGED <<rules, records, tx, active, crossed>>
            BY <2>8 DEF vars
        <3>2. RowsOK' /\ TurnsOK' /\ RequestsOK' /\ TurnsApart'
            BY <3>1, RepsChanged DEF IInv, RowsOK
        <3>3. HandsOK'
            BY <3>1 DEF IInv, HandsOK, HandedToActive, HandedTo, Running
        <3> QED BY <3>2, <3>3 DEF IInv
    <2> QED BY <2>1, <2>2, <2>3, <2>4, <2>5, <2>6, <2>7, <2>8 DEF Next
<1> QED BY <1>1, <1>2, PTL DEF Spec

\* A rotation gives out the turns 1, 2, 3, ... once each, however many intakes
\* overlap, and a failed one leaves no gap.
THEOREM TurnsGivenOnce == Spec => []TurnsExact
<1>1. IInv => TurnsExact
    <2> SUFFICES ASSUME IInv, NEW r \in Rule, Exists(r)
                 PROVE  /\ {records[x].turn : x \in Given(r)} = 1 .. rules[r].index
                        /\ \A x, y \in Given(r) : records[x].turn = records[y].turn => x = y
        BY DEF TurnsExact, Given
    <2>1. \A x \in Given(r) : records[x].turn \in Nat /\ records[x].turn > 0
        BY DEF IInv, RowsOK, Given
    <2>2. rules[r].index \in Nat
        BY DEF IInv, RowsOK
    <2>3. \A x \in Given(r) : records[x].turn \in 1 .. rules[r].index
        BY <2>1, <2>2 DEF IInv, TurnsOK
    <2>4. \A n \in 1 .. rules[r].index : \E x \in Given(r) : records[x].turn = n
        BY DEF IInv, TurnsOK
    <2> QED BY <2>3, <2>4 DEF IInv, TurnsOK
<1> QED BY <1>1, Inductive, PTL

\* Work that deactivate_user hands over is with an active rep, unless another
\* deactivation crossed it.
THEOREM HandsOver == Spec => []HandedToActive
<1>1. IInv => HandedToActive
    BY DEF IInv, HandsOK
<1> QED BY <1>1, Inductive, PTL

\* The dry run of an administrator answers what the next intake would get.
THEOREM DryRunAgrees == Spec => []TestPredicts
<1>1. IInv => TestPredicts
    <2> SUFFICES ASSUME IInv, NEW c \in Customer, NEW r \in Firing(c)
                 PROVE  TestRule(r, c) =
                            [matched |-> TRUE,
                             rep |-> IF rules[r].type = "round_robin"
                                     THEN RepAt(rules[r].conditions.rep_ids, rules[r].index + 1)
                                     ELSE rules[r].rep]
        BY DEF TestPredicts
    <2>1. /\ r \in Rule /\ Exists(r) /\ Matches(rules[r], c)
          /\ rules[r].type \in {"ad_hoc", "geographic", "round_robin"}
        BY DEF Firing, Foremost, Candidates, Bucket, Undeleted
    <2>2. rules[r].index \in Nat
        BY <2>1 DEF IInv, RowsOK
    <2>3. CASE rules[r].type = "round_robin"
        <3>1. rules[r].conditions.rep_ids # <<>>
            BY <2>1, <2>3 DEF Matches
        <3> DEFINE reps == rules[r].conditions.rep_ids
        <3>2. RepAt(reps, rules[r].index + 1) = reps[(rules[r].index % Len(reps)) + 1]
            <4>1. \A n \in Nat : ((n + 1) - 1) % Len(reps) = n % Len(reps)
                OBVIOUS
            <4>2. RepAt(reps, rules[r].index + 1) = reps[(((rules[r].index + 1) - 1) % Len(reps)) + 1]
                BY DEF RepAt
            <4> QED BY <2>2, <4>1, <4>2
        <3>3. TestRule(r, c) = [matched |-> TRUE, rep |-> reps[(rules[r].index % Len(reps)) + 1]]
            <4>1. (reps # <<>>) = TRUE
                BY <3>1
            <4>2. TestRule(r, c) = [matched |-> (reps # <<>>),
                                    rep |-> IF reps = <<>> THEN "none"
                                            ELSE reps[(rules[r].index % Len(reps)) + 1]]
                BY <2>3 DEF TestRule
            <4> QED BY <3>1, <4>1, <4>2
        <3>4. TestRule(r, c) = [matched |-> TRUE, rep |-> RepAt(reps, rules[r].index + 1)]
            BY <3>2, <3>3, Zenon
        <3>5. (IF rules[r].type = "round_robin" THEN RepAt(reps, rules[r].index + 1) ELSE rules[r].rep)
                  = RepAt(reps, rules[r].index + 1)
            BY <2>3
        <3> QED BY <3>4, <3>5, Zenon
    <2>4. CASE rules[r].type # "round_robin"
        <3>1. Matches(rules[r], c) = TRUE
            BY <2>1, <2>4 DEF Matches, AdHocMatches, GeoMatches, MetroMatches
        <3> QED BY <2>4, <3>1 DEF TestRule
    <2> QED BY <2>3, <2>4
<1> QED BY <1>1, Inductive, PTL
-----------------------------------------------------------------------------
(* What the rows and the requests hold.                                    *)

\* An order names rules of one bucket that are not deleted, none of them twice: the
\* row locks keep them there.
OrderOK(h) ==
    /\ tx[h].order \in Seq(Rule)
    /\ \A i, j \in 1 .. Len(tx[h].order) : tx[h].order[i] = tx[h].order[j] => i = j
    /\ Locks(h) \subseteq Bucket(tx[h].type)

\* The value of a field that update_rule sets.
ValueOK(field, value, type) ==
    /\ field = "priority" => value \in Nat
    /\ field = "conditions" => value \in Conditions[type]
    /\ field = "rep" => value \in SomeRep
    /\ field = "active" => value \in BOOLEAN

WorkOK(h) ==
    /\ Running(h, "intake") =>
           /\ tx[h].customer \in Customer
           /\ tx[h].decision \in Decision
           /\ tx[h].reps \in Seq(Listed)
    /\ Running(h, "create") => RuleRow(tx[h].row)
    /\ tx[h].op \in Patches =>
           /\ DOMAIN tx[h].patch = {tx[h].op}
           /\ ValueOK(tx[h].op, tx[h].patch[tx[h].op], rules[tx[h].rule].type)
    /\ Running(h, "reorder") => OrderOK(h)
    /\ Running(h, "deactivate") => tx[h].user \in Rep /\ tx[h].to \in SomeRep

Typed == TypeOK /\ \A h \in Handler : WorkOK(h)

\* Migration 017's unique index.
SlotsApart ==
    \A t \in Type : \A r, q \in Bucket(t) : r # q => rules[r].priority # rules[q].priority

LEMMA RowFacts ==
    ASSUME NEW row, RuleRow(row)
    PROVE  /\ row.type \in Type /\ row.priority \in Nat /\ row.conditions \in Conditions[row.type]
           /\ row.rep \in SomeRep /\ row.index \in 0 .. MaxTurn
           /\ row.active \in BOOLEAN /\ row.deleted \in BOOLEAN
           /\ DOMAIN row = {"type", "priority", "conditions", "rep", "index", "active", "deleted"}
           /\ row = [f \in DOMAIN row |-> row[f]]
BY DEF RuleRow, RulesOf

\* A row that gets other values of the right types.
LEMMA RowSet ==
    ASSUME NEW row, RuleRow(row), NEW new,
           new = [f \in DOMAIN row |-> new[f]],
           new.type = row.type, new.priority \in Nat, new.conditions \in Conditions[row.type],
           new.rep \in SomeRep, new.index \in 0 .. MaxTurn,
           new.active \in BOOLEAN, new.deleted \in BOOLEAN
    PROVE  RuleRow(new)
<1>1. new \in RulesOf(row.type)
    BY RowFacts DEF RulesOf
<1> QED BY <1>1, RowFacts DEF RuleRow

LEMMA RowPut ==
    ASSUME NEW row, RuleRow(row)
    PROVE  /\ \A p \in Nat :
                  /\ RuleRow([row EXCEPT !.priority = p]) /\ [row EXCEPT !.priority = p].priority = p
                  /\ [row EXCEPT !.priority = p].type = row.type
                  /\ [row EXCEPT !.priority = p].deleted = row.deleted
           /\ \A n \in 0 .. MaxTurn :
                  /\ RuleRow([row EXCEPT !.index = n])
                  /\ [row EXCEPT !.index = n].type = row.type
                  /\ [row EXCEPT !.index = n].priority = row.priority
                  /\ [row EXCEPT !.index = n].deleted = row.deleted
           /\ RuleRow([row EXCEPT !.deleted = TRUE, !.active = FALSE])
           /\ [row EXCEPT !.deleted = TRUE, !.active = FALSE].type = row.type
           /\ [row EXCEPT !.deleted = TRUE, !.active = FALSE].deleted
BY RowFacts DEF RuleRow, RulesOf
\* A new record of the unchanged tables.
LEMMA TypeKept ==
    ASSUME TypeOK, UNCHANGED <<rules, active, default, profiles, records, crossed, ops>>
    PROVE  TypeOK'
BY DEF TypeOK, Exists, Bucket, Undeleted

\* What others do to the rules leaves a request as it is, if they delete none that
\* it has locked.
LEMMA OthersKept ==
    ASSUME IInv, Typed, NEW h \in Handler, NEW t, tx' = [tx EXCEPT ![h] = t],
           \A r \in Rule : Exists(r) => rules'[r] # None /\ rules'[r].type = rules[r].type,
           \A r \in Rule : Undeleted(r) /\ ~Undeleted(r)' => \A k \in Handler \ {h} : r \notin Locks(k),
           TypeOK', WorkOK(h)'
    PROVE  Typed'
<1> SUFFICES ASSUME NEW k \in Handler \ {h} PROVE WorkOK(k)'
    BY DEF Typed
<1>1. tx'[k] = tx[k] /\ WorkOK(k) /\ RequestOK(k)
    BY OtherRequests DEF Typed, IInv, RequestsOK
<1>2. Running(k, "reorder") => OrderOK(k)'
    <2> SUFFICES ASSUME Running(k, "reorder") PROVE OrderOK(k)'
        OBVIOUS
    <2>1. Locks(k)' = Locks(k)
        BY <1>1 DEF Locks, Running
    <2>2. OrderOK(k)
        BY <1>1 DEF WorkOK
    <2>3. \A r \in Locks(k) : r \in Rule /\ Undeleted(r) /\ rules[r].type = tx[k].type
        BY <2>2 DEF OrderOK, Bucket
    <2>4. \A r \in Locks(k) : r \in Rule /\ Undeleted(r)' /\ rules'[r].type = tx[k].type
        BY <2>3 DEF Undeleted
    <2>5. Locks(k)' \subseteq Bucket(tx[k].type)'
        BY <2>1, <2>4 DEF Bucket
    <2> QED BY <1>1, <2>2, <2>5 DEF OrderOK
<1>3. tx[k].op \in Patches => rules'[tx[k].rule].type = rules[tx[k].rule].type
    BY <1>1 DEF RequestOK
<1>4. Running(k, "create") => RuleRow(tx[k].row)
    BY <1>1 DEF WorkOK
<1> QED BY <1>1, <1>2, <1>3, <1>4 DEF WorkOK, Running, RuleRow

\* An idle handler promises nothing.
LEMMA IdleTyped ==
    ASSUME NEW h \in Handler, tx[h] = Idle
    PROVE  WorkOK(h)
<1>1. tx[h].op = "idle"
    BY DEF Idle
<1> QED BY <1>1, PatchFacts DEF WorkOK, Running

\* A request begins.
LEMMA BeginTyped ==
    ASSUME IInv, Typed, NEW h \in Handler, NEW t, Begin(h, t), WorkOK(h)'
    PROVE  Typed'
<1>1. TypeOK'
    BY TypeKept DEF Typed, Begin
<1> QED BY <1>1, OthersKept DEF Begin, Exists, Undeleted

\* A request ends.
LEMMA DoneTyped ==
    ASSUME IInv, Typed, NEW h \in Handler, Done(h), TypeOK',
           \A r \in Rule : Exists(r) => rules'[r] # None /\ rules'[r].type = rules[r].type,
           \A r \in Rule : Undeleted(r) /\ ~Undeleted(r)' => \A k \in Handler \ {h} : r \notin Locks(k)
    PROVE  Typed'
<1>1. tx'[h] = Idle
    BY OtherRequests DEF Done
<1>2. WorkOK(h)'
    BY <1>1, PatchFacts DEF WorkOK, Running, Idle
<1> QED BY <1>2, OthersKept DEF Done

LEMMA InitTyped == Init => Typed
<1> SUFFICES ASSUME Init PROVE Typed
    OBVIOUS
<1>1. \A h \in Handler : WorkOK(h)
    BY IdleTyped DEF Init
<1>2. ops \in Scenario /\ \A r \in Rule : Exists(r) => r \in DOMAIN Seed[ops] /\ rules[r] = Seed[ops][r]
    BY DEF Init, Exists
<1>3. \A r \in Rule : Exists(r) => RuleRow(rules[r])
    BY <1>2, SeedAssumption
<1>4. SlotsApart
    BY <1>2, SeedAssumption DEF SlotsApart, Bucket, Undeleted
<1> QED BY <1>1, <1>2, <1>3, <1>4 DEF Init, Typed, TypeOK, SlotsApart, SomeRep

LEMMA BeginIntakeTyped ==
    ASSUME IInv, Typed, NEW h \in Handler, BeginIntake(h)
    PROVE  Typed'
<1>1. PICK c \in Customer :
          \/ Begin(h, IntakeOf(c, Undecided, <<>>))
          \/ \E r \in Firing(c) :
                 \/ /\ rules[r].type = "round_robin"
                    /\ Begin(h, IntakeOf(c, [Undecided EXCEPT !.rule = r], rules[r].conditions.rep_ids))
                 \/ Begin(h, IntakeOf(c, [rep |-> rules[r].rep, rule |-> r, turn |-> 0], <<>>))
          \/ Begin(h, IntakeOf(c, ByDefault, <<>>))
    BY DEF BeginIntake, IntakeOf
<1>2. 0 \in 0 .. MaxTurn
    BY BoundAssumption
<1>3. ASSUME NEW d \in Decision, NEW reps \in Seq(Listed), Begin(h, IntakeOf(c, d, reps))
      PROVE  Typed'
    <2> DEFINE t == IntakeOf(c, d, reps)
    <2>1. t.op = "intake" /\ t.customer = c /\ t.decision = d /\ t.reps = reps
        BY DEF IntakeOf
    <2> HIDE DEF t
    <2>2. tx'[h] = t
        BY <1>3, OtherRequests DEF Begin, t
    <2>3. WorkOK(h)'
        BY <2>1, <2>2, PatchFacts DEF WorkOK, Running
    <2> QED BY <1>3, <2>3, BeginTyped DEF t
<1>4. <<>> \in Seq(Listed) /\ Undecided \in Decision /\ ByDefault \in Decision
    BY <1>2 DEF Undecided, Decision, SomeRep, ByDefault, Typed, TypeOK
<1>5. ASSUME NEW r \in Firing(c)
      PROVE  /\ [Undecided EXCEPT !.rule = r] \in Decision
             /\ [rep |-> rules[r].rep, rule |-> r, turn |-> 0] \in Decision
             /\ rules[r].type = "round_robin" => rules[r].conditions.rep_ids \in Seq(Listed)
    <2>1. r \in Rule /\ Exists(r)
        BY DEF Firing, Foremost, Candidates, Bucket, Undeleted
    <2>2. RuleRow(rules[r])
        BY <2>1 DEF Typed, TypeOK
    <2>3. rules[r].rep \in SomeRep /\ rules[r].conditions \in Conditions[rules[r].type]
        BY <2>2, RowFacts
    <2>4. rules[r].type = "round_robin" => rules[r].conditions.rep_ids \in Seq(Listed)
        BY <2>3, RotationAssumption
    <2> QED BY <1>2, <2>1, <2>3, <2>4 DEF Undecided, Decision, SomeRep
<1>6. ASSUME NEW r \in Firing(c), rules[r].type = "round_robin",
             Begin(h, IntakeOf(c, [Undecided EXCEPT !.rule = r], rules[r].conditions.rep_ids))
      PROVE  Typed'
    BY <1>3, <1>5, <1>6
<1>7. ASSUME NEW r \in Firing(c),
             Begin(h, IntakeOf(c, [rep |-> rules[r].rep, rule |-> r, turn |-> 0], <<>>))
      PROVE  Typed'
    BY <1>3, <1>4, <1>5, <1>7
<1> QED BY <1>1, <1>3, <1>4, <1>6, <1>7

LEMMA BeginCreateTyped ==
    ASSUME IInv, Typed, NEW h \in Handler, BeginCreate(h)
    PROVE  Typed'
<1>1. PICK t \in Type, p \in Priority, rep \in Assignee : \E cond \in Conditions[t] :
          Begin(h, [op |-> "create", row |-> [type |-> t, priority |-> p, conditions |-> cond,
                        rep |-> rep, index |-> 0, active |-> TRUE, deleted |-> FALSE]])
    BY DEF BeginCreate
<1>2. PICK cond \in Conditions[t] :
          Begin(h, [op |-> "create", row |-> [type |-> t, priority |-> p, conditions |-> cond,
                        rep |-> rep, index |-> 0, active |-> TRUE, deleted |-> FALSE]])
    BY <1>1
<1> DEFINE row == [type |-> t, priority |-> p, conditions |-> cond,
                   rep |-> rep, index |-> 0, active |-> TRUE, deleted |-> FALSE]
<1>3. row \in RulesOf(t)
    BY BoundAssumption, AssigneeAssumption DEF RulesOf, SomeRep
<1> HIDE DEF row
<1>4. tx'[h] = [op |-> "create", row |-> row]
    BY <1>2, OtherRequests DEF Begin, row
<1>5. WorkOK(h)'
    BY <1>3, <1>4, PatchFacts DEF WorkOK, Running, RuleRow
<1> QED BY <1>2, <1>5, BeginTyped

LEMMA BeginUpdateTyped ==
    ASSUME IInv, Typed, NEW h \in Handler, BeginUpdate(h)
    PROVE  Typed'
<1>1. PICK r \in Rule :
          /\ Undeleted(r)
          /\ \E field \in Patches : \E value :
                 /\ ValueOK(field, value, rules[r].type)
                 /\ Begin(h, [op |-> field, rule |-> r, patch |-> [f \in {field} |-> value]])
    BY BoundAssumption, AssigneeAssumption DEF BeginUpdate, Patches, ValueOK, SomeRep
<1>2. ASSUME NEW field \in Patches, NEW value, ValueOK(field, value, rules[r].type),
             Begin(h, [op |-> field, rule |-> r, patch |-> [f \in {field} |-> value]])
      PROVE  Typed'
    <2> DEFINE t == [op |-> field, rule |-> r, patch |-> [f \in {field} |-> value]]
    <2>1. t.op = field /\ t.rule = r /\ DOMAIN t.patch = {field} /\ t.patch[field] = value
        OBVIOUS
    <2> HIDE DEF t
    <2>2. tx'[h] = t /\ UNCHANGED rules
        BY <1>2, OtherRequests DEF Begin, t
    <2>3. field \notin {"intake", "create", "reorder", "deactivate"}
        BY PatchFacts
    <2>4. WorkOK(h)'
        BY <1>2, <2>1, <2>2, <2>3 DEF WorkOK, Running, ValueOK
    <2> QED BY <1>2, <2>4, BeginTyped DEF t
<1> QED BY <1>1, <1>2

LEMMA BeginDeleteTyped ==
    ASSUME IInv, Typed, NEW h \in Handler, BeginDelete(h)
    PROVE  Typed'
<1>1. PICK r \in Rule : Begin(h, [op |-> "delete", rule |-> r])
    BY DEF BeginDelete
<1>2. tx'[h].op = "delete"
    BY <1>1, OtherRequests DEF Begin
<1>3. WorkOK(h)'
    BY <1>2, PatchFacts DEF WorkOK, Running
<1> QED BY <1>1, <1>3, BeginTyped

LEMMA BeginReorderTyped ==
    ASSUME IInv, Typed, NEW h \in Handler, BeginReorder(h)
    PROVE  Typed'
<1>1. PICK k \in Type : \E order \in Orders(Bucket(k)) :
           Begin(h, [op |-> "reorder", type |-> k, order |-> order])
    BY DEF BeginReorder
<1>2. PICK order \in Orders(Bucket(k)) : Begin(h, [op |-> "reorder", type |-> k, order |-> order])
    BY <1>1
<1> DEFINE t == [op |-> "reorder", type |-> k, order |-> order]
<1>3. t.op = "reorder" /\ t.order = order /\ t.type = k
    OBVIOUS
<1> HIDE DEF t
<1>4. tx'[h] = t /\ UNCHANGED rules
    BY <1>2, OtherRequests DEF Begin, t
<1> DEFINE n == Cardinality(Bucket(k))
<1>5. /\ order \in [1 .. n -> Bucket(k)]
      /\ \A i, j \in 1 .. n : order[i] = order[j] => i = j
    BY DEF Orders
<1>6. Bucket(k) \subseteq Rule
    BY DEF Bucket
<1>7. n \in Nat
    <2>1. IsFiniteSet(Bucket(k))
        BY <1>6, RuleAssumption, FS_Subset
    <2> QED BY <2>1, FS_CardinalityType
<1> HIDE DEF n
<1>8. order \in Seq(Rule) /\ DOMAIN order = 1 .. Len(order) /\ Len(order) = n
    BY <1>5, <1>6, <1>7
<1>9. Locks(h)' \subseteq Bucket(k)'
    <2>1. Running(h, "reorder")' /\ ~Running(h, "intake")' /\ tx'[h].order = order
        BY <1>3, <1>4 DEF Running
    <2>2. Locks(h)' = {order[i] : i \in DOMAIN order}
        BY <2>1 DEF Locks
    <2>3. Bucket(k)' = Bucket(k)
        BY <1>4 DEF Bucket, Undeleted, Exists
    <2> HIDE DEF n
    <2> QED BY <1>5, <2>2, <2>3
<1>10. OrderOK(h)'
    BY <1>3, <1>4, <1>5, <1>8, <1>9 DEF OrderOK
<1>11. WorkOK(h)'
    BY <1>3, <1>4, <1>10, PatchFacts DEF WorkOK, Running
<1> QED BY <1>2, <1>11, BeginTyped DEF t

LEMMA RollbackTyped ==
    ASSUME IInv, Typed, NEW h \in Handler, Rollback(h)
    PROVE  Typed'
<1>1. TypeOK'
    BY TypeKept DEF Typed, Rollback
<1> QED BY <1>1, DoneTyped DEF Rollback, Exists, Undeleted

\* The turn that a request took names somebody of the list.
LEMMA ClaimTyped ==
    ASSUME IInv, Typed, NEW h \in Handler, Claim(h)
    PROVE  Typed'
<1> DEFINE r == tx[h].decision.rule
           turn == rules[r].index + 1
           reps == tx[h].reps
           d == [rep |-> RepAt(reps, turn), rule |-> r, turn |-> turn]
           t == [tx[h] EXCEPT !.decision = d]
<1>1. /\ Running(h, "intake") /\ MustClaim(h) /\ turn <= MaxTurn
      /\ tx' = [tx EXCEPT ![h] = t]
      /\ UNCHANGED <<rules, active, default, profiles, records, crossed, ops>>
    <2>1. tx' = [tx EXCEPT ![h].decision = d]
        BY DEF Claim
    <2> QED BY <2>1 DEF Claim
<1>2. r \in Rule /\ Exists(r) /\ "decision" \in DOMAIN tx[h] /\ "op" \in DOMAIN tx[h]
    BY <1>1 DEF IInv, RequestsOK, RequestOK
<1>3. rules[r].index \in Nat
    BY <1>2 DEF IInv, RowsOK
<1>4. reps \in Seq(Listed) /\ reps # <<>> /\ tx[h].customer \in Customer
    BY <1>1 DEF Typed, WorkOK, MustClaim
<1>5. turn \in 0 .. MaxTurn /\ turn - 1 \in Nat
    BY <1>1, <1>3, BoundAssumption
<1>6. RepAt(reps, turn) \in Listed
    <2> HIDE DEF reps, turn
    <2>1. Len(reps) \in Nat /\ Len(reps) > 0
        BY <1>4
    <2>2. (turn - 1) % Len(reps) \in 0 .. (Len(reps) - 1)
        BY <1>5, <2>1
    <2>3. ((turn - 1) % Len(reps)) + 1 \in 1 .. Len(reps)
        BY <2>1, <2>2
    <2> QED BY <1>4, <2>3 DEF RepAt
<1>7. d \in Decision
    BY <1>2, <1>5, <1>6 DEF Decision
<1> HIDE DEF d
<1>8. t.op = "intake" /\ t.decision = d /\ t.reps = reps /\ t.customer = tx[h].customer
    BY <1>1, <1>2 DEF Running
<1> HIDE DEF t
<1>9. tx'[h] = t
    BY <1>1, OtherRequests
<1>10. WorkOK(h)'
    BY <1>4, <1>7, <1>8, <1>9, PatchFacts DEF WorkOK, Running
<1>11. TypeOK'
    BY <1>1, TypeKept DEF Typed
<1> QED BY <1>1, <1>10, <1>11, OthersKept DEF Exists, Undeleted

\* Rules of the same slots as before, or fewer.
LEMMA SlotsKept ==
    ASSUME SlotsApart,
           \A r \in Rule : Undeleted(r)' =>
               Undeleted(r) /\ rules'[r].type = rules[r].type /\ rules'[r].priority = rules[r].priority
    PROVE  SlotsApart'
BY DEF SlotsApart, Bucket

LEMMA CommitIntakeTyped ==
    ASSUME IInv, Typed, NEW h \in Handler, CommitIntake(h)
    PROVE  Typed'
<1> DEFINE d == tx[h].decision
<1>1. PICK x \in Unused :
           records' = [records EXCEPT ![x] = [customer |-> tx[h].customer, rep |-> d.rep,
                           rule |-> d.rule, turn |-> d.turn, how |-> "routed"]]
    BY DEF CommitIntake
<1> DEFINE row == [customer |-> tx[h].customer, rep |-> d.rep,
                   rule |-> d.rule, turn |-> d.turn, how |-> "routed"]
<1>2. Running(h, "intake") /\ d \in Decision /\ tx[h].customer \in Customer
    BY DEF CommitIntake, Typed, WorkOK
<1>3. row \in RecordRow
    BY <1>2 DEF Decision, RecordRow
<1>4. x \in Record /\ records' = [records EXCEPT ![x] = row]
    BY <1>1 DEF Unused
<1> HIDE DEF row
<1>5. \A y \in Record : records'[y] # None => records'[y] \in RecordRow
    BY <1>3, <1>4 DEF IInv, RowsOK, Typed, TypeOK
<1>6. rules' = IF d.turn > 0 THEN [rules EXCEPT ![d.rule].index = d.turn] ELSE rules
    BY DEF CommitIntake
<1>7. \A r \in Rule :
          /\ ~Exists(r) => rules'[r] = None
          /\ Exists(r) => /\ RuleRow(rules'[r]) /\ rules'[r] # None
                          /\ rules'[r].type = rules[r].type /\ rules'[r].priority = rules[r].priority
                          /\ rules'[r].deleted = rules[r].deleted
    <2>1. \A r \in Rule : Exists(r) => RuleRow(rules[r])
        BY DEF Typed, TypeOK
    <2>2. CASE d.turn > 0
        <3> DEFINE q == d.rule
                   new == [rules[q] EXCEPT !.index = d.turn]
        <3>1. q \in Rule /\ Exists(q)
            BY <1>2, <2>2 DEF IInv, RequestsOK, RequestOK, Holds
        <3>2. d.turn \in 0 .. MaxTurn
            BY <1>2 DEF Decision
        <3>3. /\ RuleRow(new) /\ new.type = rules[q].type /\ new.priority = rules[q].priority
              /\ new.deleted = rules[q].deleted
            BY <2>1, <3>1, <3>2, RowPut
        <3>4. rules' = [rules EXCEPT ![q] = new]
            BY <1>6, <2>2
        <3> HIDE DEF new
        <3>5. rules'[q] = new /\ \A r \in Rule \ {q} : rules'[r] = rules[r]
            BY <3>1, <3>4 DEF IInv, RowsOK
        <3>6. new # None
            BY <3>3, RowFacts, RowIsSome
        <3> QED BY <2>1, <3>1, <3>3, <3>5, <3>6 DEF Exists
    <2>3. CASE ~(d.turn > 0)
        BY <1>6, <2>1, <2>3 DEF Exists
    <2> QED BY <2>2, <2>3
<1>8. \A r \in Rule : Undeleted(r)' <=> Undeleted(r)
    BY <1>7 DEF Undeleted, Exists
<1>9. SlotsApart'
    <2>1. SlotsApart
        BY DEF Typed, TypeOK, SlotsApart
    <2> QED BY <1>7, <1>8, <2>1, SlotsKept DEF Undeleted
<1>10. TypeOK'
    <2>1. \A r \in Rule : Exists(r)' => RuleRow(rules'[r])
        BY <1>7 DEF Exists
    <2>2. profiles' \subseteq Customer /\ UNCHANGED <<active, default, crossed, ops>>
        BY <1>2 DEF CommitIntake, Typed, TypeOK
    <2> QED BY <1>5, <1>9, <2>1, <2>2 DEF Typed, TypeOK, SlotsApart, RuleRow
<1> QED BY <1>7, <1>8, <1>10, DoneTyped DEF CommitIntake, Exists

\* The rules a step of Edit writes; the rest of the tables is as it was.
LEMMA EditTyped ==
    ASSUME IInv, Typed, NEW h \in Handler, Done(h),
           \A r \in Rule : Exists(r)' => RuleRow(rules'[r]),
           \A r \in Rule : Exists(r) => rules'[r] # None /\ rules'[r].type = rules[r].type,
           \A r \in Rule : Undeleted(r) /\ ~Undeleted(r)' => \A k \in Handler \ {h} : r \notin Locks(k),
           SlotsApart',
           UNCHANGED <<active, default, profiles, records, crossed, ops>>
    PROVE  Typed'
<1>1. TypeOK'
    BY DEF Typed, TypeOK, SlotsApart, RuleRow
<1> QED BY <1>1, DoneTyped

\* The index admits a rule whose slot is free.
LEMMA CommitCreateTyped ==
    ASSUME IInv, Typed, NEW h \in Handler, CommitCreate(h)
    PROVE  Typed'
<1> DEFINE row == tx[h].row
<1>1. PICK r \in Rule : ~Exists(r) /\ rules' = [rules EXCEPT ![r] = row]
    BY DEF CommitCreate
<1>2. RuleRow(row) /\ SlotFree(row.type, row.priority, "none")
    BY DEF CommitCreate, Typed, WorkOK
<1>3. \A q \in Bucket(row.type) : rules[q].priority # row.priority
    BY <1>2, NoneAssumption DEF SlotFree, Bucket
<1>4. row # None
    BY <1>2, RowFacts, RowIsSome
<1> HIDE DEF row
<1>5. rules'[r] = row /\ \A q \in Rule \ {r} : rules'[q] = rules[q]
    BY <1>1 DEF IInv, RowsOK
<1>6. \A q \in Rule : Exists(q)' => RuleRow(rules'[q])
    BY <1>2, <1>5 DEF Typed, TypeOK, Exists
<1>7. \A q \in Rule : Exists(q) => rules'[q] = rules[q]
    BY <1>1, <1>5
<1>8. \A q \in Rule : Undeleted(q)' => q = r \/ (Undeleted(q) /\ rules'[q] = rules[q])
    BY <1>5 DEF Undeleted, Exists
<1>9. SlotsApart'
    <2> SUFFICES ASSUME NEW t \in Type, NEW p \in Bucket(t)', NEW q \in Bucket(t)', p # q
                 PROVE  rules'[p].priority # rules'[q].priority
        BY DEF SlotsApart
    <2>1. SlotsApart
        BY DEF Typed, TypeOK, SlotsApart
    <2>2. CASE p = r
        BY <1>3, <1>5, <1>8, <2>2 DEF Bucket
    <2>3. CASE q = r
        BY <1>3, <1>5, <1>8, <2>3 DEF Bucket
    <2>4. CASE p # r /\ q # r
        BY <1>8, <2>1, <2>4 DEF SlotsApart, Bucket
    <2> QED BY <2>2, <2>3, <2>4
<1>10. \A q \in Rule : Undeleted(q) => Undeleted(q)'
    BY <1>7 DEF Undeleted, Exists
<1> QED BY <1>6, <1>7, <1>9, <1>10, EditTyped DEF CommitCreate, Exists

LEMMA CommitUpdateTyped ==
    ASSUME IInv, Typed, NEW h \in Handler, CommitUpdate(h)
    PROVE  Typed'
<1> DEFINE r == tx[h].rule
           patch == tx[h].patch
           field == tx[h].op
           row == [f \in DOMAIN rules[r] |-> IF f \in DOMAIN patch THEN patch[f] ELSE rules[r][f]]
<1>1. /\ r \in Rule /\ Exists(r) /\ field \in Patches
      /\ DOMAIN patch = {field} /\ ValueOK(field, patch[field], rules[r].type)
    BY DEF CommitUpdate, IInv, RequestsOK, RequestOK, Typed, WorkOK
<1>2. rules' = [rules EXCEPT ![r] = row]
    BY DEF CommitUpdate
<1>3. field = "priority" /\ Undeleted(r) => SlotFree(rules[r].type, patch.priority, r)
    BY <1>1 DEF CommitUpdate
<1>4. RuleRow(rules[r])
    BY <1>1 DEF Typed, TypeOK
<1>5. /\ row = [f \in DOMAIN rules[r] |-> row[f]]
      /\ \A f \in DOMAIN rules[r] : row[f] = IF f = field THEN patch[field] ELSE rules[r][f]
    BY <1>1
<1> HIDE DEF row
<1>6. /\ row.type = rules[r].type /\ row.deleted = rules[r].deleted /\ row.index = rules[r].index
      /\ row.priority = IF field = "priority" THEN patch[field] ELSE rules[r].priority
      /\ row.conditions = IF field = "conditions" THEN patch[field] ELSE rules[r].conditions
      /\ row.rep = IF field = "rep" THEN patch[field] ELSE rules[r].rep
      /\ row.active = IF field = "active" THEN patch[field] ELSE rules[r].active
    <2>1. DOMAIN rules[r] = {"type", "priority", "conditions", "rep", "index", "active", "deleted"}
        BY <1>4, RowFacts
    <2>2. field \notin {"type", "deleted", "index"}
        BY <1>1 DEF Patches
    <2>3. \A f \in {"type", "priority", "conditions", "rep", "index", "active", "deleted"} :
              row[f] = IF f = field THEN patch[field] ELSE rules[r][f]
        BY <1>5, <2>1
    <2> HIDE DEF r, patch, field
    <2> QED BY <2>2, <2>3
<1> HIDE DEF r, patch, field
<1>7. RuleRow(row)
    <2>1. row.priority \in Nat /\ row.conditions \in Conditions[rules[r].type] /\ row.rep \in SomeRep
        BY <1>1, <1>4, <1>6, RowFacts DEF ValueOK
    <2>2. row.active \in BOOLEAN /\ row.deleted \in BOOLEAN /\ row.index \in 0 .. MaxTurn
        BY <1>1, <1>4, <1>6, RowFacts DEF ValueOK
    <2> QED BY <1>4, <1>5, <1>6, <2>1, <2>2, RowSet
<1>8. row # None
    BY <1>7, RowFacts, RowIsSome
<1>9. rules'[r] = row /\ \A q \in Rule \ {r} : rules'[q] = rules[q]
    BY <1>1, <1>2 DEF IInv, RowsOK
<1>10. \A q \in Rule : Exists(q)' => RuleRow(rules'[q])
    BY <1>7, <1>9 DEF Typed, TypeOK, Exists
<1>11. \A q \in Rule : /\ Undeleted(q)' <=> Undeleted(q)
                       /\ Exists(q) => rules'[q] # None /\ rules'[q].type = rules[q].type
    BY <1>1, <1>6, <1>8, <1>9 DEF Undeleted, Exists
<1>12. SlotsApart
    BY DEF Typed, TypeOK, SlotsApart
<1>13. SlotsApart'
    <2>1. CASE field = "priority" /\ Undeleted(r)
        <3>1. \A q \in Bucket(rules[r].type) \ {r} : rules[q].priority # row.priority
            BY <1>3, <1>6, <2>1 DEF SlotFree
        <3> SUFFICES ASSUME NEW t \in Type, NEW p \in Bucket(t)', NEW q \in Bucket(t)', p # q
                     PROVE  rules'[p].priority # rules'[q].priority
            BY DEF SlotsApart
        <3>2. p \in Bucket(t) /\ q \in Bucket(t)
            BY <1>11 DEF Bucket, Undeleted
        <3>3. CASE p = r
            BY <1>9, <3>1, <3>2, <3>3 DEF Bucket
        <3>4. CASE q = r
            BY <1>9, <3>1, <3>2, <3>4 DEF Bucket
        <3>5. CASE p # r /\ q # r
            BY <1>9, <1>12, <3>2, <3>5 DEF SlotsApart, Bucket
        <3> QED BY <3>3, <3>4, <3>5
    <2>2. CASE ~(field = "priority" /\ Undeleted(r))
        <3>1. \A q \in Rule : Undeleted(q)' =>
                  Undeleted(q) /\ rules'[q].type = rules[q].type /\ rules'[q].priority = rules[q].priority
            BY <1>6, <1>9, <1>11, <2>2 DEF Undeleted
        <3> QED BY <1>12, <3>1, SlotsKept
    <2> QED BY <2>1, <2>2
<1> QED BY <1>10, <1>11, <1>13, EditTyped DEF CommitUpdate

LEMMA CommitDeleteTyped ==
    ASSUME IInv, Typed, NEW h \in Handler, CommitDelete(h)
    PROVE  Typed'
<1> DEFINE r == tx[h].rule
           row == [rules[r] EXCEPT !.deleted = TRUE, !.active = FALSE]
<1>1. r \in Rule /\ Exists(r) /\ Free(h, {r})
    BY DEF CommitDelete, IInv, RequestsOK, RequestOK
<1>2. rules' = [rules EXCEPT ![r] = row]
    BY DEF CommitDelete
<1>3. RuleRow(rules[r])
    BY <1>1 DEF Typed, TypeOK
<1>4. RuleRow(row) /\ row.type = rules[r].type /\ row.deleted
    BY <1>3, RowPut
<1> HIDE DEF row, r
<1>5. row # None
    BY <1>4, RowFacts, RowIsSome
<1>6. rules'[r] = row /\ \A q \in Rule \ {r} : rules'[q] = rules[q]
    BY <1>1, <1>2 DEF IInv, RowsOK
<1>7. \A q \in Rule : Exists(q)' => RuleRow(rules'[q])
    BY <1>4, <1>6 DEF Typed, TypeOK, Exists
<1>8. \A q \in Rule : /\ Undeleted(q)' => Undeleted(q) /\ rules'[q] = rules[q]
                      /\ Undeleted(q) /\ ~Undeleted(q)' => q = r
                      /\ Exists(q) => rules'[q] # None /\ rules'[q].type = rules[q].type
    BY <1>1, <1>4, <1>5, <1>6 DEF Undeleted, Exists
<1>9. SlotsApart'
    <2>1. SlotsApart
        BY DEF Typed, TypeOK, SlotsApart
    <2> QED BY <1>8, <2>1, SlotsKept
<1>10. \A k \in Handler \ {h} : r \notin Locks(k)
    BY <1>1 DEF Free
<1> QED BY <1>7, <1>8, <1>9, <1>10, EditTyped DEF CommitDelete

-----------------------------------------------------------------------------
(* Reordering.                                                             *)

\* The updates w: n out of the way, then n into place.
TwoPhases(w, order, n) ==
    /\ Len(w) = n + n /\ DOMAIN w = 1 .. (n + n)
    /\ \A i \in 1 .. n : /\ w[i].rule = order[i] /\ w[i].priority = -i
                         /\ w[n + i].rule = order[i] /\ w[n + i].priority = i - 1

LEMMA Writes ==
    ASSUME NEW order \in Seq(Rule), NEW n \in Nat, n = Len(order)
    PROVE  TwoPhases(InTwoPhases(order), order, n)
<1> DEFINE out  == [i \in DOMAIN order |-> [rule |-> order[i], priority |-> -i]]
           into == [i \in DOMAIN order |-> [rule |-> order[i], priority |-> i - 1]]
           Row  == [rule : Rule, priority : Int]
<1>1. DOMAIN order = 1 .. n /\ \A i \in 1 .. n : order[i] \in Rule
    OBVIOUS
<1>2. out \in Seq(Row) /\ Len(out) = n /\ into \in Seq(Row) /\ Len(into) = n
    BY <1>1
<1>3. \A i \in 1 .. n : /\ out[i].rule = order[i] /\ out[i].priority = -i
                        /\ into[i].rule = order[i] /\ into[i].priority = i - 1
    BY <1>1
<1>4. InTwoPhases(order) = out \o into
    BY DEF InTwoPhases
<1> HIDE DEF out, into, Row
<1>5. /\ Len(out \o into) = n + n /\ DOMAIN (out \o into) = 1 .. (n + n)
      /\ \A i \in 1 .. n : (out \o into)[i] = out[i] /\ (out \o into)[n + i] = into[i]
    <2>1. Len(out \o into) = n + n /\ out \o into \in Seq(Row)
        BY <1>2
    <2>2. DOMAIN (out \o into) = 1 .. (n + n)
        BY <2>1
    <2>3. ASSUME NEW i \in 1 .. n PROVE (out \o into)[i] = out[i]
        BY <1>2, <2>3
    <2>4. ASSUME NEW i \in 1 .. n PROVE (out \o into)[n + i] = into[i]
        <3>1. n + i \in 1 .. (Len(out) + Len(into)) /\ n + i > Len(out) /\ n + i - Len(out) = i
            BY <1>2, <2>4
        <3> QED BY <1>2, <3>1
    <2> QED BY <2>1, <2>2, <2>3, <2>4
<1>6. TwoPhases(out \o into, order, n)
    BY <1>3, <1>5 DEF TwoPhases
<1> QED BY <1>4, <1>6

\* Which of the updates are of one rule.
LEMMA WritesOf ==
    ASSUME NEW order \in Seq(Rule), NEW n \in Nat, n = Len(order),
           \A i, j \in 1 .. n : order[i] = order[j] => i = j,
           NEW j \in 1 .. n, NEW m \in 0 .. (n + n)
    PROVE  {i \in 1 .. m : InTwoPhases(order)[i].rule = order[j]} = {j, n + j} \cap (1 .. m)
<1> DEFINE w == InTwoPhases(order)
<1>1. \A i \in 1 .. n : w[i].rule = order[i] /\ w[n + i].rule = order[i]
    <2>1. TwoPhases(w, order, n)
        BY Writes
    <2> HIDE DEF w
    <2> QED BY <2>1 DEF TwoPhases
<1> HIDE DEF w
<1>2. ASSUME NEW i \in 1 .. (n + n) PROVE w[i].rule = order[j] <=> i = j \/ i = n + j
    <2>1. CASE i \in 1 .. n
        BY <1>1, <2>1
    <2>2. CASE i \notin 1 .. n
        <3>1. i - n \in 1 .. n /\ n + (i - n) = i
            BY <2>2
        <3>2. w[i].rule = order[i - n]
            BY <1>1, <3>1
        <3> QED BY <2>2, <3>1, <3>2
    <2> QED BY <2>1, <2>2
<1> QED BY <1>2 DEF w

\* What a rule's last update among the first m has made of it.
Written(w, order, n, j, m) ==
    After(w, m, order[j]) =
        IF n + j <= m THEN j - 1 ELSE IF j <= m THEN -j ELSE rules[order[j]].priority

LEMMA LastWrite ==
    ASSUME NEW order \in Seq(Rule), NEW n \in Nat, n = Len(order),
           \A i, j \in 1 .. n : order[i] = order[j] => i = j,
           NEW j \in 1 .. n, NEW m \in 0 .. (n + n)
    PROVE  Written(InTwoPhases(order), order, n, j, m)
<1> DEFINE w == InTwoPhases(order)
           mine == {i \in 1 .. m : w[i].rule = order[j]}
           last == CHOOSE i \in mine : \A k \in mine : k <= i
<1>1. mine = {j, n + j} \cap (1 .. m)
    BY WritesOf
<1>2. w[j].priority = -j /\ w[n + j].priority = j - 1
    <2>1. TwoPhases(w, order, n)
        BY Writes
    <2> HIDE DEF w, mine, last
    <2> QED BY <2>1 DEF TwoPhases
<1>3. After(w, m, order[j]) = IF mine = {} THEN rules[order[j]].priority ELSE w[last].priority
    BY DEF After
<1> SUFFICES After(w, m, order[j]) =
                 IF n + j <= m THEN j - 1 ELSE IF j <= m THEN -j ELSE rules[order[j]].priority
    BY DEF Written
<1> HIDE DEF w, mine
<1>4. CASE n + j <= m
    <2>1. n + j \in mine /\ \A k \in mine : k <= n + j
        BY <1>1, <1>4
    <2>2. last = n + j
        BY <1>1, <2>1
    <2> HIDE DEF last
    <2> QED BY <1>2, <1>3, <1>4, <2>1, <2>2
<1>5. CASE ~(n + j <= m) /\ j <= m
    <2>1. mine = {j}
        BY <1>1, <1>5
    <2>2. last = j
        BY <2>1
    <2> HIDE DEF last
    <2> QED BY <1>2, <1>3, <1>5, <2>1, <2>2
<1>6. CASE ~(n + j <= m) /\ ~(j <= m)
    <2>1. mine = {}
        BY <1>1, <1>6
    <2> QED BY <1>3, <1>6, <2>1
<1> QED BY <1>4, <1>5, <1>6

\* A rule that is not reordered keeps its priority.
LEMMA NoWrite ==
    ASSUME NEW order \in Seq(Rule), NEW n \in Nat, n = Len(order),
           NEW r, \A i \in 1 .. n : order[i] # r, NEW m \in 0 .. (n + n)
    PROVE  After(InTwoPhases(order), m, r) = rules[r].priority
<1> DEFINE w == InTwoPhases(order)
<1>1. \A i \in 1 .. n : w[i].rule = order[i] /\ w[n + i].rule = order[i]
    <2>1. TwoPhases(w, order, n)
        BY Writes
    <2> HIDE DEF w
    <2> QED BY <2>1 DEF TwoPhases
<1> HIDE DEF w
<1>2. ASSUME NEW i \in 1 .. m PROVE w[i].rule # r
    <2>1. CASE i \in 1 .. n
        BY <1>1, <2>1
    <2>2. CASE i \notin 1 .. n
        <3>1. i - n \in 1 .. n /\ n + (i - n) = i
            BY <2>2
        <3>2. w[i].rule = order[i - n]
            BY <1>1, <3>1
        <3> QED BY <3>1, <3>2
    <2> QED BY <2>1, <2>2
<1> QED BY <1>2 DEF After, w

LEMMA CommitReorderTyped ==
    ASSUME IInv, Typed, NEW h \in Handler, CommitReorder(h)
    PROVE  Typed'
<1> DEFINE order == tx[h].order
           n == Len(order)
           k == tx[h].type
           w == InTwoPhases(order)
<1>1. /\ Running(h, "reorder") /\ ~Collides(k, w)
      /\ rules' = [r \in Rule |-> IF r \in Locks(h)
                                  THEN [rules[r] EXCEPT !.priority = After(w, Len(w), r)]
                                  ELSE rules[r]]
    BY DEF CommitReorder
<1>2. /\ order \in Seq(Rule) /\ n \in Nat
      /\ \A i, j \in 1 .. n : order[i] = order[j] => i = j
      /\ Locks(h) \subseteq Bucket(k)
    BY <1>1 DEF Typed, WorkOK, OrderOK
<1>3. Locks(h) = {order[i] : i \in 1 .. n}
    BY <1>1, <1>2 DEF Locks, Running
<1>w. n = Len(order)
    OBVIOUS
<1> HIDE DEF order, n, k
<1>p. TwoPhases(w, order, n)
    BY <1>2, <1>w, Writes
<1>4. Len(w) = n + n /\ DOMAIN w = 1 .. (n + n)
    BY <1>p DEF TwoPhases
<1>5. \A i \in 1 .. n : After(w, Len(w), order[i]) = i - 1
    <2> SUFFICES ASSUME NEW i \in 1 .. n PROVE After(w, n + n, order[i]) = i - 1
        BY <1>4
    <2>1. n + n \in 0 .. (n + n) /\ n + i <= n + n
        BY <1>2
    <2>2. Written(w, order, n, i, n + n)
        BY <1>2, <1>w, <2>1, LastWrite
    <2> QED BY <1>2, <2>1, <2>2 DEF Written
<1>6. \A i \in 1 .. n : w[n + i].rule = order[i] /\ w[n + i].priority = i - 1
    BY <1>p DEF TwoPhases
<1>7. ASSUME NEW i \in 1 .. n, NEW q \in Bucket(k), q \notin Locks(h)
      PROVE  rules[q].priority # i - 1
    <2>1. n + i \in 1 .. (n + n)
        BY <1>2
    <2>2. After(w, n + i, q) = rules[q].priority
        BY <1>2, <1>3, <1>7, <2>1, NoWrite DEF n
    <2>3. q \in Bucket(k) \ {w[n + i].rule}
        BY <1>3, <1>6, <1>7
    <2> QED BY <1>1, <1>4, <1>6, <2>1, <2>2, <2>3 DEF Collides
<1> HIDE DEF w
<1>8. \A r \in Rule : Exists(r) => RuleRow(rules[r])
    BY DEF Typed, TypeOK
<1>9. ASSUME NEW i \in 1 .. n
      PROVE  /\ order[i] \in Rule /\ RuleRow(rules'[order[i]]) /\ rules'[order[i]] # None
             /\ rules'[order[i]].type = rules[order[i]].type
             /\ rules'[order[i]].deleted = rules[order[i]].deleted
             /\ rules'[order[i]].priority = i - 1
    <2>1. order[i] \in Locks(h) /\ order[i] \in Rule /\ Exists(order[i])
        BY <1>2, <1>3 DEF Bucket, Undeleted
    <2>2. rules'[order[i]] = [rules[order[i]] EXCEPT !.priority = i - 1]
        BY <1>1, <1>5, <2>1
    <2>3. i - 1 \in Nat /\ RuleRow(rules[order[i]])
        BY <1>2, <1>8, <2>1
    <2> DEFINE new == [rules[order[i]] EXCEPT !.priority = i - 1]
    <2>4. /\ RuleRow(new) /\ new.priority = i - 1
          /\ new.type = rules[order[i]].type /\ new.deleted = rules[order[i]].deleted
        BY <2>3, RowPut
    <2>5. rules'[order[i]] = new
        BY <2>2
    <2> HIDE DEF new
    <2>6. new # None
        BY <2>4, RowFacts, RowIsSome
    <2> QED BY <2>1, <2>4, <2>5, <2>6
<1>10. \A r \in Rule : r \notin Locks(h) => rules'[r] = rules[r]
    BY <1>1
<1>11. \A r \in Rule : /\ Exists(r)' => RuleRow(rules'[r])
                       /\ Exists(r) => rules'[r] # None /\ rules'[r].type = rules[r].type
                       /\ Undeleted(r)' <=> Undeleted(r)
    BY <1>2, <1>3, <1>8, <1>9, <1>10 DEF Exists, Undeleted, Bucket
<1>12. SlotsApart'
    <2> SUFFICES ASSUME NEW t \in Type, NEW p \in Bucket(t)', NEW q \in Bucket(t)', p # q
                 PROVE  rules'[p].priority # rules'[q].priority
        BY DEF SlotsApart
    <2>1. p \in Bucket(t) /\ q \in Bucket(t)
        BY <1>11 DEF Bucket, Undeleted
    <2>2. CASE p \in Locks(h) /\ q \in Locks(h)
        <3>1. PICK i \in 1 .. n, j \in 1 .. n : p = order[i] /\ q = order[j]
            BY <1>3, <2>2
        <3> QED BY <1>2, <1>9, <3>1
    <2>3. CASE p \in Locks(h) /\ q \notin Locks(h)
        <3>1. PICK i \in 1 .. n : p = order[i]
            BY <1>3, <2>3
        <3>2. t = k
            BY <1>2, <2>1, <2>3 DEF Bucket
        <3> QED BY <1>7, <1>9, <1>10, <2>1, <2>3, <3>1, <3>2 DEF Bucket
    <2>4. CASE p \notin Locks(h) /\ q \in Locks(h)
        <3>1. PICK i \in 1 .. n : q = order[i]
            BY <1>3, <2>4
        <3>2. t = k
            BY <1>2, <2>1, <2>4 DEF Bucket
        <3> QED BY <1>7, <1>9, <1>10, <2>1, <2>4, <3>1, <3>2 DEF Bucket
    <2>5. CASE p \notin Locks(h) /\ q \notin Locks(h)
        BY <1>10, <2>1, <2>5 DEF Typed, TypeOK, Bucket
    <2> QED BY <2>2, <2>3, <2>4, <2>5
<1> QED BY <1>11, <1>12, EditTyped DEF CommitReorder, Exists

-----------------------------------------------------------------------------
(* What people do leaves the rules alone.                                  *)

LEMMA PeopleTyped ==
    ASSUME IInv, Typed, UNCHANGED <<rules, ops>>,
           \A h \in Handler : WorkOK(h)',
           \A x \in Record : records'[x] # None => records'[x] \in RecordRow,
           active' \subseteq Rep, default' \in SomeRep, profiles' \subseteq Customer,
           crossed' \subseteq Rep
    PROVE  Typed'
BY DEF Typed, TypeOK, Exists, Bucket, Undeleted

\* A request that goes on, beside rules that nobody changes.
LEMMA WorkKept ==
    ASSUME UNCHANGED rules, NEW h, WorkOK(h), tx'[h] = tx[h]
    PROVE  WorkOK(h)'
BY DEF WorkOK, OrderOK, Running, Locks, Bucket, Undeleted, Exists

LEMMA SetDefaultTyped ==
    ASSUME IInv, Typed, SetDefault
    PROVE  Typed'
<1>1. \A h \in Handler : WorkOK(h)'
    BY WorkKept DEF Typed, SetDefault
<1> QED BY <1>1, PeopleTyped DEF SetDefault, Typed, TypeOK

\* A record with another rep.
LEMMA ReassignedTyped ==
    ASSUME NEW row \in RecordRow, NEW rep \in SomeRep, NEW how \in {"assigned", "handed_over"}
    PROVE  Reassigned(row, rep, how) \in RecordRow
BY DEF Reassigned, RecordRow

LEMMA AssignTyped ==
    ASSUME IInv, Typed, NEW x \in Record, Assign(x)
    PROVE  Typed'
<1>1. PICK rep \in SomeRep : records' = [records EXCEPT ![x] = Reassigned(records[x], rep, "assigned")]
    BY DEF Assign, Reassigned
<1>2. records[x] \in RecordRow
    BY DEF Assign, Typed, TypeOK
<1>3. Reassigned(records[x], rep, "assigned") \in RecordRow
    BY <1>2, ReassignedTyped
<1>4. \A y \in Record : records'[y] # None => records'[y] \in RecordRow
    BY <1>1, <1>3 DEF IInv, RowsOK, Typed, TypeOK
<1>5. \A h \in Handler : WorkOK(h)'
    BY WorkKept DEF Typed, Assign
<1> QED BY <1>4, <1>5, PeopleTyped DEF Assign, Typed, TypeOK

LEMMA BeginDeactivateTyped ==
    ASSUME IInv, Typed, NEW h \in Handler, BeginDeactivate(h)
    PROVE  Typed'
<1>1. PICK u \in active, v \in SomeRep :
           Begin(h, [op |-> "deactivate", user |-> u, to |-> v, open |-> Holding(u)])
    BY DEF BeginDeactivate
<1> DEFINE t == [op |-> "deactivate", user |-> u, to |-> v, open |-> Holding(u)]
<1>2. t.op = "deactivate" /\ t.user = u /\ t.to = v
    OBVIOUS
<1> HIDE DEF t
<1>3. tx'[h] = t
    BY <1>1, OtherRequests DEF Begin, t
<1>4. u \in Rep
    BY DEF Typed, TypeOK
<1>5. WorkOK(h)'
    BY <1>2, <1>3, <1>4, PatchFacts DEF WorkOK, Running
<1> QED BY <1>1, <1>5, BeginTyped DEF t

LEMMA CommitDeactivateTyped ==
    ASSUME IInv, Typed, NEW h \in Handler, CommitDeactivate(h)
    PROVE  Typed'
<1> DEFINE to == tx[h].to
           open == tx[h].open
<1>1. /\ Running(h, "deactivate")
      /\ records' = [x \in Record |->
                        IF to # "none" /\ x \in open
                        THEN Reassigned(records[x], to, "handed_over")
                        ELSE records[x]]
      /\ UNCHANGED <<rules, default, profiles, ops>> /\ active' \subseteq active
    BY DEF CommitDeactivate, Reassigned
<1>2. /\ to \in SomeRep
      /\ \A x \in open : x \in Record /\ records[x] # None
    BY <1>1 DEF IInv, HandsOK, Typed, WorkOK
<1> HIDE DEF to, open
<1>3. \A x \in Record : records[x] # None => records[x] \in RecordRow
    BY DEF Typed, TypeOK
<1>4. \A x \in Record : records'[x] # None => records'[x] \in RecordRow
    BY <1>1, <1>2, <1>3, ReassignedTyped
<1>5. \A k \in Handler : Running(k, "deactivate") => tx[k].user \in Rep
    BY DEF Typed, WorkOK
<1>6. crossed' \subseteq Rep
    <2> DEFINE both == {k \in Handler : Running(k, "deactivate")}
    <2>1. crossed' = crossed \/ crossed' = crossed \cup {tx[k].user : k \in both}
        BY DEF CommitDeactivate
    <2>2. {tx[k].user : k \in both} \subseteq Rep
        BY <1>5
    <2> HIDE DEF both
    <2> QED BY <2>1, <2>2 DEF Typed, TypeOK
<1>7. tx'[h] = Idle /\ \A k \in Handler \ {h} : tx'[k] = tx[k]
    BY OtherRequests DEF CommitDeactivate, Done
<1>8. \A k \in Handler : WorkOK(k)'
    <2>1. WorkOK(h)'
        BY <1>7, PatchFacts DEF WorkOK, Running, Idle
    <2>2. \A k \in Handler \ {h} : WorkOK(k)'
        BY <1>1, <1>7, WorkKept DEF Typed
    <2> QED BY <2>1, <2>2
<1> QED BY <1>1, <1>4, <1>6, <1>8, PeopleTyped DEF Typed, TypeOK

-----------------------------------------------------------------------------
\* What rows and requests hold, in every behaviour.
LEMMA AlwaysTyped == Spec => []Typed
<1>1. Init => Typed
    BY InitTyped
<1>2. IInv /\ Typed /\ [Next]_vars => Typed'
    <2> SUFFICES ASSUME IInv, Typed, [Next]_vars PROVE Typed'
        OBVIOUS
    <2>1. ASSUME NEW h \in Handler, Intake(h) PROVE Typed'
        BY <2>1, BeginIntakeTyped, ClaimTyped, CommitIntakeTyped DEF Intake
    <2>2. ASSUME NEW h \in Handler, Edit(h) PROVE Typed'
        BY <2>2, BeginCreateTyped, CommitCreateTyped, BeginUpdateTyped, CommitUpdateTyped,
           BeginDeleteTyped, CommitDeleteTyped, BeginReorderTyped, CommitReorderTyped DEF Edit
    <2>3. ASSUME NEW h \in Handler, BeginDeactivate(h) PROVE Typed'
        BY <2>3, BeginDeactivateTyped
    <2>4. ASSUME NEW h \in Handler, CommitDeactivate(h) PROVE Typed'
        BY <2>4, CommitDeactivateTyped
    <2>5. ASSUME NEW h \in Handler, Rollback(h) PROVE Typed'
        BY <2>5, RollbackTyped
    <2>6. ASSUME SetDefault PROVE Typed'
        BY <2>6, SetDefaultTyped
    <2>7. ASSUME NEW x \in Record, Assign(x) PROVE Typed'
        BY <2>7, AssignTyped
    <2>8. CASE UNCHANGED vars
        <3>1. TypeOK' /\ \A h \in Handler : WorkOK(h)'
            BY <2>8, TypeKept, WorkKept DEF vars, Typed
        <3> QED BY <3>1 DEF Typed
    <2> QED BY <2>1, <2>2, <2>3, <2>4, <2>5, <2>6, <2>7, <2>8 DEF Next
<1> QED BY <1>1, <1>2, Inductive, PTL DEF Spec

\* Rows hold what their columns admit, and migration 017's index is never broken: no
\* two rules of a type have one priority, whatever creations, updates, deletions and
\* reorders overlap.
THEOREM TypeCorrect == Spec => []TypeOK
<1>1. Typed => TypeOK
    BY DEF Typed
<1> QED BY <1>1, AlwaysTyped, PTL

\* The two phases of reorder_priorities never meet the unique index among the rules
\* that the request has locked.
LEMMA PhasesFit ==
    ASSUME NEW order \in Seq(Rule), NEW n \in Nat, n = Len(order),
           \A i, j \in 1 .. n : order[i] = order[j] => i = j,
           NEW k, \A r \in Bucket(k) : rules[r].priority \in Nat /\ \E j \in 1 .. n : r = order[j]
    PROVE  ~Collides(k, InTwoPhases(order))
<1> DEFINE w == InTwoPhases(order)
<1>p. TwoPhases(w, order, n)
    BY Writes
<1>1. DOMAIN w = 1 .. (n + n)
    BY <1>p DEF TwoPhases
<1>2. \A i \in 1 .. n : w[i].rule = order[i] /\ w[i].priority = -i
    BY <1>p DEF TwoPhases
<1>3. \A i \in 1 .. n : w[n + i].rule = order[i] /\ w[n + i].priority = i - 1
    BY <1>p DEF TwoPhases
<1>4. \A j \in 1 .. n : \A m \in 0 .. (n + n) :
          After(w, m, order[j]) =
              IF n + j <= m THEN j - 1 ELSE IF j <= m THEN -j ELSE rules[order[j]].priority
    <2> SUFFICES ASSUME NEW j \in 1 .. n, NEW m \in 0 .. (n + n)
                 PROVE  After(w, m, order[j]) =
                            IF n + j <= m THEN j - 1 ELSE IF j <= m THEN -j ELSE rules[order[j]].priority
        OBVIOUS
    <2>1. Written(w, order, n, j, m)
        BY LastWrite
    <2> HIDE DEF w
    <2> QED BY <2>1 DEF Written
<1> HIDE DEF w
<1>5. ASSUME NEW m \in 1 .. (n + n), NEW r \in Bucket(k), r # w[m].rule
      PROVE  After(w, m, r) # w[m].priority
    <2>1. PICK j \in 1 .. n : r = order[j]
        BY <1>5
    <2>2. After(w, m, r) =
              IF n + j <= m THEN j - 1 ELSE IF j <= m THEN -j ELSE rules[r].priority
        BY <1>4, <2>1
    <2>3. CASE m \in 1 .. n
        BY <1>2, <1>5, <2>1, <2>2, <2>3
    <2>4. CASE m \notin 1 .. n
        <3>1. PICK i \in 1 .. n : m = n + i
            <4>1. m - n \in 1 .. n /\ m = n + (m - n)
                BY <2>4
            <4> QED BY <4>1
        <3>2. i # j /\ w[m].priority = i - 1
            BY <1>3, <1>5, <2>1, <3>1
        <3>3. After(w, m, r) = IF j <= i THEN j - 1 ELSE -j
            BY <2>2, <3>1
        <3> QED BY <3>2, <3>3
    <2> QED BY <2>3, <2>4
<1>6. ~Collides(k, w)
    BY <1>1, <1>5 DEF Collides
<1> QED BY <1>6 DEF w

\* A reorder that cannot be written has met a rule created after it locked its bucket.
THEOREM ReordersFit == Spec => []ReorderFits
<1>1. Typed => ReorderFits
    <2> SUFFICES ASSUME Typed, NEW h \in Handler, Running(h, "reorder"),
                        Bucket(tx[h].type) = Locks(h)
                 PROVE  ~Collides(tx[h].type, InTwoPhases(tx[h].order))
        BY DEF ReorderFits
    <2> DEFINE order == tx[h].order
               n == Len(order)
    <2>1. /\ order \in Seq(Rule) /\ n \in Nat
          /\ \A i, j \in 1 .. n : order[i] = order[j] => i = j
        BY DEF Typed, WorkOK, OrderOK
    <2>2. Locks(h) = {order[i] : i \in 1 .. n}
        BY <2>1 DEF Locks, Running
    <2>3. \A r \in Bucket(tx[h].type) : rules[r].priority \in Nat
        <3>1. \A r \in Bucket(tx[h].type) : RuleRow(rules[r])
            BY DEF Typed, TypeOK, Bucket, Undeleted
        <3> QED BY <3>1, RowFacts
    <2>4. \A r \in Bucket(tx[h].type) : \E j \in 1 .. n : r = order[j]
        BY <2>2
    <2> QED BY <2>1, <2>3, <2>4, PhasesFit
<1> QED BY <1>1, AlwaysTyped, PTL
=============================================================================
