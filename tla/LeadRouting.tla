---------------------------- MODULE LeadRouting ----------------------------
(***************************************************************************)
(* Intake and lead routing: a customer's submission gets a record and, by  *)
(* the rules of lead_routing_rules, a sales rep (lead_routing_service,     *)
(* equipment_service.submit_intake), while administrators edit and reorder *)
(* the rules, managers reassign records, and reps are deactivated          *)
(* (admin_user_service).                                                   *)
(*                                                                         *)
(* A request reads in its Begin step and writes in its Commit step.  Row   *)
(* locks are held from the step that takes them to the end of the request: *)
(* the UPDATE of a rule's position (Claim) and the SELECT ... FOR UPDATE of*)
(* a reorder.  An intake's failure after its claim gives the turn back.    *)
(* Jobs and audit rows feed back into nothing here and are left out.       *)
(***************************************************************************)
EXTENDS Integers, Sequences, FiniteSets

CONSTANTS
    Handler,     \* requests that run at once
    Rep,         \* users with a sales role
    Customer,    \* customers, with what the rules ask about them:
    Domain, State, Zip, Place,   \* functions on Customer
    Record,      \* rows of equipment_records
    Rule,        \* rows of lead_routing_rules
    Conditions,  \* the conditions an administrator enters, by type of rule
    Priority,    \* the priorities he enters
    Assignee,    \* the reps he enters, or "none"
    Scenario,    \* which requests occur together in one behaviour
    Seed,        \* the rules there are at first, by scenario
    MaxTurn      \* how often a rotation turns

Type == {"ad_hoc", "geographic", "round_robin"}
Patches == {"priority", "conditions", "rep", "active"}    \* what update_rule may set
AllOps == Patches \cup {"intake", "create", "delete", "reorder", "deactivate", "assign", "default"}

ASSUME ScenarioAssumption == Scenario \subseteq SUBSET AllOps
ASSUME BoundAssumption == MaxTurn \in Nat /\ Priority \subseteq Nat
ASSUME RuleAssumption == IsFiniteSet(Rule)
ASSUME AssigneeAssumption == Assignee \subseteq Rep \cup {"none"}
ASSUME NoneAssumption == "none" \notin Rep \cup Rule \cup Customer \cup Record

VARIABLES
    rules,      \* lead_routing_rules
    active,     \* the reps whose account is active
    default,    \* the setting default_sales_rep_id
    profiles,   \* the customers with a customers row
    records,    \* equipment_records, with the outcome the audit row keeps
    crossed,    \* reps whose deactivation ran at the same time as another
    tx,         \* the request each handler runs
    ops         \* the scenario: the requests that occur

vars == <<rules, active, default, profiles, records, crossed, tx, ops>>

None == [none |-> TRUE]
SomeRep == Rep \cup {"none"}

\* The conditions of a rule are those of its type (parse_conditions).
RulesOf(t) == [type : {t}, priority : Nat, conditions : Conditions[t], rep : SomeRep,
               index : 0..MaxTurn, active : BOOLEAN, deleted : BOOLEAN]
RuleRow(row) == \E t \in Type : row \in RulesOf(t)

ASSUME SeedAssumption ==
    \A s \in Scenario :
        /\ DOMAIN Seed[s] \subseteq Rule
        /\ \A r \in DOMAIN Seed[s] : RuleRow(Seed[s][r]) /\ Seed[s][r].index = 0
        /\ \A r, q \in DOMAIN Seed[s] :
               r # q => \/ Seed[s][r].type # Seed[s][q].type
                        \/ Seed[s][r].priority # Seed[s][q].priority

\* A rotation lists users, and nothing checks that they are reps.
Listed == UNION {{c.rep_ids[i] : i \in DOMAIN c.rep_ids} : c \in Conditions["round_robin"]}

ASSUME RotationAssumption == \A c \in Conditions["round_robin"] : c.rep_ids \in Seq(Listed)

\* The rule that fired and, for a rotation, its turn; `how` the rep came to it.
Decision == [rep : SomeRep \cup Listed, rule : Rule \cup {"none"}, turn : 0..MaxTurn]
RecordRow == [customer : Customer, rep : SomeRep \cup Listed, rule : Rule \cup {"none"},
              turn : 0..MaxTurn, how : {"routed", "assigned", "handed_over"}]

Undecided == [rep |-> "none", rule |-> "none", turn |-> 0]
Idle == [op |-> "idle"]

Exists(r) == rules[r] # None
Undeleted(r) == Exists(r) /\ ~rules[r].deleted
Bucket(t) == {r \in Rule : Undeleted(r) /\ rules[r].type = t}

\* The rows hold values of their types, and no two rules that are not deleted
\* share a type and a priority (migration 017).
TypeOK ==
    /\ \A r \in Rule : Exists(r) => RuleRow(rules[r])
    /\ \A t \in Type : \A r, q \in Bucket(t) :
           r # q => rules[r].priority # rules[q].priority
    /\ active \subseteq Rep
    /\ default \in SomeRep
    /\ profiles \subseteq Customer
    /\ \A x \in Record : records[x] # None => records[x] \in RecordRow
    /\ crossed \subseteq Rep
    /\ ops \in Scenario

Init ==
    /\ ops \in Scenario
    /\ rules = [r \in Rule |-> IF r \in DOMAIN Seed[ops] THEN Seed[ops][r] ELSE None]
    /\ active = Rep
    /\ default = "none"
    /\ profiles = {}
    /\ records = [x \in Record |-> None]
    /\ crossed = {}
    /\ tx = [h \in Handler |-> Idle]

-----------------------------------------------------------------------------
(* The matchers                                                            *)

\* A rule for one customer, or for the addresses of one domain.
AdHocMatches(cond, c) ==
    IF cond.condition_type = "customer_id" THEN cond.value = c ELSE cond.value = Domain[c]

\* A code is the range of itself.
ZipEntryMatches(entry, zip) == entry[1] <= zip /\ zip <= entry[2]

\* States, ZIP codes or ranges of them.
GeoMatches(cond, c) ==
    \/ State[c] \in cond.state_list
    \/ \E entry \in cond.zip_list : ZipEntryMatches(entry, Zip[c])

\* The geocoder's answer is within the radius of a centre; for an address it does
\* not know there is none.  One dimension stands for the haversine distance.
MetroMatches(cond, places) ==
    /\ cond.radius > 0
    /\ \E place \in places : cond.center - cond.radius <= place /\ place <= cond.center + cond.radius

Matches(rule, c) ==
    CASE rule.type = "ad_hoc" -> AdHocMatches(rule.conditions, c)
      [] rule.type = "geographic" -> \/ GeoMatches(rule.conditions, c)
                                     \/ MetroMatches(rule.conditions, Place[c])
      [] rule.type = "round_robin" -> rule.conditions.rep_ids # <<>>

\* Mutant: the first turn is the second rep's.
RepAtZero(reps, turn) == reps[(turn % Len(reps)) + 1]

\* Turns are counted from 1, sequences too: turn 1 is the first rep's.
RepAt(reps, turn) == reps[((turn - 1) % Len(reps)) + 1]

-----------------------------------------------------------------------------
(* The waterfall                                                           *)

Candidates(t, c) ==
    {r \in Bucket(t) : rules[r].active /\ Matches(rules[r], c)
                       /\ (t # "round_robin" => rules[r].rep # "none")}

Foremost(S) == {r \in S : \A q \in S : rules[r].priority <= rules[q].priority}

\* The rules that may fire.  Ad hoc rules are taken in the order of an unsorted
\* SELECT, the others by ascending priority.
Firing(c) ==
    IF Candidates("ad_hoc", c) # {} THEN Candidates("ad_hoc", c)
    ELSE IF Candidates("geographic", c) # {} THEN Foremost(Candidates("geographic", c))
    ELSE Foremost(Candidates("round_robin", c))

\* test_rule: would the rule match, and whom would it name, without a claim?
TestRule(r, c) ==
    IF rules[r].type = "round_robin"
    THEN [matched |-> rules[r].conditions.rep_ids # <<>>,
          rep |-> LET reps == rules[r].conditions.rep_ids
                  IN  IF reps = <<>> THEN "none"
                      ELSE reps[(rules[r].index % Len(reps)) + 1]]
    ELSE [matched |-> Matches(rules[r], c),
          rep |-> IF Matches(rules[r], c) THEN rules[r].rep ELSE "none"]

-----------------------------------------------------------------------------
(* Requests                                                                *)

Running(h, op) == tx[h].op = op
Done(h) == tx' = [tx EXCEPT ![h] = Idle]
Begin(h, t) ==
    /\ t.op \in ops
    /\ tx[h] = Idle
    /\ tx' = [tx EXCEPT ![h] = t]
    /\ UNCHANGED <<rules, active, default, profiles, records, crossed, ops>>

\* The row locks of a request.
Locks(h) ==
    CASE Running(h, "intake") -> IF tx[h].decision.turn > 0 THEN {tx[h].decision.rule} ELSE {}
      [] Running(h, "reorder") -> {tx[h].order[i] : i \in DOMAIN tx[h].order}
      [] OTHER -> {}
Free(h, rows) == \A k \in Handler \ {h} : Locks(k) \cap rows = {}

\* Where no rule fires the setting decides, whoever it names.
ByDefault == [Undecided EXCEPT !.rep = default]

\* submit_intake reads the profile and the rules.  An exception in the matching is
\* caught and leaves the record to the manager.
BeginIntake(h) ==
    \E c \in Customer :
        LET intake(d, reps) == [op |-> "intake", customer |-> c, insert |-> c \notin profiles,
                                decision |-> d, reps |-> reps] IN
        \/ Begin(h, intake(Undecided, <<>>))
        \/ \E r \in Firing(c) :
               IF rules[r].type = "round_robin"
               THEN Begin(h, intake([Undecided EXCEPT !.rule = r], rules[r].conditions.rep_ids))
               ELSE Begin(h, intake([rep |-> rules[r].rep, rule |-> r, turn |-> 0], <<>>))
        \/ /\ Firing(c) = {}
           /\ Begin(h, intake(ByDefault, <<>>))

MustClaim(h) == tx[h].reps # <<>> /\ tx[h].decision.turn = 0

\* Mutant: the position is read without a lock, and written back later.
ClaimUnlocked(h) ==
    /\ Running(h, "intake")
    /\ MustClaim(h)
    /\ LET r == tx[h].decision.rule
           turn == rules[r].index + 1 IN
       /\ turn <= MaxTurn
       /\ tx' = [tx EXCEPT ![h].decision = [rep |-> RepAt(tx[h].reps, turn), rule |-> r, turn |-> turn]]
    /\ UNCHANGED <<rules, active, default, profiles, records, crossed, ops>>

\* _claim_next_round_robin: UPDATE ... RETURNING takes the row lock and the next
\* turn, and the rep of the list that was read before.
Claim(h) ==
    /\ Running(h, "intake")
    /\ MustClaim(h)
    /\ LET r == tx[h].decision.rule
           turn == rules[r].index + 1 IN
       /\ Free(h, {r})
       /\ turn <= MaxTurn
       /\ tx' = [tx EXCEPT ![h].decision = [rep |-> RepAt(tx[h].reps, turn), rule |-> r, turn |-> turn]]
    /\ UNCHANGED <<rules, active, default, profiles, records, crossed, ops>>

\* The rows that are still free: a new record gets a reference of its own.
Unused == {x \in Record : records[x] = None}

\* The record, the profile and the rotation's position are committed together; a
\* profile that another intake has inserted meanwhile undoes it all.
CommitIntake(h) ==
    /\ Running(h, "intake")
    /\ ~MustClaim(h)
    /\ tx[h].insert => tx[h].customer \notin profiles
    /\ LET d == tx[h].decision IN
       /\ \E x \in Unused :
              records' = [records EXCEPT ![x] = [customer |-> tx[h].customer, rep |-> d.rep,
                              rule |-> d.rule, turn |-> d.turn, how |-> "routed"]]
       /\ rules' = IF d.turn > 0 THEN [rules EXCEPT ![d.rule].index = d.turn] ELSE rules
    /\ profiles' = profiles \cup {tx[h].customer}
    /\ Done(h)
    /\ UNCHANGED <<active, default, crossed, ops>>

\* An integrity error, or the end of the process: nothing is written.
Rollback(h) ==
    /\ tx[h] # Idle
    /\ Done(h)
    /\ UNCHANGED <<rules, active, default, profiles, records, crossed, ops>>

-----------------------------------------------------------------------------
(* Rules                                                                   *)

SlotFree(t, p, except) == \A r \in Bucket(t) \ {except} : rules[r].priority # p

\* create_rule looks at the slot and answers 409 when it is taken ...
BeginCreate(h) ==
    \E t \in Type, p \in Priority, rep \in Assignee :
        /\ SlotFree(t, p, "none")
        /\ \E cond \in Conditions[t] :
               Begin(h, [op |-> "create", row |-> [type |-> t, priority |-> p, conditions |-> cond,
                             rep |-> rep, index |-> 0, active |-> TRUE, deleted |-> FALSE]])

\* Mutant: nobody looks at the slot again.
CommitCreateUnindexed(h) ==
    /\ Running(h, "create")
    /\ LET row == tx[h].row IN
       /\ \E r \in Rule : ~Exists(r) /\ rules' = [rules EXCEPT ![r] = row]
    /\ Done(h)
    /\ UNCHANGED <<active, default, profiles, records, crossed, ops>>

\* ... and the unique index looks again.
CommitCreate(h) ==
    /\ Running(h, "create")
    /\ LET row == tx[h].row IN
       /\ SlotFree(row.type, row.priority, "none")
       /\ \E r \in Rule : ~Exists(r) /\ rules' = [rules EXCEPT ![r] = row]
    /\ Done(h)
    /\ UNCHANGED <<active, default, profiles, records, crossed, ops>>

\* update_rule, one field at a time: the ORM writes the columns that differ from
\* what it read.  A request that changes nothing is no step.
BeginUpdate(h) ==
    \E r \in Rule :
        /\ Undeleted(r)
        /\ LET update(field, value) ==
                   /\ rules[r][field] # value
                   /\ Begin(h, [op |-> field, rule |-> r, patch |-> [f \in {field} |-> value]]) IN
           \/ \E p \in Priority : SlotFree(rules[r].type, p, r) /\ update("priority", p)
           \/ \E cond \in Conditions[rules[r].type] : update("conditions", cond)
           \/ \E rep \in Assignee : update("rep", rep)
           \/ \E flag \in BOOLEAN : update("active", flag)

\* The UPDATE waits for the row; the index looks at the priority again.
CommitUpdate(h) ==
    /\ tx[h].op \in Patches
    /\ LET r == tx[h].rule
           patch == tx[h].patch IN
       /\ Free(h, {r})
       /\ "priority" \in DOMAIN patch /\ Undeleted(r) => SlotFree(rules[r].type, patch.priority, r)
       /\ rules' = [rules EXCEPT ![r] =
                        [f \in DOMAIN @ |-> IF f \in DOMAIN patch THEN patch[f] ELSE @[f]]]
    /\ Done(h)
    /\ UNCHANGED <<active, default, profiles, records, crossed, ops>>

\* soft_delete_rule
BeginDelete(h) ==
    \E r \in Rule : Undeleted(r) /\ Begin(h, [op |-> "delete", rule |-> r])

CommitDelete(h) ==
    /\ Running(h, "delete")
    /\ LET r == tx[h].rule IN
       /\ Free(h, {r})
       /\ rules' = [rules EXCEPT ![r].deleted = TRUE, ![r].active = FALSE]
    /\ Done(h)
    /\ UNCHANGED <<active, default, profiles, records, crossed, ops>>

\* The orders of a set: as many as there are, and none twice.
Orders(S) == {f \in [1..Cardinality(S) -> S] : \A i, j \in DOMAIN f : f[i] = f[j] => i = j}

\* reorder_priorities locks the bucket and refuses a list that is not all of it.
BeginReorder(h) ==
    \E t \in Type :
        /\ Bucket(t) # {}
        /\ Free(h, Bucket(t))
        /\ \E order \in Orders(Bucket(t)) : Begin(h, [op |-> "reorder", type |-> t, order |-> order])

\* Mutant: the rows get their new priorities at once.
InOnePhase(order) == [i \in DOMAIN order |-> [rule |-> order[i], priority |-> i - 1]]

\* The row updates of a reorder, in their order: out of the way, then into place.
InTwoPhases(order) ==
    [i \in DOMAIN order |-> [rule |-> order[i], priority |-> -i]]
        \o [i \in DOMAIN order |-> [rule |-> order[i], priority |-> i - 1]]

\* The priority of r after the first n of the updates.
After(writes, n, r) ==
    LET mine == {i \in 1..n : writes[i].rule = r}
    IN  IF mine = {} THEN rules[r].priority
        ELSE writes[CHOOSE i \in mine : \A j \in mine : j <= i].priority

\* The unique index looks after every one of them.
Collides(t, writes) ==
    \E n \in DOMAIN writes : \E r \in Bucket(t) \ {writes[n].rule} :
        After(writes, n, r) = writes[n].priority

CommitReorder(h) ==
    /\ Running(h, "reorder")
    /\ LET writes == InTwoPhases(tx[h].order) IN
       /\ ~Collides(tx[h].type, writes)
       /\ rules' = [r \in Rule |-> IF r \in Locks(h)
                                   THEN [rules[r] EXCEPT !.priority = After(writes, Len(writes), r)]
                                   ELSE rules[r]]
    /\ Done(h)
    /\ UNCHANGED <<active, default, profiles, records, crossed, ops>>

\* The setting is validated as a user id, and no more.
SetDefault ==
    /\ "default" \in ops
    /\ default' \in SomeRep \ {default}
    /\ UNCHANGED <<rules, active, profiles, records, crossed, tx, ops>>

-----------------------------------------------------------------------------
(* People                                                                  *)

\* apply_assignment: a sales role is asked for, an active account is not.
Assign(x) ==
    /\ "assign" \in ops
    /\ records[x] # None
    /\ \E rep \in SomeRep \ {records[x].rep} :
           records' = [records EXCEPT ![x].rep = rep, ![x].how = "assigned"]
    /\ UNCHANGED <<rules, active, default, profiles, crossed, tx, ops>>

Holding(u) == {x \in Record : records[x] # None /\ records[x].rep = u}

\* Mutant: the one who takes over need not be active.
MayTakeOverAnyone(u, v) == u # v

\* _resolve_reassignee: somebody else, and active.
MayTakeOver(u, v) == u # v /\ v \in active

\* deactivate_user: open work needs somebody to take it over.
BeginDeactivate(h) ==
    \E u \in active, v \in SomeRep :
        /\ v = "none" => Holding(u) = {}
        /\ v # "none" => MayTakeOver(u, v)
        /\ Begin(h, [op |-> "deactivate", user |-> u, to |-> v, open |-> Holding(u)])

\* The records that were read are moved, whoever has them by now.
CommitDeactivate(h) ==
    /\ Running(h, "deactivate")
    /\ records' = [x \in Record |->
                      IF tx[h].to # "none" /\ x \in tx[h].open
                      THEN [records[x] EXCEPT !.rep = tx[h].to, !.how = "handed_over"]
                      ELSE records[x]]
    /\ active' = active \ {tx[h].user}
    /\ crossed' = IF \E k \in Handler \ {h} : Running(k, "deactivate")
                  THEN crossed \cup {tx[k].user : k \in {k \in Handler : Running(k, "deactivate")}}
                  ELSE crossed
    /\ Done(h)
    /\ UNCHANGED <<rules, default, profiles, ops>>

-----------------------------------------------------------------------------
Intake(h) == BeginIntake(h) \/ Claim(h) \/ CommitIntake(h)
Edit(h) ==
    \/ BeginCreate(h) \/ CommitCreate(h) \/ BeginUpdate(h) \/ CommitUpdate(h)
    \/ BeginDelete(h) \/ CommitDelete(h) \/ BeginReorder(h) \/ CommitReorder(h)

Next ==
    \/ \E h \in Handler :
        \/ Intake(h) \/ Edit(h) \/ BeginDeactivate(h) \/ CommitDeactivate(h) \/ Rollback(h)
    \/ SetDefault
    \/ \E x \in Record : Assign(x)

Spec == Init /\ [][Next]_vars

-----------------------------------------------------------------------------
\* "Concurrent intakes don't double-assign or skip": the records a rotation gave
\* out have the turns 1 to its position, each once, whatever was rolled back.
TurnsExact ==
    \A r \in Rule :
        LET mine == {x \in Record : records[x] # None /\ records[x].rule = r /\ records[x].turn > 0}
        IN  Exists(r) => /\ {records[x].turn : x \in mine} = 1..rules[r].index
                         /\ \A x, y \in mine : records[x].turn = records[y].turn => x = y

\* test_rule "mirrors the runtime match logic": for the rule that would fire now,
\* it answers a match, and names the rep the intake would get.
TestPredicts ==
    \A c \in Customer : \A r \in Firing(c) :
        TestRule(r, c) = [matched |-> TRUE,
                          rep |-> IF rules[r].type = "round_robin"
                                  THEN RepAt(rules[r].conditions.rep_ids, rules[r].index + 1)
                                  ELSE rules[r].rep]

\* Two phases "never violate the partial UNIQUE index mid-renumber": a reorder
\* that cannot be written has met a rule created after it locked the bucket.
ReorderFits ==
    \A h \in Handler :
        Running(h, "reorder") /\ Collides(tx[h].type, InTwoPhases(tx[h].order))
            => Bucket(tx[h].type) # Locks(h)

\* Deactivation hands work to "an active user": it is with somebody deactivated
\* afterwards only where two deactivations crossed.
HandedToActive ==
    \A x \in Record :
        records[x] # None /\ records[x].how = "handed_over" /\ records[x].rep # "none"
            => records[x].rep \in active \cup crossed
=============================================================================
