------------------------------ MODULE Appraisal ------------------------------
(***************************************************************************)
(* An appraiser's submission (appraisal_submission_service) with its red   *)
(* flags (red_flag_service), score (scoring_service) and photos            *)
(* (appraisal_photo_service), filled in while the catalog is edited.       *)
(*                                                                         *)
(* submit holds the submission's row from its first read to its commit;    *)
(* what another request writes to it, or inserts with a reference to it,   *)
(* waits for that.  What submit reads of the catalog it reads in several   *)
(* statements, and nothing holds the catalog still.                        *)
(*                                                                         *)
(* Scores are kept in hundredths.  One column, value, stands for those the *)
(* rules look at, one flag for what rules do, and the mails and the        *)
(* record's status are left to other modules.                              *)
(***************************************************************************)
EXTENDS Catalog, FiniteSetsExt

CONSTANTS
    Field,         \* requests of appraisers that run at once
    Submission,    \* rows of appraisal_submissions
    Raw,           \* component scores, in hundredths
    Photo          \* photo rows, by their ids

AppraisalOps == {"category", "draft", "score", "submit", "photo"}

ASSUME ScenarioAssumption ==
    Scenario \subseteq [ops : SUBSET (CatalogOps \cup AppraisalOps), admins : Nat, fields : Nat]
ASSUME RawAssumption == Raw \subseteq 0..500 /\ Weight \subseteq Nat
ASSUME FieldAssumption == IsFiniteSet(Field)

VARIABLES
    subs,       \* appraisal_submissions with their scores and live photos
    work,       \* the request each of Field runs
    crossed     \* submissions two requests worked on at once

fieldVars == <<subs, work, crossed>>
vars == <<catalogVars, fieldVars>>

\* A score beside the weight it was given with; n tells doubles apart.
ScoreRow == [comp : Component, raw : Raw, weight : Weight,
             n : 1..Cardinality(Field)]

NewDraft == [status |-> "draft", cat |-> "none", value |-> "none", scores |-> {}, overall |-> 0,
             photos |-> {}, version |-> 0, snapshot |-> <<>>, muted |-> {}, needed |-> {},
             flagged |-> FALSE]

\* A submission names a version of a category and parts of that version.
TypeOK ==
    /\ CatalogTypeOK
    /\ \A s \in Rows(subs) :
           LET row == subs[s] IN
           /\ row.status \in {"draft", "submitted"}
           /\ row.cat \in Rows(cats) \cup {"none"}
           /\ row.scores \subseteq ScoreRow
           /\ row.overall \in 0..500
           /\ row.photos \subseteq [label : Label, id : Photo]
           /\ DOMAIN row.snapshot \subseteq Rows(assets)
           /\ \A a \in DOMAIN row.snapshot : row.snapshot[a] = assets[a].version

Init ==
    /\ CatalogInit
    /\ subs = [s \in Submission |-> None]
    /\ work = [h \in Field |-> Idle]
    /\ crossed = {}

-----------------------------------------------------------------------------
(* calculate_overall                                                       *)

Total(F(_), S) == FoldSet(LAMBDA x, sum : sum + F(x), 0, S)
RoundHalfUp(a, b) == (2 * a + b) \div (2 * b)

\* The weighted average of one row per component, or 0 without weights.
CalculateOverall(rows) ==
    LET weights == Total(LAMBDA r : r.weight, rows) IN
    IF weights = 0 THEN 0
    ELSE LET mean == RoundHalfUp(Total(LAMBDA r : r.raw * r.weight, rows), weights)
         IN  IF mean > 500 THEN 500 ELSE mean

\* Of rows for one component the last counts.
Effective(rows) == {r \in rows : \A q \in rows : q.comp = r.comp => q.n <= r.n}

-----------------------------------------------------------------------------
(* Requests                                                                *)

Start(h, t) ==
    /\ t.op \in asked.ops
    /\ work[h] = Idle
    /\ Cardinality({k \in Field : work[k] # Idle}) < asked.fields
    /\ work' = [work EXCEPT ![h] = t]
    /\ UNCHANGED <<subs, crossed>>

\* The row of a submission that is being submitted is locked.
Locked(s) == \E h \in Field : work[h].op = "submit" /\ work[h].sub = s

End(h, op) ==
    /\ work[h].op = op
    /\ op # "submit" => ~Locked(work[h].sub)
    /\ work' = [work EXCEPT ![h] = Idle]

Lose(h) ==
    /\ work[h] # Idle
    /\ work' = [work EXCEPT ![h] = Idle]
    /\ UNCHANGED <<subs, crossed>>

CreateDraft(h) ==
    /\ asked.fields > 0
    /\ work[h] = Idle
    /\ \E s \in Submission \ Rows(subs) : subs' = [subs EXCEPT ![s] = NewDraft]
    /\ UNCHANGED <<work, crossed>>

\* "Only drafts can be updated": the status is read without a lock.
Updatable(s) == s \in Rows(subs) /\ subs[s].status = "draft"

\* update_draft with a category, whether anything offers it or not, or a field.
BeginUpdateDraft(h) ==
    /\ \E s \in Submission :
           /\ Updatable(s)
           /\ \/ \E c \in Rows(cats) : Start(h, [op |-> "category", sub |-> s, field |-> "cat", to |-> c])
              \/ \E v \in Value : Start(h, [op |-> "draft", sub |-> s, field |-> "value", to |-> v])

CommitUpdateDraft(h) ==
    /\ End(h, "category") \/ End(h, "draft")
    /\ LET t == work[h] IN
       /\ subs' = [subs EXCEPT ![t.sub][t.field] = t.to]
       /\ crossed' = IF subs[t.sub].status = "draft" THEN crossed ELSE crossed \cup {t.sub}

\* _upsert_component_scores: the component's row, or a new one, with the component's
\* weight of now; then the average of all rows.
Upsert(rows, k, raw) ==
    LET row == [comp |-> k, raw |-> raw, weight |-> comps[k].weight, n |-> 1]
        last == {r \in Effective(rows) : r.comp = k} IN
    IF last = {} THEN rows \cup {row} ELSE (rows \ last) \cup {[row EXCEPT !.n = r.n] : r \in last}

BeginScore(h) ==
    /\ \E s \in Submission, k \in Rows(comps), raw \in Raw :
           /\ Updatable(s)
           /\ LET rows == Upsert(subs[s].scores, k, raw) IN
              Start(h, [op |-> "score", sub |-> s, read |-> subs[s].scores, rows |-> rows,
                        overall |-> CalculateOverall(Effective(rows))])

\* Rows it changed are changed again, and rows it inserted stand beside those that
\* somebody else inserted; the average is the one it computed.
CommitScore(h) ==
    /\ End(h, "score")
    /\ LET t == work[h]
           now == subs[t.sub].scores
           new == {r \in t.rows \ t.read : \A q \in t.read : q.comp # r.comp}
           changed == (t.rows \ t.read) \ new
           kept == {r \in now : \A q \in changed : <<q.comp, q.n>> # <<r.comp, r.n>>}
           beside == {[r EXCEPT !.n = 1 + Cardinality({q \in kept : q.comp = r.comp})] : r \in new} IN
       /\ subs' = [subs EXCEPT ![t.sub].scores = kept \cup changed \cup beside,
                               ![t.sub].overall = t.overall]
       /\ crossed' = IF now = t.read /\ subs[t.sub].status = "draft" THEN crossed
                     ELSE crossed \cup {t.sub}

-----------------------------------------------------------------------------
(* submit                                                                  *)

\* Mutant: a version is noted beside the first row of its history.
VersionsOfFirst(c) ==
    [o \in {assets[a].origin : a \in CurrentAssets(c)} |->
        assets[CHOOSE a \in CurrentAssets(c) : assets[a].origin = o].version]

VersionsOf(c) == [a \in CurrentAssets(c) |-> assets[a].version]

\* The row is locked, and the versions in force are noted.
BeginSubmit(h) ==
    /\ \E s \in Submission :
           /\ Updatable(s)
           /\ ~Locked(s)
           /\ Start(h, [op |-> "submit", sub |-> s,
                        versions |-> IF subs[s].cat = "none" THEN <<>> ELSE VersionsOf(subs[s].cat)])

Fires(a, value) == assets[a].kind = "rule" /\ assets[a].body = value

\* red_flag_service.evaluate: the current, active rules of the category.
Flagged(c, value) ==
    c # "none" /\ \E a \in CurrentAssets(c) : assets[a].active /\ Fires(a, value)

\* The labels of the photos a category asks for, and of those a submission has.
Required(c) == {slots[l].label : l \in {k \in Rows(slots) :
                    slots[k].cat = c /\ slots[k].required /\ slots[k].active}}
Captured(row) == {p.label : p \in row.photos}

\* A photo that is missing refuses the request; otherwise flags and status are
\* written with the snapshot.
CommitSubmit(h) ==
    /\ End(h, "submit")
    /\ LET s == work[h].sub
           row == subs[s]
           c == row.cat
           versions == work[h].versions IN
       IF ~(Required(c) \subseteq Captured(row)) THEN UNCHANGED <<subs, crossed>>
       ELSE /\ subs' = [subs EXCEPT ![s] =
                 [row EXCEPT !.status = "submitted", !.flagged = Flagged(c, row.value),
                             !.snapshot = versions,
                             !.version = IF c = "none" THEN 0 ELSE cats[c].version,
                             !.muted = {a \in DOMAIN versions : ~assets[a].active},
                             !.needed = Required(c)]]
            /\ crossed' = IF c = "none" \/ versions = VersionsOf(c) THEN crossed
                          ELSE crossed \cup {s}

-----------------------------------------------------------------------------
(* Photos                                                                  *)

\* Mutant: the earlier photos of every slot are taken for those of this one.
BeginFinalizeAny(h) ==
    /\ \E s \in Rows(subs), label \in Label :
           Start(h, [op |-> "photo", sub |-> s, label |-> label, prior |-> subs[s].photos])

\* finalize: earlier photos of the slot are looked up, whatever the status is.
BeginFinalize(h) ==
    /\ \E s \in Rows(subs), label \in Label :
           Start(h, [op |-> "photo", sub |-> s, label |-> label,
                     prior |-> {p \in subs[s].photos : p.label = label}])

FreshPhoto(s) == CHOOSE i \in Photo : \A p \in subs[s].photos : p.id # i

\* They are deleted, and the new one takes their place.
CommitFinalize(h) ==
    /\ End(h, "photo")
    /\ LET s == work[h].sub IN
       /\ \E i \in Photo : \A p \in subs[s].photos : p.id # i
       /\ subs' = [subs EXCEPT ![s].photos = (@ \ work[h].prior)
                                     \cup {[label |-> work[h].label, id |-> FreshPhoto(s)]}]
    /\ UNCHANGED crossed

-----------------------------------------------------------------------------
FieldNext == \E h \in Field :
    \/ CreateDraft(h) \/ BeginUpdateDraft(h) \/ CommitUpdateDraft(h)
    \/ BeginScore(h) \/ CommitScore(h) \/ BeginSubmit(h) \/ CommitSubmit(h)
    \/ BeginFinalize(h) \/ CommitFinalize(h) \/ Lose(h)

Next == \/ CatalogNext /\ UNCHANGED fieldVars
        \/ FieldNext /\ UNCHANGED catalogVars

Spec == Init /\ [][Next]_vars

-----------------------------------------------------------------------------
\* The flag of a submission is what the versions it names say of its fields: all that
\* fire except those that were inactive.
FlagsFollow ==
    \A s \in Rows(subs) \ crossed : subs[s].status = "submitted" =>
        (subs[s].flagged <=> \E a \in DOMAIN subs[s].snapshot \ subs[s].muted :
                                 Fires(a, subs[s].value))

\* The overall score is the average of the scores with the weights kept beside them.
ScoreFollows ==
    \A s \in Rows(subs) \ crossed : subs[s].overall = CalculateOverall(Effective(subs[s].scores))

\* A report made later says what the appraisal said, whatever the administrator has
\* changed since, except where requests on the submission overlapped, or the category
\* was edited while it was submitted.
HistoryStands == FlagsFollow /\ ScoreFollows

\* A submission keeps a photo for every slot that was required when it was submitted,
\* whatever is retaken.
PhotosKept ==
    \A s \in Rows(subs) : subs[s].status = "submitted" => subs[s].needed \subseteq Captured(subs[s])
=============================================================================
