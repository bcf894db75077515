------------------------------- MODULE Catalog -------------------------------
(***************************************************************************)
(* The administrator's catalog of equipment categories with their parts    *)
(* (admin_category_service, category_versioning_service), and the intake   *)
(* that refers to a category (equipment_service).                          *)
(*                                                                         *)
(* Categories, inspection prompts and red-flag rules are versioned: an     *)
(* edit marks the row replaced and inserts a successor of its own id.      *)
(* Components and photo slots are changed in place.  A request reads in    *)
(* one step and writes in a later one (READ COMMITTED, no row is locked);  *)
(* a request whose write depends on nothing it read is one step.           *)
(*                                                                         *)
(* Prompts and rules are rows of one table here, told apart by kind.  The  *)
(* body of a rule is the value its condition is met by; names, orders,     *)
(* attachments and audit rows are left out.                                *)
(***************************************************************************)
EXTENDS Integers, FiniteSets

CONSTANTS
    Admin,       \* requests of administrators and customers that run at once
    Category, Asset, Component, PhotoSlot, Record,    \* rows, by their ids
    Slug, Label, Value, Weight,                       \* what they hold
    Seed,        \* the ids and values of the parts the importer inserted
    File,        \* payloads of other origin than an export
    Scenario     \* which requests occur in one behaviour, and how many at once

CatalogOps == {"create_category", "update_category", "delete_category", "intake",
               "add", "edit", "import", "import_new", "add_component", "update_component",
               "add_slot", "update_slot"}

ASSUME SeedAssumption ==
    Seed \in [cat : Category, rule : Asset, comp : Component, slot : PhotoSlot,
              slug : Slug, label : Label, body : Value, weight : Weight]

\* An item of a payload.
Item(kind, label, body, active) == [kind |-> kind, label |-> label, body |-> body, active |-> active]

\* A payload has no two items of one sort and name.
Distinct(items, Name(_)) == \A p, q \in items : Name(p) = Name(q) => p = q
Importable(x) == /\ Distinct(x.assets, LAMBDA p : <<p.kind, p.label>>)
                 /\ Distinct(x.comps, LAMBDA p : p.name)
                 /\ Distinct(x.slots, LAMBDA p : p.label)


VARIABLES
    cats,      \* equipment_categories
    assets,    \* category_inspection_prompts and category_red_flag_rules
    comps,     \* category_components
    slots,     \* category_photo_slots
    records,   \* the category of each equipment record
    forked,    \* rows that two requests replaced at once
    stale,     \* categories deleted and taken for a record at once
    tx,        \* the request each of Admin runs
    asked      \* the scenario

catalogVars == <<cats, assets, comps, slots, records, forked, stale, tx, asked>>

None == [none |-> TRUE]
Same == "same"
Status == {"active", "inactive"}
Kind == {"prompt", "rule"}

\* origin is the first version of a row; it is no column.
CategoryRow == [slug : Slug, status : Status, version : Nat \ {0}, replaced : BOOLEAN,
                deleted : BOOLEAN, origin : Category]
AssetRow == [kind : Kind, cat : Category, label : Label, body : Value, active : BOOLEAN,
             version : Nat \ {0}, replaced : BOOLEAN, origin : Asset]
Idle == [op |-> "idle"]

\* Files hold what an export writes: weights that the forms accept (the importer checks
\* no weight), and a status, where any that is not "active" is as good as "inactive".
ASSUME FileAssumption ==
    /\ File \subseteq [status : Status,
                       assets : SUBSET [kind : Kind, label : Label, body : Value, active : BOOLEAN],
                       comps  : SUBSET [name : Label, weight : Weight],
                       slots  : SUBSET [label : Label, required : BOOLEAN, active : BOOLEAN]]
    /\ \A x \in File : Importable(x)

Rows(table) == {i \in DOMAIN table : table[i] # None}

\* Rows refer to rows that exist, and current categories have slugs of their own.
CatalogTypeOK ==
    /\ \A c \in Rows(cats) : cats[c] \in CategoryRow
    /\ \A a \in Rows(assets) : assets[a] \in AssetRow /\ assets[a].cat \in Rows(cats)
    /\ \A k \in Rows(comps) : comps[k] \in [cat : Rows(cats), name : Label, weight : Weight]
    /\ \A l \in Rows(slots) :
           slots[l] \in [cat : Rows(cats), label : Label, required : BOOLEAN, active : BOOLEAN]
    /\ records \in [Record -> Rows(cats) \cup {"none"}]

\* The first version of a category, and of a prompt or rule.
NewCategory(c, slug, status) == [slug |-> slug, status |-> status, version |-> 1, replaced |-> FALSE,
                         deleted |-> FALSE, origin |-> c]

FirstVersion(a, c, p) ==
    [kind |-> p.kind, cat |-> c, label |-> p.label, body |-> p.body, active |-> p.active,
     version |-> 1, replaced |-> FALSE, origin |-> a]

Only(table, id, row) == [i \in table |-> IF i = id THEN row ELSE None]

\* The bundle importer has run: a category with a part of every sort.
CatalogInit ==
    LET c == Seed.cat IN
    /\ asked \in Scenario
    /\ cats = Only(Category, c, NewCategory(c, Seed.slug, "active"))
    /\ assets = Only(Asset, Seed.rule,
                     FirstVersion(Seed.rule, c, Item("rule", Seed.label, Seed.body, TRUE)))
    /\ comps = Only(Component, Seed.comp, [cat |-> c, name |-> Seed.label, weight |-> Seed.weight])
    /\ slots = Only(PhotoSlot, Seed.slot, [cat |-> c, label |-> Seed.label,
                                          required |-> "photo" \in asked.ops, active |-> TRUE])
    /\ records = [r \in Record |-> "none"]
    /\ forked = {}
    /\ stale = {}
    /\ tx = [h \in Admin |-> Idle]

-----------------------------------------------------------------------------
(* Requests                                                                *)

Begin(h, t) ==
    /\ t.op \in asked.ops
    /\ tx[h] = Idle
    /\ Cardinality({k \in Admin : tx[k] # Idle}) < asked.admins
    /\ tx' = [tx EXCEPT ![h] = t]
    /\ UNCHANGED <<cats, assets, comps, slots, records, forked, stale, asked>>

Finish(h, op) ==
    /\ tx[h].op = op
    /\ tx' = [tx EXCEPT ![h] = Idle]
    /\ UNCHANGED asked

Rollback(h) ==
    /\ tx[h] # Idle
    /\ tx' = [tx EXCEPT ![h] = Idle]
    /\ UNCHANGED <<cats, assets, comps, slots, records, forked, stale, asked>>

-----------------------------------------------------------------------------
(* Categories                                                              *)

Live(c) == c \in Rows(cats) /\ ~cats[c].replaced /\ ~cats[c].deleted
BySlug(slug) == {c \in Category : Live(c) /\ cats[c].slug = slug}

BeginCreateCategory(h) ==
    /\ \E slug \in Slug :
           /\ BySlug(slug) = {}
           /\ Begin(h, [op |-> "create_category", slug |-> slug])

\* The unique index admits one current category with a slug; a second fails.
CommitCreateCategory(h) ==
    /\ Finish(h, "create_category")
    /\ BySlug(tx[h].slug) = {}
    /\ \E c \in Category \ Rows(cats) :
           cats' = [cats EXCEPT ![c] = NewCategory(c, tx[h].slug, "active")]
    /\ UNCHANGED <<assets, comps, slots, records, forked, stale>>

\* update_category: a rename changes neither slug nor status here.
BeginUpdateCategory(h) ==
    /\ \E c \in Category, slug \in Slug \cup {Same}, status \in Status \cup {Same} :
           /\ Live(c)
           /\ slug # Same => BySlug(slug) \subseteq {c}
           /\ Begin(h, [op |-> "update_category", cat |-> c, row |-> cats[c],
                        slug |-> slug, status |-> status])

\* deactivate_category: the successor is inactive.
BeginDeactivateCategory(h) ==
    /\ \E c \in Category :
           /\ Live(c)
           /\ cats[c].status = "active"
           /\ Begin(h, [op |-> "update_category", cat |-> c, row |-> cats[c],
                        slug |-> Same, status |-> "inactive"])

\* supersede_category: the successor has an id of its own, and the prompts, rules,
\* components and photo slots stay with the row that was replaced.
CommitUpdateCategory(h) ==
    /\ Finish(h, "update_category")
    /\ LET t == tx[h]
           successor == [t.row EXCEPT !.slug = IF t.slug = Same THEN @ ELSE t.slug,
                                      !.status = IF t.status = Same THEN @ ELSE t.status,
                                      !.version = @ + 1] IN
       /\ BySlug(successor.slug) \subseteq {t.cat}
       /\ \E c \in Category \ Rows(cats) :
              cats' = [cats EXCEPT ![t.cat].replaced = TRUE, ![c] = successor]
       /\ forked' = IF cats[t.cat].replaced THEN forked \cup {t.row.origin} ELSE forked
    /\ UNCHANGED <<assets, comps, slots, records, stale>>

InUse(c) == \E r \in Record : records[r] = c

\* soft_delete_category is refused for a category some record refers to.
BeginDeleteCategory(h) ==
    /\ \E c \in Rows(cats) :
           /\ ~cats[c].deleted
           /\ ~InUse(c)
           /\ Begin(h, [op |-> "delete_category", cat |-> c])

CommitDeleteCategory(h) ==
    /\ Finish(h, "delete_category")
    /\ cats' = [cats EXCEPT ![tx[h].cat].deleted = TRUE]
    /\ stale' = IF InUse(tx[h].cat) THEN stale \cup {tx[h].cat} ELSE stale
    /\ UNCHANGED <<assets, comps, slots, records, forked>>

\* Mutant: the intake takes any category that is active.
ChoosableDeleted(c) == c \in Rows(cats) /\ cats[c].status = "active"

\* _validate_category: whether a newer version replaced it is not asked.
Choosable(c) == c \in Rows(cats) /\ cats[c].status = "active" /\ ~cats[c].deleted

BeginIntake(h) ==
    /\ \E c \in Category :
           Choosable(c) /\ Begin(h, [op |-> "intake", cat |-> c, row |-> cats[c]])

CommitIntake(h) ==
    /\ Finish(h, "intake")
    /\ \E r \in Record :
           /\ records[r] = "none"
           /\ records' = [records EXCEPT ![r] = tx[h].cat]
    /\ stale' = IF cats[tx[h].cat].deleted /\ ~tx[h].row.deleted THEN stale \cup {tx[h].cat} ELSE stale
    /\ UNCHANGED <<cats, assets, comps, slots, forked>>

-----------------------------------------------------------------------------
(* Prompts and rules                                                       *)

\* The current prompts and rules of a category.
CurrentAssets(c) == {a \in Rows(assets) : assets[a].cat = c /\ ~assets[a].replaced}

\* Anything can be added to any version of a category.
AddAsset(h, kind) ==
    /\ "add" \in asked.ops
    /\ tx[h] = Idle
    /\ \E a \in Asset \ Rows(assets), c \in Rows(cats), label \in Label, body \in Value :
           assets' = [assets EXCEPT ![a] = FirstVersion(a, c, Item(kind, label, body, TRUE))]
    /\ UNCHANGED <<cats, comps, slots, records, forked, stale, tx, asked>>

AddInspectionPrompt(h) == AddAsset(h, "prompt")
AddRedFlagRule(h) == AddAsset(h, "rule")

\* Mutant: a row that was replaced can be edited again.
EditableEver(a) == a \in Rows(assets)

Editable(a) == a \in Rows(assets) /\ ~assets[a].replaced

BeginEdit(h, kind) ==
    /\ \E a \in Asset, body \in Value \cup {Same}, active \in {"on", "off", Same} :
           /\ Editable(a)
           /\ assets[a].kind = kind
           /\ {body, active} # {Same}
           /\ Begin(h, [op |-> "edit", asset |-> a, row |-> assets[a],
                        body |-> body, active |-> active])

BeginUpdatePrompt(h) == BeginEdit(h, "prompt")
BeginUpdateRule(h) == BeginEdit(h, "rule")

\* active alone is written in place.
CommitToggle(h) ==
    /\ Finish(h, "edit")
    /\ tx[h].body = Same
    /\ assets' = [assets EXCEPT ![tx[h].asset].active = (tx[h].active = "on")]
    /\ UNCHANGED <<cats, comps, slots, records, forked, stale>>

\* What the request leaves out the successor inherits, as it was read.
Successor(row, body) == [row EXCEPT !.body = body, !.version = @ + 1, !.replaced = FALSE]

\* Mutant: the row itself is changed.
CommitEditInPlace(h) ==
    /\ Finish(h, "edit")
    /\ tx[h].body # Same
    /\ assets' = [assets EXCEPT ![tx[h].asset].body = tx[h].body]
    /\ UNCHANGED <<cats, comps, slots, records, forked, stale>>

\* supersede_inspection_prompt and supersede_red_flag_rule.
CommitEdit(h) ==
    /\ Finish(h, "edit")
    /\ tx[h].body # Same
    /\ LET t == tx[h]
           new == [Successor(t.row, t.body) EXCEPT !.active = IF t.active = Same THEN @ ELSE t.active = "on"]
       IN
       /\ \E a \in Asset \ Rows(assets) :
              assets' = [assets EXCEPT ![t.asset].replaced = TRUE, ![a] = new]
       /\ forked' = IF assets[t.asset].replaced /\ ~t.row.replaced THEN forked \cup {t.row.origin} ELSE forked
    /\ UNCHANGED <<cats, comps, slots, records, stale>>

-----------------------------------------------------------------------------
(* Components and photo slots                                              *)

AddComponent(h) ==
    /\ "add_component" \in asked.ops
    /\ tx[h] = Idle
    /\ \E k \in Component \ Rows(comps), c \in Rows(cats), name \in Label, weight \in Weight :
           comps' = [comps EXCEPT ![k] = [cat |-> c, name |-> name, weight |-> weight]]
    /\ UNCHANGED <<cats, assets, slots, records, forked, stale, tx, asked>>

UpdateComponent(h) ==
    /\ "update_component" \in asked.ops
    /\ tx[h] = Idle
    /\ \E k \in Rows(comps), weight \in Weight : comps' = [comps EXCEPT ![k].weight = weight]
    /\ UNCHANGED <<cats, assets, slots, records, forked, stale, tx, asked>>

AddPhotoSlot(h) ==
    /\ "add_slot" \in asked.ops
    /\ tx[h] = Idle
    /\ \E l \in PhotoSlot \ Rows(slots), c \in Rows(cats), label \in Label, required \in BOOLEAN :
           slots' = [slots EXCEPT ![l] = [cat |-> c, label |-> label, required |-> required,
                                          active |-> TRUE]]
    /\ UNCHANGED <<cats, assets, comps, records, forked, stale, tx, asked>>

UpdatePhotoSlot(h) ==
    /\ "update_slot" \in asked.ops
    /\ tx[h] = Idle
    /\ \E l \in Rows(slots), label \in Label, required, active \in BOOLEAN :
           slots' = [slots EXCEPT ![l] = [@ EXCEPT !.label = label, !.required = required,
                                                   !.active = active]]
    /\ UNCHANGED <<cats, assets, comps, records, forked, stale, tx, asked>>

-----------------------------------------------------------------------------
(* Export and import                                                       *)

Parts(table, c) == {i \in Rows(table) : table[i].cat = c}
Read(table, ids) == [i \in ids |-> table[i]]

\* What a payload says of a part; versions and ids are not imported.
Content(row) == Item(row.kind, row.label, row.body, row.active)

\* export_to_payload.
Export(c) == [status |-> cats[c].status,
              assets |-> {Content(assets[a]) : a \in CurrentAssets(c)},
              comps  |-> {[name |-> comps[k].name, weight |-> comps[k].weight] : k \in Parts(comps, c)},
              slots  |-> {[label |-> slots[l].label, required |-> slots[l].required,
                           active |-> slots[l].active] : l \in Parts(slots, c)}]

\* The file an administrator uploads: of this catalog or of another origin.
Payload == File \cup {x \in {Export(c) : c \in Rows(cats)} : Importable(x)}

\* import_from_payload reads the category of the slug and its parts.
BeginImport(h) ==
    /\ \E slug \in Slug, payload \in Payload :
           LET here(table) == {i \in Rows(table) : table[i].cat \in BySlug(slug)} IN
           Begin(h, [op |-> IF BySlug(slug) = {} THEN "import_new" ELSE "import",
                     slug |-> slug, into |-> BySlug(slug), payload |-> payload,
                     assets |-> Read(assets, {a \in here(assets) : ~assets[a].replaced}),
                     comps |-> Read(comps, here(comps)), slots |-> Read(slots, here(slots))])

\* The rows that items of a payload are written to, and the table with them.
Places(items, ids) == {f \in [items -> ids] : \A p, q \in items : f[p] = f[q] => p = q}
Put(table, at, Row(_)) ==
    [i \in DOMAIN table |-> IF \E p \in DOMAIN at : at[p] = i
                            THEN Row(CHOOSE p \in DOMAIN at : at[p] = i) ELSE table[i]]

\* An item that matches a current row by its label supersedes it, if it differs.
ImportAssets(t, c) ==
    LET Matching(p) == {a \in DOMAIN t.assets : t.assets[a].kind = p.kind /\ t.assets[a].label = p.label}
        matched == {p \in t.payload.assets : Matching(p) # {}} IN
    \E pick \in [matched -> DOMAIN t.assets] :
        LET changed == {p \in matched : t.assets[pick[p]].body # p.body}
            old == {pick[p] : p \in changed} IN
        /\ \A p \in matched : pick[p] \in Matching(p)
        /\ \E at \in Places(changed \cup (t.payload.assets \ matched), Asset \ Rows(assets)) :
               assets' = Put([a \in Asset |-> IF a \in old THEN [assets[a] EXCEPT !.replaced = TRUE]
                                              ELSE assets[a]],
                             at, LAMBDA p : IF p \in changed THEN Successor(t.assets[pick[p]], p.body)
                                            ELSE FirstVersion(at[p], c, p))
        /\ forked' = forked \cup {assets[a].origin : a \in {b \in old : assets[b].replaced}}

\* A component that differs is changed in place.
ImportComponents(t, c) ==
    LET Matching(p) == {k \in DOMAIN t.comps : t.comps[k].name = p.name}
        written == {p \in t.payload.comps : \A k \in Matching(p) : t.comps[k].weight # p.weight} IN
    \E at \in Places(written, Component) :
        /\ \A p \in written : at[p] \in IF Matching(p) # {} THEN Matching(p)
                                        ELSE Component \ Rows(comps)
        /\ comps' = Put(comps, at, LAMBDA p : [cat |-> c, name |-> p.name, weight |-> p.weight])

\* A photo slot that is there is left as it is.
ImportSlots(t, c) ==
    LET new == {p \in t.payload.slots : \A l \in DOMAIN t.slots : t.slots[l].label # p.label} IN
    \E at \in Places(new, PhotoSlot \ Rows(slots)) :
        slots' = Put(slots, at, LAMBDA p : [cat |-> c, label |-> p.label,
                                            required |-> p.required, active |-> p.active])

\* The category is created if there was none with the slug.
CommitImport(h) ==
    /\ Finish(h, "import") \/ Finish(h, "import_new")
    /\ LET t == tx[h] IN
       \E c \in IF t.into # {} THEN t.into ELSE Category \ Rows(cats) :
           /\ IF t.into # {} THEN UNCHANGED cats
              ELSE BySlug(t.slug) = {} /\ cats' = [cats EXCEPT ![c] = NewCategory(c, t.slug, t.payload.status)]
           /\ ImportAssets(t, c) /\ ImportComponents(t, c) /\ ImportSlots(t, c)
    /\ UNCHANGED <<records, stale>>

-----------------------------------------------------------------------------
CatalogNext == \E h \in Admin :
    \/ BeginCreateCategory(h) \/ CommitCreateCategory(h)
    \/ BeginUpdateCategory(h) \/ BeginDeactivateCategory(h) \/ CommitUpdateCategory(h)
    \/ BeginDeleteCategory(h) \/ CommitDeleteCategory(h)
    \/ BeginIntake(h) \/ CommitIntake(h)
    \/ AddInspectionPrompt(h) \/ AddRedFlagRule(h)
    \/ BeginUpdatePrompt(h) \/ BeginUpdateRule(h) \/ CommitToggle(h) \/ CommitEdit(h)
    \/ AddComponent(h) \/ UpdateComponent(h) \/ AddPhotoSlot(h) \/ UpdatePhotoSlot(h)
    \/ BeginImport(h) \/ CommitImport(h)
    \/ Rollback(h)

-----------------------------------------------------------------------------
\* The versions of one thing, and those of them that are current.
Versions(table, o) == {i \in Rows(table) : table[i].origin = o}

\* History is a line: nothing has two versions of one number, or two current ones,
\* unless two requests replaced the same row at once.
Linear(table) ==
    \A o \in Rows(table) \ forked :
        \A i, j \in Versions(table, o) :
            i # j => /\ table[i].version # table[j].version
                     /\ table[i].replaced \/ table[j].replaced
OneCurrent == Linear(cats) /\ Linear(assets)

\* No record refers to a category that is deleted, unless it was taken and deleted
\* at once.
DeletedUnused == \A r \in Record : records[r] # "none" /\ cats[records[r]].deleted => records[r] \in stale
=============================================================================
