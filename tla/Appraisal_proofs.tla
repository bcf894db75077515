--------------------------- MODULE Appraisal_proofs ---------------------------
(***************************************************************************)
(* Proofs about the catalog and the submissions filled in from it: history *)
(* is a line, deleted categories are not used, a submitted appraisal says  *)
(* what it said, and its required photos are kept.                         *)
(***************************************************************************)
EXTENDS Appraisal, FiniteSetTheorems, WellFoundedInduction, TLAPS

ComponentRow == [cat : Category, name : Label, weight : Weight]
SlotRow == [cat : Category, label : Label, required : BOOLEAN, active : BOOLEAN]

\* No row is None: it has other fields.
LEMMA RowsAreSome ==
    /\ \A r \in CategoryRow : r # None
    /\ \A r \in AssetRow : r # None
    /\ \A r \in ComponentRow : r # None
    /\ \A r \in SlotRow : r # None
<1>1. \A r \in CategoryRow : r # None
    BY DEF CategoryRow, None
<1>2. \A r \in AssetRow : r # None
    BY DEF AssetRow, None
<1>3. \A r \in ComponentRow : r # None
    BY DEF ComponentRow, None
<1>4. \A r \in SlotRow : r # None
    BY DEF SlotRow, None
<1> QED BY <1>1, <1>2, <1>3, <1>4

-----------------------------------------------------------------------------
(* Versioned tables                                                        *)

\* Among the versions of one thing the current one has the greatest number, unless
\* two requests replaced the same row at once (F).
Line(table, F) ==
    \A i, j \in Rows(table) :
        i # j /\ table[i].origin = table[j].origin /\ table[i].origin \notin F =>
            /\ table[i].version # table[j].version
            /\ ~table[i].replaced => table[j].version < table[i].version

Origins(table) == \A i \in Rows(table) : table[i].origin \in Rows(table)

\* The row n is the successor of a, which it replaces.
Follows(n, a, old, new, F) ==
    /\ new[n].origin = old[a].origin
    /\ new[n].version = old[a].version + 1
    /\ new[a].replaced
    /\ old[a].replaced => old[a].origin \in F

\* What a step may do to a versioned table.
Extends(old, new, F) ==
    /\ \A i \in Rows(old) : /\ i \in Rows(new)
                            /\ new[i].version = old[i].version
                            /\ new[i].origin = old[i].origin
                            /\ old[i].replaced => new[i].replaced
    /\ \A n \in Rows(new) \ Rows(old) :
           new[n].origin = n \/ \E a \in Rows(old) : Follows(n, a, old, new, F)
    /\ \A n, m \in Rows(new) \ Rows(old) :
           n # m /\ new[n].origin = new[m].origin => new[n].origin \in F

\* Such a step leaves the history a line, and every origin a row.
LEMMA LineKept ==
    ASSUME NEW old, NEW new, NEW F, NEW G, F \subseteq G,
           Extends(old, new, G), Line(old, F), Origins(old),
           \A i \in Rows(old) : old[i].version \in Nat /\ old[i].replaced \in BOOLEAN,
           \A i \in Rows(new) : new[i].version \in Nat /\ new[i].replaced \in BOOLEAN
    PROVE  Line(new, G) /\ Origins(new)
<1> DEFINE N == Rows(new) \ Rows(old)
<1>1. \A n \in N : new[n].origin \in Rows(old) \/ new[n].origin = n
    BY DEF Extends, Follows, Origins
<1>2. Origins(new)
    BY <1>1 DEF Extends, Origins
<1>3. ASSUME NEW i \in Rows(new), NEW j \in Rows(new), i # j,
             new[i].origin = new[j].origin, new[i].origin \notin G
      PROVE  /\ new[i].version # new[j].version
             /\ ~new[i].replaced => new[j].version < new[i].version
    <2>1. CASE i \in Rows(old) /\ j \in Rows(old)
        BY <1>3, <2>1 DEF Extends, Line
    <2>2. ASSUME NEW k \in Rows(old), NEW n \in N, new[k].origin = new[n].origin,
                 new[n].origin \notin G
          PROVE  new[k].version < new[n].version /\ new[k].replaced
        <3>1. PICK a \in Rows(old) : Follows(n, a, old, new, G)
            BY <2>2 DEF Extends, Origins
        <3>2. old[a].origin = old[k].origin /\ ~old[a].replaced /\ old[a].origin \notin F
            BY <2>2, <3>1 DEF Extends, Follows
        <3>3. k = a \/ (old[k].version < old[a].version /\ old[k].replaced)
            BY <3>2 DEF Line
        <3> QED BY <3>1, <3>3 DEF Extends, Follows
    <2>3. CASE i \in Rows(old) /\ j \in N
        BY <1>3, <2>2, <2>3
    <2>4. CASE i \in N /\ j \in Rows(old)
        BY <1>3, <2>2, <2>4
    <2>5. CASE i \in N /\ j \in N
        BY <1>3, <2>5 DEF Extends
    <2> QED BY <2>1, <2>3, <2>4, <2>5
<1> QED BY <1>2, <1>3 DEF Line

-----------------------------------------------------------------------------
(* The catalog                                                             *)

CatalogDomains ==
    /\ cats \in [Category -> CategoryRow \cup {None}]
    /\ assets \in [Asset -> AssetRow \cup {None}]
    /\ comps \in [Component -> ComponentRow \cup {None}]
    /\ slots \in [PhotoSlot -> SlotRow \cup {None}]
    /\ records \in [Record -> Category \cup {"none"}]
    /\ tx = [h \in Admin |-> tx[h]]
    /\ forked \subseteq Category \cup Asset

\* Rows refer to categories that exist.
Refs ==
    /\ \A a \in Rows(assets) : assets[a].cat \in Rows(cats)
    /\ \A k \in Rows(comps) : comps[k].cat \in Rows(cats)
    /\ \A l \in Rows(slots) : slots[l].cat \in Rows(cats)
    /\ \A r \in Record : records[r] \in Rows(cats) \cup {"none"}

\* What a step never changes of a category, and of a prompt or rule.
SameCategory(r, q) == r.version = q.version /\ r.origin = q.origin
SameAsset(r, q) ==
    /\ r.version = q.version /\ r.origin = q.origin
    /\ r.kind = q.kind /\ r.cat = q.cat /\ r.label = q.label /\ r.body = q.body

AssetsRead(t) ==
    /\ DOMAIN t.assets \subseteq Rows(assets)
    /\ \A a \in DOMAIN t.assets : t.assets[a] \in AssetRow /\ SameAsset(t.assets[a], assets[a])
    /\ \A a, b \in DOMAIN t.assets :
           a # b /\ t.assets[a].origin = t.assets[b].origin => t.assets[a].origin \in forked

PayloadRow ==
    [status : Status,
     assets : SUBSET [kind : Kind, label : Label, body : Value, active : BOOLEAN],
     comps  : SUBSET [name : Label, weight : Weight],
     slots  : SUBSET [label : Label, required : BOOLEAN, active : BOOLEAN]]

\* What a request remembers of what it read.
CreateKnows(t) == t.op = "create_category" => t.slug \in Slug
UpdateKnows(t) ==
    t.op = "update_category" =>
        /\ t.cat \in Rows(cats)
        /\ t.row \in CategoryRow /\ SameCategory(t.row, cats[t.cat])
        /\ t.slug \in Slug \cup {Same}
        /\ t.status \in Status \cup {Same}
DeleteKnows(t) == t.op = "delete_category" => t.cat \in Rows(cats)
IntakeKnows(t) == t.op = "intake" => t.cat \in Rows(cats) /\ ~t.row.deleted
EditKnows(t) ==
    t.op = "edit" =>
        /\ t.asset \in Rows(assets)
        /\ t.row \in AssetRow /\ SameAsset(t.row, assets[t.asset]) /\ ~t.row.replaced
        /\ t.body \in Value \cup {Same}
ImportKnows(t) ==
    t.op \in {"import", "import_new"} =>
        /\ t.slug \in Slug
        /\ t.into \subseteq Rows(cats)
        /\ t.payload \in PayloadRow /\ Importable(t.payload)
        /\ AssetsRead(t)
        /\ DOMAIN t.comps \subseteq Rows(comps)

TxOK(t) == CreateKnows(t) /\ UpdateKnows(t) /\ DeleteKnows(t) /\ IntakeKnows(t) /\ EditKnows(t)
               /\ ImportKnows(t)

CatalogInv ==
    /\ CatalogDomains /\ Refs
    /\ Line(cats, forked) /\ Origins(cats)
    /\ Line(assets, forked) /\ Origins(assets)
    /\ DeletedUnused
    /\ \A h \in Admin : TxOK(tx[h])

LEMMA RowsTyped ==
    ASSUME CatalogDomains
    PROVE  /\ Rows(cats) \subseteq Category /\ \A c \in Rows(cats) : cats[c] \in CategoryRow
           /\ Rows(assets) \subseteq Asset /\ \A a \in Rows(assets) : assets[a] \in AssetRow
           /\ Rows(comps) \subseteq Component /\ \A k \in Rows(comps) : comps[k] \in ComponentRow
           /\ Rows(slots) \subseteq PhotoSlot /\ \A l \in Rows(slots) : slots[l] \in SlotRow
<1> DEFINE CR == CategoryRow
           AR == AssetRow
           KR == ComponentRow
           LR == SlotRow
<1>1. /\ cats \in [Category -> CR \cup {None}]
      /\ assets \in [Asset -> AR \cup {None}]
      /\ comps \in [Component -> KR \cup {None}]
      /\ slots \in [PhotoSlot -> LR \cup {None}]
    BY DEF CatalogDomains
<1> HIDE DEF CR, AR, KR, LR
<1>2. /\ Rows(cats) \subseteq Category /\ \A c \in Rows(cats) : cats[c] \in CR
      /\ Rows(assets) \subseteq Asset /\ \A a \in Rows(assets) : assets[a] \in AR
      /\ Rows(comps) \subseteq Component /\ \A k \in Rows(comps) : comps[k] \in KR
      /\ Rows(slots) \subseteq PhotoSlot /\ \A l \in Rows(slots) : slots[l] \in LR
    BY <1>1 DEF Rows
<1> QED BY <1>2 DEF CR, AR, KR, LR

LEMMA TypedByParts ==
    ASSUME CatalogDomains, Refs
    PROVE  CatalogTypeOK
<1>1. \A c \in Rows(cats) : cats[c] \in CategoryRow
    BY RowsTyped
<1>2. \A a \in Rows(assets) : assets[a] \in AssetRow /\ assets[a].cat \in Rows(cats)
    BY RowsTyped DEF Refs
<1>3. \A k \in Rows(comps) : comps[k] \in [cat : Rows(cats), name : Label, weight : Weight]
    <2> TAKE k \in Rows(comps)
    <2>1. comps[k] \in ComponentRow /\ comps[k].cat \in Rows(cats)
        BY RowsTyped DEF Refs
    <2> QED BY <2>1 DEF ComponentRow
<1>4. \A l \in Rows(slots) :
          slots[l] \in [cat : Rows(cats), label : Label, required : BOOLEAN, active : BOOLEAN]
    <2> TAKE l \in Rows(slots)
    <2>1. slots[l] \in SlotRow /\ slots[l].cat \in Rows(cats)
        BY RowsTyped DEF Refs
    <2> QED BY <2>1 DEF SlotRow
<1>5. records \in [Record -> Rows(cats) \cup {"none"}]
    BY DEF CatalogDomains, Refs
<1> QED BY <1>1, <1>2, <1>3, <1>4, <1>5 DEF CatalogTypeOK

\* Steps add rows and forks, and never change what a row is a version of.
CatalogKept ==
    /\ \A c \in Rows(cats) : c \in Rows(cats') /\ SameCategory(cats'[c], cats[c])
    /\ \A a \in Rows(assets) : a \in Rows(assets') /\ SameAsset(assets'[a], assets[a])
    /\ Rows(comps) \subseteq Rows(comps')
    /\ forked \subseteq forked'

LEMMA KnowledgeStays ==
    ASSUME CatalogKept, NEW t, TxOK(t)
    PROVE  TxOK(t)'
<1>1. (t.op = "update_category" => t.cat \in Rows(cats) /\ SameCategory(t.row, cats[t.cat]))
          => (t.op = "update_category" => t.cat \in Rows(cats') /\ SameCategory(t.row, cats'[t.cat]))
    BY DEF CatalogKept, SameCategory
<1>2. CreateKnows(t)' /\ UpdateKnows(t)' /\ DeleteKnows(t)' /\ IntakeKnows(t)'
    BY <1>1 DEF CatalogKept, TxOK, CreateKnows, UpdateKnows, DeleteKnows, IntakeKnows
<1>3. EditKnows(t)'
    <2>1. t.op = "edit" => t.asset \in Rows(assets') /\ SameAsset(t.row, assets'[t.asset])
        BY DEF CatalogKept, TxOK, EditKnows, SameAsset
    <2> QED BY <2>1 DEF TxOK, EditKnows
<1>4. ImportKnows(t)'
    <2>1. AssetsRead(t) => AssetsRead(t)'
        <3> HAVE AssetsRead(t)
        <3>1. \A a \in DOMAIN t.assets : a \in Rows(assets') /\ SameAsset(t.assets[a], assets'[a])
            BY DEF AssetsRead, CatalogKept, SameAsset
        <3> QED BY <3>1 DEF AssetsRead, CatalogKept
    <2> QED BY <2>1 DEF TxOK, ImportKnows, CatalogKept
<1> QED BY <1>2, <1>3, <1>4 DEF TxOK

\* The requests know what they knew, whatever one of them commits.
LEMMA RequestsKnow ==
    ASSUME CatalogInv, CatalogKept, NEW h \in Admin,
           tx' = tx \/ tx' = [tx EXCEPT ![h] = Idle]
    PROVE  /\ tx' = [k \in Admin |-> tx'[k]]
           /\ \A k \in Admin : TxOK(tx[k])'
<1>1. tx' = [k \in Admin |-> tx'[k]]
    BY DEF CatalogInv, CatalogDomains
<1>2. TxOK(Idle)'
    BY DEF TxOK, CreateKnows, UpdateKnows, DeleteKnows, IntakeKnows, EditKnows, ImportKnows, Idle
<1>3. ASSUME NEW k \in Admin
      PROVE  TxOK(tx[k])'
    <2>1. tx'[k] = tx[k] \/ tx'[k] = Idle
        BY DEF CatalogInv, CatalogDomains
    <2>2. ASSUME NEW t, t = tx'[k], TxOK(t)'
          PROVE  TxOK(tx[k])'
        BY <2>2 DEF TxOK, CreateKnows, UpdateKnows, DeleteKnows, IntakeKnows, EditKnows, ImportKnows,
                    AssetsRead
    <2>3. TxOK(tx[k])
        BY DEF CatalogInv
    <2>4. CASE tx'[k] = tx[k]
        <3>1. ASSUME NEW t, t = tx[k]
              PROVE  TxOK(tx[k])'
            <4>1. TxOK(t)'
                BY <2>3, <3>1, KnowledgeStays
            <4> QED BY <2>4, <3>1, <4>1, <2>2
        <3> QED BY <3>1
    <2>5. CASE tx'[k] = Idle
        BY <2>5, <2>2, <1>2
    <2> QED BY <2>1, <2>4, <2>5
<1> QED BY <1>1, <1>3

\* A request begins: it reads, and nothing else changes.
LEMMA BeginKeeps ==
    ASSUME CatalogInv, NEW h \in Admin, NEW t, Begin(h, t), TxOK(t)
    PROVE  CatalogInv' /\ CatalogKept
<1> USE DEF Begin
<1>1. CatalogKept
    BY DEF CatalogKept, SameCategory, SameAsset
<1>2. tx' = [k \in Admin |-> tx'[k]] /\ \A k \in Admin : tx'[k] = tx[k] \/ tx'[k] = t
    BY DEF CatalogInv, CatalogDomains
<1>3. \A k \in Admin : TxOK(tx[k])'
    <2> TAKE k \in Admin
    <2>1. TxOK(t)'
        BY <1>1, KnowledgeStays
    <2>2. ASSUME NEW u, u = tx'[k], TxOK(u)'
          PROVE  TxOK(tx[k])'
        BY <2>2 DEF TxOK, CreateKnows, UpdateKnows, DeleteKnows, IntakeKnows, EditKnows, ImportKnows,
                    AssetsRead
    <2>3. ASSUME NEW u, u = tx[k]
          PROVE  TxOK(u)'
        <3>1. TxOK(u)
            BY <2>3 DEF CatalogInv
        <3> QED BY <3>1, <1>1, KnowledgeStays
    <2> QED BY <1>2, <2>1, <2>2, <2>3
<1>4. CatalogDomains' /\ Refs' /\ Line(cats, forked)' /\ Origins(cats)'
          /\ Line(assets, forked)' /\ Origins(assets)' /\ DeletedUnused'
    BY <1>2 DEF CatalogInv, CatalogDomains, Refs, Line, Origins, DeletedUnused, Rows
<1> QED BY <1>1, <1>3, <1>4 DEF CatalogInv

-----------------------------------------------------------------------------
(* Requests of administrators                                              *)

LEMMA CreateBegins ==
    ASSUME CatalogInv, NEW h \in Admin, BeginCreateCategory(h)
    PROVE  CatalogInv' /\ CatalogKept
<1>1. PICK slug \in Slug : Begin(h, [op |-> "create_category", slug |-> slug])
    BY DEF BeginCreateCategory
<1> DEFINE t == [op |-> "create_category", slug |-> slug]
<1>2. TxOK(t)
    BY DEF TxOK, CreateKnows, UpdateKnows, DeleteKnows, IntakeKnows, EditKnows, ImportKnows
<1> QED BY <1>1, <1>2, BeginKeeps

LEMMA UpdateBegins ==
    ASSUME CatalogInv, NEW h \in Admin, BeginUpdateCategory(h) \/ BeginDeactivateCategory(h)
    PROVE  CatalogInv' /\ CatalogKept
<1>1. PICK c \in Category, slug \in Slug \cup {Same}, status \in Status \cup {Same} :
          Live(c) /\ Begin(h, [op |-> "update_category", cat |-> c, row |-> cats[c],
                               slug |-> slug, status |-> status])
    BY DEF BeginUpdateCategory, BeginDeactivateCategory, Status
<1> DEFINE t == [op |-> "update_category", cat |-> c, row |-> cats[c], slug |-> slug, status |-> status]
<1>2. cats[c] \in CategoryRow
    BY <1>1, RowsTyped DEF Live, CatalogInv
<1>3. TxOK(t)
    BY <1>1, <1>2 DEF TxOK, CreateKnows, UpdateKnows, DeleteKnows, IntakeKnows, EditKnows, ImportKnows,
                      SameCategory, Live
<1> QED BY <1>1, <1>3, BeginKeeps

LEMMA DeleteBegins ==
    ASSUME CatalogInv, NEW h \in Admin, BeginDeleteCategory(h)
    PROVE  CatalogInv' /\ CatalogKept
<1>1. PICK c \in Rows(cats) : Begin(h, [op |-> "delete_category", cat |-> c])
    BY DEF BeginDeleteCategory
<1> DEFINE t == [op |-> "delete_category", cat |-> c]
<1>2. TxOK(t)
    BY DEF TxOK, CreateKnows, UpdateKnows, DeleteKnows, IntakeKnows, EditKnows, ImportKnows
<1> QED BY <1>1, <1>2, BeginKeeps

LEMMA IntakeBegins ==
    ASSUME CatalogInv, NEW h \in Admin, BeginIntake(h)
    PROVE  CatalogInv' /\ CatalogKept
<1>1. PICK c \in Category :
          Choosable(c) /\ Begin(h, [op |-> "intake", cat |-> c, row |-> cats[c]])
    BY DEF BeginIntake
<1> DEFINE t == [op |-> "intake", cat |-> c, row |-> cats[c]]
<1>2. TxOK(t)
    BY <1>1 DEF TxOK, CreateKnows, UpdateKnows, DeleteKnows, IntakeKnows, EditKnows, ImportKnows,
                Choosable
<1> QED BY <1>1, <1>2, BeginKeeps

LEMMA EditBegins ==
    ASSUME CatalogInv, NEW h \in Admin, BeginUpdatePrompt(h) \/ BeginUpdateRule(h)
    PROVE  CatalogInv' /\ CatalogKept
<1>1. PICK a \in Asset, body \in Value \cup {Same}, active \in {"on", "off", Same} :
          Editable(a) /\ Begin(h, [op |-> "edit", asset |-> a, row |-> assets[a],
                                   body |-> body, active |-> active])
    BY DEF BeginUpdatePrompt, BeginUpdateRule, BeginEdit
<1> DEFINE t == [op |-> "edit", asset |-> a, row |-> assets[a], body |-> body, active |-> active]
<1>2. assets[a] \in AssetRow
    BY <1>1, RowsTyped DEF Editable, CatalogInv
<1>3. TxOK(t)
    BY <1>1, <1>2 DEF TxOK, CreateKnows, UpdateKnows, DeleteKnows, IntakeKnows, EditKnows, ImportKnows,
                      SameAsset, Editable
<1> QED BY <1>1, <1>3, BeginKeeps

\* What an export says fits what a payload may hold.
LEMMA ExportTyped ==
    ASSUME CatalogInv, NEW c \in Rows(cats)
    PROVE  Export(c) \in PayloadRow
<1>0. CatalogDomains
    BY DEF CatalogInv
<1>1. Export(c).status \in Status
    BY <1>0, RowsTyped DEF Export, CategoryRow
<1>2. Export(c).assets \subseteq [kind : Kind, label : Label, body : Value, active : BOOLEAN]
    BY <1>0, RowsTyped DEF Export, CurrentAssets, Content, Item, AssetRow
<1>3. Export(c).comps \subseteq [name : Label, weight : Weight]
    BY <1>0, RowsTyped DEF Export, Parts, ComponentRow
<1>4. Export(c).slots \subseteq [label : Label, required : BOOLEAN, active : BOOLEAN]
    BY <1>0, RowsTyped DEF Export, Parts, SlotRow
<1>5. Export(c) = [status |-> Export(c).status, assets |-> Export(c).assets,
                   comps |-> Export(c).comps, slots |-> Export(c).slots]
    BY DEF Export
<1> QED BY <1>1, <1>2, <1>3, <1>4, <1>5 DEF PayloadRow

LEMMA PayloadTyped ==
    ASSUME CatalogInv, NEW x \in Payload
    PROVE  x \in PayloadRow /\ Importable(x)
BY ExportTyped, FileAssumption DEF Payload, PayloadRow

\* The current rows of a category are of different things.
LEMMA ReadApart ==
    ASSUME CatalogInv, NEW S, S \subseteq {a \in Rows(assets) : ~assets[a].replaced}
    PROVE  \A a, b \in S : a # b /\ assets[a].origin = assets[b].origin => assets[a].origin \in forked
<1> SUFFICES ASSUME NEW a \in S, NEW b \in S, a # b, assets[a].origin = assets[b].origin,
                    assets[a].origin \notin forked
             PROVE  FALSE
    OBVIOUS
<1>1. assets[a].version < assets[b].version /\ assets[b].version < assets[a].version
    BY DEF CatalogInv, Line
<1>2. assets[a].version \in Nat /\ assets[b].version \in Nat
    BY RowsTyped DEF CatalogInv, AssetRow
<1> QED BY <1>1, <1>2

LEMMA ImportBegins ==
    ASSUME CatalogInv, NEW h \in Admin, BeginImport(h)
    PROVE  CatalogInv' /\ CatalogKept
<1>1. PICK slug \in Slug, payload \in Payload :
          LET here(table) == {i \in Rows(table) : table[i].cat \in BySlug(slug)} IN
          Begin(h, [op |-> IF BySlug(slug) = {} THEN "import_new" ELSE "import",
                    slug |-> slug, into |-> BySlug(slug), payload |-> payload,
                    assets |-> Read(assets, {a \in here(assets) : ~assets[a].replaced}),
                    comps |-> Read(comps, here(comps)), slots |-> Read(slots, here(slots))])
    BY DEF BeginImport
<1> DEFINE here(table) == {i \in Rows(table) : table[i].cat \in BySlug(slug)}
           S == {a \in here(assets) : ~assets[a].replaced}
           t == [op |-> IF BySlug(slug) = {} THEN "import_new" ELSE "import",
                 slug |-> slug, into |-> BySlug(slug), payload |-> payload,
                 assets |-> Read(assets, S), comps |-> Read(comps, here(comps)),
                 slots |-> Read(slots, here(slots))]
<1>2. Begin(h, t)
    BY <1>1
<1>3. /\ t.op \in {"import", "import_new"} /\ t.slug = slug /\ t.into = BySlug(slug)
      /\ t.payload = payload /\ t.assets = Read(assets, S)
      /\ t.comps = Read(comps, here(comps))
    OBVIOUS
<1>4. S \subseteq {a \in Rows(assets) : ~assets[a].replaced} /\ here(comps) \subseteq Rows(comps)
    OBVIOUS
<1>5. payload \in PayloadRow /\ Importable(payload)
    BY PayloadTyped
<1> HIDE DEF S, t, here
<1>6. AssetsRead(t)
    <2>1. DOMAIN t.assets = S /\ \A a \in S : t.assets[a] = assets[a]
        BY <1>3 DEF Read
    <2>2. \A a \in S : assets[a] \in AssetRow
        BY <1>4, RowsTyped DEF CatalogInv
    <2>3. \A a, b \in S : a # b /\ assets[a].origin = assets[b].origin => assets[a].origin \in forked
        BY <1>4, ReadApart
    <2> QED BY <2>1, <2>2, <2>3, <1>4 DEF AssetsRead, SameAsset
<1>7. BySlug(slug) \subseteq Rows(cats)
    BY DEF BySlug, Live
<1>8. DOMAIN t.comps \subseteq Rows(comps)
    BY <1>3, <1>4 DEF Read
<1>9. ImportKnows(t)
    BY <1>3, <1>5, <1>6, <1>7, <1>8 DEF ImportKnows
<1>10. TxOK(t)
    BY <1>3, <1>9 DEF TxOK, CreateKnows, UpdateKnows, DeleteKnows, IntakeKnows, EditKnows
<1> QED BY <1>2, <1>10, BeginKeeps

-----------------------------------------------------------------------------
(* Writing a row                                                           *)

LEMMA TableTyped ==
    ASSUME NEW S, NEW T, None \notin T, NEW table \in [S -> T \cup {None}]
    PROVE  Rows(table) \subseteq S /\ \A i \in Rows(table) : table[i] \in T
BY DEF Rows

LEMMA AddedExtends ==
    ASSUME NEW table, NEW n \in DOMAIN table, n \notin Rows(table), NEW row, row # None,
           row.origin = n, NEW F, NEW new, new = [table EXCEPT ![n] = row]
    PROVE  Extends(table, new, F)
<1>1. Rows(new) = Rows(table) \cup {n}
    BY DEF Rows
<1> QED BY <1>1 DEF Extends, Rows

\* The row n of the new table follows the row a, and all others are kept.
Supersedes(n, a, old, new, F) ==
    /\ n \in DOMAIN old \ Rows(old) /\ a \in Rows(old)
    /\ DOMAIN new = DOMAIN old
    /\ \A i \in DOMAIN old \ {a, n} : new[i] = old[i]
    /\ new[a] # None /\ new[a].version = old[a].version /\ new[a].origin = old[a].origin
    /\ new[n] # None
    /\ Follows(n, a, old, new, F)

LEMMA SupersededExtends ==
    ASSUME NEW old, NEW n, NEW a, NEW new, NEW F, Supersedes(n, a, old, new, F)
    PROVE  Extends(old, new, F) /\ Rows(new) = Rows(old) \cup {n}
<1>1. Rows(new) = Rows(old) \cup {n}
    BY DEF Rows, Supersedes
<1> QED BY <1>1 DEF Extends, Rows, Supersedes, Follows

\* A step that writes categories, and perhaps forks.
LEMMA CategoriesWritten ==
    ASSUME CatalogInv, NEW h \in Admin, tx' = [tx EXCEPT ![h] = Idle],
           cats' \in [Category -> CategoryRow \cup {None}], Extends(cats, cats', forked'),
           forked \subseteq forked', forked' \subseteq Category \cup Asset,
           UNCHANGED <<assets, comps, slots, records>>, DeletedUnused'
    PROVE  CatalogInv' /\ CatalogKept
<1>1. Rows(cats) \subseteq Rows(cats')
    BY DEF Extends
<1>2. CatalogKept
    BY <1>1 DEF CatalogKept, Extends, SameCategory, SameAsset
<1>3. Refs'
    BY <1>1 DEF CatalogInv, Refs
<1>4. Line(cats', forked') /\ Origins(cats')
    <2>1. \A i \in Rows(cats) : cats[i].version \in Nat /\ cats[i].replaced \in BOOLEAN
        BY RowsTyped DEF CatalogInv, CategoryRow
    <2>2. \A i \in Rows(cats') : cats'[i] \in CategoryRow
        BY TableTyped, RowsAreSome
    <2>3. \A i \in Rows(cats') : cats'[i].version \in Nat /\ cats'[i].replaced \in BOOLEAN
        BY <2>2 DEF CategoryRow
    <2> QED BY <2>1, <2>3, LineKept DEF CatalogInv
<1>5. Line(assets', forked') /\ Origins(assets')
    BY DEF CatalogInv, Line, Origins
<1>6. tx' = [k \in Admin |-> tx'[k]] /\ \A k \in Admin : TxOK(tx[k])'
    BY <1>2, RequestsKnow
<1>7. CatalogDomains'
    BY <1>6 DEF CatalogInv, CatalogDomains
<1> QED BY <1>2, <1>3, <1>4, <1>5, <1>6, <1>7 DEF CatalogInv

LEMMA CreateCommits ==
    ASSUME CatalogInv, NEW h \in Admin, CommitCreateCategory(h)
    PROVE  CatalogInv' /\ CatalogKept
<1>1. PICK c \in Category \ Rows(cats) :
          cats' = [cats EXCEPT ![c] = NewCategory(c, tx[h].slug, "active")]
    BY DEF CommitCreateCategory
<1> DEFINE row == NewCategory(c, tx[h].slug, "active")
<1>2. tx[h].slug \in Slug
    BY DEF CommitCreateCategory, Finish, CatalogInv, TxOK, CreateKnows
<1>3. row \in CategoryRow /\ row.origin = c
    BY <1>2 DEF NewCategory, CategoryRow, Status
<1>4. row # None
    BY <1>3, RowsAreSome
<1> HIDE DEF row
<1>5. cats' = [cats EXCEPT ![c] = row]
    BY <1>1 DEF row
<1>6. Extends(cats, cats', forked')
    BY <1>3, <1>4, <1>5, AddedExtends DEF CatalogInv, CatalogDomains
<1>7. cats' \in [Category -> CategoryRow \cup {None}]
    BY <1>3, <1>5 DEF CatalogInv, CatalogDomains
<1>8. DeletedUnused'
    BY <1>5 DEF CommitCreateCategory, CatalogInv, CatalogDomains, Refs, DeletedUnused
<1> QED BY <1>6, <1>7, <1>8, CategoriesWritten DEF CommitCreateCategory, Finish, CatalogInv,
                                                  CatalogDomains

LEMMA UpdateCommits ==
    ASSUME CatalogInv, NEW h \in Admin, CommitUpdateCategory(h)
    PROVE  CatalogInv' /\ CatalogKept
<1> DEFINE t == tx[h]
           successor == [t.row EXCEPT !.slug = IF t.slug = Same THEN @ ELSE t.slug,
                                      !.status = IF t.status = Same THEN @ ELSE t.status,
                                      !.version = @ + 1]
<1>1. PICK c \in Category \ Rows(cats) :
          cats' = [cats EXCEPT ![t.cat].replaced = TRUE, ![c] = successor]
    BY DEF CommitUpdateCategory
<1>2. /\ t.cat \in Rows(cats) /\ t.row \in CategoryRow /\ SameCategory(t.row, cats[t.cat])
      /\ t.slug \in Slug \cup {Same} /\ t.status \in Status \cup {Same}
    BY DEF CommitUpdateCategory, Finish, CatalogInv, TxOK, UpdateKnows
<1> DEFINE slug == IF t.slug = Same THEN t.row.slug ELSE t.slug
           status == IF t.status = Same THEN t.row.status ELSE t.status
<1>3. slug \in Slug /\ status \in Status
    BY <1>2 DEF CategoryRow
<1>4. /\ successor \in CategoryRow
      /\ successor.origin = t.row.origin /\ successor.version = t.row.version + 1
    <2>1. successor = [t.row EXCEPT !.slug = slug, !.status = status, !.version = t.row.version + 1]
        OBVIOUS
    <2> DEFINE row == t.row
    <2>2. row \in CategoryRow
        BY <1>2
    <2>3. successor = [row EXCEPT !.slug = slug, !.status = status, !.version = row.version + 1]
        BY <2>1
    <2> SUFFICES successor \in CategoryRow
                     /\ successor.origin = row.origin /\ successor.version = row.version + 1
        OBVIOUS
    <2> HIDE DEF slug, status, successor, row, t
    <2>4. row = [slug |-> row.slug, status |-> row.status, version |-> row.version,
                 replaced |-> row.replaced, deleted |-> row.deleted, origin |-> row.origin]
        BY <2>2 DEF CategoryRow
    <2>5. successor = [slug |-> slug, status |-> status, version |-> row.version + 1,
                       replaced |-> row.replaced, deleted |-> row.deleted, origin |-> row.origin]
        BY <2>3, <2>4
    <2> QED BY <1>3, <2>2, <2>5 DEF CategoryRow
<1>5. forked' = IF cats[t.cat].replaced THEN forked \cup {t.row.origin} ELSE forked
    BY DEF CommitUpdateCategory
<1> HIDE DEF successor, t
<1>6. cats[t.cat] \in CategoryRow /\ t.cat \in Category
    BY <1>2, RowsTyped DEF CatalogInv
<1>7. successor # None
    BY <1>4, RowsAreSome
<1>8. /\ DOMAIN cats' = DOMAIN cats /\ cats'[c] = successor
      /\ \A i \in DOMAIN cats \ {t.cat, c} : cats'[i] = cats[i]
      /\ cats'[t.cat] \in CategoryRow /\ cats'[t.cat].replaced
      /\ cats'[t.cat].version = cats[t.cat].version /\ cats'[t.cat].origin = cats[t.cat].origin
      /\ cats'[t.cat].deleted = cats[t.cat].deleted
    <2>1. DOMAIN cats = Category /\ t.cat # c
        BY <1>2 DEF CatalogInv, CatalogDomains
    <2>2. /\ DOMAIN cats' = DOMAIN cats /\ cats'[c] = successor
          /\ \A i \in DOMAIN cats \ {t.cat, c} : cats'[i] = cats[i]
        BY <1>1, <2>1
    <2>3. cats'[t.cat] = [cats[t.cat] EXCEPT !.replaced = TRUE]
        BY <1>1, <1>6, <2>1
    <2> QED BY <2>2, <2>3, <1>6 DEF CategoryRow
<1>9. Extends(cats, cats', forked') /\ Rows(cats') = Rows(cats) \cup {c}
    <2>1. successor.origin = cats[t.cat].origin /\ successor.version = cats[t.cat].version + 1
        BY <1>2, <1>4 DEF SameCategory
    <2>2. cats[t.cat].replaced => cats[t.cat].origin \in forked'
        BY <1>2, <1>5 DEF SameCategory
    <2>3. c \in DOMAIN cats /\ c \notin Rows(cats)
        BY <1>1 DEF CatalogInv, CatalogDomains
    <2>4. cats'[t.cat] # None
        BY <1>8, RowsAreSome
    <2>5. Follows(c, t.cat, cats, cats', forked')
        BY <1>8, <2>1, <2>2 DEF Follows
    <2>6. Supersedes(c, t.cat, cats, cats', forked')
        BY <1>2, <1>7, <1>8, <2>3, <2>4, <2>5 DEF Supersedes
    <2> QED BY <2>6, SupersededExtends
<1>10. cats' \in [Category -> CategoryRow \cup {None}]
    <2> DEFINE CR == CategoryRow
    <2>2. cats \in [Category -> CR \cup {None}] /\ successor \in CR /\ cats'[t.cat] \in CR
        BY <1>4, <1>8 DEF CatalogInv, CatalogDomains
    <2> HIDE DEF CR
    <2>3. cats' = [i \in DOMAIN cats |-> cats'[i]]
        BY <1>1
    <2>4. cats' \in [Category -> CR \cup {None}]
        BY <2>2, <2>3, <1>8
    <2> QED BY <2>4 DEF CR
<1>11. DeletedUnused'
    <2>1. \A i \in Rows(cats) : i # c /\ cats'[i].deleted = cats[i].deleted
        BY <1>8 DEF Rows
    <2> QED BY <2>1 DEF CommitUpdateCategory, CatalogInv, Refs, DeletedUnused
<1>12. forked \subseteq forked' /\ forked' \subseteq Category \cup Asset
    BY <1>2, <1>5 DEF CatalogInv, CatalogDomains, CategoryRow
<1> QED BY <1>9, <1>10, <1>11, <1>12, CategoriesWritten DEF CommitUpdateCategory, Finish

LEMMA DeleteCommits ==
    ASSUME CatalogInv, NEW h \in Admin, CommitDeleteCategory(h)
    PROVE  CatalogInv' /\ CatalogKept
<1> DEFINE c == tx[h].cat
<1>1. c \in Rows(cats) /\ c \in Category
    BY RowsTyped DEF CommitDeleteCategory, Finish, CatalogInv, TxOK, DeleteKnows
<1>2. DOMAIN cats = Category /\ cats[c] \in CategoryRow
    BY <1>1, RowsTyped DEF CatalogInv, CatalogDomains
<1>3. /\ cats' = [cats EXCEPT ![c].deleted = TRUE]
      /\ stale' = IF InUse(c) THEN stale \cup {c} ELSE stale
    BY DEF CommitDeleteCategory
<1> HIDE DEF c
<1>4. /\ DOMAIN cats' = DOMAIN cats
      /\ \A i \in DOMAIN cats \ {c} : cats'[i] = cats[i]
      /\ cats'[c] \in CategoryRow /\ cats'[c].replaced = cats[c].replaced
      /\ cats'[c].version = cats[c].version /\ cats'[c].origin = cats[c].origin
    <2>1. cats'[c] = [cats[c] EXCEPT !.deleted = TRUE]
        BY <1>1, <1>2, <1>3
    <2>2. DOMAIN cats' = DOMAIN cats /\ \A i \in DOMAIN cats \ {c} : cats'[i] = cats[i]
        BY <1>3
    <2> QED BY <2>1, <2>2, <1>2 DEF CategoryRow
<1>5. cats'[c] # None
    BY <1>4, RowsAreSome
<1>6. Rows(cats') = Rows(cats)
    BY <1>1, <1>4, <1>5 DEF Rows
<1>7. Extends(cats, cats', forked')
    BY <1>1, <1>4, <1>6 DEF Extends, Rows
<1>8. cats' \in [Category -> CategoryRow \cup {None}]
    <2> DEFINE CR == CategoryRow
    <2>1. cats \in [Category -> CR \cup {None}] /\ cats'[c] \in CR
        BY <1>4 DEF CatalogInv, CatalogDomains
    <2> HIDE DEF CR
    <2>2. cats' = [i \in DOMAIN cats |-> cats'[i]]
        BY <1>3
    <2>3. cats' \in [Category -> CR \cup {None}]
        BY <2>1, <2>2, <1>4
    <2> QED BY <2>3 DEF CR
<1>9. DeletedUnused'
    <2> SUFFICES ASSUME NEW r \in Record, records[r] # "none", cats'[records[r]].deleted
                 PROVE  records[r] \in stale'
        BY DEF DeletedUnused, CommitDeleteCategory
    <2>1. CASE records[r] = c
        BY <2>1, <1>3 DEF InUse
    <2>2. CASE records[r] # c
        <3>1. cats[records[r]].deleted
            BY <2>2, <1>2, <1>4 DEF CatalogInv, Refs, Rows
        <3> QED BY <3>1, <1>3 DEF CatalogInv, DeletedUnused
    <2> QED BY <2>1, <2>2
<1>10. forked' \subseteq Category \cup Asset /\ forked \subseteq forked'
    BY DEF CommitDeleteCategory, CatalogInv, CatalogDomains
<1> QED BY <1>7, <1>8, <1>9, <1>10, CategoriesWritten DEF CommitDeleteCategory, Finish

LEMMA IntakeCommits ==
    ASSUME CatalogInv, NEW h \in Admin, CommitIntake(h)
    PROVE  CatalogInv' /\ CatalogKept
<1> DEFINE c == tx[h].cat
<1>1. c \in Rows(cats) /\ ~tx[h].row.deleted /\ c \in Category
    BY RowsTyped DEF CommitIntake, Finish, CatalogInv, TxOK, IntakeKnows
<1>2. PICK r \in Record : records' = [records EXCEPT ![r] = c]
    BY DEF CommitIntake
<1>3. CatalogKept
    BY DEF CommitIntake, CatalogKept, SameCategory, SameAsset
<1>4. tx' = [k \in Admin |-> tx'[k]] /\ \A k \in Admin : TxOK(tx[k])'
    BY <1>3, RequestsKnow DEF CommitIntake, Finish
<1>5. stale' = IF cats[c].deleted THEN stale \cup {c} ELSE stale
    BY <1>1 DEF CommitIntake
<1> HIDE DEF c
<1>6. CatalogDomains'
    BY <1>1, <1>2, <1>4 DEF CommitIntake, CatalogInv, CatalogDomains
<1>7. Refs'
    BY <1>1, <1>2 DEF CommitIntake, CatalogInv, CatalogDomains, Refs
<1>8. DeletedUnused'
    BY <1>2, <1>5 DEF CommitIntake, CatalogInv, CatalogDomains, DeletedUnused
<1>9. Line(cats, forked)' /\ Origins(cats)' /\ Line(assets, forked)' /\ Origins(assets)'
    BY DEF CommitIntake, CatalogInv, Line, Origins
<1> QED BY <1>3, <1>4, <1>6, <1>7, <1>8, <1>9 DEF CatalogInv

LEMMA RolledBack ==
    ASSUME CatalogInv, NEW h \in Admin, Rollback(h)
    PROVE  CatalogInv' /\ CatalogKept
<1>1. CatalogKept
    BY DEF Rollback, CatalogKept, SameCategory, SameAsset
<1>2. tx' = [k \in Admin |-> tx'[k]] /\ \A k \in Admin : TxOK(tx[k])'
    BY <1>1, RequestsKnow DEF Rollback
<1>3. CatalogDomains' /\ Refs' /\ Line(cats, forked)' /\ Origins(cats)'
          /\ Line(assets, forked)' /\ Origins(assets)' /\ DeletedUnused'
    BY <1>2 DEF Rollback, CatalogInv, CatalogDomains, Refs, Line, Origins, DeletedUnused
<1> QED BY <1>1, <1>2, <1>3 DEF CatalogInv

\* A step that writes parts of categories, and perhaps new categories.
PartsWritten ==
    /\ cats' \in [Category -> CategoryRow \cup {None}]
    /\ assets' \in [Asset -> AssetRow \cup {None}]
    /\ comps' \in [Component -> ComponentRow \cup {None}]
    /\ slots' \in [PhotoSlot -> SlotRow \cup {None}]
    /\ forked \subseteq forked' /\ forked' \subseteq Category \cup Asset
    /\ Extends(cats, cats', forked')
    /\ \A c \in Rows(cats) : cats'[c] = cats[c]
    /\ Extends(assets, assets', forked')
    /\ \A a \in Rows(assets) : SameAsset(assets'[a], assets[a])
    /\ Rows(comps) \subseteq Rows(comps')

LEMMA PartsKeep ==
    ASSUME CatalogInv, NEW h \in Admin, tx' = tx \/ tx' = [tx EXCEPT ![h] = Idle],
           PartsWritten, Refs', UNCHANGED <<records, stale>>
    PROVE  CatalogInv' /\ CatalogKept
<1> USE DEF PartsWritten
<1>1. Rows(cats) \subseteq Rows(cats') /\ Rows(assets) \subseteq Rows(assets')
    BY DEF Extends
<1>2. CatalogKept
    BY <1>1 DEF CatalogKept, SameCategory
<1>3. Line(cats', forked') /\ Origins(cats')
    <2>1. \A i \in Rows(cats) : cats[i].version \in Nat /\ cats[i].replaced \in BOOLEAN
        BY RowsTyped DEF CatalogInv, CategoryRow
    <2>2. \A i \in Rows(cats') : cats'[i] \in CategoryRow
        BY TableTyped, RowsAreSome
    <2>3. \A i \in Rows(cats') : cats'[i].version \in Nat /\ cats'[i].replaced \in BOOLEAN
        BY <2>2 DEF CategoryRow
    <2> QED BY <2>1, <2>3, LineKept DEF CatalogInv
<1>4. Line(assets', forked') /\ Origins(assets')
    <2>1. \A i \in Rows(assets) : assets[i].version \in Nat /\ assets[i].replaced \in BOOLEAN
        BY RowsTyped DEF CatalogInv, AssetRow
    <2>2. \A i \in Rows(assets') : assets'[i] \in AssetRow
        BY TableTyped, RowsAreSome
    <2>3. \A i \in Rows(assets') : assets'[i].version \in Nat /\ assets'[i].replaced \in BOOLEAN
        BY <2>2 DEF AssetRow
    <2> QED BY <2>1, <2>3, LineKept DEF CatalogInv
<1>5. tx' = [k \in Admin |-> tx'[k]] /\ \A k \in Admin : TxOK(tx[k])'
    BY <1>2, RequestsKnow
<1>6. CatalogDomains'
    BY <1>5 DEF CatalogInv, CatalogDomains
<1>7. DeletedUnused'
    BY DEF CatalogInv, Refs, DeletedUnused
<1> QED BY <1>2, <1>3, <1>4, <1>5, <1>6, <1>7 DEF CatalogInv

LEMMA ExtendsItself ==
    ASSUME NEW table, NEW F
    PROVE  Extends(table, table, F)
BY DEF Extends

LEMMA FirstTyped ==
    ASSUME NEW a \in Asset, NEW c \in Category,
           NEW p \in [kind : Kind, label : Label, body : Value, active : BOOLEAN]
    PROVE  /\ FirstVersion(a, c, p) \in AssetRow /\ FirstVersion(a, c, p).origin = a
           /\ FirstVersion(a, c, p).cat = c
BY DEF FirstVersion, AssetRow

LEMMA AssetAdded ==
    ASSUME CatalogInv, NEW h \in Admin, AddInspectionPrompt(h) \/ AddRedFlagRule(h)
    PROVE  CatalogInv' /\ CatalogKept
<1>1. PICK kind \in Kind : AddAsset(h, kind)
    <2>1. AddAsset(h, "prompt") \/ AddAsset(h, "rule")
        BY DEF AddInspectionPrompt, AddRedFlagRule
    <2> QED BY <2>1 DEF Kind
<1>2. PICK a \in Asset \ Rows(assets), c \in Rows(cats), label \in Label, body \in Value :
          assets' = [assets EXCEPT ![a] = FirstVersion(a, c, Item(kind, label, body, TRUE))]
    BY <1>1 DEF AddAsset
<1> DEFINE p == Item(kind, label, body, TRUE)
           row == FirstVersion(a, c, p)
<1>3. c \in Category
    BY RowsTyped DEF CatalogInv
<1>4. p \in [kind : Kind, label : Label, body : Value, active : BOOLEAN]
    BY DEF Item
<1> HIDE DEF p
<1>5. row \in AssetRow /\ row.origin = a /\ row.cat = c
    BY <1>3, <1>4, FirstTyped
<1>6. row # None
    BY <1>5, RowsAreSome
<1>7. assets' = [assets EXCEPT ![a] = row]
    BY <1>2 DEF p
<1> HIDE DEF row
<1>8. DOMAIN assets = Asset
    BY DEF CatalogInv, CatalogDomains
<1>9. Extends(assets, assets', forked')
    BY <1>2, <1>5, <1>6, <1>7, <1>8, AddedExtends
<1>10. assets' \in [Asset -> AssetRow \cup {None}]
    BY <1>5, <1>7 DEF CatalogInv, CatalogDomains
<1>11. \A b \in Rows(assets) : assets'[b] = assets[b]
    BY <1>2, <1>7, <1>8 DEF Rows
<1>12. UNCHANGED <<cats, comps, slots, records, forked, stale, tx>>
    BY <1>1 DEF AddAsset
<1>13. PartsWritten
    BY <1>9, <1>10, <1>11, <1>12, ExtendsItself DEF PartsWritten, SameAsset, CatalogInv, CatalogDomains
<1>14. Refs'
    <2>1. Rows(assets') = Rows(assets) \cup {a}
        BY <1>2, <1>6, <1>7, <1>8 DEF Rows
    <2> QED BY <2>1, <1>2, <1>5, <1>7, <1>8, <1>11, <1>12 DEF CatalogInv, Refs
<1> QED BY <1>12, <1>13, <1>14, PartsKeep

LEMMA Toggled ==
    ASSUME CatalogInv, NEW h \in Admin, CommitToggle(h)
    PROVE  CatalogInv' /\ CatalogKept
<1> DEFINE a == tx[h].asset
           b == (tx[h].active = "on")
<1>1. a \in Rows(assets)
    BY DEF CommitToggle, Finish, CatalogInv, TxOK, EditKnows
<1>2. assets' = [assets EXCEPT ![a].active = b]
    BY DEF CommitToggle
<1>3. b \in BOOLEAN
    OBVIOUS
<1> HIDE DEF a, b
<1>4. a \in Asset /\ DOMAIN assets = Asset /\ assets[a] \in AssetRow
    BY <1>1, RowsTyped DEF CatalogInv, CatalogDomains
<1>5. /\ DOMAIN assets' = Asset /\ \A i \in Asset \ {a} : assets'[i] = assets[i]
      /\ assets'[a] \in AssetRow /\ SameAsset(assets'[a], assets[a])
      /\ assets'[a].replaced = assets[a].replaced
    <2>1. assets'[a] = [assets[a] EXCEPT !.active = b]
        BY <1>2, <1>4
    <2>2. DOMAIN assets' = Asset /\ \A i \in Asset \ {a} : assets'[i] = assets[i]
        BY <1>2, <1>4
    <2> QED BY <2>1, <2>2, <1>3, <1>4 DEF AssetRow, SameAsset
<1>6. Rows(assets') = Rows(assets)
    BY <1>1, <1>4, <1>5, RowsAreSome DEF Rows
<1>7. \A i \in Rows(assets) : SameAsset(assets'[i], assets[i]) /\ assets'[i].replaced = assets[i].replaced
    BY <1>4, <1>5 DEF SameAsset, Rows
<1>8. Extends(assets, assets', forked')
    BY <1>6, <1>7 DEF Extends, SameAsset
<1>9. assets' \in [Asset -> AssetRow \cup {None}]
    <2> DEFINE AR == AssetRow
    <2>1. assets \in [Asset -> AR \cup {None}] /\ assets'[a] \in AR
        BY <1>5 DEF CatalogInv, CatalogDomains
    <2> HIDE DEF AR
    <2>2. assets' = [i \in DOMAIN assets |-> assets'[i]]
        BY <1>2
    <2>3. assets' \in [Asset -> AR \cup {None}]
        BY <2>1, <2>2, <1>4, <1>5
    <2> QED BY <2>3 DEF AR
<1>10. UNCHANGED <<cats, comps, slots, records, forked, stale>> /\ tx' = [tx EXCEPT ![h] = Idle]
    BY DEF CommitToggle, Finish
<1>11. PartsWritten
    BY <1>7, <1>8, <1>9, <1>10, ExtendsItself DEF PartsWritten, CatalogInv, CatalogDomains
<1>12. Refs'
    BY <1>6, <1>7, <1>10 DEF CatalogInv, Refs, SameAsset
<1> QED BY <1>10, <1>11, <1>12, PartsKeep

LEMMA SuccessorTyped ==
    ASSUME NEW r \in AssetRow, NEW body \in Value
    PROVE  LET s == Successor(r, body) IN
           /\ s \in AssetRow
           /\ s.origin = r.origin /\ s.version = r.version + 1 /\ s.cat = r.cat
<1> DEFINE s == Successor(r, body)
<1> SUFFICES /\ s \in AssetRow
             /\ s.origin = r.origin /\ s.version = r.version + 1 /\ s.cat = r.cat
    OBVIOUS
<1>1. r = [kind |-> r.kind, cat |-> r.cat, label |-> r.label, body |-> r.body, active |-> r.active,
           version |-> r.version, replaced |-> r.replaced, origin |-> r.origin]
    BY DEF AssetRow
<1>2. s = [kind |-> r.kind, cat |-> r.cat, label |-> r.label, body |-> body, active |-> r.active,
           version |-> r.version + 1, replaced |-> FALSE, origin |-> r.origin]
    <2>1. s = [r EXCEPT !.body = body, !.version = r.version + 1, !.replaced = FALSE]
        BY DEF Successor
    <2> HIDE DEF s
    <2> QED BY <1>1, <2>1
<1> HIDE DEF s
<1> QED BY <1>2 DEF AssetRow

\* A row of assets is superseded by another.
LEMMA EditCommits ==
    ASSUME CatalogInv, NEW h \in Admin, CommitEdit(h)
    PROVE  CatalogInv' /\ CatalogKept
<1> DEFINE t == tx[h]
           old == t.asset
           on == IF t.active = Same THEN Successor(t.row, t.body).active ELSE (t.active = "on")
           new == [Successor(t.row, t.body) EXCEPT !.active = on]
<1>1. /\ old \in Rows(assets) /\ t.row \in AssetRow /\ SameAsset(t.row, assets[old]) /\ ~t.row.replaced
      /\ t.body \in Value
    BY DEF CommitEdit, Finish, CatalogInv, TxOK, EditKnows
<1>2. PICK a \in Asset \ Rows(assets) :
          assets' = [assets EXCEPT ![old].replaced = TRUE, ![a] = new]
    BY DEF CommitEdit
<1>3. forked' = IF assets[old].replaced THEN forked \cup {t.row.origin} ELSE forked
    BY <1>1 DEF CommitEdit
<1>4. new \in AssetRow /\ new.origin = t.row.origin /\ new.version = t.row.version + 1
          /\ new.cat = t.row.cat
    <2> DEFINE s == Successor(t.row, t.body)
    <2>1. s \in AssetRow /\ s.origin = t.row.origin /\ s.version = t.row.version + 1
              /\ s.cat = t.row.cat
        BY <1>1, SuccessorTyped
    <2>2. on \in BOOLEAN
        BY <2>1 DEF AssetRow
    <2>3. new = [s EXCEPT !.active = on]
        OBVIOUS
    <2> HIDE DEF on, new, s, t
    <2>4. s = [kind |-> s.kind, cat |-> s.cat, label |-> s.label, body |-> s.body, active |-> s.active,
               version |-> s.version, replaced |-> s.replaced, origin |-> s.origin]
        BY <2>1 DEF AssetRow
    <2>5. new = [kind |-> s.kind, cat |-> s.cat, label |-> s.label, body |-> s.body, active |-> on,
                 version |-> s.version, replaced |-> s.replaced, origin |-> s.origin]
        BY <2>3, <2>4
    <2> QED BY <2>1, <2>2, <2>5 DEF AssetRow
<1>5. UNCHANGED <<cats, comps, slots, records, stale>> /\ tx' = [tx EXCEPT ![h] = Idle]
    BY DEF CommitEdit, Finish
<1> HIDE DEF new, old, t
<1>6. old \in Asset /\ DOMAIN assets = Asset /\ assets[old] \in AssetRow /\ old # a
    BY <1>1, <1>2, RowsTyped DEF CatalogInv, CatalogDomains
<1>7. /\ DOMAIN assets' = Asset /\ assets'[a] = new
      /\ \A i \in Asset \ {old, a} : assets'[i] = assets[i]
      /\ assets'[old] \in AssetRow /\ SameAsset(assets'[old], assets[old]) /\ assets'[old].replaced
    <2>1. assets'[old] = [assets[old] EXCEPT !.replaced = TRUE]
        BY <1>2, <1>6
    <2>2. /\ DOMAIN assets' = Asset /\ assets'[a] = new
          /\ \A i \in Asset \ {old, a} : assets'[i] = assets[i]
        BY <1>2, <1>6
    <2> QED BY <2>1, <2>2, <1>6 DEF AssetRow, SameAsset
<1>8. Extends(assets, assets', forked') /\ Rows(assets') = Rows(assets) \cup {a}
    <2>1. Follows(a, old, assets, assets', forked')
        BY <1>1, <1>3, <1>4, <1>7 DEF Follows, SameAsset
    <2>2. assets'[old] # None /\ assets'[a] # None
        BY <1>4, <1>7, RowsAreSome
    <2>3. /\ a \in DOMAIN assets \ Rows(assets) /\ old \in Rows(assets) /\ DOMAIN assets' = DOMAIN assets
          /\ \A i \in DOMAIN assets \ {old, a} : assets'[i] = assets[i]
          /\ assets'[old].version = assets[old].version /\ assets'[old].origin = assets[old].origin
        BY <1>1, <1>2, <1>6, <1>7 DEF SameAsset
    <2>4. Supersedes(a, old, assets, assets', forked')
        BY <2>1, <2>2, <2>3 DEF Supersedes
    <2> QED BY <2>4, SupersededExtends
<1>9. assets' \in [Asset -> AssetRow \cup {None}]
    <2> DEFINE AR == AssetRow
    <2>1. assets \in [Asset -> AR \cup {None}] /\ assets'[old] \in AR /\ new \in AR
        BY <1>4, <1>7 DEF CatalogInv, CatalogDomains
    <2> HIDE DEF AR
    <2>2. assets' = [i \in DOMAIN assets |-> assets'[i]]
        BY <1>2
    <2>3. assets' \in [Asset -> AR \cup {None}]
        BY <2>1, <2>2, <1>6, <1>7
    <2> QED BY <2>3 DEF AR
<1>10. forked \subseteq forked' /\ forked' \subseteq Category \cup Asset
    BY <1>1, <1>3 DEF CatalogInv, CatalogDomains, AssetRow
<1>11. \A i \in Rows(assets) : SameAsset(assets'[i], assets[i])
    BY <1>2, <1>6, <1>7 DEF SameAsset, Rows
<1>12. PartsWritten
    BY <1>5, <1>8, <1>9, <1>10, <1>11, ExtendsItself DEF PartsWritten, CatalogInv, CatalogDomains
<1>13. Refs'
    <2>1. assets'[a].cat \in Rows(cats)
        BY <1>1, <1>4, <1>7 DEF CatalogInv, Refs, SameAsset
    <2>2. \A i \in Rows(assets) : assets'[i].cat \in Rows(cats)
        BY <1>11 DEF CatalogInv, Refs, SameAsset
    <2> QED BY <1>5, <1>8, <2>1, <2>2 DEF CatalogInv, Refs
<1> QED BY <1>5, <1>12, <1>13, PartsKeep

LEMMA ComponentsWritten ==
    ASSUME CatalogInv, NEW h \in Admin, tx' = tx, UNCHANGED <<cats, assets, slots, records, forked, stale>>,
           comps' \in [Component -> ComponentRow \cup {None}], Rows(comps) \subseteq Rows(comps'),
           \A k \in Rows(comps') : comps'[k].cat \in Rows(cats)
    PROVE  CatalogInv' /\ CatalogKept
<1>1. PartsWritten
    BY ExtendsItself DEF PartsWritten, CatalogInv, CatalogDomains, SameAsset
<1>2. Refs'
    BY DEF CatalogInv, Refs
<1> QED BY <1>1, <1>2, PartsKeep

LEMMA SlotsWritten ==
    ASSUME CatalogInv, NEW h \in Admin, tx' = tx, UNCHANGED <<cats, assets, comps, records, forked, stale>>,
           slots' \in [PhotoSlot -> SlotRow \cup {None}],
           \A l \in Rows(slots') : slots'[l].cat \in Rows(cats)
    PROVE  CatalogInv' /\ CatalogKept
<1>1. PartsWritten
    BY ExtendsItself DEF PartsWritten, CatalogInv, CatalogDomains, SameAsset
<1>2. Refs'
    BY DEF CatalogInv, Refs
<1> QED BY <1>1, <1>2, PartsKeep

LEMMA ComponentAdded ==
    ASSUME CatalogInv, NEW h \in Admin, AddComponent(h)
    PROVE  CatalogInv' /\ CatalogKept
<1>1. PICK k \in Component \ Rows(comps), c \in Rows(cats), name \in Label, weight \in Weight :
          comps' = [comps EXCEPT ![k] = [cat |-> c, name |-> name, weight |-> weight]]
    BY DEF AddComponent
<1> DEFINE row == [cat |-> c, name |-> name, weight |-> weight]
<1>2. row \in ComponentRow /\ row.cat = c
    BY RowsTyped DEF CatalogInv, ComponentRow
<1>3. row # None
    BY <1>2, RowsAreSome
<1> HIDE DEF row
<1>4. comps' = [comps EXCEPT ![k] = row]
    BY <1>1 DEF row
<1>5. comps \in [Component -> ComponentRow \cup {None}]
    BY DEF CatalogInv, CatalogDomains
<1>6. comps' \in [Component -> ComponentRow \cup {None}]
    BY <1>2, <1>4, <1>5
<1>7. Rows(comps') = Rows(comps) \cup {k} /\ \A i \in Rows(comps) : comps'[i] = comps[i]
    BY <1>1, <1>3, <1>4, <1>5 DEF Rows
<1>8. \A i \in Rows(comps') : comps'[i].cat \in Rows(cats)
    BY <1>1, <1>2, <1>4, <1>5, <1>7 DEF CatalogInv, Refs
<1> QED BY <1>6, <1>7, <1>8, ComponentsWritten DEF AddComponent

LEMMA ComponentUpdated ==
    ASSUME CatalogInv, NEW h \in Admin, UpdateComponent(h)
    PROVE  CatalogInv' /\ CatalogKept
<1>1. PICK k \in Rows(comps), weight \in Weight : comps' = [comps EXCEPT ![k].weight = weight]
    BY DEF UpdateComponent
<1> DEFINE KR == ComponentRow
           row == [comps[k] EXCEPT !.weight = weight]
<1>2. comps \in [Component -> KR \cup {None}]
    BY DEF CatalogInv, CatalogDomains
<1>3. comps[k] \in KR /\ k \in Component
    BY RowsTyped DEF CatalogInv
<1>4. row \in KR /\ row.cat = comps[k].cat
    BY <1>3 DEF ComponentRow
<1>5. row # None
    BY <1>4, RowsAreSome
<1>6. comps' = [comps EXCEPT ![k] = row]
    BY <1>1
<1> HIDE DEF KR, row
<1>7. comps' \in [Component -> KR \cup {None}]
    BY <1>2, <1>4, <1>6
<1>8. Rows(comps') = Rows(comps) /\ \A i \in Rows(comps) : comps'[i].cat = comps[i].cat
    BY <1>2, <1>3, <1>4, <1>5, <1>6 DEF Rows
<1>9. \A i \in Rows(comps') : comps'[i].cat \in Rows(cats)
    BY <1>8 DEF CatalogInv, Refs
<1> QED BY <1>7, <1>8, <1>9, ComponentsWritten DEF UpdateComponent, KR

LEMMA SlotAdded ==
    ASSUME CatalogInv, NEW h \in Admin, AddPhotoSlot(h)
    PROVE  CatalogInv' /\ CatalogKept
<1>1. PICK l \in PhotoSlot \ Rows(slots), c \in Rows(cats), label \in Label, required \in BOOLEAN :
          slots' = [slots EXCEPT ![l] = [cat |-> c, label |-> label, required |-> required,
                                         active |-> TRUE]]
    BY DEF AddPhotoSlot
<1> DEFINE row == [cat |-> c, label |-> label, required |-> required, active |-> TRUE]
<1>2. row \in SlotRow /\ row.cat = c
    BY RowsTyped DEF CatalogInv, SlotRow
<1>3. row # None
    BY <1>2, RowsAreSome
<1> HIDE DEF row
<1>4. slots' = [slots EXCEPT ![l] = row]
    BY <1>1 DEF row
<1>5. slots \in [PhotoSlot -> SlotRow \cup {None}]
    BY DEF CatalogInv, CatalogDomains
<1>6. slots' \in [PhotoSlot -> SlotRow \cup {None}]
    BY <1>2, <1>4, <1>5
<1>7. \A i \in Rows(slots') : slots'[i].cat \in Rows(cats)
    BY <1>2, <1>3, <1>4, <1>5 DEF CatalogInv, Refs, Rows
<1> QED BY <1>6, <1>7, SlotsWritten DEF AddPhotoSlot

LEMMA SlotUpdated ==
    ASSUME CatalogInv, NEW h \in Admin, UpdatePhotoSlot(h)
    PROVE  CatalogInv' /\ CatalogKept
<1>1. PICK l \in Rows(slots), label \in Label, required \in BOOLEAN, active \in BOOLEAN :
          slots' = [slots EXCEPT ![l] = [@ EXCEPT !.label = label, !.required = required,
                                                  !.active = active]]
    BY DEF UpdatePhotoSlot
<1> DEFINE LR == SlotRow
           old == slots[l]
           row == [old EXCEPT !.label = label, !.required = required, !.active = active]
<1>2. slots \in [PhotoSlot -> LR \cup {None}]
    BY DEF CatalogInv, CatalogDomains
<1>3. old \in SlotRow /\ l \in PhotoSlot
    BY RowsTyped DEF CatalogInv
<1>4. slots' = [slots EXCEPT ![l] = row]
    BY <1>1
<1>5. row \in SlotRow /\ row.cat = old.cat
    <2> HIDE DEF old
    <2>1. old \in SlotRow
        BY <1>3
    <2>2. [old EXCEPT !.label = label] \in SlotRow /\ [old EXCEPT !.label = label].cat = old.cat
        BY <2>1 DEF SlotRow
    <2>3. ASSUME NEW x \in SlotRow
          PROVE  [x EXCEPT !.required = required] \in SlotRow
                     /\ [x EXCEPT !.required = required].cat = x.cat
        BY DEF SlotRow
    <2>4. ASSUME NEW x \in SlotRow
          PROVE  [x EXCEPT !.active = active] \in SlotRow /\ [x EXCEPT !.active = active].cat = x.cat
        BY DEF SlotRow
    <2> DEFINE x1 == [old EXCEPT !.label = label]
               x2 == [x1 EXCEPT !.required = required]
    <2>5. row = [x2 EXCEPT !.active = active]
        OBVIOUS
    <2>6. x2 \in SlotRow /\ x2.cat = old.cat
        BY <2>2, <2>3
    <2> HIDE DEF x2, row
    <2> QED BY <2>4, <2>5, <2>6
<1>6. row \in LR /\ row # None
    BY <1>5, RowsAreSome
<1> HIDE DEF LR, row
<1>7. slots' \in [PhotoSlot -> LR \cup {None}]
    BY <1>2, <1>4, <1>6
<1>8. \A i \in Rows(slots') : i \in Rows(slots) /\ slots'[i].cat = slots[i].cat
    BY <1>2, <1>3, <1>4, <1>5 DEF Rows
<1>9. \A i \in Rows(slots') : slots'[i].cat \in Rows(cats)
    BY <1>8 DEF CatalogInv, Refs
<1> QED BY <1>7, <1>9, SlotsWritten DEF UpdatePhotoSlot, LR

-----------------------------------------------------------------------------
(* Imports                                                                 *)

ImportsAssets(c) ==
    /\ assets' \in [Asset -> AssetRow \cup {None}]
    /\ Extends(assets, assets', forked')
    /\ \A a \in Rows(assets) : SameAsset(assets'[a], assets[a])
    /\ \A a \in Rows(assets') : assets'[a].cat \in Rows(cats) \cup {c}
    /\ forked \subseteq forked' /\ forked' \subseteq Category \cup Asset

LEMMA AssetsImported ==
    ASSUME CatalogInv, NEW t, t.payload \in PayloadRow, Importable(t.payload), AssetsRead(t),
           NEW c \in Category, ImportAssets(t, c)
    PROVE  ImportsAssets(c)
<1> DEFINE Matching(p) == {a \in DOMAIN t.assets : t.assets[a].kind = p.kind /\ t.assets[a].label = p.label}
           items == t.payload.assets
           matched == {p \in items : Matching(p) # {}}
<1>1. PICK pick \in [matched -> DOMAIN t.assets] :
          LET changed == {p \in matched : t.assets[pick[p]].body # p.body}
              old == {pick[p] : p \in changed} IN
          /\ \A p \in matched : pick[p] \in Matching(p)
          /\ \E at \in Places(changed \cup (items \ matched), Asset \ Rows(assets)) :
                 assets' = Put([a \in Asset |-> IF a \in old THEN [assets[a] EXCEPT !.replaced = TRUE]
                                                ELSE assets[a]],
                               at, LAMBDA p : IF p \in changed THEN Successor(t.assets[pick[p]], p.body)
                                              ELSE FirstVersion(at[p], c, p))
          /\ forked' = forked \cup {assets[a].origin : a \in {b \in old : assets[b].replaced}}
    BY DEF ImportAssets
<1> DEFINE changed == {p \in matched : t.assets[pick[p]].body # p.body}
           old == {pick[p] : p \in changed}
           written == changed \cup (items \ matched)
           kept == [a \in Asset |-> IF a \in old THEN [assets[a] EXCEPT !.replaced = TRUE] ELSE assets[a]]
<1>2. PICK at \in Places(written, Asset \ Rows(assets)) :
          assets' = Put(kept, at, LAMBDA p : IF p \in changed THEN Successor(t.assets[pick[p]], p.body)
                                             ELSE FirstVersion(at[p], c, p))
    BY <1>1
<1> DEFINE Row(p) == IF p \in changed THEN Successor(t.assets[pick[p]], p.body) ELSE FirstVersion(at[p], c, p)
           new == {at[p] : p \in written}
           who(i) == CHOOSE p \in written : at[p] = i
<1>3. /\ at \in [written -> Asset \ Rows(assets)]
      /\ \A p, q \in written : at[p] = at[q] => p = q
    BY DEF Places
<1>4. assets' = [i \in Asset |-> IF i \in new THEN Row(who(i)) ELSE kept[i]]
    <2>1. DOMAIN at = written /\ DOMAIN kept = Asset
        BY <1>3
    <2>2. assets' = [i \in Asset |-> IF \E p \in written : at[p] = i
                                     THEN Row(CHOOSE p \in written : at[p] = i) ELSE kept[i]]
        BY <1>2, <2>1 DEF Put
    <2> QED BY <2>2
<1>5. \A i \in new : who(i) \in written /\ at[who(i)] = i
    OBVIOUS
<1>6. \A p \in changed : /\ p \in items /\ pick[p] \in DOMAIN t.assets
                         /\ t.assets[pick[p]].kind = p.kind /\ t.assets[pick[p]].label = p.label
    BY <1>1
<1>7. \A p, q \in items : p.kind = q.kind /\ p.label = q.label => p = q
    BY DEF Importable, Distinct
<1>8. /\ \A a \in old : \E p \in changed : a = pick[p]
      /\ \A i \in new : \E p \in written : i = at[p]
    OBVIOUS
<1>9. \A p \in items : p \in [kind : Kind, label : Label, body : Value, active : BOOLEAN]
    BY DEF PayloadRow
<1>10. /\ DOMAIN t.assets \subseteq Rows(assets)
       /\ \A a \in DOMAIN t.assets : t.assets[a] \in AssetRow /\ SameAsset(t.assets[a], assets[a])
       /\ \A a, b \in DOMAIN t.assets :
              a # b /\ t.assets[a].origin = t.assets[b].origin => t.assets[a].origin \in forked
    BY DEF AssetsRead
<1>11. \A p \in written : (p \in changed \/ p \notin changed) /\ p \in items
    OBVIOUS
<1>12. forked' = forked \cup {assets[a].origin : a \in {b \in old : assets[b].replaced}}
    BY <1>1
<1>14. \A p \in changed : pick[p] \in old
    OBVIOUS
<1>15. \A i \in Asset : kept[i] = IF i \in old THEN [assets[i] EXCEPT !.replaced = TRUE] ELSE assets[i]
    OBVIOUS
<1> HIDE DEF matched, changed, old, written, kept, new, who, items, Matching
<1>13. old \subseteq Rows(assets) /\ new \subseteq Asset \ Rows(assets)
    BY <1>3, <1>6, <1>8, <1>10
<1>26. \A p, q \in changed : pick[p] = pick[q] => p = q
    BY <1>6, <1>7
<1>16. \A p \in written : LET r == Row(p) IN
           /\ r \in AssetRow /\ r.cat \in Rows(cats) \cup {c}
           /\ p \in changed => /\ r.origin = assets[pick[p]].origin
                               /\ r.version = assets[pick[p]].version + 1
           /\ p \notin changed => r.origin = at[p]
    <2> TAKE p \in written
    <2> DEFINE r == Row(p)
    <2> SUFFICES /\ r \in AssetRow /\ r.cat \in Rows(cats) \cup {c}
                 /\ p \in changed => /\ r.origin = assets[pick[p]].origin
                                     /\ r.version = assets[pick[p]].version + 1
                 /\ p \notin changed => r.origin = at[p]
        OBVIOUS
    <2>1. p.body \in Value
        BY <1>9, <1>11
    <2>2. CASE p \in changed
        <3> DEFINE q == t.assets[pick[p]]
        <3>1. q \in AssetRow /\ SameAsset(q, assets[pick[p]]) /\ pick[p] \in Rows(assets)
            BY <1>6, <1>10, <2>2
        <3>2. r = Successor(q, p.body)
            BY <2>2
        <3> HIDE DEF q, r
        <3>3. /\ r \in AssetRow
              /\ r.origin = q.origin /\ r.version = q.version + 1 /\ r.cat = q.cat
            BY <2>1, <3>1, <3>2, SuccessorTyped
        <3>4. r.cat \in Rows(cats)
            BY <3>1, <3>3 DEF SameAsset, CatalogInv, Refs
        <3> QED BY <2>2, <3>1, <3>3, <3>4 DEF SameAsset
    <2>3. CASE p \notin changed
        <3>1. r = FirstVersion(at[p], c, p) /\ at[p] \in Asset
            BY <1>3, <2>3
        <3> HIDE DEF r
        <3>2. r \in AssetRow /\ r.origin = at[p] /\ r.cat = c
            BY <1>9, <1>11, <3>1, FirstTyped
        <3> QED BY <2>3, <3>2
    <2> QED BY <2>2, <2>3
<1>17. \A i \in new : /\ who(i) \in written /\ at[who(i)] = i /\ assets'[i] = Row(who(i))
                      /\ i \in Asset \ Rows(assets)
    BY <1>4, <1>5, <1>13
<1>18. \A i \in Asset \ new : assets'[i] = kept[i]
    BY <1>4
<1> HIDE DEF Row
<1>19. \A i \in Rows(assets) :
           /\ i \in Asset \ new /\ assets[i] \in AssetRow
           /\ assets'[i] \in AssetRow /\ SameAsset(assets'[i], assets[i])
           /\ (assets[i].replaced \/ i \in old) => assets'[i].replaced
    <2> TAKE i \in Rows(assets)
    <2>1. i \in Asset \ new /\ assets[i] \in AssetRow
        BY <1>13, RowsTyped DEF CatalogInv
    <2>2. assets'[i] = IF i \in old THEN [assets[i] EXCEPT !.replaced = TRUE] ELSE assets[i]
        BY <1>15, <1>18, <2>1
    <2>3. CASE i \in old
        <3>1. assets'[i] = [assets[i] EXCEPT !.replaced = TRUE]
            BY <2>2, <2>3
        <3> QED BY <2>1, <3>1 DEF AssetRow, SameAsset
    <2>4. CASE i \notin old
        BY <2>1, <2>2, <2>4 DEF SameAsset
    <2> QED BY <2>1, <2>3, <2>4
<1>20. \A i \in Asset \ (Rows(assets) \cup new) : assets'[i] = None
    BY <1>13, <1>15, <1>18 DEF Rows, CatalogInv, CatalogDomains
<1>21. Rows(assets') = Rows(assets) \cup new
    <2>1. DOMAIN assets' = Asset
        BY <1>4
    <2>2. \A i \in Rows(assets) : i \in Asset /\ assets'[i] # None
        BY <1>19, RowsAreSome
    <2>3. \A i \in new : i \in Asset /\ assets'[i] # None
        BY <1>16, <1>17, RowsAreSome
    <2> QED BY <1>20, <2>1, <2>2, <2>3 DEF Rows
<1>22. assets' \in [Asset -> AssetRow \cup {None}]
    <2>1. assets' = [i \in Asset |-> assets'[i]]
        BY <1>4
    <2>2. \A i \in Asset : assets'[i] \in AssetRow \cup {None}
        BY <1>16, <1>17, <1>19, <1>20
    <2> QED BY <2>1, <2>2
<1>23. Extends(assets, assets', forked')
    <2>1. \A i \in Rows(assets) : /\ i \in Rows(assets')
                                  /\ assets'[i].version = assets[i].version
                                  /\ assets'[i].origin = assets[i].origin
                                  /\ assets[i].replaced => assets'[i].replaced
        BY <1>19, <1>21 DEF SameAsset
    <2>2. \A n \in new : assets'[n].origin = n
                             \/ \E a \in Rows(assets) : Follows(n, a, assets, assets', forked')
        <3> TAKE n \in new
        <3> DEFINE p == who(n)
        <3>1. p \in written /\ at[p] = n /\ assets'[n] = Row(p)
            BY <1>17
        <3> HIDE DEF p
        <3>2. CASE p \notin changed
            BY <1>16, <3>1, <3>2
        <3>3. CASE p \in changed
            <4>1. pick[p] \in old /\ pick[p] \in Rows(assets)
                BY <1>13, <1>14, <3>3
            <4>2. assets[pick[p]].replaced => assets[pick[p]].origin \in forked'
                BY <1>12, <4>1
            <4>3. Follows(n, pick[p], assets, assets', forked')
                BY <1>16, <1>19, <3>1, <3>3, <4>1, <4>2 DEF Follows
            <4> QED BY <4>1, <4>3
        <3> QED BY <3>2, <3>3
    <2>3. ASSUME NEW n \in new, NEW m \in new, n # m, assets'[n].origin = assets'[m].origin
          PROVE  assets'[n].origin \in forked'
        <3> DEFINE p == who(n)
                   q == who(m)
        <3>1. /\ p \in written /\ at[p] = n /\ assets'[n] = Row(p)
              /\ q \in written /\ at[q] = m /\ assets'[m] = Row(q)
            BY <1>17
        <3> HIDE DEF p, q
        <3>2. p # q
            BY <2>3, <3>1
        <3>3. CASE p \in changed /\ q \in changed
            <4>1. /\ pick[p] # pick[q] /\ pick[p] \in DOMAIN t.assets /\ pick[q] \in DOMAIN t.assets
                BY <1>6, <1>26, <3>2, <3>3
            <4>2. /\ t.assets[pick[p]].origin = assets[pick[p]].origin
                  /\ t.assets[pick[q]].origin = assets[pick[q]].origin
                BY <1>10, <4>1 DEF SameAsset
            <4>3. assets'[n].origin = assets[pick[p]].origin /\ assets'[m].origin = assets[pick[q]].origin
                BY <1>16, <3>1, <3>3
            <4>4. assets'[n].origin \in forked
                BY <1>10, <2>3, <4>1, <4>2, <4>3
            <4> QED BY <1>12, <4>4
        <3>4. ASSUME NEW x \in written, NEW y \in written, x \notin changed, y \in changed
              PROVE  Row(x).origin # Row(y).origin
            <4>1. Row(x).origin = at[x] /\ at[x] \notin Rows(assets)
                BY <1>3, <1>16, <3>4
            <4>2. pick[y] \in Rows(assets)
                BY <1>13, <1>14, <3>4
            <4>3. Row(y).origin = assets[pick[y]].origin
                BY <1>16, <3>4
            <4>4. Row(y).origin \in Rows(assets)
                BY <4>2, <4>3 DEF CatalogInv, Origins
            <4> QED BY <4>1, <4>4
        <3>5. CASE p \notin changed /\ q \notin changed
            BY <1>16, <2>3, <3>1, <3>5
        <3> QED BY <2>3, <3>1, <3>3, <3>4, <3>5
    <2>4. Rows(assets') \ Rows(assets) \subseteq new
        BY <1>21
    <2> QED BY <2>1, <2>2, <2>3, <2>4 DEF Extends
<1>24. \A a \in Rows(assets') : assets'[a].cat \in Rows(cats) \cup {c}
    <2>1. \A a \in Rows(assets) : assets'[a].cat \in Rows(cats)
        BY <1>19 DEF SameAsset, CatalogInv, Refs
    <2>2. \A a \in new : assets'[a].cat \in Rows(cats) \cup {c}
        BY <1>16, <1>17
    <2> QED BY <1>21, <2>1, <2>2
<1>25. forked \subseteq forked' /\ forked' \subseteq Category \cup Asset
    <2>1. \A a \in old : assets[a].origin \in Asset
        BY <1>13, <1>19 DEF AssetRow
    <2> QED BY <1>12, <2>1 DEF CatalogInv, CatalogDomains
<1> QED BY <1>19, <1>22, <1>23, <1>24, <1>25 DEF ImportsAssets

ImportsComponents(c) ==
    /\ comps' \in [Component -> ComponentRow \cup {None}]
    /\ Rows(comps) \subseteq Rows(comps')
    /\ \A k \in Rows(comps') : comps'[k].cat \in Rows(cats) \cup {c}

LEMMA ComponentsImported ==
    ASSUME CatalogInv, NEW t, t.payload \in PayloadRow, NEW c \in Category, ImportComponents(t, c)
    PROVE  ImportsComponents(c)
<1> DEFINE Matching(p) == {k \in DOMAIN t.comps : t.comps[k].name = p.name}
           written == {p \in t.payload.comps : \A k \in Matching(p) : t.comps[k].weight # p.weight}
<1>1. PICK at \in Places(written, Component) :
          comps' = Put(comps, at, LAMBDA p : [cat |-> c, name |-> p.name, weight |-> p.weight])
    BY DEF ImportComponents
<1> DEFINE Row(p) == [cat |-> c, name |-> p.name, weight |-> p.weight]
           new == {at[p] : p \in written}
           who(i) == CHOOSE p \in written : at[p] = i
<1>2. at \in [written -> Component] /\ DOMAIN comps = Component
    BY DEF Places, CatalogInv, CatalogDomains
<1>3. comps' = [i \in Component |-> IF i \in new THEN Row(who(i)) ELSE comps[i]]
    <2>1. DOMAIN at = written
        BY <1>2
    <2>2. comps' = [i \in Component |-> IF \E p \in written : at[p] = i
                                        THEN Row(CHOOSE p \in written : at[p] = i) ELSE comps[i]]
        BY <1>1, <1>2, <2>1 DEF Put
    <2> QED BY <2>2
<1>4. \A i \in new : who(i) \in written
    OBVIOUS
<1>5. \A p \in written : p \in [name : Label, weight : Weight]
    BY DEF PayloadRow
<1> HIDE DEF written, new, who
<1>6. \A p \in written : Row(p) \in ComponentRow /\ Row(p).cat = c
    BY <1>5 DEF ComponentRow
<1> HIDE DEF Row
<1>7. \A i \in Component :
          (comps'[i] \in ComponentRow /\ comps'[i].cat = c) \/ comps'[i] = comps[i]
    BY <1>3, <1>4, <1>6
<1>8. DOMAIN comps' = Component /\ comps' = [i \in Component |-> comps'[i]]
    BY <1>3
<1>9. \A i \in Component : comps[i] \in ComponentRow \cup {None}
    BY DEF CatalogInv, CatalogDomains
<1>10. comps' \in [Component -> ComponentRow \cup {None}]
    BY <1>7, <1>8, <1>9
<1>11. Rows(comps) \subseteq Rows(comps')
    BY <1>2, <1>7, <1>8, RowsAreSome DEF Rows
<1>12. \A k \in Rows(comps') : comps'[k].cat \in Rows(cats) \cup {c}
    BY <1>2, <1>7, <1>8 DEF Rows, CatalogInv, Refs
<1> QED BY <1>10, <1>11, <1>12 DEF ImportsComponents

ImportsSlots(c) ==
    /\ slots' \in [PhotoSlot -> SlotRow \cup {None}]
    /\ \A l \in Rows(slots') : slots'[l].cat \in Rows(cats) \cup {c}

LEMMA SlotsImported ==
    ASSUME CatalogInv, NEW t, t.payload \in PayloadRow, NEW c \in Category, ImportSlots(t, c)
    PROVE  ImportsSlots(c)
<1> DEFINE written == {p \in t.payload.slots : \A l \in DOMAIN t.slots : t.slots[l].label # p.label}
<1>1. PICK at \in Places(written, PhotoSlot \ Rows(slots)) :
          slots' = Put(slots, at, LAMBDA p : [cat |-> c, label |-> p.label,
                                              required |-> p.required, active |-> p.active])
    BY DEF ImportSlots
<1> DEFINE Row(p) == [cat |-> c, label |-> p.label, required |-> p.required, active |-> p.active]
           new == {at[p] : p \in written}
           who(i) == CHOOSE p \in written : at[p] = i
<1>2. at \in [written -> PhotoSlot \ Rows(slots)] /\ DOMAIN slots = PhotoSlot
    BY DEF Places, CatalogInv, CatalogDomains
<1>3. slots' = [i \in PhotoSlot |-> IF i \in new THEN Row(who(i)) ELSE slots[i]]
    <2>1. DOMAIN at = written
        BY <1>2
    <2>2. slots' = [i \in PhotoSlot |-> IF \E p \in written : at[p] = i
                                        THEN Row(CHOOSE p \in written : at[p] = i) ELSE slots[i]]
        BY <1>1, <1>2, <2>1 DEF Put
    <2> QED BY <2>2
<1>4. \A i \in new : who(i) \in written
    OBVIOUS
<1>5. \A p \in written : p \in [label : Label, required : BOOLEAN, active : BOOLEAN]
    BY DEF PayloadRow
<1> HIDE DEF written, new, who
<1>6. \A p \in written : Row(p) \in SlotRow /\ Row(p).cat = c
    BY <1>5 DEF SlotRow
<1> HIDE DEF Row
<1>7. \A i \in PhotoSlot : (slots'[i] \in SlotRow /\ slots'[i].cat = c) \/ slots'[i] = slots[i]
    BY <1>3, <1>4, <1>6
<1>8. DOMAIN slots' = PhotoSlot /\ slots' = [i \in PhotoSlot |-> slots'[i]]
    BY <1>3
<1>9. \A i \in PhotoSlot : slots[i] \in SlotRow \cup {None}
    BY DEF CatalogInv, CatalogDomains
<1>10. slots' \in [PhotoSlot -> SlotRow \cup {None}]
    BY <1>7, <1>8, <1>9
<1>11. \A l \in Rows(slots') : slots'[l].cat \in Rows(cats) \cup {c}
    BY <1>2, <1>7, <1>8 DEF Rows, CatalogInv, Refs
<1> QED BY <1>10, <1>11 DEF ImportsSlots

LEMMA ImportCommits ==
    ASSUME CatalogInv, NEW h \in Admin, CommitImport(h)
    PROVE  CatalogInv' /\ CatalogKept
<1> DEFINE t == tx[h]
<1>1. PICK c \in IF t.into # {} THEN t.into ELSE Category \ Rows(cats) :
          /\ IF t.into # {} THEN UNCHANGED cats
             ELSE BySlug(t.slug) = {} /\ cats' = [cats EXCEPT ![c] = NewCategory(c, t.slug, t.payload.status)]
          /\ ImportAssets(t, c) /\ ImportComponents(t, c) /\ ImportSlots(t, c)
    BY DEF CommitImport
<1>2. UNCHANGED <<records, stale>> /\ tx' = [tx EXCEPT ![h] = Idle]
    BY DEF CommitImport, Finish
<1>3. /\ t.slug \in Slug /\ t.into \subseteq Rows(cats)
      /\ t.payload \in PayloadRow /\ Importable(t.payload) /\ AssetsRead(t)
    BY DEF CommitImport, Finish, CatalogInv, TxOK, ImportKnows
<1> HIDE DEF t
<1>4. c \in Category /\ Rows(cats) \subseteq Category
    BY <1>1, <1>3, RowsTyped DEF CatalogInv
<1>5. ImportsAssets(c)
    BY <1>1, <1>3, <1>4, AssetsImported
<1>6. ImportsComponents(c)
    BY <1>1, <1>3, <1>4, ComponentsImported
<1>7. ImportsSlots(c)
    BY <1>1, <1>3, <1>4, SlotsImported
<1>8. /\ cats' \in [Category -> CategoryRow \cup {None}]
      /\ Extends(cats, cats', forked')
      /\ \A i \in Rows(cats) : cats'[i] = cats[i]
      /\ Rows(cats') = Rows(cats) \cup {c}
    <2>1. CASE t.into # {}
        <3>1. cats' = cats /\ c \in Rows(cats)
            BY <1>1, <1>3, <2>1
        <3> QED BY <3>1, ExtendsItself DEF CatalogInv, CatalogDomains
    <2>2. CASE t.into = {}
        <3> DEFINE row == NewCategory(c, t.slug, t.payload.status)
        <3>1. cats' = [cats EXCEPT ![c] = row] /\ c \in Category \ Rows(cats)
            BY <1>1, <2>2
        <3>2. t.payload.status \in Status
            BY <1>3 DEF PayloadRow
        <3>3. row \in CategoryRow /\ row.origin = c
            BY <1>3, <1>4, <3>2 DEF NewCategory, CategoryRow
        <3>4. row # None
            BY <3>3, RowsAreSome
        <3>5. DOMAIN cats = Category
            BY DEF CatalogInv, CatalogDomains
        <3> HIDE DEF row
        <3>6. Extends(cats, cats', forked')
            BY <3>1, <3>3, <3>4, <3>5, AddedExtends
        <3>7. cats' \in [Category -> CategoryRow \cup {None}]
            BY <3>1, <3>3 DEF CatalogInv, CatalogDomains
        <3> QED BY <3>1, <3>4, <3>5, <3>6, <3>7 DEF Rows
    <2> QED BY <2>1, <2>2
<1>9. PartsWritten
    BY <1>5, <1>6, <1>7, <1>8 DEF PartsWritten, ImportsAssets, ImportsComponents, ImportsSlots
<1>10. Refs'
    BY <1>2, <1>5, <1>6, <1>7, <1>8 DEF Refs, CatalogInv, ImportsAssets, ImportsComponents, ImportsSlots
<1> QED BY <1>2, <1>9, <1>10, PartsKeep

-----------------------------------------------------------------------------
LEMMA CatalogStarts == Init => CatalogInv
<1> SUFFICES ASSUME Init
             PROVE  CatalogInv
    OBVIOUS
<1> USE SeedAssumption DEF Init, CatalogInit
<1> DEFINE s == [asset |-> FirstVersion(Seed.rule, Seed.cat, Item("rule", Seed.label, Seed.body, TRUE)),
                 cat |-> NewCategory(Seed.cat, Seed.slug, "active"),
                 comp |-> [cat |-> Seed.cat, name |-> Seed.label, weight |-> Seed.weight],
                 slot |-> [cat |-> Seed.cat, label |-> Seed.label,
                           required |-> "photo" \in asked.ops, active |-> TRUE]]
<1>1. /\ s.asset \in AssetRow /\ s.asset.origin = Seed.rule /\ s.asset.cat = Seed.cat
      /\ s.cat \in CategoryRow /\ s.cat.origin = Seed.cat
      /\ s.comp \in ComponentRow /\ s.comp.cat = Seed.cat
      /\ s.slot \in SlotRow /\ s.slot.cat = Seed.cat
    BY DEF FirstVersion, AssetRow, Item, Kind, NewCategory, CategoryRow, Status, ComponentRow, SlotRow
<1>2. /\ Seed.cat \in Category /\ Seed.rule \in Asset /\ Seed.comp \in Component /\ Seed.slot \in PhotoSlot
    OBVIOUS
<1>3. /\ cats = Only(Category, Seed.cat, s.cat) /\ assets = Only(Asset, Seed.rule, s.asset)
      /\ comps = Only(Component, Seed.comp, s.comp) /\ slots = Only(PhotoSlot, Seed.slot, s.slot)
    OBVIOUS
<1>4. records = [r \in Record |-> "none"] /\ forked = {} /\ tx = [h \in Admin |-> Idle]
    OBVIOUS
<1> HIDE DEF s, Init, CatalogInit
<1>5. s.asset # None /\ s.cat # None /\ s.comp # None /\ s.slot # None
    BY <1>1, RowsAreSome
<1>6. Rows(cats) = {Seed.cat} /\ Rows(assets) = {Seed.rule} /\ Rows(comps) = {Seed.comp}
          /\ Rows(slots) = {Seed.slot}
    BY <1>2, <1>3, <1>5 DEF Rows, Only
<1>7. /\ cats[Seed.cat] = s.cat /\ assets[Seed.rule] = s.asset
      /\ comps[Seed.comp] = s.comp /\ slots[Seed.slot] = s.slot
    BY <1>2, <1>3 DEF Only
<1>8. Refs
    BY <1>1, <1>4, <1>6, <1>7 DEF Refs
<1>9. Line(cats, forked) /\ Origins(cats) /\ Line(assets, forked) /\ Origins(assets)
    BY <1>1, <1>6, <1>7 DEF Line, Origins
<1>10. CatalogDomains
    BY <1>1, <1>2, <1>3, <1>4 DEF CatalogDomains, Only
<1>11. DeletedUnused
    BY <1>4 DEF DeletedUnused
<1>12. \A h \in Admin : TxOK(tx[h])
    BY <1>4 DEF TxOK, CreateKnows, UpdateKnows, DeleteKnows, IntakeKnows, EditKnows, ImportKnows, Idle
<1> QED BY <1>8, <1>9, <1>10, <1>11, <1>12 DEF CatalogInv

LEMMA CatalogSteps ==
    ASSUME CatalogInv, CatalogNext
    PROVE  CatalogInv' /\ CatalogKept
<1> SUFFICES ASSUME NEW h \in Admin,
                    \/ BeginCreateCategory(h) \/ CommitCreateCategory(h)
                    \/ BeginUpdateCategory(h) \/ BeginDeactivateCategory(h) \/ CommitUpdateCategory(h)
                    \/ BeginDeleteCategory(h) \/ CommitDeleteCategory(h)
                    \/ BeginIntake(h) \/ CommitIntake(h)
                    \/ AddInspectionPrompt(h) \/ AddRedFlagRule(h)
                    \/ BeginUpdatePrompt(h) \/ BeginUpdateRule(h) \/ CommitToggle(h) \/ CommitEdit(h)
                    \/ AddComponent(h) \/ UpdateComponent(h) \/ AddPhotoSlot(h) \/ UpdatePhotoSlot(h)
                    \/ BeginImport(h) \/ CommitImport(h)
                    \/ Rollback(h)
             PROVE  CatalogInv' /\ CatalogKept
    BY DEF CatalogNext
<1>1. CASE BeginCreateCategory(h) \/ CommitCreateCategory(h)
    BY <1>1, CreateBegins, CreateCommits
<1>2. CASE BeginUpdateCategory(h) \/ BeginDeactivateCategory(h) \/ CommitUpdateCategory(h)
    BY <1>2, UpdateBegins, UpdateCommits
<1>3. CASE BeginDeleteCategory(h) \/ CommitDeleteCategory(h)
    BY <1>3, DeleteBegins, DeleteCommits
<1>4. CASE BeginIntake(h) \/ CommitIntake(h)
    BY <1>4, IntakeBegins, IntakeCommits
<1>5. CASE AddInspectionPrompt(h) \/ AddRedFlagRule(h)
    BY <1>5, AssetAdded
<1>6. CASE BeginUpdatePrompt(h) \/ BeginUpdateRule(h) \/ CommitToggle(h) \/ CommitEdit(h)
    BY <1>6, EditBegins, Toggled, EditCommits
<1>7. CASE AddComponent(h) \/ UpdateComponent(h) \/ AddPhotoSlot(h) \/ UpdatePhotoSlot(h)
    BY <1>7, ComponentAdded, ComponentUpdated, SlotAdded, SlotUpdated
<1>8. CASE BeginImport(h) \/ CommitImport(h)
    BY <1>8, ImportBegins, ImportCommits
<1>9. CASE Rollback(h)
    BY <1>9, RolledBack
<1> QED BY <1>1, <1>2, <1>3, <1>4, <1>5, <1>6, <1>7, <1>8, <1>9

LEMMA CatalogUnchanged ==
    ASSUME CatalogInv, UNCHANGED catalogVars
    PROVE  CatalogInv' /\ CatalogKept
<1>1. CatalogKept
    BY DEF catalogVars, CatalogKept, SameCategory, SameAsset
<1>2. CatalogDomains' /\ Refs'
    BY DEF catalogVars, CatalogInv, CatalogDomains, Refs, Rows
<1>3. /\ Line(cats, forked)' /\ Origins(cats)' /\ Line(assets, forked)' /\ Origins(assets)'
    BY DEF catalogVars, CatalogInv, Line, Origins, Rows
<1>4. DeletedUnused'
    BY DEF catalogVars, CatalogInv, DeletedUnused, Rows
<1>5. ASSUME NEW h \in Admin PROVE TxOK(tx[h])'
    <2>1. tx'[h] = tx[h] /\ TxOK(tx[h])
        BY DEF catalogVars, CatalogInv
    <2> SUFFICES ASSUME NEW t, t = tx[h] PROVE TxOK(t)'
        BY <2>1
    <2> QED BY <1>1, <2>1, KnowledgeStays
<1> QED BY <1>1, <1>2, <1>3, <1>4, <1>5 DEF CatalogInv

LEMMA CatalogAlways == CatalogInv /\ [Next]_vars => CatalogInv' /\ CatalogKept
<1> SUFFICES ASSUME CatalogInv, [Next]_vars
             PROVE  CatalogInv' /\ CatalogKept
    OBVIOUS
<1>1. CatalogNext \/ UNCHANGED catalogVars
    BY DEF Next, vars
<1> QED BY <1>1, CatalogSteps, CatalogUnchanged

\* The catalog's inductive invariant: rows and requests in their types, references
\* to rows, histories that are lines, and what a request under way has read.
THEOREM CatalogInductive == Spec => []CatalogInv
<1>1. Init => CatalogInv
    BY CatalogStarts
<1>2. CatalogInv /\ [Next]_vars => CatalogInv'
    BY CatalogAlways
<1> QED BY <1>1, <1>2, PTL DEF Spec

\* Of the versions of a category, prompt or rule no two have one number and no two
\* are current, however edits and imports overlap, unless two requests replaced the
\* same row at once (category_versioning_service's supersede_*).
THEOREM HistoryIsALine == Spec => []OneCurrent
<1>1. CatalogInv => OneCurrent
    <2> SUFFICES ASSUME CatalogInv
                 PROVE  OneCurrent
        OBVIOUS
    <2>1. \A i \in Rows(cats) : cats[i].version \in Nat /\ cats[i].replaced \in BOOLEAN
        BY RowsTyped DEF CatalogInv, CategoryRow
    <2>2. \A i \in Rows(assets) : assets[i].version \in Nat /\ assets[i].replaced \in BOOLEAN
        BY RowsTyped DEF CatalogInv, AssetRow
    <2>3. Linear(cats)
        BY <2>1 DEF CatalogInv, Line, Linear, Versions
    <2>4. Linear(assets)
        BY <2>2 DEF CatalogInv, Line, Linear, Versions
    <2> QED BY <2>3, <2>4 DEF OneCurrent
<1> QED BY <1>1, CatalogInductive, PTL

\* A record refers to a deleted category only where the one was taken and the other
\* deleted at once (soft_delete_category, _validate_category).
THEOREM DeletedNotUsed == Spec => []DeletedUnused
<1>1. CatalogInv => DeletedUnused
    BY DEF CatalogInv
<1> QED BY <1>1, CatalogInductive, PTL

\* What a prompt or rule asks: no step changes it, or takes its row away.
WordingStands == \A a \in Rows(assets) : a \in Rows(assets)' /\ SameAsset(assets'[a], assets[a])

\* An edit or an import makes a row of its own of every change but the switch: what a
\* submission's snapshot names can be read for ever.
THEOREM WordingFixed == Spec => [][WordingStands]_vars
<1>1. CatalogInv /\ [Next]_vars => WordingStands
    BY CatalogAlways DEF CatalogKept, WordingStands
<1> QED BY <1>1, CatalogInductive, PTL DEF Spec

-----------------------------------------------------------------------------
(* Submissions                                                             *)

SubFields == {"status", "cat", "value", "scores", "overall", "photos", "version", "snapshot", "muted",
              "needed", "flagged"}

\* Versions noted of prompts and rules are those of the rows.
Noted(versions) ==
    /\ DOMAIN versions \subseteq Rows(assets)
    /\ \A a \in DOMAIN versions : versions[a] = assets[a].version

RowTyped(row) ==
    /\ DOMAIN row = SubFields
    /\ row.status \in {"draft", "submitted"}
    /\ row.cat \in Rows(cats) \cup {"none"}
    /\ row.photos \subseteq [label : Label, id : Photo]
    /\ Noted(row.snapshot)

\* What a request of an appraiser knows.
SubKnown(t) == t.op \in AppraisalOps => t.sub \in Rows(subs)
DraftKnows(t) == /\ t.op = "category" => t.field = "cat" /\ t.to \in Rows(cats)
                 /\ t.op = "draft" => t.field = "value"
SubmitKnows(t) == t.op = "submit" => /\ Noted(t.versions)
                                     /\ subs[t.sub].cat = "none" => t.versions = <<>>
PhotoKnows(t) == t.op = "photo" => t.label \in Label /\ \A p \in t.prior : p.label = t.label
WorkOK(t) == SubKnown(t) /\ DraftKnows(t) /\ SubmitKnows(t) /\ PhotoKnows(t)

\* One request submits a submission.
LocksApart ==
    \A h, k \in Field :
        work[h].op = "submit" /\ work[k].op = "submit" /\ work[h].sub = work[k].sub => h = k

FieldTyped ==
    /\ DOMAIN subs = Submission
    /\ \A s \in Rows(subs) : RowTyped(subs[s])
    /\ work = [h \in Field |-> work[h]]
    /\ \A h \in Field : WorkOK(work[h])
    /\ LocksApart

-----------------------------------------------------------------------------
(* Scores                                                                  *)

Score == [comp : Component, raw : Raw, weight : Weight, n : Nat \ {0}]
Scores == {rows \in SUBSET Score : IsFiniteSet(rows)}
RowsOf(rows, k) == {r \in rows : r.comp = k}

\* Every double has a number of its own, from 1 on.
Numbered(rows) ==
    /\ \A r, q \in rows : r.comp = q.comp /\ r.n = q.n => r = q
    /\ \A r \in rows : r.n <= Cardinality(RowsOf(rows, r.comp))

\* Whatever a request has read a row for still has one.
KeysIn(read, now) == \A q \in read : \E r \in now : r.comp = q.comp /\ r.n = q.n

Upserted(rows, row) ==
    LET last == {r \in Effective(rows) : r.comp = row.comp} IN
    IF last = {} THEN rows \cup {row} ELSE (rows \ last) \cup {[row EXCEPT !.n = r.n] : r \in last}

ScoreKnows(t) ==
    t.op = "score" =>
        /\ t.read \in Scores /\ KeysIn(t.read, subs[t.sub].scores)
        /\ \E row \in Score : row.n = 1 /\ t.rows = Upserted(t.read, row)
        /\ t.overall = CalculateOverall(Effective(t.rows))

\* The requests that will insert a row for the component k.
Adds(t, s, k) ==
    t.op = "score" /\ t.sub = s /\ (\E r \in t.rows : r.comp = k) /\ \A q \in t.read : q.comp # k
Adding(s, k) == {h \in Field : Adds(work[h], s, k)}

\* One row per component, until two requests score the submission at once.
Single(rows) == \A r \in rows : r.n = 1 /\ \A q \in rows : q.comp = r.comp => q = r

ScoresOK(s) ==
    /\ subs[s].scores \in Scores
    /\ Numbered(subs[s].scores)
    /\ \A k \in Component :
           RowsOf(subs[s].scores, k) # {} =>
               Cardinality(RowsOf(subs[s].scores, k)) + Cardinality(Adding(s, k)) <= Cardinality(Field)
    /\ subs[s].overall \in 0..500
    /\ s \notin crossed => /\ Single(subs[s].scores)
                           /\ subs[s].overall = CalculateOverall(Effective(subs[s].scores))

ScoresInv ==
    /\ \A s \in Rows(subs) : ScoresOK(s)
    /\ \A h \in Field : ScoreKnows(work[h])

FieldInv == FieldTyped /\ ScoresInv /\ FlagsFollow /\ PhotosKept

-----------------------------------------------------------------------------
(* What a request of an appraiser writes                                   *)

LEMMA DraftTyped ==
    /\ DOMAIN NewDraft = SubFields /\ NewDraft # None
    /\ NewDraft.status = "draft" /\ NewDraft.cat = "none" /\ NewDraft.photos = {}
    /\ NewDraft.snapshot = <<>> /\ NewDraft.scores = {} /\ NewDraft.overall = 0
<1>1. DOMAIN NewDraft = SubFields
    BY DEF NewDraft, SubFields
<1>2. DOMAIN NewDraft # DOMAIN None
    BY <1>1 DEF SubFields, None
<1> QED BY <1>1, <1>2 DEF NewDraft

\* The submission s is written, in the columns F, and nothing else.
Writes(s, F) ==
    /\ DOMAIN subs' = DOMAIN subs
    /\ \A r \in DOMAIN subs \ {s} : subs'[r] = subs[r]
    /\ DOMAIN subs'[s] = SubFields
    /\ \A f \in SubFields \ F : subs'[s][f] = subs[s][f]

LEMMA WritesRows ==
    ASSUME NEW s \in Rows(subs), NEW F, Writes(s, F)
    PROVE  Rows(subs') = Rows(subs)
<1>1. subs'[s] # None
    BY DEF Writes, SubFields, None
<1> QED BY <1>1 DEF Writes, Rows

LEMMA DraftWrites ==
    ASSUME FieldTyped, NEW h \in Field, CommitUpdateDraft(h)
    PROVE  LET t == work[h] IN
           /\ t.sub \in Rows(subs) /\ ~Locked(t.sub) /\ work' = [work EXCEPT ![h] = Idle]
           /\ Writes(t.sub, {"cat", "value"})
           /\ subs'[t.sub].cat \in Rows(cats) \cup {subs[t.sub].cat}
           /\ crossed \subseteq crossed'
           /\ \A s \in Submission \ {t.sub} : s \in crossed' => s \in crossed
           /\ t.sub \notin crossed' => subs[t.sub].status = "draft"
<1> DEFINE t == work[h]
           s == t.sub
<1> SUFFICES /\ s \in Rows(subs) /\ ~Locked(s) /\ work' = [work EXCEPT ![h] = Idle]
             /\ Writes(s, {"cat", "value"})
             /\ subs'[s].cat \in Rows(cats) \cup {subs[s].cat}
             /\ crossed \subseteq crossed'
             /\ \A r \in Submission \ {s} : r \in crossed' => r \in crossed
             /\ s \notin crossed' => subs[s].status = "draft"
    OBVIOUS
<1>1. /\ t.op \in {"category", "draft"} /\ ~Locked(s) /\ work' = [work EXCEPT ![h] = Idle]
      /\ subs' = [subs EXCEPT ![s][t.field] = t.to]
      /\ crossed' = IF subs[s].status = "draft" THEN crossed ELSE crossed \cup {s}
    BY DEF CommitUpdateDraft, End
<1>2. s \in Rows(subs) /\ t.field \in {"cat", "value"} /\ (t.field = "cat" => t.to \in Rows(cats))
    BY <1>1 DEF FieldTyped, WorkOK, SubKnown, DraftKnows, AppraisalOps
<1>3. DOMAIN subs[s] = SubFields /\ s \in DOMAIN subs
    BY <1>2 DEF FieldTyped, RowTyped, Rows
<1> HIDE DEF s, t
<1> DEFINE row == [subs[s] EXCEPT ![t.field] = t.to]
<1>4. subs' = [subs EXCEPT ![s] = row]
    BY <1>1
<1>5. /\ DOMAIN row = SubFields /\ \A f \in SubFields \ {"cat", "value"} : row[f] = subs[s][f]
      /\ row.cat \in Rows(cats) \cup {subs[s].cat}
    BY <1>2, <1>3 DEF SubFields
<1> HIDE DEF row
<1>6. Writes(s, {"cat", "value"}) /\ subs'[s] = row
    BY <1>3, <1>4, <1>5 DEF Writes
<1> QED BY <1>1, <1>2, <1>5, <1>6

LEMMA ScoreWrites ==
    ASSUME FieldTyped, NEW h \in Field, CommitScore(h)
    PROVE  LET t == work[h] IN
           /\ t.op = "score" /\ t.sub \in Rows(subs) /\ ~Locked(t.sub)
           /\ work' = [work EXCEPT ![h] = Idle]
           /\ Writes(t.sub, {"scores", "overall"})
           /\ subs'[t.sub].overall = t.overall
           /\ crossed' = IF subs[t.sub].scores = t.read /\ subs[t.sub].status = "draft" THEN crossed
                         ELSE crossed \cup {t.sub}
<1> DEFINE t == work[h]
           s == t.sub
<1> SUFFICES /\ t.op = "score" /\ s \in Rows(subs) /\ ~Locked(s)
             /\ work' = [work EXCEPT ![h] = Idle]
             /\ Writes(s, {"scores", "overall"})
             /\ subs'[s].overall = t.overall
             /\ crossed' = IF subs[s].scores = t.read /\ subs[s].status = "draft" THEN crossed
                           ELSE crossed \cup {s}
    OBVIOUS
<1>1. t.op = "score" /\ ~Locked(s) /\ work' = [work EXCEPT ![h] = Idle]
    BY DEF CommitScore, End
<1>2. PICK x : subs' = [subs EXCEPT ![s].scores = x, ![s].overall = t.overall]
    BY DEF CommitScore
<1>3. crossed' = IF subs[s].scores = t.read /\ subs[s].status = "draft" THEN crossed
                 ELSE crossed \cup {s}
    BY DEF CommitScore
<1>4. s \in Rows(subs)
    BY <1>1 DEF FieldTyped, WorkOK, SubKnown, AppraisalOps
<1>5. DOMAIN subs[s] = SubFields /\ s \in DOMAIN subs
    BY <1>4 DEF FieldTyped, RowTyped, Rows
<1> HIDE DEF s, t
<1> DEFINE mid == [subs EXCEPT ![s].scores = x]
<1>6. subs' = [mid EXCEPT ![s].overall = t.overall]
    BY <1>2
<1>7. /\ DOMAIN mid = DOMAIN subs /\ \A r \in DOMAIN subs \ {s} : mid[r] = subs[r]
      /\ DOMAIN mid[s] = SubFields
      /\ \A f \in SubFields \ {"scores"} : mid[s][f] = subs[s][f]
    BY <1>5
<1> HIDE DEF mid
<1>8. Writes(s, {"scores", "overall"}) /\ subs'[s].overall = t.overall
    BY <1>5, <1>6, <1>7 DEF Writes, SubFields
<1> QED BY <1>1, <1>3, <1>4, <1>8

LEMMA SubmitWrites ==
    ASSUME FieldTyped, NEW h \in Field, CommitSubmit(h)
    PROVE  LET t == work[h]
               row == subs[t.sub]
               new == subs'[t.sub] IN
           /\ t.op = "submit" /\ t.sub \in Rows(subs) /\ work' = [work EXCEPT ![h] = Idle]
           /\ \/ UNCHANGED <<subs, crossed>>
              \/ /\ Writes(t.sub, {"status", "flagged", "snapshot", "version", "muted", "needed"})
                 /\ new.status = "submitted" /\ new.flagged = Flagged(row.cat, row.value)
                 /\ new.snapshot = t.versions
                 /\ new.muted = {a \in DOMAIN t.versions : ~assets[a].active}
                 /\ new.needed = Required(row.cat) /\ new.needed \subseteq Captured(row)
                 /\ crossed' = IF row.cat = "none" \/ t.versions = VersionsOf(row.cat) THEN crossed
                               ELSE crossed \cup {t.sub}
<1> DEFINE t == work[h]
           s == t.sub
           row == subs[s]
           new == subs'[s]
           c == row.cat
<1> SUFFICES /\ t.op = "submit" /\ s \in Rows(subs) /\ work' = [work EXCEPT ![h] = Idle]
             /\ \/ UNCHANGED <<subs, crossed>>
                \/ /\ Writes(s, {"status", "flagged", "snapshot", "version", "muted", "needed"})
                   /\ new.status = "submitted" /\ new.flagged = Flagged(c, row.value)
                   /\ new.snapshot = t.versions
                   /\ new.muted = {a \in DOMAIN t.versions : ~assets[a].active}
                   /\ new.needed = Required(c) /\ new.needed \subseteq Captured(row)
                   /\ crossed' = IF c = "none" \/ t.versions = VersionsOf(c) THEN crossed
                                 ELSE crossed \cup {s}
    OBVIOUS
<1>1. t.op = "submit" /\ work' = [work EXCEPT ![h] = Idle]
    BY DEF CommitSubmit, End
<1>2. s \in Rows(subs)
    BY <1>1 DEF FieldTyped, WorkOK, SubKnown, AppraisalOps
<1>3. DOMAIN row = SubFields /\ s \in DOMAIN subs
    BY <1>2 DEF FieldTyped, RowTyped, Rows
<1> DEFINE flagged == Flagged(c, row.value)
           muted == {a \in DOMAIN t.versions : ~assets[a].active}
           needed == Required(c)
<1>4. CASE ~(Required(c) \subseteq Captured(row))
    BY <1>1, <1>2, <1>4 DEF CommitSubmit
<1>5. CASE Required(c) \subseteq Captured(row)
    <2>1. PICK v : subs' = [subs EXCEPT ![s] =
              [row EXCEPT !.status = "submitted", !.flagged = flagged, !.snapshot = t.versions,
                          !.version = v, !.muted = muted, !.needed = needed]]
        BY <1>5 DEF CommitSubmit
    <2>2. crossed' = IF c = "none" \/ t.versions = VersionsOf(c) THEN crossed ELSE crossed \cup {s}
        BY <1>5 DEF CommitSubmit
    <2> DEFINE q == t.versions
    <2> HIDE DEF flagged, muted, needed, q
    <2>3. subs' = [subs EXCEPT ![s] =
              [row EXCEPT !.status = "submitted", !.flagged = flagged, !.snapshot = q,
                          !.version = v, !.muted = muted, !.needed = needed]]
        BY <2>1 DEF q
    <2> DEFINE y == [row EXCEPT !.status = "submitted", !.flagged = flagged, !.snapshot = q,
                                !.version = v, !.muted = muted, !.needed = needed]
    <2> HIDE DEF row
    <2>4. /\ DOMAIN y = SubFields
          /\ y.status = "submitted" /\ y.flagged = flagged /\ y.snapshot = q /\ y.muted = muted
          /\ y.needed = needed
          /\ \A f \in SubFields \ {"status", "flagged", "snapshot", "version", "muted", "needed"} :
                 y[f] = row[f]
        BY <1>3 DEF SubFields
    <2> HIDE DEF y
    <2>5. subs' = [subs EXCEPT ![s] = y]
        BY <2>3 DEF y
    <2>6. new = y
        BY <1>3, <2>5
    <2>7. Writes(s, {"status", "flagged", "snapshot", "version", "muted", "needed"})
        BY <1>3, <2>4, <2>5, <2>6 DEF Writes, row
    <2> QED BY <1>1, <1>2, <1>5, <2>2, <2>4, <2>6, <2>7 DEF flagged, muted, needed, q, row
<1> QED BY <1>4, <1>5

LEMMA PhotoWrites ==
    ASSUME FieldTyped, NEW h \in Field, CommitFinalize(h)
    PROVE  LET t == work[h] IN
           /\ t.op = "photo" /\ t.sub \in Rows(subs) /\ work' = [work EXCEPT ![h] = Idle]
           /\ Writes(t.sub, {"photos"}) /\ UNCHANGED crossed
           /\ \E i \in Photo : subs'[t.sub].photos = (subs[t.sub].photos \ t.prior)
                                                         \cup {[label |-> t.label, id |-> i]}
<1> DEFINE t == work[h]
           s == t.sub
<1> SUFFICES /\ t.op = "photo" /\ s \in Rows(subs) /\ work' = [work EXCEPT ![h] = Idle]
             /\ Writes(s, {"photos"}) /\ UNCHANGED crossed
             /\ \E i \in Photo : subs'[s].photos = (subs[s].photos \ t.prior)
                                                       \cup {[label |-> t.label, id |-> i]}
    OBVIOUS
<1>1. t.op = "photo" /\ work' = [work EXCEPT ![h] = Idle] /\ UNCHANGED crossed
    BY DEF CommitFinalize, End
<1>2. s \in Rows(subs)
    BY <1>1 DEF FieldTyped, WorkOK, SubKnown, AppraisalOps
<1>3. DOMAIN subs[s] = SubFields /\ s \in DOMAIN subs
    BY <1>2 DEF FieldTyped, RowTyped, Rows
<1> DEFINE x == (subs[s].photos \ t.prior) \cup {[label |-> t.label, id |-> FreshPhoto(s)]}
<1>4. FreshPhoto(s) \in Photo
    BY DEF CommitFinalize, FreshPhoto
<1>5. subs' = [subs EXCEPT ![s].photos = x]
    BY DEF CommitFinalize
<1> HIDE DEF s, x
<1>6. Writes(s, {"photos"}) /\ subs'[s].photos = x
    BY <1>3, <1>5 DEF Writes, SubFields
<1> QED BY <1>1, <1>2, <1>4, <1>6 DEF x

-----------------------------------------------------------------------------
(* Submissions stay in their types                                         *)

LEMMA NotedStays ==
    ASSUME CatalogKept, NEW v, Noted(v)
    PROVE  Noted(v)'
BY DEF CatalogKept, Noted, SameAsset

LEMMA WorkStays ==
    ASSUME CatalogKept, NEW t, WorkOK(t), Rows(subs) \subseteq Rows(subs'),
           t.op = "submit" => subs'[t.sub].cat = subs[t.sub].cat
    PROVE  WorkOK(t)'
<1>1. SubKnown(t)' /\ PhotoKnows(t)'
    BY DEF WorkOK, SubKnown, PhotoKnows
<1>2. DraftKnows(t)'
    BY DEF WorkOK, DraftKnows, CatalogKept
<1>3. SubmitKnows(t)'
    <2>1. t.op = "submit" => Noted(t.versions)'
        <3> SUFFICES ASSUME t.op = "submit"
                     PROVE  Noted(t.versions)'
            OBVIOUS
        <3>1. Noted(t.versions)
            BY DEF WorkOK, SubmitKnows
        <3> QED BY <3>1, NotedStays
    <2> QED BY <2>1 DEF WorkOK, SubmitKnows
<1> QED BY <1>1, <1>2, <1>3 DEF WorkOK

LEMMA IdleKnows == WorkOK(Idle)'
BY DEF WorkOK, SubKnown, DraftKnows, SubmitKnows, PhotoKnows, Idle, AppraisalOps

\* The requests know what they knew, and the one that goes on knows what it needs.
LEMMA WorksStay ==
    ASSUME FieldTyped, CatalogKept, Rows(subs) \subseteq Rows(subs'),
           NEW h \in Field, NEW u, WorkOK(u)', work' = [work EXCEPT ![h] = u],
           \A k \in Field \ {h} : work[k].op = "submit" => subs'[work[k].sub].cat = subs[work[k].sub].cat
    PROVE  /\ work' = [k \in Field |-> work'[k]]
           /\ \A k \in Field : WorkOK(work[k])'
<1>1. work' = [k \in Field |-> work'[k]] /\ \A k \in Field \ {h} : work'[k] = work[k]
          /\ work'[h] = u
    BY DEF FieldTyped
<1>2. ASSUME NEW k \in Field
      PROVE  WorkOK(work[k])'
    <2>1. ASSUME NEW t, t = work'[k], WorkOK(t)'
          PROVE  WorkOK(work[k])'
        BY <2>1 DEF WorkOK, SubKnown, DraftKnows, SubmitKnows, PhotoKnows, Noted
    <2>2. CASE k = h
        BY <1>1, <2>1, <2>2
    <2>3. CASE k # h
        <3>1. ASSUME NEW t, t = work[k]
              PROVE  WorkOK(work[k])'
            <4>1. WorkOK(t)
                BY <3>1 DEF FieldTyped
            <4>2. WorkOK(t)'
                BY <2>3, <3>1, <4>1, WorkStays
            <4> QED BY <1>1, <2>1, <2>3, <3>1, <4>2
        <3> QED BY <3>1
    <2> QED BY <2>2, <2>3
<1> QED BY <1>1, <1>2

LEMMA FieldUnchanged ==
    ASSUME FieldTyped, CatalogKept, UNCHANGED fieldVars
    PROVE  FieldTyped'
<1> USE DEF fieldVars
<1>1. \A h \in Field : WorkOK(work[h])'
    <2> TAKE h \in Field
    <2>1. ASSUME NEW t, t = work[h]
          PROVE  WorkOK(work[h])'
        <3>1. WorkOK(t)
            BY <2>1 DEF FieldTyped
        <3>2. WorkOK(t)'
            BY <3>1, WorkStays
        <3> QED BY <2>1, <3>2 DEF WorkOK, SubKnown, DraftKnows, SubmitKnows, PhotoKnows, Noted
    <2> QED BY <2>1
<1>2. \A s \in Rows(subs) : RowTyped(subs[s])'
    <2> TAKE s \in Rows(subs)
    <2>1. Noted(subs[s].snapshot)'
        BY DEF FieldTyped, RowTyped, CatalogKept, Noted, SameAsset
    <2> QED BY <2>1 DEF FieldTyped, RowTyped, CatalogKept
<1>3. \A s \in Rows(subs') : RowTyped(subs[s])'
    BY <1>2
<1> QED BY <1>1, <1>3 DEF FieldTyped, LocksApart

\* A row that is written in other columns stays in its type.
LEMMA RowsStay ==
    ASSUME FieldTyped, UNCHANGED catalogVars, NEW s \in Rows(subs), NEW F, Writes(s, F),
           RowTyped(subs[s])'
    PROVE  DOMAIN subs' = Submission /\ \A r \in Rows(subs') : RowTyped(subs[r])'
<1>1. Rows(subs') = Rows(subs) /\ DOMAIN subs' = Submission
    BY WritesRows DEF Writes, FieldTyped
<1>2. \A r \in Rows(subs) \ {s} : RowTyped(subs[r])'
    BY DEF Writes, FieldTyped, RowTyped, Noted, catalogVars, Rows
<1> QED BY <1>1, <1>2

LEMMA TypedStarts ==
    ASSUME FieldTyped, UNCHANGED catalogVars, NEW h \in Field, NEW t, Start(h, t), WorkOK(t),
           t.op = "submit" => ~Locked(t.sub)
    PROVE  FieldTyped'
<1>1. CatalogKept /\ UNCHANGED <<subs, crossed>> /\ work' = [work EXCEPT ![h] = t]
    BY DEF Start, catalogVars, CatalogKept, SameCategory, SameAsset
<1>2. WorkOK(t)'
    BY <1>1, WorkStays
<1>3. work' = [k \in Field |-> work'[k]] /\ \A k \in Field : WorkOK(work[k])'
    BY <1>1, <1>2, WorksStay
<1>4. LocksApart'
    BY <1>1 DEF FieldTyped, LocksApart, Locked
<1>5. \A s \in Rows(subs') : RowTyped(subs[s])'
    BY <1>1 DEF FieldTyped, RowTyped, Noted, catalogVars
<1> QED BY <1>1, <1>3, <1>4, <1>5 DEF FieldTyped

\* A row written beside a catalog that does not change.
LEMMA WrittenTyped ==
    ASSUME UNCHANGED catalogVars, NEW s,
           DOMAIN subs'[s] = SubFields, subs'[s].status \in {"draft", "submitted"},
           subs'[s].cat \in Rows(cats) \cup {"none"},
           subs'[s].photos \subseteq [label : Label, id : Photo], Noted(subs'[s].snapshot)
    PROVE  RowTyped(subs[s])'
<1> SUFFICES ASSUME NEW r, r = subs'[s]
             PROVE  RowTyped(r)'
    OBVIOUS
<1>1. Noted(r.snapshot)'
    BY DEF Noted, catalogVars, Rows
<1>2. Rows(cats)' = Rows(cats)
    BY DEF catalogVars, Rows
<1> QED BY <1>1, <1>2 DEF RowTyped

LEMMA TypedEnds ==
    ASSUME FieldTyped, UNCHANGED catalogVars, NEW h \in Field, work' = [work EXCEPT ![h] = Idle],
           DOMAIN subs' = Submission, \A s \in Rows(subs') : RowTyped(subs[s])',
           Rows(subs) \subseteq Rows(subs'),
           \A k \in Field \ {h} : work[k].op = "submit" => subs'[work[k].sub].cat = subs[work[k].sub].cat
    PROVE  FieldTyped'
<1>1. CatalogKept
    BY DEF catalogVars, CatalogKept, SameCategory, SameAsset
<1>2. work' = [k \in Field |-> work'[k]] /\ \A k \in Field : WorkOK(work[k])'
    BY <1>1, IdleKnows, WorksStay
<1>3. LocksApart'
    BY DEF FieldTyped, LocksApart, Idle
<1> QED BY <1>2, <1>3 DEF FieldTyped

LEMMA TypedCommits ==
    ASSUME FieldTyped, UNCHANGED catalogVars, NEW h \in Field,
           CommitUpdateDraft(h) \/ CommitScore(h) \/ CommitSubmit(h) \/ CommitFinalize(h)
    PROVE  FieldTyped'
<1> SUFFICES ASSUME NEW t, t = work[h], NEW s, s = t.sub
             PROVE  FieldTyped'
    OBVIOUS
<1>0. s \in Rows(subs) => RowTyped(subs[s])
    BY DEF FieldTyped
<1>1. CASE CommitUpdateDraft(h)
    <2>1. /\ s \in Rows(subs) /\ ~Locked(s) /\ work' = [work EXCEPT ![h] = Idle]
          /\ Writes(s, {"cat", "value"}) /\ subs'[s].cat \in Rows(cats) \cup {subs[s].cat}
        BY <1>1, DraftWrites
    <2>2. RowTyped(subs[s])'
        <3>1. subs'[s].status = subs[s].status /\ subs'[s].photos = subs[s].photos
                  /\ subs'[s].snapshot = subs[s].snapshot /\ DOMAIN subs'[s] = SubFields
            BY <2>1 DEF Writes, SubFields
        <3>2. /\ subs'[s].status \in {"draft", "submitted"} /\ subs'[s].cat \in Rows(cats) \cup {"none"}
              /\ subs'[s].photos \subseteq [label : Label, id : Photo] /\ Noted(subs'[s].snapshot)
            BY <1>0, <2>1, <3>1 DEF RowTyped
        <3> QED BY <3>1, <3>2, WrittenTyped
    <2>3. DOMAIN subs' = Submission /\ \A r \in Rows(subs') : RowTyped(subs[r])'
        BY <2>1, <2>2, RowsStay
    <2>4. \A k \in Field \ {h} : work[k].op = "submit" => subs'[work[k].sub].cat = subs[work[k].sub].cat
        BY <2>1 DEF Locked, Writes, FieldTyped, WorkOK, SubKnown, AppraisalOps, Rows
    <2> QED BY <2>1, <2>3, <2>4, WritesRows, TypedEnds
<1>2. CASE CommitScore(h)
    <2>1. /\ s \in Rows(subs) /\ work' = [work EXCEPT ![h] = Idle] /\ Writes(s, {"scores", "overall"})
        BY <1>2, ScoreWrites
    <2>2. subs'[s].status = subs[s].status /\ subs'[s].photos = subs[s].photos
              /\ subs'[s].snapshot = subs[s].snapshot /\ DOMAIN subs'[s] = SubFields
              /\ subs'[s].cat = subs[s].cat
        BY <2>1 DEF Writes, SubFields
    <2>3. RowTyped(subs[s])'
        <3>1. /\ subs'[s].status \in {"draft", "submitted"} /\ subs'[s].cat \in Rows(cats) \cup {"none"}
              /\ subs'[s].photos \subseteq [label : Label, id : Photo] /\ Noted(subs'[s].snapshot)
            BY <1>0, <2>1, <2>2 DEF RowTyped
        <3> QED BY <2>2, <3>1, WrittenTyped
    <2>4. DOMAIN subs' = Submission /\ \A r \in Rows(subs') : RowTyped(subs[r])'
        BY <2>1, <2>3, RowsStay
    <2>5. \A k \in Field : work[k].op = "submit" => subs'[work[k].sub].cat = subs[work[k].sub].cat
        BY <2>1, <2>2 DEF Writes, FieldTyped, WorkOK, SubKnown, AppraisalOps, Rows
    <2> QED BY <2>1, <2>4, <2>5, WritesRows, TypedEnds
<1>3. CASE CommitSubmit(h)
    <2> DEFINE F == {"status", "flagged", "snapshot", "version", "muted", "needed"}
    <2>1. /\ t.op = "submit" /\ s \in Rows(subs) /\ work' = [work EXCEPT ![h] = Idle]
          /\ \/ UNCHANGED subs
             \/ Writes(s, F) /\ subs'[s].status = "submitted" /\ subs'[s].snapshot = t.versions
        BY <1>3, SubmitWrites
    <2>2. Noted(t.versions)
        BY <2>1 DEF FieldTyped, WorkOK, SubmitKnows
    <2>3. CASE UNCHANGED subs
        <3>1. \A r \in Rows(subs') : RowTyped(subs[r])'
            BY <2>3 DEF FieldTyped, RowTyped, Noted, catalogVars
        <3> QED BY <2>1, <2>3, <3>1, TypedEnds DEF FieldTyped
    <2>4. CASE Writes(s, F) /\ subs'[s].status = "submitted" /\ subs'[s].snapshot = t.versions
        <3>1. subs'[s].photos = subs[s].photos /\ DOMAIN subs'[s] = SubFields
                  /\ subs'[s].cat = subs[s].cat
            BY <2>4 DEF Writes, SubFields
        <3>2. RowTyped(subs[s])'
            <4>1. /\ subs'[s].cat \in Rows(cats) \cup {"none"}
                  /\ subs'[s].photos \subseteq [label : Label, id : Photo]
                BY <1>0, <2>1, <3>1 DEF RowTyped
            <4>2. subs'[s].status \in {"draft", "submitted"} /\ Noted(subs'[s].snapshot)
                BY <2>2, <2>4
            <4> QED BY <3>1, <4>1, <4>2, WrittenTyped
        <3>3. DOMAIN subs' = Submission /\ \A r \in Rows(subs') : RowTyped(subs[r])'
            BY <2>1, <2>4, <3>2, RowsStay
        <3>4. \A k \in Field : work[k].op = "submit" => subs'[work[k].sub].cat = subs[work[k].sub].cat
            BY <2>4, <3>1 DEF Writes, FieldTyped, WorkOK, SubKnown, AppraisalOps, Rows
        <3> QED BY <2>1, <2>4, <3>3, <3>4, WritesRows, TypedEnds
    <2> QED BY <2>1, <2>3, <2>4
<1>4. CASE CommitFinalize(h)
    <2>1. /\ t.op = "photo" /\ s \in Rows(subs) /\ work' = [work EXCEPT ![h] = Idle]
          /\ Writes(s, {"photos"})
          /\ \E i \in Photo : subs'[s].photos = (subs[s].photos \ t.prior) \cup {[label |-> t.label, id |-> i]}
        BY <1>4, PhotoWrites
    <2>2. t.label \in Label
        BY <2>1 DEF FieldTyped, WorkOK, PhotoKnows
    <2>3. subs'[s].status = subs[s].status /\ subs'[s].snapshot = subs[s].snapshot
              /\ DOMAIN subs'[s] = SubFields /\ subs'[s].cat = subs[s].cat
        BY <2>1 DEF Writes, SubFields
    <2>4. subs'[s].photos \subseteq [label : Label, id : Photo]
        <3>1. subs[s].photos \subseteq [label : Label, id : Photo]
            BY <1>0, <2>1 DEF RowTyped
        <3>2. \A i \in Photo : [label |-> t.label, id |-> i] \in [label : Label, id : Photo]
            BY <2>2
        <3> QED BY <2>1, <3>1, <3>2
    <2>5. RowTyped(subs[s])'
        <3>1. /\ subs'[s].status \in {"draft", "submitted"} /\ subs'[s].cat \in Rows(cats) \cup {"none"}
              /\ Noted(subs'[s].snapshot)
            BY <1>0, <2>1, <2>3 DEF RowTyped
        <3> QED BY <2>3, <2>4, <3>1, WrittenTyped
    <2>6. DOMAIN subs' = Submission /\ \A r \in Rows(subs') : RowTyped(subs[r])'
        BY <2>1, <2>5, RowsStay
    <2>7. \A k \in Field : work[k].op = "submit" => subs'[work[k].sub].cat = subs[work[k].sub].cat
        BY <2>1, <2>3 DEF Writes, FieldTyped, WorkOK, SubKnown, AppraisalOps, Rows
    <2> QED BY <2>1, <2>6, <2>7, WritesRows, TypedEnds
<1> QED BY <1>1, <1>2, <1>3, <1>4

LEMMA NotedVersions ==
    ASSUME NEW c
    PROVE  Noted(<<>>) /\ Noted(VersionsOf(c))
<1>1. DOMAIN <<>> = {}
    OBVIOUS
<1>2. DOMAIN VersionsOf(c) = CurrentAssets(c)
          /\ \A a \in CurrentAssets(c) : VersionsOf(c)[a] = assets[a].version /\ a \in Rows(assets)
    BY DEF VersionsOf, CurrentAssets
<1> QED BY <1>1, <1>2 DEF Noted

LEMMA TypedBegins ==
    ASSUME FieldTyped, UNCHANGED catalogVars, NEW h \in Field,
           BeginUpdateDraft(h) \/ BeginScore(h) \/ BeginSubmit(h) \/ BeginFinalize(h)
    PROVE  FieldTyped'
<1> USE DEF WorkOK, SubKnown, DraftKnows, SubmitKnows, PhotoKnows, Updatable
<1>1. CASE BeginUpdateDraft(h)
    <2>1. PICK s \in Submission :
              /\ Updatable(s)
              /\ \/ \E c \in Rows(cats) : Start(h, [op |-> "category", sub |-> s, field |-> "cat", to |-> c])
                 \/ \E v \in Value : Start(h, [op |-> "draft", sub |-> s, field |-> "value", to |-> v])
        BY <1>1 DEF BeginUpdateDraft
    <2>2. ASSUME NEW c \in Rows(cats), Start(h, [op |-> "category", sub |-> s, field |-> "cat", to |-> c])
          PROVE  FieldTyped'
        <3> DEFINE t == [op |-> "category", sub |-> s, field |-> "cat", to |-> c]
        <3>1. WorkOK(t) /\ t.op # "submit"
            BY <2>1
        <3> QED BY <2>2, <3>1, TypedStarts
    <2>3. ASSUME NEW v \in Value, Start(h, [op |-> "draft", sub |-> s, field |-> "value", to |-> v])
          PROVE  FieldTyped'
        <3> DEFINE t == [op |-> "draft", sub |-> s, field |-> "value", to |-> v]
        <3>1. WorkOK(t) /\ t.op # "submit"
            BY <2>1
        <3> QED BY <2>3, <3>1, TypedStarts
    <2> QED BY <2>1, <2>2, <2>3
<1>2. CASE BeginScore(h)
    <2>1. PICK s \in Submission, k \in Rows(comps), raw \in Raw :
              /\ Updatable(s)
              /\ LET rows == Upsert(subs[s].scores, k, raw) IN
                 Start(h, [op |-> "score", sub |-> s, read |-> subs[s].scores, rows |-> rows,
                           overall |-> CalculateOverall(Effective(rows))])
        BY <1>2 DEF BeginScore
    <2>2. PICK rows, overall : Start(h, [op |-> "score", sub |-> s, read |-> subs[s].scores, rows |-> rows,
                                         overall |-> overall])
        BY <2>1
    <2> DEFINE t == [op |-> "score", sub |-> s, read |-> subs[s].scores, rows |-> rows, overall |-> overall]
    <2>3. WorkOK(t) /\ t.op # "submit"
        BY <2>1
    <2> QED BY <2>2, <2>3, TypedStarts
<1>3. CASE BeginSubmit(h)
    <2>1. PICK s \in Submission :
              /\ Updatable(s) /\ ~Locked(s)
              /\ Start(h, [op |-> "submit", sub |-> s,
                           versions |-> IF subs[s].cat = "none" THEN <<>> ELSE VersionsOf(subs[s].cat)])
        BY <1>3 DEF BeginSubmit
    <2> DEFINE v == IF subs[s].cat = "none" THEN <<>> ELSE VersionsOf(subs[s].cat)
               t == [op |-> "submit", sub |-> s, versions |-> v]
    <2>2. Noted(v) /\ (subs[s].cat = "none" => v = <<>>)
        BY NotedVersions
    <2> HIDE DEF v
    <2>3. WorkOK(t) /\ t.sub = s
        BY <2>1, <2>2
    <2>4. Start(h, t) /\ ~Locked(t.sub)
        BY <2>1 DEF v
    <2> QED BY <2>3, <2>4, TypedStarts
<1>4. CASE BeginFinalize(h)
    <2>1. PICK s \in Rows(subs), label \in Label :
              Start(h, [op |-> "photo", sub |-> s, label |-> label,
                        prior |-> {p \in subs[s].photos : p.label = label}])
        BY <1>4 DEF BeginFinalize
    <2> DEFINE t == [op |-> "photo", sub |-> s, label |-> label,
                     prior |-> {p \in subs[s].photos : p.label = label}]
    <2>2. WorkOK(t) /\ t.op # "submit"
        OBVIOUS
    <2> QED BY <2>1, <2>2, TypedStarts
<1> QED BY <1>1, <1>2, <1>3, <1>4

\* A draft is created.
Creates(s) ==
    /\ s \in Submission \ Rows(subs) /\ subs' = [subs EXCEPT ![s] = NewDraft]
    /\ UNCHANGED <<work, crossed>>

LEMMA DraftCreates ==
    ASSUME FieldTyped, NEW s, Creates(s)
    PROVE  /\ DOMAIN subs' = Submission /\ Rows(subs') = Rows(subs) \cup {s} /\ subs'[s] = NewDraft
           /\ \A r \in Submission \ {s} : subs'[r] = subs[r]
BY DraftTyped DEF Creates, FieldTyped, Rows

LEMMA TypedOthers ==
    ASSUME FieldTyped, UNCHANGED catalogVars, NEW h \in Field, CreateDraft(h) \/ Lose(h)
    PROVE  FieldTyped'
<1>1. CASE CreateDraft(h)
    <2>1. PICK s : Creates(s)
        BY <1>1 DEF CreateDraft, Creates
    <2>2. /\ DOMAIN subs' = Submission /\ Rows(subs') = Rows(subs) \cup {s} /\ subs'[s] = NewDraft
          /\ \A r \in Submission \ {s} : subs'[r] = subs[r]
        BY <2>1, DraftCreates
    <2>3. CatalogKept
        BY DEF catalogVars, CatalogKept, SameCategory, SameAsset
    <2>4. \A r \in Rows(subs') : RowTyped(subs[r])'
        <3>1. RowTyped(NewDraft)'
            <4>1. DOMAIN <<>> = {}
                OBVIOUS
            <4> QED BY <4>1, DraftTyped DEF RowTyped, Noted
        <3>2. \A r \in Rows(subs) : RowTyped(subs[r])'
            BY <2>1, <2>2 DEF Creates, FieldTyped, RowTyped, Noted, catalogVars, Rows
        <3>3. RowTyped(subs[s])'
            BY <2>2, <3>1 DEF RowTyped, Noted
        <3> QED BY <2>2, <3>2, <3>3
    <2>5. \A k \in Field : WorkOK(work[k])'
        <3> TAKE k \in Field
        <3>1. ASSUME NEW t, t = work[k]
              PROVE  WorkOK(work[k])'
            <4>1. WorkOK(t)
                BY <3>1 DEF FieldTyped
            <4>2. t.op = "submit" => subs'[t.sub].cat = subs[t.sub].cat
                BY <2>1, <2>2, <4>1 DEF WorkOK, SubKnown, AppraisalOps, Creates, FieldTyped, Rows
            <4>3. WorkOK(t)'
                BY <2>2, <2>3, <4>1, <4>2, WorkStays
            <4>4. work'[k] = t
                BY <2>1, <3>1 DEF Creates
            <4> QED BY <4>3, <4>4 DEF WorkOK, SubKnown, DraftKnows, SubmitKnows, PhotoKnows, Noted
        <3> QED BY <3>1
    <2> QED BY <2>1, <2>2, <2>4, <2>5 DEF Creates, FieldTyped, LocksApart
<1>2. CASE Lose(h)
    <2>1. UNCHANGED <<subs, crossed>> /\ work' = [work EXCEPT ![h] = Idle]
        BY <1>2 DEF Lose
    <2>2. \A s \in Rows(subs') : RowTyped(subs[s])'
        BY <2>1 DEF FieldTyped, RowTyped, Noted, catalogVars
    <2> QED BY <2>1, <2>2, TypedEnds DEF FieldTyped
<1> QED BY <1>1, <1>2

LEMMA FieldTypedSteps ==
    ASSUME CatalogInv, FieldTyped, [Next]_vars
    PROVE  FieldTyped'
<1>1. CASE UNCHANGED fieldVars
    BY <1>1, CatalogAlways, FieldUnchanged
<1>2. CASE FieldNext /\ UNCHANGED catalogVars
    <2>1. PICK h \in Field :
              \/ CreateDraft(h) \/ BeginUpdateDraft(h) \/ CommitUpdateDraft(h)
              \/ BeginScore(h) \/ CommitScore(h) \/ BeginSubmit(h) \/ CommitSubmit(h)
              \/ BeginFinalize(h) \/ CommitFinalize(h) \/ Lose(h)
        BY <1>2 DEF FieldNext
    <2> QED BY <1>2, <2>1, TypedBegins, TypedCommits, TypedOthers
<1> QED BY <1>1, <1>2 DEF Next, vars

-----------------------------------------------------------------------------
(* Photos and flags of what was submitted                                  *)

\* The steps that write no submission.
LEMMA NothingWritten ==
    ASSUME NEW h \in Field,
           BeginUpdateDraft(h) \/ BeginScore(h) \/ BeginSubmit(h) \/ BeginFinalize(h) \/ Lose(h)
    PROVE  UNCHANGED <<subs, crossed>>
BY DEF BeginUpdateDraft, BeginScore, BeginSubmit, BeginFinalize, Lose, Start

\* A step writes nothing, creates a draft, or commits a request.
LEMMA FieldSteps ==
    ASSUME [Next]_vars
    PROVE  \/ UNCHANGED fieldVars
           \/ /\ UNCHANGED catalogVars
              /\ \/ UNCHANGED <<subs, crossed>>
                 \/ \E s \in Submission : Creates(s)
                 \/ \E h \in Field : \/ CommitUpdateDraft(h) \/ CommitScore(h)
                                     \/ CommitSubmit(h) \/ CommitFinalize(h)
BY NothingWritten DEF Next, FieldNext, vars, CreateDraft, Creates

KeepsPhotos(row) == row.status = "submitted" => row.needed \subseteq Captured(row)

LEMMA PhotosStay ==
    ASSUME FieldTyped, PhotosKept, [Next]_vars
    PROVE  PhotosKept'
<1>1. \A s \in Rows(subs) : KeepsPhotos(subs[s])
    BY DEF PhotosKept, KeepsPhotos
<1>2. SUFFICES \A s \in Rows(subs') : KeepsPhotos(subs'[s])
    BY DEF PhotosKept, KeepsPhotos, Captured
<1>3. CASE UNCHANGED subs
    BY <1>1, <1>3
<1>4. ASSUME NEW s \in Submission, Creates(s)
      PROVE  \A r \in Rows(subs') : KeepsPhotos(subs'[r])
    <2>1. KeepsPhotos(NewDraft)
        BY DraftTyped DEF KeepsPhotos
    <2> QED BY <1>1, <1>4, <2>1, DraftCreates DEF Creates, FieldTyped, Rows
<1>5. ASSUME NEW h \in Field,
             CommitUpdateDraft(h) \/ CommitScore(h) \/ CommitSubmit(h) \/ CommitFinalize(h)
      PROVE  \A r \in Rows(subs') : KeepsPhotos(subs'[r])
    <2> DEFINE t == work[h]
               s == t.sub
    <2>1. ASSUME NEW F, Writes(s, F), s \in Rows(subs), KeepsPhotos(subs'[s])
          PROVE  \A r \in Rows(subs') : KeepsPhotos(subs'[r])
        BY <1>1, <2>1, WritesRows DEF Writes, Rows
    <2>2. CASE CommitUpdateDraft(h)
        <3>1. s \in Rows(subs) /\ Writes(s, {"cat", "value"})
            BY <2>2, DraftWrites
        <3> HIDE DEF s
        <3>2. KeepsPhotos(subs'[s])
            BY <1>1, <3>1 DEF KeepsPhotos, Captured, Writes, SubFields
        <3> QED BY <2>1, <3>1, <3>2
    <2>3. CASE CommitScore(h)
        <3>1. s \in Rows(subs) /\ Writes(s, {"scores", "overall"})
            BY <2>3, ScoreWrites
        <3> HIDE DEF s
        <3>2. KeepsPhotos(subs'[s])
            BY <1>1, <3>1 DEF KeepsPhotos, Captured, Writes, SubFields
        <3> QED BY <2>1, <3>1, <3>2
    <2>4. CASE CommitSubmit(h)
        <3> DEFINE F == {"status", "flagged", "snapshot", "version", "muted", "needed"}
        <3>1. /\ s \in Rows(subs)
              /\ UNCHANGED subs \/ (Writes(s, F) /\ subs'[s].needed \subseteq Captured(subs[s]))
            BY <2>4, SubmitWrites
        <3> HIDE DEF s
        <3>2. CASE Writes(s, F) /\ subs'[s].needed \subseteq Captured(subs[s])
            <4>1. KeepsPhotos(subs'[s])
                BY <3>2 DEF KeepsPhotos, Captured, Writes, SubFields
            <4> QED BY <2>1, <3>1, <3>2, <4>1
        <3> QED BY <1>1, <3>1, <3>2
    <2>5. CASE CommitFinalize(h)
        <3>1. /\ s \in Rows(subs) /\ Writes(s, {"photos"}) /\ t.op = "photo"
              /\ \E i \in Photo : subs'[s].photos = (subs[s].photos \ t.prior)
                                                        \cup {[label |-> t.label, id |-> i]}
            BY <2>5, PhotoWrites
        <3>2. \A p \in t.prior : p.label = t.label
            BY <3>1 DEF FieldTyped, WorkOK, PhotoKnows
        <3> HIDE DEF s, t
        <3>3. Captured(subs[s]) \subseteq Captured(subs'[s])
            BY <3>1, <3>2 DEF Captured
        <3>4. KeepsPhotos(subs'[s])
            BY <1>1, <3>1, <3>3 DEF KeepsPhotos, Writes, SubFields
        <3> QED BY <2>1, <3>1, <3>4
    <2> QED BY <1>5, <2>2, <2>3, <2>4, <2>5
<1> QED BY <1>3, <1>4, <1>5, FieldSteps DEF fieldVars

\* What the flag of a row says, where the rules are those of a.
FlagSays(row, a) ==
    row.status = "submitted" =>
        (row.flagged <=> \E i \in DOMAIN row.snapshot \ row.muted :
                             a[i].kind = "rule" /\ a[i].body = row.value)

LEMMA FlagsStay ==
    ASSUME CatalogInv, FieldTyped, FlagsFollow, [Next]_vars
    PROVE  FlagsFollow'
<1>1. \A s \in Rows(subs) \ crossed : FlagSays(subs[s], assets)
    BY DEF FlagsFollow, FlagSays, Fires
<1>2. SUFFICES \A s \in Rows(subs') \ crossed' : FlagSays(subs'[s], assets')
    BY DEF FlagsFollow, FlagSays, Fires
<1>3. CASE UNCHANGED fieldVars
    <2>1. \A a \in Rows(assets) : SameAsset(assets'[a], assets[a])
        BY CatalogAlways DEF CatalogKept
    <2>2. ASSUME NEW s \in Rows(subs) \ crossed
          PROVE  FlagSays(subs[s], assets')
        <3>1. DOMAIN subs[s].snapshot \subseteq Rows(assets)
            BY DEF FieldTyped, RowTyped, Noted
        <3> QED BY <1>1, <2>1, <3>1 DEF FlagSays, SameAsset
    <2> QED BY <1>3, <2>2 DEF fieldVars
<1>4. CASE UNCHANGED catalogVars /\ UNCHANGED <<subs, crossed>>
    BY <1>1, <1>4 DEF catalogVars
<1>5. ASSUME UNCHANGED catalogVars, NEW s \in Submission, Creates(s)
      PROVE  \A r \in Rows(subs') \ crossed' : FlagSays(subs'[r], assets')
    <2>1. FlagSays(NewDraft, assets')
        BY DraftTyped DEF FlagSays
    <2> QED BY <1>1, <1>5, <2>1, DraftCreates DEF Creates, FieldTyped, Rows, catalogVars
<1>6. ASSUME UNCHANGED catalogVars, NEW h \in Field,
             CommitUpdateDraft(h) \/ CommitScore(h) \/ CommitSubmit(h) \/ CommitFinalize(h)
      PROVE  \A r \in Rows(subs') \ crossed' : FlagSays(subs'[r], assets')
    <2> DEFINE t == work[h]
               s == t.sub
    <2>1. ASSUME NEW F, Writes(s, F), s \in Rows(subs), s \notin crossed' => FlagSays(subs'[s], assets),
                 \A r \in Submission \ {s} : r \notin crossed' => r \notin crossed
          PROVE  \A r \in Rows(subs') \ crossed' : FlagSays(subs'[r], assets')
        <3>1. assets' = assets
            BY <1>6 DEF catalogVars
        <3> QED BY <1>1, <2>1, <3>1, WritesRows DEF Writes, Rows, FieldTyped
    <2>2. CASE CommitUpdateDraft(h)
        <3>1. /\ s \in Rows(subs) /\ Writes(s, {"cat", "value"}) /\ crossed \subseteq crossed'
              /\ s \notin crossed' => subs[s].status = "draft"
            BY <2>2, DraftWrites
        <3> HIDE DEF s
        <3>2. s \notin crossed' => FlagSays(subs'[s], assets)
            BY <3>1 DEF FlagSays, Writes, SubFields
        <3> QED BY <2>1, <3>1, <3>2
    <2>3. CASE CommitScore(h)
        <3>1. s \in Rows(subs) /\ Writes(s, {"scores", "overall"}) /\ crossed \subseteq crossed'
            BY <2>3, ScoreWrites
        <3> HIDE DEF s
        <3>2. s \notin crossed' => FlagSays(subs'[s], assets)
            BY <1>1, <3>1 DEF FlagSays, Writes, SubFields
        <3> QED BY <2>1, <3>1, <3>2
    <2>4. CASE CommitSubmit(h)
        <3> DEFINE F == {"status", "flagged", "snapshot", "version", "muted", "needed"}
                   new == subs'[s]
                   row == subs[s]
        <3>1. /\ t.op = "submit" /\ s \in Rows(subs)
              /\ \/ UNCHANGED <<subs, crossed>>
                 \/ /\ Writes(s, F)
                    /\ new.flagged = Flagged(row.cat, row.value)
                    /\ new.snapshot = t.versions
                    /\ new.muted = {a \in DOMAIN t.versions : ~assets[a].active}
                    /\ crossed' = IF row.cat = "none" \/ t.versions = VersionsOf(row.cat) THEN crossed
                                  ELSE crossed \cup {s}
            BY <2>4, SubmitWrites
        <3>2. CASE UNCHANGED <<subs, crossed>>
            BY <1>1, <1>6, <3>2 DEF catalogVars
        <3>3. CASE /\ Writes(s, F)
                   /\ new.flagged = Flagged(row.cat, row.value)
                   /\ new.snapshot = t.versions
                   /\ new.muted = {a \in DOMAIN t.versions : ~assets[a].active}
                   /\ crossed' = IF row.cat = "none" \/ t.versions = VersionsOf(row.cat) THEN crossed
                                 ELSE crossed \cup {s}
            <4>1. row.cat = "none" => DOMAIN t.versions = {}
                <5>1. row.cat = "none" => t.versions = <<>>
                    BY <3>1 DEF FieldTyped, WorkOK, SubmitKnows
                <5> QED BY <5>1
            <4>2. t.versions = VersionsOf(row.cat) => DOMAIN t.versions = CurrentAssets(row.cat)
                BY DEF VersionsOf
            <4>3. new.value = row.value
                BY <3>3 DEF Writes, SubFields
            <4>4. s \notin crossed' => (row.cat = "none" \/ t.versions = VersionsOf(row.cat))
                BY <3>3
            <4>5. Flagged(row.cat, row.value) <=>
                      row.cat # "none" /\ \E a \in CurrentAssets(row.cat) : assets[a].active
                          /\ assets[a].kind = "rule" /\ assets[a].body = row.value
                BY DEF Flagged, Fires
            <4> HIDE DEF s, t, new, row
            <4>6. s \notin crossed' => FlagSays(new, assets)
                BY <3>3, <4>1, <4>2, <4>3, <4>4, <4>5 DEF FlagSays
            <4>7. crossed \subseteq crossed'
                BY <3>3
            <4>8. Writes(s, F) /\ s \in Rows(subs)
                BY <3>1, <3>3
            <4> QED BY <2>1, <4>6, <4>7, <4>8 DEF new
        <3> QED BY <3>1, <3>2, <3>3
    <2>5. CASE CommitFinalize(h)
        <3>1. s \in Rows(subs) /\ Writes(s, {"photos"}) /\ UNCHANGED crossed
            BY <2>5, PhotoWrites
        <3> HIDE DEF s
        <3>2. s \notin crossed' => FlagSays(subs'[s], assets)
            BY <1>1, <3>1 DEF FlagSays, Writes, SubFields
        <3> QED BY <2>1, <3>1, <3>2
    <2> QED BY <1>6, <2>2, <2>3, <2>4, <2>5
<1> QED BY <1>3, <1>4, <1>5, <1>6, FieldSteps

-----------------------------------------------------------------------------
(* Sums over a finite set                                                  *)

\* The element a fold takes first.
First(s) == CHOOSE x \in s : TRUE

\* The function a fold of g computes on the subsets of T.
Folds(f, g, T) == f = [s \in SUBSET T |-> IF s = {} THEN 0 ELSE f[s \ {First(s)}] + g[First(s)]]

LEMMA FoldsAt ==
    ASSUME NEW f, NEW g, NEW T, Folds(f, g, T), NEW s \in SUBSET T
    PROVE  /\ s = {} => f[s] = 0
           /\ s # {} => /\ First(s) \in s
                        /\ f[s] = f[s \ {First(s)}] + g[First(s)]
<1>1. s # {} => First(s) \in s
    BY DEF First
<1>2. f[s] = IF s = {} THEN 0 ELSE f[s \ {First(s)}] + g[First(s)]
    BY DEF Folds
<1> QED BY <1>1, <1>2

\* A set of finite sets has one that none of the others is part of.
LEMMA Smallest ==
    ASSUME NEW S, IsFiniteSet(S), NEW B \in SUBSET (SUBSET S), B # {}
    PROVE  \E s \in B : \A r \in B : r \subseteq s => r = s
<1>1. IsWellFoundedOn(StrictSubsetOrdering(S), SUBSET S)
    BY FS_StrictSubsetOrderingWellFounded, FS_FiniteSubsetsOfFinite
<1>2. PICK s \in B : \A r \in B : ~(<<r, s>> \in StrictSubsetOrdering(S))
    BY <1>1, WFMin
<1>3. \A r \in B : r \subseteq s => r = s
    BY <1>2 DEF StrictSubsetOrdering
<1> QED BY <1>3

LEMMA FoldsAgree ==
    ASSUME NEW S, IsFiniteSet(S), NEW g, NEW f1, NEW f2, NEW T1 \in SUBSET S, NEW T2 \in SUBSET S,
           Folds(f1, g, T1), Folds(f2, g, T2), NEW s \in SUBSET T1, s \in SUBSET T2
    PROVE  f1[s] = f2[s]
<1> DEFINE B == {r \in SUBSET S : r \subseteq T1 /\ r \subseteq T2 /\ f1[r] # f2[r]}
<1> SUFFICES ASSUME B # {}
             PROVE  FALSE
    OBVIOUS
<1>1. PICK r \in B : \A q \in B : q \subseteq r => q = r
    <2>1. B \in SUBSET (SUBSET S)
        OBVIOUS
    <2> HIDE DEF B
    <2> QED BY <2>1, Smallest
<1>2. r # {}
    BY FoldsAt
<1> DEFINE q == r \ {First(r)}
<1>3. First(r) \in r /\ f1[r] = f1[q] + g[First(r)] /\ f2[r] = f2[q] + g[First(r)]
    BY <1>2, FoldsAt
<1>4. q \notin B
    BY <1>1, <1>3
<1>5. f1[q] = f2[q]
    BY <1>4
<1> QED BY <1>3, <1>5

LEMMA FoldsExist ==
    ASSUME NEW S, IsFiniteSet(S), NEW g
    PROVE  \E f : Folds(f, g, S)
<1> DEFINE B == {T \in SUBSET S : ~\E f : Folds(f, g, T)}
<1> SUFFICES ASSUME B # {}
             PROVE  FALSE
    OBVIOUS
<1>1. PICK T \in B : \A U \in B : U \subseteq T => U = T
    <2>1. B \in SUBSET (SUBSET S)
        OBVIOUS
    <2> HIDE DEF B
    <2> QED BY <2>1, Smallest
<1>2. \A U \in SUBSET T : U # T => \E f : Folds(f, g, U)
    BY <1>1
<1> DEFINE on(U) == CHOOSE f : Folds(f, g, U)
           value(s) == on(s)[s]
           f == [s \in SUBSET T |-> IF s # T THEN value(s)
                                    ELSE IF T = {} THEN 0 ELSE value(T \ {First(T)}) + g[First(T)]]
<1>3. \A U \in SUBSET T : U # T => Folds(on(U), g, U)
    BY <1>2
<1> HIDE DEF on
<1>4. ASSUME NEW s \in SUBSET T, s # T, s # {}
      PROVE  value(s) = value(s \ {First(s)}) + g[First(s)]
    <2> DEFINE r == s \ {First(s)}
    <2>1. First(s) \in s /\ on(s)[s] = on(s)[r] + g[First(s)]
        BY <1>3, <1>4, FoldsAt
    <2>2. r # T /\ r \in SUBSET T /\ r \in SUBSET s /\ s \in SUBSET S /\ r \in SUBSET S
        BY <1>4, <2>1
    <2>3. Folds(on(s), g, s) /\ Folds(on(r), g, r)
        BY <1>3, <1>4, <2>2
    <2>4. on(s)[r] = on(r)[r]
        BY <2>2, <2>3, FoldsAgree
    <2> QED BY <2>1, <2>4
<1>5. \A s \in SUBSET T : f[s] = IF s = {} THEN 0 ELSE f[s \ {First(s)}] + g[First(s)]
    <2> TAKE s \in SUBSET T
    <2>1. s # {} => First(s) \in s
        BY DEF First
    <2>2. CASE s = T
        BY <2>1, <2>2
    <2>3. CASE s # T /\ s = {}
        BY <1>3, <2>3, FoldsAt
    <2>4. CASE s # T /\ s # {}
        <3>1. s \ {First(s)} # T /\ s \ {First(s)} \in SUBSET T
            BY <2>1, <2>4
        <3> QED BY <1>4, <2>4, <3>1
    <2> QED BY <2>2, <2>3, <2>4
<1>6. f = [s \in SUBSET T |-> f[s]]
    OBVIOUS
<1> HIDE DEF f
<1>7. Folds(f, g, T)
    BY <1>5, <1>6 DEF Folds
<1> QED BY <1>1, <1>7

LEMMA FoldsNat ==
    ASSUME NEW S, IsFiniteSet(S), NEW g, \A x \in S : g[x] \in Nat, NEW f, Folds(f, g, S)
    PROVE  f[S] \in Nat
<1> DEFINE B == {s \in SUBSET S : f[s] \notin Nat}
<1> SUFFICES ASSUME B # {}
             PROVE  FALSE
    BY FoldsAt
<1>1. PICK s \in B : \A r \in B : r \subseteq s => r = s
    <2>1. B \in SUBSET (SUBSET S)
        OBVIOUS
    <2> HIDE DEF B
    <2> QED BY <2>1, Smallest
<1>2. s # {}
    <2>1. \A r \in SUBSET S : r = {} => f[r] = 0
        BY FoldsAt
    <2> QED BY <1>1, <2>1
<1>3. First(s) \in s /\ f[s] = f[s \ {First(s)}] + g[First(s)]
    BY <1>2, FoldsAt
<1>4. f[s \ {First(s)}] \in Nat
    BY <1>1, <1>3
<1> QED BY <1>1, <1>3, <1>4

\* What the code sums up is a natural number, whatever the rows are, and 0 without rows.
LEMMA TotalWeight ==
    ASSUME NEW rows, IsFiniteSet(rows), \A r \in rows : r.weight \in Nat
    PROVE  LET sum == Total(LAMBDA r : r.weight, rows) IN sum \in Nat /\ (rows = {} => sum = 0)
<1> DEFINE g == [r \in rows |-> r.weight]
           Shape(f) == f = [s \in SUBSET rows |->
                       IF s = {} THEN 0 ELSE f[s \ {First(s)}] + First(s).weight]
           iter == CHOOSE f : Shape(f)
<1>1. \A f : Folds(f, g, rows) <=> Shape(f)
    <2> TAKE f
    <2>1. \A s \in SUBSET rows : s # {} => g[First(s)] = First(s).weight
        BY DEF First
    <2> HIDE DEF g
    <2>2. [s \in SUBSET rows |-> IF s = {} THEN 0 ELSE f[s \ {First(s)}] + g[First(s)]]
              = [s \in SUBSET rows |-> IF s = {} THEN 0 ELSE f[s \ {First(s)}] + First(s).weight]
        BY <2>1
    <2> QED BY <2>2 DEF Folds
<1>2. Total(LAMBDA r : r.weight, rows) = iter[rows]
    BY DEF Total, FoldSet, MapThenFoldSet, First
<1>3. \A r \in rows : g[r] \in Nat
    OBVIOUS
<1> HIDE DEF Shape, g
<1>4. \E f : Shape(f)
    BY <1>1, FoldsExist
<1>5. Folds(iter, g, rows)
    BY <1>1, <1>4
<1> HIDE DEF iter
<1>6. iter[rows] \in Nat /\ (rows = {} => iter[rows] = 0)
    BY <1>3, <1>5, FoldsNat, FoldsAt
<1> QED BY <1>2, <1>6

LEMMA TotalScore ==
    ASSUME NEW rows, IsFiniteSet(rows), \A r \in rows : r.raw \in Nat /\ r.weight \in Nat
    PROVE  Total(LAMBDA r : r.raw * r.weight, rows) \in Nat
<1> DEFINE g == [r \in rows |-> r.raw * r.weight]
           Shape(f) == f = [s \in SUBSET rows |->
                       IF s = {} THEN 0 ELSE f[s \ {First(s)}] + First(s).raw * First(s).weight]
           iter == CHOOSE f : Shape(f)
<1>1. \A f : Folds(f, g, rows) <=> Shape(f)
    <2> TAKE f
    <2>1. \A s \in SUBSET rows : s # {} => g[First(s)] = First(s).raw * First(s).weight
        BY DEF First
    <2> HIDE DEF g
    <2>2. [s \in SUBSET rows |-> IF s = {} THEN 0 ELSE f[s \ {First(s)}] + g[First(s)]]
              = [s \in SUBSET rows |-> IF s = {} THEN 0 ELSE f[s \ {First(s)}]
                                                                + First(s).raw * First(s).weight]
        BY <2>1
    <2> QED BY <2>2 DEF Folds
<1>2. Total(LAMBDA r : r.raw * r.weight, rows) = iter[rows]
    BY DEF Total, FoldSet, MapThenFoldSet, First
<1>3. \A r \in rows : g[r] \in Nat
    OBVIOUS
<1> HIDE DEF Shape, g
<1>4. \E f : Shape(f)
    BY <1>1, FoldsExist
<1>5. Folds(iter, g, rows)
    BY <1>1, <1>4
<1> HIDE DEF iter
<1>6. iter[rows] \in Nat
    BY <1>3, <1>5, FoldsNat
<1> QED BY <1>2, <1>6

LEMMA Rounded ==
    ASSUME NEW a \in Nat, NEW b \in Nat \ {0}
    PROVE  RoundHalfUp(a, b) \in Nat
<1> DEFINE c == 2 * a + b
           d == 2 * b
<1>1. c \in Nat /\ d \in Nat \ {0}
    OBVIOUS
<1> HIDE DEF c, d
<1>2. c \div d \in Nat
    BY <1>1
<1> QED BY <1>2 DEF RoundHalfUp, c, d

\* An average is one of the scores the screen shows.
LEMMA OverallInRange ==
    ASSUME NEW rows \in Scores
    PROVE  /\ CalculateOverall(rows) \in 0..500
           /\ rows = {} => CalculateOverall(rows) = 0
<1>1. \A r \in rows : r.raw \in Nat /\ r.weight \in Nat
    <2>1. \A r \in Score : r.raw \in Raw /\ r.weight \in Weight
        BY DEF Score
    <2>2. \A r \in rows : r \in Score
        BY DEF Scores
    <2>3. Raw \subseteq Nat /\ Weight \subseteq Nat
        BY RawAssumption
    <2> QED BY <2>1, <2>2, <2>3
<1>2. IsFiniteSet(rows)
    BY DEF Scores
<1> DEFINE weights == Total(LAMBDA r : r.weight, rows)
           points == Total(LAMBDA r : r.raw * r.weight, rows)
           mean == RoundHalfUp(points, weights)
<1>3. weights \in Nat /\ (rows = {} => weights = 0)
    BY <1>1, <1>2, TotalWeight
<1>4. points \in Nat
    BY <1>1, <1>2, TotalScore
<1>5. CalculateOverall(rows) = IF weights = 0 THEN 0 ELSE IF mean > 500 THEN 500 ELSE mean
    BY DEF CalculateOverall
<1> HIDE DEF weights, points
<1>6. weights # 0 => mean \in Nat
    BY <1>3, <1>4, Rounded
<1> QED BY <1>3, <1>5, <1>6

-----------------------------------------------------------------------------
(* The rows a commit of scores leaves                                      *)

\* What a commit leaves of the rows a submission has now, when it read others and
\* computed its own from them.
Landed(now, read, rows) ==
    LET new == {r \in rows \ read : \A q \in read : q.comp # r.comp}
        changed == (rows \ read) \ new
        kept == {r \in now : \A q \in changed : <<q.comp, q.n>> # <<r.comp, r.n>>}
        beside == {[r EXCEPT !.n = 1 + Cardinality({q \in kept : q.comp = r.comp})] : r \in new}
    IN  kept \cup changed \cup beside

\* Of the rows for a component one has the greatest number.
LEMMA LastExists ==
    ASSUME NEW rows \in Scores, NEW q \in rows
    PROVE  \E r \in Effective(rows) : r.comp = q.comp
<1> DEFINE Q == RowsOf(rows, q.comp)
           Above(r) == {p \in Q : p.n > r.n}
           B == {Above(r) : r \in Q}
<1>1. IsFiniteSet(Q) /\ B \in SUBSET (SUBSET Q) /\ B # {}
    <2>1. IsFiniteSet(rows)
        BY DEF Scores
    <2>2. Q \subseteq rows /\ q \in Q
        BY DEF RowsOf
    <2>3. IsFiniteSet(Q)
        BY <2>1, <2>2, FS_Subset
    <2> HIDE DEF Q
    <2>4. \A r \in Q : Above(r) \in SUBSET Q
        OBVIOUS
    <2>5. Above(q) \in B
        BY <2>2
    <2> QED BY <2>3, <2>4, <2>5
<1>2. PICK s \in B : \A r \in B : r \subseteq s => r = s
    <2> HIDE DEF B, Q
    <2> QED BY <1>1, Smallest
<1>3. PICK r \in Q : s = Above(r)
    BY <1>2
<1>4. \A p \in Q : p.n \in Nat
    BY DEF RowsOf, Scores, Score
<1>5. \A p \in Q : p.n <= r.n
    <2> SUFFICES ASSUME NEW p \in Q, p.n > r.n
                 PROVE  FALSE
        BY <1>4
    <2> HIDE DEF Q
    <2>1. Above(p) \subseteq Above(r) /\ p \in Above(r) /\ p \notin Above(p)
        BY <1>4
    <2>2. Above(p) \in B
        OBVIOUS
    <2> QED BY <1>2, <1>3, <2>1, <2>2
<1>6. r \in Effective(rows) /\ r.comp = q.comp
    BY <1>5 DEF Effective, RowsOf
<1> QED BY <1>6

\* The key of a row.
SameKey(r, q) == r.comp = q.comp /\ r.n = q.n

LEMMA Inserted ==
    ASSUME NEW now, NEW read, NEW row, \A q \in read : q.comp # row.comp
    PROVE  Landed(now, read, Upserted(read, row))
               = now \cup {[row EXCEPT !.n = 1 + Cardinality(RowsOf(now, row.comp))]}
<1>1. Upserted(read, row) = read \cup {row} /\ row \notin read
    BY DEF Upserted, Effective
<1> DEFINE rows == read \cup {row}
           new == {r \in rows \ read : \A q \in read : q.comp # r.comp}
           changed == (rows \ read) \ new
           kept == {r \in now : \A q \in changed : <<q.comp, q.n>> # <<r.comp, r.n>>}
           beside == {[r EXCEPT !.n = 1 + Cardinality({q \in kept : q.comp = r.comp})] : r \in new}
<1>2. new = {row}
    BY <1>1
<1>3. changed = {} /\ kept = now
    BY <1>1, <1>2
<1>4. Landed(now, read, rows) = kept \cup changed \cup beside
    BY DEF Landed
<1> HIDE DEF new, changed, kept
<1>5. beside = {[row EXCEPT !.n = 1 + Cardinality(RowsOf(now, row.comp))]}
    BY <1>2, <1>3 DEF RowsOf
<1> QED BY <1>1, <1>3, <1>4, <1>5

LEMMA Replaced ==
    ASSUME NEW now \in Scores, NEW read \in Scores, NEW row \in Score, Numbered(now), KeysIn(read, now),
           NEW q \in read, q.comp = row.comp
    PROVE  \E r \in now :
               /\ r.comp = row.comp
               /\ \/ Landed(now, read, Upserted(read, row)) = now
                  \/ Landed(now, read, Upserted(read, row)) = (now \ {r}) \cup {[row EXCEPT !.n = r.n]}
<1> DEFINE last == {r \in Effective(read) : r.comp = row.comp}
           rows == Upserted(read, row)
           new == {r \in rows \ read : \A p \in read : p.comp # r.comp}
           changed == (rows \ read) \ new
           kept == {r \in now : \A p \in changed : <<p.comp, p.n>> # <<r.comp, r.n>>}
           beside == {[r EXCEPT !.n = 1 + Cardinality({p \in kept : p.comp = r.comp})] : r \in new}
<1>1. PICK l \in last : TRUE
    BY LastExists
<1>2. \A r \in read : r.n \in Nat
    BY DEF Scores, Score
<1>3. \A r \in last : r.n = l.n
    <2>1. \A r, p \in last : r \in read /\ p \in read /\ r.n <= p.n
        BY DEF Effective
    <2> HIDE DEF last
    <2> QED BY <1>1, <1>2, <2>1
<1> DEFINE mine == [row EXCEPT !.n = l.n]
<1>4. rows = (read \ last) \cup {mine}
    <2>1. rows = (read \ last) \cup {[row EXCEPT !.n = r.n] : r \in last}
        BY <1>1 DEF Upserted
    <2> HIDE DEF last, rows
    <2> QED BY <1>1, <1>3, <2>1
<1>5. mine.comp = row.comp /\ mine.n = l.n
    BY DEF Score
<1>6. l \in read /\ l.comp = row.comp
    BY <1>1 DEF Effective
<1> HIDE DEF last, rows, mine
<1>7. rows \ read \subseteq {mine}
    BY <1>4
<1>8. new = {}
    BY <1>5, <1>6, <1>7
<1>9. PICK r \in now : r.comp = row.comp /\ r.n = l.n
    BY <1>6 DEF KeysIn
<1>10. Landed(now, read, rows) = kept \cup changed \cup beside
    BY DEF Landed
<1>11. beside = {}
    BY <1>8
<1>12. CASE changed = {}
    <2>1. kept = now
        BY <1>12
    <2> QED BY <1>9, <1>10, <1>11, <1>12, <2>1 DEF rows
<1>13. CASE changed # {}
    <2>1. changed = {mine}
        BY <1>7, <1>8, <1>13
    <2>2. kept = {p \in now : <<mine.comp, mine.n>> # <<p.comp, p.n>>}
        BY <2>1
    <2>3. kept = now \ {r}
        BY <1>5, <1>9, <2>2 DEF Numbered
    <2> HIDE DEF kept, changed, beside
    <2>4. Landed(now, read, rows) = (now \ {r}) \cup {[row EXCEPT !.n = r.n]}
        BY <1>9, <1>10, <1>11, <2>1, <2>3 DEF mine
    <2> QED BY <1>9, <2>4 DEF rows
<1> QED BY <1>12, <1>13

\* Where nobody else scored, a commit leaves the rows that the request computed.
LEMMA Uncrossed ==
    ASSUME NEW now \in Scores, Single(now), NEW row \in Score, row.n = 1
    PROVE  /\ Landed(now, now, Upserted(now, row)) = Upserted(now, row)
           /\ Single(Upserted(now, row))
<1> DEFINE rows == Upserted(now, row)
<1>1. row = [row EXCEPT !.n = 1]
    BY DEF Score
<1>2. CASE \A q \in now : q.comp # row.comp
    <2>1. rows = now \cup {row}
        BY <1>2 DEF Upserted, Effective
    <2>2. RowsOf(now, row.comp) = {}
        BY <1>2 DEF RowsOf
    <2>3. Cardinality({}) = 0
        BY FS_EmptySet
    <2>4. Landed(now, now, rows) = now \cup {[row EXCEPT !.n = 1 + 0]}
        BY <1>2, <2>2, <2>3, Inserted
    <2>5. Single(rows)
        BY <1>2, <2>1 DEF Single
    <2> QED BY <1>1, <2>1, <2>4, <2>5
<1>3. CASE \E q \in now : q.comp = row.comp
    <2>1. PICK q \in now : q.comp = row.comp
        BY <1>3
    <2>2. {r \in Effective(now) : r.comp = row.comp} = {q}
        <3>1. \A r \in now : r.comp = row.comp => r = q
            BY <2>1 DEF Single
        <3>2. q \in Effective(now)
            <4>1. \A p \in now : p.comp = q.comp => p.n <= q.n
                BY DEF Single
            <4> QED BY <4>1 DEF Effective
        <3> QED BY <2>1, <3>1, <3>2 DEF Effective
    <2>3. rows = (now \ {q}) \cup {row}
        <3>1. rows = (now \ {q}) \cup {[row EXCEPT !.n = r.n] : r \in {q}}
            BY <2>2 DEF Upserted
        <3> QED BY <1>1, <2>1, <3>1 DEF Single
    <2>4. Single(rows)
        BY <2>1, <2>3 DEF Single
    <2> DEFINE new == {r \in rows \ now : \A p \in now : p.comp # r.comp}
               changed == (rows \ now) \ new
               kept == {r \in now : \A p \in changed : <<p.comp, p.n>> # <<r.comp, r.n>>}
               beside == {[r EXCEPT !.n = 1 + Cardinality({p \in kept : p.comp = r.comp})] : r \in new}
    <2>5. Landed(now, now, rows) = kept \cup changed \cup beside
        BY DEF Landed
    <2>6. new = {} /\ changed = {row} \ now
        BY <2>1, <2>3
    <2> HIDE DEF new, changed, rows
    <2>7. beside = {}
        BY <2>6
    <2>8. CASE row \in now
        <3>1. row = q /\ changed = {}
            BY <2>1, <2>6, <2>8 DEF Single
        <3>2. kept = now
            BY <3>1
        <3> QED BY <2>1, <2>3, <2>4, <2>5, <2>7, <3>1, <3>2 DEF rows
    <2>9. CASE row \notin now
        <3>1. changed = {row}
            BY <2>6, <2>9
        <3>2. kept = {r \in now : <<row.comp, row.n>> # <<r.comp, r.n>>}
            BY <3>1
        <3>3. kept = now \ {q}
            BY <2>1, <3>2 DEF Single
        <3> QED BY <2>3, <2>4, <2>5, <2>7, <3>1, <3>3 DEF rows
    <2> QED BY <2>8, <2>9
<1> QED BY <1>2, <1>3

LEMMA UpsertedTyped ==
    ASSUME NEW rows \in Scores, NEW row \in Score
    PROVE  /\ Upserted(rows, row) \in Scores
           /\ \A r \in Upserted(rows, row) : r.comp # row.comp => r \in rows
           /\ Effective(Upserted(rows, row)) \in Scores
<1> DEFINE last == {r \in Effective(rows) : r.comp = row.comp}
           mine(r) == [row EXCEPT !.n = r.n]
           news == {mine(r) : r \in last}
<1>1. IsFiniteSet(rows) /\ last \subseteq rows
    BY DEF Scores, Effective
<1>2. IsFiniteSet(last)
    BY <1>1, FS_Subset
<1>3. \A r \in last : mine(r) \in Score /\ mine(r).comp = row.comp
    <2>1. \A n \in Nat \ {0} : [row EXCEPT !.n = n] \in Score /\ [row EXCEPT !.n = n].comp = row.comp
        BY DEF Score
    <2>2. \A r \in rows : r.n \in Nat \ {0}
        BY DEF Scores, Score
    <2> QED BY <1>1, <2>1, <2>2
<1>4. IsFiniteSet(news)
    <2> DEFINE f == [r \in last |-> mine(r)]
    <2>1. f \in Surjection(last, news)
        BY DEF Surjection, Range
    <2> HIDE DEF last, news, f
    <2> QED BY <1>2, <2>1, FS_Surjection
<1>5. CASE last = {}
    <2>1. Upserted(rows, row) = rows \cup {row}
        BY <1>5 DEF Upserted
    <2>2. IsFiniteSet(rows \cup {row})
        BY <1>1, FS_AddElement
    <2>3. Effective(rows \cup {row}) \subseteq rows \cup {row}
        BY DEF Effective
    <2>4. IsFiniteSet(Effective(rows \cup {row}))
        BY <2>2, <2>3, FS_Subset
    <2> QED BY <2>1, <2>2, <2>3, <2>4 DEF Scores
<1>6. CASE last # {}
    <2>1. Upserted(rows, row) = (rows \ last) \cup news
        BY <1>6 DEF Upserted
    <2> DEFINE all == (rows \ last) \cup news
    <2>2. IsFiniteSet(all)
        <3>1. IsFiniteSet(rows \ last)
            BY <1>1, FS_Subset
        <3> HIDE DEF last, news
        <3> QED BY <1>4, <3>1, FS_Union
    <2>3. Effective(all) \subseteq all
        BY DEF Effective
    <2> HIDE DEF last, mine
    <2>4. all \subseteq Score
        BY <1>3 DEF Scores
    <2>5. \A r \in all : r.comp # row.comp => r \in rows
        BY <1>3
    <2> HIDE DEF all
    <2>6. IsFiniteSet(Effective(all))
        BY <2>2, <2>3, FS_Subset
    <2> QED BY <2>1, <2>2, <2>3, <2>4, <2>5, <2>6 DEF Scores, all
<1> QED BY <1>5, <1>6

\* A row that is put in for another with its key, or beside those of its component.
SameNumbers(now, then) ==
    /\ then \in Scores /\ Numbered(then) /\ KeysIn(now, then)
    /\ \A k : Cardinality(RowsOf(then, k)) = Cardinality(RowsOf(now, k))
    /\ \A k : RowsOf(then, k) # {} => RowsOf(now, k) # {}

LEMMA KeptNumbers ==
    ASSUME NEW now \in Scores, Numbered(now), NEW r \in now, NEW q \in Score, SameKey(q, r),
           NEW then, then = (now \ {r}) \cup {q}
    PROVE  SameNumbers(now, then)
<1>1. IsFiniteSet(now) /\ now \subseteq Score
    BY DEF Scores
<1>2. then \in Scores
    <2>1. IsFiniteSet(now \ {r})
        BY <1>1, FS_Subset
    <2>2. IsFiniteSet(then)
        BY <2>1, FS_AddElement
    <2> QED BY <1>1, <2>2 DEF Scores
<1>3. \A p \in now : SameKey(p, r) => p = r
    BY DEF Numbered, SameKey
<1>4. ASSUME NEW k
      PROVE  /\ Cardinality(RowsOf(then, k)) = Cardinality(RowsOf(now, k))
             /\ RowsOf(then, k) # {} => RowsOf(now, k) # {}
    <2>1. CASE k # r.comp
        BY <2>1 DEF RowsOf, SameKey
    <2>2. CASE k = r.comp
        <3> DEFINE A == RowsOf(now, k)
        <3>1. IsFiniteSet(A) /\ r \in A
            BY <1>1, <2>2, FS_Subset DEF RowsOf
        <3>2. RowsOf(then, k) = (A \ {r}) \cup {q} /\ q \notin A \ {r}
            BY <1>3, <2>2 DEF RowsOf, SameKey
        <3> HIDE DEF A
        <3>3. IsFiniteSet(A \ {r}) /\ Cardinality(A \ {r}) = Cardinality(A) - 1
            BY <3>1, FS_RemoveElement
        <3>4. Cardinality((A \ {r}) \cup {q}) = Cardinality(A \ {r}) + 1
            BY <3>2, <3>3, FS_AddElement
        <3>5. Cardinality(A) \in Nat
            BY <3>1, FS_CardinalityType
        <3>6. Cardinality((A \ {r}) \cup {q}) = Cardinality(A)
            BY <3>3, <3>4, <3>5
        <3> QED BY <3>1, <3>2, <3>6 DEF A
    <2> QED BY <2>1, <2>2
<1>5. Numbered(then)
    <2>1. \A p, o \in then : p.comp = o.comp /\ p.n = o.n => p = o
        BY <1>3 DEF Numbered, SameKey
    <2>2. ASSUME NEW p \in then
          PROVE  p.n <= Cardinality(RowsOf(then, p.comp))
        <3>1. PICK o \in now : SameKey(p, o)
            BY DEF SameKey
        <3>2. o.n <= Cardinality(RowsOf(now, o.comp))
            BY DEF Numbered
        <3> QED BY <1>4, <3>1, <3>2 DEF SameKey
    <2> QED BY <2>1, <2>2 DEF Numbered
<1>6. KeysIn(now, then)
    BY DEF KeysIn, SameKey
<1> QED BY <1>2, <1>4, <1>5, <1>6 DEF SameNumbers

LEMMA AddedNumbers ==
    ASSUME NEW now \in Scores, Numbered(now), NEW q \in Score,
           q.n = 1 + Cardinality(RowsOf(now, q.comp)),
           NEW then, then = now \cup {q}
    PROVE  /\ then \in Scores /\ Numbered(then) /\ KeysIn(now, then)
           /\ Cardinality(RowsOf(then, q.comp)) = Cardinality(RowsOf(now, q.comp)) + 1
           /\ \A k : k # q.comp => RowsOf(then, k) = RowsOf(now, k)
<1>1. IsFiniteSet(now) /\ now \subseteq Score
    BY DEF Scores
<1>2. then \in Scores
    <2>1. IsFiniteSet(then)
        BY <1>1, FS_AddElement
    <2> QED BY <1>1, <2>1 DEF Scores
<1> DEFINE A == RowsOf(now, q.comp)
<1>3. IsFiniteSet(A)
    BY <1>1, FS_Subset DEF RowsOf
<1>4. Cardinality(A) \in Nat
    BY <1>3, FS_CardinalityType
<1>5. \A p \in A : p.n \in Nat /\ p.n <= Cardinality(A)
    BY <1>1 DEF Numbered, RowsOf, Score
<1>6. q \notin A
    BY <1>4, <1>5
<1>7. RowsOf(then, q.comp) = A \cup {q} /\ \A k : k # q.comp => RowsOf(then, k) = RowsOf(now, k)
    BY DEF RowsOf
<1> HIDE DEF A
<1>8. Cardinality(A \cup {q}) = Cardinality(A) + 1
    BY <1>3, <1>6, FS_AddElement
<1>9. Numbered(then)
    <2>1. \A p \in now : p.comp = q.comp => p.n # q.n
        BY <1>4, <1>5 DEF A, RowsOf
    <2>2. \A p, o \in then : p.comp = o.comp /\ p.n = o.n => p = o
        BY <2>1 DEF Numbered
    <2>3. ASSUME NEW p \in then
          PROVE  p.n <= Cardinality(RowsOf(then, p.comp))
        <3>1. CASE p.comp = q.comp
            <4>1. p = q \/ p \in A
                BY <3>1 DEF A, RowsOf
            <4>2. p.n <= Cardinality(A) + 1
                <5>1. CASE p = q
                    BY <1>4, <5>1 DEF A
                <5>2. CASE p \in A
                    BY <1>4, <1>5, <5>2
                <5> QED BY <4>1, <5>1, <5>2
            <4>3. RowsOf(then, p.comp) = A \cup {q}
                BY <1>7, <3>1
            <4> QED BY <1>8, <4>2, <4>3
        <3>2. CASE p.comp # q.comp
            BY <1>7, <3>2 DEF Numbered
        <3> QED BY <3>1, <3>2
    <2> QED BY <2>2, <2>3 DEF Numbered
<1>10. KeysIn(now, then)
    BY DEF KeysIn
<1> QED BY <1>2, <1>7, <1>8, <1>9, <1>10 DEF A

-----------------------------------------------------------------------------
(* What requests that score have read and will insert                      *)

\* No row of scores goes without another with its key.
RowsGrow == \A s \in Rows(subs) : s \in Rows(subs') /\ KeysIn(subs[s].scores, subs'[s].scores)

LEMMA KnowsStays ==
    ASSUME NEW t, SubKnown(t), ScoreKnows(t), RowsGrow
    PROVE  ScoreKnows(t)'
<1>1. t.op = "score" => t.sub \in Rows(subs)
    BY DEF SubKnown, AppraisalOps
<1>2. t.op = "score" => KeysIn(t.read, subs'[t.sub].scores)
    <2> SUFFICES ASSUME t.op = "score", NEW s, s = t.sub
                 PROVE  KeysIn(t.read, subs'[s].scores)
        OBVIOUS
    <2>1. KeysIn(t.read, subs[s].scores) /\ KeysIn(subs[s].scores, subs'[s].scores)
        BY <1>1 DEF ScoreKnows, RowsGrow
    <2> QED BY <2>1 DEF KeysIn
<1> QED BY <1>2 DEF ScoreKnows

LEMMA KeysInSelf == ASSUME NEW rows PROVE KeysIn(rows, rows)
BY DEF KeysIn

LEMMA AddingChanges ==
    ASSUME FieldTyped, NEW h \in Field, NEW u, work' = [work EXCEPT ![h] = u], NEW s, NEW k, ~Adds(u, s, k)
    PROVE  Adding(s, k)' = Adding(s, k) \ {h}
BY DEF FieldTyped, Adding, Adds

LEMMA AddingCounted ==
    ASSUME NEW s, NEW k
    PROVE  IsFiniteSet(Adding(s, k)) /\ Cardinality(Adding(s, k)) \in Nat
<1>1. Adding(s, k) \subseteq Field
    BY DEF Adding
<1> QED BY <1>1, FieldAssumption, FS_Subset, FS_CardinalityType

\* The doubles of a component are bounded by the requests that can still insert one.
Counted(s, k) ==
    RowsOf(subs[s].scores, k) # {} =>
        Cardinality(RowsOf(subs[s].scores, k)) + Cardinality(Adding(s, k)) <= Cardinality(Field)

LEMMA RowsCounted ==
    ASSUME NEW rows \in Scores, NEW k
    PROVE  IsFiniteSet(RowsOf(rows, k)) /\ Cardinality(RowsOf(rows, k)) \in Nat
<1>1. IsFiniteSet(rows) /\ RowsOf(rows, k) \subseteq rows
    BY DEF Scores, RowsOf
<1> QED BY <1>1, FS_Subset, FS_CardinalityType

LEMMA CountStays ==
    ASSUME FieldTyped, NEW h \in Field, NEW u, work' = [work EXCEPT ![h] = u],
           NEW s, NEW k, Counted(s, k), subs[s].scores \in Scores, subs'[s].scores = subs[s].scores,
           Adds(u, s, k) => RowsOf(subs[s].scores, k) = {}
    PROVE  Counted(s, k)'
<1>1. CASE Adds(u, s, k)
    BY <1>1 DEF Counted
<1>2. CASE ~Adds(u, s, k)
    <2>1. Adding(s, k)' = Adding(s, k) \ {h}
        BY <1>2, AddingChanges
    <2> DEFINE A == Adding(s, k)
               c == Cardinality(RowsOf(subs[s].scores, k))
    <2>2. IsFiniteSet(A) /\ Cardinality(A) \in Nat /\ c \in Nat /\ Cardinality(Field) \in Nat
        BY AddingCounted, RowsCounted, FieldAssumption, FS_CardinalityType
    <2>3. Cardinality(A \ {h}) <= Cardinality(A) /\ Cardinality(A \ {h}) \in Nat
        BY <2>2, FS_Subset, FS_CardinalityType
    <2>4. Cardinality(Adding(s, k))' = Cardinality(A \ {h})
        BY <2>1
    <2>5. RowsOf(subs[s].scores, k) # {} => c + Cardinality(A) <= Cardinality(Field)
        BY DEF Counted
    <2> HIDE DEF A
    <2>6. RowsOf(subs[s].scores, k) # {} => c + Cardinality(A \ {h}) <= Cardinality(Field)
        BY <2>2, <2>3, <2>5
    <2> QED BY <2>4, <2>6 DEF Counted
<1> QED BY <1>1, <1>2

LEMMA SameScores ==
    ASSUME FieldTyped, NEW h \in Field, NEW u, work' = [work EXCEPT ![h] = u],
           NEW s, ScoresOK(s), subs'[s].scores = subs[s].scores, subs'[s].overall = subs[s].overall,
           s \notin crossed' => s \notin crossed,
           \A k : Adds(u, s, k) => RowsOf(subs[s].scores, k) = {}
    PROVE  ScoresOK(s)'
<1>1. \A k \in Component : Counted(s, k)
    BY DEF ScoresOK, Counted
<1>2. \A k \in Component : Counted(s, k)'
    BY <1>1, CountStays DEF ScoresOK
<1> QED BY <1>2 DEF ScoresOK, Counted

LEMMA ScoresFrame ==
    ASSUME FieldTyped, ScoresInv, NEW h \in Field, NEW u, work' = [work EXCEPT ![h] = u],
           ScoreKnows(u)', RowsGrow, \A s \in Rows(subs') : ScoresOK(s)'
    PROVE  ScoresInv'
<1>1. ASSUME NEW k \in Field
      PROVE  ScoreKnows(work[k])'
    <2>1. ASSUME NEW t, t = work'[k], ScoreKnows(t)'
          PROVE  ScoreKnows(work[k])'
        BY <2>1 DEF ScoreKnows
    <2>2. CASE k = h
        BY <2>1, <2>2 DEF FieldTyped
    <2>3. CASE k # h
        <3>1. ASSUME NEW t, t = work[k]
              PROVE  ScoreKnows(work[k])'
            <4>1. SubKnown(t) /\ ScoreKnows(t)
                BY <3>1 DEF FieldTyped, WorkOK, ScoresInv
            <4>2. ScoreKnows(t)'
                BY <4>1, KnowsStays
            <4> QED BY <2>1, <2>3, <3>1, <4>2 DEF FieldTyped
        <3> QED BY <3>1
    <2> QED BY <2>2, <2>3
<1> QED BY <1>1 DEF ScoresInv

\* A step that writes no scores, where the next request inserts a row only for a component
\* that has none.
LEMMA ScoresUntouched ==
    ASSUME FieldTyped, ScoresInv, NEW h \in Field, NEW u, work' = [work EXCEPT ![h] = u],
           ScoreKnows(u)', Rows(subs') = Rows(subs),
           \A s \in Rows(subs) : /\ subs'[s].scores = subs[s].scores /\ subs'[s].overall = subs[s].overall
                                 /\ s \notin crossed' => s \notin crossed
                                 /\ \A k : Adds(u, s, k) => RowsOf(subs[s].scores, k) = {}
    PROVE  ScoresInv'
<1>1. \A s \in Rows(subs) : ScoresOK(s)'
    BY SameScores DEF ScoresInv
<1>2. RowsGrow
    BY KeysInSelf DEF RowsGrow
<1> QED BY <1>1, <1>2, ScoresFrame

-----------------------------------------------------------------------------
(* The steps of scores                                                     *)

LEMMA ScoresUnchanged ==
    ASSUME ScoresInv, UNCHANGED fieldVars
    PROVE  ScoresInv'
<1>1. subs' = subs /\ work' = work /\ crossed' = crossed
    BY DEF fieldVars
<1>2. \A s, k : Adding(s, k)' = Adding(s, k)
    BY <1>1 DEF Adding, Adds
<1>3. ASSUME NEW s, ScoresOK(s) PROVE ScoresOK(s)'
    BY <1>1, <1>2, <1>3 DEF ScoresOK
<1>4. ASSUME NEW t, ScoreKnows(t) PROVE ScoreKnows(t)'
    BY <1>1, <1>4 DEF ScoreKnows
<1> QED BY <1>1, <1>3, <1>4 DEF ScoresInv

\* What a request that scores reads and computes.
LEMMA ScoreReads ==
    ASSUME CatalogInv, FieldTyped, ScoresInv, UNCHANGED catalogVars, NEW h \in Field, BeginScore(h)
    PROVE  ScoresInv'
<1>1. PICK s \in Submission, k \in Rows(comps), raw \in Raw :
          /\ Updatable(s)
          /\ LET rows == Upsert(subs[s].scores, k, raw) IN
             Start(h, [op |-> "score", sub |-> s, read |-> subs[s].scores, rows |-> rows,
                       overall |-> CalculateOverall(Effective(rows))])
    BY DEF BeginScore
<1> DEFINE now == subs[s].scores
           row == [comp |-> k, raw |-> raw, weight |-> comps[k].weight, n |-> 1]
           rows == Upsert(now, k, raw)
           average == CalculateOverall(Effective(rows))
           u == [op |-> "score", sub |-> s, read |-> now, rows |-> rows, overall |-> average]
<1>2. k \in Component /\ comps[k].weight \in Weight
    BY RowsTyped DEF CatalogInv, CatalogDomains, ComponentRow, Rows
<1>3. row \in Score /\ row.n = 1
    BY <1>2 DEF Score
<1>4. rows = Upserted(now, row)
    BY DEF Upsert, Upserted
<1>5. s \in Rows(subs) /\ now \in Scores
    BY <1>1 DEF Updatable, ScoresInv, ScoresOK
<1>6. UNCHANGED <<subs, crossed>> /\ work' = [work EXCEPT ![h] = u]
    BY <1>1 DEF Start
<1> HIDE DEF row, rows, average
<1> SUFFICES ASSUME NEW t, t = u
             PROVE  ScoresInv'
    OBVIOUS
<1>7. t.read = now /\ t.sub = s /\ t.rows = rows /\ t.overall = average
    OBVIOUS
<1>8. ScoreKnows(t)'
    <2>1. KeysIn(now, subs'[s].scores)
        BY <1>6, KeysInSelf
    <2>2. average = CalculateOverall(Effective(rows))
        BY DEF average
    <2> HIDE DEF u
    <2> QED BY <1>3, <1>4, <1>5, <1>7, <2>1, <2>2 DEF ScoreKnows
<1> HIDE DEF u
<1>9. \A r, c : Adds(t, r, c) => RowsOf(subs[r].scores, c) = {}
    BY <1>7 DEF Adds, RowsOf
<1>10. work' = [work EXCEPT ![h] = t]
    BY <1>6
<1> QED BY <1>6, <1>8, <1>9, <1>10, ScoresUntouched

LEMMA OthersScore ==
    ASSUME FieldTyped, ScoresInv, NEW h \in Field,
           BeginUpdateDraft(h) \/ BeginSubmit(h) \/ BeginFinalize(h) \/ Lose(h)
    PROVE  ScoresInv'
<1>1. \E u : work' = [work EXCEPT ![h] = u] /\ u.op # "score"
    <2>1. Idle.op # "score"
        BY DEF Idle
    <2> QED BY <2>1 DEF BeginUpdateDraft, BeginSubmit, BeginFinalize, Lose, Start
<1>2. PICK u : work' = [work EXCEPT ![h] = u] /\ u.op # "score"
    BY <1>1
<1>3. ScoreKnows(u)' /\ \A s, k : ~Adds(u, s, k)
    BY <1>2 DEF ScoreKnows, Adds
<1>4. UNCHANGED <<subs, crossed>>
    BY NothingWritten
<1> QED BY <1>2, <1>3, <1>4, ScoresUntouched

LEMMA IdleScores == ScoreKnows(Idle)' /\ \A s, k : ~Adds(Idle, s, k)
BY DEF ScoreKnows, Adds, Idle

LEMMA DraftScores ==
    ASSUME FieldTyped, ScoresInv, NEW h \in Field, CreateDraft(h)
    PROVE  ScoresInv'
<1>1. PICK s : Creates(s)
    BY DEF CreateDraft, Creates
<1>2. work' = [work EXCEPT ![h] = Idle] /\ UNCHANGED crossed
    BY DEF CreateDraft, FieldTyped
<1>3. /\ Rows(subs') = Rows(subs) \cup {s} /\ subs'[s] = NewDraft
      /\ \A r \in Rows(subs) : subs'[r] = subs[r]
    BY <1>1, DraftCreates DEF Creates, FieldTyped, Rows
<1>4. RowsGrow
    BY <1>3, KeysInSelf DEF RowsGrow
<1>5. \A r \in Rows(subs) : ScoresOK(r)'
    BY <1>2, <1>3, IdleScores, SameScores DEF ScoresInv
<1>6. ScoresOK(s)'
    <2>1. {} \in Scores /\ Effective({}) = {}
        BY FS_EmptySet DEF Scores, Effective
    <2>2. CalculateOverall({}) = 0
        BY <2>1, OverallInRange
    <2>3. subs'[s].scores = {} /\ subs'[s].overall = 0
        BY <1>3, DraftTyped
    <2>4. \A k : RowsOf({}, k) = {}
        BY DEF RowsOf
    <2> QED BY <2>1, <2>2, <2>3, <2>4 DEF ScoresOK, Numbered, Single
<1> QED BY <1>2, <1>3, <1>4, <1>5, <1>6, IdleScores, ScoresFrame

\* Commits in other columns.
LEMMA OthersCommit ==
    ASSUME FieldTyped, ScoresInv, NEW h \in Field,
           CommitUpdateDraft(h) \/ CommitSubmit(h) \/ CommitFinalize(h)
    PROVE  ScoresInv'
<1> SUFFICES ASSUME NEW s, s = work[h].sub
             PROVE  ScoresInv'
    OBVIOUS
<1>1. /\ s \in Rows(subs) /\ work' = [work EXCEPT ![h] = Idle] /\ crossed \subseteq crossed'
      /\ UNCHANGED subs \/ \E F : Writes(s, F) /\ "scores" \notin F /\ "overall" \notin F
    <2>1. CASE CommitUpdateDraft(h)
        <3>1. /\ s \in Rows(subs) /\ work' = [work EXCEPT ![h] = Idle] /\ crossed \subseteq crossed'
              /\ Writes(s, {"cat", "value"})
            BY <2>1, DraftWrites
        <3> QED BY <3>1
    <2>2. CASE CommitSubmit(h)
        <3> DEFINE F == {"status", "flagged", "snapshot", "version", "muted", "needed"}
        <3>1. /\ s \in Rows(subs) /\ work' = [work EXCEPT ![h] = Idle]
              /\ UNCHANGED <<subs, crossed>> \/ (Writes(s, F) /\ crossed \subseteq crossed')
            BY <2>2, SubmitWrites
        <3>2. "scores" \notin F /\ "overall" \notin F
            OBVIOUS
        <3> HIDE DEF F
        <3> QED BY <3>1, <3>2
    <2>3. CASE CommitFinalize(h)
        <3>1. /\ s \in Rows(subs) /\ work' = [work EXCEPT ![h] = Idle] /\ UNCHANGED crossed
              /\ Writes(s, {"photos"})
            BY <2>3, PhotoWrites
        <3> QED BY <3>1
    <2> QED BY <2>1, <2>2, <2>3
<1>2. /\ Rows(subs') = Rows(subs)
      /\ \A r \in Rows(subs) : subs'[r].scores = subs[r].scores /\ subs'[r].overall = subs[r].overall
    <2>1. CASE UNCHANGED subs
        BY <2>1
    <2>2. ASSUME NEW F, Writes(s, F), "scores" \notin F, "overall" \notin F
          PROVE  /\ Rows(subs') = Rows(subs)
                 /\ \A r \in Rows(subs) : subs'[r].scores = subs[r].scores
                                              /\ subs'[r].overall = subs[r].overall
        BY <1>1, <2>2, WritesRows DEF Writes, SubFields, Rows
    <2> QED BY <1>1, <2>1, <2>2
<1> QED BY <1>1, <1>2, IdleScores, ScoresUntouched

LEMMA ScoresLand ==
    ASSUME FieldTyped, NEW h \in Field, CommitScore(h), NEW t, t = work[h]
    PROVE  subs'[t.sub].scores = Landed(subs[t.sub].scores, t.read, t.rows)
<1> DEFINE s == t.sub
           x == Landed(subs[s].scores, t.read, t.rows)
<1>1. subs' = [subs EXCEPT ![s].scores = x, ![s].overall = t.overall]
    <2>1. subs' = [subs EXCEPT ![work[h].sub].scores =
                                   Landed(subs[work[h].sub].scores, work[h].read, work[h].rows),
                               ![work[h].sub].overall = work[h].overall]
        BY DEF CommitScore, Landed
    <2> QED BY <2>1
<1>2. s \in Rows(subs)
    BY ScoreWrites
<1>3. DOMAIN subs[s] = SubFields /\ s \in DOMAIN subs
    BY <1>2 DEF FieldTyped, RowTyped, Rows
<1> HIDE DEF s, x
<1>4. subs'[s].scores = x
    BY <1>1, <1>3 DEF SubFields
<1> QED BY <1>4 DEF s, x

\* The rows of a submission after a commit: one more, or one in the place of another.
LEMMA ScoreCommits ==
    ASSUME FieldTyped, ScoresInv, NEW h \in Field, CommitScore(h), NEW s, s = work[h].sub
    PROVE  ScoresOK(s)' /\ KeysIn(subs[s].scores, subs'[s].scores)
<1> SUFFICES ASSUME NEW t, t = work[h]
             PROVE  ScoresOK(s)' /\ KeysIn(subs[s].scores, subs'[s].scores)
    OBVIOUS
<1> DEFINE now == subs[s].scores
           then == subs'[s].scores
           read == t.read
<1>1. /\ t.op = "score" /\ s \in Rows(subs) /\ work' = [work EXCEPT ![h] = Idle]
      /\ subs'[s].overall = t.overall
      /\ crossed' = IF now = read /\ subs[s].status = "draft" THEN crossed ELSE crossed \cup {s}
    BY ScoreWrites
<1>2. then = Landed(now, read, t.rows)
    BY ScoresLand
<1>3. ScoreKnows(t) /\ ScoresOK(s)
    BY <1>1 DEF ScoresInv
<1>4. PICK row \in Score : row.n = 1 /\ t.rows = Upserted(read, row)
    BY <1>1, <1>3 DEF ScoreKnows
<1>5. /\ read \in Scores /\ KeysIn(read, now) /\ t.overall = CalculateOverall(Effective(t.rows))
      /\ now \in Scores /\ Numbered(now)
    BY <1>1, <1>3 DEF ScoreKnows, ScoresOK
<1> DEFINE k == row.comp
<1>6. k \in Component
    BY DEF Score
<1>7. \A c \in Component : Adding(s, c)' = Adding(s, c) \ {h}
    <2> TAKE c \in Component
    <2>1. ~Adds(Idle, s, c)
        BY IdleScores
    <2>2. work' = [work EXCEPT ![h] = Idle]
        BY <1>1
    <2> QED BY <2>1, <2>2, AddingChanges
<1> HIDE DEF now, then, read
<1>8. s \notin crossed' => /\ Single(then) /\ subs'[s].overall = CalculateOverall(Effective(then))
    <2> SUFFICES ASSUME s \notin crossed'
                 PROVE  Single(then) /\ subs'[s].overall = CalculateOverall(Effective(then))
        OBVIOUS
    <2>1. now = read /\ s \notin crossed
        BY <1>1
    <2>2. Single(now)
        BY <1>3, <2>1 DEF ScoresOK, now
    <2>3. then = t.rows /\ Single(t.rows)
        BY <1>2, <1>4, <1>5, <2>1, <2>2, Uncrossed
    <2> QED BY <1>1, <1>5, <2>3
<1>9. subs'[s].overall \in 0..500
    <2>1. Effective(t.rows) \in Scores
        BY <1>4, <1>5, UpsertedTyped
    <2>2. CalculateOverall(Effective(t.rows)) \in 0..500
        BY <2>1, OverallInRange
    <2> QED BY <1>1, <1>5, <2>2
<1>10. /\ then \in Scores /\ Numbered(then) /\ KeysIn(now, then)
       /\ \A c \in Component : Counted(s, c)'
    <2>0. \A c : /\ Cardinality(RowsOf(now, c)) \in Nat /\ Cardinality(Adding(s, c)) \in Nat
                 /\ IsFiniteSet(Adding(s, c))
                 /\ Cardinality(Field) \in Nat
        BY <1>5, AddingCounted, RowsCounted, FieldAssumption, FS_CardinalityType
    <2>1. \A c : Cardinality(Adding(s, c) \ {h}) <= Cardinality(Adding(s, c))
                     /\ Cardinality(Adding(s, c) \ {h}) \in Nat
        BY <2>0, FS_Subset, FS_CardinalityType
    <2>2. \A c \in Component : RowsOf(now, c) # {} =>
              Cardinality(RowsOf(now, c)) + Cardinality(Adding(s, c)) <= Cardinality(Field)
        BY <1>3 DEF ScoresOK, now
    <2>3. SUFFICES /\ then \in Scores /\ Numbered(then) /\ KeysIn(now, then)
                   /\ \A c \in Component : RowsOf(then, c) # {} =>
                          Cardinality(RowsOf(then, c)) + Cardinality(Adding(s, c) \ {h}) <= Cardinality(Field)
        BY <1>7 DEF Counted, then
    <2>4. CASE \A q \in read : q.comp # k
        <3> DEFINE mine == [row EXCEPT !.n = 1 + Cardinality(RowsOf(now, k))]
        <3>1. then = now \cup {mine}
            BY <1>2, <1>4, <2>4, Inserted
        <3>2. mine \in Score /\ mine.comp = k /\ mine.n = 1 + Cardinality(RowsOf(now, k))
            <4>1. \A n \in Nat \ {0} : [row EXCEPT !.n = n] \in Score /\ [row EXCEPT !.n = n].comp = k
                                           /\ [row EXCEPT !.n = n].n = n
                BY DEF Score
            <4>2. 1 + Cardinality(RowsOf(now, k)) \in Nat \ {0}
                BY <2>0
            <4> QED BY <4>1, <4>2
        <3>3. /\ then \in Scores /\ Numbered(then) /\ KeysIn(now, then)
              /\ Cardinality(RowsOf(then, k)) = Cardinality(RowsOf(now, k)) + 1
              /\ \A c : c # k => RowsOf(then, c) = RowsOf(now, c)
            <4> HIDE DEF mine
            <4> QED BY <1>5, <3>1, <3>2, AddedNumbers
        <3>4. h \in Adding(s, k)
            <4>1. row \in t.rows
                <5>1. {r \in Effective(read) : r.comp = row.comp} = {}
                    BY <2>4 DEF Effective
                <5> QED BY <1>4, <5>1 DEF Upserted
            <4> QED BY <1>1, <2>4, <4>1 DEF Adding, Adds, read
        <3>5. Cardinality(Adding(s, k) \ {h}) = Cardinality(Adding(s, k)) - 1
            BY <2>0, <3>4, FS_RemoveElement
        <3>6. Cardinality(RowsOf(then, k)) + Cardinality(Adding(s, k) \ {h}) <= Cardinality(Field)
            <4>1. CASE RowsOf(now, k) = {}
                <5>1. Cardinality(RowsOf(now, k)) = 0
                    BY <4>1, FS_EmptySet
                <5>2. Cardinality(Adding(s, k)) <= Cardinality(Field)
                    BY FieldAssumption, FS_Subset DEF Adding
                <5> QED BY <2>0, <3>3, <3>5, <5>1, <5>2
            <4>2. CASE RowsOf(now, k) # {}
                BY <1>6, <2>0, <2>2, <3>3, <3>5, <4>2
            <4> QED BY <4>1, <4>2
        <3>7. ASSUME NEW c \in Component, RowsOf(then, c) # {}
              PROVE  Cardinality(RowsOf(then, c)) + Cardinality(Adding(s, c) \ {h}) <= Cardinality(Field)
            <4>1. CASE c = k
                BY <3>6, <4>1
            <4>2. CASE c # k
                BY <2>0, <2>1, <2>2, <3>3, <3>7, <4>2
            <4> QED BY <4>1, <4>2
        <3> QED BY <3>3, <3>7
    <2>5. CASE \E q \in read : q.comp = k
        <3>1. PICK r \in now : /\ r.comp = row.comp
                               /\ then = now \/ then = (now \ {r}) \cup {[row EXCEPT !.n = r.n]}
            BY <1>2, <1>4, <1>5, <2>5, Replaced
        <3>2. SameNumbers(now, then)
            <4>1. CASE then = now
                BY <1>5, <4>1, KeysInSelf DEF SameNumbers
            <4>2. CASE then = (now \ {r}) \cup {[row EXCEPT !.n = r.n]}
                <5> DEFINE mine == [row EXCEPT !.n = r.n]
                <5>1. ASSUME NEW n \in Nat \ {0}
                      PROVE  [row EXCEPT !.n = n] \in Score /\ [row EXCEPT !.n = n].comp = k
                                               /\ [row EXCEPT !.n = n].n = n
                    BY <5>1 DEF Score
                <5>2. r.n \in Nat \ {0}
                    BY <1>5 DEF Scores, Score
                <5>3. mine \in Score /\ SameKey(mine, r)
                    BY <3>1, <5>1, <5>2 DEF SameKey
                <5>4. then = (now \ {r}) \cup {mine}
                    BY <4>2
                <5> HIDE DEF mine
                <5> QED BY <1>5, <5>3, <5>4, KeptNumbers
            <4> QED BY <3>1, <4>1, <4>2
        <3>3. ASSUME NEW c \in Component, RowsOf(then, c) # {}
              PROVE  Cardinality(RowsOf(then, c)) + Cardinality(Adding(s, c) \ {h}) <= Cardinality(Field)
            <4>1. /\ Cardinality(RowsOf(then, c)) = Cardinality(RowsOf(now, c))
                  /\ RowsOf(now, c) # {}
                BY <3>2, <3>3 DEF SameNumbers
            <4>2. Cardinality(RowsOf(now, c)) + Cardinality(Adding(s, c)) <= Cardinality(Field)
                BY <2>2, <4>1
            <4> QED BY <2>0, <2>1, <4>1, <4>2
        <3> QED BY <3>2, <3>3 DEF SameNumbers
    <2> QED BY <2>4, <2>5
<1> QED BY <1>8, <1>9, <1>10 DEF ScoresOK, Counted, now, then
LEMMA ScoresCommit ==
    ASSUME FieldTyped, ScoresInv, NEW h \in Field, CommitScore(h)
    PROVE  ScoresInv'
<1> SUFFICES ASSUME NEW s, s = work[h].sub
             PROVE  ScoresInv'
    OBVIOUS
<1>1. /\ s \in Rows(subs) /\ work' = [work EXCEPT ![h] = Idle] /\ crossed \subseteq crossed'
      /\ Writes(s, {"scores", "overall"})
    BY ScoreWrites
<1>2. Rows(subs') = Rows(subs) /\ \A r \in Rows(subs) \ {s} : subs'[r] = subs[r]
    BY <1>1, WritesRows DEF Writes, Rows
<1>3. ScoresOK(s)' /\ KeysIn(subs[s].scores, subs'[s].scores)
    BY ScoreCommits
<1>4. RowsGrow
    BY <1>2, <1>3, KeysInSelf DEF RowsGrow
<1>5. \A r \in Rows(subs) \ {s} : ScoresOK(r)'
    BY <1>1, <1>2, IdleScores, SameScores DEF ScoresInv
<1>6. \A r \in Rows(subs') : ScoresOK(r)'
    <2> TAKE r \in Rows(subs')
    <2>1. CASE r = s
        <3>1. ScoresOK(s)'
            BY <1>3
        <3> QED BY <2>1, <3>1
    <2>2. CASE r # s
        BY <1>2, <1>5, <2>2
    <2> QED BY <2>1, <2>2
<1> QED BY <1>1, <1>4, <1>6, IdleScores, ScoresFrame

LEMMA ScoresSteps ==
    ASSUME CatalogInv, FieldTyped, ScoresInv, [Next]_vars
    PROVE  ScoresInv'
<1>1. CASE UNCHANGED fieldVars
    BY <1>1, ScoresUnchanged
<1>2. CASE FieldNext /\ UNCHANGED catalogVars
    <2>1. PICK h \in Field :
              \/ CreateDraft(h) \/ BeginUpdateDraft(h) \/ CommitUpdateDraft(h)
              \/ BeginScore(h) \/ CommitScore(h) \/ BeginSubmit(h) \/ CommitSubmit(h)
              \/ BeginFinalize(h) \/ CommitFinalize(h) \/ Lose(h)
        BY <1>2 DEF FieldNext
    <2> QED BY <1>2, <2>1, DraftScores, ScoreReads, OthersScore, ScoresCommit, OthersCommit
<1> QED BY <1>1, <1>2 DEF Next, vars

-----------------------------------------------------------------------------
(* The theorems about submissions                                          *)

LEMMA FieldStarts == Init => FieldInv
<1> SUFFICES ASSUME Init
             PROVE  FieldInv
    OBVIOUS
<1>1. Rows(subs) = {}
    BY DEF Init, Rows
<1>2. \A h \in Field : work[h] = Idle
    BY DEF Init
<1>3. FieldTyped
    <2>1. WorkOK(Idle) /\ Idle.op # "submit"
        BY DEF WorkOK, SubKnown, DraftKnows, SubmitKnows, PhotoKnows, Idle, AppraisalOps
    <2> QED BY <1>1, <1>2, <2>1 DEF Init, FieldTyped, LocksApart
<1>4. ScoresInv
    <2>1. ScoreKnows(Idle)
        BY DEF ScoreKnows, Idle
    <2> QED BY <1>1, <1>2, <2>1 DEF ScoresInv
<1> QED BY <1>1, <1>3, <1>4 DEF FieldInv, FlagsFollow, PhotosKept

LEMMA FieldAlways == CatalogInv /\ FieldInv /\ [Next]_vars => FieldInv'
BY FieldTypedSteps, ScoresSteps, FlagsStay, PhotosStay DEF FieldInv

\* What appraisers' requests keep true together, and what each of them knows while the
\* others and the administrators commit.
THEOREM FieldInductive == Spec => [](CatalogInv /\ FieldInv)
<1>1. Init => CatalogInv /\ FieldInv
    BY CatalogStarts, FieldStarts
<1>2. CatalogInv /\ FieldInv /\ [Next]_vars => (CatalogInv /\ FieldInv)'
    BY CatalogAlways, FieldAlways
<1> QED BY <1>1, <1>2, PTL DEF Spec

\* A retake may replace the photos of its slot at any time, before, during or after a
\* submit: a submitted appraisal never loses its last photo of a required slot.
THEOREM PhotosAreKept == Spec => []PhotosKept
<1>1. CatalogInv /\ FieldInv => PhotosKept
    BY DEF FieldInv
<1> QED BY <1>1, FieldInductive, PTL

\* Whatever the administrator edits afterwards, the flag of a submitted appraisal agrees
\* with the versions it names, and the overall score with the weights it keeps, where
\* no requests on the submission overlapped.
THEOREM HistoryStays == Spec => []HistoryStands
<1>1. CatalogInv /\ FieldInv => HistoryStands
    BY DEF FieldInv, ScoresInv, ScoresOK, HistoryStands, ScoreFollows
<1> QED BY <1>1, FieldInductive, PTL

\* The references of a submission are to rows that exist, its snapshot gives the versions
\* of those rows, and its doubles of a score are never more than the requests at once.
THEOREM TypeCorrect == Spec => []TypeOK
<1>1. CatalogInv /\ FieldInv => TypeOK
    <2> SUFFICES ASSUME CatalogInv, FieldInv
                 PROVE  TypeOK
        OBVIOUS
    <2>1. CatalogTypeOK
        BY TypedByParts DEF CatalogInv
    <2>2. ASSUME NEW s \in Rows(subs)
          PROVE  subs[s].scores \subseteq ScoreRow
        <3> DEFINE rows == subs[s].scores
        <3>1. rows \in Scores /\ Numbered(rows)
            BY DEF FieldInv, ScoresInv, ScoresOK
        <3>2. \A k \in Component : RowsOf(rows, k) # {} =>
                  Cardinality(RowsOf(rows, k)) + Cardinality(Adding(s, k)) <= Cardinality(Field)
            BY DEF FieldInv, ScoresInv, ScoresOK
        <3> HIDE DEF rows
        <3>3. \A k : Cardinality(RowsOf(rows, k)) \in Nat /\ Cardinality(Adding(s, k)) \in Nat
                         /\ Cardinality(Field) \in Nat
            BY <3>1, AddingCounted, RowsCounted, FieldAssumption, FS_CardinalityType
        <3>4. ASSUME NEW r \in rows
              PROVE  r \in ScoreRow
            <4>1. r \in Score /\ r \in RowsOf(rows, r.comp) /\ r.comp \in Component
                BY <3>1 DEF Scores, Score, RowsOf
            <4>2. r.n <= Cardinality(RowsOf(rows, r.comp)) /\ r.n \in Nat \ {0}
                BY <3>1, <4>1 DEF Numbered, Score
            <4>3. Cardinality(RowsOf(rows, r.comp)) <= Cardinality(Field)
                BY <3>2, <3>3, <4>1
            <4>4. r.n \in 1..Cardinality(Field)
                BY <3>3, <4>2, <4>3
            <4> QED BY <4>1, <4>4 DEF Score, ScoreRow
        <3> QED BY <3>4 DEF rows
    <2>3. ASSUME NEW s \in Rows(subs)
          PROVE  /\ subs[s].status \in {"draft", "submitted"}
                 /\ subs[s].cat \in Rows(cats) \cup {"none"}
                 /\ subs[s].photos \subseteq [label : Label, id : Photo]
                 /\ Noted(subs[s].snapshot)
                 /\ subs[s].overall \in 0..500
        <3>1. RowTyped(subs[s]) /\ ScoresOK(s)
            BY DEF FieldInv, FieldTyped, ScoresInv
        <3>2. subs[s].overall \in 0..500
            BY <3>1 DEF ScoresOK
        <3> QED BY <3>1, <3>2 DEF RowTyped
    <2>4. \A s \in Rows(subs) : /\ DOMAIN subs[s].snapshot \subseteq Rows(assets)
                                /\ \A a \in DOMAIN subs[s].snapshot : subs[s].snapshot[a] = assets[a].version
        BY <2>3 DEF Noted
    <2> QED BY <2>1, <2>2, <2>3, <2>4 DEF TypeOK
<1> QED BY <1>1, FieldInductive, PTL

-----------------------------------------------------------------------------
(* What submit wrote stays                                                 *)

\* What is being submitted is a draft until then: its row is held.
SubmitsDraft == \A h \in Field : work[h].op = "submit" => subs[work[h].sub].status = "draft"

\* What submit has written stays.
Submitted(row) == <<row.status, row.snapshot, row.muted, row.needed, row.version, row.flagged>>
SubmittedStands == \A s \in Rows(subs) : subs[s].status = "submitted" =>
                       s \in Rows(subs') /\ Submitted(subs'[s]) = Submitted(subs[s])

\* A step writes nothing of submit's in a row, or commits the submit of a draft.
LEMMA SubmitSteps ==
    ASSUME FieldTyped, SubmitsDraft, [Next]_vars
    PROVE  /\ Rows(subs) \subseteq Rows(subs')
           /\ \A s \in Rows(subs) :
                  \/ Submitted(subs'[s]) = Submitted(subs[s])
                  \/ \E h \in Field : /\ work[h].op = "submit" /\ work[h].sub = s
                                      /\ subs[s].status = "draft"
                                      /\ work' = [work EXCEPT ![h] = Idle]
<1>1. CASE UNCHANGED subs
    BY <1>1
<1>2. ASSUME NEW s \in Submission, Creates(s)
      PROVE  Rows(subs) \subseteq Rows(subs') /\ \A r \in Rows(subs) : subs'[r] = subs[r]
    BY <1>2, DraftCreates DEF Creates, FieldTyped, Rows
<1>3. ASSUME NEW h \in Field, NEW s, s = work[h].sub, s \in Rows(subs), NEW F, Writes(s, F),
             F \cap {"status", "snapshot", "muted", "needed", "version", "flagged"} = {}
      PROVE  Rows(subs) \subseteq Rows(subs')
                 /\ \A r \in Rows(subs) : Submitted(subs'[r]) = Submitted(subs[r])
    <2>1. Submitted(subs'[s]) = Submitted(subs[s])
        BY <1>3 DEF Writes, SubFields, Submitted
    <2> QED BY <1>3, <2>1, WritesRows DEF Writes, Rows
<1>4. ASSUME NEW h \in Field, CommitUpdateDraft(h) \/ CommitScore(h) \/ CommitFinalize(h)
      PROVE  Rows(subs) \subseteq Rows(subs')
                 /\ \A r \in Rows(subs) : Submitted(subs'[r]) = Submitted(subs[r])
    <2>1. work[h].sub \in Rows(subs) /\ \/ Writes(work[h].sub, {"cat", "value"})
                                        \/ Writes(work[h].sub, {"scores", "overall"})
                                        \/ Writes(work[h].sub, {"photos"})
        BY <1>4, DraftWrites, ScoreWrites, PhotoWrites
    <2> QED BY <1>3, <2>1
<1>5. ASSUME NEW h \in Field, CommitSubmit(h), NEW s, s = work[h].sub
      PROVE  /\ Rows(subs) \subseteq Rows(subs') /\ work[h].op = "submit"
             /\ work' = [work EXCEPT ![h] = Idle] /\ subs[s].status = "draft"
             /\ \A r \in Rows(subs) \ {s} : subs'[r] = subs[r]
    <2> DEFINE F == {"status", "flagged", "snapshot", "version", "muted", "needed"}
    <2>1. /\ work[h].op = "submit" /\ s \in Rows(subs) /\ work' = [work EXCEPT ![h] = Idle]
          /\ UNCHANGED subs \/ Writes(s, F)
        BY <1>5, SubmitWrites
    <2>2. subs[s].status = "draft"
        BY <1>5, <2>1 DEF SubmitsDraft
    <2> HIDE DEF F
    <2> QED BY <2>1, <2>2, WritesRows DEF Writes, Rows
<1>6. ASSUME NEW h \in Field, CommitSubmit(h)
      PROVE  /\ Rows(subs) \subseteq Rows(subs')
             /\ \A s \in Rows(subs) :
                  \/ Submitted(subs'[s]) = Submitted(subs[s])
                  \/ /\ work[h].op = "submit" /\ work[h].sub = s /\ subs[s].status = "draft"
                     /\ work' = [work EXCEPT ![h] = Idle]
    <2> SUFFICES ASSUME NEW s, s = work[h].sub
                 PROVE  /\ Rows(subs) \subseteq Rows(subs')
                        /\ \A r \in Rows(subs) :
                             \/ Submitted(subs'[r]) = Submitted(subs[r])
                             \/ /\ work[h].op = "submit" /\ s = r /\ subs[r].status = "draft"
                                /\ work' = [work EXCEPT ![h] = Idle]
        OBVIOUS
    <2> QED BY <1>5, <1>6
<1> QED BY <1>1, <1>2, <1>4, <1>6, FieldSteps DEF fieldVars

LEMMA DraftsStay ==
    ASSUME FieldTyped, SubmitsDraft, [Next]_vars
    PROVE  SubmitsDraft'
<1>1. \A s \in Rows(subs) : subs'[s].status = subs[s].status
          \/ \E h \in Field : work[h].op = "submit" /\ work[h].sub = s /\ work' = [work EXCEPT ![h] = Idle]
    BY SubmitSteps DEF Submitted
<1>2. ASSUME NEW h \in Field, work'[h].op = "submit", work'[h] = work[h]
      PROVE  subs'[work'[h].sub].status = "draft"
    <2>1. work[h].sub \in Rows(subs) /\ subs[work[h].sub].status = "draft"
        BY <1>2 DEF FieldTyped, WorkOK, SubKnown, AppraisalOps, SubmitsDraft
    <2>2. \A k \in Field : work[k].op = "submit" /\ work[k].sub = work[h].sub => k = h
        BY <1>2 DEF FieldTyped, LocksApart
    <2>3. work' # [work EXCEPT ![h] = Idle]
        BY <1>2 DEF Idle, FieldTyped
    <2> QED BY <1>1, <1>2, <2>1, <2>2, <2>3
<1>3. ASSUME NEW h \in Field, work'[h].op = "submit", work'[h] # work[h]
      PROVE  subs'[work'[h].sub].status = "draft"
    <2>1. BeginSubmit(h)
        <3>1. PICK k \in Field :
                  \/ CreateDraft(k) \/ BeginUpdateDraft(k) \/ CommitUpdateDraft(k)
                  \/ BeginScore(k) \/ CommitScore(k) \/ BeginSubmit(k) \/ CommitSubmit(k)
                  \/ BeginFinalize(k) \/ CommitFinalize(k) \/ Lose(k)
            BY <1>3 DEF Next, FieldNext, vars, fieldVars
        <3>2. \E u : work' = [work EXCEPT ![k] = u] /\ (u.op = "submit" => BeginSubmit(k))
            <4>1. Idle.op # "submit"
                BY DEF Idle
            <4>2. CASE CreateDraft(k)
                BY <4>1, <4>2 DEF CreateDraft, FieldTyped
            <4>3. CASE CommitUpdateDraft(k) \/ CommitScore(k) \/ CommitSubmit(k) \/ CommitFinalize(k) \/ Lose(k)
                BY <4>1, <4>3 DEF CommitUpdateDraft, CommitScore, CommitSubmit, CommitFinalize, Lose, End
            <4>4. CASE BeginUpdateDraft(k) \/ BeginScore(k) \/ BeginFinalize(k)
                <5>1. \A s, f, v : [op |-> "category", sub |-> s, field |-> f, to |-> v].op # "submit"
                          /\ [op |-> "draft", sub |-> s, field |-> f, to |-> v].op # "submit"
                          /\ [op |-> "photo", sub |-> s, label |-> f, prior |-> v].op # "submit"
                    OBVIOUS
                <5>2. BeginScore(k) => \E s, rows, average :
                          Start(k, [op |-> "score", sub |-> s, read |-> subs[s].scores, rows |-> rows,
                                    overall |-> average])
                    BY DEF BeginScore
                <5>3. \A s, rows, average :
                          [op |-> "score", sub |-> s, read |-> subs[s].scores, rows |-> rows,
                           overall |-> average].op # "submit"
                    OBVIOUS
                <5>4. BeginScore(k) => \E u : Start(k, u) /\ u.op # "submit"
                    BY <5>2, <5>3
                <5>5. BeginUpdateDraft(k) \/ BeginFinalize(k) => \E u : Start(k, u) /\ u.op # "submit"
                    BY <5>1 DEF BeginUpdateDraft, BeginFinalize
                <5>6. \E u : Start(k, u) /\ u.op # "submit"
                    BY <4>4, <5>4, <5>5
                <5> QED BY <5>6 DEF Start
            <4>5. CASE BeginSubmit(k)
                BY <4>5 DEF BeginSubmit, Start
            <4> QED BY <3>1, <4>2, <4>3, <4>4, <4>5
        <3>3. k = h
            BY <1>3, <3>2 DEF FieldTyped
        <3> QED BY <1>3, <3>2, <3>3 DEF FieldTyped
    <2>2. PICK s \in Submission : Updatable(s) /\ work'[h].sub = s /\ UNCHANGED subs
        BY <2>1 DEF BeginSubmit, Start, FieldTyped
    <2> QED BY <2>2 DEF Updatable
<1> QED BY <1>2, <1>3 DEF SubmitsDraft

\* A submission is submitted once: nothing that comes after, an edit that began before it
\* included, changes its snapshot, its flag or its status.
THEOREM SubmittedOnce == Spec => [][SubmittedStands]_vars
<1> DEFINE Inv == CatalogInv /\ FieldInv /\ SubmitsDraft
<1>1. Init => SubmitsDraft
    BY DEF Init, SubmitsDraft, Idle
<1>2. FieldInv /\ SubmitsDraft /\ [Next]_vars => SubmitsDraft'
    BY DraftsStay DEF FieldInv
<1>3. FieldInv /\ SubmitsDraft /\ [Next]_vars => SubmittedStands
    BY SubmitSteps DEF FieldInv, SubmittedStands
<1> QED BY <1>1, <1>2, <1>3, FieldInductive, PTL DEF Spec
===============================================================================
