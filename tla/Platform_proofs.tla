-------------------------- MODULE Platform_proofs --------------------------
(***************************************************************************)
(* Theorems of Customers, Retention, Integrations and Notices, and of the  *)
(* four side by side (MCPlatform), for any number of requests, users, rows *)
(* and months.                                                             *)
(***************************************************************************)
EXTENDS MCPlatform, FiniteSetTheorems, TLAPS

-----------------------------------------------------------------------------
(* Customers                                                               *)

\* The tables, and the rows in them.
TablesOK ==
    /\ customers \in [Customer -> [user : User \cup {NoUser}, deleted : BOOLEAN] \cup {Absent}]
    /\ records \in [Record -> [customer : Customer, deleted : BOOLEAN] \cup {Absent}]
    /\ \A r \in Stored(records) : records[r].customer \in Stored(customers)
    /\ \A c, d \in Stored(customers) :
           customers[c].user = customers[d].user => c = d \/ customers[c].user = NoUser
    /\ DOMAIN jobs = Job
    /\ DOMAIN visit = Visit

\* Whose records these are.
OwnedBy(rs, u) == \A r \in rs : r \in Stored(records) /\ customers[records[r].customer].user = u

\* What a request has read is still there, and still its user's.
ProfileKept(v) ==
    visit[v].op \in {"access", "submit", "export"} =>
        /\ visit[v].user \in User
        /\ visit[v].profile \subseteq ProfileOf(visit[v].user)

\* A deletion knows the records of its customer, except those that were late.
DeletionKnows(v) ==
    visit[v].op = "delete" =>
        /\ visit[v].customer \in Stored(customers)
        /\ visit[v].records \subseteq Stored(records)
        /\ \A r \in Stored(records) \ late :
               records[r].customer = visit[v].customer => r \in visit[v].records

\* An export has what it owes and nothing of others, and then its file.
ExportKnows(v) ==
    /\ visit[v].op = "export" => visit[v].owed \subseteq RecordsOf(visit[v].profile)
    /\ visit[v].op \in {"gathered", "uploaded"} =>
           /\ visit[v] = [op |-> visit[v].op, job |-> visit[v].job, user |-> visit[v].user,
                          records |-> visit[v].records, owed |-> visit[v].owed]
           /\ visit[v].user \in User
           /\ visit[v].owed \subseteq visit[v].records
           /\ OwnedBy(visit[v].records, visit[v].user)
    /\ visit[v].op = "uploaded" => visit[v].job \in objects

VisitOK(v) == ProfileKept(v) /\ DeletionKnows(v) /\ ExportKnows(v)

\* A finished export.
JobOK(j) ==
    /\ jobs[j] = [user |-> jobs[j].user, records |-> jobs[j].records, owed |-> jobs[j].owed]
    /\ jobs[j].user \in User
    /\ jobs[j].owed \subseteq jobs[j].records
    /\ OwnedBy(jobs[j].records, jobs[j].user)
    /\ j \in objects

CustomersInv ==
    /\ TablesOK
    /\ CascadeReaches
    /\ \A v \in Visit : VisitOK(v)
    /\ \A j \in Stored(jobs) : JobOK(j)

USE CustomersAssumption

\* No row, no request and no user are told apart from what there is by a field.
LEMMA Absence ==
    /\ \A c \in [user : User \cup {NoUser}, deleted : BOOLEAN] : c # Absent
    /\ \A r \in [customer : Customer, deleted : BOOLEAN] : r # Absent
    /\ \A u, rs, os : [user |-> u, records |-> rs, owed |-> os] # Absent
    /\ NoUser \notin User
<1>1. \A u, rs, os : [user |-> u, records |-> rs, owed |-> os] # Absent
    <2> SUFFICES ASSUME NEW u, NEW rs, NEW os,
                        [user |-> u, records |-> rs, owed |-> os] = [absent |-> TRUE]
                 PROVE  FALSE
        BY DEF Absent
    <2>1. DOMAIN [user |-> u, records |-> rs, owed |-> os] = DOMAIN [absent |-> TRUE]
        OBVIOUS
    <2> QED BY <2>1
<1>2. \A c \in [user : User \cup {NoUser}, deleted : BOOLEAN] : c # Absent
    <2> SUFFICES ASSUME NEW c \in [user : User \cup {NoUser}, deleted : BOOLEAN], c = [absent |-> TRUE]
                 PROVE  FALSE
        BY DEF Absent
    <2>1. DOMAIN c = {"user", "deleted"} /\ DOMAIN c = {"absent"}
        OBVIOUS
    <2> QED BY <2>1
<1>3. \A r \in [customer : Customer, deleted : BOOLEAN] : r # Absent
    <2> SUFFICES ASSUME NEW r \in [customer : Customer, deleted : BOOLEAN], r = [absent |-> TRUE]
                 PROVE  FALSE
        BY DEF Absent
    <2>1. DOMAIN r = {"customer", "deleted"} /\ DOMAIN r = {"absent"}
        OBVIOUS
    <2> QED BY <2>1
<1> QED BY <1>1, <1>2, <1>3 DEF NoUser

\* A customer that is stored is a row, and so is a record.
LEMMA CustomerRows ==
    ASSUME TablesOK
    PROVE  /\ \A c \in Stored(customers) : c \in Customer
                  /\ customers[c] \in [user : User \cup {NoUser}, deleted : BOOLEAN]
           /\ \A r \in Stored(records) : r \in Record
                  /\ records[r] \in [customer : Customer, deleted : BOOLEAN]
                  /\ records[r].customer \in Stored(customers)
BY DEF TablesOK, Stored

\* Empty tables and no requests.
LEMMA CustomersInitOK == CustomersInit => CustomersInv
<1> SUFFICES ASSUME CustomersInit PROVE CustomersInv
    OBVIOUS
<1>1. Stored(customers) = {} /\ Stored(records) = {} /\ Stored(jobs) = {}
    BY DEF CustomersInit, Stored
<1>2. TablesOK
    BY <1>1 DEF CustomersInit, TablesOK
<1>3. \A v \in Visit : VisitOK(v)
    BY DEF CustomersInit, VisitOK, ProfileKept, DeletionKnows, ExportKnows, NoVisit
<1> QED BY <1>1, <1>2, <1>3 DEF CustomersInv, CascadeReaches

-----------------------------------------------------------------------------
(* Rows are kept: no step takes one away, or gives it to another.          *)

RowsKept ==
    /\ \A c \in Stored(customers) :
           c \in Stored(customers') /\ customers'[c].user = customers[c].user
    /\ \A r \in Stored(records) :
           r \in Stored(records') /\ records'[r].customer = records[r].customer
    /\ objects \subseteq objects'

\* What a user owned he owns.
LEMMA OwnedStays ==
    ASSUME TablesOK, RowsKept, NEW rs, NEW u, OwnedBy(rs, u)
    PROVE  OwnedBy(rs, u)'
BY DEF OwnedBy, RowsKept, TablesOK

\* What a request or a finished export has read stays so while rows are kept.
LEMMA KnownStays ==
    ASSUME TablesOK, RowsKept, NEW v \in Visit, visit'[v] = visit[v], ProfileKept(v), ExportKnows(v)
    PROVE  ProfileKept(v)' /\ ExportKnows(v)'
<1>1. \A u : ProfileOf(u) \subseteq ProfileOf(u)'
    BY DEF ProfileOf, RowsKept
<1>2. \A cs : RecordsOf(cs) \subseteq RecordsOf(cs)'
    BY DEF RecordsOf, RowsKept
<1>3. ProfileKept(v)'
    BY <1>1 DEF ProfileKept
<1>4. visit[v].op = "export" => visit[v].owed \subseteq RecordsOf(visit[v].profile)'
    BY <1>2 DEF ExportKnows
<1>5. ExportKnows(v)'
    BY <1>4, OwnedStays DEF ExportKnows, RowsKept
<1> QED BY <1>3, <1>5

\* Exports stay as they are while rows are kept.
LEMMA JobsStay ==
    ASSUME CustomersInv, RowsKept, UNCHANGED jobs
    PROVE  \A j \in Stored(jobs)' : JobOK(j)'
<1> SUFFICES ASSUME NEW j \in Stored(jobs) PROVE JobOK(j)'
    BY DEF Stored
<1>1. JobOK(j) /\ TablesOK
    BY DEF CustomersInv
<1> QED BY <1>1, OwnedStays DEF JobOK, RowsKept

\* A request that begins, goes on or ends while the tables stay as they are.
LEMMA VisitStepOK ==
    ASSUME CustomersInv, UNCHANGED <<customers, records, jobs, late>>, objects \subseteq objects',
           NEW v \in Visit, NEW t, visit' = [visit EXCEPT ![v] = t], VisitOK(v)'
    PROVE  CustomersInv'
<1>0. TablesOK /\ CascadeReaches /\ \A w \in Visit : VisitOK(w)
    BY DEF CustomersInv
<1>1. RowsKept
    BY DEF RowsKept
<1>2. TablesOK' /\ CascadeReaches'
    BY <1>0 DEF TablesOK, CascadeReaches, Stored
<1>3. ASSUME NEW w \in Visit, w # v PROVE VisitOK(w)'
    <2>1. visit'[w] = visit[w]
        BY <1>0, <1>3 DEF TablesOK
    <2> QED BY <1>0, <1>1, <2>1, KnownStays DEF VisitOK, DeletionKnows, Stored
<1> QED BY <1>1, <1>2, <1>3, JobsStay DEF CustomersInv

-----------------------------------------------------------------------------
(* Requests that begin, and exports.                                       *)

\* What a request reads when it begins.
LEMMA BeginVisitOK ==
    ASSUME CustomersInv, NEW v \in Visit,
           BeginAccess(v) \/ BeginSubmit(v) \/ BeginDelete(v) \/ BeginExport(v)
    PROVE  CustomersInv'
<1>0. TablesOK
    BY DEF CustomersInv
<1>1. ASSUME NEW u \in User, NEW op \in {"access", "submit"},
             Arrive(v, [op |-> op, user |-> u, profile |-> ProfileOf(u)])
      PROVE  CustomersInv'
    <2>1. visit'[v] = [op |-> op, user |-> u, profile |-> ProfileOf(u)]
        BY <1>0, <1>1 DEF Arrive, TablesOK
    <2>2. ProfileKept(v)'
        BY <1>1, <2>1 DEF Arrive, ProfileKept, ProfileOf, Stored
    <2>3. VisitOK(v)'
        BY <2>1, <2>2 DEF VisitOK, DeletionKnows, ExportKnows
    <2> QED BY <1>1, <2>3, VisitStepOK DEF Arrive
<1>2. ASSUME NEW c \in Stored(customers),
             Arrive(v, [op |-> "delete", customer |-> c, records |-> RecordsOf({c})])
      PROVE  CustomersInv'
    <2>1. visit'[v] = [op |-> "delete", customer |-> c, records |-> RecordsOf({c})]
        BY <1>0, <1>2 DEF Arrive, TablesOK
    <2>2. DeletionKnows(v)'
        BY <1>2, <2>1 DEF Arrive, DeletionKnows, RecordsOf, Stored
    <2>3. VisitOK(v)'
        BY <2>1, <2>2 DEF VisitOK, ProfileKept, ExportKnows
    <2> QED BY <1>2, <2>3, VisitStepOK DEF Arrive
<1>3. ASSUME NEW u \in User, NEW j \in Job,
             Arrive(v, [op |-> "export", job |-> j, user |-> u, profile |-> ProfileOf(u),
                        owed |-> RecordsOf(ProfileOf(u))])
      PROVE  CustomersInv'
    <2>1. visit'[v] = [op |-> "export", job |-> j, user |-> u, profile |-> ProfileOf(u),
                       owed |-> RecordsOf(ProfileOf(u))]
        BY <1>0, <1>3 DEF Arrive, TablesOK
    <2>2. ProfileKept(v)'
        BY <1>3, <2>1 DEF Arrive, ProfileKept, ProfileOf, Stored
    <2>3. ExportKnows(v)'
        BY <1>3, <2>1 DEF Arrive, ExportKnows, RecordsOf, ProfileOf, Stored
    <2>4. VisitOK(v)'
        BY <2>1, <2>2, <2>3 DEF VisitOK, DeletionKnows
    <2> QED BY <1>3, <2>4, VisitStepOK DEF Arrive
<1> QED BY <1>1, <1>2, <1>3 DEF BeginAccess, BeginSubmit, BeginDelete, BeginExport, Stored

\* The records of the customer the export has read, and the file they go to.
LEMMA GatherOK ==
    ASSUME CustomersInv, NEW v \in Visit, GatherRecords(v)
    PROVE  CustomersInv'
<1>0. TablesOK /\ VisitOK(v)
    BY DEF CustomersInv
<1>1. visit'[v] = [op |-> "gathered", job |-> visit[v].job, user |-> visit[v].user,
                   records |-> RecordsOf(visit[v].profile), owed |-> visit[v].owed]
    BY <1>0 DEF GatherRecords, Gather, TablesOK
<1>2. OwnedBy(RecordsOf(visit[v].profile), visit[v].user)
    BY <1>0 DEF GatherRecords, VisitOK, ProfileKept, OwnedBy, RecordsOf, ProfileOf
<1>3. VisitOK(v)'
    <2>3. OwnedBy(visit[v].records, visit[v].user)'
        BY <1>1, <1>2 DEF OwnedBy, GatherRecords, Stored
    <2>4. visit[v].user \in User /\ visit[v].owed \subseteq RecordsOf(visit[v].profile)
        BY <1>0 DEF GatherRecords, VisitOK, ProfileKept, ExportKnows
    <2>5. ExportKnows(v)'
        BY <1>1, <2>3, <2>4 DEF ExportKnows
    <2> QED BY <1>1, <2>5 DEF VisitOK, ProfileKept, DeletionKnows
<1> QED BY <1>3, VisitStepOK DEF GatherRecords

\* The upload.
LEMMA UploadOK ==
    ASSUME CustomersInv, NEW v \in Visit, UploadZip(v)
    PROVE  CustomersInv'
<1>0. TablesOK /\ VisitOK(v)
    BY DEF CustomersInv
<1>1. visit'[v] = [visit[v] EXCEPT !.op = "uploaded"] /\ visit[v].op = "gathered"
    BY <1>0 DEF UploadZip, TablesOK
<1> HIDE DEF CustomersInv
<1>2. PICK t : visit' = [visit EXCEPT ![v] = t]
    BY DEF UploadZip
<1>3. visit'[v] = [op |-> "uploaded", job |-> visit[v].job, user |-> visit[v].user,
                   records |-> visit[v].records, owed |-> visit[v].owed]
    BY <1>0, <1>1 DEF VisitOK, ExportKnows
<1>4. OwnedBy(visit[v].records, visit[v].user)'
    BY <1>0, <1>1, <1>3 DEF UploadZip, VisitOK, ExportKnows, OwnedBy, Stored
<1>5. VisitOK(v)'
    BY <1>0, <1>1, <1>3, <1>4 DEF UploadZip, VisitOK, ProfileKept, DeletionKnows, ExportKnows
<1> QED BY <1>2, <1>5, VisitStepOK DEF UploadZip

\* A request that fails leaves at most a file without a job.
LEMMA FailOK ==
    ASSUME CustomersInv, NEW v \in Visit, Fail(v)
    PROVE  CustomersInv'
<1>1. visit'[v] = NoVisit
    BY DEF Fail, CustomersInv, TablesOK
<1>2. VisitOK(v)'
    BY <1>1 DEF VisitOK, ProfileKept, DeletionKnows, ExportKnows, NoVisit
<1> QED BY <1>2, VisitStepOK DEF Fail

-----------------------------------------------------------------------------
(* Requests that commit.                                                   *)

\* The request that leaves is the only one that changes.
LEMMA LeaveFacts ==
    ASSUME TablesOK, NEW v \in Visit, NEW op, Leave(v, op)
    PROVE  /\ VisitOK(v)' /\ DOMAIN visit' = Visit
           /\ \A w \in Visit \ {v} : visit'[w] = visit[w]
<1>1. visit'[v] = NoVisit /\ DOMAIN visit' = Visit /\ \A w \in Visit \ {v} : visit'[w] = visit[w]
    BY DEF Leave, TablesOK
<1> QED BY <1>1 DEF VisitOK, ProfileKept, DeletionKnows, ExportKnows, NoVisit

\* The finished export takes over what its request knows.
LEMMA CommitExportOK ==
    ASSUME CustomersInv, NEW v \in Visit, CommitExport(v)
    PROVE  CustomersInv'
<1> DEFINE t == visit[v]
<1>0. TablesOK /\ CascadeReaches /\ (\A w \in Visit : VisitOK(w)) /\ Leave(v, "uploaded")
    BY DEF CustomersInv, CommitExport
<1>1. RowsKept /\ TablesOK' /\ CascadeReaches'
    BY <1>0, LeaveFacts DEF CommitExport, RowsKept, TablesOK, CascadeReaches, Stored
<1>2. ASSUME NEW w \in Visit PROVE VisitOK(w)'
    <2>1. CASE w = v
        BY <1>0, <2>1, LeaveFacts
    <2>2. CASE w # v
        <3>1. visit'[w] = visit[w]
            BY <1>0, <2>2, LeaveFacts
        <3> QED BY <1>0, <1>1, <3>1, KnownStays DEF CommitExport, VisitOK, DeletionKnows, Stored
    <2> QED BY <2>1, <2>2
<1>3. ASSUME NEW j \in Stored(jobs)' PROVE JobOK(j)'
    <2>1. jobs' = [jobs EXCEPT ![t.job] = [user |-> t.user, records |-> t.records, owed |-> t.owed]]
        BY DEF CommitExport
    <2>2. CASE j = t.job
        <3>1. jobs'[j] = [user |-> t.user, records |-> t.records, owed |-> t.owed]
            BY <1>0, <2>1, <2>2 DEF TablesOK, Stored
        <3>2. /\ t.user \in User /\ t.owed \subseteq t.records /\ OwnedBy(t.records, t.user)
              /\ j \in objects
            BY <1>0, <2>2 DEF Leave, VisitOK, ExportKnows
        <3>3. OwnedBy(jobs[j].records, jobs[j].user)'
            BY <3>1, <3>2 DEF OwnedBy, CommitExport, Stored
        <3> QED BY <3>1, <3>2, <3>3 DEF JobOK, CommitExport
    <2>3. CASE j # t.job
        <3>1. jobs'[j] = jobs[j] /\ j \in Stored(jobs)
            BY <1>0, <2>1, <2>3 DEF TablesOK, Stored
        <3>2. JobOK(j)
            BY <3>1 DEF CustomersInv
        <3> QED BY <3>1, <3>2 DEF JobOK, OwnedBy, CommitExport, Stored
    <2> QED BY <2>2, <2>3
<1> QED BY <1>1, <1>2, <1>3 DEF CustomersInv

\* A customer is new, or one there was.
LEMMA ArrivalOK ==
    ASSUME TablesOK, NEW c \in Customer, NEW u \in User \cup {NoUser},
           c \notin Stored(customers), u = NoUser \/ ProfileOf(u) = {},
           customers' = [customers EXCEPT ![c] = [user |-> u, deleted |-> FALSE]]
    PROVE  /\ customers' \in [Customer -> [user : User \cup {NoUser}, deleted : BOOLEAN] \cup {Absent}]
           /\ Stored(customers)' = Stored(customers) \cup {c}
           /\ \A d \in Stored(customers) : customers'[d] = customers[d]
           /\ customers'[c].deleted = FALSE
           /\ \A d, e \in Stored(customers)' :
                 customers'[d].user = customers'[e].user => d = e \/ customers'[d].user = NoUser
<1>1. customers'[c] = [user |-> u, deleted |-> FALSE] /\ \A d \in Customer \ {c} : customers'[d] = customers[d]
    BY DEF TablesOK
<1>2. customers'[c] # Absent /\ customers'[c] \in [user : User \cup {NoUser}, deleted : BOOLEAN]
    <2>1. [user |-> u, deleted |-> FALSE] \in [user : User \cup {NoUser}, deleted : BOOLEAN]
        OBVIOUS
    <2> QED BY <1>1, <2>1, Absence
<1>3. customers' \in [Customer -> [user : User \cup {NoUser}, deleted : BOOLEAN] \cup {Absent}]
    BY <1>1, <1>2 DEF TablesOK
<1>4. Stored(customers)' = Stored(customers) \cup {c}
    BY <1>1, <1>2, <1>3 DEF Stored, TablesOK
<1>5. \A d \in Stored(customers) : d # c /\ customers'[d] = customers[d]
    BY <1>1 DEF Stored, TablesOK
<1>6. \A d \in Stored(customers) : customers[d].user = u => u = NoUser
    BY DEF ProfileOf
<1>7. \A d, e \in Stored(customers)' :
          customers'[d].user = customers'[e].user => d = e \/ customers'[d].user = NoUser
    BY <1>1, <1>4, <1>5, <1>6 DEF TablesOK
<1> QED BY <1>1, <1>3, <1>4, <1>5, <1>7

\* Requests in flight, where only new customers appear.
LEMMA CustomersGrow ==
    ASSUME CustomersInv, TablesOK', CascadeReaches', UNCHANGED <<records, jobs, objects, late>>,
           \A c \in Stored(customers) : c \in Stored(customers)' /\ customers'[c].user = customers[c].user,
           \A w \in Visit : visit'[w] = visit[w] \/ VisitOK(w)'
    PROVE  CustomersInv'
<1>0. TablesOK /\ (\A w \in Visit : VisitOK(w))
    BY DEF CustomersInv
<1>1. RowsKept
    BY DEF RowsKept
<1>2. ASSUME NEW w \in Visit, visit'[w] = visit[w] PROVE VisitOK(w)'
    BY <1>0, <1>1, <1>2, KnownStays DEF VisitOK, DeletionKnows, Stored
<1> QED BY <1>1, <1>2, JobsStay DEF CustomersInv

\* ensure_profile_for_user and create_walkin.
LEMMA NewCustomerOK ==
    ASSUME CustomersInv, NEW c \in Customer \ Stored(customers), NEW u \in User \cup {NoUser},
           u = NoUser \/ ProfileOf(u) = {},
           customers' = [customers EXCEPT ![c] = [user |-> u, deleted |-> FALSE]],
           UNCHANGED <<records, jobs, objects, late>>, DOMAIN visit' = Visit,
           \A w \in Visit : visit'[w] = visit[w] \/ VisitOK(w)'
    PROVE  CustomersInv'
<1>0. TablesOK /\ CascadeReaches
    BY DEF CustomersInv
<1>a. /\ c \notin Stored(customers)
      /\ customers' \in [Customer -> [user : User \cup {NoUser}, deleted : BOOLEAN] \cup {Absent}]
      /\ Stored(customers)' = Stored(customers) \cup {c}
      /\ \A d \in Stored(customers) : customers'[d] = customers[d]
      /\ \A d, e \in Stored(customers)' :
             customers'[d].user = customers'[e].user => d = e \/ customers'[d].user = NoUser
    <2>1. c \in Customer /\ c \notin Stored(customers)
        OBVIOUS
    <2> QED BY <1>0, <2>1, ArrivalOK
<1>1. TablesOK'
    <2>1. /\ Stored(records)' = Stored(records) /\ Stored(jobs)' = Stored(jobs)
        BY DEF Stored
    <2>2. \A r \in Stored(records) : records[r].customer \in Stored(customers)'
        BY <1>0, <1>a DEF TablesOK
    <2> QED BY <1>0, <1>a, <2>1, <2>2 DEF TablesOK
<1>2. CascadeReaches'
    BY <1>0, ArrivalOK, CustomerRows DEF CascadeReaches, Stored
<1> QED BY <1>0, <1>1, <1>2, <1>a, CustomersGrow

LEMMA CommitAccessOK ==
    ASSUME CustomersInv, NEW v \in Visit, CommitAccess(v)
    PROVE  CustomersInv'
<1>0. TablesOK /\ CascadeReaches /\ VisitOK(v) /\ Leave(v, "access")
    BY DEF CustomersInv, CommitAccess
<1>1. PICK c \in Customer : EnsureProfile(visit[v], c)
    BY DEF CommitAccess
<1>2. \A w \in Visit : visit'[w] = visit[w] \/ VisitOK(w)'
    BY <1>0, LeaveFacts
<1>3. CASE UNCHANGED customers
    <2>1. TablesOK' /\ CascadeReaches'
        BY <1>0, <1>3, LeaveFacts DEF CommitAccess, TablesOK, CascadeReaches, Stored
    <2> QED BY <1>2, <1>3, <2>1, CustomersGrow DEF CommitAccess, Stored
<1>4. CASE visit[v].profile = {}
    <2>1. visit[v].user \in User
        BY <1>0 DEF Leave, VisitOK, ProfileKept
    <2>2. /\ c \in Customer \ Stored(customers) /\ ProfileOf(visit[v].user) = {}
          /\ customers' = [customers EXCEPT ![c] = [user |-> visit[v].user, deleted |-> FALSE]]
        BY <1>1, <1>4 DEF EnsureProfile
    <2> QED BY <1>0, <1>2, <2>1, <2>2, LeaveFacts, NewCustomerOK DEF CommitAccess
<1> QED BY <1>1, <1>3, <1>4 DEF EnsureProfile

LEMMA CreateWalkinOK ==
    ASSUME CustomersInv, NEW v \in Visit, CreateWalkin(v)
    PROVE  CustomersInv'
BY NewCustomerOK DEF CreateWalkin, CustomersInv, TablesOK

\* The profile an intake ends up with: one there was, or a new one that is not deleted.
LEMMA ProfileFacts ==
    ASSUME TablesOK, NEW v \in Visit, ProfileKept(v), visit[v].op = "submit",
           NEW c \in Customer, EnsureProfile(visit[v], c)
    PROVE  /\ customers' \in [Customer -> [user : User \cup {NoUser}, deleted : BOOLEAN] \cup {Absent}]
           /\ c \in Stored(customers)'
           /\ \A d \in Stored(customers) : d \in Stored(customers)' /\ customers'[d] = customers[d]
           /\ c \notin Stored(customers) => customers'[c].deleted = FALSE
           /\ \A d, e \in Stored(customers)' :
                 customers'[d].user = customers'[e].user => d = e \/ customers'[d].user = NoUser
<1>1. CASE visit[v].profile # {}
    <2>1. UNCHANGED customers /\ c \in Stored(customers)
        BY <1>1 DEF EnsureProfile, ProfileKept, ProfileOf
    <2> QED BY <2>1 DEF TablesOK, Stored
<1>2. CASE visit[v].profile = {}
    <2>1. visit[v].user \in User /\ c \notin Stored(customers) /\ ProfileOf(visit[v].user) = {}
        BY <1>2 DEF EnsureProfile, ProfileKept
    <2>2. customers' = [customers EXCEPT ![c] = [user |-> visit[v].user, deleted |-> FALSE]]
        BY <1>2 DEF EnsureProfile
    <2> QED BY <2>1, <2>2, ArrivalOK
<1> QED BY <1>1, <1>2

\* A new record is late, or its customer is not deleted and nobody deletes it.
LEMMA CommitSubmitOK ==
    ASSUME CustomersInv, NEW v \in Visit, CommitSubmit(v)
    PROVE  CustomersInv'
<1>0. /\ TablesOK /\ CascadeReaches /\ (\A w \in Visit : VisitOK(w))
      /\ Leave(v, "submit") /\ UNCHANGED <<jobs, objects>> /\ visit[v].op = "submit"
    BY DEF CustomersInv, CommitSubmit, Leave
<1>1. PICK c \in Customer, r \in Record \ Stored(records) :
          /\ EnsureProfile(visit[v], c)
          /\ records' = [records EXCEPT ![r] = [customer |-> c, deleted |-> FALSE]]
          /\ late' = IF Deleting(c) \/ IsDeleted(c) THEN late \cup {r} ELSE late
    BY DEF CommitSubmit
<1>2. /\ customers' \in [Customer -> [user : User \cup {NoUser}, deleted : BOOLEAN] \cup {Absent}]
      /\ c \in Stored(customers)'
      /\ \A d \in Stored(customers) : d \in Stored(customers)' /\ customers'[d] = customers[d]
      /\ c \notin Stored(customers) => customers'[c].deleted = FALSE
      /\ \A d, e \in Stored(customers)' :
            customers'[d].user = customers'[e].user => d = e \/ customers'[d].user = NoUser
    BY <1>0, <1>1, ProfileFacts DEF VisitOK
<1>3. /\ records'[r] = [customer |-> c, deleted |-> FALSE]
      /\ records' \in [Record -> [customer : Customer, deleted : BOOLEAN] \cup {Absent}]
      /\ Stored(records)' = Stored(records) \cup {r}
      /\ \A q \in Stored(records) : q # r /\ records'[q] = records[q]
    <2>1. [customer |-> c, deleted |-> FALSE] \in [customer : Customer, deleted : BOOLEAN]
        OBVIOUS
    <2>2. records'[r] = [customer |-> c, deleted |-> FALSE] /\ \A q \in Record \ {r} : records'[q] = records[q]
        BY <1>0, <1>1 DEF TablesOK
    <2>3. records'[r] # Absent
        BY <2>1, <2>2, Absence
    <2>4. records' \in [Record -> [customer : Customer, deleted : BOOLEAN] \cup {Absent}]
        BY <1>0, <1>1, <2>1 DEF TablesOK
    <2>5. Stored(records)' = Stored(records) \cup {r}
        BY <1>0, <2>2, <2>3, <2>4 DEF Stored, TablesOK
    <2> QED BY <1>0, <2>2, <2>4, <2>5, CustomerRows
<1>4. RowsKept
    BY <1>0, <1>2, <1>3 DEF RowsKept
<1>5. TablesOK'
    <2>1. \A q \in Stored(records)' : records'[q].customer \in Stored(customers)'
        BY <1>0, <1>2, <1>3, CustomerRows
    <2> QED BY <1>0, <1>2, <1>3, <2>1, LeaveFacts DEF TablesOK
<1>6. late \subseteq late' /\ (Deleting(c) \/ IsDeleted(c) => r \in late')
    BY <1>1
<1>7. CascadeReaches'
    <2> SUFFICES ASSUME NEW q \in Stored(records)' \ late', customers'[records'[q].customer].deleted
                 PROVE  records'[q].deleted
        BY DEF CascadeReaches
    <2>1. CASE q = r
        <3>1. c \in Stored(customers) => ~customers'[c].deleted
            BY <1>2, <1>6, <2>1 DEF IsDeleted
        <3> QED BY <1>2, <1>3, <2>1, <3>1
    <2>2. CASE q # r
        BY <1>0, <1>2, <1>3, <1>6, <2>2, CustomerRows DEF CascadeReaches
    <2> QED BY <2>1, <2>2
<1>8. ASSUME NEW w \in Visit PROVE VisitOK(w)'
    <2>1. CASE w = v
        BY <1>0, <2>1, LeaveFacts
    <2>2. CASE w # v
        <3>1. visit'[w] = visit[w] /\ VisitOK(w)
            BY <1>0, <2>2, LeaveFacts
        <3>2. ProfileKept(w)' /\ ExportKnows(w)'
            BY <1>0, <1>4, <3>1, KnownStays DEF VisitOK
        <3>3. DeletionKnows(w)'
            <4> SUFFICES ASSUME visit[w].op = "delete"
                         PROVE  /\ visit[w].customer \in Stored(customers)'
                                /\ visit[w].records \subseteq Stored(records)'
                                /\ \A q \in Stored(records)' \ late' :
                                       records'[q].customer = visit[w].customer => q \in visit[w].records
                BY <3>1 DEF DeletionKnows
            <4>1. DeletionKnows(w) /\ Deleting(visit[w].customer)
                BY <3>1 DEF VisitOK, Deleting
            <4>2. ASSUME NEW q \in Stored(records)' \ late', records'[q].customer = visit[w].customer
                  PROVE  q \in visit[w].records
                <5>1. q # r
                    BY <1>3, <1>6, <4>1, <4>2
                <5> QED BY <1>3, <1>6, <4>1, <4>2, <5>1 DEF DeletionKnows
            <4> QED BY <1>2, <1>3, <4>1, <4>2 DEF DeletionKnows
        <3> QED BY <3>2, <3>3 DEF VisitOK
    <2> QED BY <2>1, <2>2
<1> QED BY <1>0, <1>4, <1>5, <1>7, <1>8, JobsStay DEF CustomersInv

\* soft_delete_customer takes all records with it that were not late.
LEMMA CommitDeleteOK ==
    ASSUME CustomersInv, NEW v \in Visit, CommitDelete(v)
    PROVE  CustomersInv'
<1> DEFINE c == visit[v].customer
           rs == visit[v].records
<1>0. /\ TablesOK /\ CascadeReaches /\ (\A w \in Visit : VisitOK(w))
      /\ Leave(v, "delete") /\ UNCHANGED <<jobs, objects, late>>
    BY DEF CustomersInv, CommitDelete
<1>1. /\ c \in Stored(customers) /\ rs \subseteq Stored(records)
      /\ \A r \in Stored(records) \ late : records[r].customer = c => r \in rs
    BY <1>0 DEF Leave, VisitOK, DeletionKnows
<1>2. /\ customers' \in [Customer -> [user : User \cup {NoUser}, deleted : BOOLEAN] \cup {Absent}]
      /\ Stored(customers)' = Stored(customers)
      /\ \A d \in Stored(customers) :
             customers'[d].user = customers[d].user /\ (d # c => customers'[d] = customers[d])
    <2>1. customers' = [customers EXCEPT ![c] = [customers[c] EXCEPT !.deleted = TRUE]]
        BY DEF CommitDelete
    <2>2. customers[c] \in [user : User \cup {NoUser}, deleted : BOOLEAN] /\ c \in Customer
        BY <1>0, <1>1, CustomerRows
    <2>3. /\ [customers[c] EXCEPT !.deleted = TRUE] \in [user : User \cup {NoUser}, deleted : BOOLEAN]
          /\ [customers[c] EXCEPT !.deleted = TRUE].user = customers[c].user
        BY <2>2
    <2>4. customers'[c] = [customers[c] EXCEPT !.deleted = TRUE]
          /\ \A d \in Customer \ {c} : customers'[d] = customers[d]
        BY <1>0, <2>1, <2>2 DEF TablesOK
    <2>5. customers'[c] # Absent
        BY <2>3, <2>4, Absence
    <2>6. customers' \in [Customer -> [user : User \cup {NoUser}, deleted : BOOLEAN] \cup {Absent}]
        BY <1>0, <2>1, <2>3 DEF TablesOK
    <2>7. Stored(customers)' = Stored(customers)
        BY <1>0, <1>1, <2>4, <2>5, <2>6 DEF Stored, TablesOK
    <2> QED BY <1>0, <2>3, <2>4, <2>6, <2>7, CustomerRows
<1>3. /\ records' \in [Record -> [customer : Customer, deleted : BOOLEAN] \cup {Absent}]
      /\ Stored(records)' = Stored(records)
      /\ \A r \in Stored(records) :
             /\ records'[r].customer = records[r].customer
             /\ records'[r].deleted <=> records[r].deleted \/ r \in rs
    <2>1. records' = [r \in Record |-> IF r \in rs THEN [records[r] EXCEPT !.deleted = TRUE] ELSE records[r]]
        BY DEF CommitDelete
    <2>2. ASSUME NEW r \in Stored(records)
          PROVE  /\ records'[r] \in [customer : Customer, deleted : BOOLEAN]
                 /\ records'[r].customer = records[r].customer
                 /\ records'[r].deleted <=> records[r].deleted \/ r \in rs
        <3>1. records[r] \in [customer : Customer, deleted : BOOLEAN] /\ r \in Record
            BY <1>0, CustomerRows
        <3>2. records'[r] = IF r \in rs THEN [records[r] EXCEPT !.deleted = TRUE] ELSE records[r]
            BY <2>1, <3>1
        <3>3. CASE r \in rs
            BY <3>1, <3>2, <3>3
        <3>4. CASE r \notin rs
            BY <3>1, <3>2, <3>4
        <3> QED BY <3>3, <3>4
    <2>3. \A r \in Record \ Stored(records) : records'[r] = Absent
        BY <1>0, <1>1, <2>1 DEF Stored, TablesOK
    <2>4. \A r \in Record : r \in Stored(records) \/ records'[r] = Absent
        BY <2>3
    <2>5. records' \in [Record -> [customer : Customer, deleted : BOOLEAN] \cup {Absent}]
        BY <2>1, <2>2, <2>4
    <2>6. \A r \in Stored(records) : r \in Record /\ records'[r] # Absent
        BY <1>0, <2>2, CustomerRows, Absence
    <2>7. Stored(records)' = Stored(records)
        BY <2>3, <2>5, <2>6 DEF Stored
    <2> QED BY <2>2, <2>5, <2>7
<1>4. RowsKept
    BY <1>0, <1>2, <1>3 DEF RowsKept
<1>5. TablesOK'
    BY <1>0, <1>2, <1>3, LeaveFacts DEF TablesOK
<1>6. CascadeReaches'
    <2> SUFFICES ASSUME NEW r \in Stored(records) \ late, customers'[records'[r].customer].deleted
                 PROVE  records'[r].deleted
        BY <1>0, <1>3 DEF CascadeReaches
    <2> QED BY <1>0, <1>1, <1>2, <1>3, CustomerRows DEF CascadeReaches
<1>7. ASSUME NEW w \in Visit PROVE VisitOK(w)'
    <2>1. CASE w = v
        BY <1>0, <2>1, LeaveFacts
    <2>2. CASE w # v
        <3>1. visit'[w] = visit[w] /\ VisitOK(w)
            BY <1>0, <2>2, LeaveFacts
        <3>2. ProfileKept(w)' /\ ExportKnows(w)'
            BY <1>0, <1>4, <3>1, KnownStays DEF VisitOK
        <3>3. DeletionKnows(w)'
            BY <1>0, <1>2, <1>3, <3>1 DEF VisitOK, DeletionKnows
        <3> QED BY <3>2, <3>3 DEF VisitOK
    <2> QED BY <2>1, <2>2
<1> QED BY <1>0, <1>4, <1>5, <1>6, <1>7, JobsStay DEF CustomersInv

-----------------------------------------------------------------------------
\* The invariant behind the theorems: the tables, and what requests know of them.
THEOREM CustomersInductive == CustomersSpec => []CustomersInv
<1>1. CustomersInit => CustomersInv
    BY CustomersInitOK
<1>2. CustomersInv /\ [CustomersNext]_customerVars => CustomersInv'
    <2>1. ASSUME CustomersInv, CustomersNext PROVE CustomersInv'
        BY <2>1, BeginVisitOK, CommitAccessOK, CommitSubmitOK, CreateWalkinOK, CommitDeleteOK,
           GatherOK, UploadOK, CommitExportOK, FailOK DEF CustomersNext
    <2>2. ASSUME CustomersInv, UNCHANGED customerVars PROVE CustomersInv'
        BY <2>2 DEF customerVars, CustomersInv, TablesOK, CascadeReaches, VisitOK, ProfileKept, DeletionKnows,
                    ExportKnows, JobOK, OwnedBy, ProfileOf, RecordsOf, Stored
    <2> QED BY <2>1, <2>2
<1> QED BY <1>1, <1>2, PTL DEF CustomersSpec

\* The tables hold rows of their types, and no two customers one user (Customers).
THEOREM CustomersTyped == CustomersSpec => []CustomersTypeOK
<1>1. ASSUME CustomersInv PROVE CustomersTypeOK
    <2>0. TablesOK
        BY <1>1 DEF CustomersInv
    <2>1. records \in [Record -> [customer : Stored(customers), deleted : BOOLEAN] \cup {Absent}]
        <3>1. \A r \in Record : records[r] \in [customer : Stored(customers), deleted : BOOLEAN] \cup {Absent}
            <4> SUFFICES ASSUME NEW r \in Record, records[r] # Absent
                         PROVE  records[r] \in [customer : Stored(customers), deleted : BOOLEAN]
                OBVIOUS
            <4>1. r \in Stored(records)
                BY <2>0 DEF Stored, TablesOK
            <4>2. /\ records[r] \in [customer : Customer, deleted : BOOLEAN]
                  /\ records[r].customer \in Stored(customers)
                BY <2>0, <4>1, CustomerRows
            <4> QED BY <4>2
        <3> QED BY <2>0, <3>1 DEF TablesOK
    <2>2. ASSUME NEW j \in Stored(jobs)
          PROVE  jobs[j] \in [user : User, records : SUBSET Stored(records), owed : SUBSET Stored(records)]
        <3>1. /\ jobs[j] = [user |-> jobs[j].user, records |-> jobs[j].records, owed |-> jobs[j].owed]
              /\ jobs[j].user \in User
              /\ jobs[j].records \subseteq Stored(records) /\ jobs[j].owed \subseteq Stored(records)
            BY <1>1, <2>2 DEF CustomersInv, JobOK, OwnedBy
        <3> QED BY <3>1
    <2> QED BY <2>0, <2>1, <2>2 DEF CustomersTypeOK, TablesOK
<1> QED BY <1>1, CustomersInductive, PTL

\* Of a deleted customer no record is left that was there when the deletion began
\* (soft_delete_customer), however many intakes and deletions overlap.
THEOREM DeletionReaches == CustomersSpec => []CascadeReaches
BY CustomersInductive, PTL DEF CustomersInv

\* A finished export has all its user's records and nobody else's, and its file is
\* there (request_export).
THEOREM ExportsAreFaithful == CustomersSpec => []ExportFaithful
<1>1. CustomersInv => ExportFaithful
    BY DEF CustomersInv, ExportFaithful, JobOK, OwnedBy
<1> QED BY <1>1, CustomersInductive, PTL

HIDE CustomersAssumption

-----------------------------------------------------------------------------
(* Retention                                                               *)

SweepRow == [at : {"ensure", "work", "scrub", "scrubbed", "commit"}, now : Int,
             made : SUBSET Int, done : SUBSET Int, whole : BOOLEAN]

\* What is there and what is running.
SweepsOK ==
    /\ RetentionTypeOK
    /\ sweep \in [Sweeper -> SweepRow \cup {Resting}]
    /\ \A p \in Sweeper : sweep[p] # Resting => sweep[p].now \in First .. month

\* Months that were prepared have their partition for good.
PartsKept ==
    /\ First - Back .. First + Forward \subseteq parts
    /\ \A k \in swept : k .. k + 2 \subseteq parts

\* The months a running sweep makes are not in the default partition, and with them
\* all it has to prepare are there.
MakingOK(p) ==
    sweep[p] # Resting =>
        /\ Creatable(sweep[p].made)
        /\ sweep[p].whole /\ sweep[p].at # "ensure" =>
               sweep[p].now .. sweep[p].now + 2 \subseteq parts \cup sweep[p].made

\* What was due before a sweep began is in what it deletes.
DeletingOK(p) ==
    sweep[p] # Resting /\ sweep[p].whole =>
        /\ sweep[p].at # "commit"
        /\ sweep[p].at \in {"scrub", "scrubbed"} =>
               \A d \in due : d \in sweep[p].done \/ d >= sweep[p].now

SweepOK(p) == MakingOK(p) /\ DeletingOK(p)

RetentionInv == SweepsOK /\ PartsKept /\ RetentionKept /\ \A p \in Sweeper : SweepOK(p)

USE RetentionAssumption DEF First, Month, Ahead, Kept

-----------------------------------------------------------------------------
\* Rows and sweeps by their fields.
LEMMA RetentionRows ==
    ASSUME SweepsOK
    PROVE  /\ month \in Int /\ month >= 1 /\ parts \subseteq Int /\ due \subseteq Int
           /\ swept \subseteq Int /\ \A k \in swept : k <= month
           /\ \A e \in Logged : /\ e \in Entry /\ entries[e] \in EntryRow
                                /\ entries[e].default <=> entries[e].month \notin parts
           /\ \A p \in Sweeper : sweep[p].at # "rest" <=> sweep[p] # Resting
           /\ \A p \in Sweeper : sweep[p] # Resting =>
                 sweep[p] \in SweepRow /\ sweep[p].now <= month /\ sweep[p].now >= 1
<1>1. ASSUME NEW e \in Logged
      PROVE  /\ e \in Entry /\ entries[e] \in EntryRow
             /\ entries[e].default <=> entries[e].month \notin parts
    BY DEF SweepsOK, RetentionTypeOK, Logged
<1>2. ASSUME NEW p \in Sweeper, sweep[p] # Resting
      PROVE  /\ sweep[p] \in SweepRow /\ sweep[p].now <= month /\ sweep[p].now >= 1
             /\ sweep[p].at # "rest"
    BY <1>2 DEF SweepsOK, RetentionTypeOK, SweepRow
<1>3. ASSUME NEW p \in Sweeper, sweep[p] = Resting
      PROVE  sweep[p].at = "rest"
    BY <1>3 DEF Resting
<1> QED BY <1>1, <1>2, <1>3 DEF SweepsOK, RetentionTypeOK

\* Where the row of an event goes.
LEMMA RoutedFacts ==
    ASSUME NEW m \in Month, NEW ps
    PROVE  /\ Routed(m, ps) \in EntryRow /\ Routed(m, ps).month = m
           /\ Routed(m, ps).default <=> m \notin ps
<1>1. PICK b \in BOOLEAN : b = (m \notin ps)
    OBVIOUS
<1>2. Routed(m, ps) = [month |-> m, default |-> b, pii |-> TRUE]
    BY <1>1 DEF Routed
<1>3. [month |-> m, default |-> b, pii |-> TRUE] \in EntryRow
    BY DEF EntryRow
<1>4. Routed(m, ps).month = m /\ Routed(m, ps).default = b
    BY <1>2
<1>5. Routed(m, ps).default <=> m \notin ps
    BY <1>1, <1>4, Zenon
<1> QED BY <1>2, <1>3, <1>4, <1>5

\* The migration has routed the rows there were.
LEMMA RetentionInitOK == RetentionInit => RetentionInv
<1> SUFFICES ASSUME RetentionInit PROVE RetentionInv
    OBVIOUS
<1>1. ASSUME NEW e \in Entry
      PROVE  /\ entries[e] \in EntryRow \cup {NoEntry}
             /\ entries[e] # NoEntry => (entries[e].default <=> entries[e].month \notin parts)
    <2>1. CASE entries[e] = NoEntry
        BY <2>1
    <2>2. CASE \E m \in 0 .. First : entries[e] = Routed(m, parts)
        BY <2>2, RoutedFacts
    <2>3. entries[e] \in {NoEntry} \cup {Routed(m, parts) : m \in 0 .. First}
        BY DEF RetentionInit
    <2> QED BY <2>1, <2>2, <2>3
<1>2. entries \in [Entry -> EntryRow \cup {NoEntry}]
    BY <1>1 DEF RetentionInit
<1>3. SweepsOK
    BY <1>1, <1>2 DEF RetentionInit, SweepsOK, RetentionTypeOK, Logged
<1>4. PartsKept /\ RetentionKept /\ \A p \in Sweeper : SweepOK(p)
    BY DEF RetentionInit, PartsKept, RetentionKept, SweepOK, MakingOK, DeletingOK
<1> QED BY <1>3, <1>4 DEF RetentionInv

-----------------------------------------------------------------------------
(* The application.                                                        *)

\* A new row goes where the partitions there are send it, and no partition is being made.
LEMMA AuditOK ==
    ASSUME RetentionInv, Audit
    PROVE  RetentionInv'
<1>0. SweepsOK /\ PartsKept /\ RetentionKept /\ \A p \in Sweeper : SweepOK(p)
    BY DEF RetentionInv
<1>1. PICK e \in Entry \ Logged : entries' = [entries EXCEPT ![e] = Routed(month, parts)]
    BY DEF Audit
<1>2. UNCHANGED <<month, parts, due, sweep, swept, chore>> /\ LogFree
    BY DEF Audit
<1>3. /\ Routed(month, parts) \in EntryRow /\ Routed(month, parts).month = month
      /\ Routed(month, parts).default <=> month \notin parts
    BY <1>0, RoutedFacts DEF SweepsOK, RetentionTypeOK
<1>4. entries'[e] = Routed(month, parts) /\ \A f \in Entry \ {e} : entries'[f] = entries[f]
    BY <1>0, <1>1 DEF SweepsOK, RetentionTypeOK
<1>5. /\ entries' \in [Entry -> EntryRow \cup {NoEntry}]
      /\ Logged' \subseteq Logged \cup {e}
    BY <1>0, <1>1, <1>3, <1>4 DEF SweepsOK, RetentionTypeOK, Logged
<1>6. SweepsOK'
    <2>1. \A f \in Logged' : entries'[f].default <=> entries'[f].month \notin parts'
        BY <1>0, <1>2, <1>3, <1>4, <1>5, RetentionRows
    <2> QED BY <1>0, <1>2, <1>5, <2>1 DEF SweepsOK, RetentionTypeOK
<1>7. RetentionKept'
    BY <1>0, <1>2, <1>3, <1>4, <1>5, RetentionRows DEF RetentionKept
<1>8. \A p \in Sweeper : SweepOK(p)'
    BY <1>0, <1>2 DEF LogFree, SweepOK, MakingOK, DeletingOK, Creatable
<1> QED BY <1>0, <1>2, <1>6, <1>7, <1>8 DEF RetentionInv, PartsKept

\* What falls due falls due this month, and no sweep is of a later one.
LEMMA FallDueOK ==
    ASSUME RetentionInv, FallDue
    PROVE  RetentionInv'
<1>0. SweepsOK /\ PartsKept /\ RetentionKept /\ \A p \in Sweeper : SweepOK(p)
    BY DEF RetentionInv
<1>1. SweepsOK'
    BY <1>0 DEF FallDue, SweepsOK, RetentionTypeOK, Logged
<1>2. RetentionKept'
    BY <1>0, RetentionRows DEF FallDue, RetentionKept, Logged
<1>3. ASSUME NEW p \in Sweeper PROVE SweepOK(p)'
    BY <1>0, RetentionRows DEF FallDue, SweepOK, MakingOK, DeletingOK, Creatable, Logged
<1> QED BY <1>0, <1>1, <1>2, <1>3 DEF RetentionInv, PartsKept, FallDue

LEMMA NextMonthOK ==
    ASSUME RetentionInv, NextMonth
    PROVE  RetentionInv'
<1>0. SweepsOK /\ PartsKept /\ RetentionKept /\ \A p \in Sweeper : SweepOK(p)
    BY DEF RetentionInv
<1>1. SweepsOK'
    BY <1>0 DEF NextMonth, SweepsOK, RetentionTypeOK, Logged
<1>2. RetentionKept' /\ PartsKept' /\ \A p \in Sweeper : SweepOK(p)'
    BY <1>0 DEF NextMonth, RetentionKept, PartsKept, Logged, SweepOK, MakingOK, DeletingOK, Creatable
<1> QED BY <1>1, <1>2 DEF RetentionInv

-----------------------------------------------------------------------------
(* The sweep.                                                              *)

\* A step of one sweep that commits nothing.
LEMMA SweepStepOK ==
    ASSUME RetentionInv, UNCHANGED <<month, parts, entries, due, swept>>, NEW p \in Sweeper,
           NEW t \in SweepRow \cup {Resting}, sweep' = [sweep EXCEPT ![p] = t],
           t # Resting => t.now \in 1 .. month, SweepOK(p)'
    PROVE  RetentionInv'
<1>0. SweepsOK /\ PartsKept /\ RetentionKept /\ \A q \in Sweeper : SweepOK(q)
    BY DEF RetentionInv
<1>1. sweep'[p] = t /\ \A q \in Sweeper \ {p} : sweep'[q] = sweep[q]
    BY <1>0 DEF SweepsOK
<1>2. SweepsOK'
    BY <1>0, <1>1 DEF SweepsOK, RetentionTypeOK, Logged
<1>3. RetentionKept' /\ PartsKept'
    BY <1>0 DEF RetentionKept, PartsKept, Logged
<1>4. ASSUME NEW q \in Sweeper, q # p PROVE SweepOK(q)'
    BY <1>0, <1>1, <1>4 DEF SweepOK, MakingOK, DeletingOK, Creatable, Logged
<1> QED BY <1>2, <1>3, <1>4 DEF RetentionInv

LEMMA BeginSweepOK ==
    ASSUME RetentionInv, NEW p \in Sweeper, NEW at \in {"ensure", "work", "scrub"}, Begin(p, at)
    PROVE  RetentionInv'
<1> DEFINE t == [at |-> at, now |-> month, made |-> {}, done |-> {}, whole |-> at = "ensure"]
<1>1. SweepsOK /\ sweep' = [sweep EXCEPT ![p] = t] /\ UNCHANGED <<month, parts, entries, due, swept>>
    BY DEF RetentionInv, Begin, SweepFrame
<1>2. t \in SweepRow /\ t.now \in 1 .. month /\ sweep'[p] = t
    BY <1>1, RetentionRows DEF SweepRow, SweepsOK
<1>3. /\ sweep'[p].made = {} /\ sweep'[p].at = at
      /\ sweep'[p].whole => sweep'[p].at = "ensure"
    <2>1. t.made = {} /\ t.at = at /\ t.whole = (at = "ensure")
        OBVIOUS
    <2> HIDE DEF t
    <2> QED BY <1>2, <2>1, Zenon
<1>4. SweepOK(p)'
    BY <1>3 DEF SweepOK, MakingOK, DeletingOK, Creatable
<1> QED BY <1>1, <1>2, <1>4, SweepStepOK

\* What is missing is made, unless the default partition holds rows of it.
LEMMA EnsurePartitionsOK ==
    ASSUME RetentionInv, NEW p \in Sweeper, EnsurePartitions(p)
    PROVE  RetentionInv'
<1> DEFINE t == [sweep[p] EXCEPT !.at = "work", !.made = Missing(sweep[p].now)]
<1>1. SweepsOK /\ UNCHANGED <<month, parts, entries, due, swept>> /\ sweep[p].at = "ensure"
    BY DEF RetentionInv, EnsurePartitions, SweepFrame
<1>2. /\ sweep[p] \in SweepRow /\ sweep[p].now \in 1 .. month
      /\ sweep[p].now \in Int /\ Missing(sweep[p].now) \subseteq Int
      /\ sweep[p].now .. sweep[p].now + 2 \subseteq parts \cup Missing(sweep[p].now)
    <2>1. sweep[p] \in SweepRow /\ sweep[p].now \in 1 .. month /\ sweep[p].now \in Int
        BY <1>1, RetentionRows DEF SweepRow
    <2>2. Missing(sweep[p].now) \subseteq Int
        BY <2>1 DEF Missing
    <2>3. ASSUME NEW m \in sweep[p].now .. sweep[p].now + 2 PROVE m \in parts \cup Missing(sweep[p].now)
        <3>1. m - sweep[p].now \in 0 .. 2 /\ m = sweep[p].now + (m - sweep[p].now)
            BY <2>1, <2>3
        <3> QED BY <3>1 DEF Missing
    <2> QED BY <2>1, <2>2, <2>3
<1>3. sweep' = [sweep EXCEPT ![p] = t]
    BY DEF EnsurePartitions
<1>4. /\ t \in SweepRow /\ t.now = sweep[p].now /\ t.at = "work" /\ t.made = Missing(sweep[p].now)
      /\ sweep'[p] = t
    BY <1>1, <1>2, <1>3 DEF SweepRow, SweepsOK
<1>5. Creatable(Missing(sweep[p].now))
    BY DEF EnsurePartitions
<1>6. SweepOK(p)'
    <2>1. MakingOK(p)'
        BY <1>1, <1>2, <1>4, <1>5 DEF MakingOK, Creatable, Logged
    <2> QED BY <1>4, <2>1 DEF SweepOK, DeletingOK
<1> HIDE DEF t
<1> QED BY <1>1, <1>2, <1>3, <1>4, <1>6, SweepStepOK

\* What is deleted is all that was due when the sweep looked.
LEMMA DeleteExpiredOK ==
    ASSUME RetentionInv, NEW p \in Sweeper, DeleteExpired(p)
    PROVE  RetentionInv'
<1> DEFINE at == IF sweep[p].whole THEN "scrub" ELSE "commit"
           done == {d \in due : d <= sweep[p].now}
           t == [sweep[p] EXCEPT !.at = at, !.done = done]
<1>1. SweepsOK /\ UNCHANGED <<month, parts, entries, due, swept>> /\ sweep[p].at = "work" /\ SweepOK(p)
    BY DEF RetentionInv, DeleteExpired, SweepFrame
<1>2. sweep[p] \in SweepRow /\ sweep[p].now \in 1 .. month /\ sweep[p] # Resting /\ due \subseteq Int
    BY <1>1, RetentionRows DEF SweepRow
<1>3. at \in {"scrub", "commit"} /\ done \subseteq Int
    BY <1>2
<1>4. sweep' = [sweep EXCEPT ![p] = t]
    BY DEF DeleteExpired
<1>5. /\ t \in SweepRow /\ t.now = sweep[p].now /\ t.at = at /\ t.made = sweep[p].made
      /\ t.done = done /\ t.whole = sweep[p].whole /\ sweep'[p] = t
    <2> HIDE DEF at, done
    <2> QED BY <1>1, <1>2, <1>3, <1>4 DEF SweepRow, SweepsOK
<1>6. SweepOK(p)'
    <2>1. MakingOK(p)'
        BY <1>1, <1>2, <1>5 DEF SweepOK, MakingOK, Creatable, Logged
    <2>2. DeletingOK(p)'
        <3>1. \A d \in due : d \in done \/ d >= sweep[p].now
            BY <1>2, RetentionRows, <1>1 DEF SweepRow
        <3> QED BY <1>1, <1>2, <1>5, <3>1 DEF DeletingOK
    <2> QED BY <2>1, <2>2 DEF SweepOK
<1> HIDE DEF t
<1> QED BY <1>1, <1>2, <1>4, <1>5, <1>6, SweepStepOK

LEMMA ScrubAuditOK ==
    ASSUME RetentionInv, NEW p \in Sweeper, ScrubAudit(p)
    PROVE  RetentionInv'
<1> DEFINE t == [sweep[p] EXCEPT !.at = "scrubbed"]
<1>1. SweepsOK /\ UNCHANGED <<month, parts, entries, due, swept>> /\ sweep[p].at = "scrub" /\ SweepOK(p)
    BY DEF RetentionInv, ScrubAudit, SweepFrame
<1>2. sweep[p] \in SweepRow /\ sweep[p].now \in 1 .. month /\ sweep[p] # Resting
    BY <1>1, RetentionRows DEF SweepRow
<1>3. sweep' = [sweep EXCEPT ![p] = t]
    BY DEF ScrubAudit
<1>4. /\ t \in SweepRow /\ t.now = sweep[p].now /\ t.at = "scrubbed" /\ t.made = sweep[p].made
      /\ t.done = sweep[p].done /\ t.whole = sweep[p].whole /\ sweep'[p] = t
    BY <1>1, <1>2, <1>3 DEF SweepRow, SweepsOK
<1>5. SweepOK(p)'
    BY <1>1, <1>2, <1>4 DEF SweepOK, MakingOK, DeletingOK, Creatable, Logged
<1> HIDE DEF t
<1> QED BY <1>1, <1>2, <1>3, <1>4, <1>5, SweepStepOK

LEMMA AbandonSweepOK ==
    ASSUME RetentionInv, NEW p \in Sweeper, AbandonSweep(p)
    PROVE  RetentionInv'
<1>1. SweepsOK /\ UNCHANGED <<month, parts, entries, due, swept>> /\ sweep' = [sweep EXCEPT ![p] = Resting]
    BY DEF RetentionInv, AbandonSweep, SweepFrame
<1>2. sweep'[p] = Resting
    BY <1>1 DEF SweepsOK
<1>3. SweepOK(p)'
    BY <1>2 DEF SweepOK, MakingOK, DeletingOK
<1> QED BY <1>1, <1>3, SweepStepOK

\* Nothing is lost of a row but its address, and that only when it is old.
LEMMA CommitSweepOK ==
    ASSUME RetentionInv, NEW p \in Sweeper, CommitSweep(p)
    PROVE  RetentionInv'
<1> DEFINE t == sweep[p]
<1>0. SweepsOK /\ PartsKept /\ RetentionKept /\ \A q \in Sweeper : SweepOK(q)
    BY DEF RetentionInv
<1>1. /\ t.at \in {"scrubbed", "commit"} /\ t # Resting /\ t \in SweepRow
      /\ t.now \in 1 .. month /\ t.now \in Int
    BY <1>0, RetentionRows DEF CommitSweep, SweepRow
<1>2. /\ parts' = parts \cup t.made /\ due' = due \ t.done /\ month' = month
      /\ swept' = IF t.whole THEN swept \cup {t.now} ELSE swept
      /\ sweep' = [sweep EXCEPT ![p] = Resting]
    BY DEF CommitSweep
<1>3. /\ t.made \subseteq Int
      /\ t.whole => /\ t.at = "scrubbed" /\ t.now .. t.now + 2 \subseteq parts'
                    /\ \A d \in due' : d >= t.now
    BY <1>0, <1>1, <1>2 DEF SweepRow, SweepOK, MakingOK, DeletingOK
<1>4. sweep'[p] = Resting /\ \A q \in Sweeper \ {p} : sweep'[q] = sweep[q]
    BY <1>0, <1>2 DEF SweepsOK
<1>5. ASSUME NEW e \in Entry
      PROVE  /\ entries'[e] = NoEntry <=> entries[e] = NoEntry
             /\ entries'[e] \in EntryRow \cup {NoEntry}
             /\ e \in Logged =>
                   /\ entries'[e].month = entries[e].month
                   /\ entries'[e].default <=> entries[e].default
    <2>1. entries'[e] = IF t.at = "scrubbed" /\ e \in Logged /\ Old(e, t.now)
                        THEN [entries[e] EXCEPT !.pii = FALSE] ELSE entries[e]
        BY DEF CommitSweep
    <2>2. CASE e \notin Logged
        BY <1>0, <2>1, <2>2 DEF Logged, SweepsOK, RetentionTypeOK
    <2>3. CASE e \in Logged
        <3>1. entries[e] \in EntryRow /\ entries[e] # NoEntry /\ entries[e].month \in Int
            BY <1>0, <2>3, RetentionRows DEF Logged, EntryRow
        <3>2. CASE t.at = "scrubbed" /\ Old(e, t.now)
            BY <2>1, <2>3, <3>1, <3>2 DEF EntryRow, NoEntry
        <3>3. CASE ~(t.at = "scrubbed" /\ Old(e, t.now))
            BY <1>1, <2>1, <2>3, <3>1, <3>3 DEF Old
        <3> QED BY <3>2, <3>3
    <2> QED BY <2>2, <2>3
<1>5a. ASSUME NEW e \in Logged, entries'[e].pii
       PROVE  /\ entries[e].pii /\ entries'[e].month = entries[e].month
              /\ t.at = "scrubbed" => entries[e].month >= t.now - 1
    <2>1. e \in Entry /\ entries[e] \in EntryRow /\ entries[e].month \in Int
        BY <1>0, RetentionRows DEF EntryRow
    <2>2. entries'[e] = IF t.at = "scrubbed" /\ Old(e, t.now)
                        THEN [entries[e] EXCEPT !.pii = FALSE] ELSE entries[e]
        BY <2>1 DEF CommitSweep
    <2>3. ~(t.at = "scrubbed" /\ Old(e, t.now))
        <3> SUFFICES ASSUME t.at = "scrubbed" /\ Old(e, t.now) PROVE FALSE
            OBVIOUS
        <3>1. entries'[e].pii = FALSE
            BY <2>1, <2>2 DEF EntryRow
        <3> QED BY <1>5a, <3>1
    <2>4. entries'[e] = entries[e]
        BY <2>2, <2>3
    <2>5. entries[e].pii
        BY <1>5a, <2>4, Zenon
    <2> QED BY <1>1, <2>1, <2>3, <2>4, <2>5 DEF Old
<1>6. Logged' = Logged
    BY <1>5 DEF Logged
<1>7. \A e \in Logged : e \in Entry /\ (entries[e].default <=> entries[e].month \notin parts)
                         /\ (entries[e].default => entries[e].month \notin t.made)
    BY <1>0, <1>1, RetentionRows DEF SweepOK, MakingOK, Creatable
<1>8. SweepsOK'
    <2>1. entries' \in [Entry -> EntryRow \cup {NoEntry}]
        BY <1>5 DEF CommitSweep
    <2>2. \A e \in Logged' : entries'[e].default <=> entries'[e].month \notin parts'
        BY <1>2, <1>5, <1>6, <1>7
    <2>3. /\ parts' \subseteq Int /\ due' \subseteq Month /\ swept' \subseteq First .. month'
          /\ month' \in First .. MaxMonth
        BY <1>0, <1>1, <1>2, <1>3 DEF SweepsOK, RetentionTypeOK
    <2>4. /\ sweep' \in [Sweeper -> SweepRow \cup {Resting}]
          /\ \A q \in Sweeper : sweep'[q] # Resting => sweep'[q].now \in First .. month'
        BY <1>0, <1>2, <1>4 DEF SweepsOK
    <2> QED BY <2>1, <2>2, <2>3, <2>4 DEF SweepsOK, RetentionTypeOK
<1>9. PartsKept'
    BY <1>0, <1>2, <1>3 DEF PartsKept
<1>10. RetentionKept'
    <2> SUFFICES ASSUME NEW k \in swept'
                 PROVE  /\ \A d \in due' : d >= k
                        /\ \A e \in Logged : entries'[e].pii => entries'[e].month >= k - 1
        BY <1>6 DEF RetentionKept
    <2>1. CASE k \in swept
        <3>1. \A d \in due : d >= k
            BY <1>0, <2>1 DEF RetentionKept
        <3>2. ASSUME NEW e \in Logged, entries'[e].pii PROVE entries'[e].month >= k - 1
            <4>1. entries[e].pii /\ entries'[e].month = entries[e].month
                BY <1>5a, <3>2
            <4>2. entries[e].month >= k - 1
                BY <1>0, <2>1, <4>1 DEF RetentionKept
            <4> QED BY <4>1, <4>2
        <3> QED BY <1>2, <3>1, <3>2
    <2>2. CASE t.whole /\ k = t.now
        <3>1. ASSUME NEW e \in Logged, entries'[e].pii PROVE entries'[e].month >= k - 1
            <4>1. entries[e].month >= t.now - 1 /\ entries'[e].month = entries[e].month
                BY <1>3, <1>5a, <2>2, <3>1
            <4> QED BY <2>2, <4>1
        <3> QED BY <1>3, <2>2, <3>1
    <2> QED BY <1>2, <2>1, <2>2
<1>11. ASSUME NEW q \in Sweeper PROVE SweepOK(q)'
    <2>1. CASE q = p
        BY <1>4, <2>1 DEF SweepOK, MakingOK, DeletingOK
    <2>2. CASE q # p
        <3>1. SweepOK(q) /\ sweep'[q] = sweep[q]
            BY <1>0, <1>4, <2>2
        <3>2. ASSUME NEW ms, Creatable(ms) PROVE Creatable(ms)'
            BY <1>5, <1>6, <1>7, <3>2 DEF Creatable
        <3> QED BY <1>2, <3>1, <3>2 DEF SweepOK, MakingOK, DeletingOK
    <2> QED BY <2>1, <2>2
<1> QED BY <1>8, <1>9, <1>10, <1>11 DEF RetentionInv

-----------------------------------------------------------------------------
LEMMA RetentionStutterOK ==
    ASSUME RetentionInv, UNCHANGED retentionVars
    PROVE  RetentionInv'
BY DEF retentionVars, RetentionInv, SweepsOK, RetentionTypeOK, Logged, PartsKept, RetentionKept, SweepOK,
       MakingOK, DeletingOK, Creatable

\* The strengthening of SweepHolds that every step keeps.
THEOREM RetentionInductive == RetentionSpec => []RetentionInv
<1>1. RetentionInit => RetentionInv
    BY RetentionInitOK
<1>2. RetentionInv /\ [RetentionNext]_retentionVars => RetentionInv'
    <2> SUFFICES ASSUME RetentionInv, [RetentionNext]_retentionVars PROVE RetentionInv'
        OBVIOUS
    <2>1. CASE Audit
        BY <2>1, AuditOK
    <2>2. CASE FallDue
        BY <2>2, FallDueOK
    <2>3. CASE NextMonth
        BY <2>3, NextMonthOK
    <2>4. ASSUME NEW p \in Sweeper, BeginSweep(p) \/ BeginErasureScript(p) \/ BeginScrubScript(p)
          PROVE  RetentionInv'
        BY <2>4, BeginSweepOK DEF BeginSweep, BeginErasureScript, BeginScrubScript
    <2>5. ASSUME NEW p \in Sweeper, EnsurePartitions(p) PROVE RetentionInv'
        BY <2>5, EnsurePartitionsOK
    <2>6. ASSUME NEW p \in Sweeper, DeleteExpired(p) PROVE RetentionInv'
        BY <2>6, DeleteExpiredOK
    <2>7. ASSUME NEW p \in Sweeper, ScrubAudit(p) PROVE RetentionInv'
        BY <2>7, ScrubAuditOK
    <2>8. ASSUME NEW p \in Sweeper, CommitSweep(p) PROVE RetentionInv'
        BY <2>8, CommitSweepOK
    <2>9. ASSUME NEW p \in Sweeper, AbandonSweep(p) PROVE RetentionInv'
        BY <2>9, AbandonSweepOK
    <2>10. CASE UNCHANGED retentionVars
        BY <2>10, RetentionStutterOK
    <2> QED BY <2>1, <2>2, <2>3, <2>4, <2>5, <2>6, <2>7, <2>8, <2>9, <2>10 DEF RetentionNext
<1> QED BY <1>1, <1>2, PTL DEF RetentionSpec

\* Clock, partitions, rows and committed sweeps stay in their types, and a row is in
\* the default partition exactly when its month has none of its own.
THEOREM RetentionTyped == RetentionSpec => []RetentionTypeOK
<1>1. RetentionInv => RetentionTypeOK
    BY DEF RetentionInv, SweepsOK
<1> QED BY <1>1, RetentionInductive, PTL

\* However many sweeps and scripts run at once, are abandoned or come late, the months
\* a committed sweep prepared have their partition for good, and nothing that was due
\* before it, nor an address older than it keeps, is left.
THEOREM SweepsHold == RetentionSpec => []SweepHolds
<1>1. RetentionInv => SweepHolds
    <2> SUFFICES ASSUME RetentionInv PROVE DefaultNeedsGap
        BY DEF RetentionInv, SweepHolds
    <2>1. SweepsOK /\ PartsKept
        BY DEF RetentionInv
    <2> QED BY <2>1, RetentionRows DEF DefaultNeedsGap, PartsKept
<1> QED BY <1>1, RetentionInductive, PTL

HIDE RetentionAssumption DEF First, Month, Ahead, Kept

-----------------------------------------------------------------------------
(* Integrations: badges                                                    *)

\* What is stored of a secret that a test or a save that runs has read is still there.
RequestKnows(h) ==
    request[h] # Waiting =>
        /\ request[h].name \in Integration
        /\ request[h].op = "store" =>
               /\ request[h].secret \in Secret
               /\ request[h].row # NotSet => /\ creds[request[h].name] # NotSet
                                             /\ request[h].row \in Credential
               /\ request[h].row # NotSet /\ request[h].row.badge = "none"
                      /\ request[h].name \notin mixed
                    => creds[request[h].name].badge = "none"
        /\ request[h].op = "test" =>
               /\ creds[request[h].name] # NotSet
               /\ request[h].row \in Credential
               /\ request[h].name \notin mixed
                    => creds[request[h].name].secret = request[h].row.secret

BadgeInv ==
    /\ creds \in [Integration -> Credential \cup {NotSet}]
    /\ request = [h \in Admin |-> request[h]]
    /\ BadgeTruthful
    /\ \A h \in Admin : RequestKnows(h)

USE IntegrationsAssumption

LEMMA Unset == NotSet \notin Credential /\ NotSet \notin HealthRow
<1>1. DOMAIN NotSet = {"unset"}
    BY DEF NotSet
<1>2. ASSUME NEW c \in Credential PROVE "secret" \in DOMAIN c
    BY DEF Credential
<1>3. ASSUME NEW c \in HealthRow PROVE "status" \in DOMAIN c
    BY DEF HealthRow
<1> QED BY <1>1, <1>2, <1>3

LEMMA BadgeInit == IntegrationsInit => BadgeInv
<1> SUFFICES ASSUME IntegrationsInit PROVE BadgeInv
    OBVIOUS
<1>1. /\ creds = [i \in Integration |-> NotSet]
      /\ request = [h \in Admin |-> Waiting]
    BY DEF IntegrationsInit
<1>2. SetRows(creds) = {}
    BY <1>1 DEF SetRows
<1> QED BY <1>1, <1>2 DEF BadgeInv, BadgeTruthful, RequestKnows

\* A request that has just read its row knows what is stored.
LEMMA AskKnows ==
    ASSUME BadgeInv, NEW h \in Admin, NEW r, Ask(h, r), r.name \in Integration,
           r.row = creds[r.name], r.op \in {"store", "test"},
           r.op = "store" => r.secret \in Secret,
           r.op = "test" => creds[r.name] # NotSet
    PROVE  BadgeInv'
<1>1. UNCHANGED <<creds, mixed>> /\ request' = [request EXCEPT ![h] = r]
    BY DEF Ask
<1>2. request' = [k \in Admin |-> request'[k]] /\ request'[h] = r
      /\ \A k \in Admin \ {h} : request'[k] = request[k]
    BY <1>1 DEF BadgeInv
<1>3. BadgeTruthful'
    BY <1>1 DEF BadgeInv, BadgeTruthful, SetRows
<1>4. creds[r.name] \in Credential \cup {NotSet}
    BY DEF BadgeInv
<1>5. ASSUME NEW k \in Admin PROVE RequestKnows(k)'
    BY <1>1, <1>2, <1>4 DEF BadgeInv, RequestKnows
<1> QED BY <1>1, <1>2, <1>3, <1>5 DEF BadgeInv

LEMMA BeginStoreOK == ASSUME BadgeInv, NEW h \in Admin, BeginStore(h) PROVE BadgeInv'
<1>1. PICK i \in Integration, secret \in Secret :
          Ask(h, [op |-> "store", name |-> i, secret |-> secret, row |-> creds[i]])
    BY DEF BeginStore
<1> DEFINE r == [op |-> "store", name |-> i, secret |-> secret, row |-> creds[i]]
<1>2. r.op = "store" /\ r.name = i /\ r.secret = secret /\ r.row = creds[i]
    OBVIOUS
<1>3. Ask(h, r)
    BY <1>1
<1> HIDE DEF r
<1> QED BY <1>2, <1>3, AskKnows

LEMMA BeginTestOK == ASSUME BadgeInv, NEW h \in Admin, BeginTest(h) PROVE BadgeInv'
<1>1. PICK i \in SetRows(creds) : Ask(h, [op |-> "test", name |-> i, row |-> creds[i]])
    BY DEF BeginTest
<1> DEFINE r == [op |-> "test", name |-> i, row |-> creds[i]]
<1>2. r.op = "test" /\ r.name = i /\ r.row = creds[i]
    OBVIOUS
<1>3. Ask(h, r) /\ i \in Integration /\ creds[i] # NotSet
    BY <1>1 DEF SetRows, BadgeInv
<1> HIDE DEF r
<1> QED BY <1>2, <1>3, AskKnows

\* A request ends, and the others still know what is stored of theirs.
LEMMA RequestEnds ==
    ASSUME BadgeInv, NEW h \in Admin, request' = [request EXCEPT ![h] = Waiting],
           creds' \in [Integration -> Credential \cup {NotSet}], BadgeTruthful',
           \A k \in Admin \ {h} : RequestKnows(k)'
    PROVE  BadgeInv'
<1>1. request'[h] = Waiting /\ request' = [k \in Admin |-> request'[k]]
    BY DEF BadgeInv
<1> QED BY <1>1 DEF BadgeInv, RequestKnows

\* The last badge is gone with the secret it came from, or there was none.
LEMMA CommitStoreOK == ASSUME BadgeInv, NEW h \in Admin, CommitStore(h) PROVE BadgeInv'
<1> DEFINE r == request[h]
           i == request[h].name
           fresh == [secret |-> r.secret, readable |-> TRUE, badge |-> "none", of |-> r.secret]
           new == creds'[i]
<1>1. /\ r.op = "store" /\ r # Waiting
      /\ request' = [request EXCEPT ![h] = Waiting]
      /\ r.row = NotSet => creds[i] = NotSet
      /\ creds' = [creds EXCEPT ![i] =
             IF r.row = NotSet \/ r.row.badge # "none" THEN fresh
             ELSE [fresh EXCEPT !.badge = creds[i].badge, !.of = creds[i].of]]
      /\ mixed' = Mixed(h, "test")
    BY DEF CommitStore, Answer, Waiting
<1>2. /\ i \in Integration /\ r.secret \in Secret
      /\ r.row # NotSet => creds[i] # NotSet /\ r.row \in Credential
      /\ r.row # NotSet /\ r.row.badge = "none" /\ i \notin mixed => creds[i].badge = "none"
    BY <1>1 DEF BadgeInv, RequestKnows
<1>3. creds[i] \in Credential \cup {NotSet} /\ creds = [x \in Integration |-> creds[x]]
    BY <1>2 DEF BadgeInv
<1>4. /\ creds' = [x \in Integration |-> creds'[x]]
      /\ \A x \in Integration \ {i} : creds'[x] = creds[x]
      /\ new = IF r.row = NotSet \/ r.row.badge # "none" THEN fresh
               ELSE [fresh EXCEPT !.badge = creds[i].badge, !.of = creds[i].of]
    BY <1>1, <1>2, <1>3
<1>5. new \in Credential
    <2>1. fresh \in Credential
        BY <1>2 DEF Credential, Badge
    <2>2. CASE r.row = NotSet \/ r.row.badge # "none"
        BY <2>1, <2>2, <1>4
    <2>3. CASE ~(r.row = NotSet \/ r.row.badge # "none")
        <3>1. creds[i].badge \in Badge /\ creds[i].of \in Secret
            BY <2>3, <1>2, <1>3 DEF Credential
        <3>2. new = [fresh EXCEPT !.badge = creds[i].badge, !.of = creds[i].of]
            BY <2>3, <1>4
        <3> HIDE DEF fresh
        <3> QED BY <2>1, <3>1, <3>2 DEF Credential
    <2> QED BY <2>2, <2>3
<1>6. creds' \in [Integration -> Credential \cup {NotSet}]
    BY <1>4, <1>5 DEF BadgeInv
<1>7. mixed \subseteq mixed' /\ mixed' \subseteq mixed \cup {i}
    BY <1>1 DEF Mixed
<1>8. i \notin mixed' => new.badge = "none"
    BY <1>2, <1>4, <1>7
<1>9. BadgeTruthful'
    <2> SUFFICES ASSUME NEW x \in Integration, creds'[x] # NotSet, x \notin mixed',
                        creds'[x].badge # "none"
                 PROVE  creds'[x].of = creds'[x].secret
        BY <1>4 DEF BadgeTruthful, SetRows
    <2>1. x # i
        BY <1>8
    <2> QED BY <2>1, <1>4, <1>7 DEF BadgeInv, BadgeTruthful, SetRows
<1>10. ASSUME NEW k \in Admin \ {h} PROVE RequestKnows(k)'
    <2> SUFFICES ASSUME request[k] # Waiting PROVE RequestKnows(k)'
        BY <1>1 DEF RequestKnows, BadgeInv
    <2>1. request'[k] = request[k] /\ RequestKnows(k)
        BY <1>1 DEF BadgeInv
    <2>2. CASE request[k].name # i
        BY <2>1, <2>2, <1>4, <1>7 DEF RequestKnows
    <2>3. CASE request[k].name = i
        <3>1. new # NotSet
            BY <1>5, Unset
        <3>2. request[k].op = "test" => i \in mixed'
            BY <2>3, <1>1 DEF Mixed, Crossing
        <3> QED BY <2>1, <2>3, <3>1, <3>2, <1>8 DEF RequestKnows
    <2> QED BY <2>2, <2>3
<1> QED BY <1>1, <1>6, <1>9, <1>10, RequestEnds

\* The badge that is written is of the secret that the test has read, and so of the
\* one that is stored unless a save crossed it.
LEMMA CommitTestOK == ASSUME BadgeInv, NEW h \in Admin, CommitTest(h) PROVE BadgeInv'
<1> DEFINE r == request[h]
           i == request[h].name
           result == IF Accepted(r.name, r.row.secret) THEN "success" ELSE "failure"
           badge == IF result = r.row.badge THEN creds[r.name].badge ELSE result
           new == creds'[i]
<1>1. /\ r.op = "test" /\ r # Waiting
      /\ request' = [request EXCEPT ![h] = Waiting]
      /\ creds' = [creds EXCEPT ![r.name].badge = badge,
                                ![r.name].of = IF badge = result THEN r.row.secret ELSE @]
      /\ mixed' = Mixed(h, "store")
    BY DEF CommitTest, Answer, Waiting
<1>2. /\ i \in Integration /\ creds[i] # NotSet /\ r.row \in Credential
      /\ i \notin mixed => creds[i].secret = r.row.secret
    BY <1>1 DEF BadgeInv, RequestKnows
<1>3. creds[i] \in Credential /\ creds = [x \in Integration |-> creds[x]]
    BY <1>2 DEF BadgeInv
<1>4. badge \in Badge /\ result \in Badge
    BY <1>3 DEF Credential, Badge
<1>5. r.row.secret \in Secret
    BY <1>2 DEF Credential
<1>6. /\ creds' = [x \in Integration |-> creds'[x]]
      /\ \A x \in Integration \ {i} : creds'[x] = creds[x]
      /\ new = [creds[i] EXCEPT !.badge = badge,
                                !.of = IF badge = result THEN r.row.secret ELSE @]
    <2> HIDE DEF badge, result
    <2> QED BY <1>1, <1>2, <1>3
<1> HIDE DEF result
<1>7. /\ new \in Credential /\ new.secret = creds[i].secret /\ new.badge = badge
      /\ new.of = IF badge = result THEN r.row.secret ELSE creds[i].of
      /\ badge # result => badge = creds[i].badge
    <2>1. badge # result => badge = creds[i].badge
        OBVIOUS
    <2> HIDE DEF badge
    <2> QED BY <2>1, <1>3, <1>4, <1>5, <1>6 DEF Credential
<1> HIDE DEF badge
<1>8. creds' \in [Integration -> Credential \cup {NotSet}]
    BY <1>6, <1>7 DEF BadgeInv
<1>9. mixed \subseteq mixed' /\ mixed' \subseteq mixed \cup {i}
    BY <1>1 DEF Mixed
<1>10. BadgeTruthful'
    <2> SUFFICES ASSUME NEW x \in Integration, creds'[x] # NotSet, x \notin mixed',
                        creds'[x].badge # "none"
                 PROVE  creds'[x].of = creds'[x].secret
        BY <1>6 DEF BadgeTruthful, SetRows
    <2>1. CASE x # i
        BY <2>1, <1>6, <1>9 DEF BadgeInv, BadgeTruthful, SetRows
    <2>2. CASE x = i
        <3>1. creds[i].badge # "none" => creds[i].of = creds[i].secret
            BY <2>2, <1>2, <1>9 DEF BadgeInv, BadgeTruthful, SetRows
        <3> QED BY <2>2, <3>1, <1>2, <1>7, <1>9
    <2> QED BY <2>1, <2>2
<1>11. ASSUME NEW k \in Admin \ {h} PROVE RequestKnows(k)'
    <2> SUFFICES ASSUME request[k] # Waiting PROVE RequestKnows(k)'
        BY <1>1 DEF RequestKnows, BadgeInv
    <2>1. request'[k] = request[k] /\ RequestKnows(k)
        BY <1>1 DEF BadgeInv
    <2>2. CASE request[k].name # i
        BY <2>1, <2>2, <1>6, <1>9 DEF RequestKnows
    <2>3. CASE request[k].name = i
        <3>1. new # NotSet
            BY <1>7, Unset
        <3>2. request[k].op = "store" => i \in mixed'
            BY <2>3, <1>1 DEF Mixed, Crossing
        <3> QED BY <2>1, <2>3, <3>1, <3>2, <1>7, <1>9 DEF RequestKnows
    <2> QED BY <2>2, <2>3
<1> QED BY <1>1, <1>8, <1>10, <1>11, RequestEnds

LEMMA AbandonRequestOK == ASSUME BadgeInv, NEW h \in Admin, AbandonRequest(h) PROVE BadgeInv'
<1>1. UNCHANGED <<creds, mixed>> /\ request' = [request EXCEPT ![h] = Waiting]
    BY DEF AbandonRequest
<1>2. BadgeTruthful'
    BY <1>1 DEF BadgeInv, BadgeTruthful, SetRows
<1>3. \A k \in Admin \ {h} : RequestKnows(k)'
    BY <1>1 DEF BadgeInv, RequestKnows
<1> QED BY <1>1, <1>2, <1>3, RequestEnds DEF BadgeInv

LEMMA DropKeyOK == ASSUME BadgeInv, DropKey PROVE BadgeInv'
<1>1. /\ UNCHANGED <<request, mixed>>
      /\ creds' = [i \in Integration |-> IF creds[i] = NotSet THEN NotSet
                                         ELSE [creds[i] EXCEPT !.readable = FALSE]]
    BY DEF DropKey
<1>2. ASSUME NEW i \in Integration
      PROVE  IF creds[i] = NotSet THEN creds'[i] = NotSet
             ELSE /\ creds'[i] \in Credential /\ creds'[i].secret = creds[i].secret
                  /\ creds'[i].badge = creds[i].badge /\ creds'[i].of = creds[i].of
    <2>1. creds[i] \in Credential \cup {NotSet}
        BY DEF BadgeInv
    <2> QED BY <1>1, <2>1 DEF Credential
<1>3. creds' \in [Integration -> Credential \cup {NotSet}]
    BY <1>1, <1>2
<1>4. \A i \in Integration : creds'[i] = NotSet <=> creds[i] = NotSet
    BY <1>2, Unset
<1>5. BadgeTruthful'
    BY <1>1, <1>2, <1>3, <1>4 DEF BadgeInv, BadgeTruthful, SetRows
<1>6. ASSUME NEW k \in Admin PROVE RequestKnows(k)'
    BY <1>1, <1>2, <1>4 DEF BadgeInv, RequestKnows
<1>7. request' = [h \in Admin |-> request'[h]]
    BY <1>1 DEF BadgeInv
<1> QED BY <1>3, <1>5, <1>6, <1>7 DEF BadgeInv

LEMMA BadgeUntouched == ASSUME BadgeInv, UNCHANGED <<creds, request, mixed>> PROVE BadgeInv'
BY DEF BadgeInv, BadgeTruthful, RequestKnows, SetRows

LEMMA BadgeInductive == IntegrationsSpec => []BadgeInv
<1>1. IntegrationsInit => BadgeInv
    BY BadgeInit
<1>2. BadgeInv /\ [IntegrationsNext]_integrationVars => BadgeInv'
    <2> SUFFICES ASSUME BadgeInv, [IntegrationsNext]_integrationVars PROVE BadgeInv'
        OBVIOUS
    <2>1. CASE \E h \in Admin : \/ BeginStore(h) \/ CommitStore(h)
                                \/ BeginTest(h) \/ CommitTest(h)
                                \/ AbandonRequest(h)
        BY <2>1, BeginStoreOK, CommitStoreOK, BeginTestOK, CommitTestOK, AbandonRequestOK
    <2>2. CASE DropKey
        BY <2>2, DropKeyOK
    <2>3. CASE \E p \in Pass : \/ BeginPoll(p) \/ BeginRefresh(p)
                               \/ ProbeService(p) \/ UpsertState(p)
                               \/ CommitPass(p) \/ AbandonPass(p)
        BY <2>3, BadgeUntouched DEF BeginPoll, BeginRefresh, StartPass, ProbeService, UpsertState,
            CommitPass, AbandonPass, PassFrame
    <2>4. CASE Outage \/ Tick
        BY <2>4, BadgeUntouched DEF Outage, Tick
    <2>5. CASE UNCHANGED integrationVars
        BY <2>5, BadgeUntouched DEF integrationVars
    <2> QED BY <2>1, <2>2, <2>3, <2>4, <2>5 DEF IntegrationsNext
<1> QED BY <1>1, <1>2, PTL DEF IntegrationsSpec

\* However tests and saves of credentials interleave, fail or lose their key, the badge
\* of an integration comes from a test of the secret that is stored, unless one test and
\* one save of it ran at once.
THEOREM BadgesTruthful == IntegrationsSpec => []BadgeTruthful
<1>1. BadgeInv => BadgeTruthful
    BY DEF BadgeInv
<1> QED BY <1>1, BadgeInductive, PTL

-----------------------------------------------------------------------------
(* Integrations: alerts                                                    *)

Fields == {"op", "at", "seen", "probe", "wrote", "alerts", "old"}

\* The fields of a pass that runs.
PassOK(p) ==
    pass[p] # Waiting =>
        /\ DOMAIN pass[p] = Fields
        /\ pass[p].op \in {"poll", "refresh"}
        /\ pass[p].at \in 1 .. Len(Order) + 1
        /\ pass[p].probe \in Health \cup {"none"}
        /\ DOMAIN pass[p].seen \subseteq Service
        /\ pass[p].wrote \in [{Order[n] : n \in 1 .. pass[p].at - 1} -> HealthRow]
        /\ pass[p].alerts \subseteq DOMAIN pass[p].wrote
        /\ pass[p].old \in BOOLEAN
        /\ pass[p].probe # "none" => pass[p].at <= Len(Order) /\ Order[pass[p].at] \in DOMAIN pass[p].seen
        /\ pass[p].op = "poll" /\ pass[p].at = 1 => DOMAIN pass[p].seen \subseteq {"database"}
        /\ pass[p].at = 1 => pass[p].probe # "red"

\* Only one pass has written: all of them write the same row first.
Writing(p) == pass[p] # Waiting /\ pass[p].at > 1
OneWrites == \A p, q \in Pass : Writing(p) /\ Writing(q) => p = q

\* A pass knows a state of each row, an earlier one only of the first or if it is old.
SeenOK(p, s) ==
    /\ pass[p].seen[s] \in HealthRow \cup {NotSet}
    /\ pass[p].seen[s] # NotSet => /\ health[s] # NotSet
                                   /\ pass[p].seen[s].alerted <= health[s].alerted
    /\ ~pass[p].old /\ s # "database" => pass[p].seen[s] = health[s]

\* What a pass has written of a service, beside the alerts there were.
WroteOK(p, s) ==
    LET row == pass[p].wrote[s] IN
    /\ row.since <= time /\ row.alerted <= time
    /\ health[s] # NotSet => health[s].alerted <= row.alerted
    /\ row.status = "red" => row.alerted # Never /\ row.since - row.alerted < Cooldown
    /\ IF s \in pass[p].alerts
       THEN /\ s # "database" /\ row.alerted # Never
            /\ \A n \in DOMAIN sent[s] : sent[s][n].at <= row.alerted
            /\ ~pass[p].old => \A n \in DOMAIN sent[s] : row.alerted - sent[s][n].at >= Cooldown
       ELSE row.alerted = IF health[s] = NotSet THEN Never ELSE health[s].alerted

\* The row of a service names its last alert.
HealthOK(s) ==
    /\ sent[s] \in Seq([at : 0 .. MaxTime, old : BOOLEAN])
    /\ \A n \in DOMAIN sent[s] : sent[s][n].at <= time
    /\ health[s] = NotSet => sent[s] = <<>>
    /\ health[s] # NotSet =>
           /\ health[s].since <= time /\ health[s].alerted <= time
           /\ IF health[s].alerted = Never THEN sent[s] = <<>>
              ELSE sent[s] # <<>> /\ sent[s][Len(sent[s])].at = health[s].alerted
           /\ \A n \in DOMAIN sent[s] : sent[s][n].at <= health[s].alerted
           /\ health[s].status = "red" =>
                  health[s].alerted # Never /\ health[s].since - health[s].alerted < Cooldown

KnowsOK(p) ==
    pass[p] # Waiting => /\ \A s \in DOMAIN pass[p].seen : SeenOK(p, s)
                         /\ \A s \in DOMAIN pass[p].wrote : WroteOK(p, s)

AlertInv ==
    /\ health \in [Service -> HealthRow \cup {NotSet}]
    /\ sent = [s \in Service |-> sent[s]]
    /\ pass = [p \in Pass |-> pass[p]]
    /\ time \in 0 .. MaxTime /\ down \subseteq Service \ {"database"}
    /\ OneWrites /\ AlertsApart
    /\ \A s \in Service : HealthOK(s)
    /\ \A p \in Pass : PassOK(p) /\ KnowsOK(p)

LEMMA OrderFacts ==
    /\ Len(Order) \in Nat \ {0} /\ DOMAIN Order = 1 .. Len(Order)
    /\ Service = {Order[n] : n \in 1 .. Len(Order)}
    /\ \A n \in 1 .. Len(Order) : Order[n] \in Service
    /\ \A n \in 1 .. Len(Order) : Order[n] = "database" <=> n = 1
<1>1. Len(Order) \in Nat \ {0} /\ DOMAIN Order = 1 .. Len(Order)
    OBVIOUS
<1> QED BY <1>1 DEF Service

\* What a pass has written is of the services up to the one it probes.
LEMMA Written ==
    ASSUME NEW n \in 1 .. Len(Order)
    PROVE  /\ {Order[k] : k \in 1 .. (n + 1) - 1} = {Order[k] : k \in 1 .. n - 1} \cup {Order[n]}
           /\ Order[n] \notin {Order[k] : k \in 1 .. n - 1}
<1>0. n \in Int /\ n >= 1 /\ n <= Len(Order) /\ Len(Order) \in Int
    BY OrderFacts
<1>1. \A k : k \in 1 .. (n + 1) - 1 <=> k \in (1 .. n - 1) \cup {n}
    BY <1>0
<1>2. n \notin 1 .. n - 1 /\ 1 .. n - 1 \subseteq DOMAIN Order /\ n \in DOMAIN Order
    BY <1>0, OrderFacts
<1>3. Order[n] \notin {Order[k] : k \in 1 .. n - 1}
    BY <1>2
<1> QED BY <1>1, <1>3

LEMMA AlertInit == IntegrationsInit => AlertInv
<1> SUFFICES ASSUME IntegrationsInit PROVE AlertInv
    OBVIOUS
<1>1. /\ health = [s \in Service |-> NotSet] /\ sent = [s \in Service |-> <<>>]
      /\ pass = [p \in Pass |-> Waiting] /\ time = 0 /\ down = {}
    BY DEF IntegrationsInit
<1>2. OneWrites /\ AlertsApart
    BY <1>1 DEF OneWrites, Writing, AlertsApart
<1>3. \A s \in Service : HealthOK(s)
    BY <1>1 DEF HealthOK
<1> QED BY <1>1, <1>2, <1>3 DEF AlertInv, PassOK, KnowsOK

\* One pass p changes, to a record that holds what it should.
LEMMA PassChanges ==
    ASSUME AlertInv, NEW p \in Pass, UNCHANGED <<health, sent, time, down>>,
           pass' = [pass EXCEPT ![p] = pass'[p]], PassOK(p)', KnowsOK(p)',
           Writing(p)' => \A q \in Pass \ {p} : ~Writing(q)
    PROVE  AlertInv'
<1>1. pass' = [q \in Pass |-> pass'[q]] /\ \A q \in Pass \ {p} : pass'[q] = pass[q]
    BY DEF AlertInv
<1>2. OneWrites'
    BY <1>1 DEF AlertInv, OneWrites, Writing
<1>3. ASSUME NEW q \in Pass PROVE PassOK(q)' /\ KnowsOK(q)'
    <2>1. CASE q = p
        BY <2>1
    <2>2. CASE q # p
        <3>1. pass'[q] = pass[q] /\ PassOK(q) /\ KnowsOK(q)
            BY <2>2, <1>1 DEF AlertInv
        <3>2. PassOK(q)'
            BY <3>1 DEF PassOK
        <3>3. ASSUME NEW s \in DOMAIN pass[q].seen, SeenOK(q, s) PROVE SeenOK(q, s)'
            BY <3>1, <3>3 DEF SeenOK
        <3>4. ASSUME NEW s \in DOMAIN pass[q].wrote, WroteOK(q, s) PROVE WroteOK(q, s)'
            BY <3>1, <3>4 DEF WroteOK
        <3> QED BY <3>1, <3>2, <3>3, <3>4 DEF KnowsOK
    <2> QED BY <2>1, <2>2
<1>4. AlertsApart' /\ \A s \in Service : HealthOK(s)'
    BY DEF AlertInv, AlertsApart, HealthOK
<1> QED BY <1>1, <1>2, <1>3, <1>4 DEF AlertInv

LEMMA StartPassOK ==
    ASSUME AlertInv, NEW p \in Pass, NEW op \in {"poll", "refresh"}, NEW seen, StartPass(p, op, seen),
           op = "poll" => seen = <<>>,
           op = "refresh" => seen = [s \in SetRows(health) |-> health[s]]
    PROVE  AlertInv'
<1> DEFINE new == [op |-> op, at |-> 1, seen |-> seen, probe |-> "none", wrote |-> <<>>,
                  alerts |-> {}, old |-> FALSE]
<1>1. /\ pass' = [pass EXCEPT ![p] = new]
      /\ UNCHANGED <<health, sent, time, down>>
    BY DEF StartPass, PassFrame
<1>2. /\ new.op = op /\ new.at = 1 /\ new.seen = seen /\ new.probe = "none" /\ new.wrote = <<>>
      /\ new.alerts = {} /\ new.old = FALSE /\ DOMAIN new = Fields
    BY DEF Fields
<1> HIDE DEF new
<1>3. pass'[p] = new
    BY <1>1 DEF AlertInv
<1>4. <<>> \in [{Order[n] : n \in 1 .. 1 - 1} -> HealthRow] /\ DOMAIN <<>> = {}
    OBVIOUS
<1>5. DOMAIN seen \subseteq Service /\ (op = "poll" => DOMAIN seen = {})
      /\ \A s \in DOMAIN seen : s \in Service /\ seen[s] = health[s]
    BY <1>4 DEF SetRows, AlertInv
<1>6. PassOK(p)'
    <2>1. new.at \in 1 .. Len(Order) + 1
        BY <1>2, OrderFacts
    <2>2. new.wrote \in [{Order[n] : n \in 1 .. new.at - 1} -> HealthRow]
          /\ new.alerts \subseteq DOMAIN new.wrote
        BY <1>2, <1>4
    <2>3. DOMAIN new.seen \subseteq Service
          /\ (new.op = "poll" /\ new.at = 1 => DOMAIN new.seen \subseteq {"database"})
        BY <1>2, <1>5
    <2> QED BY <2>1, <2>2, <2>3, <1>2, <1>3 DEF PassOK
<1>7. ASSUME NEW s \in DOMAIN seen PROVE SeenOK(p, s)'
    <2>1. health[s] \in HealthRow \cup {NotSet} /\ (health[s] # NotSet => health[s].alerted \in Int)
        BY <1>5 DEF AlertInv, HealthRow, Never
    <2> QED BY <2>1, <1>1, <1>2, <1>3, <1>5 DEF SeenOK
<1>8. KnowsOK(p)'
    BY <1>2, <1>3, <1>4, <1>7 DEF KnowsOK
<1>9. ~Writing(p)'
    BY <1>2, <1>3 DEF Writing
<1> QED BY <1>1, <1>3, <1>6, <1>8, <1>9, PassChanges

LEMMA BeginPollOK == ASSUME AlertInv, NEW p \in Pass, BeginPoll(p) PROVE AlertInv'
BY StartPassOK DEF BeginPoll

LEMMA BeginRefreshOK == ASSUME AlertInv, NEW p \in Pass, BeginRefresh(p) PROVE AlertInv'
BY StartPassOK DEF BeginRefresh

\* The database, which a pass probes first, is never found out.
LEMMA ProbeServiceOK == ASSUME AlertInv, NEW p \in Pass, ProbeService(p) PROVE AlertInv'
<1> DEFINE old == pass[p]
           s == Order[pass[p].at]
           seen == IF s \in DOMAIN old.seen THEN old.seen
                   ELSE [x \in DOMAIN old.seen \cup {s} |-> IF x = s THEN health[s] ELSE old.seen[x]]
           new == [old EXCEPT !.probe = Probed(s), !.seen = seen]
<1>1. /\ old # Waiting /\ old.at <= Len(Order) /\ old.probe = "none"
      /\ pass' = [pass EXCEPT ![p].probe = Probed(s),
                              ![p].seen = IF s \in DOMAIN @ THEN @
                                          ELSE [x \in DOMAIN @ \cup {s} |-> IF x = s THEN health[s] ELSE @[x]]]
      /\ UNCHANGED <<health, sent, time, down>>
    BY DEF ProbeService, PassFrame
<1>2. PassOK(p) /\ KnowsOK(p) /\ p \in Pass
    BY DEF AlertInv
<1>3. DOMAIN old = Fields
    BY <1>1, <1>2 DEF PassOK
<1>4. pass' = [pass EXCEPT ![p] = new]
    BY <1>1 DEF AlertInv
<1>6. /\ DOMAIN new = Fields /\ new.seen = seen /\ new.probe = Probed(s)
      /\ new.op = old.op /\ new.at = old.at /\ new.wrote = old.wrote
      /\ new.alerts = old.alerts /\ new.old = old.old /\ new # Waiting
    <2> DEFINE probed == Probed(s)
               changed == [old EXCEPT !.probe = probed, !.seen = seen]
    <2> SUFFICES /\ DOMAIN changed = Fields /\ changed.seen = seen /\ changed.probe = probed
                 /\ changed.op = old.op /\ changed.at = old.at /\ changed.wrote = old.wrote
                 /\ changed.alerts = old.alerts /\ changed.old = old.old
        <3>1. DOMAIN Waiting = {"op"}
            BY DEF Waiting
        <3> QED BY <3>1 DEF Fields
    <2> HIDE DEF probed, seen, old
    <2> QED BY <1>3 DEF Fields
<1> HIDE DEF seen
<1> HIDE DEF new
<1>7. pass'[p] = new /\ pass' = [pass EXCEPT ![p] = pass'[p]]
    BY <1>4 DEF AlertInv
<1>8. /\ old.at \in 1 .. Len(Order) /\ s \in Service /\ (s = "database" <=> old.at = 1)
    BY <1>1, <1>2, OrderFacts DEF PassOK
<1>9. /\ DOMAIN seen = DOMAIN old.seen \cup {s}
      /\ \A x \in DOMAIN old.seen : seen[x] = old.seen[x]
      /\ s \notin DOMAIN old.seen => seen[s] = health[s]
    BY DEF seen
<1>10. Probed(s) \in Health /\ (s = "database" => Probed(s) # "red")
    BY DEF Probed, Health, AlertInv
<1>11. PassOK(p)'
    <2>1. /\ old.op \in {"poll", "refresh"} /\ DOMAIN old.seen \subseteq Service
          /\ old.wrote \in [{Order[n] : n \in 1 .. old.at - 1} -> HealthRow]
          /\ old.alerts \subseteq DOMAIN old.wrote /\ old.old \in BOOLEAN
          /\ old.op = "poll" /\ old.at = 1 => DOMAIN old.seen \subseteq {"database"}
        BY <1>1, <1>2 DEF PassOK
    <2>2. /\ DOMAIN seen \subseteq Service /\ s \in DOMAIN seen
          /\ old.op = "poll" /\ old.at = 1 => DOMAIN seen \subseteq {"database"}
        BY <1>8, <1>9, <2>1
    <2>3. old.at = 1 => Probed(s) # "red"
        BY <1>8, <1>10
    <2>4. new.at <= Len(Order) /\ Order[new.at] = s
        BY <1>1, <1>6
    <2> HIDE DEF s, old
    <2>5. /\ pass'[p].op = old.op /\ pass'[p].at = old.at /\ pass'[p].wrote = old.wrote
          /\ pass'[p].alerts = old.alerts /\ pass'[p].old = old.old /\ DOMAIN pass'[p] = Fields
          /\ pass'[p].seen = seen /\ pass'[p].probe = Probed(s) /\ Order[pass'[p].at] = s
        BY <1>6, <1>7, <2>4
    <2>6. {Order[n] : n \in 1 .. pass'[p].at - 1} = {Order[n] : n \in 1 .. old.at - 1}
        BY <2>5
    <2>7. pass'[p].wrote \in [{Order[n] : n \in 1 .. pass'[p].at - 1} -> HealthRow]
        BY <2>1, <2>5, <2>6
    <2>8. old.at \in 1 .. Len(Order) + 1 /\ old.at <= Len(Order)
        <3>1. Len(Order) \in Nat
            BY OrderFacts
        <3> QED BY <1>8, <3>1
    <2> QED BY <1>10, <2>1, <2>2, <2>3, <2>5, <2>7, <2>8 DEF PassOK
<1>12. ASSUME NEW x \in DOMAIN seen PROVE SeenOK(p, x)'
    <2>1. CASE x \in DOMAIN old.seen
        <3>1. SeenOK(p, x)
            BY <2>1, <1>1, <1>2 DEF KnowsOK
        <3> QED BY <2>1, <3>1, <1>1, <1>6, <1>7, <1>9 DEF SeenOK
    <2>2. CASE x \notin DOMAIN old.seen
        <3>1. x = s /\ seen[s] = health[s]
            BY <2>2, <1>9
        <3>2. health[s] \in HealthRow \cup {NotSet} /\ (health[s] # NotSet => health[s].alerted \in Int)
            BY <1>8 DEF AlertInv, HealthRow, Never
        <3>3. pass'[p].seen[x] = health[x] /\ health'[x] = health[x]
            BY <3>1, <1>1, <1>6, <1>7
        <3>4. health[x] \in HealthRow \cup {NotSet} /\ (health[x] # NotSet => health[x].alerted \in Int)
            BY <3>1, <3>2
        <3> HIDE DEF s
        <3> QED BY <3>3, <3>4 DEF SeenOK
    <2> QED BY <2>1, <2>2
<1>13. ASSUME NEW x \in DOMAIN old.wrote PROVE WroteOK(p, x)'
    <2>1. WroteOK(p, x)
        BY <1>1, <1>2 DEF KnowsOK
    <2> QED BY <2>1, <1>1, <1>6, <1>7 DEF WroteOK
<1>14. KnowsOK(p)'
    <2>1. pass'[p].seen = seen /\ pass'[p].wrote = old.wrote
        BY <1>6, <1>7
    <2> HIDE DEF old
    <2> QED BY <2>1, <1>12, <1>13 DEF KnowsOK
<1>15. Writing(p)' => \A q \in Pass \ {p} : ~Writing(q)
    <2> SUFFICES ASSUME Writing(p)', NEW q \in Pass \ {p} PROVE ~Writing(q)
        OBVIOUS
    <2>1. Writing(p)
        BY <1>1, <1>6, <1>7 DEF Writing
    <2> QED BY <2>1 DEF AlertInv, OneWrites
<1> QED BY <1>1, <1>7, <1>11, <1>14, <1>15, PassChanges

LEMMA NewRow ==
    ASSUME NEW st \in Health, NEW a \in Never .. MaxTime, NEW t \in 0 .. MaxTime,
           NEW row, row = [status |-> st, alerted |-> a, since |-> t]
    PROVE  row \in HealthRow /\ row.status = st /\ row.alerted = a /\ row.since = t
BY DEF HealthRow

LEMMA SentFacts ==
    ASSUME NEW q \in Seq([at : 0 .. MaxTime, old : BOOLEAN])
    PROVE  /\ Len(q) \in Nat /\ DOMAIN q = 1 .. Len(q)
           /\ \A n \in DOMAIN q : q[n].at \in 0 .. MaxTime
<1>1. Len(q) \in Nat /\ DOMAIN q = 1 .. Len(q)
    OBVIOUS
<1>2. ASSUME NEW n \in DOMAIN q PROVE q[n].at \in 0 .. MaxTime
    <2> DEFINE Alert == [at : 0 .. MaxTime, old : BOOLEAN]
    <2>1. q \in Seq(Alert)
        OBVIOUS
    <2>2. q[n] \in Alert
        <3> HIDE DEF Alert
        <3> QED BY <1>1, <1>2, <2>1
    <2> QED BY <2>2
<1> QED BY <1>1, <1>2

\* The row of a service that a pass writes, its alert aside.
RowFor(s, seen, probe) ==
    IF seen = NotSet THEN [status |-> probe, alerted |-> Never, since |-> time]
    ELSE IF probe = seen.status THEN health[s]
    ELSE [health[s] EXCEPT !.status = probe,
                           !.since = IF health[s].status = probe THEN @ ELSE time]

\* What is written of a service keeps its promises, whether it alerts or not.
LEMMA RowWritten ==
    ASSUME AlertInv, NEW p \in Pass, pass[p] # Waiting, NEW s \in Service,
           NEW seen, NEW probe \in Health, NEW alert, NEW row,
           SeenOK(p, s), seen = pass[p].seen[s], s = "database" => probe # "red",
           alert = Alerts(seen, probe),
           row = RowFor(s, seen, probe),
           seen = NotSet => health[s] = NotSet
    PROVE  LET wrote == IF alert THEN [row EXCEPT !.alerted = time] ELSE row IN
           /\ wrote \in HealthRow
           /\ wrote.since <= time /\ wrote.alerted <= time
           /\ health[s] # NotSet => health[s].alerted <= wrote.alerted
           /\ wrote.status = "red" => wrote.alerted # Never /\ wrote.since - wrote.alerted < Cooldown
           /\ IF alert
              THEN /\ s # "database" /\ wrote.alerted # Never
                   /\ \A n \in DOMAIN sent[s] : sent[s][n].at <= wrote.alerted
                   /\ ~pass[p].old => \A n \in DOMAIN sent[s] : wrote.alerted - sent[s][n].at >= Cooldown
              ELSE wrote.alerted = IF health[s] = NotSet THEN Never ELSE health[s].alerted
<1> DEFINE h == health[s]
           wrote == IF alert THEN [row EXCEPT !.alerted = time] ELSE row
           sends == sent[s]
<1>1. HealthOK(s) /\ h \in HealthRow \cup {NotSet} /\ time \in 0 .. MaxTime
    BY DEF AlertInv
<1>2. alert = /\ probe = "red"
              /\ seen # NotSet => /\ seen.status # "red"
                                  /\ seen.alerted # Never => time - seen.alerted >= Cooldown
    BY DEF Alerts
<1>3. h # NotSet => /\ h.status \in Health /\ h.alerted \in Never .. MaxTime /\ h.since \in 0 .. MaxTime
    BY <1>1 DEF HealthRow
<1>4. seen # NotSet => seen.status \in Health /\ seen.alerted \in Never .. MaxTime
    BY DEF SeenOK, HealthRow
<1>5. time \in Nat /\ MaxTime \in Nat /\ Cooldown \in Nat \ {0} /\ Never = -1
    BY <1>1 DEF Never
<1>6. /\ DOMAIN sends = 1 .. Len(sends) /\ \A n \in DOMAIN sends : sends[n].at \in 0 .. MaxTime
      /\ \A n \in DOMAIN sends : sends[n].at <= time
      /\ h = NotSet => DOMAIN sends = {}
      /\ h # NotSet =>
             /\ h.since <= time /\ h.alerted <= time
             /\ h.alerted = Never => DOMAIN sends = {}
             /\ \A n \in DOMAIN sends : sends[n].at <= h.alerted
             /\ h.status = "red" => h.alerted # Never /\ h.since - h.alerted < Cooldown
    <2>1. sends \in Seq([at : 0 .. MaxTime, old : BOOLEAN])
        BY <1>1 DEF HealthOK
    <2>2. DOMAIN sends = 1 .. Len(sends) /\ \A n \in DOMAIN sends : sends[n].at \in 0 .. MaxTime
        BY <2>1, SentFacts
    <2>3. sends = <<>> => DOMAIN sends = {}
        <3> HIDE DEF sends
        <3> QED OBVIOUS
    <2> QED BY <2>2, <2>3, <1>1 DEF HealthOK
<1>7. CASE seen = NotSet
    <2>1. row = [status |-> probe, alerted |-> Never, since |-> time] /\ h = NotSet
        BY <1>7 DEF RowFor
    <2>2. row \in HealthRow /\ row.status = probe /\ row.alerted = Never /\ row.since = time
        <3> Never \in Never .. MaxTime
            BY <1>5
        <3> QED BY <2>1, <1>1, NewRow
    <2>3. CASE alert
        <3>1. wrote = [row EXCEPT !.alerted = time]
            BY <2>3
        <3>2. /\ wrote \in HealthRow /\ wrote.status = probe /\ wrote.alerted = time
              /\ wrote.since = time
            <4> HIDE DEF wrote
            <4> QED BY <3>1, <2>2, <1>1, <1>5 DEF HealthRow
        <3>3. probe = "red"
            BY <2>3, <1>2
        <3> HIDE DEF wrote, sends, h
        <3>4. wrote.alerted # Never /\ wrote.since - wrote.alerted < Cooldown
            BY <3>2, <1>5
        <3>5. \A n \in DOMAIN sends : FALSE
            BY <2>1, <1>6
        <3> USE DEF sends
        <3> QED BY <2>1, <2>3, <3>2, <3>3, <3>4, <3>5, <1>5 DEF h, wrote
    <2>4. CASE ~alert
        <3>1. probe # "red"
            BY <2>4, <1>2, <1>7
        <3> QED BY <2>1, <2>2, <2>4, <3>1, <1>5
    <2> QED BY <2>3, <2>4
<1>8. CASE seen # NotSet /\ probe = seen.status
    <2>1. row = h /\ h # NotSet /\ h \in HealthRow
        BY <1>8, <1>1 DEF SeenOK, RowFor
    <2>2. ~alert
        BY <1>8, <1>2
    <2>3. wrote = h /\ h.alerted <= h.alerted
        BY <2>1, <2>2, <1>3, <1>5
    <2> HIDE DEF wrote, h
    <2>4. h.alerted \in Int
        BY <2>1, <1>3, <1>5
    <2>5. /\ wrote \in HealthRow /\ wrote.since <= time /\ wrote.alerted <= time
          /\ wrote.status = "red" => wrote.alerted # Never /\ wrote.since - wrote.alerted < Cooldown
        BY <2>1, <2>3, <1>6
    <2> USE DEF h
    <2> QED BY <2>1, <2>2, <2>3, <2>5 DEF wrote
<1>9. CASE seen # NotSet /\ probe # seen.status
    <2>1. h # NotSet /\ h \in HealthRow /\ seen.alerted <= h.alerted
          /\ (~pass[p].old /\ s # "database" => seen = h)
        BY <1>9, <1>1 DEF SeenOK
    <2>2. row = [h EXCEPT !.status = probe, !.since = IF h.status = probe THEN @ ELSE time]
        BY <1>9 DEF RowFor
    <2>3. /\ row \in HealthRow /\ row.status = probe /\ row.alerted = h.alerted
          /\ row.since \in 0 .. MaxTime /\ row.since <= time
        <3> DEFINE t == IF h.status = probe THEN h.since ELSE time
        <3>1. t \in 0 .. MaxTime /\ t <= time
            BY <2>1, <1>1, <1>3, <1>5, <1>6
        <3>2. row = [h EXCEPT !.status = probe, !.since = t]
            BY <2>2
        <3> HIDE DEF h, t
        <3>3. row \in HealthRow /\ row.status = probe /\ row.alerted = h.alerted /\ row.since = t
            BY <2>1, <3>1, <3>2 DEF HealthRow
        <3> QED BY <3>1, <3>3
    <2>4. CASE alert
        <3>1. wrote = [row EXCEPT !.alerted = time]
            BY <2>4
        <3>2. /\ wrote \in HealthRow /\ wrote.status = probe /\ wrote.alerted = time
              /\ wrote.since = row.since
            <4> HIDE DEF wrote
            <4> QED BY <3>1, <2>3, <1>1, <1>5 DEF HealthRow
        <3>3. probe = "red" /\ (seen.alerted # Never => time - seen.alerted >= Cooldown)
            BY <2>4, <1>2, <1>9
        <3> HIDE DEF wrote, sends, h
        <3>4. wrote.alerted # Never /\ wrote.since - wrote.alerted < Cooldown /\ h.alerted <= time
            BY <3>2, <2>1, <2>3, <1>5, <1>6
        <3>5. ASSUME ~pass[p].old, NEW n \in DOMAIN sends PROVE time - sends[n].at >= Cooldown
            <4>1. seen = h /\ h.alerted # Never /\ sends[n].at <= h.alerted
                BY <3>5, <3>3, <2>1, <1>6
            <4>2. h.alerted \in Int /\ sends[n].at \in Int
                BY <2>1, <1>3, <1>5, <1>6
            <4> QED BY <4>1, <4>2, <3>3, <1>5
        <3>6. /\ \A n \in DOMAIN sends : sends[n].at <= wrote.alerted
              /\ ~pass[p].old => \A n \in DOMAIN sends : wrote.alerted - sends[n].at >= Cooldown
            BY <3>2, <3>5, <1>6
        <3>7. s # "database"
            BY <3>3
        <3>8. wrote.since <= time /\ wrote.alerted <= time /\ wrote.status = "red"
            BY <3>2, <3>3, <2>3, <1>5
        <3>9. h # NotSet => h.alerted <= wrote.alerted
            BY <3>2, <3>4
        <3> USE DEF sends, h, wrote
        <3> QED BY <2>4, <3>2, <3>4, <3>6, <3>7, <3>8, <3>9
    <2>5. CASE ~alert
        <3>1. wrote = row
            BY <2>5
        <3>2. ASSUME probe = "red" PROVE row.alerted # Never /\ row.since - row.alerted < Cooldown
            <4>1. seen.alerted # Never /\ ~(time - seen.alerted >= Cooldown)
                BY <3>2, <2>5, <1>2, <1>9
            <4>2. h.alerted # Never /\ h.alerted \in Int /\ time - h.alerted < Cooldown
                <5>1. /\ seen.alerted \in Never .. MaxTime /\ h.alerted \in Never .. MaxTime
                      /\ seen.alerted <= h.alerted
                    BY <2>1, <1>3, <1>4, <1>9
                <5> HIDE DEF h
                <5> QED BY <4>1, <5>1, <2>1, <1>3, <1>5
            <4>3. row.alerted = h.alerted /\ row.since \in Int /\ row.since <= time
                BY <2>3, <1>5
            <4> HIDE DEF h
            <4> QED BY <4>2, <4>3, <1>5
        <3>3. h.alerted <= h.alerted /\ row.alerted <= time
            BY <2>1, <2>3, <1>3, <1>5, <1>6
        <3> QED BY <3>1, <3>2, <3>3, <2>1, <2>3, <2>5
    <2> QED BY <2>4, <2>5
<1> QED BY <1>7, <1>8, <1>9

\* A pass that gets its first lock is the only one that holds any.
LEMMA UpsertStateOK == ASSUME AlertInv, NEW p \in Pass, UpsertState(p) PROVE AlertInv'
<1> DEFINE old == pass[p]
           s == Order[old.at]
           seen == old.seen[s]
           probe == old.probe
           alert == Alerts(seen, probe)
           row == RowFor(s, seen, probe)
           put == IF alert THEN [row EXCEPT !.alerted = time] ELSE row
           wrote == [x \in DOMAIN old.wrote \cup {s} |-> IF x # s THEN old.wrote[x] ELSE put]
           alerts == IF alert THEN old.alerts \cup {s} ELSE old.alerts
           new == [old EXCEPT !.at = @ + 1, !.probe = "none", !.wrote = wrote, !.alerts = alerts]
<1>1. /\ old # Waiting /\ probe # "none"
      /\ ~RowLocked(p, s)
      /\ seen = NotSet => health[s] = NotSet
      /\ pass' = [pass EXCEPT ![p] = new]
      /\ UNCHANGED <<health, sent, time, down>>
    BY DEF UpsertState, PassFrame, RowFor, AlertInv
<1>2. PassOK(p) /\ KnowsOK(p)
    BY DEF AlertInv
<1>3. /\ DOMAIN old = Fields /\ old.op \in {"poll", "refresh"} /\ old.at \in 1 .. Len(Order)
      /\ DOMAIN old.seen \subseteq Service /\ s \in DOMAIN old.seen /\ probe \in Health
      /\ old.wrote \in [{Order[n] : n \in 1 .. old.at - 1} -> HealthRow]
      /\ old.alerts \subseteq DOMAIN old.wrote /\ old.old \in BOOLEAN
      /\ old.at = 1 => probe # "red"
    <2>1. Len(Order) \in Nat
        BY OrderFacts
    <2>2. /\ DOMAIN old = Fields /\ old.op \in {"poll", "refresh"} /\ old.at \in 1 .. Len(Order) + 1
          /\ old.at <= Len(Order) /\ s \in DOMAIN old.seen /\ probe \in Health
          /\ old.at = 1 => probe # "red"
        BY <1>1, <1>2 DEF PassOK
    <2>3. /\ DOMAIN old.seen \subseteq Service
          /\ old.wrote \in [{Order[n] : n \in 1 .. old.at - 1} -> HealthRow]
          /\ old.alerts \subseteq DOMAIN old.wrote /\ old.old \in BOOLEAN
        BY <1>1, <1>2 DEF PassOK
    <2> HIDE DEF old, s, probe
    <2>4. old.at \in 1 .. Len(Order)
        BY <2>1, <2>2
    <2> QED BY <2>2, <2>3, <2>4
<1>4. s \in Service /\ (s = "database" <=> old.at = 1)
    BY <1>3, OrderFacts
<1>5. /\ {Order[k] : k \in 1 .. (old.at + 1) - 1} = DOMAIN old.wrote \cup {s}
      /\ s \notin DOMAIN old.wrote
    <2>1. DOMAIN old.wrote = {Order[k] : k \in 1 .. old.at - 1}
        BY <1>3
    <2> QED BY <2>1, <1>3, Written
<1>6. SeenOK(p, s)
    BY <1>1, <1>2, <1>3 DEF KnowsOK
<1> HIDE DEF row, alert
<1>7. /\ put \in HealthRow
      /\ put.since <= time /\ put.alerted <= time
      /\ health[s] # NotSet => health[s].alerted <= put.alerted
      /\ put.status = "red" => put.alerted # Never /\ put.since - put.alerted < Cooldown
      /\ IF alert
         THEN /\ s # "database" /\ put.alerted # Never
              /\ \A n \in DOMAIN sent[s] : sent[s][n].at <= put.alerted
              /\ ~old.old => \A n \in DOMAIN sent[s] : put.alerted - sent[s][n].at >= Cooldown
         ELSE put.alerted = IF health[s] = NotSet THEN Never ELSE health[s].alerted
    <2>1. /\ alert = Alerts(seen, probe) /\ row = RowFor(s, seen, probe)
          /\ seen = pass[p].seen[s] /\ (s = "database" => probe # "red")
        BY <1>3, <1>4 DEF alert, row
    <2> HIDE DEF s, seen, probe
    <2>2. s \in Service /\ probe \in Health /\ SeenOK(p, s) /\ pass[p] # Waiting
          /\ (seen = NotSet => health[s] = NotSet)
        BY <1>1, <1>3, <1>4, <1>6
    <2> QED BY <2>1, <2>2, RowWritten
<1> HIDE DEF put
<1>8. /\ wrote \in [DOMAIN old.wrote \cup {s} -> HealthRow]
      /\ wrote[s] = put /\ \A x \in DOMAIN old.wrote : wrote[x] = old.wrote[x]
    BY <1>3, <1>5, <1>7
<1>9. /\ alerts \subseteq DOMAIN old.wrote \cup {s}
      /\ s \in alerts <=> alert
      /\ \A x \in DOMAIN old.wrote : x \in alerts <=> x \in old.alerts
    BY <1>3, <1>5
<1>10. /\ DOMAIN new = Fields /\ new.at = old.at + 1 /\ new.probe = "none" /\ new.wrote = wrote
       /\ new.alerts = alerts /\ new.op = old.op /\ new.seen = old.seen /\ new.old = old.old
       /\ new # Waiting
    <2>1. DOMAIN Waiting = {"op"} /\ Fields # {"op"}
        BY DEF Waiting, Fields
    <2> HIDE DEF old, wrote, alerts
    <2>2. /\ DOMAIN new = Fields /\ new.at = old.at + 1 /\ new.probe = "none" /\ new.wrote = wrote
          /\ new.alerts = alerts /\ new.op = old.op /\ new.seen = old.seen /\ new.old = old.old
        BY <1>3 DEF Fields
    <2> HIDE DEF new
    <2> QED BY <2>1, <2>2
<1> HIDE DEF wrote, alerts, new
<1>11. pass'[p] = new /\ pass' = [pass EXCEPT ![p] = pass'[p]]
    BY <1>1 DEF AlertInv
<1>12. PassOK(p)'
    <2>1. new.at \in 1 .. Len(Order) + 1 /\ new.at # 1
        <3>1. old.at \in 1 .. Len(Order) /\ new.at = old.at + 1 /\ Len(Order) \in Nat
            BY <1>3, <1>10, OrderFacts
        <3> HIDE DEF old
        <3> QED BY <3>1
    <2>2. new.wrote \in [{Order[n] : n \in 1 .. new.at - 1} -> HealthRow]
          /\ new.alerts \subseteq DOMAIN new.wrote
        <3>1. {Order[n] : n \in 1 .. new.at - 1} = DOMAIN old.wrote \cup {s}
            BY <1>5, <1>10
        <3> QED BY <3>1, <1>8, <1>9, <1>10
    <2>3. /\ new.op \in {"poll", "refresh"} /\ DOMAIN new.seen \subseteq Service /\ new.old \in BOOLEAN
          /\ DOMAIN new = Fields /\ new.probe = "none"
        BY <1>3, <1>10
    <2> QED BY <2>1, <2>2, <2>3, <1>11 DEF PassOK
<1>13. ASSUME NEW x \in DOMAIN old.seen PROVE SeenOK(p, x)'
    <2>1. SeenOK(p, x)
        BY <1>1, <1>2 DEF KnowsOK
    <2> QED BY <2>1, <1>1, <1>10, <1>11 DEF SeenOK
<1>14. ASSUME NEW x \in DOMAIN old.wrote PROVE WroteOK(p, x)'
    <2>1. WroteOK(p, x)
        BY <1>1, <1>2 DEF KnowsOK
    <2>2. pass'[p].wrote[x] = pass[p].wrote[x] /\ (x \in pass'[p].alerts <=> x \in pass[p].alerts)
          /\ pass'[p].old = pass[p].old
        BY <1>8, <1>9, <1>10, <1>11
    <2> QED BY <2>1, <2>2, <1>1 DEF WroteOK
<1>15. ASSUME NEW x, x = s PROVE WroteOK(p, x)'
    <2>1. /\ pass'[p].wrote[x] = put /\ (x \in pass'[p].alerts <=> alert) /\ pass'[p].old = old.old
          /\ health'[x] = health[s] /\ sent'[x] = sent[s] /\ time' = time
        BY <1>1, <1>8, <1>9, <1>10, <1>11, <1>15
    <2>2. /\ put.since <= time /\ put.alerted <= time
          /\ health[x] # NotSet => health[x].alerted <= put.alerted
          /\ put.status = "red" => put.alerted # Never /\ put.since - put.alerted < Cooldown
          /\ alert => /\ x # "database" /\ put.alerted # Never
                      /\ \A n \in DOMAIN sent[x] : sent[x][n].at <= put.alerted
                      /\ ~old.old => \A n \in DOMAIN sent[x] : put.alerted - sent[x][n].at >= Cooldown
          /\ ~alert => put.alerted = IF health[x] = NotSet THEN Never ELSE health[x].alerted
        BY <1>7, <1>15
    <2>3. health'[x] = health[x] /\ sent'[x] = sent[x]
        BY <1>1
    <2> HIDE DEF s, old
    <2>4. CASE alert
        BY <2>1, <2>2, <2>3, <2>4, <1>1 DEF WroteOK
    <2>5. CASE ~alert
        BY <2>1, <2>2, <2>3, <2>5, <1>1 DEF WroteOK
    <2> QED BY <2>4, <2>5
<1>16. KnowsOK(p)'
    <2>1. pass'[p].seen = old.seen /\ DOMAIN pass'[p].wrote = DOMAIN old.wrote \cup {s}
        BY <1>8, <1>10, <1>11
    <2> HIDE DEF old
    <2> QED BY <2>1, <1>13, <1>14, <1>15 DEF KnowsOK
<1>17. ASSUME NEW q \in Pass \ {p} PROVE ~Writing(q)
    <2>1. CASE old.at = 1
        <3> SUFFICES ASSUME Writing(q) PROVE FALSE
            OBVIOUS
        <3>1. pass[q].at \in 2 .. Len(Order) + 1
              /\ DOMAIN pass[q].wrote = {Order[n] : n \in 1 .. pass[q].at - 1} /\ pass[q] # Waiting
            <4>1. PassOK(q) /\ Writing(q)
                BY DEF AlertInv
            <4>2. pass[q] # Waiting /\ pass[q].at \in 1 .. Len(Order) + 1 /\ pass[q].at > 1
                BY <4>1 DEF PassOK, Writing
            <4>3. DOMAIN pass[q].wrote = {Order[n] : n \in 1 .. pass[q].at - 1}
                BY <4>1, <4>2 DEF PassOK
            <4>4. pass[q].at \in 2 .. Len(Order) + 1
                <5>1. Len(Order) \in Nat
                    BY OrderFacts
                <5> QED BY <4>2, <5>1
            <4> QED BY <4>2, <4>3, <4>4
        <3>2. 1 \in 1 .. pass[q].at - 1
            BY <3>1
        <3>3. s = Order[1] /\ s \in DOMAIN pass[q].wrote
            BY <2>1, <3>1, <3>2
        <3> QED BY <3>1, <3>3, <1>1 DEF RowLocked
    <2>2. CASE old.at # 1
        <3>1. Writing(p)
            BY <2>2, <1>1, <1>3 DEF Writing
        <3> QED BY <3>1 DEF AlertInv, OneWrites
    <2> QED BY <2>1, <2>2
<1> QED BY <1>1, <1>11, <1>12, <1>16, <1>17, PassChanges

\* All of r but its last are elements of q, in their order.
Follows(r, q) ==
    \E d \in {0, 1} : \A n \in DOMAIN r : n # Len(r) => n + d \in DOMAIN q /\ r[n] = q[n + d]

\* r is of S and ends with e.
Queued(r, S, q, e) ==
    /\ r \in Seq(S) /\ r # <<>> /\ Len(r) \in Nat \ {0} /\ DOMAIN r = 1 .. Len(r)
    /\ r[Len(r)] = e
    /\ Follows(r, q)

\* The last of two alerts is the new one; the other was the last before.
LEMMA LastTwoFacts ==
    ASSUME NEW S, NEW q \in Seq(S), NEW e \in S, NEW r, r = LastTwo(Append(q, e))
    PROVE  Queued(r, S, q, e)
<1> DEFINE a == Append(q, e)
<1>1. /\ a \in Seq(S) /\ Len(q) \in Nat /\ Len(a) = Len(q) + 1 /\ a[Len(a)] = e
      /\ DOMAIN q = 1 .. Len(q) /\ \A n \in DOMAIN q : a[n] = q[n]
    OBVIOUS
<1> HIDE DEF a
<1>2. CASE ~(Len(a) > 2)
    <2>1. r = a
        BY <1>2 DEF LastTwo, a
    <2>2. \A n \in DOMAIN r : n # Len(r) => n + 0 \in DOMAIN q /\ r[n] = q[n + 0]
        BY <2>1, <1>1
    <2> QED BY <2>1, <2>2, <1>1 DEF Follows, Queued
<1>3. CASE Len(a) > 2
    <2>1. r = Tail(a)
        BY <1>3 DEF LastTwo, a
    <2>2. /\ r \in Seq(S) /\ Len(r) = Len(q) /\ DOMAIN r = 1 .. Len(r)
          /\ \A n \in DOMAIN r : r[n] = a[n + 1]
        BY <2>1, <1>1, <1>3
    <2>3. \A n \in DOMAIN r : n # Len(r) => n + 1 \in DOMAIN q /\ r[n] = q[n + 1]
        BY <2>2, <1>1
    <2>4. Len(r) >= 2 /\ r[Len(r)] = e
        BY <2>2, <1>1, <1>3
    <2> QED BY <2>2, <2>3, <2>4, <1>1 DEF Follows, Queued
<1> QED BY <1>2, <1>3

\* The commit makes the alerts of the pass, the rows it wrote, and everyone else's
\* knowledge old.
LEMMA CommitPassOK == ASSUME AlertInv, NEW p \in Pass, CommitPass(p) PROVE AlertInv'
<1> DEFINE old == pass[p]
           Alert == [at : 0 .. MaxTime, old : BOOLEAN]
<1>1. /\ old # Waiting /\ old.at > Len(Order) /\ health' = old.wrote
      /\ sent' = [s \in Service |->
             IF s \in old.alerts
             THEN LastTwo(Append(sent[s], [at |-> old.wrote[s].alerted, old |-> old.old]))
             ELSE sent[s]]
      /\ pass' = [q \in Pass |-> IF q = p THEN Waiting
                                 ELSE IF pass[q].op = "refresh" THEN [pass[q] EXCEPT !.old = TRUE]
                                 ELSE pass[q]]
      /\ UNCHANGED <<time, down>>
    BY DEF CommitPass, PassFrame
<1>2. PassOK(p) /\ KnowsOK(p) /\ time \in 0 .. MaxTime /\ MaxTime \in Nat
    BY DEF AlertInv
<1>3. old.wrote \in [Service -> HealthRow] /\ old.alerts \subseteq Service /\ old.old \in BOOLEAN
      /\ old.at > 1
    <2>1. old.at \in 1 .. Len(Order) + 1
        BY <1>1, <1>2 DEF PassOK
    <2>2. old.at = Len(Order) + 1
        <3> HIDE DEF old
        <3> QED BY <2>1, <1>1, OrderFacts
    <2>3. 1 .. old.at - 1 = 1 .. Len(Order)
        <3> HIDE DEF old
        <3> QED BY <2>2, OrderFacts
    <2>4. {Order[n] : n \in 1 .. old.at - 1} = Service
        BY <2>3, OrderFacts
    <2> QED BY <2>2, <2>4, <1>1, <1>2, OrderFacts DEF PassOK
<1>4. ASSUME NEW s \in Service
      PROVE  /\ old.wrote[s] \in HealthRow /\ WroteOK(p, s) /\ HealthOK(s)
             /\ old.wrote[s].alerted \in Never .. MaxTime /\ old.wrote[s] # NotSet
    BY <1>1, <1>2, <1>3, Unset DEF KnowsOK, AlertInv, HealthRow
<1>5. ASSUME NEW s \in Service, s \in old.alerts
      PROVE  /\ sent[s] \in Seq(Alert) /\ [at |-> old.wrote[s].alerted, old |-> old.old] \in Alert
             /\ sent'[s] = LastTwo(Append(sent[s], [at |-> old.wrote[s].alerted, old |-> old.old]))
    <2>1. sent[s] \in Seq(Alert)
        BY <1>4 DEF HealthOK
    <2>2. old.wrote[s].alerted \in 0 .. MaxTime
        <3>1. old.wrote[s].alerted # Never /\ old.wrote[s].alerted \in Never .. MaxTime
            BY <1>4, <1>5 DEF WroteOK
        <3> QED BY <3>1, <1>2 DEF Never
    <2> QED BY <2>1, <2>2, <1>1, <1>3, <1>5
<1>6. ASSUME NEW s \in Service PROVE HealthOK(s)'
    <2> DEFINE row == old.wrote[s]
               r == sent'[s]
    <2>1. health'[s] = row /\ row \in HealthRow /\ row # NotSet
        BY <1>1, <1>4
    <2>2. /\ row.since <= time /\ row.alerted <= time
          /\ row.status = "red" => row.alerted # Never /\ row.since - row.alerted < Cooldown
        BY <1>4 DEF WroteOK
    <2>3. row.alerted \in Never .. MaxTime
        BY <1>4
    <2>4. CASE s \in old.alerts
        <3> DEFINE e == [at |-> row.alerted, old |-> old.old]
        <3>1. sent[s] \in Seq(Alert) /\ e \in Alert /\ r = LastTwo(Append(sent[s], e))
            BY <2>4, <1>5
        <3>2. row.alerted # Never /\ \A n \in DOMAIN sent[s] : sent[s][n].at <= row.alerted
            BY <2>4, <1>4 DEF WroteOK
        <3>3. e.at = row.alerted
            OBVIOUS
        <3>4. /\ r \in Seq(Alert) /\ r # <<>> /\ r[Len(r)] = e /\ DOMAIN r = 1 .. Len(r)
              /\ Follows(r, sent[s])
            <4> HIDE DEF e, r, Alert
            <4>1. Queued(r, Alert, sent[s], e)
                BY <3>1, LastTwoFacts
            <4> QED BY <4>1 DEF Queued
        <3>5. \A n \in DOMAIN r : r[n].at <= row.alerted
            <4> SUFFICES ASSUME NEW n \in DOMAIN r PROVE r[n].at <= row.alerted
                OBVIOUS
            <4>1. CASE n = Len(r)
                BY <4>1, <3>3, <3>4, <2>3 DEF Never
            <4>2. CASE n # Len(r)
                BY <4>2, <3>2, <3>4 DEF Follows
            <4> QED BY <4>1, <4>2
        <3>6. \A n \in DOMAIN r : r[n].at <= time
            <4> SUFFICES ASSUME NEW n \in DOMAIN r PROVE r[n].at <= time
                OBVIOUS
            <4>1. r[n].at \in 0 .. MaxTime /\ r[n].at <= row.alerted
                BY <3>4, <3>5, SentFacts
            <4> HIDE DEF r, row
            <4> QED BY <4>1, <2>2, <2>3, <1>2 DEF Never
        <3> HIDE DEF e, row, old
        <3> QED BY <3>2, <3>3, <3>4, <3>5, <3>6, <2>1, <2>2, <1>1 DEF HealthOK, Alert
    <2>5. CASE s \notin old.alerts
        <3>1. r = sent[s] /\ row.alerted = IF health[s] = NotSet THEN Never ELSE health[s].alerted
            BY <2>5, <1>1, <1>4 DEF WroteOK
        <3>2. health[s] = NotSet => sent[s] = <<>> /\ DOMAIN sent[s] = {}
            <4>1. DOMAIN <<>> = {}
                OBVIOUS
            <4> QED BY <4>1, <1>4 DEF HealthOK
        <3> HIDE DEF row, old
        <3>3. /\ IF row.alerted = Never THEN r = <<>>
                 ELSE r # <<>> /\ r[Len(r)].at = row.alerted
              /\ \A n \in DOMAIN r : r[n].at <= row.alerted
              /\ \A n \in DOMAIN r : r[n].at <= time
              /\ r \in Seq(Alert)
            BY <3>1, <3>2, <1>4 DEF HealthOK
        <3> QED BY <3>3, <2>1, <2>2, <1>1 DEF HealthOK, Alert
    <2> QED BY <2>4, <2>5
<1>7. AlertsApart'
    <2> SUFFICES ASSUME NEW s \in Service, NEW m \in DOMAIN sent'[s], NEW n \in DOMAIN sent'[s],
                        m < n, ~sent'[s][n].old
                 PROVE  sent'[s][n].at - sent'[s][m].at >= Cooldown
        BY DEF AlertsApart
    <2>1. CASE s \notin old.alerts
        BY <2>1, <1>1 DEF AlertInv, AlertsApart
    <2>2. CASE s \in old.alerts
        <3> DEFINE row == old.wrote[s]
                   e == [at |-> row.alerted, old |-> old.old]
                   r == sent'[s]
        <3>1. sent[s] \in Seq(Alert) /\ e \in Alert /\ r = LastTwo(Append(sent[s], e))
            BY <2>2, <1>5
        <3>2. ~old.old => \A k \in DOMAIN sent[s] : row.alerted - sent[s][k].at >= Cooldown
            BY <2>2, <1>4 DEF WroteOK
        <3>3. e.at = row.alerted /\ e.old = old.old
            OBVIOUS
        <3>4. /\ r[Len(r)] = e /\ DOMAIN r = 1 .. Len(r) /\ Len(r) \in Nat
              /\ Follows(r, sent[s])
            <4> HIDE DEF e, r, Alert
            <4>1. Queued(r, Alert, sent[s], e)
                BY <3>1, LastTwoFacts
            <4> QED BY <4>1 DEF Queued
        <3>5. PICK d \in {0, 1} : \A k \in DOMAIN r :
                  k # Len(r) => k + d \in DOMAIN sent[s] /\ r[k] = sent[s][k + d]
            BY <3>4 DEF Follows
        <3>6. m \in Int /\ n \in Int /\ m # Len(r) /\ m + d < n + d
            <4>1. m \in DOMAIN r /\ n \in DOMAIN r
                OBVIOUS
            <4> HIDE DEF r
            <4> QED BY <4>1, <3>4
        <3>7. m + d \in DOMAIN sent[s] /\ r[m] = sent[s][m + d]
            BY <3>5, <3>6
        <3>8. CASE n = Len(r)
            <4>1. r[n] = e
                BY <3>8, <3>4
            <4> HIDE DEF e, row, old, r
            <4>2. ~old.old
                BY <4>1, <3>3 DEF r
            <4> QED BY <4>1, <4>2, <3>2, <3>3, <3>7 DEF r
        <3>9. CASE n # Len(r)
            <4>1. n + d \in DOMAIN sent[s] /\ r[n] = sent[s][n + d]
                BY <3>9, <3>5
            <4> QED BY <4>1, <3>6, <3>7 DEF AlertInv, AlertsApart
        <3> QED BY <3>8, <3>9
    <2> QED BY <2>1, <2>2
<1>8. ASSUME NEW q \in Pass PROVE PassOK(q)' /\ KnowsOK(q)' /\ ~Writing(q)'
    <2> DEFINE new == pass'[q]
    <2>1. CASE new = Waiting
        BY <2>1 DEF PassOK, KnowsOK, Writing
    <2>2. CASE new # Waiting
        <3>1. q # p /\ new = IF pass[q].op = "refresh" THEN [pass[q] EXCEPT !.old = TRUE] ELSE pass[q]
            BY <2>2, <1>1
        <3>2. pass[q] # Waiting
            <4>1. Waiting.op # "refresh"
                BY DEF Waiting
            <4> QED BY <4>1, <3>1, <2>2
        <3>3. ~Writing(q)
            BY <3>1, <1>1, <1>3 DEF AlertInv, OneWrites, Writing
        <3>4. PassOK(q) /\ KnowsOK(q)
            BY DEF AlertInv
        <3>5. pass[q].at = 1 /\ DOMAIN pass[q].wrote = {}
            <4>1. pass[q].at \in 1 .. Len(Order) + 1 /\ ~(pass[q].at > 1)
                BY <3>2, <3>3, <3>4 DEF PassOK, Writing
            <4>2. pass[q].at = 1
                BY <4>1, OrderFacts
            <4>3. 1 .. pass[q].at - 1 = {}
                BY <4>2
            <4> QED BY <4>2, <4>3, <3>2, <3>4 DEF PassOK
        <3>6. /\ new.op = pass[q].op /\ new.at = pass[q].at /\ new.seen = pass[q].seen
              /\ new.probe = pass[q].probe /\ new.wrote = pass[q].wrote /\ new.alerts = pass[q].alerts
              /\ DOMAIN new = Fields
              /\ new.old = IF pass[q].op = "refresh" THEN TRUE ELSE pass[q].old
            <4>1. DOMAIN pass[q] = Fields
                BY <3>2, <3>4 DEF PassOK
            <4>2. CASE pass[q].op = "refresh"
                BY <4>1, <4>2, <3>1 DEF Fields
            <4>3. CASE pass[q].op # "refresh"
                BY <4>1, <4>3, <3>1
            <4> QED BY <4>2, <4>3
        <3>7. pass'[q] = new
            OBVIOUS
        <3> HIDE DEF new
        <3>8. PassOK(q)'
            <4>1. new.old \in BOOLEAN
                BY <3>2, <3>4, <3>6 DEF PassOK
            <4> QED BY <4>1, <3>2, <3>4, <3>6, <3>7 DEF PassOK
        <3>9. ASSUME NEW s \in DOMAIN new.seen PROVE SeenOK(q, s)'
            <4>1. SeenOK(q, s) /\ s \in Service
                BY <3>2, <3>4, <3>6 DEF KnowsOK, PassOK
            <4>2. new.old = TRUE \/ s = "database"
                BY <3>2, <3>4, <3>5, <3>6 DEF PassOK
            <4>3. health'[s] # NotSet
                BY <4>1, <1>1, <1>4
            <4>4. ASSUME new.seen[s] # NotSet PROVE new.seen[s].alerted <= health'[s].alerted
                <5>1. /\ health[s] # NotSet /\ new.seen[s].alerted <= health[s].alerted
                      /\ health[s] \in HealthRow /\ new.seen[s] \in HealthRow
                    BY <4>1, <4>4, <3>6 DEF SeenOK, AlertInv
                <5>2. health[s].alerted <= health'[s].alerted
                    BY <4>1, <5>1, <1>1, <1>4 DEF WroteOK
                <5>3. new.seen[s].alerted \in Int /\ health[s].alerted \in Int /\ health'[s].alerted \in Int
                    BY <4>1, <5>1, <1>1, <1>4 DEF HealthRow, Never
                <5> QED BY <5>1, <5>2, <5>3
            <4> QED BY <4>1, <4>2, <4>3, <4>4, <3>6, <3>7 DEF SeenOK
        <3>10. KnowsOK(q)'
            BY <3>5, <3>6, <3>7, <3>9 DEF KnowsOK
        <3> QED BY <3>5, <3>6, <3>7, <3>8, <3>10 DEF Writing
    <2> QED BY <2>1, <2>2
<1>9. health' \in [Service -> HealthRow \cup {NotSet}]
    BY <1>1, <1>3
<1>10. sent' = [s \in Service |-> sent'[s]] /\ pass' = [q \in Pass |-> pass'[q]]
    BY <1>1
<1>11. OneWrites'
    BY <1>8 DEF OneWrites
<1> QED BY <1>1, <1>6, <1>7, <1>8, <1>9, <1>10, <1>11 DEF AlertInv

LEMMA AbandonPassOK == ASSUME AlertInv, NEW p \in Pass, AbandonPass(p) PROVE AlertInv'
<1>1. pass' = [pass EXCEPT ![p] = Waiting] /\ UNCHANGED <<health, sent, time, down>>
    BY DEF AbandonPass, PassFrame
<1>2. pass'[p] = Waiting /\ pass' = [pass EXCEPT ![p] = pass'[p]]
    BY <1>1 DEF AlertInv
<1>3. PassOK(p)' /\ KnowsOK(p)' /\ ~Writing(p)'
    BY <1>2 DEF PassOK, KnowsOK, Writing
<1> QED BY <1>1, <1>2, <1>3, PassChanges

LEMMA AlertUntouched ==
    ASSUME AlertInv, UNCHANGED <<health, sent, time, pass>>, down' \subseteq Service \ {"database"}
    PROVE  AlertInv'
<1>1. ASSUME NEW p \in Pass, NEW s PROVE SeenOK(p, s)' <=> SeenOK(p, s)
    BY DEF SeenOK
<1>2. ASSUME NEW p \in Pass, NEW s PROVE WroteOK(p, s)' <=> WroteOK(p, s)
    BY DEF WroteOK
<1>3. ASSUME NEW p \in Pass PROVE PassOK(p)' /\ KnowsOK(p)'
    <2>1. PassOK(p)'
        BY DEF AlertInv, PassOK
    <2>2. KnowsOK(p)'
        BY <1>1, <1>2 DEF AlertInv, KnowsOK
    <2> QED BY <2>1, <2>2
<1>4. \A s \in Service : HealthOK(s)'
    BY DEF AlertInv, HealthOK
<1>5. AlertsApart' /\ OneWrites'
    BY DEF AlertInv, AlertsApart, OneWrites, Writing
<1> QED BY <1>3, <1>4, <1>5 DEF AlertInv

LEMMA OutageOK == ASSUME AlertInv, Outage PROVE AlertInv'
BY AlertUntouched DEF Outage, AlertInv

LEMMA TickOK == ASSUME AlertInv, Tick PROVE AlertInv'
<1>1. /\ time' = time + 1 /\ time \in Nat /\ time' \in 0 .. MaxTime
      /\ UNCHANGED <<health, sent, pass, down>>
    BY DEF Tick, AlertInv
<1>2. AlertsApart' /\ OneWrites'
    BY <1>1 DEF AlertInv, AlertsApart, OneWrites, Writing
<1>3. ASSUME NEW n, n \in Int, n <= time PROVE n <= time'
    BY <1>1, <1>3
<1>4. ASSUME NEW s \in Service PROVE HealthOK(s)'
    <2>1. HealthOK(s) /\ health[s] \in HealthRow \cup {NotSet}
        BY DEF AlertInv
    <2>2. sent[s] \in Seq([at : 0 .. MaxTime, old : BOOLEAN])
        BY <2>1 DEF HealthOK
    <2>3. \A n \in DOMAIN sent[s] : sent[s][n].at \in 0 .. MaxTime
        BY <2>2, SentFacts
    <2>4. \A n \in DOMAIN sent[s] : sent[s][n].at <= time'
        BY <2>1, <2>3, <1>1, <1>3 DEF HealthOK
    <2>5. health[s] # NotSet => health[s].since <= time' /\ health[s].alerted <= time'
        BY <2>1, <1>1, <1>3 DEF HealthOK, HealthRow, Never
    <2> QED BY <2>1, <2>4, <2>5, <1>1 DEF HealthOK
<1>5. ASSUME NEW p \in Pass, pass[p] # Waiting PROVE KnowsOK(p)'
    <2>1. PassOK(p) /\ KnowsOK(p)
        BY DEF AlertInv
    <2>2. ASSUME NEW s \in DOMAIN pass[p].wrote PROVE WroteOK(p, s)'
        <3>1. WroteOK(p, s) /\ pass[p].wrote[s] \in HealthRow
            BY <2>1, <1>5 DEF PassOK, KnowsOK
        <3>2. pass[p].wrote[s].since \in Int /\ pass[p].wrote[s].alerted \in Int
            BY <3>1 DEF HealthRow, Never
        <3>3. pass[p].wrote[s].since <= time' /\ pass[p].wrote[s].alerted <= time'
            BY <3>1, <3>2, <1>3 DEF WroteOK
        <3> QED BY <3>1, <3>3, <1>1 DEF WroteOK
    <2>3. ASSUME NEW s \in DOMAIN pass[p].seen PROVE SeenOK(p, s)'
        BY <2>1, <1>1, <1>5 DEF KnowsOK, SeenOK
    <2> QED BY <2>2, <2>3, <1>1 DEF KnowsOK
<1>6. ASSUME NEW p \in Pass PROVE PassOK(p)' /\ KnowsOK(p)'
    <2>1. PassOK(p)'
        BY <1>1 DEF AlertInv, PassOK
    <2>2. pass[p] = Waiting => KnowsOK(p)'
        BY <1>1 DEF KnowsOK
    <2> QED BY <2>1, <2>2, <1>5
<1> QED BY <1>1, <1>2, <1>4, <1>6 DEF AlertInv

LEMMA AlertInductive == IntegrationsSpec => []AlertInv
<1>1. IntegrationsInit => AlertInv
    BY AlertInit
<1>2. AlertInv /\ [IntegrationsNext]_integrationVars => AlertInv'
    <2> SUFFICES ASSUME AlertInv, [IntegrationsNext]_integrationVars PROVE AlertInv'
        OBVIOUS
    <2>0. down \subseteq Service \ {"database"}
        BY DEF AlertInv
    <2>1. CASE \E h \in Admin : \/ BeginStore(h) \/ CommitStore(h)
                                \/ BeginTest(h) \/ CommitTest(h)
                                \/ AbandonRequest(h)
        BY <2>0, <2>1, AlertUntouched DEF BeginStore, CommitStore, BeginTest, CommitTest, AbandonRequest,
            Ask, Answer, RequestFrame
    <2>2. CASE DropKey
        BY <2>0, <2>2, AlertUntouched DEF DropKey
    <2>3. CASE \E p \in Pass : \/ BeginPoll(p) \/ BeginRefresh(p)
                               \/ ProbeService(p) \/ UpsertState(p)
                               \/ CommitPass(p) \/ AbandonPass(p)
        BY <2>3, BeginPollOK, BeginRefreshOK, ProbeServiceOK, UpsertStateOK, CommitPassOK,
            AbandonPassOK
    <2>4. CASE Outage
        BY <2>4, OutageOK
    <2>5. CASE Tick
        BY <2>5, TickOK
    <2>6. CASE UNCHANGED integrationVars
        BY <2>0, <2>6, AlertUntouched DEF integrationVars
    <2> QED BY <2>1, <2>2, <2>3, <2>4, <2>5, <2>6 DEF IntegrationsNext
<1> QED BY <1>1, <1>2, PTL DEF IntegrationsSpec

\* However health passes overlap, fail and find services out, a service that is red was
\* alerted of when it turned red or less than a cooldown before, and two of its alerts
\* are a cooldown apart unless a refresh with old rows sends the later.
THEOREM AlertsAreRight == IntegrationsSpec => []AlertsRight
<1>1. AlertInv => AlertsRight
    <2> SUFFICES ASSUME AlertInv, NEW s \in SetRows(health), health[s].status = "red"
                 PROVE  /\ health[s].alerted # Never
                        /\ health[s].since - health[s].alerted < Cooldown
                        /\ \E n \in DOMAIN sent[s] : sent[s][n].at = health[s].alerted
        BY DEF AlertsRight, RedIsAlerted, AlertInv
    <2>1. s \in Service /\ HealthOK(s) /\ health[s] # NotSet
        BY DEF SetRows, AlertInv
    <2>2. /\ health[s].alerted # Never /\ health[s].since - health[s].alerted < Cooldown
          /\ sent[s] # <<>> /\ sent[s][Len(sent[s])].at = health[s].alerted
          /\ sent[s] \in Seq([at : 0 .. MaxTime, old : BOOLEAN])
        BY <2>1 DEF HealthOK
    <2>3. Len(sent[s]) \in DOMAIN sent[s]
        <3> DEFINE q == sent[s]
        <3>1. q # <<>> /\ Len(q) \in Nat /\ DOMAIN q = 1 .. Len(q)
              /\ q \in Seq([at : 0 .. MaxTime, old : BOOLEAN])
            BY <2>2, SentFacts
        <3> HIDE DEF q
        <3>2. Len(q) # 0
            BY <3>1
        <3>3. Len(q) \in DOMAIN q
            BY <3>1, <3>2
        <3> QED BY <3>3 DEF q
    <2> QED BY <2>2, <2>3
<1> QED BY <1>1, AlertInductive, PTL

\* Credentials, health rows and the progress of each pass stay in their types.
THEOREM IntegrationsTyped == IntegrationsSpec => []IntegrationsTypeOK
<1>1. BadgeInv /\ AlertInv => IntegrationsTypeOK
    <2> SUFFICES ASSUME BadgeInv, AlertInv PROVE IntegrationsTypeOK
        OBVIOUS
    <2>1. ASSUME NEW p \in Pass, pass[p] # Waiting
          PROVE  /\ pass[p].at \in 1 .. Len(Order) + 1
                 /\ DOMAIN pass[p].wrote = {Order[n] : n \in 1 .. pass[p].at - 1}
                 /\ pass[p].alerts \subseteq DOMAIN pass[p].wrote
        <3>1. PassOK(p)
            BY DEF AlertInv
        <3> QED BY <2>1, <3>1 DEF PassOK
    <2>2. \A s \in Service : \A n \in DOMAIN sent[s] : sent[s][n].at <= time
        BY DEF AlertInv, HealthOK
    <2>3. /\ creds \in [Integration -> Credential \cup {NotSet}]
          /\ health \in [Service -> HealthRow \cup {NotSet}]
          /\ down \subseteq Service /\ time \in 0 .. MaxTime
        BY DEF BadgeInv, AlertInv
    <2> QED BY <2>1, <2>2, <2>3 DEF IntegrationsTypeOK
<1> QED BY <1>1, BadgeInductive, AlertInductive, PTL

HIDE IntegrationsAssumption

-----------------------------------------------------------------------------
(* Notices                                                                 *)

\* No two jobs have one key.
KeysApart(ns) ==
    \A m, n \in ns :
        m.kind = n.kind /\ m.status = n.status /\ (m.kind = "watcher" => m.user = n.user) => m = n

Told(ns, s, u) == \E n \in ns : n.kind = "watcher" /\ n.status = s /\ n.user = u

Turn == {"customer", "rep", "watchers", "each", "done"}

Transition == [at : Turn, to : Status, rep : Person \cup {NoPerson}, jobs : SUBSET Notice,
               pending : SUBSET Person, facing : BOOLEAN, working : BOOLEAN,
               throughout : SUBSET Person, channels : [Person -> SUBSET Channel]]

\* A transition that runs, and whom it still has to tell.
ChangeOK ==
    change # Quiet =>
        /\ change \in Transition
        /\ KeysApart(notices \cup change.jobs)
        /\ change.throughout \subseteq watchers \cap enabled
        /\ \A u \in Person : Resolve(pref[u]) \in change.channels[u]
        /\ \A n \in change.jobs :
               /\ n.status = change.to
               /\ n.channel \in IF n.kind = "customer" THEN {"email"} ELSE change.channels[n.user]
        /\ change.facing /\ change.at \in {"each", "done"} =>
               \A u \in change.throughout :
                   u \in change.pending \/ Told(notices \cup change.jobs, change.to, u)
        /\ change.at # "each" => change.pending = {}

NoticesInv == NoticesTypeOK /\ ChangeOK

USE NoticesAssumption

LEMMA ResolvesTo == ASSUME NEW ps \in [Person -> Pref], NEW u \in Person PROVE Resolve(ps[u]) \in Channel
BY DEF Resolve, Channel

LEMMA NoticesInitOK == NoticesInit => NoticesInv
<1> SUFFICES ASSUME NoticesInit PROVE NoticesInv
    OBVIOUS
<1>1. change = Quiet /\ notices = {} /\ customer \in Person \cup {NoPerson} /\ rep = NoPerson
      /\ status \in Status /\ watchers = {} /\ enabled = Person
      /\ pref = [u \in Person |-> "none"] /\ text = [t \in Template |-> "renders"]
    BY DEF NoticesInit
<1>2. NoticesTypeOK
    BY <1>1 DEF NoticesTypeOK, Pref
<1> QED BY <1>1, <1>2 DEF NoticesInv, ChangeOK

\* While others act, a transition stays what it was but for what it notes.
LEMMA NotedOK ==
    ASSUME NoticesInv, NEW ws, NEW es, NEW ps \in [Person -> Pref], UNCHANGED notices,
           change' = Noted(ws, es, ps), watchers' = ws, enabled' = es, pref' = ps
    PROVE  ChangeOK'
<1>1. CASE change = Quiet
    BY <1>1 DEF Noted, ChangeOK
<1>2. CASE change # Quiet
    <2> DEFINE c == change
               throughout == c.throughout \cap ws \cap es
               channels == [u \in Person |-> c.channels[u] \cup {Resolve(ps[u])}]
               new == [c EXCEPT !.throughout = throughout, !.channels = channels]
    <2>1. change' = new
        BY <1>2 DEF Noted, NoticesInv, ChangeOK
    <2>2. ChangeOK
        BY DEF NoticesInv
    <2>3. c \in Transition
        BY <1>2, <2>2 DEF ChangeOK
    <2>4. throughout \in SUBSET Person /\ channels \in [Person -> SUBSET Channel]
        BY <2>3, ResolvesTo DEF Transition
    <2> HIDE DEF throughout, channels
    <2>5. /\ new \in Transition /\ new.at = c.at /\ new.to = c.to /\ new.jobs = c.jobs
          /\ new.pending = c.pending /\ new.facing = c.facing
          /\ new.throughout = throughout /\ new.channels = channels
        <3> HIDE DEF c
        <3> QED BY <2>3, <2>4 DEF Transition
    <2> HIDE DEF new
    <2>6. \A n \in c.jobs : n.user \in Person
        BY <2>3 DEF Transition, Notice
    <2>7. \A u \in Person : c.channels[u] \subseteq channels[u] /\ Resolve(ps[u]) \in channels[u]
        BY DEF channels
    <2>8. throughout \subseteq c.throughout /\ throughout \subseteq ws \cap es
        BY DEF throughout
    <2>9. \A n \in new.jobs :
              /\ n.status = new.to
              /\ n.channel \in IF n.kind = "customer" THEN {"email"} ELSE new.channels[n.user]
        BY <2>2, <2>5, <2>6, <2>7, <1>2 DEF ChangeOK
    <2>10. new.facing /\ new.at \in {"each", "done"} =>
               \A u \in new.throughout :
                   u \in new.pending \/ Told(notices \cup new.jobs, new.to, u)
        BY <2>2, <2>5, <2>8, <1>2 DEF ChangeOK
    <2>11. KeysApart(notices \cup new.jobs) /\ (new.at # "each" => new.pending = {})
        BY <2>2, <2>5, <1>2 DEF ChangeOK
    <2> QED BY <2>1, <2>5, <2>7, <2>8, <2>9, <2>10, <2>11 DEF ChangeOK
<1> QED BY <1>1, <1>2

LEMMA SettingTyped ==
    ASSUME NoticesInv
    PROVE  /\ watchers \subseteq Person /\ enabled \subseteq Person /\ pref \in [Person -> Pref]
           /\ rep \in Person \cup {NoPerson} /\ customer \in Person \cup {NoPerson}
           /\ text \in [Template -> {"renders", "raises"}] /\ status \in Status
           /\ notices \subseteq Notice
BY DEF NoticesInv, NoticesTypeOK

\* The types of what others change, and their effect on a transition that runs.
LEMMA MeanwhileOK ==
    ASSUME NoticesInv, UNCHANGED <<status, customer, notices>>,
           watchers' \subseteq Person, enabled' \subseteq Person, pref' \in [Person -> Pref],
           rep' \in Person \cup {NoPerson}, text' \in [Template -> {"renders", "raises"}], ChangeOK'
    PROVE  NoticesInv'
BY DEF NoticesInv, NoticesTypeOK

LEMMA AddWatcherOK == ASSUME NoticesInv, AddWatcher PROVE NoticesInv'
<1>1. /\ watchers \subseteq watchers' /\ watchers' \subseteq Person
      /\ UNCHANGED <<status, customer, notices, rep, enabled, pref, text, change>>
    BY SettingTyped DEF AddWatcher, Meanwhile
<1>2. ChangeOK'
    BY <1>1 DEF NoticesInv, ChangeOK
<1> QED BY <1>1, <1>2, MeanwhileOK, SettingTyped

LEMMA RemoveWatcherOK == ASSUME NoticesInv, RemoveWatcher PROVE NoticesInv'
<1>1. /\ watchers' \subseteq Person /\ change' = Noted(watchers', enabled, pref)
      /\ UNCHANGED <<status, customer, notices, rep, enabled, pref, text>>
    BY SettingTyped DEF RemoveWatcher, Meanwhile
<1>2. ChangeOK'
    BY <1>1, NotedOK, SettingTyped
<1> QED BY <1>1, <1>2, MeanwhileOK, SettingTyped

LEMMA AssignRepOK == ASSUME NoticesInv, AssignRep PROVE NoticesInv'
<1>1. /\ rep' \in Person
      /\ UNCHANGED <<status, customer, notices, watchers, enabled, pref, text, change>>
    BY SettingTyped DEF AssignRep, Meanwhile
<1>2. ChangeOK'
    BY <1>1 DEF NoticesInv, ChangeOK
<1> QED BY <1>1, <1>2, MeanwhileOK, SettingTyped

LEMMA RetireOK ==
    ASSUME NoticesInv, NEW u \in enabled, NEW heir \in Person \cup {NoPerson}, Retire(u, heir)
    PROVE  NoticesInv'
<1>1. /\ enabled' \subseteq Person /\ rep' = heir /\ change' = Noted(watchers, enabled', pref)
      /\ UNCHANGED <<status, customer, notices, watchers, pref, text>>
    BY SettingTyped DEF Retire, Meanwhile
<1>2. ChangeOK'
    BY <1>1, NotedOK, SettingTyped
<1> QED BY <1>1, <1>2, MeanwhileOK, SettingTyped

LEMMA RequestDeletionOK == ASSUME NoticesInv, RequestDeletion PROVE NoticesInv'
BY RetireOK, SettingTyped DEF RequestDeletion

LEMMA DeactivateOK == ASSUME NoticesInv, Deactivate PROVE NoticesInv'
<1>1. PICK u \in enabled, heir \in Person \cup {NoPerson} : Retire(u, heir)
    BY SettingTyped DEF Deactivate
<1> QED BY <1>1, RetireOK

LEMMA UpsertPreferenceOK == ASSUME NoticesInv, UpsertPreference PROVE NoticesInv'
<1>1. /\ pref' \in [Person -> Pref] /\ change' = Noted(watchers, enabled, pref')
      /\ UNCHANGED <<status, customer, notices, rep, watchers, enabled, text>>
    BY SettingTyped DEF UpsertPreference, Meanwhile
<1>2. ChangeOK'
    BY <1>1, NotedOK, SettingTyped
<1> QED BY <1>1, <1>2, MeanwhileOK, SettingTyped

LEMMA UpdateOverrideOK == ASSUME NoticesInv, UpdateOverride PROVE NoticesInv'
<1>1. /\ text' \in [Template -> {"renders", "raises"}]
      /\ UNCHANGED <<status, customer, notices, rep, watchers, enabled, pref, change>>
    BY SettingTyped DEF UpdateOverride, Meanwhile
<1>2. ChangeOK'
    BY <1>1 DEF NoticesInv, ChangeOK
<1> QED BY <1>1, <1>2, MeanwhileOK, SettingTyped

\* A step of a transition changes nothing but what it is to commit.
LEMMA GoOK == ASSUME NoticesInv, NEW c, Go(c), ChangeOK' PROVE NoticesInv'
BY DEF NoticesInv, NoticesTypeOK, Go, setting

LEMMA RecordTransitionOK == ASSUME NoticesInv, RecordTransition PROVE NoticesInv'
<1>1. PICK s \in Status \ {status}, force \in {"none", "on", "off"} :
          Go([at |-> "customer", to |-> s, rep |-> rep, jobs |-> {}, pending |-> {},
              facing |-> force = "on" \/ (force = "none" /\ s \in Facing),
              working |-> force = "on" \/ (force = "none" /\ s \in Working),
              throughout |-> watchers \cap enabled,
              channels |-> [u \in Person |-> {Resolve(pref[u])}]])
    BY DEF RecordTransition
<1> DEFINE facing == force = "on" \/ (force = "none" /\ s \in Facing)
           working == force = "on" \/ (force = "none" /\ s \in Working)
           throughout == watchers \cap enabled
           channels == [u \in Person |-> {Resolve(pref[u])}]
           c == [at |-> "customer", to |-> s, rep |-> rep, jobs |-> {}, pending |-> {},
                 facing |-> facing, working |-> working, throughout |-> throughout,
                 channels |-> channels]
<1>2. Go(c)
    BY <1>1
<1>3. /\ facing \in BOOLEAN /\ working \in BOOLEAN /\ throughout \in SUBSET Person
      /\ channels \in [Person -> SUBSET Channel]
    BY SettingTyped, ResolvesTo
<1>4. throughout = watchers \cap enabled /\ \A u \in Person : Resolve(pref[u]) \in channels[u]
    OBVIOUS
<1> HIDE DEF facing, working, throughout, channels
<1>5. /\ c \in Transition /\ c.at = "customer" /\ c.jobs = {} /\ c.pending = {}
      /\ c.throughout = throughout /\ c.channels = channels
    BY <1>3, SettingTyped DEF Transition, Turn
<1> HIDE DEF c
<1>6. KeysApart(notices \cup c.jobs)
    BY <1>5 DEF NoticesInv, NoticesTypeOK, KeysApart
<1>7. change' = c /\ UNCHANGED <<notices, watchers, enabled, pref>>
    BY <1>2 DEF Go, setting
<1>8. ChangeOK'
    BY <1>4, <1>5, <1>6, <1>7 DEF ChangeOK
<1> QED BY <1>2, <1>8, GoOK

LEMMA ChangeTyped ==
    ASSUME NoticesInv, change # Quiet
    PROVE  /\ change \in Transition /\ ChangeOK
           /\ change.at \in Turn /\ change.to \in Status /\ change.jobs \subseteq Notice
           /\ change.pending \subseteq Person /\ change.facing \in BOOLEAN
           /\ change.throughout \subseteq Person /\ change.channels \in [Person -> SUBSET Channel]
BY DEF NoticesInv, ChangeOK, Transition

\* A turn writes where it is, its jobs and whom it still has to tell.
Turns(at, jobset, left) ==
    /\ at \in Turn /\ jobset \in SUBSET Notice /\ left \in SUBSET Person
    /\ Go([change EXCEPT !.at = at, !.jobs = jobset, !.pending = left])
    /\ KeysApart(notices \cup jobset)
    /\ at # "each" => left = {}
    /\ \A n \in jobset \ change.jobs :
           /\ n.status = change.to
           /\ n.channel \in IF n.kind = "customer" THEN {"email"} ELSE change.channels[n.user]
    /\ change.facing /\ at \in {"each", "done"} =>
           \A u \in change.throughout : u \in left \/ Told(notices \cup jobset, change.to, u)

LEMMA TurnOK ==
    ASSUME NoticesInv, change # Quiet, NEW at, NEW jobset, NEW left, Turns(at, jobset, left)
    PROVE  NoticesInv'
<1> USE DEF Turns
<1> DEFINE c == change
           new == [c EXCEPT !.at = at, !.jobs = jobset, !.pending = left]
<1>1. Go(new) /\ c \in Transition /\ ChangeOK
    BY ChangeTyped
<1>2. change' = new /\ UNCHANGED <<notices, watchers, enabled, pref>>
    BY <1>1 DEF Go, setting
<1>3. /\ new \in Transition /\ new.at = at /\ new.jobs = jobset /\ new.pending = left
      /\ new.to = c.to /\ new.facing = c.facing /\ new.throughout = c.throughout
      /\ new.channels = c.channels
    <2> HIDE DEF c
    <2> QED BY <1>1 DEF Transition
<1> HIDE DEF new
<1>4. \A n \in jobset : /\ n.status = new.to
                        /\ n.channel \in IF n.kind = "customer" THEN {"email"} ELSE new.channels[n.user]
    BY <1>1, <1>3 DEF ChangeOK
<1>5. ChangeOK'
    BY <1>1, <1>2, <1>3, <1>4 DEF ChangeOK
<1> QED BY <1>1, <1>5, GoOK

\* The job of a turn is there, of it or of an earlier transition, and no key is twice.
LEMMA EnqueuedOK ==
    ASSUME NoticesInv, change # Quiet, NEW kind \in {"customer", "rep", "watcher"},
           NEW u \in Person, NEW channel \in Channel,
           NEW queued, queued = Enqueued(JobFor(kind, u, channel))
    PROVE  /\ queued \in SUBSET Notice /\ change.jobs \subseteq queued
           /\ KeysApart(notices \cup queued)
           /\ \A n \in queued \ change.jobs :
                  n.kind = kind /\ n.status = change.to /\ n.user = u /\ n.channel = channel
           /\ kind = "watcher" => Told(notices \cup queued, change.to, u)
<1> DEFINE job == JobFor(kind, u, channel)
<1>1. /\ job \in Notice /\ job.kind = kind /\ job.status = change.to /\ job.user = u
      /\ job.channel = channel
    BY ChangeTyped DEF JobFor, Notice
<1>2. KeysApart(notices \cup change.jobs) /\ change.jobs \subseteq Notice
    BY ChangeTyped DEF ChangeOK
<1> HIDE DEF job
<1>3. CASE \E n \in notices \cup change.jobs :
              n.kind = job.kind /\ n.status = job.status /\ (job.kind = "watcher" => n.user = job.user)
    <2>1. queued = change.jobs
        BY <1>3 DEF Enqueued, job
    <2> QED BY <2>1, <1>1, <1>2, <1>3 DEF Told
<1>4. CASE ~\E n \in notices \cup change.jobs :
              n.kind = job.kind /\ n.status = job.status /\ (job.kind = "watcher" => n.user = job.user)
    <2>1. queued = change.jobs \cup {job}
        BY <1>4 DEF Enqueued, job
    <2>2. KeysApart(notices \cup queued)
        BY <2>1, <1>2, <1>4 DEF KeysApart
    <2> QED BY <2>1, <2>2, <1>1, <1>2 DEF Told
<1> QED BY <1>3, <1>4

\* A turn that only goes on.
LEMMA GoesOn ==
    ASSUME NoticesInv, change # Quiet, NEW at \in Turn \ {"each"}, Go([change EXCEPT !.at = at]),
           change.at # "each",
           change.facing /\ at = "done" => change.throughout = {}
    PROVE  NoticesInv'
<1>1. change.pending = {} /\ KeysApart(notices \cup change.jobs)
    BY ChangeTyped DEF ChangeOK
<1> DEFINE c == change
<1>2. [c EXCEPT !.at = at] = [c EXCEPT !.at = at, !.jobs = c.jobs, !.pending = c.pending]
    <2>1. c \in Transition
        BY ChangeTyped
    <2> HIDE DEF c
    <2> QED BY <2>1 DEF Transition
<1>3. Go([change EXCEPT !.at = at, !.jobs = change.jobs, !.pending = change.pending])
    BY <1>2
<1>4. Turns(at, change.jobs, change.pending)
    <2>1. change.facing /\ at \in {"each", "done"} => change.throughout = {}
        OBVIOUS
    <2>2. change.jobs \in SUBSET Notice /\ change.pending \in SUBSET Person
        BY ChangeTyped
    <2> QED BY <1>1, <1>3, <2>1, <2>2 DEF Turns
<1> QED BY <1>4, TurnOK

LEMMA NotifyCustomerOK == ASSUME NoticesInv, NotifyCustomer PROVE NoticesInv'
<1>1. change # Quiet /\ change.at = "customer" /\ "rep" \in Turn \ {"each"}
    <2>1. change.at = "customer"
        BY DEF NotifyCustomer
    <2> QED BY <2>1 DEF Quiet, Turn
<1>2. CASE change.facing /\ customer # NoPerson
    <2> DEFINE queued == Enqueued(JobFor("customer", customer, "email"))
    <2>1. customer \in Person /\ "email" \in Channel
        BY <1>2, SettingTyped DEF Channel
    <2>2. /\ queued \in SUBSET Notice /\ KeysApart(notices \cup queued)
          /\ \A n \in queued \ change.jobs :
                 n.kind = "customer" /\ n.status = change.to /\ n.channel = "email"
        <3>1. queued = Enqueued(JobFor("customer", customer, "email"))
            OBVIOUS
        <3> HIDE DEF queued
        <3> QED BY <3>1, <2>1, <1>1, EnqueuedOK
    <2>3. Go([change EXCEPT !.at = "rep", !.jobs = queued])
        BY <1>2 DEF NotifyCustomer
    <2> HIDE DEF queued
    <2>4. [change EXCEPT !.at = "rep", !.jobs = queued]
              = [change EXCEPT !.at = "rep", !.jobs = queued, !.pending = {}]
        BY <1>1, ChangeTyped DEF ChangeOK, Transition
    <2>5. Go([change EXCEPT !.at = "rep", !.jobs = queued, !.pending = {}])
        BY <2>3, <2>4
    <2>6. Turns("rep", queued, {})
        <3>1. "rep" \in Turn
            BY <1>1
        <3>2. \A n \in queued \ change.jobs :
                  /\ n.status = change.to
                  /\ n.channel \in IF n.kind = "customer" THEN {"email"} ELSE change.channels[n.user]
            BY <2>2
        <3> QED BY <2>2, <2>5, <3>1, <3>2 DEF Turns
    <2> QED BY <1>1, <2>6, TurnOK
<1>3. CASE ~(change.facing /\ customer # NoPerson)
    BY <1>1, <1>3, GoesOn DEF NotifyCustomer
<1> QED BY <1>2, <1>3

LEMMA NotifySalesRepOK == ASSUME NoticesInv, NotifySalesRep PROVE NoticesInv'
<1>1. change # Quiet /\ change.at = "rep" /\ "watchers" \in Turn \ {"each"}
    <2>1. change.at = "rep"
        BY DEF NotifySalesRep
    <2> QED BY <2>1 DEF Quiet, Turn
<1>2. CASE change.working /\ change.rep \in enabled
    <2> DEFINE channel == Resolve(pref[change.rep])
               queued == Enqueued(JobFor("rep", change.rep, channel))
    <2>1. change.rep \in Person /\ channel \in Channel /\ channel \in change.channels[change.rep]
        BY <1>1, <1>2, SettingTyped, ResolvesTo, ChangeTyped DEF ChangeOK
    <2>2. /\ queued \in SUBSET Notice /\ KeysApart(notices \cup queued)
          /\ \A n \in queued \ change.jobs :
                 n.kind = "rep" /\ n.status = change.to /\ n.user = change.rep /\ n.channel = channel
        <3>1. queued = Enqueued(JobFor("rep", change.rep, channel))
            OBVIOUS
        <3> HIDE DEF queued, channel
        <3> QED BY <3>1, <2>1, <1>1, EnqueuedOK
    <2>3. Go([change EXCEPT !.at = "watchers", !.jobs = queued])
        BY <1>2 DEF NotifySalesRep
    <2> HIDE DEF queued, channel
    <2>4. [change EXCEPT !.at = "watchers", !.jobs = queued]
              = [change EXCEPT !.at = "watchers", !.jobs = queued, !.pending = {}]
        BY <1>1, ChangeTyped DEF ChangeOK, Transition
    <2>5. Go([change EXCEPT !.at = "watchers", !.jobs = queued, !.pending = {}])
        BY <2>3, <2>4
    <2>6. Turns("watchers", queued, {})
        <3>1. "watchers" \in Turn
            BY <1>1
        <3>2. \A n \in queued \ change.jobs :
                  /\ n.status = change.to
                  /\ n.channel \in IF n.kind = "customer" THEN {"email"} ELSE change.channels[n.user]
            BY <2>1, <2>2
        <3> QED BY <2>2, <2>5, <3>1, <3>2 DEF Turns
    <2> QED BY <1>1, <2>6, TurnOK
<1>3. CASE ~(change.working /\ change.rep \in enabled)
    BY <1>1, <1>3, GoesOn DEF NotifySalesRep
<1> QED BY <1>2, <1>3

\* All who watched throughout still watch when the watchers are read.
LEMMA ReadWatchersOK == ASSUME NoticesInv, ReadWatchers PROVE NoticesInv'
<1>1. /\ change # Quiet /\ change.at = "watchers" /\ "done" \in Turn \ {"each"} /\ "each" \in Turn
    BY DEF ReadWatchers, Quiet, Turn
<1>2. change.throughout \subseteq watchers /\ KeysApart(notices \cup change.jobs)
    BY <1>1, ChangeTyped DEF ChangeOK
<1>3. CASE change.facing /\ watchers # {}
    <2>1. Go([change EXCEPT !.at = "each", !.pending = watchers])
        BY <1>3 DEF ReadWatchers
    <2> DEFINE c == change
    <2>2. [c EXCEPT !.at = "each", !.pending = watchers]
              = [c EXCEPT !.at = "each", !.jobs = c.jobs, !.pending = watchers]
        <3>1. c \in Transition
            BY <1>1, ChangeTyped
        <3> HIDE DEF c
        <3> QED BY <3>1 DEF Transition
    <2>3. Go([change EXCEPT !.at = "each", !.jobs = change.jobs, !.pending = watchers])
        BY <2>1, <2>2
    <2>4. /\ "each" \in Turn /\ change.jobs \in SUBSET Notice /\ watchers \in SUBSET Person
        BY <1>1, ChangeTyped, SettingTyped
    <2>5. Turns("each", change.jobs, watchers)
        BY <1>2, <2>3, <2>4 DEF Turns
    <2> QED BY <1>1, <2>5, TurnOK
<1>4. CASE ~(change.facing /\ watchers # {})
    BY <1>1, <1>2, <1>4, GoesOn DEF ReadWatchers
<1> QED BY <1>3, <1>4

\* A watcher who is skipped was not there throughout.
LEMMA NotifyWatcherOK == ASSUME NoticesInv, NotifyWatcher PROVE NoticesInv'
<1>1. change # Quiet /\ change.at = "each" /\ "each" \in Turn
    BY DEF NotifyWatcher, Quiet, Turn
<1> DEFINE queue(u) == IF u \in enabled THEN Enqueued(JobFor("watcher", u, Resolve(pref[u])))
                       ELSE change.jobs
<1>2. PICK u \in change.pending :
          Go([change EXCEPT !.pending = change.pending \ {u}, !.jobs = queue(u)])
    BY DEF NotifyWatcher
<1> DEFINE left == change.pending \ {u}
           queued == queue(u)
<1>3. u \in Person /\ left \in SUBSET Person /\ change.throughout \subseteq enabled
    BY <1>1, ChangeTyped DEF ChangeOK
<1>4. Resolve(pref[u]) \in Channel /\ Resolve(pref[u]) \in change.channels[u]
    BY <1>1, <1>3, ResolvesTo, SettingTyped, ChangeTyped DEF ChangeOK
<1>5. /\ queued \in SUBSET Notice /\ change.jobs \subseteq queued /\ KeysApart(notices \cup queued)
      /\ \A n \in queued \ change.jobs :
             n.kind = "watcher" /\ n.status = change.to /\ n.user = u /\ n.channel = Resolve(pref[u])
      /\ u \in enabled => Told(notices \cup queued, change.to, u)
    <2>1. CASE u \in enabled
        <3>1. queued = Enqueued(JobFor("watcher", u, Resolve(pref[u])))
            BY <2>1
        <3> HIDE DEF queued
        <3> QED BY <3>1, <1>1, <1>3, <1>4, EnqueuedOK
    <2>2. CASE u \notin enabled
        <3>1. queued = change.jobs
            BY <2>2
        <3> QED BY <3>1, <2>2, <1>1, ChangeTyped DEF ChangeOK
    <2> QED BY <2>1, <2>2
<1>6. \A w \in change.throughout :
          change.facing => w \in left \/ Told(notices \cup queued, change.to, w)
    <2> SUFFICES ASSUME NEW w \in change.throughout, change.facing, w \notin left
                 PROVE  Told(notices \cup queued, change.to, w)
        OBVIOUS
    <2>1. CASE w = u
        BY <2>1, <1>3, <1>5
    <2>2. CASE w # u
        <3>1. Told(notices \cup change.jobs, change.to, w)
            BY <2>2, <1>1, ChangeTyped DEF ChangeOK
        <3>2. notices \cup change.jobs \subseteq notices \cup queued
            BY <1>5
        <3> QED BY <3>1, <3>2 DEF Told
    <2> QED BY <2>1, <2>2
<1>7. Go([change EXCEPT !.pending = left, !.jobs = queued])
    BY <1>2
<1> HIDE DEF left, queued
<1> DEFINE c == change
<1>8. [c EXCEPT !.pending = left, !.jobs = queued]
          = [c EXCEPT !.at = "each", !.jobs = queued, !.pending = left]
    <2>1. c \in Transition /\ c.at = "each"
        BY <1>1, ChangeTyped
    <2> HIDE DEF c
    <2> QED BY <2>1 DEF Transition
<1>9. Go([change EXCEPT !.at = "each", !.jobs = queued, !.pending = left])
    BY <1>7, <1>8
<1>10. \A n \in queued \ change.jobs :
           /\ n.status = change.to
           /\ n.channel \in IF n.kind = "customer" THEN {"email"} ELSE change.channels[n.user]
    BY <1>4, <1>5
<1>11. Turns("each", queued, left)
    BY <1>1, <1>3, <1>5, <1>6, <1>9, <1>10 DEF Turns
<1> QED BY <1>1, <1>11, TurnOK

LEMMA CommitTransitionOK == ASSUME NoticesInv, CommitTransition PROVE NoticesInv'
<1>1. /\ change # Quiet /\ change' = Quiet /\ status' = change.to /\ notices' = notices \cup change.jobs
      /\ UNCHANGED <<customer, rep, watchers, enabled, pref, text>>
    BY DEF CommitTransition, Quiet, setting
<1>2. change.to \in Status /\ change.jobs \subseteq Notice /\ KeysApart(notices')
    BY <1>1, ChangeTyped DEF ChangeOK
<1>3. notices' \subseteq Notice
    BY <1>1, <1>2, SettingTyped
<1>4. NoticesTypeOK'
    BY <1>1, <1>2, <1>3, SettingTyped DEF NoticesTypeOK, KeysApart
<1> QED BY <1>1, <1>4 DEF NoticesInv, ChangeOK

LEMMA AbandonTransitionOK == ASSUME NoticesInv, AbandonTransition PROVE NoticesInv'
<1>1. Go(Quiet) /\ ChangeOK'
    BY DEF AbandonTransition, Go, ChangeOK
<1> QED BY <1>1, GoOK

LEMMA NoticesInductive == NoticesSpec => []NoticesInv
<1>1. NoticesInit => NoticesInv
    BY NoticesInitOK
<1>2. NoticesInv /\ [NoticesNext]_noticeVars => NoticesInv'
    <2> SUFFICES ASSUME NoticesInv, [NoticesNext]_noticeVars PROVE NoticesInv'
        OBVIOUS
    <2>1. CASE \/ AddWatcher \/ RemoveWatcher \/ AssignRep \/ RequestDeletion \/ Deactivate
               \/ UpsertPreference \/ UpdateOverride
        BY <2>1, AddWatcherOK, RemoveWatcherOK, AssignRepOK, RequestDeletionOK, DeactivateOK,
            UpsertPreferenceOK, UpdateOverrideOK
    <2>2. CASE \/ RecordTransition \/ NotifyCustomer \/ NotifySalesRep
               \/ ReadWatchers \/ NotifyWatcher \/ CommitTransition \/ AbandonTransition
        BY <2>2, RecordTransitionOK, NotifyCustomerOK, NotifySalesRepOK, ReadWatchersOK,
            NotifyWatcherOK, CommitTransitionOK, AbandonTransitionOK
    <2>3. CASE UNCHANGED noticeVars
        BY <2>3 DEF noticeVars, setting, NoticesInv, NoticesTypeOK, ChangeOK
    <2> QED BY <2>1, <2>2, <2>3 DEF NoticesNext
<1> QED BY <1>1, <1>2, PTL DEF NoticesSpec

\* Record, users, texts, jobs and preferences stay in their types, and no two jobs have
\* one key.
THEOREM NoticesTyped == NoticesSpec => []NoticesTypeOK
<1>1. NoticesInv => NoticesTypeOK
    BY DEF NoticesInv
<1> QED BY <1>1, NoticesInductive, PTL

\* Whatever users and administrators change meanwhile, a transition that commits has told
\* each user who watched in an active account all along, then or before, and sends over
\* channels their users had meanwhile.
THEOREM NoticesAllReach == NoticesSpec => NoticesReach
<1>1. NoticesInv /\ [NoticesNext]_noticeVars =>
          [CommitTransition =>
             /\ change.facing => \A u \in change.throughout :
                    \E n \in notices' : n.kind = "watcher" /\ n.status = status' /\ n.user = u
             /\ \A n \in notices' \ notices :
                    n.channel \in (IF n.kind = "customer" THEN {"email"} ELSE change.channels[n.user])]_noticeVars
    <2> SUFFICES ASSUME NoticesInv, CommitTransition
                 PROVE  /\ change.facing => \A u \in change.throughout :
                               \E n \in notices' : n.kind = "watcher" /\ n.status = status' /\ n.user = u
                        /\ \A n \in notices' \ notices :
                               n.channel \in (IF n.kind = "customer" THEN {"email"} ELSE change.channels[n.user])
        OBVIOUS
    <2>1. /\ change # Quiet /\ change.at \in {"each", "done"} /\ change.pending = {}
          /\ status' = change.to /\ notices' = notices \cup change.jobs
        BY DEF CommitTransition, Quiet
    <2>2. ChangeOK
        BY DEF NoticesInv
    <2>3. change.facing => \A u \in change.throughout : Told(notices', status', u)
        BY <2>1, <2>2 DEF ChangeOK
    <2>4. \A n \in change.jobs :
              n.channel \in (IF n.kind = "customer" THEN {"email"} ELSE change.channels[n.user])
        BY <2>1, <2>2 DEF ChangeOK
    <2> QED BY <2>1, <2>3, <2>4 DEF Told
<1> QED BY <1>1, NoticesInductive, PTL DEF NoticesSpec, NoticesReach

HIDE NoticesAssumption

-----------------------------------------------------------------------------
(* The components beside each other                                        *)

\* A behaviour of all components is one of each.
LEMMA Separate == Spec => IntegrationsSpec /\ CustomersSpec /\ RetentionSpec /\ NoticesSpec
<1>1. Init => IntegrationsInit /\ CustomersInit /\ RetentionInit /\ NoticesInit
    BY DEF Init
<1> DEFINE allVars == <<integrationVars, customerVars, retentionVars, noticeVars>>
<1>2. [Next]_allVars => [IntegrationsNext]_integrationVars
    BY DEF Next
<1>3. [Next]_allVars => [CustomersNext]_customerVars
    BY DEF Next
<1>4. [Next]_allVars => [RetentionNext]_retentionVars
    BY DEF Next
<1>5. [Next]_allVars => [NoticesNext]_noticeVars
    BY DEF Next
<1> QED BY <1>1, <1>2, <1>3, <1>4, <1>5, PTL
        DEF Spec, IntegrationsSpec, CustomersSpec, RetentionSpec, NoticesSpec

\* The state of every component stays in its types, whichever of them acts.
THEOREM TypeCorrect == Spec => []TypeOK
<1>1. IntegrationsTypeOK /\ CustomersTypeOK /\ RetentionTypeOK /\ NoticesTypeOK => TypeOK
    BY DEF TypeOK
<1> QED BY <1>1, Separate, IntegrationsTyped, CustomersTyped, RetentionTyped, NoticesTyped, PTL
==============================================================================
