------------------------------ MODULE Customers ------------------------------
(***************************************************************************)
(* Customer rows (customer_service, admin_customer_service), the records   *)
(* submitted for them, and the exports of what a user owns                 *)
(* (data_export_service).                                                  *)
(*                                                                         *)
(* A user gets a row at first access; an administrator adds walk-ins, who  *)
(* have no user, and deletes customers with their records.  A request      *)
(* reads in one step and writes in a later one.  Contact data, invitations *)
(* and the files of an export other than its records are left out.         *)
(***************************************************************************)
EXTENDS FiniteSets

CONSTANTS
    Visit,       \* requests that run at once
    User,
    Customer, Record, Job,    \* rows, by their ids
    Errand       \* which requests occur in one behaviour

ASSUME CustomersAssumption == "none" \notin User

VARIABLES
    customers,   \* customers
    records,     \* equipment_records
    jobs,        \* data_export_jobs
    objects,     \* the zip files in object storage
    late,        \* records submitted after a deletion read those of its customer
    visit,       \* the request each of Visit runs
    errand       \* which requests occur in this behaviour

customerVars == <<customers, records, jobs, objects, late, visit, errand>>

Absent == [absent |-> TRUE]
NoVisit == [op |-> "none"]
NoUser == "none"

Stored(table) == {i \in DOMAIN table : table[i] # Absent}

CustomersTypeOK ==
    /\ customers \in [Customer -> [user : User \cup {NoUser}, deleted : BOOLEAN] \cup {Absent}]
    /\ records \in [Record -> [customer : Stored(customers), deleted : BOOLEAN] \cup {Absent}]
    /\ \A j \in Stored(jobs) : jobs[j] \in [user : User, records : SUBSET Stored(records),
                                           owed : SUBSET Stored(records)]
    /\ \A c, d \in Stored(customers) :    \* customers.user_id is unique
           customers[c].user = customers[d].user => c = d \/ customers[c].user = NoUser

CustomersInit ==
    /\ errand \in Errand
    /\ customers = [c \in Customer |-> Absent]
    /\ records = [r \in Record |-> Absent]
    /\ jobs = [j \in Job |-> Absent]
    /\ objects = {}
    /\ late = {}
    /\ visit = [v \in Visit |-> NoVisit]

-----------------------------------------------------------------------------
ProfileOf(u) == {c \in Stored(customers) : customers[c].user = u}
RecordsOf(cs) == {r \in Stored(records) : records[r].customer \in cs}

Arrive(v, t) ==
    /\ t.op \in errand
    /\ visit[v] = NoVisit
    /\ visit' = [visit EXCEPT ![v] = t]
    /\ UNCHANGED <<customers, records, jobs, objects, late, errand>>

Leave(v, op) ==
    /\ visit[v].op = op
    /\ visit' = [visit EXCEPT ![v] = NoVisit]
    /\ UNCHANGED errand

\* The row of a user who is seen first; a second insert violates the unique user.
EnsureProfile(t, c) ==
    IF t.profile # {} THEN c \in t.profile /\ UNCHANGED customers
    ELSE /\ c \in Customer \ Stored(customers)
         /\ ProfileOf(t.user) = {}
         /\ customers' = [customers EXCEPT ![c] = [user |-> t.user, deleted |-> FALSE]]

BeginAccess(v) == \E u \in User : Arrive(v, [op |-> "access", user |-> u, profile |-> ProfileOf(u)])

CommitAccess(v) ==
    /\ Leave(v, "access")
    /\ \E c \in Customer : EnsureProfile(visit[v], c)
    /\ UNCHANGED <<records, jobs, objects, late>>

\* submit_intake, whether the user's customer was deleted or not.
BeginSubmit(v) == \E u \in User : Arrive(v, [op |-> "submit", user |-> u, profile |-> ProfileOf(u)])

Deleting(c) == \E w \in Visit : visit[w].op = "delete" /\ visit[w].customer = c
IsDeleted(c) == c \in Stored(customers) /\ customers[c].deleted

CommitSubmit(v) ==
    /\ Leave(v, "submit")
    /\ \E c \in Customer, r \in Record \ Stored(records) :
           /\ EnsureProfile(visit[v], c)
           /\ records' = [records EXCEPT ![r] = [customer |-> c, deleted |-> FALSE]]
           /\ late' = IF Deleting(c) \/ IsDeleted(c) THEN late \cup {r} ELSE late
    /\ UNCHANGED <<jobs, objects>>

CreateWalkin(v) ==
    /\ "walkin" \in errand
    /\ visit[v] = NoVisit
    /\ \E c \in Customer \ Stored(customers) :
           customers' = [customers EXCEPT ![c] = [user |-> NoUser, deleted |-> FALSE]]
    /\ UNCHANGED <<records, jobs, objects, late, visit, errand>>

\* The customer and its records are read; a second deletion changes nothing.
BeginDelete(v) == \E c \in Stored(customers) :
    /\ ~customers[c].deleted
    /\ Arrive(v, [op |-> "delete", customer |-> c, records |-> RecordsOf({c})])

\* Mutant: the records stay.
CommitDeleteAlone(v) ==
    /\ Leave(v, "delete")
    /\ customers' = [customers EXCEPT ![visit[v].customer].deleted = TRUE]
    /\ UNCHANGED <<records, jobs, objects, late>>

CommitDelete(v) ==
    /\ Leave(v, "delete")
    /\ customers' = [customers EXCEPT ![visit[v].customer].deleted = TRUE]
    /\ records' = [r \in Record |-> IF r \in visit[v].records
                                    THEN [records[r] EXCEPT !.deleted = TRUE] ELSE records[r]]
    /\ UNCHANGED <<jobs, objects, late>>

-----------------------------------------------------------------------------
(* Exports                                                                 *)

\* The job is inserted, and the user's customer read.
BeginExport(v) == \E u \in User, j \in Job \ Stored(jobs) :
    /\ j \notin objects
    /\ \A w \in Visit : visit[w].op \in {"export", "gathered", "uploaded"} => visit[w].job # j
    /\ "export" \in errand
    /\ Arrive(v, [op |-> "export", job |-> j, user |-> u, profile |-> ProfileOf(u),
                  owed |-> RecordsOf(ProfileOf(u))])

\* Mutant: deleted records are not exported.
GatherLive(cs) == {r \in RecordsOf(cs) : ~records[r].deleted}

\* The records of the customer, the deleted ones as well.
Gather(cs) == RecordsOf(cs)

GatherRecords(v) ==
    /\ visit[v].op = "export"
    /\ visit' = [visit EXCEPT ![v] = [op |-> "gathered", job |-> @.job, user |-> @.user,
                                      records |-> Gather(@.profile), owed |-> @.owed]]
    /\ UNCHANGED <<customers, records, jobs, objects, late, errand>>

UploadZip(v) ==
    /\ visit[v].op = "gathered"
    /\ visit' = [visit EXCEPT ![v].op = "uploaded"]
    /\ objects' = objects \cup {visit[v].job}
    /\ UNCHANGED <<customers, records, jobs, late, errand>>

CommitExport(v) ==
    /\ Leave(v, "uploaded")
    /\ LET t == visit[v] IN
       jobs' = [jobs EXCEPT ![t.job] = [user |-> t.user, records |-> t.records, owed |-> t.owed]]
    /\ UNCHANGED <<customers, records, objects, late>>

\* A request fails: the failure that is noted on the job is rolled back with it.
Fail(v) ==
    /\ visit[v] # NoVisit
    /\ visit' = [visit EXCEPT ![v] = NoVisit]
    /\ UNCHANGED <<customers, records, jobs, objects, late, errand>>

CustomersNext == \E v \in Visit :
    \/ BeginAccess(v) \/ CommitAccess(v)
    \/ BeginSubmit(v) \/ CommitSubmit(v)
    \/ CreateWalkin(v)
    \/ BeginDelete(v) \/ CommitDelete(v)
    \/ BeginExport(v) \/ GatherRecords(v) \/ UploadZip(v) \/ CommitExport(v)
    \/ Fail(v)

CustomersSpec == CustomersInit /\ [][CustomersNext]_customerVars

-----------------------------------------------------------------------------
\* A record outlives its customer only if it was submitted after the deletion read
\* the customer's records.
CascadeReaches ==
    \A r \in Stored(records) \ late :
        customers[records[r].customer].deleted => records[r].deleted

\* An export has every record its user had when it was asked for, of no other user,
\* and the file its link leads to.
ExportFaithful ==
    \A j \in Stored(jobs) :
        /\ jobs[j].owed \subseteq jobs[j].records
        /\ \A r \in jobs[j].records : customers[records[r].customer].user = jobs[j].user
        /\ j \in objects
=============================================================================
