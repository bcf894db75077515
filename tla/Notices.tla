-------------------------------- MODULE Notices --------------------------------
(***************************************************************************)
(* Whom a change of a record's status tells, and how                       *)
(* (equipment_status_service, watchers_service,                            *)
(* notification_preferences_service, notification_templates,               *)
(* admin_templates).                                                       *)
(*                                                                         *)
(* record_transition runs in one transaction, each of its reads seeing     *)
(* what others committed before it; administrators and users change        *)
(* watchers, accounts, preferences and texts meanwhile.  One record and    *)
(* one transition at a time; statuses are reduced to whom they concern,    *)
(* and the denylist is in Consignment.                                     *)
(* Wording is left out: a text renders or raises.                          *)
(***************************************************************************)
EXTENDS FiniteSets

CONSTANTS
    Person,    \* users
    Status,
    Facing,    \* statuses with notifies_customer
    Working,   \* statuses with notifies_sales_rep
    Choice,    \* what users choose among
    Topic      \* what occurs in one behaviour

Pref == {"none", "sms", "sms, no number", "slack"}

ASSUME NoticesAssumption ==
    /\ "new_request" \in Status
    /\ Facing \subseteq Status /\ Working \subseteq Status
    /\ Choice \subseteq Pref \ {"none"}

VARIABLES
    status,     \* of the record
    customer,   \* its customer's user, or NoPerson
    rep,        \* its assigned_sales_rep_id, or NoPerson
    watchers,   \* equipment_record_watchers
    enabled,    \* users whose status is active
    pref,       \* notification_preferences
    text,       \* the texts of notification_templates, overridden or not
    notices,    \* notification_jobs
    change,     \* the transition that runs
    topic       \* what occurs in this behaviour

setting == <<customer, rep, watchers, enabled, pref, text>>
noticeVars == <<status, setting, notices, change, topic>>

NoPerson == "no one"
Quiet == [at |-> "quiet"]
Template == {"status", "rep email", "rep sms"}
Channel == {"email", "sms"}

\* A job; its key is its kind and status, and for a watcher the user.
Notice == [kind : {"customer", "rep", "watcher"}, status : Status, user : Person,
           channel : Channel]

NoticesTypeOK ==
    /\ status \in Status
    /\ customer \in Person \cup {NoPerson}
    /\ rep \in Person \cup {NoPerson}
    /\ watchers \subseteq Person /\ enabled \subseteq Person
    /\ pref \in [Person -> Pref]
    /\ text \in [Template -> {"renders", "raises"}]
    /\ notices \subseteq Notice
    /\ \A m, n \in notices :    \* idempotency_key is unique
           m.kind = n.kind /\ m.status = n.status /\ (m.kind = "watcher" => m.user = n.user) => m = n

NoticesInit ==
    /\ topic \in Topic
    /\ status = "new_request"
    /\ customer \in IF topic = {} THEN {NoPerson} ELSE Person \cup {NoPerson}
    /\ rep = NoPerson
    /\ watchers = {}
    /\ enabled = Person
    /\ pref = [u \in Person |-> "none"]
    /\ text = [t \in Template |-> "renders"]
    /\ notices = {}
    /\ change = Quiet

-----------------------------------------------------------------------------
(* What others do meanwhile                                                *)

\* resolve_channel: slack, and sms without a number, fall back to email.
Resolve(p) == IF p = "sms" THEN "sms" ELSE "email"

\* A running transition notes who did not watch in an active account all along, and
\* the channels each user had.
Noted(ws, es, ps) ==
    IF change = Quiet THEN Quiet
    ELSE [change EXCEPT !.throughout = @ \cap ws \cap es,
                        !.channels = [u \in Person |-> @[u] \cup {Resolve(ps[u])}]]

Meanwhile(op) == op \in topic /\ UNCHANGED <<status, customer, notices, topic>>

AddWatcher == \E u \in enabled :
    /\ watchers' = watchers \cup {u}
    /\ Meanwhile("watch") /\ UNCHANGED <<rep, enabled, pref, text, change>>

RemoveWatcher == \E u \in watchers :
    /\ watchers' = watchers \ {u}
    /\ change' = Noted(watchers', enabled, pref)
    /\ Meanwhile("unwatch") /\ UNCHANGED <<rep, enabled, pref, text>>

AssignRep == \E u \in enabled :
    /\ rep' = u
    /\ Meanwhile("assign") /\ UNCHANGED <<watchers, enabled, pref, text, change>>

\* An account whose user asks for its deletion keeps its record; one that an
\* administrator deactivates hands it to another user.
Retire(u, heir) ==
    /\ enabled' = enabled \ {u}
    /\ rep' = heir
    /\ change' = Noted(watchers, enabled', pref)
    /\ Meanwhile("deactivate") /\ UNCHANGED <<watchers, pref, text>>

RequestDeletion == \E u \in enabled : Retire(u, rep)
Deactivate == \E u \in enabled : \E heir \in IF rep = u THEN enabled \ {u} ELSE {rep} : Retire(u, heir)

UpsertPreference == \E u \in enabled, p \in Choice :
    /\ pref' = [pref EXCEPT ![u] = p]
    /\ change' = Noted(watchers, enabled, pref')
    /\ Meanwhile("prefer") /\ UNCHANGED <<rep, watchers, enabled, text>>

\* An override is stored without rendering it; deleting it restores the default.
UpdateOverride == \E t \in Template, how \in {"renders", "raises"} :
    /\ text' = [text EXCEPT ![t] = how]
    /\ Meanwhile("edit") /\ UNCHANGED <<rep, watchers, enabled, pref, change>>

-----------------------------------------------------------------------------
(* record_transition                                                       *)

Go(c) == change' = c /\ UNCHANGED <<status, setting, notices, topic>>

\* force is notify_override.
RecordTransition == \E s \in Status \ {status}, force \in {"none", "on", "off"} :
    /\ topic # {}
    /\ change = Quiet
    /\ force # "none" => "force" \in topic
    /\ Go([at |-> "customer", to |-> s, rep |-> rep, jobs |-> {}, pending |-> {},
           facing |-> force = "on" \/ (force = "none" /\ s \in Facing),
           working |-> force = "on" \/ (force = "none" /\ s \in Working),
           throughout |-> watchers \cap enabled,
           channels |-> [u \in Person |-> {Resolve(pref[u])}]])

JobFor(kind, u, channel) == [kind |-> kind, status |-> change.to, user |-> u, channel |-> channel]

\* Mutant: the key is not looked for.
EnqueuedAgain(job) == change.jobs \cup {job}

\* enqueue inserts unless the key is there.
Enqueued(job) ==
    IF \E n \in notices \cup change.jobs :
          n.kind = job.kind /\ n.status = job.status /\ (job.kind = "watcher" => n.user = job.user)
    THEN change.jobs ELSE change.jobs \cup {job}

\* A text that raises fails the request, and with it the transition.
NotifyCustomer ==
    /\ change.at = "customer"
    /\ IF change.facing /\ customer # NoPerson
       THEN /\ text["status"] = "renders"
            /\ Go([change EXCEPT !.at = "rep", !.jobs = Enqueued(JobFor("customer", customer, "email"))])
       ELSE Go([change EXCEPT !.at = "rep"])

NotifySalesRep ==
    /\ change.at = "rep"
    /\ IF change.working /\ change.rep \in enabled
       THEN LET channel == Resolve(pref[change.rep]) IN
            /\ text[IF channel = "sms" THEN "rep sms" ELSE "rep email"] = "renders"
            /\ Go([change EXCEPT !.at = "watchers", !.jobs = Enqueued(JobFor("rep", change.rep, channel))])
       ELSE Go([change EXCEPT !.at = "watchers"])

ReadWatchers ==
    /\ change.at = "watchers"
    /\ IF change.facing /\ watchers # {}
       THEN /\ text["status"] = "renders"
            /\ Go([change EXCEPT !.at = "each", !.pending = watchers])
       ELSE Go([change EXCEPT !.at = "done"])

\* Mutant: an inactive watcher ends the loop.
NotifyWatcherOrStop ==
    /\ change.at = "each"
    /\ \E u \in change.pending :
           Go([change EXCEPT
               !.pending = IF u \in enabled THEN @ \ {u} ELSE {},
               !.jobs = IF u \in enabled THEN Enqueued(JobFor("watcher", u, Resolve(pref[u]))) ELSE @])

\* One turn of the loop; an inactive watcher is skipped.
NotifyWatcher ==
    /\ change.at = "each"
    /\ \E u \in change.pending :
           Go([change EXCEPT
               !.pending = @ \ {u},
               !.jobs = IF u \in enabled THEN Enqueued(JobFor("watcher", u, Resolve(pref[u]))) ELSE @])

CommitTransition ==
    /\ change.at \in {"each", "done"}
    /\ change.pending = {}
    /\ status' = change.to
    /\ notices' = notices \cup change.jobs
    /\ change' = Quiet
    /\ UNCHANGED <<setting, topic>>

\* An error or a crash: neither the status nor a job is kept.
AbandonTransition == change # Quiet /\ Go(Quiet)

NoticesNext ==
    \/ AddWatcher \/ RemoveWatcher \/ AssignRep \/ RequestDeletion \/ Deactivate
    \/ UpsertPreference \/ UpdateOverride
    \/ RecordTransition \/ NotifyCustomer \/ NotifySalesRep
    \/ ReadWatchers \/ NotifyWatcher \/ CommitTransition \/ AbandonTransition

NoticesSpec == NoticesInit /\ [][NoticesNext]_noticeVars

-----------------------------------------------------------------------------
\* A committed transition that concerns watchers has told, by then or before, each
\* user who watched in an active account all along; every notice it sends goes over a
\* channel its user had meanwhile, and a customer's over email.
NoticesReach ==
    [][CommitTransition =>
         /\ change.facing => \A u \in change.throughout :
                \E n \in notices' : n.kind = "watcher" /\ n.status = status' /\ n.user = u
         /\ \A n \in notices' \ notices :
                n.channel \in (IF n.kind = "customer" THEN {"email"} ELSE change.channels[n.user])]_noticeVars
=============================================================================
