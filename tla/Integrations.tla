---------------------------- MODULE Integrations ----------------------------
(***************************************************************************)
(* The credentials of external services that administrators store and test *)
(* (admin_credentials_service, credentials_vault, integration_testers),    *)
(* and the health passes that probe every service and alert administrators *)
(* of an outage (health_check_service, health_poller, admin_health).       *)
(*                                                                         *)
(* A request or pass reads in one step and writes in a later one.  The ORM *)
(* writes only the columns whose value differs from the one it read.  A    *)
(* pass is one transaction: a row it wrote stays locked until it commits,  *)
(* and every pass writes the same row first.                               *)
(*                                                                         *)
(* Services whose provider is a stub, latencies, details, audit rows and   *)
(* the step-up that reveals a secret are left out.                         *)
(***************************************************************************)
EXTENDS Integers, Sequences, FiniteSets

CONSTANTS
    Admin,        \* administrators' requests that run at once
    Pass,         \* health passes that run at once
    Integration,  \* services probed with a stored credential
    Parsed,       \* those whose credential is parsed as JSON
    Secret, Good, Malformed,    \* credentials; those a provider accepts; JSON, but no object
    Order,        \* the services, in the order a pass probes them
    Cooldown,     \* _ALERT_COOLDOWN
    MaxTime,      \* bound of the clock
    Load          \* what occurs in one behaviour

IntegrationOps == {"store", "test", "drop_key", "poll", "refresh", "outage"}
Service == {Order[n] : n \in DOMAIN Order}

ASSUME IntegrationsAssumption ==
    /\ Parsed \subseteq Integration /\ Integration \subseteq Service
    /\ Good \subseteq Secret /\ Malformed \subseteq Secret \ Good
    /\ Order \in Seq(Service) /\ Order # <<>>
    /\ Order[1] = "database" /\ "database" \notin Integration
    /\ \A i, j \in DOMAIN Order : Order[i] = Order[j] => i = j
    /\ Cooldown \in Nat \ {0} /\ MaxTime \in Nat

VARIABLES
    creds,    \* integration_credentials
    health,   \* service_health_state
    down,     \* the services that are out
    time,
    request,  \* the request each of Admin runs
    pass,     \* the health pass each of Pass runs
    sent,     \* the last two alerts queued, of each service
    mixed,    \* integrations tested and stored at once
    load      \* what occurs in this behaviour

integrationVars == <<creds, health, down, time, request, pass, sent, mixed, load>>

NotSet == [unset |-> TRUE]
Waiting == [op |-> "waiting"]
Never == -1
Badge == {"none", "success", "failure"}
Health == {"green", "red", "unknown"}

\* of is the secret whose test gave the badge; it is no column.
Credential == [secret : Secret, readable : BOOLEAN, badge : Badge, of : Secret]

\* since is when the status was written; it is no column.
HealthRow == [status : Health, alerted : Never .. MaxTime, since : 0 .. MaxTime]

\* Set rows of a table.
SetRows(table) == {s \in DOMAIN table : table[s] # NotSet}

IntegrationsTypeOK ==
    /\ creds \in [Integration -> Credential \cup {NotSet}]
    /\ health \in [Service -> HealthRow \cup {NotSet}]
    /\ down \subseteq Service
    /\ time \in 0 .. MaxTime
    /\ \A p \in Pass : pass[p] # Waiting =>
           /\ pass[p].at \in 1 .. Len(Order) + 1
           /\ DOMAIN pass[p].wrote = {Order[n] : n \in 1 .. pass[p].at - 1}
           /\ pass[p].alerts \subseteq DOMAIN pass[p].wrote
    /\ \A s \in Service : \A n \in DOMAIN sent[s] : sent[s][n].at <= time

IntegrationsInit ==
    /\ load \in Load
    /\ creds = [i \in Integration |-> NotSet]
    /\ health = [s \in Service |-> NotSet]
    /\ down = {}
    /\ time = 0
    /\ request = [h \in Admin |-> Waiting]
    /\ pass = [p \in Pass |-> Waiting]
    /\ sent = [s \in Service |-> <<>>]
    /\ mixed = {}

-----------------------------------------------------------------------------
(* Requests of administrators                                              *)

RequestFrame == UNCHANGED <<health, down, time, pass, sent, load>>

\* The row is read; a test also reads the secret it decrypts.
Ask(h, r) ==
    /\ r.op \in load
    /\ request[h] = Waiting
    /\ request' = [request EXCEPT ![h] = r]
    /\ UNCHANGED <<creds, mixed>> /\ RequestFrame

BeginStore(h) == \E i \in Integration, secret \in Secret :
    Ask(h, [op |-> "store", name |-> i, secret |-> secret, row |-> creds[i]])

\* Some request of the other kind runs on the same integration.
Crossing(h, op) == \E k \in Admin \ {h} : request[k].op = op /\ request[k].name = request[h].name
Mixed(h, other) == IF Crossing(h, other) THEN mixed \cup {request[h].name}
                   ELSE mixed

Answer(h, op) ==
    /\ request[h].op = op
    /\ request' = [request EXCEPT ![h] = Waiting]
    /\ RequestFrame

\* Mutant: the result of the last test is kept.
CommitStoreKeepingBadge(h) ==
    /\ Answer(h, "store")
    /\ LET r == request[h] IN
       /\ r.row = NotSet => creds[r.name] = NotSet
       /\ creds' = [creds EXCEPT ![r.name] =
              [secret |-> r.secret, readable |-> TRUE,
               badge |-> IF creds[r.name] = NotSet THEN "none" ELSE creds[r.name].badge,
               of |-> IF creds[r.name] = NotSet THEN r.secret ELSE creds[r.name].of]]
       /\ mixed' = Mixed(h, "test")

\* The second of two first saves violates the unique name.  The ciphertext always
\* differs; the badge is written only if the one read differs from none.
CommitStore(h) ==
    /\ Answer(h, "store")
    /\ LET r == request[h]
           fresh == [secret |-> r.secret, readable |-> TRUE, badge |-> "none", of |-> r.secret] IN
       /\ r.row = NotSet => creds[r.name] = NotSet
       /\ creds' = [creds EXCEPT ![r.name] =
              IF r.row = NotSet \/ r.row.badge # "none" THEN fresh
              ELSE [fresh EXCEPT !.badge = creds[r.name].badge, !.of = creds[r.name].of]]
       /\ mixed' = Mixed(h, "test")

BeginTest(h) == \E i \in SetRows(creds) :
    /\ creds[i].readable
    /\ Ask(h, [op |-> "test", name |-> i, row |-> creds[i]])

\* The tester of a parsed integration raises on JSON that is no object.
Raises(i, secret) == i \in Parsed /\ secret \in Malformed

\* What a tester that does not raise reports.
Accepted(i, secret) == secret \in Good /\ i \notin down

CommitTest(h) ==
    /\ Answer(h, "test")
    /\ LET r == request[h]
           result == IF Accepted(r.name, r.row.secret) THEN "success" ELSE "failure"
           badge == IF result = r.row.badge THEN creds[r.name].badge ELSE result IN
       /\ ~Raises(r.name, r.row.secret)
       /\ creds' = [creds EXCEPT ![r.name].badge = badge,
                                 ![r.name].of = IF badge = result THEN r.row.secret ELSE @]
       /\ mixed' = Mixed(h, "store")

\* An exception or a crash rolls the request back.
AbandonRequest(h) ==
    /\ request[h] # Waiting
    /\ request' = [request EXCEPT ![h] = Waiting]
    /\ UNCHANGED <<creds, mixed>> /\ RequestFrame

\* A key leaves the rotation before what it encrypted was saved again.
DropKey ==
    /\ "drop_key" \in load
    /\ creds' = [i \in Integration |-> IF creds[i] = NotSet THEN NotSet
                                       ELSE [creds[i] EXCEPT !.readable = FALSE]]
    /\ UNCHANGED <<health, down, time, request, pass, sent, mixed, load>>

-----------------------------------------------------------------------------
(* Health passes                                                           *)

PassFrame == UNCHANGED <<creds, down, time, request, mixed, load>>

StartPass(p, op, seen) ==
    /\ op \in load
    /\ pass[p] = Waiting
    /\ pass' = [pass EXCEPT ![p] =
           [op |-> op, at |-> 1, seen |-> seen, probe |-> "none", wrote |-> <<>>,
            alerts |-> {}, old |-> FALSE]]
    /\ UNCHANGED <<health, sent>> /\ PassFrame

BeginPoll(p) == StartPass(p, "poll", <<>>)

\* The administrator's refresh first lists the rows, and the session keeps them.
BeginRefresh(p) == StartPass(p, "refresh", [s \in SetRows(health) |-> health[s]])

\* What the probe of a service reports.  The database is never reported out: its
\* failure fails the pass that would say so.
Probed(s) ==
    CASE s \notin Integration -> IF s \in down THEN "red" ELSE "green"
      [] s \in Integration /\ creds[s] = NotSet -> "unknown"
      [] OTHER -> IF creds[s].readable /\ Accepted(s, creds[s].secret) THEN "green" ELSE "red"

ProbeRaises(s) == s \in SetRows(creds) /\ creds[s].readable /\ Raises(s, creds[s].secret)

\* A service is probed, and its row read unless the session has it.
ProbeService(p) ==
    /\ pass[p] # Waiting
    /\ pass[p].at <= Len(Order)
    /\ pass[p].probe = "none"
    /\ LET s == Order[pass[p].at] IN
       /\ ~ProbeRaises(s)
       /\ pass' = [pass EXCEPT ![p].probe = Probed(s),
                               ![p].seen = IF s \in DOMAIN @ THEN @
                                           ELSE [x \in DOMAIN @ \cup {s} |-> IF x = s THEN health[s] ELSE @[x]]]
    /\ UNCHANGED <<health, sent>> /\ PassFrame

\* Mutant: the row is written without waiting for the other pass.
NeverLocked(p, s) == FALSE

\* Another pass holds the lock of the row.
RowLocked(p, s) == \E q \in Pass \ {p} : pass[q] # Waiting /\ s \in DOMAIN pass[q].wrote

\* _maybe_dispatch_alert, on the row the session has.
Alerts(seen, probe) ==
    /\ probe = "red"
    /\ seen # NotSet =>
           /\ seen.status # "red"
           /\ seen.alerted # Never => time - seen.alerted >= Cooldown

\* _upsert_state waits for the lock, inserts or writes what changed, and the alert
\* is queued.  The insert of a row that has appeared since fails.
UpsertState(p) ==
    /\ pass[p] # Waiting
    /\ pass[p].probe # "none"
    /\ LET s == Order[pass[p].at]
           seen == pass[p].seen[s]
           probe == pass[p].probe
           alert == Alerts(seen, probe)
           row == IF seen = NotSet THEN [status |-> probe, alerted |-> Never, since |-> time]
                  ELSE IF probe = seen.status THEN health[s]
                  ELSE [health[s] EXCEPT !.status = probe,
                                         !.since = IF health[s].status = probe THEN @ ELSE time] IN
       /\ ~RowLocked(p, s)
       /\ seen = NotSet => health[s] = NotSet
       /\ pass' = [pass EXCEPT
              ![p].at = @ + 1, ![p].probe = "none",
              ![p].wrote = [x \in DOMAIN @ \cup {s} |->
                  IF x # s THEN @[x] ELSE IF alert THEN [row EXCEPT !.alerted = time] ELSE row],
              ![p].alerts = IF alert THEN @ \cup {s} ELSE @]
    /\ UNCHANGED <<health, sent>> /\ PassFrame

LastTwo(alerts) == IF Len(alerts) > 2 THEN Tail(alerts) ELSE alerts

\* The pass commits; what refreshes listed before is old now.
CommitPass(p) ==
    /\ pass[p] # Waiting
    /\ pass[p].at > Len(Order)
    /\ health' = pass[p].wrote
    /\ sent' = [s \in Service |->
           IF s \in pass[p].alerts
           THEN LastTwo(Append(sent[s], [at |-> pass[p].wrote[s].alerted, old |-> pass[p].old]))
           ELSE sent[s]]
    /\ pass' = [q \in Pass |-> IF q = p THEN Waiting
                               ELSE IF pass[q].op = "refresh" THEN [pass[q] EXCEPT !.old = TRUE]
                               ELSE pass[q]]
    /\ PassFrame

\* An exception or a crash: nothing of the pass is recorded.
AbandonPass(p) ==
    /\ pass[p] # Waiting
    /\ pass' = [pass EXCEPT ![p] = Waiting]
    /\ UNCHANGED <<health, sent>> /\ PassFrame

-----------------------------------------------------------------------------
(* The world                                                               *)

Outage == /\ "outage" \in load
          /\ \E s \in Service \ {"database"} : down' = IF s \in down THEN down \ {s} ELSE down \cup {s}
          /\ UNCHANGED <<creds, health, time, request, pass, sent, mixed, load>>

Tick == /\ "outage" \in load
        /\ time < MaxTime
        /\ time' = time + 1
        /\ UNCHANGED <<creds, health, down, request, pass, sent, mixed, load>>

IntegrationsNext ==
    \/ \E h \in Admin : \/ BeginStore(h) \/ CommitStore(h)
                        \/ BeginTest(h) \/ CommitTest(h)
                        \/ AbandonRequest(h)
    \/ DropKey
    \/ \E p \in Pass : \/ BeginPoll(p) \/ BeginRefresh(p)
                       \/ ProbeService(p) \/ UpsertState(p)
                       \/ CommitPass(p) \/ AbandonPass(p)
    \/ Outage \/ Tick

IntegrationsSpec == IntegrationsInit /\ [][IntegrationsNext]_integrationVars

-----------------------------------------------------------------------------
\* A badge comes from a test of the secret that is stored, unless one test and one
\* save of the integration ran at once.
BadgeTruthful ==
    \A i \in SetRows(creds) \ mixed :
        creds[i].badge # "none" => creds[i].of = creds[i].secret

\* Two alerts of a service are a cooldown apart however passes overlap, unless the
\* later is sent by a refresh that listed the rows before another pass committed.
AlertsApart ==
    \A s \in Service : \A m, n \in DOMAIN sent[s] :
        m < n /\ ~sent[s][n].old => sent[s][n].at - sent[s][m].at >= Cooldown

\* A service that is red was alerted of when it turned red, or less than a cooldown
\* before.
RedIsAlerted ==
    \A s \in SetRows(health) :
        health[s].status = "red" =>
            /\ health[s].alerted # Never
            /\ health[s].since - health[s].alerted < Cooldown
            /\ \E n \in DOMAIN sent[s] : sent[s][n].at = health[s].alerted

\* An alert is queued for every outage that a pass recorded, and none twice within the
\* cooldown (_maybe_dispatch_alert); whether the queue can deliver it is another matter.
AlertsRight == AlertsApart /\ RedIsAlerted
=============================================================================
