------------------------------ MODULE Account ------------------------------
(***************************************************************************)
(* One account of a customer: verification, login with an optional second  *)
(* factor, refresh-token sessions, password reset, change of the e-mail    *)
(* address, deactivation, and deletion with its grace period (auth_service,*)
(* session_service, account_deletion_service, fn_delete_expired_accounts). *)
(*                                                                         *)
(* A request reads the rows in its Begin step and writes in its Commit     *)
(* step; nothing locks the user's row in between, and the ORM writes only  *)
(* the columns it changed.  What the owner holds outside the database - an *)
(* access token, the partial token between the two factors, mailed links - *)
(* is signed, so no row can take it back: it is valid until it expires.    *)
(* Time is the order of those lifetimes: a request and every token but a   *)
(* session's are over long before a grace period of thirty days is.        *)
(*                                                                         *)
(* Passwords and codes are given right: every 4xx answer is a rolled back  *)
(* transaction (get_db), hence a step that changes nothing.  For the same  *)
(* reason failed_login_count and locked_until are left out: they are only  *)
(* ever written just before the 401 that undoes the write.                 *)
(***************************************************************************)
EXTENDS Naturals, FiniteSets

CONSTANTS
    Handler,    \* requests that run at once
    Session,    \* rows of user_sessions that can be live at once
    Code,       \* recovery codes
    Scenario,   \* which requests occur together in one behaviour
    MaxCuts     \* how often the sessions are cut off

LinkOps   == {"verify", "reset", "change"}
IssueOps  == {"login", "verify_2fa", "recover_2fa", "refresh"}
CutOps    == {"reset", "change", "delete"}
SignedIn  == {"setup_2fa", "confirm_2fa", "disable_2fa", "logout", "delete", "cancel"}
AllOps    == LinkOps \cup IssueOps \cup SignedIn \cup {"deactivate", "sweep"}

ASSUME ScenarioAssumption == Scenario \subseteq SUBSET AllOps
ASSUME BoundAssumption == MaxCuts \in Nat

VARIABLES
    user,      \* the users row
    sessions,  \* the live rows of user_sessions
    codes,     \* the unused rows of totp_recovery_codes
    links,     \* mailed links that have not expired
    access,    \* whether an access token is still valid
    partial,   \* the partial token between password and second factor
    cuts,      \* how often all sessions were cut off
    tx,        \* the request each handler runs
    ops        \* the scenario: the requests that occur

vars == <<user, sessions, codes, links, access, partial, cuts, tx, ops>>

Status == {"pending_verification", "active", "pending_deletion", "deactivated", "deleted"}
Usable == {"active", "pending_deletion"}

\* grace is deletion_grace_until: unset, in the future, or past.
UserRow == [status : Status, password : BOOLEAN,
            totp : {"off", "setup", "on"}, grace : {"none", "running", "over"}]

\* A login (and the sessions rotated from it) began after `cut` cuts; `over`
\* says that a later cut-off overtook it.
Login == [cut : 0..MaxCuts, over : BOOLEAN]
NoLogin == [cut |-> 0, over |-> TRUE]
None == [none |-> TRUE]

Tx == [op : AllOps \cup {"idle"}, saw : Status \cup {"off", "setup", "on", "none"}, live : SUBSET Session,
       login : Login, code : Code \cup {"none"}]
Idle == [op |-> "idle", saw |-> "none", live |-> {}, login |-> NoLogin, code |-> "none"]

\* The rows, the tokens and the requests hold values of their types; an account
\* that waits for its deletion has a date for it (request_deletion).
TypeOK ==
    /\ user \in UserRow
    /\ user.status = "pending_deletion" => user.grace # "none"
    /\ sessions \in [Session -> Login \cup {None}]
    /\ codes \subseteq Code
    /\ links \subseteq LinkOps
    /\ access \in BOOLEAN
    /\ partial \in Login \cup {None}
    /\ cuts \in 0..MaxCuts
    /\ tx \in [Handler -> Tx]
    /\ ops \in Scenario

\* register_user has inserted the row and mailed the verification link.
Init ==
    /\ user = [status |-> "pending_verification", password |-> TRUE,
               totp |-> "off", grace |-> "none"]
    /\ sessions = [s \in Session |-> None]
    /\ codes = {}
    /\ links = {"verify"}
    /\ access = FALSE
    /\ partial = None
    /\ cuts = 0
    /\ tx = [h \in Handler |-> Idle]
    /\ ops \in Scenario

-----------------------------------------------------------------------------
(* Helpers                                                                 *)

Live == {s \in Session : sessions[s] # None}

\* get_current_user: a valid access token of an account that may use it.
CurrentUser == access /\ user.status \in Usable

\* The request starts and remembers what it will need of the user's row, the
\* sessions and the login it read.
Begin(h, op, rows, login, code) ==
    /\ op \in ops
    /\ tx[h] = Idle
    /\ tx' = [tx EXCEPT ![h] = [op |-> op, live |-> rows,
                                saw |-> CASE op = "reset" -> user.status
                                          [] op \in {"login", "confirm_2fa"} -> user.totp
                                          [] OTHER -> "none",
                                login |-> login, code |-> code]]
    /\ UNCHANGED <<user, sessions, codes, links, access, partial, cuts, ops>>

Running(h, op) == tx[h].op = op
Done(h) == tx' = [tx EXCEPT ![h] = Idle]

\* A login under way while a request cuts the sessions off is overtaken by it.
Overtaken(h) == \E k \in Handler \ {h} : tx[k].op \in CutOps
Continued(h) == [tx[h].login EXCEPT !.over = @ \/ Overtaken(h)]

\* issue_refresh_token and create_access_token, for a row that no request refers
\* to; the rows `gone` are revoked with it.
IssueTokens(h, gone) ==
    /\ \E s \in Session \ ((Live \ gone) \cup UNION {tx[k].live : k \in Handler \ {h}}) :
           sessions' = [r \in Session |-> IF r = s THEN Continued(h)
                                          ELSE IF r \in gone THEN None ELSE sessions[r]]
    /\ access' = TRUE

\* Mutant: the sessions are left alone.
RevokeNone(h) ==
    /\ cuts < MaxCuts
    /\ cuts' = cuts + 1
    /\ Done(h)
    /\ UNCHANGED <<sessions, partial>>

\* revoke_all_for_user, and the UPDATE of request_deletion: it reads the sessions
\* at some time during the request.  Logins under way are overtaken.
RevokeAll(h) ==
    /\ cuts < MaxCuts
    /\ cuts' = cuts + 1
    /\ \E later \in SUBSET (Live \ tx[h].live) :
           sessions' = [s \in Session |-> IF s \in tx[h].live \cup later THEN None ELSE sessions[s]]
    /\ tx' = [k \in Handler |-> IF k = h THEN Idle
                                ELSE IF tx[k].op \in IssueOps
                                     THEN [tx[k] EXCEPT !.login.over = TRUE] ELSE tx[k]]
    /\ partial' = IF partial = None THEN None ELSE [partial EXCEPT !.over = TRUE]

-----------------------------------------------------------------------------
(* Links: verification, password reset, change of address                  *)

\* resend_verification, request_password_reset, initiate_email_change: mail a link.
Mail(l) ==
    /\ l \in ops
    /\ CASE l = "verify" -> user.status = "pending_verification"
         [] l = "reset"  -> user.status \in {"active", "pending_verification"}
         [] l = "change" -> CurrentUser /\ user.password
    /\ links' = links \cup {l}
    /\ UNCHANGED <<user, sessions, codes, access, partial, cuts, tx, ops>>

\* verify_email: only an account that waits for it.
BeginVerify(h) ==
    /\ "verify" \in links
    /\ user.status = "pending_verification"
    /\ Begin(h, "verify", {}, NoLogin, "none")

CommitVerify(h) ==
    /\ Running(h, "verify")
    /\ user' = [user EXCEPT !.status = "active"]
    /\ Done(h)
    /\ UNCHANGED <<sessions, codes, links, access, partial, cuts, ops>>

\* confirm_password_reset asks for the link only, whatever the account's status;
\* it proves the address, too.
BeginReset(h) ==
    /\ "reset" \in links
    /\ Begin(h, "reset", Live, NoLogin, "none")

CommitReset(h) ==
    /\ Running(h, "reset")
    /\ user' = [user EXCEPT !.password = TRUE,
                            !.status = IF tx[h].saw = "pending_verification"
                                       THEN "active" ELSE @]
    /\ RevokeAll(h)
    /\ UNCHANGED <<codes, links, access, ops>>

\* confirm_email_change
BeginChange(h) ==
    /\ "change" \in links
    /\ Begin(h, "change", Live, NoLogin, "none")

CommitChange(h) ==
    /\ Running(h, "change")
    /\ RevokeAll(h)
    /\ UNCHANGED <<user, codes, links, access, ops>>

-----------------------------------------------------------------------------
(* Login, second factor, refresh, logout                                   *)

\* Mutant: an account that waits for its deletion may log in.
MayLoginPending(u) == u.status \in {"active", "pending_deletion"} /\ u.password

\* login, and refresh_access_token once the token is found, want an active account.
MayLogin(u) == u.status = "active" /\ u.password

BeginLogin(h) ==
    /\ MayLogin(user)
    /\ Begin(h, "login", {}, [cut |-> cuts, over |-> FALSE], "none")

\* With a second factor the answer is only a partial token.
CommitLogin(h) ==
    /\ Running(h, "login")
    /\ \/ /\ tx[h].saw = "on"
          /\ partial' = Continued(h)
          /\ UNCHANGED <<sessions, access>>
       \/ /\ tx[h].saw # "on"
          /\ IssueTokens(h, {})
          /\ UNCHANGED partial
    /\ Done(h)
    /\ UNCHANGED <<user, codes, links, cuts, ops>>

\* verify_2fa and recover_2fa do not look at the account's status again.
BeginVerify2FA(h) ==
    /\ partial # None
    /\ user.totp = "on"
    /\ Begin(h, "verify_2fa", {}, partial, "none")

BeginRecover2FA(h) ==
    /\ partial # None
    /\ \E c \in codes : Begin(h, "recover_2fa", {}, partial, c)

\* _complete_2fa_login; a recovery code is marked used.
CommitSecondFactor(h) ==
    /\ tx[h].op \in {"verify_2fa", "recover_2fa"}
    /\ IssueTokens(h, {})
    /\ codes' = codes \ {tx[h].code}
    /\ Done(h)
    /\ UNCHANGED <<user, links, partial, cuts, ops>>

\* validate_and_rotate and the check of the account in refresh_access_token.
BeginRefresh(h) ==
    /\ user.status = "active"
    /\ \E s \in Live : Begin(h, "refresh", {s}, sessions[s], "none")

CommitRefresh(h) ==
    /\ Running(h, "refresh")
    /\ IssueTokens(h, tx[h].live)
    /\ Done(h)
    /\ UNCHANGED <<user, codes, links, partial, cuts, ops>>

\* logout: revoke_token.  What it read cannot be stale in a way that matters.
Logout(s) ==
    /\ "logout" \in ops
    /\ CurrentUser
    /\ s \in Live
    /\ sessions' = [sessions EXCEPT ![s] = None]
    /\ UNCHANGED <<user, codes, links, access, partial, cuts, tx, ops>>

-----------------------------------------------------------------------------
(* Setting up and removing the second factor                               *)

\* setup_2fa stores a new secret; if a confirmation overtakes it the factor is on.
Setup2FA ==
    /\ "setup_2fa" \in ops
    /\ CurrentUser
    /\ user.totp # "on"
    /\ user' = [user EXCEPT !.totp = "setup"]
    /\ UNCHANGED <<sessions, codes, links, access, partial, cuts, tx, ops>>

\* confirm_2fa: a second confirmation of a factor in use only renews the codes.
BeginConfirm2FA(h) ==
    /\ CurrentUser
    /\ user.totp # "off"
    /\ user.password
    /\ Begin(h, "confirm_2fa", {}, NoLogin, "none")

\* The rows of the old codes go: a recovery in flight updates no row and fails.
ReplaceCodes(h, new) ==
    /\ codes' = new
    /\ tx' = [k \in Handler |-> IF k = h \/ Running(k, "recover_2fa") THEN Idle ELSE tx[k]]

CommitConfirm2FA(h) ==
    /\ Running(h, "confirm_2fa")
    /\ user' = [user EXCEPT !.totp = IF tx[h].saw = "on" THEN @ ELSE "on"]
    /\ ReplaceCodes(h, Code)
    /\ UNCHANGED <<sessions, links, access, partial, cuts, ops>>

BeginDisable2FA(h) ==
    /\ CurrentUser
    /\ user.totp = "on"
    /\ user.password
    /\ Begin(h, "disable_2fa", {}, NoLogin, "none")

CommitDisable2FA(h) ==
    /\ Running(h, "disable_2fa")
    /\ user' = [user EXCEPT !.totp = "off"]
    /\ ReplaceCodes(h, {})
    /\ UNCHANGED <<sessions, links, access, partial, cuts, ops>>

-----------------------------------------------------------------------------
(* Deletion and deactivation                                               *)

\* request_deletion; a running grace period is kept (no step).
BeginDelete(h) ==
    /\ CurrentUser
    /\ ~(user.status = "pending_deletion" /\ user.grace # "none")
    /\ Begin(h, "delete", Live, NoLogin, "none")

\* Mutant: the end of the grace period is not stored.
CommitDeleteNoGrace(h) ==
    /\ Running(h, "delete")
    /\ user' = [user EXCEPT !.status = "pending_deletion"]
    /\ RevokeAll(h)
    /\ UNCHANGED <<codes, links, access, ops>>

CommitDelete(h) ==
    /\ Running(h, "delete")
    /\ user' = [user EXCEPT !.status = "pending_deletion", !.grace = "running"]
    /\ RevokeAll(h)
    /\ UNCHANGED <<codes, links, access, ops>>

\* cancel_deletion
BeginCancel(h) ==
    /\ CurrentUser
    /\ user.status = "pending_deletion"
    /\ Begin(h, "cancel", {}, NoLogin, "none")

CommitCancel(h) ==
    /\ Running(h, "cancel")
    /\ user' = [user EXCEPT !.status = "active", !.grace = "none"]
    /\ Done(h)
    /\ UNCHANGED <<sessions, codes, links, access, partial, cuts, ops>>

\* deactivate_user, its effect on the account.  It overwrites whatever there is.
Deactivate ==
    /\ "deactivate" \in ops
    /\ user.status # "deactivated"
    /\ user' = [user EXCEPT !.status = "deactivated"]
    /\ UNCHANGED <<sessions, codes, links, access, partial, cuts, tx, ops>>

\* fn_delete_expired_accounts selects the accounts whose grace period is over...
Expired == user.status = "pending_deletion" /\ user.grace = "over"

BeginSweep(h) ==
    /\ Expired
    /\ Begin(h, "sweep", {}, NoLogin, "none")

\* ... and scrubs each by its id, without looking again.
CommitSweep(h) ==
    /\ Running(h, "sweep")
    /\ user' = [status |-> "deleted", password |-> FALSE, totp |-> "off", grace |-> "none"]
    /\ Done(h)
    /\ UNCHANGED <<sessions, codes, links, access, partial, cuts, ops>>

-----------------------------------------------------------------------------
(* Time, and the specification                                             *)

AccessExpires ==
    /\ access
    /\ access' = FALSE
    /\ UNCHANGED <<user, sessions, codes, links, partial, cuts, tx, ops>>

PartialExpires ==
    /\ partial # None
    /\ partial' = None
    /\ UNCHANGED <<user, sessions, codes, links, access, cuts, tx, ops>>

LinkExpires(l) ==
    /\ l \in links
    /\ links' = links \ {l}
    /\ UNCHANGED <<user, sessions, codes, access, partial, cuts, tx, ops>>

SessionExpires(s) ==
    /\ s \in Live
    /\ sessions' = [sessions EXCEPT ![s] = None]
    /\ UNCHANGED <<user, codes, links, access, partial, cuts, tx, ops>>

\* Thirty days outlive requests (seconds), tokens (15 and 5 minutes), links (a day)
\* and session rows (a week): none of what there was when they began is left.
Quiet == ~access /\ partial = None /\ links = {} /\ Live = {} /\ \A h \in Handler : tx[h] = Idle

GraceEnds ==
    /\ user.grace = "running"
    /\ Quiet
    /\ user' = [user EXCEPT !.grace = "over"]
    /\ UNCHANGED <<sessions, codes, links, access, partial, cuts, tx, ops>>

\* The process or its database connection is lost, or a statement fails.
Rollback(h) ==
    /\ tx[h] # Idle
    /\ Done(h)
    /\ UNCHANGED <<user, sessions, codes, links, access, partial, cuts, ops>>

Commit(h) ==
    \/ CommitVerify(h) \/ CommitReset(h) \/ CommitChange(h)
    \/ CommitLogin(h) \/ CommitSecondFactor(h) \/ CommitRefresh(h)
    \/ CommitConfirm2FA(h) \/ CommitDisable2FA(h)
    \/ CommitDelete(h) \/ CommitCancel(h) \/ CommitSweep(h)

Next ==
    \/ \E h \in Handler :
           \/ BeginVerify(h) \/ BeginReset(h) \/ BeginChange(h)
           \/ BeginLogin(h) \/ BeginVerify2FA(h) \/ BeginRecover2FA(h)
           \/ BeginRefresh(h)
           \/ BeginConfirm2FA(h) \/ BeginDisable2FA(h)
           \/ BeginDelete(h) \/ BeginCancel(h) \/ BeginSweep(h)
           \/ Commit(h) \/ Rollback(h)
    \/ \E l \in LinkOps : Mail(l) \/ LinkExpires(l)
    \/ \E s \in Session : SessionExpires(s) \/ Logout(s)
    \/ Setup2FA \/ Deactivate
    \/ AccessExpires \/ PartialExpires \/ GraceEnds

\* Tokens expire, requests end, and the retention sweeper runs every hour and
\* gets through at last.
Fairness ==
    /\ \A h \in Handler : WF_vars(Commit(h) \/ Rollback(h)) /\ SF_vars(CommitSweep(h))
    /\ WF_vars(\E h \in Handler : BeginSweep(h))
    /\ \A l \in LinkOps : WF_vars(LinkExpires(l))
    /\ \A s \in Session : WF_vars(SessionExpires(s))
    /\ WF_vars(AccessExpires) /\ WF_vars(PartialExpires) /\ SF_vars(GraceEnds)

Spec == Init /\ [][Next]_vars
FairSpec == Spec /\ Fairness

-----------------------------------------------------------------------------
(* Properties                                                              *)

\* A password reset, a new address and a deletion request cut off every login
\* before them (revoke_all_for_user): a session lives on, through any number of
\* rotations, only if its login or a rotation was under way at the same time.
CutOffHolds == \A s \in Live : sessions[s].cut = cuts \/ sessions[s].over

\* Erased personal data stays erased (fn_delete_expired_accounts): no reset link,
\* cancellation or verification that was begun earlier makes the account usable
\* again or gives it a password.
Erased == ~user.password
ErasureIsFinal == [][Erased => Erased' /\ user'.status \in {"deleted", "deactivated"}]_vars

\* A deletion that was asked for takes place, unless the owner cancels it or an
\* administrator deactivates the account instead.
ErasureHappens == user.status = "pending_deletion" ~> user.status # "pending_deletion"
=============================================================================
