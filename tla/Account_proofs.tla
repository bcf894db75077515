--------------------------- MODULE Account_proofs ---------------------------
(***************************************************************************)
(* Theorems of Account, for any number of requests, sessions and cut-offs. *)
(***************************************************************************)
EXTENDS Account, TLAPS

\* No cut-off came after the login began, or it was under way meanwhile.
Current(login) == login.cut = cuts \/ login.over

\* Whatever can become a session is current, and a session that a running cut-off
\* has not read belongs to a login that it overtook.
CutsOK ==
    /\ CutOffHolds
    /\ partial # None => Current(partial)
    /\ \A h \in Handler :
           /\ tx[h].op \in IssueOps => Current(tx[h].login)
           /\ tx[h].op \in CutOps => \A s \in Live \ tx[h].live : sessions[s].over

\* The account is erased or about to be.
Doomed == ~user.password \/ Expired \/ \E h \in Handler : tx[h].op = "sweep"

\* Nothing is left that could use the account.
Settled ==
    /\ ~access /\ partial = None /\ links = {} /\ Live = {}
    /\ \A h \in Handler : tx[h].op \in {"idle", "sweep"}
    /\ user.status \in {"pending_deletion", "deactivated", "deleted"}
    /\ ~user.password => user.status \in {"deactivated", "deleted"}

DoomOK == Doomed => Settled

IInv == TypeOK /\ CutsOK /\ DoomOK

-----------------------------------------------------------------------------
(* What is read off the types.                                             *)

LEMMA LoginFacts ==
    /\ NoLogin.over = TRUE
    /\ \A l \in Login : l # None /\ l.over \in BOOLEAN /\ l.cut \in 0 .. MaxCuts
BY BoundAssumption DEF NoLogin, Login, None

LEMMA OpFacts ==
    /\ Idle.op = "idle" /\ Idle.login = NoLogin /\ Idle.live = {}
    /\ "idle" \notin AllOps /\ "idle" \notin IssueOps /\ "idle" \notin CutOps
    /\ IssueOps \cap CutOps = {} /\ "sweep" \notin IssueOps /\ "sweep" \notin CutOps
    /\ IssueOps \subseteq AllOps /\ CutOps \subseteq AllOps
BY DEF Idle, AllOps, LinkOps, IssueOps, CutOps, SignedIn

LEMMA IdleType == Idle \in Tx /\ NoLogin \in Login
BY BoundAssumption DEF Idle, Tx, NoLogin, Login, AllOps, Status

LEMMA SessionFacts ==
    ASSUME TypeOK
    PROVE  /\ \A s \in Live : s \in Session /\ sessions[s] \in Login
           /\ \A s \in Session : s \in Live <=> sessions[s] # None
           /\ \A h \in Handler : tx[h] \in Tx
           /\ partial # None => partial \in Login
           /\ cuts \in Nat /\ MaxCuts \in Nat
BY BoundAssumption DEF TypeOK, Live

LEMMA InitOK == Init => IInv
<1> SUFFICES ASSUME Init PROVE IInv
    OBVIOUS
<1>1. TypeOK
    <2>1. user \in UserRow /\ user.status # "pending_deletion"
        BY DEF Init, UserRow, Status
    <2>2. cuts \in 0 .. MaxCuts /\ links \subseteq LinkOps
        BY BoundAssumption DEF Init, LinkOps
    <2> QED BY <2>1, <2>2, IdleType DEF Init, TypeOK
<1>2. Live = {} /\ partial = None
    BY DEF Init, Live
<1>3. CutsOK
    BY <1>2, OpFacts DEF Init, CutsOK, CutOffHolds
<1>4. ~Doomed
    BY OpFacts DEF Init, Doomed, Expired
<1> QED BY <1>1, <1>3, <1>4 DEF IInv, DoomOK

-----------------------------------------------------------------------------
(* Requests begin and end.                                                 *)

\* A request that ends and changes nothing but what does not matter to cut-offs.
LEMMA DoneKeepsCuts ==
    ASSUME IInv, NEW h \in Handler, Done(h), UNCHANGED <<sessions, partial, cuts>>
    PROVE  CutsOK'
<1>1. tx'[h] = Idle /\ \A k \in Handler \ {h} : tx'[k] = tx[k]
    BY DEF Done, IInv, TypeOK
<1> QED BY <1>1, OpFacts DEF IInv, CutsOK, CutOffHolds, Live, Current

LEMMA DoneType ==
    ASSUME TypeOK, NEW h \in Handler, Done(h)
    PROVE  tx' \in [Handler -> Tx]
BY IdleType DEF TypeOK, Done

\* A request that begins: it carries a current login, or has read all sessions, and
\* none but a sweep begins once the account is doomed.
LEMMA BeginOK ==
    ASSUME IInv, NEW h \in Handler, NEW op \in AllOps, NEW rows \in SUBSET Session,
           NEW login \in Login, NEW code \in Code \cup {"none"},
           Begin(h, op, rows, login, code),
           op \in IssueOps => Current(login),
           op \in CutOps => rows = Live,
           op = "sweep" => Expired,
           op # "sweep" => ~Doomed
    PROVE  IInv'
<1> DEFINE saw == CASE op = "reset" -> user.status
                    [] op \in {"login", "confirm_2fa"} -> user.totp
                    [] OTHER -> "none"
           t == [op |-> op, live |-> rows, saw |-> saw, login |-> login, code |-> code]
<1>1. /\ tx' = [tx EXCEPT ![h] = t] /\ tx[h] = Idle
      /\ UNCHANGED <<user, sessions, codes, links, access, partial, cuts, ops>>
    BY DEF Begin
<1>2. TypeOK /\ CutsOK /\ DoomOK
    BY DEF IInv
<1>3. saw \in Status \cup {"off", "setup", "on", "none"}
    BY <1>2 DEF TypeOK, UserRow
<1> HIDE DEF saw
<1>4. t \in Tx
    BY <1>3 DEF Tx
<1>5. t.op = op /\ t.live = rows /\ t.login = login
    OBVIOUS
<1> HIDE DEF t
<1>6. tx'[h] = t /\ \A k \in Handler \ {h} : tx'[k] = tx[k]
    BY <1>1, <1>2 DEF TypeOK
<1>7. TypeOK'
    BY <1>1, <1>2, <1>4 DEF TypeOK
<1>8. CutsOK'
    BY <1>1, <1>2, <1>5, <1>6 DEF CutsOK, CutOffHolds, Live, Current
<1>9. DoomOK'
    <2>1. CASE op = "sweep"
        <3>1. Settled
            BY <1>2, <2>1 DEF DoomOK, Doomed
        <3> QED BY <1>1, <1>5, <1>6, <2>1, <3>1 DEF DoomOK, Settled, Live
    <2>2. CASE op # "sweep"
        <3>1. ~Doomed'
            BY <1>1, <1>5, <1>6, <2>2 DEF Doomed, Expired
        <3> QED BY <3>1 DEF DoomOK
    <2> QED BY <2>1, <2>2
<1> QED BY <1>7, <1>8, <1>9 DEF IInv

\* An account that is doomed cannot be used.
LEMMA DoomedUnused ==
    ASSUME IInv, Doomed
    PROVE  /\ ~CurrentUser /\ user.status # "active" /\ user.status # "pending_verification"
           /\ links = {} /\ partial = None /\ Live = {}
           /\ \A h \in Handler : tx[h].op \in {"idle", "sweep"}
BY DEF IInv, DoomOK, Settled, CurrentUser

LEMMA BeginsOK ==
    ASSUME IInv, NEW h \in Handler,
           \/ BeginVerify(h) \/ BeginReset(h) \/ BeginChange(h)
           \/ BeginLogin(h) \/ BeginVerify2FA(h) \/ BeginRecover2FA(h) \/ BeginRefresh(h)
           \/ BeginConfirm2FA(h) \/ BeginDisable2FA(h)
           \/ BeginDelete(h) \/ BeginCancel(h) \/ BeginSweep(h)
    PROVE  IInv'
<1>1. Live \in SUBSET Session /\ {} \in SUBSET Session /\ NoLogin \in Login /\ TypeOK /\ CutsOK
    BY IdleType DEF Live, IInv
<1>2. /\ [cut |-> cuts, over |-> FALSE] \in Login /\ Current([cut |-> cuts, over |-> FALSE])
      /\ partial # None => partial \in Login /\ Current(partial)
      /\ \A s \in Live : s \in Session /\ sessions[s] \in Login /\ Current(sessions[s])
    BY <1>1, SessionFacts DEF TypeOK, CutsOK, CutOffHolds, Current, Login
<1>3. "none" \in Code \cup {"none"} /\ \A c \in codes : c \in Code \cup {"none"}
    BY <1>1 DEF TypeOK
<1>4. /\ \A op \in LinkOps \cup SignedIn \cup IssueOps : op \in AllOps /\ op # "sweep"
      /\ "sweep" \in AllOps /\ "sweep" \notin IssueOps /\ "sweep" \notin CutOps
    BY DEF AllOps, LinkOps, SignedIn, IssueOps, CutOps
<1>5. CASE BeginVerify(h)
    BY <1>1, <1>3, <1>4, <1>5, DoomedUnused, BeginOK DEF BeginVerify, LinkOps, IssueOps, CutOps
<1>6. CASE BeginReset(h)
    BY <1>1, <1>3, <1>4, <1>6, DoomedUnused, BeginOK DEF BeginReset, LinkOps, IssueOps
<1>7. CASE BeginChange(h)
    BY <1>1, <1>3, <1>4, <1>7, DoomedUnused, BeginOK DEF BeginChange, LinkOps, IssueOps
<1>8. CASE BeginLogin(h)
    <2>1. ~Doomed
        BY <1>8, DoomedUnused DEF BeginLogin, MayLogin
    <2> QED BY <1>1, <1>2, <1>3, <1>4, <1>8, <2>1, BeginOK DEF BeginLogin, IssueOps, CutOps
<1>9. CASE BeginVerify2FA(h)
    <2>1. ~Doomed /\ partial # None
        BY <1>9, DoomedUnused DEF BeginVerify2FA
    <2> QED BY <1>1, <1>2, <1>3, <1>4, <1>9, <2>1, BeginOK DEF BeginVerify2FA, IssueOps, CutOps
<1>10. CASE BeginRecover2FA(h)
    <2>1. ~Doomed /\ partial # None
        BY <1>10, DoomedUnused DEF BeginRecover2FA
    <2>2. PICK c \in codes : Begin(h, "recover_2fa", {}, partial, c)
        BY <1>10 DEF BeginRecover2FA
    <2> QED BY <1>1, <1>2, <1>3, <1>4, <2>1, <2>2, BeginOK DEF IssueOps, CutOps
<1>11. CASE BeginRefresh(h)
    <2>1. ~Doomed
        BY <1>11, DoomedUnused DEF BeginRefresh
    <2>2. PICK s \in Live : Begin(h, "refresh", {s}, sessions[s], "none")
        BY <1>11 DEF BeginRefresh
    <2>3. {s} \in SUBSET Session
        BY <1>2
    <2> QED BY <1>1, <1>2, <1>3, <1>4, <2>1, <2>2, <2>3, BeginOK DEF IssueOps, CutOps
<1>12. CASE BeginConfirm2FA(h)
    BY <1>1, <1>3, <1>4, <1>12, DoomedUnused, BeginOK DEF BeginConfirm2FA, SignedIn, IssueOps, CutOps
<1>13. CASE BeginDisable2FA(h)
    BY <1>1, <1>3, <1>4, <1>13, DoomedUnused, BeginOK DEF BeginDisable2FA, SignedIn, IssueOps, CutOps
<1>14. CASE BeginDelete(h)
    BY <1>1, <1>3, <1>4, <1>14, DoomedUnused, BeginOK DEF BeginDelete, SignedIn, IssueOps
<1>15. CASE BeginCancel(h)
    BY <1>1, <1>3, <1>4, <1>15, DoomedUnused, BeginOK DEF BeginCancel, SignedIn, IssueOps, CutOps
<1>16. CASE BeginSweep(h)
    BY <1>1, <1>3, <1>4, <1>16, BeginOK DEF BeginSweep
<1> QED BY <1>5, <1>6, <1>7, <1>8, <1>9, <1>10, <1>11, <1>12, <1>13, <1>14, <1>15, <1>16

-----------------------------------------------------------------------------
(* Sessions are issued and cut off.                                        *)

\* A new session is current, and overtaken if a cut-off that has not read it runs.
LEMMA IssueOK ==
    ASSUME IInv, NEW h \in Handler, tx[h].op \in IssueOps, NEW gone \in SUBSET Session,
           IssueTokens(h, gone), Done(h), UNCHANGED <<partial, cuts>>
    PROVE  /\ sessions' \in [Session -> Login \cup {None}]
           /\ CutsOK' /\ ~Doomed /\ tx' \in [Handler -> Tx] /\ access' = TRUE
<1>0. TypeOK /\ CutsOK
    BY DEF IInv
<1>1. PICK s \in Session \ ((Live \ gone) \cup UNION {tx[k].live : k \in Handler \ {h}}) :
          sessions' = [r \in Session |-> IF r = s THEN Continued(h)
                                         ELSE IF r \in gone THEN None ELSE sessions[r]]
    BY DEF IssueTokens
<1>2. tx'[h] = Idle /\ \A k \in Handler \ {h} : tx'[k] = tx[k]
    BY <1>0 DEF Done, TypeOK
<1>3. tx[h].login \in Login
    BY <1>0, SessionFacts DEF Tx
<1>4. /\ Continued(h) \in Login /\ Current(Continued(h))
      /\ Overtaken(h) => Continued(h).over
    <2>1. PICK b \in BOOLEAN : b = (tx[h].login.over \/ Overtaken(h))
        OBVIOUS
    <2>2. Continued(h) = [tx[h].login EXCEPT !.over = b]
        BY <2>1 DEF Continued
    <2>3. Continued(h) \in Login /\ Continued(h).cut = tx[h].login.cut /\ Continued(h).over = b
        BY <1>3, <2>2 DEF Login
    <2>4. Current(tx[h].login)
        BY <1>0 DEF CutsOK
    <2> QED BY <2>1, <2>3, <2>4, Zenon DEF Current
<1>5. /\ sessions' \in [Session -> Login \cup {None}]
      /\ sessions'[s] = Continued(h)
      /\ \A r \in Session \ {s} : sessions'[r] = None \/ sessions'[r] = sessions[r]
    BY <1>0, <1>1, <1>4 DEF TypeOK
<1>6. \A r \in Live' : r \in Session /\ (r = s \/ (r \in Live /\ sessions'[r] = sessions[r]))
    BY <1>5 DEF Live
<1>7. CutsOK'
    <2>1. CutOffHolds'
        BY <1>0, <1>4, <1>5, <1>6 DEF CutsOK, CutOffHolds, Current
    <2>2. ASSUME NEW k \in Handler, tx'[k].op \in CutOps, NEW r \in Live' \ tx'[k].live
          PROVE  sessions'[r].over
        <3>1. k # h /\ tx'[k] = tx[k]
            BY <1>2, <2>2, OpFacts
        <3>2. CASE r = s
            BY <1>4, <1>5, <2>2, <3>1, <3>2 DEF Overtaken
        <3>3. CASE r # s
            BY <1>0, <1>6, <2>2, <3>1, <3>3 DEF CutsOK
        <3> QED BY <3>2, <3>3
    <2>3. \A k \in Handler : (tx[k].op \in IssueOps => Current(tx[k].login))'
        BY <1>0, <1>2, OpFacts DEF CutsOK, Current
    <2>4. partial' # None => Current(partial)'
        BY <1>0 DEF CutsOK, Current
    <2> QED BY <2>1, <2>2, <2>3, <2>4 DEF CutsOK, Current
<1>8. ~Doomed
    BY DoomedUnused, OpFacts
<1> QED BY <1>0, <1>5, <1>7, <1>8, DoneType DEF IssueTokens

\* Once all sessions were revoked, whatever is left was under way meanwhile.
LEMMA RevokeOK ==
    ASSUME IInv, NEW h \in Handler, tx[h].op \in CutOps, RevokeAll(h)
    PROVE  /\ sessions' \in [Session -> Login \cup {None}] /\ partial' \in Login \cup {None}
           /\ cuts' \in 0 .. MaxCuts /\ tx' \in [Handler -> Tx]
           /\ \A k \in Handler : tx'[k].op = "idle" \/ tx'[k].op = tx[k].op
           /\ CutsOK' /\ ~Doomed
<1>0. TypeOK /\ CutsOK
    BY DEF IInv
<1>1. PICK later \in SUBSET (Live \ tx[h].live) :
          sessions' = [s \in Session |-> IF s \in tx[h].live \cup later THEN None ELSE sessions[s]]
    BY DEF RevokeAll
<1>2. cuts' \in 0 .. MaxCuts
    BY <1>0, BoundAssumption DEF RevokeAll, TypeOK
<1>3. \A k \in Handler :
          tx'[k] = IF k = h THEN Idle
                   ELSE IF tx[k].op \in IssueOps
                        THEN [tx[k] EXCEPT !.login.over = TRUE] ELSE tx[k]
    BY DEF RevokeAll
<1>4. ASSUME NEW k \in Handler
      PROVE  /\ tx'[k] \in Tx
             /\ tx'[k].op = "idle" \/ tx'[k].op = tx[k].op
             /\ tx'[k].op \in IssueOps => tx'[k].login.over = TRUE
             /\ tx'[k].op \in CutOps => k # h /\ tx'[k] = tx[k]
    <2>1. tx[k] \in Tx
        BY <1>0, SessionFacts
    <2>2. CASE k = h
        BY <1>3, <2>2, IdleType, OpFacts
    <2>3. CASE k # h /\ tx[k].op \in IssueOps
        <3>1. tx'[k] = [tx[k] EXCEPT !.login.over = TRUE]
            BY <1>3, <2>3
        <3>2. tx'[k] \in Tx /\ tx'[k].op = tx[k].op /\ tx'[k].login.over = TRUE
            BY <2>1, <3>1 DEF Tx, Login
        <3> QED BY <2>3, <3>2, OpFacts
    <2>4. CASE k # h /\ tx[k].op \notin IssueOps
        BY <1>3, <2>1, <2>4
    <2> QED BY <2>2, <2>3, <2>4
<1>5. /\ sessions' \in [Session -> Login \cup {None}]
      /\ \A s \in Live' : s \in Live \ tx[h].live /\ sessions'[s] = sessions[s]
    BY <1>0, <1>1 DEF TypeOK, Live
<1>6. /\ partial' \in Login \cup {None}
      /\ partial' # None => partial'.over = TRUE
    <2>1. CASE partial = None
        BY <2>1 DEF RevokeAll
    <2>2. CASE partial # None
        BY <1>0, <2>2, SessionFacts DEF RevokeAll, Login
    <2> QED BY <2>1, <2>2
<1>7. CutsOK'
    <2>1. CutOffHolds'
        BY <1>0, <1>5 DEF CutsOK, CutOffHolds
    <2>2. \A k \in Handler : (tx[k].op \in IssueOps => Current(tx[k].login))'
        BY <1>4 DEF Current
    <2>3. \A k \in Handler : tx'[k].op \in CutOps => \A s \in Live' \ tx'[k].live : sessions'[s].over
        BY <1>0, <1>4, <1>5 DEF CutsOK
    <2> QED BY <1>6, <2>1, <2>2, <2>3 DEF CutsOK, Current
<1>8. ~Doomed
    BY DoomedUnused, OpFacts
<1>9. tx' \in [Handler -> Tx]
    <2>1. tx' = [k \in Handler |-> tx'[k]]
        BY DEF RevokeAll
    <2> QED BY <1>4, <2>1
<1> QED BY <1>2, <1>4, <1>5, <1>6, <1>7, <1>8, <1>9

-----------------------------------------------------------------------------
(* Requests commit.                                                        *)

LEMMA CommitVerifyOK ==
    ASSUME IInv, NEW h \in Handler, CommitVerify(h)
    PROVE  IInv'
<1>1. /\ TypeOK /\ Done(h) /\ user' = [user EXCEPT !.status = "active"] /\ tx[h].op = "verify"
      /\ UNCHANGED <<sessions, codes, links, access, partial, cuts, ops>>
    BY DEF IInv, CommitVerify, Running
<1>2. user' \in UserRow /\ user'.status = "active" /\ user'.password = user.password
    BY <1>1 DEF TypeOK, UserRow, Status
<1>3. TypeOK'
    BY <1>1, <1>2, DoneType DEF TypeOK
<1>4. ~Doomed
    BY <1>1, DoomedUnused
<1>5. DoomOK'
    <2>1. \A k \in Handler : tx'[k].op # "sweep" \/ tx'[k].op = tx[k].op
        BY <1>1, OpFacts DEF Done, TypeOK
    <2> QED BY <1>2, <1>4, <2>1 DEF DoomOK, Doomed, Expired
<1> QED BY <1>1, <1>3, <1>5, DoneKeepsCuts DEF IInv

\* reset, change and delete
LEMMA CommitCutOK ==
    ASSUME IInv, NEW h \in Handler, CommitReset(h) \/ CommitChange(h) \/ CommitDelete(h)
    PROVE  IInv'
<1>1. TypeOK /\ RevokeAll(h) /\ tx[h].op \in CutOps /\ UNCHANGED <<codes, links, access, ops>>
    BY DEF IInv, CommitReset, CommitChange, CommitDelete, Running, CutOps
<1>2. /\ sessions' \in [Session -> Login \cup {None}] /\ partial' \in Login \cup {None}
      /\ cuts' \in 0 .. MaxCuts /\ tx' \in [Handler -> Tx]
      /\ \A k \in Handler : tx'[k].op = "idle" \/ tx'[k].op = tx[k].op
      /\ CutsOK' /\ ~Doomed
    BY <1>1, RevokeOK
<1>3. user.password = TRUE
    BY <1>1, <1>2 DEF Doomed, TypeOK, UserRow
<1>4. /\ user' \in UserRow /\ user'.password = TRUE
      /\ user'.status = "pending_deletion" => user'.grace # "none" /\ (Expired \/ user'.grace # "over")
    <2>1. CASE CommitReset(h)
        BY <1>1, <2>1 DEF CommitReset, TypeOK, UserRow, Status, Expired
    <2>2. CASE CommitChange(h)
        BY <1>1, <1>3, <2>2 DEF CommitChange, TypeOK, UserRow, Expired
    <2>3. CASE CommitDelete(h)
        BY <1>1, <1>3, <2>3 DEF CommitDelete, TypeOK, UserRow, Status
    <2> QED BY <2>1, <2>2, <2>3
<1>5. TypeOK'
    BY <1>1, <1>2, <1>4 DEF TypeOK
<1>6. DoomOK'
    BY <1>2, <1>4 DEF DoomOK, Doomed, Expired
<1> QED BY <1>2, <1>5, <1>6 DEF IInv

\* login, the second factor and refresh
LEMMA CommitIssueOK ==
    ASSUME IInv, NEW h \in Handler, CommitLogin(h) \/ CommitSecondFactor(h) \/ CommitRefresh(h)
    PROVE  IInv'
<1>1. /\ TypeOK /\ CutsOK /\ Done(h) /\ tx[h].op \in IssueOps /\ ~Doomed
      /\ UNCHANGED <<user, links, cuts, ops>> /\ codes' \subseteq codes
    BY DoomedUnused, OpFacts DEF IInv, CommitLogin, CommitSecondFactor, CommitRefresh, Running, IssueOps
<1>2. tx[h].live \in SUBSET Session /\ {} \in SUBSET Session /\ tx[h].login \in Login
    BY <1>1, SessionFacts DEF Tx
<1>3. DoomOK'
    <2>1. \A k \in Handler : tx'[k].op # "sweep" \/ tx'[k].op = tx[k].op
        BY <1>1, OpFacts DEF Done, TypeOK
    <2> QED BY <1>1, <2>1 DEF DoomOK, Doomed, Expired
<1>4. ASSUME NEW gone \in SUBSET Session, IssueTokens(h, gone), UNCHANGED partial
      PROVE  TypeOK' /\ CutsOK'
    BY <1>1, <1>4, IssueOK DEF TypeOK
<1>5. ASSUME CommitLogin(h), partial' = Continued(h), UNCHANGED <<sessions, access>>
      PROVE  TypeOK' /\ CutsOK'
    <2>1. PICK b \in BOOLEAN : b = (tx[h].login.over \/ Overtaken(h))
        OBVIOUS
    <2>2. partial' = [tx[h].login EXCEPT !.over = b]
        BY <1>5, <2>1 DEF Continued
    <2>3. partial' \in Login /\ partial'.cut = tx[h].login.cut /\ partial'.over = b
        BY <1>2, <2>2 DEF Login
    <2>4. Current(tx[h].login)
        BY <1>1 DEF CutsOK
    <2>5. Current(partial)'
        BY <1>1, <2>1, <2>3, <2>4, Zenon DEF Current
    <2>6. TypeOK'
        BY <1>1, <1>5, <2>3, DoneType DEF TypeOK
    <2>7. tx'[h] = Idle /\ \A k \in Handler \ {h} : tx'[k] = tx[k]
        BY <1>1 DEF Done, TypeOK
    <2>8. CutsOK'
        BY <1>1, <1>5, <2>5, <2>7, OpFacts DEF CutsOK, CutOffHolds, Live, Current
    <2> QED BY <2>6, <2>8
<1>6. TypeOK' /\ CutsOK'
    <2>1. CASE CommitLogin(h)
        BY <1>2, <1>4, <1>5, <2>1 DEF CommitLogin
    <2>2. CASE CommitSecondFactor(h)
        BY <1>2, <1>4, <2>2 DEF CommitSecondFactor
    <2>3. CASE CommitRefresh(h)
        BY <1>2, <1>4, <2>3 DEF CommitRefresh
    <2> QED BY <2>1, <2>2, <2>3
<1> QED BY <1>3, <1>6 DEF IInv

\* The second factor is confirmed or removed: recoveries in flight fail.
LEMMA CommitFactorOK ==
    ASSUME IInv, NEW h \in Handler, CommitConfirm2FA(h) \/ CommitDisable2FA(h)
    PROVE  IInv'
<1>1. /\ TypeOK /\ CutsOK /\ ~Doomed
      /\ UNCHANGED <<sessions, links, access, partial, cuts, ops>>
      /\ codes' \subseteq Code
      /\ tx' = [k \in Handler |-> IF k = h \/ Running(k, "recover_2fa") THEN Idle ELSE tx[k]]
    BY DoomedUnused DEF IInv, CommitConfirm2FA, CommitDisable2FA, Running, ReplaceCodes
<1>2. /\ user' \in UserRow /\ user'.status = user.status /\ user'.grace = user.grace
      /\ user'.password = user.password
    BY <1>1 DEF CommitConfirm2FA, CommitDisable2FA, TypeOK, UserRow
<1>3. \A k \in Handler : tx'[k] = Idle \/ tx'[k] = tx[k]
    BY <1>1
<1>4. tx' \in [Handler -> Tx]
    BY <1>1, IdleType DEF TypeOK
<1>5. TypeOK'
    BY <1>1, <1>2, <1>4 DEF TypeOK
<1>6. CutsOK'
    BY <1>1, <1>3, OpFacts DEF CutsOK, CutOffHolds, Live, Current
<1>7. DoomOK'
    BY <1>1, <1>2, <1>3, OpFacts DEF DoomOK, Doomed, Expired
<1> QED BY <1>5, <1>6, <1>7 DEF IInv

LEMMA CommitCancelOK ==
    ASSUME IInv, NEW h \in Handler, CommitCancel(h)
    PROVE  IInv'
<1>1. /\ TypeOK /\ Done(h) /\ tx[h].op = "cancel"
      /\ user' = [user EXCEPT !.status = "active", !.grace = "none"]
      /\ UNCHANGED <<sessions, codes, links, access, partial, cuts, ops>>
    BY DEF IInv, CommitCancel, Running
<1>2. user' \in UserRow /\ user'.status = "active" /\ user'.password = user.password
    BY <1>1 DEF TypeOK, UserRow, Status
<1>3. TypeOK'
    BY <1>1, <1>2, DoneType DEF TypeOK
<1>4. ~Doomed
    BY <1>1, DoomedUnused
<1>5. \A k \in Handler : tx'[k].op # "sweep" \/ tx'[k].op = tx[k].op
    BY <1>1, OpFacts DEF Done, TypeOK
<1>6. DoomOK'
    BY <1>2, <1>4, <1>5 DEF DoomOK, Doomed, Expired
<1> QED BY <1>1, <1>3, <1>6, DoneKeepsCuts DEF IInv

\* The account was settled when the sweep began.
LEMMA CommitSweepOK ==
    ASSUME IInv, NEW h \in Handler, CommitSweep(h)
    PROVE  IInv'
<1>1. /\ TypeOK /\ Done(h) /\ Settled
      /\ user' = [status |-> "deleted", password |-> FALSE, totp |-> "off", grace |-> "none"]
      /\ UNCHANGED <<sessions, codes, links, access, partial, cuts, ops>>
    BY DEF IInv, CommitSweep, Running, DoomOK, Doomed
<1>2. user' \in UserRow /\ user'.status = "deleted"
    BY <1>1 DEF UserRow, Status
<1>3. TypeOK'
    BY <1>1, <1>2, DoneType DEF TypeOK
<1>4. \A k \in Handler : tx'[k].op \in {"idle", "sweep"}
    BY <1>1, OpFacts DEF Settled, Done, TypeOK
<1>5. Settled'
    BY <1>1, <1>2, <1>4 DEF Settled, Live
<1> QED BY <1>1, <1>3, <1>5, DoneKeepsCuts DEF IInv, DoomOK

LEMMA RollbackOK ==
    ASSUME IInv, NEW h \in Handler, Rollback(h)
    PROVE  IInv'
<1>1. /\ TypeOK /\ Done(h)
      /\ UNCHANGED <<user, sessions, codes, links, access, partial, cuts, ops>>
    BY DEF IInv, Rollback
<1>2. TypeOK'
    BY <1>1, DoneType DEF TypeOK
<1>3. \A k \in Handler : tx'[k].op = "idle" \/ tx'[k].op = tx[k].op
    BY <1>1, OpFacts DEF Done, TypeOK
<1>4. DoomOK'
    BY <1>1, <1>3 DEF IInv, DoomOK, Doomed, Expired, Settled, Live
<1> QED BY <1>1, <1>2, <1>4, DoneKeepsCuts DEF IInv

-----------------------------------------------------------------------------
(* Steps that no request of these takes.                                   *)

\* Links are mailed only to an account in use, and to one that is not doomed.
LEMMA LinksOK ==
    ASSUME IInv, NEW l \in LinkOps, Mail(l) \/ LinkExpires(l)
    PROVE  IInv'
<1>1. /\ TypeOK /\ links' \subseteq LinkOps
      /\ UNCHANGED <<user, sessions, codes, access, partial, cuts, tx, ops>>
    BY DEF IInv, TypeOK, Mail, LinkExpires
<1>2. links' \subseteq links \/ ~Doomed
    <2>1. CASE LinkExpires(l)
        BY <2>1 DEF LinkExpires
    <2>2. CASE Mail(l) /\ l = "verify"
        BY <2>2, DoomedUnused DEF Mail
    <2>3. CASE Mail(l) /\ l = "reset"
        BY <2>3, DoomedUnused DEF Mail
    <2>4. CASE Mail(l) /\ l = "change"
        BY <2>4, DoomedUnused DEF Mail
    <2> QED BY <2>1, <2>2, <2>3, <2>4 DEF LinkOps
<1>3. TypeOK' /\ CutsOK'
    BY <1>1 DEF IInv, TypeOK, CutsOK, CutOffHolds, Live, Current
<1>4. DoomOK'
    BY <1>1, <1>2 DEF IInv, DoomOK, Doomed, Expired, Settled, Live
<1> QED BY <1>3, <1>4 DEF IInv

\* What held of more sessions and tokens holds of fewer.
LEMMA ExpiryOK ==
    ASSUME IInv,
           AccessExpires \/ PartialExpires \/ \E s \in Session : SessionExpires(s) \/ Logout(s)
    PROVE  IInv'
<1>1. /\ TypeOK /\ UNCHANGED <<user, codes, links, cuts, tx, ops>>
      /\ sessions' \in [Session -> Login \cup {None}]
      /\ access' \in {access, FALSE} /\ partial' \in {partial, None}
      /\ \A r \in Session : sessions'[r] = None \/ sessions'[r] = sessions[r]
    BY DEF IInv, TypeOK, SessionExpires, Logout, AccessExpires, PartialExpires
<1>2. \A r \in Live' : r \in Live /\ sessions'[r] = sessions[r]
    BY <1>1 DEF Live
<1>3. TypeOK'
    BY <1>1 DEF TypeOK
<1>4. CutsOK'
    BY <1>1, <1>2 DEF IInv, CutsOK, CutOffHolds, Current
<1>5. DoomOK'
    BY <1>1, <1>2 DEF IInv, DoomOK, Doomed, Expired, Settled
<1> QED BY <1>3, <1>4, <1>5 DEF IInv

LEMMA Setup2FAOK ==
    ASSUME IInv, Setup2FA
    PROVE  IInv'
<1>1. /\ TypeOK /\ user' = [user EXCEPT !.totp = "setup"] /\ ~Doomed
      /\ UNCHANGED <<sessions, codes, links, access, partial, cuts, tx, ops>>
    BY DoomedUnused DEF IInv, Setup2FA
<1>2. /\ user' \in UserRow /\ user'.status = user.status /\ user'.grace = user.grace
      /\ user'.password = user.password
    BY <1>1 DEF TypeOK, UserRow
<1>3. TypeOK' /\ CutsOK'
    BY <1>1, <1>2 DEF IInv, TypeOK, CutsOK, CutOffHolds, Live, Current
<1>4. DoomOK'
    BY <1>1, <1>2 DEF DoomOK, Doomed, Expired
<1> QED BY <1>3, <1>4 DEF IInv

LEMMA DeactivateOK ==
    ASSUME IInv, Deactivate
    PROVE  IInv'
<1>1. /\ TypeOK /\ user' = [user EXCEPT !.status = "deactivated"]
      /\ UNCHANGED <<sessions, codes, links, access, partial, cuts, tx, ops>>
    BY DEF IInv, Deactivate
<1>2. user' \in UserRow /\ user'.status = "deactivated" /\ user'.password = user.password
    BY <1>1 DEF TypeOK, UserRow, Status
<1>3. TypeOK' /\ CutsOK'
    BY <1>1, <1>2 DEF IInv, TypeOK, CutsOK, CutOffHolds, Live, Current
<1>4. DoomOK'
    BY <1>1, <1>2 DEF IInv, DoomOK, Doomed, Expired, Settled, Live
<1> QED BY <1>3, <1>4 DEF IInv

\* When the grace period ends, nothing that began in it is left.
LEMMA GraceEndsOK ==
    ASSUME IInv, GraceEnds
    PROVE  IInv'
<1>1. /\ TypeOK /\ Quiet /\ user.grace = "running" /\ user' = [user EXCEPT !.grace = "over"]
      /\ UNCHANGED <<sessions, codes, links, access, partial, cuts, tx, ops>>
    BY DEF IInv, GraceEnds
<1>2. /\ user' \in UserRow /\ user'.status = user.status /\ user'.grace = "over"
      /\ user'.password = user.password
    BY <1>1 DEF TypeOK, UserRow
<1>3. TypeOK' /\ CutsOK'
    BY <1>1, <1>2 DEF IInv, TypeOK, CutsOK, CutOffHolds, Live, Current
<1>4. \A h \in Handler : tx[h].op = "idle"
    BY <1>1, OpFacts DEF Quiet
<1>5. DoomOK'
    <2>1. CASE Doomed
        BY <1>1, <1>2, <2>1 DEF IInv, DoomOK, Doomed, Settled, Live
    <2>2. CASE ~Doomed /\ Expired'
        BY <1>1, <1>2, <1>4, <2>2 DEF Expired, DoomOK, Doomed, Settled, Quiet, Live
    <2>3. CASE ~Doomed /\ ~Expired'
        BY <1>1, <1>2, <2>3 DEF DoomOK, Doomed
    <2> QED BY <2>1, <2>2, <2>3
<1> QED BY <1>3, <1>5 DEF IInv

LEMMA StutterOK ==
    ASSUME IInv, UNCHANGED vars
    PROVE  IInv'
BY DEF IInv, vars, TypeOK, CutsOK, CutOffHolds, Live, Current, DoomOK, Doomed, Expired, Settled

-----------------------------------------------------------------------------
LEMMA NextOK ==
    ASSUME IInv, [Next]_vars
    PROVE  IInv'
<1>1. ASSUME NEW h \in Handler,
             \/ BeginVerify(h) \/ BeginReset(h) \/ BeginChange(h)
             \/ BeginLogin(h) \/ BeginVerify2FA(h) \/ BeginRecover2FA(h) \/ BeginRefresh(h)
             \/ BeginConfirm2FA(h) \/ BeginDisable2FA(h)
             \/ BeginDelete(h) \/ BeginCancel(h) \/ BeginSweep(h)
      PROVE  IInv'
    BY <1>1, BeginsOK
<1>2. ASSUME NEW h \in Handler, Commit(h)
      PROVE  IInv'
    BY <1>2, CommitVerifyOK, CommitCutOK, CommitIssueOK, CommitFactorOK, CommitCancelOK, CommitSweepOK
       DEF Commit
<1>3. ASSUME NEW h \in Handler, Rollback(h)
      PROVE  IInv'
    BY <1>3, RollbackOK
<1>4. ASSUME NEW l \in LinkOps, Mail(l) \/ LinkExpires(l)
      PROVE  IInv'
    BY <1>4, LinksOK
<1>5. ASSUME NEW s \in Session, SessionExpires(s) \/ Logout(s)
      PROVE  IInv'
    BY <1>5, ExpiryOK
<1>6. CASE Setup2FA \/ Deactivate \/ GraceEnds
    BY <1>6, Setup2FAOK, DeactivateOK, GraceEndsOK
<1>7. CASE AccessExpires \/ PartialExpires
    BY <1>7, ExpiryOK
<1>8. CASE UNCHANGED vars
    BY <1>8, StutterOK
<1> QED BY <1>1, <1>2, <1>3, <1>4, <1>5, <1>6, <1>7, <1>8 DEF Next

\* Only a sweep still runs, and it takes the password away.
LEMMA DoomedKeepsPassword ==
    ASSUME IInv, Doomed, ~user.password, [Next]_vars
    PROVE  ~user'.password
<1>1. /\ TypeOK /\ ~CurrentUser /\ links = {} /\ partial = None /\ Live = {}
      /\ \A h \in Handler : tx[h].op \in {"idle", "sweep"}
    BY DoomedUnused DEF IInv
<1>2. user' = user \/ user'.password = FALSE \/ user'.password = user.password
    <2>1. ASSUME NEW h \in Handler, Commit(h)
          PROVE  user'.password = FALSE
        BY <1>1, <2>1 DEF Commit, CommitVerify, CommitReset, CommitChange, CommitLogin,
           CommitSecondFactor, CommitRefresh, CommitConfirm2FA, CommitDisable2FA, CommitDelete,
           CommitCancel, CommitSweep, Running
    <2>2. CASE Setup2FA \/ Deactivate \/ GraceEnds
        BY <1>1, <2>2 DEF Setup2FA, Deactivate, GraceEnds, TypeOK, UserRow
    <2>3. ASSUME NEW h \in Handler,
                 \/ BeginVerify(h) \/ BeginReset(h) \/ BeginChange(h)
                 \/ BeginLogin(h) \/ BeginVerify2FA(h) \/ BeginRecover2FA(h) \/ BeginRefresh(h)
                 \/ BeginConfirm2FA(h) \/ BeginDisable2FA(h)
                 \/ BeginDelete(h) \/ BeginCancel(h) \/ BeginSweep(h) \/ Rollback(h)
          PROVE  user' = user
        BY <2>3 DEF BeginVerify, BeginReset, BeginChange, BeginLogin, BeginVerify2FA,
           BeginRecover2FA, BeginRefresh, BeginConfirm2FA, BeginDisable2FA, BeginDelete,
           BeginCancel, BeginSweep, Begin, Rollback
    <2>4. CASE \/ AccessExpires \/ PartialExpires \/ UNCHANGED vars
               \/ \E l \in LinkOps : Mail(l) \/ LinkExpires(l)
               \/ \E s \in Session : SessionExpires(s) \/ Logout(s)
        BY <2>4 DEF AccessExpires, PartialExpires, vars, Mail, LinkExpires, SessionExpires, Logout
    <2> QED BY <2>1, <2>2, <2>3, <2>4 DEF Next
<1> QED BY <1>2, Zenon

\* The strengthening of CutOffHolds and ErasureIsFinal that every step keeps.
THEOREM Inductive == Spec => []IInv
<1> QED BY InitOK, NextOK, PTL DEF Spec

\* Rows, tokens and requests stay in their types, and an account that waits for its
\* deletion has a date for it.
THEOREM TypeCorrect == Spec => []TypeOK
<1>1. IInv => TypeOK
    BY DEF IInv
<1> QED BY <1>1, Inductive, PTL

\* After a password reset, a new address or a deletion request no earlier login has a
\* session, but one that was under way at the same time, whatever requests overlap.
THEOREM CutOffsHold == Spec => []CutOffHolds
<1>1. IInv => CutOffHolds
    BY DEF IInv, CutsOK
<1> QED BY <1>1, Inductive, PTL

\* An erased account never gets a password or becomes usable again.
THEOREM ErasureFinal == Spec => ErasureIsFinal
<1> DEFINE Kept == Erased => Erased' /\ user'.status \in {"deleted", "deactivated"}
<1>1. ASSUME IInv, IInv', [Next]_vars
      PROVE  [Kept]_vars
    <2> SUFFICES ASSUME Erased, [Next]_vars PROVE Erased' /\ user'.status \in {"deleted", "deactivated"}
        BY <1>1
    <2>1. Doomed
        BY DEF Erased, Doomed
    <2>2. Erased'
        BY <1>1, <2>1, DoomedKeepsPassword DEF Erased
    <2>3. Settled'
        BY <1>1, <2>2 DEF IInv, DoomOK, Doomed, Erased
    <2> QED BY <2>2, <2>3 DEF Settled, Erased
<1> QED BY <1>1, Inductive, PTL DEF ErasureIsFinal, Spec
=============================================================================
