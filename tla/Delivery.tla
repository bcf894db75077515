------------------------------ MODULE Delivery ------------------------------
(***************************************************************************)
(* What the notification queue promises of every notification, whatever    *)
(* batches, transactions and backoffs it is made of: it is asked for once  *)
(* under its key; one worker at a time holds it; whoever holds it sends it *)
(* at most once before the answer is written down; it goes back to wait    *)
(* only while max_attempts leaves it a try; and a worker that gives up     *)
(* loses all it holds, for nobody sends those again.                       *)
(***************************************************************************)
EXTENDS Naturals

CONSTANTS Worker, Key, MaxAttempts

VARIABLES
    phase,     \* of a notification: absent, waiting, held, lost or how it ended
    holders,   \* the workers that hold it
    sent,      \* how often it was sent
    counted    \* how many of these were answered

delivery == <<phase, holders, sent, counted>>

Ends == {"delivered", "failed", "skipped"}

Init ==
    /\ phase = [k \in Key |-> "absent"]
    /\ holders = [k \in Key |-> {}]
    /\ sent = [k \in Key |-> 0]
    /\ counted = [k \in Key |-> 0]

Ask(k) ==
    /\ phase[k] = "absent"
    /\ phase' = [phase EXCEPT ![k] = "waiting"]
    /\ UNCHANGED <<holders, sent, counted>>

\* A worker takes some that wait, when it holds none.
Take(w) ==
    /\ \A k \in Key : w \notin holders[k]
    /\ \E ks \in SUBSET {k \in Key : phase[k] = "waiting"} :
        /\ ks # {}
        /\ phase' = [k \in Key |-> IF k \in ks THEN "held" ELSE phase[k]]
        /\ holders' = [k \in Key |-> IF k \in ks THEN {w} ELSE holders[k]]
    /\ UNCHANGED <<sent, counted>>

Send(w, k) ==
    /\ phase[k] = "held"
    /\ holders[k] = {w}
    /\ sent[k] = counted[k]
    /\ sent' = [sent EXCEPT ![k] = @ + 1]
    /\ UNCHANGED <<phase, holders, counted>>

Answer(w, k) ==
    /\ phase[k] = "held"
    /\ holders[k] = {w}
    /\ sent[k] = counted[k] + 1
    /\ \E end \in Ends \cup {"waiting"} :
        /\ end = "waiting" => sent[k] < MaxAttempts
        /\ phase' = [phase EXCEPT ![k] = end]
    /\ holders' = [holders EXCEPT ![k] = {}]
    /\ counted' = [counted EXCEPT ![k] = sent[k]]
    /\ UNCHANGED sent

GiveUp(w) ==
    /\ phase' = [k \in Key |-> IF w \in holders[k] THEN "lost" ELSE phase[k]]
    /\ holders' = [k \in Key |-> holders[k] \ {w}]
    /\ UNCHANGED <<sent, counted>>

Next ==
    \/ \E k \in Key : Ask(k)
    \/ \E w \in Worker : Take(w) \/ GiveUp(w) \/ \E k \in Key : Send(w, k) \/ Answer(w, k)

Spec == Init /\ [][Next]_delivery
=============================================================================
