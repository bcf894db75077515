----------------------------- MODULE MCAccount -----------------------------
(* Small instances of Account for TLC.                                     *)
EXTENDS Account

\* What cuts a session off, with and without a second factor; the second factor
\* taken on and off; the end of an account.
Sessions  == {"login", "refresh", "logout", "reset", "change"}
Resets    == {"login", "setup_2fa", "confirm_2fa", "verify_2fa", "reset"}
TwoFactor == {"login", "setup_2fa", "confirm_2fa", "verify_2fa", "recover_2fa", "disable_2fa"}
Lifecycle == {"reset", "login", "delete", "cancel", "sweep", "deactivate"}
Scenarios == {{"verify"} \cup s : s \in {Sessions, Resets, TwoFactor, Lifecycle}}
=============================================================================
