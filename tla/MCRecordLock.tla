---------------------------- MODULE MCRecordLock ----------------------------
(* Small instances of RecordLock for TLC.                                  *)
EXTENDS RecordLock, TLC

CONSTANTS u1, u2, t1, t2, t3

\* A tab each, and a second tab for the first user.
OneTabEach == t1 :> u1 @@ t2 :> u2
TwoTabs    == OneTabEach @@ t3 :> u1

\* Somebody waits for the record.
Waiting == {"acquire", "heartbeat", "release"}
=============================================================================
