------------------------ MODULE MCNotificationQueue ------------------------
(* Small instances of NotificationQueue for TLC.                           *)
EXTENDS NotificationQueue, TLC

CONSTANTS k1, k2, k3

Channels == k1 :> "email" @@ k2 :> "sms" @@ k3 :> "slack"
=============================================================================
