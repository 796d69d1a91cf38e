------------------------ MODULE MCNotificationPump ------------------------
(* Model values for NotificationPump: one or two threads of the vendor.    *)
EXTENDS NotificationPump

CONSTANTS w1, w2
OneThread == {w1}
TwoThreads == {w1, w2}
=============================================================================
