------------------------ MODULE MCNotificationTables ------------------------
(* Model values for NotificationTables: a resource, one that may share its *)
(* key while both are unnamed, and an OTDR.                                *)
EXTENDS NotificationTables

TwoResources == {"r1", "r2"}
OneOtdr == {"o1"}
=============================================================================
