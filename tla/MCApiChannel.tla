---------------------------- MODULE MCApiChannel ----------------------------
(* Model values for ApiChannel: the threads of the client.                 *)
EXTENDS ApiChannel

CONSTANTS c1, c2
OneThread == {c1}
TwoThreads == {c1, c2}
=============================================================================
