---------------------------- MODULE MCClientApi ----------------------------
(* Model values for ClientApi: the threads of the application.             *)
EXTENDS ClientApi

CONSTANTS a1, a2
OneThread == {a1}
TwoThreads == {a1, a2}
=============================================================================
