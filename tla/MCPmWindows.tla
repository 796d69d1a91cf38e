---------------------------- MODULE MCPmWindows ----------------------------
(* Values for PmWindows: windows of two and of four minutes, a collector   *)
(* made at the begin of a day or in the middle of a quarter.               *)
EXTENDS PmWindows

TwoEntries == 1 .. 2
Begin == {4, 5}
=============================================================================
