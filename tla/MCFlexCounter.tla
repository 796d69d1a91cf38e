---------------------------- MODULE MCFlexCounter ----------------------------
(* Model values for FlexCounter: one known group alone, and two groups of  *)
(* which only one names a property group.                                  *)
EXTENDS FlexCounter

TwoGroups == {"1S_STAT_GAUGE", "other"}
OneGroup == {"1S_STAT_GAUGE"}
=============================================================================
