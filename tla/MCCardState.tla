---------------------------- MODULE MCCardState ----------------------------
(***************************************************************************)
(* One object beside the linecard, two values.                             *)
(***************************************************************************)
EXTENDS CardState

OneObject == {"interface"}
TwoValues == {"a", "b"}
OneValue == {"a"}
=============================================================================
