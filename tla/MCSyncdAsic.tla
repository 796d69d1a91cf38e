---------------------------- MODULE MCSyncdAsic ----------------------------
(***************************************************************************)
(* Values for the constants of SyncdAsic that a .cfg cannot write.         *)
(***************************************************************************)
EXTENDS SyncdAsic

(* The uninitialised word is the key of no entry. *)
NoKey == {<<"NULL", 0>>}

(* It may also be a RID an earlier call left on the stack. *)
AnyRid == NoKey \cup {<<t, 0>> : t \in ObjType}

(* An object the vendor library made by itself. *)
OneHidden == {<<CHOOSE t \in ObjType : TRUE, MaxRidIndex>>}
=============================================================================
