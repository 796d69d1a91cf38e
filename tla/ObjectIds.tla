----------------------------- MODULE ObjectIds -----------------------------
(***************************************************************************)
(* Virtual object IDs (VirtualObjectIdManager): an ID is a number with     *)
(* three bit fields, linecard index, object type and object index.  Client *)
(* and syncd both take type and linecard of an object from its ID.         *)
(***************************************************************************)
EXTENDS Naturals

CONSTANTS
  IndexSize,     \* 2^48: number of object indexes
  TypeSize,      \* 2^8: number of values of the type field
  LinecardSize,  \* 2^8: number of linecard indexes
  TypeLimit,     \* OTAI_OBJECT_TYPE_EXTENSIONS_MAX
  LINECARD       \* OTAI_OBJECT_TYPE_LINECARD

(* The static_assert on the limit of types. *)
ASSUME SizeAssumption ==
  /\ IndexSize \in Nat \ {0} /\ LinecardSize \in Nat \ {0} /\ LinecardSize <= IndexSize
  /\ TypeSize \in Nat /\ TypeLimit \in Nat /\ TypeLimit < TypeSize - 1
  /\ LINECARD \in Nat /\ 0 < LINECARD /\ LINECARD < TypeLimit

NullId == 0
NullType == 0
ObjectType == 1 .. TypeLimit - 1
MaxIndex == IndexSize - 1

ObjectIndex(oid) == oid % IndexSize
TypeField(oid) == (oid \div IndexSize) % TypeSize
LinecardIndex(oid) == ((oid \div IndexSize) \div TypeSize) % LinecardSize

(* Mutant of ConstructObjectId: the type field begins a bit too low. *)
ConstructOverlapping(type, linecard, index) ==
  (linecard * TypeSize * IndexSize) + (type * (IndexSize \div 2)) + index

(* The index is not masked: callers keep it within its field. *)
ConstructObjectId(type, linecard, index) ==
  (linecard * TypeSize + type) * IndexSize + index

(* objectTypeQuery and otaiObjectTypeQuery: the types are contiguous, so   *)
(* both of their tests accept the same ones.                               *)
ObjectTypeQuery(oid) ==
  IF oid # NullId /\ TypeField(oid) \in ObjectType THEN TypeField(oid) ELSE NullType

(* linecardIdQuery.  otaiLinecardIdQuery throws where this yields NullId   *)
(* for an ID without type; Meta asks it of validated IDs only.             *)
LinecardIdQuery(oid) ==
  IF ObjectTypeQuery(oid) \in {NullType, LINECARD}
    THEN IF ObjectTypeQuery(oid) = LINECARD THEN oid ELSE NullId
    ELSE ConstructObjectId(LINECARD, LinecardIndex(oid), LinecardIndex(oid))

(* allocateNewLinecardObjectId: there is one, always the same. *)
LinecardVid == ConstructObjectId(LINECARD, 0, 0)
=============================================================================
