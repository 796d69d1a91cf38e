----------------------------- MODULE MetaChecks -----------------------------
(***************************************************************************)
(* What otaimeta::Meta lets pass, from the metadata of the attributes and  *)
(* from the IDs alone; Meta keeps no state.  Which error a call gets that  *)
(* does not pass is left out.                                              *)
(*                                                                         *)
(* A value is a record of a count and a list: a number, an enum value or   *)
(* an object ID is a list of one, a range the list of its ends, a text its *)
(* characters.  The list <<>> is the null pointer.                         *)
(***************************************************************************)
EXTENDS ObjectIds, Sequences

CONSTANTS
  Metadata,       \* generated otaimetadata: per object type, the attributes in order
  StatIds,        \* generated: the statistics each object type has, maybe none
  MaxListCount    \* MAX_LIST_COUNT

ValueType == {"number", "enum", "enumlist", "list", "range", "text", "pointer",
              "oid", "objlist"}
Flag == {"MANDATORY_ON_CREATE", "CREATE_ONLY", "CREATE_AND_SET", "READ_ONLY",
         "SET_ONLY", "KEY"}

(* The values that are a list of one: numbers, booleans among them, and    *)
(* enums.                                                                  *)
Scalar == {"number", "enum"}

(* conditions are [attr |-> id, value |-> list]; none: not conditional.    *)
(* They are on booleans and enums.                                         *)
ASSUME MetadataAssumption ==
  /\ MaxListCount \in Nat
  /\ DOMAIN Metadata = ObjectType
  /\ \A t \in ObjectType : \A a \in DOMAIN Metadata[t] :
       LET md == Metadata[t][a] IN
       /\ md.valuetype \in ValueType
       /\ md.flags \subseteq Flag
       /\ md.types \subseteq ObjectType
       /\ md.nullok \in BOOLEAN /\ md.recoverable \in BOOLEAN
       /\ \A c \in md.conditions :
            c.attr \in DOMAIN Metadata[t] /\ Metadata[t][c.attr].valuetype \in Scalar

(* meta_otai_validate_oid, for all calls but create. *)
OidValid(type, oid) ==
  type \in ObjectType /\ oid # NullId /\ ObjectTypeQuery(oid) = type

-----------------------------------------------------------------------------
(* The value of one attribute. *)

(* meta_genetic_validation_list *)
ListValid(value) ==
  value.count <= MaxListCount /\ (value.count = 0 <=> value.list = <<>>)

(* Type of the last object before entry i, null entries passed over.       *)
TypeBefore(list, i) ==
  LET earlier == {j \in 1 .. i - 1 : list[j] # NullId} IN
  IF earlier = {} THEN NullType
  ELSE ObjectTypeQuery(list[CHOOSE j \in earlier : \A k \in earlier : k <= j])

(* Mutant of EntryAllowed: objects of any type pass. *)
EntryAllowedAnyType(md, linecard, list, i) ==
  IF list[i] = NullId THEN md.nullok
  ELSE /\ \A j \in 1 .. i - 1 : list[j] # list[i]
       /\ LinecardIdQuery(list[i]) = linecard

(* The comparison with the type before begins with the third entry. *)
EntryAllowed(md, linecard, list, i) ==
  IF list[i] = NullId THEN md.nullok
  ELSE /\ \A j \in 1 .. i - 1 : list[j] # list[i]
       /\ ObjectTypeQuery(list[i]) \in md.types
       /\ i > 2 => TypeBefore(list, i) = ObjectTypeQuery(list[i])
       /\ LinecardIdQuery(list[i]) = linecard

(* meta_generic_validation_objlist *)
ObjListValid(md, linecard, value) ==
  /\ value.count <= MaxListCount
  /\ IF value.list = <<>> THEN value.count = 0
     ELSE \A i \in 1 .. value.count : EntryAllowed(md, linecard, value.list, i)

(* The switch on the value type and the enum checks, as far as create and  *)
(* set have them in common.  The loops over an enum list begin at its end, *)
(* so no value of one is looked at.                                        *)
ValueValid(md, linecard, value) ==
  /\ md.valuetype \in {"oid", "objlist"} => ObjListValid(md, linecard, value)
  /\ md.valuetype \in {"list", "enumlist"} => ListValid(value)
  /\ md.valuetype = "range" => value.list[1] <= value.list[2]
  /\ md.valuetype = "enum" => value.list[1] \in md.enums

-----------------------------------------------------------------------------
(* Create.  A call has the attributes as a sequence of [id, value].        *)

Passed(attrs) == {attrs[i].id : i \in DOMAIN attrs}

(* otai_metadata_get_attr_by_id: the first of that id. *)
ValueOf(attrs, a) ==
  attrs[CHOOSE i \in DOMAIN attrs :
          attrs[i].id = a /\ \A j \in DOMAIN attrs : attrs[j].id = a => i <= j].value

(* One round of the loop over the attributes. *)
AttributeValid(type, linecard, attrs, i) ==
  LET a == attrs[i].id IN
  /\ a \in DOMAIN Metadata[type]
  /\ \A j \in 1 .. i - 1 : attrs[j].id # a
  /\ "READ_ONLY" \notin Metadata[type][a].flags
  /\ ValueValid(Metadata[type][a], linecard, attrs[i].value)

(* The linecard a create is given: none and no OID attribute for a         *)
(* linecard, an ID of type LINECARD for all else.                          *)
LinecardIdValid(type, linecard, attrs) ==
  IF type = LINECARD
    THEN \A i \in DOMAIN attrs :
           /\ attrs[i].id \in DOMAIN Metadata[type]
           /\ Metadata[type][attrs[i].id].valuetype \notin {"oid", "objlist"}
    ELSE linecard # NullId /\ ObjectTypeQuery(linecard) = LINECARD

Mandatory(type, a) ==
  "MANDATORY_ON_CREATE" \in Metadata[type][a].flags /\ Metadata[type][a].conditions = {}

(* Mutant of ConditionValue: the value that was passed is not looked at.   *)
ConditionDefault(type, attrs, a) == Metadata[type][a].default

(* A condition looks at the value passed, else at the default. *)
ConditionValue(type, attrs, a) ==
  IF a \in Passed(attrs) THEN ValueOf(attrs, a).list ELSE Metadata[type][a].default

(* A conditional attribute is passed if and only if a condition holds. *)
ConditionsValid(type, attrs, a) ==
  LET conditions == Metadata[type][a].conditions IN
  conditions # {} =>
    (a \in Passed(attrs) <=> \E c \in conditions : ConditionValue(type, attrs, c.attr) = c.value)

(* meta_generic_validation_create *)
CreateValid(type, linecard, attrs) ==
  /\ type \in ObjectType /\ DOMAIN Metadata[type] # {}
  /\ Len(attrs) <= MaxListCount
  /\ LinecardIdValid(type, linecard, attrs)
  /\ \A i \in DOMAIN attrs :
       AttributeValid(type, IF type = LINECARD THEN NullId ELSE linecard, attrs, i)
  /\ \A a \in DOMAIN Metadata[type] :
       (Mandatory(type, a) => a \in Passed(attrs)) /\ ConditionsValid(type, attrs, a)

-----------------------------------------------------------------------------
(* Set, get, remove and the statistics. *)

Settable(md) == md.flags \cap {"READ_ONLY", "CREATE_ONLY", "KEY"} = {}

(* meta_generic_validation_set; characters are 1 when printable and are    *)
(* looked at here only.                                                    *)
SetValid(type, oid, attr) ==
  /\ OidValid(type, oid)
  /\ attr.id \in DOMAIN Metadata[type]
  /\ LET md == Metadata[type][attr.id] IN
     /\ Settable(md)
     /\ ValueValid(md, LinecardIdQuery(oid), attr.value)
     /\ md.valuetype = "text" => \A i \in DOMAIN attr.value.list : attr.value.list[i] = 1

(* meta_generic_validation_get; what is checked of the result is logged.   *)
GetValid(type, oid, attrs) ==
  /\ OidValid(type, oid)
  /\ Len(attrs) \in 1 .. MaxListCount
  /\ \A i \in DOMAIN attrs :
       /\ attrs[i].id \in DOMAIN Metadata[type]
       /\ LET md == Metadata[type][attrs[i].id] IN
          /\ "SET_ONLY" \notin md.flags
          /\ md.valuetype \in {"list", "enumlist", "objlist"} => ListValid(attrs[i].value)

(* remove, meta_generic_validation_remove *)
RemoveValid(type, oid) == OidValid(type, oid)

(* meta_validate_stats; the mode is always one of otai_stats_mode_t here.  *)
StatsValid(type, oid, attrs) ==
  /\ OidValid(type, oid)
  /\ attrs # <<>>
  /\ \A i \in DOMAIN attrs : attrs[i].id \in StatIds[type]
=============================================================================
