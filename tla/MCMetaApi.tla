----------------------------- MODULE MCMetaApi -----------------------------
(***************************************************************************)
(* Metadata and calls for MetaApi: a linecard (1) and two kinds of objects *)
(* (2, 3); indexes end at 2.                                               *)
(***************************************************************************)
EXTENDS MetaApi

Attr(valuetype, flags) ==
  [valuetype |-> valuetype, flags |-> flags, types |-> {}, nullok |-> FALSE, recoverable |-> TRUE,
   enums |-> {}, conditions |-> {}, default |-> <<>>]

TwoTypes == <<
  <<Attr("pointer", {"CREATE_AND_SET"}),
    [Attr("oid", {"CREATE_AND_SET"}) EXCEPT !.types = {3}, !.nullok = TRUE]>>,
  <<[Attr("enum", {"CREATE_ONLY"}) EXCEPT !.enums = {0, 1}, !.default = <<0>>],
    [Attr("range", {"MANDATORY_ON_CREATE", "CREATE_AND_SET"}) EXCEPT
       !.conditions = {[attr |-> 1, value |-> <<1>>]}],
    [Attr("objlist", {"CREATE_AND_SET"}) EXCEPT !.types = {2, 3}, !.nullok = TRUE],
    [Attr("text", {"CREATE_AND_SET"}) EXCEPT !.recoverable = FALSE],
    Attr("number", {"READ_ONLY"})>>,
  <<Attr("number", {"MANDATORY_ON_CREATE", "KEY"}),
    Attr("enumlist", {"CREATE_AND_SET", "SET_ONLY"})>> >>

OneStat == <<{}, {7}, {}>>

Value(list) == [count |-> Len(list), list |-> list]
A(id, list) == [id |-> id, value |-> Value(list)]

Oid(type, index) == ConstructObjectId(type, 0, index)
OtherLinecard == ConstructObjectId(LINECARD, 1, 1)
OtherObject == ConstructObjectId(3, 1, 1)

(* Good and bad values of each attribute, and one that does not exist.     *)
Lists == {<<Oid(3, 1)>>, <<Oid(2, 1), Oid(3, 2)>>, <<NullId, Oid(3, 2)>>,
          <<Oid(3, 1), Oid(3, 1)>>, <<OtherObject>>, <<LinecardVid>>,
          <<Oid(2, 2), Oid(3, 1), Oid(3, 2)>>, <<NullId, NullId, Oid(3, 1)>>}
Offered(type) ==
  CASE type = 1 -> {A(1, <<5>>), A(2, <<Oid(3, 1)>>), A(9, <<1>>)}
    [] type = 2 -> {A(1, <<0>>), A(1, <<1>>), A(1, <<2>>), A(2, <<1, 2>>), A(2, <<2, 1>>),
                    A(4, <<1>>), A(4, <<0>>), A(5, <<1>>), A(9, <<1>>)}
                   \cup {A(3, list) : list \in Lists}
                   \cup {[id |-> 3, value |-> [count |-> 1, list |-> <<>>]]}
    [] type = 3 -> {A(1, <<1>>), A(2, <<1>>),
                    [id |-> 2, value |-> [count |-> 0, list |-> <<1>>]]}

AttrLists(type) ==
  {<<>>} \cup {<<a>> : a \in Offered(type)} \cup {<<a, b>> : a, b \in Offered(type)}

Call(op, type, oid, lc, attrs) ==
  [op |-> op, type |-> type, oid |-> oid, linecard |-> lc, attrs |-> attrs]

OidsOffered == {NullId, LinecardVid, Oid(2, 1), Oid(3, 1), Oid(3, 2), 1}

SmallCalls ==
  UNION {{Call("create", t, NullId, lc, attrs) : attrs \in AttrLists(t)} :
           t \in ObjectType, lc \in {LinecardVid}}
  \cup {Call("create", 3, NullId, lc, <<A(1, <<1>>)>>) :
          lc \in {NullId, OtherLinecard, Oid(3, 1), Oid(1, 2)}}
  \cup {Call("create", 0, NullId, LinecardVid, <<>>)}
  \cup UNION {{Call("set", t, oid, NullId, <<a>>) : oid \in OidsOffered, a \in Offered(t)} :
                t \in ObjectType}
  \cup {Call(op, t, oid, NullId, attrs) :
          op \in {"get", "remove", "stats"}, t \in ObjectType, oid \in OidsOffered,
          attrs \in {<<>>, <<A(2, <<1>>)>>, <<A(7, <<1>>)>>}}
=============================================================================
