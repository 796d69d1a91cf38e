--------------------------- MODULE MetaApi_proofs ---------------------------
(***************************************************************************)
(* Proofs about virtual object IDs and the calls that pass Meta, for every *)
(* width of the fields of an ID, all metadata and all calls.               *)
(***************************************************************************)
EXTENDS MetaApi, Integers, TLAPS

-----------------------------------------------------------------------------
(* What is put into an ID comes out of it. *)

(* A number made of a quotient and a remainder gives both back.            *)
LEMMA DivMod ==
  ASSUME NEW n \in Nat \ {0}, NEW q \in Nat, NEW r \in 0 .. n - 1
  PROVE  (q * n + r) \div n = q /\ (q * n + r) % n = r
<1>1. q * n \in Nat
  BY Z3
<1> DEFINE x == q * n + r
<1>2. x \in Nat
  BY <1>1
<1>3. /\ x = n * (x \div n) + (x % n)
      /\ x % n \in 0 .. n - 1
      /\ x \div n \in Int
  BY <1>2, SMT
<1> QED
  BY <1>3, SMT

(* The index and the rest of an ID, whatever type and linecard are.        *)
LEMMA IndexOfConstructed ==
  ASSUME NEW t \in Nat, NEW l \in Nat, NEW k \in 0 .. MaxIndex
  PROVE  /\ ConstructObjectId(t, l, k) \in Nat
         /\ ObjectIndex(ConstructObjectId(t, l, k)) = k
         /\ ConstructObjectId(t, l, k) \div IndexSize = l * TypeSize + t
<1> DEFINE q == l * TypeSize + t
<1>1. TypeSize \in Nat /\ IndexSize \in Nat \ {0} /\ k \in 0 .. IndexSize - 1 /\ k \in Nat
  BY SizeAssumption DEF MaxIndex
<1>2. q \in Nat
  BY <1>1, Z3
<1>3. q * IndexSize \in Nat
  BY <1>1, <1>2, Z3
<1>4. (q * IndexSize + k) \div IndexSize = q /\ (q * IndexSize + k) % IndexSize = k
  BY <1>1, <1>2, DivMod
<1> QED
  BY <1>1, <1>3, <1>4 DEF ConstructObjectId, ObjectIndex

(* All three fields. *)
LEMMA Decoded ==
  ASSUME NEW t \in 0 .. TypeSize - 1, NEW l \in 0 .. LinecardSize - 1,
         NEW k \in 0 .. MaxIndex
  PROVE  /\ TypeField(ConstructObjectId(t, l, k)) = t
         /\ LinecardIndex(ConstructObjectId(t, l, k)) = l
<1>1. /\ TypeSize \in Nat \ {0} /\ LinecardSize \in Nat \ {0}
      /\ t \in Nat /\ l \in Nat
  BY SizeAssumption
<1>2. ConstructObjectId(t, l, k) \div IndexSize = l * TypeSize + t
  BY <1>1, IndexOfConstructed
<1>3. (l * TypeSize + t) % TypeSize = t /\ (l * TypeSize + t) \div TypeSize = l
  BY <1>1, DivMod
<1>4. l % LinecardSize = l
  BY <1>1, SMT
<1> QED
  BY <1>2, <1>3, <1>4 DEF TypeField, LinecardIndex

(* No ID of an object or a linecard is the null ID, and its type is the    *)
(* one it was made with.                                                   *)
LEMMA TypeOfConstructed ==
  ASSUME NEW t \in ObjectType, NEW l \in 0 .. LinecardSize - 1, NEW k \in 0 .. MaxIndex
  PROVE  /\ ObjectTypeQuery(ConstructObjectId(t, l, k)) = t
         /\ LinecardIndex(ConstructObjectId(t, l, k)) = l
<1>1. t \in 0 .. TypeSize - 1 /\ t # 0
  BY SizeAssumption DEF ObjectType
<1>2. TypeField(ConstructObjectId(t, l, k)) = t /\ LinecardIndex(ConstructObjectId(t, l, k)) = l
  BY <1>1, Decoded
<1>3. ConstructObjectId(t, l, k) # NullId
  <2>1. SUFFICES ASSUME ConstructObjectId(t, l, k) = 0 PROVE FALSE
    BY DEF NullId
  <2>2. TypeField(0) = 0
    BY SizeAssumption, SMT DEF TypeField
  <2> QED
    BY <1>1, <1>2, <2>1, <2>2
<1> QED
  BY <1>2, <1>3 DEF ObjectTypeQuery

(* The linecard has type LINECARD and is its own linecard.                 *)
LEMMA LinecardVidDecoded ==
  /\ LinecardVid \in Nat
  /\ ObjectIndex(LinecardVid) = 0
  /\ ObjectTypeQuery(LinecardVid) = LINECARD
  /\ LinecardIdQuery(LinecardVid) = LinecardVid
<1>1. /\ LINECARD \in ObjectType /\ LINECARD \in Nat /\ LINECARD # NullType
      /\ 0 \in 0 .. LinecardSize - 1 /\ 0 \in 0 .. MaxIndex
  BY SizeAssumption DEF ObjectType, MaxIndex, NullType
<1>2. LinecardVid \in Nat /\ ObjectIndex(LinecardVid) = 0
  BY <1>1, IndexOfConstructed DEF LinecardVid
<1>3. ObjectTypeQuery(LinecardVid) = LINECARD
  BY <1>1, TypeOfConstructed DEF LinecardVid
<1> QED
  BY <1>1, <1>2, <1>3 DEF LinecardIdQuery

LEMMA LinecardIndexInRange ==
  ASSUME NEW oid \in Nat
  PROVE  LinecardIndex(oid) \in 0 .. LinecardSize - 1 /\ LinecardIndex(oid) \in Nat
<1>1. oid \div IndexSize \in Nat
  BY SizeAssumption, SMT
<1>2. TypeSize \in Nat \ {0} /\ LinecardSize \in Nat \ {0}
  BY SizeAssumption
<1>3. (oid \div IndexSize) \div TypeSize \in Nat
  BY <1>1, <1>2, SMT
<1> QED
  BY <1>2, <1>3, SMT DEF LinecardIndex

-----------------------------------------------------------------------------
(* No ID twice.  The indexes of the issued IDs grow with the counter.      *)

IdsInv ==
  /\ counter \in Nat
  /\ issued \in Seq(Nat)
  /\ \A i \in DOMAIN issued :
       /\ ObjectIndex(issued[i]) \in 1 .. counter
       /\ \A j \in 1 .. i - 1 : ObjectIndex(issued[j]) < ObjectIndex(issued[i])

(* INCR and the VID made of it keep it, whatever type is asked for.        *)
LEMMA AllocateKeepsIds ==
  ASSUME IdsInv, NEW t \in Nat, NEW lc \in Nat, Allocate(t, lc)
  PROVE  IdsInv'
<1> DEFINE k == counter + 1
           vid == ConstructObjectId(t, LinecardIndex(lc), k)
<1>1. counter' = k /\ k \in Nat /\ counter \in Nat
  BY DEF IdsInv, Allocate
<1>2. CASE ~InRange(k)
  BY <1>1, <1>2 DEF IdsInv, Allocate
<1>3. CASE InRange(k)
  <2>1. k \in 0 .. MaxIndex
    BY <1>1, <1>3 DEF InRange, IdsInv
  <2>2. vid \in Nat /\ ObjectIndex(vid) = k
    <3>1. LinecardIndex(lc) \in Nat
      BY LinecardIndexInRange
    <3> QED
      BY <2>1, <3>1, IndexOfConstructed
  <2>3. issued' = Append(issued, vid)
    BY <1>3 DEF Allocate
  <2> HIDE DEF vid
  <2>4. /\ issued' \in Seq(Nat)
        /\ DOMAIN issued' = 1 .. Len(issued) + 1
        /\ \A i \in 1 .. Len(issued) : issued'[i] = issued[i]
        /\ issued'[Len(issued) + 1] = vid
    BY <2>2, <2>3 DEF IdsInv
  <2>5. DOMAIN issued = 1 .. Len(issued) /\ Len(issued) \in Nat
    BY DEF IdsInv
  <2>6. ASSUME NEW i \in DOMAIN issued'
        PROVE  /\ ObjectIndex(issued'[i]) \in 1 .. counter'
               /\ \A j \in 1 .. i - 1 : ObjectIndex(issued'[j]) < ObjectIndex(issued'[i])
    <3>1. CASE i \in 1 .. Len(issued)
      BY <1>1, <2>4, <2>5, <3>1 DEF IdsInv
    <3>2. CASE i = Len(issued) + 1
      <4>1. issued'[i] = vid /\ ObjectIndex(issued'[i]) = k
        BY <2>2, <2>4, <3>2
      <4>2. ASSUME NEW j \in 1 .. i - 1
            PROVE  ObjectIndex(issued'[j]) < k
        <5>1. j \in DOMAIN issued /\ issued'[j] = issued[j]
          BY <2>4, <2>5, <3>2, <4>2
        <5>2. ObjectIndex(issued[j]) \in 1 .. counter
          BY <5>1 DEF IdsInv
        <5> QED
          BY <1>1, <5>1, <5>2
      <4> QED
        BY <1>1, <4>1, <4>2
    <3> QED
      BY <2>4, <2>5, <3>1, <3>2
  <2>7. ObjectIndex(vid) = k
    BY <2>2
  <2> QED
    BY <1>1, <2>4, <2>6 DEF IdsInv, ObjectIndex
<1> QED
  BY <1>2, <1>3

(* Types and linecards of the calls are numbers, attributes sequences.     *)
LEMMA PassingCallOK ==
  ASSUME NEW c \in PassingCalls
  PROVE  c \in Calls /\ c.type \in Nat /\ c.oid \in Nat /\ c.linecard \in Nat
BY CallAssumption DEF PassingCalls

LEMMA IdsInvIsInductive == IdsInv /\ [Next]_vars => IdsInv'
<1> SUFFICES ASSUME IdsInv, [Next]_vars PROVE IdsInv'
  OBVIOUS
<1>1. ASSUME UNCHANGED ids PROVE IdsInv'
  BY <1>1 DEF IdsInv, ids, ObjectIndex
<1>2. ASSUME NEW c \in PassingCalls, Execute(c) PROVE IdsInv'
  <2>1. CASE CreateObject(c)
    BY <2>1, PassingCallOK, AllocateKeepsIds DEF CreateObject
  <2>2. CASE CreateLinecard(c) \/ SetAttribute(c) \/ RemoveObject(c)
    BY <1>1, <2>2 DEF CreateLinecard, SetAttribute, RemoveObject
  <2> QED
    BY <1>2, <2>1, <2>2 DEF Execute
<1>3. ASSUME SyncdAllocates PROVE IdsInv'
  BY <1>3, AllocateKeepsIds, LinecardVidDecoded DEF SyncdAllocates, ObjectType
<1>4. ASSUME SaveField \/ EndSave \/ DeleteObject \/ Die \/ Start PROVE IdsInv'
  BY <1>1, <1>4 DEF SaveField, EndSave, DeleteObject, Die, Start
<1> QED
  BY <1>1, <1>2, <1>3, <1>4 DEF Next, vars

(* However client and syncd take turns at the counter, no two allocations  *)
(* give the same VID, and none gives the VID of the linecard.              *)
THEOREM NoIdTwiceAlways == Spec => []NoIdTwice
<1>1. Init => IdsInv
  BY DEF Init, IdsInv
<1>2. IdsInv => NoIdTwice
  <2> SUFFICES ASSUME IdsInv, NEW i \in DOMAIN issued
               PROVE  issued[i] # LinecardVid /\ \A j \in 1 .. i - 1 : issued[j] # issued[i]
    BY DEF NoIdTwice
  <2>1. ObjectIndex(issued[i]) \in 1 .. counter /\ counter \in Nat
    BY DEF IdsInv
  <2>2. ASSUME NEW j \in 1 .. i - 1 PROVE issued[j] # issued[i]
    <3>1. j \in DOMAIN issued
      BY <2>2 DEF IdsInv
    <3> QED
      BY <2>1, <3>1 DEF IdsInv
  <2> QED
    BY <2>1, <2>2, LinecardVidDecoded
<1> QED
  BY <1>1, <1>2, IdsInvIsInductive, PTL DEF Spec

-----------------------------------------------------------------------------
(* The ID of an object tells its type and its linecard.                    *)

Tells(v) == ObjectTypeQuery(v) \in ObjectType /\ LinecardIdQuery(v) = LinecardVid

JobInv ==
  /\ job = [op |-> job.op, oid |-> job.oid, type |-> job.type, attrs |-> job.attrs]
  /\ job.op \in {"none", "create", "set", "remove"}
  /\ job.op = "none" => job = NoJob
  /\ job.op # "none" => Tells(job.oid) /\ job.type = ObjectTypeQuery(job.oid)
  /\ job.op = "remove" => job.type # LINECARD

StoreInv ==
  /\ counter \in Nat
  /\ \A v \in known \cup DOMAIN store : Tells(v)
  /\ \A v \in DOMAIN store : store[v].type = ObjectTypeQuery(v)
  /\ JobInv

(* The VID of a new object: syncd knows the linecard it names, so it is    *)
(* the one that is.                                                        *)
LEMMA NewVidTells ==
  ASSUME StoreInv, NEW t \in ObjectType \ {LINECARD}, NEW lc \in Nat,
         NEW k \in 0 .. MaxIndex,
         LinecardIdQuery(ConstructObjectId(t, LinecardIndex(lc), k)) \in known
  PROVE  LET vid == ConstructObjectId(t, LinecardIndex(lc), k) IN
         ObjectTypeQuery(vid) = t /\ LinecardIdQuery(vid) = LinecardVid
<1> DEFINE l == LinecardIndex(lc)
           vid == ConstructObjectId(t, l, k)
           w == ConstructObjectId(LINECARD, l, l)
<1>1. /\ l \in 0 .. LinecardSize - 1 /\ l \in 0 .. MaxIndex
      /\ LINECARD \in ObjectType /\ LINECARD # NullType /\ t # NullType
  BY LinecardIndexInRange, SizeAssumption DEF MaxIndex, ObjectType, NullType
<1>2. ObjectTypeQuery(vid) = t /\ LinecardIndex(vid) = l
  BY <1>1, TypeOfConstructed
<1>3. LinecardIdQuery(vid) = w
  BY <1>1, <1>2 DEF LinecardIdQuery
<1>4. ObjectTypeQuery(w) = LINECARD
  BY <1>1, TypeOfConstructed
<1>5. LinecardIdQuery(w) = w
  BY <1>4 DEF LinecardIdQuery
<1>6. w \in known
  BY <1>3
<1>7. w = LinecardVid
  BY <1>5, <1>6 DEF StoreInv, Tells
<1> QED
  BY <1>2, <1>3, <1>7

(* Syncd begins to save what it created under a VID that tells. *)
LEMMA CreatedTells ==
  ASSUME StoreInv, counter' \in Nat, NEW c, c.op = "create", NEW vid, NEW older,
         Created(c, vid, older), Tells(vid), c.type = ObjectTypeQuery(vid)
  PROVE  StoreInv'
<1>1. /\ known' = (known \ older) \cup {vid}
      /\ DOMAIN store' \subseteq DOMAIN store
      /\ \A v \in DOMAIN store' : store'[v] = store[v]
  BY DEF Created, Without
<1>2. JobInv'
  BY DEF Created, Job, JobInv, Tells
<1>3. \A v \in known' \cup DOMAIN store' : Tells(v)
  BY <1>1 DEF StoreInv
<1> QED
  BY <1>1, <1>2, <1>3 DEF StoreInv, Tells

(* The linecard tells; it is the only object of its type that does.        *)
LEMMA LinecardTells ==
  /\ Tells(LinecardVid)
  /\ LINECARD = ObjectTypeQuery(LinecardVid)
  /\ NullId # LinecardVid
  /\ \A v : Tells(v) /\ ObjectTypeQuery(v) = LINECARD => v = LinecardVid
<1>1. LINECARD \in ObjectType /\ LINECARD # NullType
  BY SizeAssumption DEF ObjectType, NullType
<1>2. NullId # LinecardVid
  BY <1>1, LinecardVidDecoded DEF ObjectTypeQuery
<1> QED
  BY <1>1, <1>2, LinecardVidDecoded DEF Tells, LinecardIdQuery

LEMMA StoreInvIsInductive == StoreInv /\ [Next]_vars => StoreInv'
<1> SUFFICES ASSUME StoreInv, [Next]_vars PROVE StoreInv'
  OBVIOUS
<1>1. counter' \in Nat
  <2>1. CASE UNCHANGED ids
    BY <2>1 DEF ids, StoreInv
  <2>2. ASSUME NEW t, NEW lc, Allocate(t, lc) PROVE counter' \in Nat
    BY <2>2 DEF Allocate, StoreInv
  <2> QED
    BY <2>1, <2>2 DEF Next, Execute, CreateObject, CreateLinecard, SetAttribute, RemoveObject,
                      SyncdAllocates, SaveField, EndSave, DeleteObject, Die, Start, vars
<1>2. CASE UNCHANGED <<known, store, job>>
  BY <1>1, <1>2 DEF StoreInv, JobInv, Tells
<1>3. ASSUME NEW c \in PassingCalls, CreateObject(c), c.op = "create" PROVE StoreInv'
  <2> DEFINE k == counter + 1
             vid == ConstructObjectId(c.type, LinecardIndex(c.linecard), k)
  <2>1. c.type \in ObjectType \ {LINECARD} /\ c.linecard \in Nat
    BY <1>3, PassingCallOK DEF PassingCalls, Passes, CreateValid, CreateObject
  <2>2. ASSUME InRange(k), LinecardIdQuery(vid) \in known, NEW older, Created(c, vid, older)
        PROVE  StoreInv'
    <3>1. k \in 0 .. MaxIndex
      BY <2>2 DEF InRange, StoreInv
    <3>2. ObjectTypeQuery(vid) = c.type /\ LinecardIdQuery(vid) = LinecardVid
      BY <2>1, <2>2, <3>1, NewVidTells
    <3> HIDE DEF vid
    <3> QED
      BY <1>1, <1>3, <2>1, <2>2, <3>2, CreatedTells DEF Tells
  <2> QED
    BY <1>2, <1>3, <2>2 DEF CreateObject, syncd
<1>4. ASSUME NEW c, c.op = "create", CreateLinecard(c) PROVE StoreInv'
  BY <1>1, <1>2, <1>4, LinecardTells, CreatedTells DEF CreateLinecard, syncd
<1>5. ASSUME NEW c \in PassingCalls, c.op = "set", SetAttribute(c) PROVE StoreInv'
  <2>1. CASE c.oid \in known /\ job' = Job(c, c.oid) /\ UNCHANGED <<known, store>>
    <3>1. c.type = ObjectTypeQuery(c.oid)
      BY <1>5 DEF PassingCalls, Passes, SetValid, OidValid
    <3>2. JobInv'
      BY <1>5, <2>1, <3>1 DEF Job, JobInv, Tells, StoreInv
    <3> QED
      BY <1>1, <2>1, <3>2 DEF StoreInv, Tells
  <2> QED
    BY <1>2, <1>5, <2>1 DEF SetAttribute, syncd
<1>6. ASSUME NEW c \in PassingCalls, c.op = "remove", RemoveObject(c) PROVE StoreInv'
  <2>1. CASE c.oid \in known /\ known' = known \ {c.oid} /\ UNCHANGED <<job, store>>
    BY <1>1, <2>1 DEF StoreInv, JobInv, Tells
  <2>2. CASE /\ c.oid \in known /\ known' = known \ {c.oid} /\ UNCHANGED store
             /\ c.type # LINECARD
             /\ job' = [NoJob EXCEPT !.op = "remove", !.oid = c.oid, !.type = c.type]
    <3>1. c.type = ObjectTypeQuery(c.oid)
      BY <1>6 DEF PassingCalls, Passes, RemoveValid, OidValid
    <3>2. JobInv'
      BY <2>2, <3>1 DEF NoJob, JobInv, Tells, StoreInv
    <3> QED
      BY <1>1, <2>2, <3>2 DEF StoreInv, Tells
  <2> QED
    BY <1>2, <1>6, <2>1, <2>2 DEF RemoveObject, syncd
<1>7. ASSUME SyncdAllocates PROVE StoreInv'
  <2>1. PICK t \in ObjectType \ {LINECARD} :
          known' = IF InRange(counter + 1)
                     THEN known \cup {ConstructObjectId(t, LinecardIndex(LinecardVid), counter + 1)}
                     ELSE known
    BY <1>7 DEF SyncdAllocates
  <2> DEFINE vid == ConstructObjectId(t, LinecardIndex(LinecardVid), counter + 1)
  <2>2. InRange(counter + 1) => Tells(vid)
    <3>1. SUFFICES ASSUME InRange(counter + 1) PROVE Tells(vid)
      OBVIOUS
    <3>2. counter + 1 \in 0 .. MaxIndex
      BY <3>1 DEF InRange, StoreInv
    <3>3. LinecardIdQuery(vid) = LinecardVid /\ ObjectTypeQuery(vid) = t
      <4>1. t \in ObjectType /\ t # NullType /\ t # LINECARD
        BY DEF ObjectType, NullType
      <4>2. LINECARD \in ObjectType /\ 0 \in 0 .. LinecardSize - 1 /\ 0 \in 0 .. MaxIndex
        BY SizeAssumption DEF ObjectType, MaxIndex
      <4>3. LinecardIndex(LinecardVid) = 0
        BY <4>2, TypeOfConstructed DEF LinecardVid
      <4>4. ObjectTypeQuery(vid) = t /\ LinecardIndex(vid) = 0
        BY <3>2, <4>1, <4>2, <4>3, TypeOfConstructed
      <4> QED
        BY <4>1, <4>4 DEF LinecardIdQuery, LinecardVid
    <3> QED
      BY <3>3 DEF Tells
  <2> HIDE DEF vid
  <2>3. known' = IF InRange(counter + 1) THEN known \cup {vid} ELSE known
    BY <2>1 DEF vid
  <2> QED
    BY <1>1, <1>7, <2>2, <2>3 DEF SyncdAllocates, StoreInv, JobInv, Tells
<1>8. ASSUME SaveField PROVE StoreInv'
  <2>1. PICK a \in DOMAIN job.attrs :
          /\ store' = WithField(job.oid, job.type, a, job.attrs[a])
          /\ job' = [job EXCEPT !.attrs = [b \in DOMAIN job.attrs \ {a} |-> job.attrs[b]]]
    BY <1>8 DEF SaveField
  <2>2. /\ DOMAIN store' = DOMAIN store \cup {job.oid}
        /\ \A v \in DOMAIN store' : store'[v].type = IF v = job.oid THEN job.type ELSE store[v].type
    BY <2>1 DEF WithField
  <2>3. /\ Tells(job.oid) /\ job.type = ObjectTypeQuery(job.oid)
        /\ known' = known /\ job.op \in {"create", "set"}
    BY <1>8 DEF SaveField, StoreInv, JobInv
  <2>4. JobInv'
    BY <2>1, <2>3 DEF StoreInv, JobInv, Tells
  <2> QED
    BY <1>1, <2>2, <2>3, <2>4 DEF StoreInv, Tells
<1>9. ASSUME EndSave PROVE StoreInv'
  <2>1. /\ Tells(job.oid) /\ job.type = ObjectTypeQuery(job.oid)
        /\ known' = known /\ job' = NoJob
    BY <1>9 DEF EndSave, StoreInv, JobInv
  <2>2. JobInv'
    BY <2>1 DEF NoJob, JobInv
  <2> QED
    BY <1>1, <1>9, <2>1, <2>2 DEF EndSave, StoreInv, Tells
<1>10. ASSUME DeleteObject \/ Die PROVE StoreInv'
  <2>1. JobInv'
    BY <1>10 DEF DeleteObject, Die, NoJob, JobInv
  <2> QED
    BY <1>1, <1>10, <2>1 DEF DeleteObject, Die, Without, StoreInv, Tells
<1>11. ASSUME Start PROVE StoreInv'
  BY <1>2, <1>11 DEF Start
<1> QED
  BY <1>2, <1>3, <1>4, <1>5, <1>6, <1>7, <1>8, <1>9, <1>10, <1>11 DEF Next, Execute, vars, syncd

LEMMA StoreInvInvariant == Spec => []StoreInv
<1>1. Init => StoreInv
  BY DEF Init, StoreInv, JobInv, NoJob
<1> QED
  BY <1>1, StoreInvIsInductive, PTL DEF Spec

(* Type and linecard that are read out of the ID of any object in          *)
(* ASIC_STATE are the right ones, for every width of the fields.           *)
THEOREM IdsTellAlways == Spec => []IdsTellWhatTheyName
<1>1. StoreInv => IdsTellWhatTheyName
  BY DEF StoreInv, Tells, IdsTellWhatTheyName
<1> QED
  BY <1>1, StoreInvInvariant, PTL

-----------------------------------------------------------------------------
(* References. *)

(* A stored list of IDs fits attribute a of type t.                        *)
Fits(t, a, list) ==
  \A i \in DOMAIN list :
    IF list[i] = NullId THEN Metadata[t][a].nullok
    ELSE ObjectTypeQuery(list[i]) \in Metadata[t][a].types /\ LinecardIdQuery(list[i]) = LinecardVid

AllFit(type, attrs) ==
  \A a \in DOMAIN attrs : IsOid(type, a) => Fits(type, a, attrs[a])

(* Of what is saved, and of what is about to be.                           *)
RefInv ==
  /\ \A v \in DOMAIN store : AllFit(store[v].type, store[v].attrs)
  /\ job.op # "none" => AllFit(job.type, job.attrs)

(* What a call stores of an attribute whose value is valid, fits: the      *)
(* objects are known, so the linecard is right whatever Meta compared.     *)
LEMMA SentFits ==
  ASSUME StoreInv, NEW c, RefsKnown(c), NEW a \in Passed(c.attrs), IsOid(c.type, a),
         NEW lc, ValueValid(Metadata[c.type][a], lc, ValueOf(c.attrs, a))
  PROVE  Fits(c.type, a, AttrsOf(c)[a])
<1> DEFINE value == ValueOf(c.attrs, a)
           md == Metadata[c.type][a]
<1>1. AttrsOf(c)[a] = Sent(value)
  BY DEF AttrsOf
<1>2. CASE value.list = <<>>
  BY <1>1, <1>2 DEF Fits, Sent
<1>3. CASE value.list # <<>>
  <2>1. /\ DOMAIN Sent(value) = 1 .. value.count
        /\ \A i \in 1 .. value.count : Sent(value)[i] = value.list[i]
    BY <1>3 DEF Sent
  <2>2. \A i \in 1 .. value.count : EntryAllowed(md, lc, value.list, i)
    BY <1>3 DEF ValueValid, ObjListValid, IsOid
  <2>3. ASSUME NEW i \in DOMAIN AttrsOf(c)[a]
        PROVE  IF AttrsOf(c)[a][i] = NullId THEN md.nullok
               ELSE /\ ObjectTypeQuery(AttrsOf(c)[a][i]) \in md.types
                    /\ LinecardIdQuery(AttrsOf(c)[a][i]) = LinecardVid
    <3>1. i \in 1 .. value.count /\ AttrsOf(c)[a][i] = value.list[i]
      BY <1>1, <2>1, <2>3
    <3>2. AttrsOf(c)[a][i] \in known \cup {NullId}
      BY DEF RefsKnown
    <3> QED
      BY <2>2, <3>1, <3>2 DEF EntryAllowed, StoreInv, Tells
  <2> QED
    BY <2>3 DEF Fits
<1> QED
  BY <1>2, <1>3

(* The value of an attribute that was passed once is the one that was      *)
(* checked.                                                                *)
LEMMA CreateValueChecked ==
  ASSUME NEW c \in Calls, CreateValid(c.type, c.linecard, c.attrs), NEW a \in Passed(c.attrs)
  PROVE  \E lc : ValueValid(Metadata[c.type][a], lc, ValueOf(c.attrs, a))
<1> DEFINE lc == IF c.type = LINECARD THEN NullId ELSE c.linecard
           First(i) == c.attrs[i].id = a /\ \A j \in DOMAIN c.attrs : c.attrs[j].id = a => i <= j
<1>1. PICK i \in DOMAIN c.attrs : c.attrs[i].id = a
  BY DEF Passed
<1>2. \A k \in DOMAIN c.attrs : AttributeValid(c.type, lc, c.attrs, k)
  BY DEF CreateValid
<1>3. DOMAIN c.attrs = 1 .. Len(c.attrs) /\ Len(c.attrs) \in Nat
  BY CallAssumption
<1>4. First(i)
  BY <1>1, <1>2, <1>3 DEF AttributeValid
<1>5. \A k \in DOMAIN c.attrs : First(k) => ValueValid(Metadata[c.type][a], lc, c.attrs[k].value)
  BY <1>2 DEF AttributeValid
<1> DEFINE k == CHOOSE x \in DOMAIN c.attrs : First(x)
<1>6. k \in DOMAIN c.attrs /\ First(k)
  BY <1>1, <1>4
<1>7. ValueOf(c.attrs, a) = c.attrs[k].value
  BY DEF ValueOf
<1> QED
  BY <1>5, <1>6, <1>7

LEMMA SetValueChecked ==
  ASSUME NEW c \in Calls, c.op = "set", SetValid(c.type, c.oid, c.attrs[1]),
         NEW a \in Passed(c.attrs)
  PROVE  /\ \E lc : ValueValid(Metadata[c.type][a], lc, ValueOf(c.attrs, a))
         /\ c.type = ObjectTypeQuery(c.oid)
<1>1. DOMAIN c.attrs = {1}
  BY CallAssumption
<1>2. c.attrs[1].id = a
  BY <1>1 DEF Passed
<1>3. ValueOf(c.attrs, a) = c.attrs[1].value
  <2> DEFINE First(i) == c.attrs[i].id = a /\ \A j \in DOMAIN c.attrs : c.attrs[j].id = a => i <= j
  <2>1. (CHOOSE i \in DOMAIN c.attrs : First(i)) \in DOMAIN c.attrs
    BY <1>1, <1>2
  <2> QED
    BY <1>1, <2>1 DEF ValueOf
<1> QED
  BY <1>2, <1>3 DEF SetValid, OidValid

(* What passes Meta and syncd can translate, fits as a whole. *)
LEMMA PassedFits ==
  ASSUME StoreInv, NEW c \in PassingCalls, c.op \in {"create", "set"}, RefsKnown(c)
  PROVE  AllFit(c.type, AttrsOf(c))
<1>1. c \in Calls /\ Passes(c)
  BY DEF PassingCalls
<1>2. DOMAIN AttrsOf(c) = Passed(c.attrs)
  BY DEF AttrsOf
<1>3. ASSUME NEW a \in Passed(c.attrs), IsOid(c.type, a)
      PROVE  Fits(c.type, a, AttrsOf(c)[a])
  <2>1. \E lc : ValueValid(Metadata[c.type][a], lc, ValueOf(c.attrs, a))
    BY <1>1, CreateValueChecked, SetValueChecked DEF Passes
  <2> QED
    BY <1>3, <2>1, SentFits
<1> QED
  BY <1>2, <1>3 DEF AllFit

LEMMA RefInvIsInductive == StoreInv /\ RefInv /\ [Next]_vars => RefInv'
<1> SUFFICES ASSUME StoreInv, RefInv, [Next]_vars PROVE RefInv'
  OBVIOUS
<1>1. CASE UNCHANGED <<store, job>>
  BY <1>1 DEF RefInv, AllFit, Fits
<1>2. ASSUME NEW c \in PassingCalls, c.op = "create", RefsKnown(c), NEW vid, NEW older,
             Created(c, vid, older)
      PROVE  RefInv'
  <2>1. AllFit(c.type, AttrsOf(c))
    BY <1>2, PassedFits
  <2>2. job'.type = c.type /\ job'.attrs = AttrsOf(c)
    BY <1>2 DEF Created, Job
  <2>3. DOMAIN store' \subseteq DOMAIN store /\ \A v \in DOMAIN store' : store'[v] = store[v]
    BY <1>2 DEF Created, Without
  <2> QED
    BY <2>1, <2>2, <2>3 DEF RefInv, AllFit, Fits
<1>3. ASSUME NEW c \in PassingCalls, Execute(c) PROVE RefInv'
  <2>1. CASE c.op = "create" /\ CreateObject(c)
    BY <1>1, <1>2, <2>1 DEF CreateObject, syncd
  <2>2. CASE c.op = "create" /\ CreateLinecard(c)
    <3>1. RefsKnown(c)
      BY <2>2 DEF PassingCalls, Passes, CreateValid, LinecardIdValid, CreateLinecard, RefsKnown,
                  Passed, IsOid
    <3> QED
      BY <1>1, <1>2, <2>2, <3>1 DEF CreateLinecard, syncd
  <2>3. CASE c.op = "set" /\ SetAttribute(c)
    <3>1. CASE RefsKnown(c) /\ store' = store /\ job' = Job(c, c.oid)
      <4>1. AllFit(c.type, AttrsOf(c))
        BY <2>3, <3>1, PassedFits
      <4>2. job'.type = c.type /\ job'.attrs = AttrsOf(c)
        BY <3>1 DEF Job
      <4> QED
        BY <3>1, <4>1, <4>2 DEF RefInv, AllFit, Fits
    <3> QED
      BY <1>1, <2>3, <3>1 DEF SetAttribute, syncd
  <2>4. CASE RemoveObject(c)
    <3>1. CASE store' = store /\ job' = [NoJob EXCEPT !.op = "remove", !.oid = c.oid, !.type = c.type]
      <4>1. DOMAIN job'.attrs = {}
        BY <3>1 DEF NoJob
      <4> QED
        BY <3>1, <4>1 DEF RefInv, AllFit, Fits
    <3> QED
      BY <1>1, <2>4, <3>1 DEF RemoveObject, syncd
  <2> QED
    BY <1>3, <2>1, <2>2, <2>3, <2>4 DEF Execute
<1>4. ASSUME SaveField PROVE RefInv'
  <2>1. PICK a \in DOMAIN job.attrs :
          /\ store' = WithField(job.oid, job.type, a, job.attrs[a])
          /\ job' = [job EXCEPT !.attrs = [b \in DOMAIN job.attrs \ {a} |-> job.attrs[b]]]
    BY <1>4 DEF SaveField
  <2>2. /\ job.op # "none" /\ job.type = ObjectTypeQuery(job.oid)
        /\ job = [op |-> job.op, oid |-> job.oid, type |-> job.type, attrs |-> job.attrs]
    BY <1>4 DEF SaveField, StoreInv, JobInv
  <2>3. AllFit(job'.type, job'.attrs)
    <3>1. job'.type = job.type /\ job'.attrs = [b \in DOMAIN job.attrs \ {a} |-> job.attrs[b]]
      BY <2>1, <2>2
    <3> QED
      BY <2>2, <3>1 DEF RefInv, AllFit
  <2>4. ASSUME NEW v \in DOMAIN store' PROVE AllFit(store'[v].type, store'[v].attrs)
    <3>1. CASE v # job.oid
      <4>1. v \in DOMAIN store /\ store'[v] = store[v]
        BY <2>1, <3>1 DEF WithField
      <4> QED
        BY <4>1 DEF RefInv
    <3>2. CASE v = job.oid
      <4> DEFINE old == IF v \in DOMAIN store THEN store[v].attrs ELSE <<>>
      <4>1. AllFit(job.type, old)
        <5>1. CASE v \in DOMAIN store
          BY <2>2, <3>2, <5>1 DEF RefInv, StoreInv
        <5>2. CASE v \notin DOMAIN store
          <6>1. DOMAIN <<>> = {}
            OBVIOUS
          <6> QED
            BY <5>2, <6>1 DEF AllFit
        <5> QED
          BY <5>1, <5>2
      <4>2. /\ store'[v].type = job.type
            /\ store'[v].attrs =
                 [b \in DOMAIN old \cup {a} |-> IF b = a THEN job.attrs[a] ELSE old[b]]
        BY <2>1, <3>2 DEF WithField
      <4>3. AllFit(job.type, job.attrs)
        BY <2>2 DEF RefInv
      <4> QED
        BY <4>1, <4>2, <4>3 DEF AllFit
    <3> QED
      BY <3>1, <3>2
  <2> QED
    BY <2>3, <2>4 DEF RefInv, AllFit, Fits
<1>5. ASSUME EndSave PROVE RefInv'
  <2>1. DOMAIN <<>> = {} /\ job'.op = "none"
    BY <1>5 DEF EndSave, NoJob
  <2> QED
    BY <1>5, <2>1 DEF EndSave, RefInv, AllFit, Fits
<1>6. ASSUME DeleteObject \/ Die PROVE RefInv'
  BY <1>6 DEF DeleteObject, Die, Without, NoJob, RefInv, AllFit, Fits
<1>7. ASSUME SyncdAllocates \/ Start PROVE RefInv'
  BY <1>1, <1>7 DEF SyncdAllocates, Start
<1> QED
  BY <1>1, <1>3, <1>4, <1>5, <1>6, <1>7 DEF Next, vars, syncd

(* Every reference in ASIC_STATE is to an ID of a type the attribute       *)
(* allows, on the linecard of the object, whatever calls a client makes    *)
(* and whatever the metadata are.                                          *)
THEOREM ReferencesFitAlways == Spec => []ReferencesFit
<1>1. Init => RefInv
  BY DEF Init, RefInv, NoJob
<1>2. StoreInv /\ RefInv => ReferencesFit
  BY DEF StoreInv, Tells, RefInv, AllFit, ReferencesFit, Fits
<1> QED
  BY <1>1, <1>2, StoreInvInvariant, RefInvIsInductive, PTL DEF Spec

-----------------------------------------------------------------------------
(* The client's pointers. *)

Recoverable == {p \in PointerAttr : Metadata[LINECARD][p].recoverable}

(* What the entry of the linecard has of a pointer. *)
SavedPointer(a) ==
  IF LinecardVid \in DOMAIN store /\ a \in DOMAIN store[LinecardVid].attrs
    THEN store[LinecardVid].attrs[a] ELSE <<>>

(* While syncd has still to write to that entry, the client has the        *)
(* pointers that will be there; once it has written, a linecard that it    *)
(* can translate has an entry.                                             *)
PointerInv ==
  /\ linecard = [made |-> linecard.made, pointers |-> linecard.pointers]
  /\ unsure \in BOOLEAN /\ linecard.made \in BOOLEAN
  /\ ~unsure /\ job.oid = LinecardVid =>
       /\ linecard.made
       /\ \A a \in Recoverable : linecard.pointers[a] =
            IF a \in DOMAIN job.attrs THEN job.attrs[a] ELSE SavedPointer(a)
  /\ ~unsure /\ job.oid # LinecardVid =>
       /\ linecard.made <=> LinecardVid \in DOMAIN store
       /\ LinecardVid \in known => LinecardVid \in DOMAIN store
       /\ linecard.made => \A a \in Recoverable : linecard.pointers[a] = SavedPointer(a)

(* IDs of another type than the linecard's are not the linecard's VID.     *)
LEMMA OtherTypeOtherVid ==
  ASSUME NEW oid, NEW t, ObjectTypeQuery(oid) = t, t # LINECARD
  PROVE  oid # LinecardVid
BY LinecardVidDecoded

(* What neither writes the entry of the linecard nor is about to, nor      *)
(* makes it known, does not matter.                                        *)
LEMMA PointerInvUntouched ==
  ASSUME PointerInv, UNCHANGED <<linecard, unsure>>,
         UNCHANGED job \/ (job.oid # LinecardVid /\ job'.oid # LinecardVid),
         LinecardVid \in known' => LinecardVid \in known,
         LinecardVid \in DOMAIN store' <=> LinecardVid \in DOMAIN store,
         LinecardVid \in DOMAIN store => store'[LinecardVid] = store[LinecardVid]
  PROVE  PointerInv'
<1>1. \A a : SavedPointer(a)' = SavedPointer(a)
  BY DEF SavedPointer
<1>2. Recoverable' = Recoverable
  BY DEF Recoverable, PointerAttr
<1> QED
  BY <1>1, <1>2 DEF PointerInv

LEMMA PointerInvCreateLinecard ==
  ASSUME StoreInv, PointerInv, NEW c, CreateLinecard(c)
  PROVE  PointerInv'
<1>1. PICK outcome \in {"failed", "lost", "answered"} :
        /\ IF outcome = "failed" THEN UNCHANGED syncd
           ELSE Serving /\ Created(c, LinecardVid, {LinecardVid} \cap known)
        /\ linecard' = MadeBy(c, outcome = "answered")
        /\ unsure' = IF outcome = "failed" THEN unsure ELSE (outcome = "lost" \/ LinecardUnmapped)
  BY DEF CreateLinecard
<1>2. CASE outcome = "failed"
  BY <1>1, <1>2, PointerInvUntouched DEF MadeBy, syncd
<1>3. CASE unsure' = TRUE
  BY <1>1, <1>3 DEF MadeBy, PointerInv
<1>4. CASE outcome = "answered" /\ ~LinecardUnmapped
  <2>1. /\ linecard' = [made |-> TRUE, pointers |-> Updated(NullPointers, c)]
        /\ job'.oid = LinecardVid /\ job'.attrs = AttrsOf(c)
        /\ LinecardVid \notin DOMAIN store'
    BY <1>1, <1>4 DEF MadeBy, Created, Job, Without, LinecardUnmapped
  <2>2. \A a \in PointerAttr : Updated(NullPointers, c)[a] =
          IF a \in DOMAIN AttrsOf(c) THEN AttrsOf(c)[a] ELSE <<>>
    BY DEF Updated, NullPointers, AttrsOf
  <2>3. \A a : SavedPointer(a)' = <<>>
    BY <2>1 DEF SavedPointer
  <2>4. unsure' = FALSE
    BY <1>1, <1>4
  <2>5. Recoverable' = Recoverable /\ Recoverable \subseteq PointerAttr
    BY DEF Recoverable, PointerAttr
  <2> QED
    BY <2>1, <2>2, <2>3, <2>4, <2>5 DEF PointerInv
<1>5. CASE outcome = "lost"
  BY <1>1, <1>3, <1>5
<1>6. CASE LinecardUnmapped /\ outcome # "failed"
  BY <1>1, <1>3, <1>6
<1> QED
  BY <1>1, <1>2, <1>4, <1>5, <1>6

LEMMA PointerInvSet ==
  ASSUME PointerInv, StoreInv, NEW c \in Calls, c.op = "set", SetAttribute(c),
         SetValid(c.type, c.oid, c.attrs[1])
  PROVE  PointerInv'
<1>1. ObjectTypeQuery(c.oid) = c.type /\ Passed(c.attrs) = {c.attrs[1].id}
  <2>1. DOMAIN c.attrs = {1}
    BY CallAssumption
  <2> QED
    BY <2>1 DEF SetValid, OidValid, Passed
<1>2. CASE UNCHANGED <<syncd, linecard, unsure>>
  BY <1>2, PointerInvUntouched DEF syncd
<1>3. CASE /\ Serving /\ c.oid \in known /\ c.type # LINECARD
           /\ UNCHANGED <<known, store, linecard, unsure>>
           /\ job' = job \/ job' = Job(c, c.oid)
  <2>1. c.oid # LinecardVid
    BY <1>1, <1>3, OtherTypeOtherVid
  <2>2. job.oid # LinecardVid
    BY <1>3, LinecardTells DEF Serving, NoJob
  <2>3. UNCHANGED job \/ (job.oid # LinecardVid /\ job'.oid # LinecardVid)
    BY <1>3, <2>1, <2>2 DEF Job
  <2> QED
    BY <1>3, <2>3, PointerInvUntouched
<1>4. ASSUME Serving, c.oid \in known, c.type = LINECARD, UNCHANGED <<known, store>>,
             job' = IF Metadata[c.type][c.attrs[1].id].recoverable THEN Job(c, c.oid) ELSE job,
             NEW answered \in BOOLEAN,
             linecard' = (IF answered /\ linecard.made
                           THEN [linecard EXCEPT !.pointers = Updated(@, c)] ELSE linecard),
             unsure' = (unsure \/ ~answered)
      PROVE  PointerInv'
  <2>1. c.oid = LinecardVid
    BY <1>1, <1>4, LinecardTells DEF StoreInv, Tells
  <2>2. CASE unsure'
    BY <1>4, <2>2 DEF PointerInv
  <2>3. CASE ~unsure'
    <3>1. job = NoJob /\ job.oid # LinecardVid
      BY <1>4, LinecardTells DEF Serving, NoJob
    <3>2. /\ ~unsure /\ answered /\ linecard.made /\ LinecardVid \in DOMAIN store
          /\ \A a \in Recoverable : linecard.pointers[a] = SavedPointer(a)
      BY <1>4, <2>1, <2>3, <3>1 DEF PointerInv
    <3>3. linecard' = [made |-> TRUE, pointers |-> Updated(linecard.pointers, c)]
      BY <1>4, <3>2 DEF PointerInv
    <3>4. \A a : SavedPointer(a)' = SavedPointer(a)
      BY <1>4 DEF SavedPointer
    <3>5. Recoverable' = Recoverable /\ Recoverable \subseteq PointerAttr
      BY DEF Recoverable, PointerAttr
    <3>6. DOMAIN AttrsOf(c) = Passed(c.attrs)
      BY DEF AttrsOf
    <3>7. CASE Metadata[c.type][c.attrs[1].id].recoverable
      <4>1. job'.oid = LinecardVid /\ job'.attrs = AttrsOf(c)
        BY <1>4, <2>1, <3>7 DEF Job
      <4>2. \A a \in Recoverable : linecard'.pointers[a] =
              IF a \in DOMAIN AttrsOf(c) THEN AttrsOf(c)[a] ELSE SavedPointer(a)
        BY <3>2, <3>3, <3>5, <3>6 DEF Updated
      <4>3. /\ linecard' = [made |-> linecard'.made, pointers |-> linecard'.pointers]
            /\ linecard'.made = TRUE /\ unsure' = FALSE
        BY <1>4, <3>2, <3>3
      <4>4. \A a \in Recoverable' : linecard'.pointers[a] =
              IF a \in DOMAIN job'.attrs THEN job'.attrs[a] ELSE SavedPointer(a)'
        BY <3>4, <3>5, <4>1, <4>2
      <4> QED
        BY <4>1, <4>3, <4>4 DEF PointerInv
    <3>8. CASE ~Metadata[c.type][c.attrs[1].id].recoverable
      <4>1. job' = job
        BY <1>4, <3>8
      <4>2. c.attrs[1].id \notin Recoverable
        BY <1>4, <3>8 DEF Recoverable
      <4>3. \A a \in Recoverable : linecard'.pointers[a] = linecard.pointers[a]
        BY <1>1, <3>3, <3>5, <4>2 DEF Updated
      <4> QED
        BY <1>4, <2>3, <3>1, <3>2, <3>3, <3>4, <3>5, <4>1, <4>3 DEF PointerInv
    <3> QED
      BY <3>7, <3>8
  <2> QED
    BY <2>2, <2>3
<1> QED
  BY <1>2, <1>3, <1>4 DEF SetAttribute

(* One field of the job is written: the pointers to come stay the same.    *)
LEMMA PointerInvSave ==
  ASSUME StoreInv, PointerInv, SaveField
  PROVE  PointerInv'
<1>1. PICK a \in DOMAIN job.attrs :
        /\ store' = WithField(job.oid, job.type, a, job.attrs[a])
        /\ job' = [job EXCEPT !.attrs = [b \in DOMAIN job.attrs \ {a} |-> job.attrs[b]]]
  BY DEF SaveField
<1>2. /\ job'.oid = job.oid /\ job'.attrs = [b \in DOMAIN job.attrs \ {a} |-> job.attrs[b]]
      /\ UNCHANGED <<known, linecard, unsure>>
  BY <1>1 DEF SaveField, StoreInv, JobInv
<1>3. CASE job.oid # LinecardVid
  <2>1. /\ LinecardVid \in DOMAIN store' <=> LinecardVid \in DOMAIN store
        /\ LinecardVid \in DOMAIN store => store'[LinecardVid] = store[LinecardVid]
    BY <1>1, <1>3 DEF WithField
  <2> QED
    BY <1>2, <1>3, <2>1, PointerInvUntouched
<1>4. CASE job.oid = LinecardVid
  <2> DEFINE old == IF LinecardVid \in DOMAIN store THEN store[LinecardVid].attrs ELSE <<>>
  <2>1. /\ LinecardVid \in DOMAIN store'
        /\ store'[LinecardVid].attrs =
             [b \in DOMAIN old \cup {a} |-> IF b = a THEN job.attrs[a] ELSE old[b]]
    BY <1>1, <1>4 DEF WithField
  <2>2. \A p : SavedPointer(p)' = IF p = a THEN job.attrs[a] ELSE SavedPointer(p)
    <3>1. DOMAIN <<>> = {}
      OBVIOUS
    <3> QED
      BY <2>1, <3>1 DEF SavedPointer
  <2>3. Recoverable' = Recoverable
    BY DEF Recoverable, PointerAttr
  <2>4. ASSUME ~unsure, NEW p \in Recoverable
        PROVE  linecard.pointers[p] =
                 IF p \in DOMAIN job'.attrs THEN job'.attrs[p] ELSE SavedPointer(p)'
    <3>1. linecard.pointers[p] = IF p \in DOMAIN job.attrs THEN job.attrs[p] ELSE SavedPointer(p)
      BY <1>4, <2>4 DEF PointerInv
    <3> QED
      BY <1>2, <2>2, <3>1
  <2> QED
    BY <1>2, <1>4, <2>3, <2>4 DEF PointerInv
<1> QED
  BY <1>3, <1>4

LEMMA PointerInvEnd ==
  ASSUME StoreInv, PointerInv, EndSave
  PROVE  PointerInv'
<1>1. job'.oid # LinecardVid /\ UNCHANGED <<known, linecard, unsure>>
  BY LinecardTells DEF EndSave, NoJob
<1>2. CASE job.oid # LinecardVid
  <2>1. /\ LinecardVid \in DOMAIN store' <=> LinecardVid \in DOMAIN store
        /\ LinecardVid \in DOMAIN store => store'[LinecardVid] = store[LinecardVid]
    BY <1>2 DEF EndSave
  <2> QED
    BY <1>1, <1>2, <2>1, PointerInvUntouched
<1>3. CASE job.oid = LinecardVid
  <2>1. LinecardVid \in DOMAIN store'
    BY <1>3 DEF EndSave
  <2>2. \A p : SavedPointer(p)' = SavedPointer(p)
    <3>1. DOMAIN <<>> = {}
      OBVIOUS
    <3> QED
      BY <1>3, <3>1 DEF EndSave, SavedPointer
  <2>3. Recoverable' = Recoverable
    BY DEF Recoverable, PointerAttr
  <2>4. DOMAIN job.attrs = {}
    BY DEF EndSave
  <2> QED
    BY <1>1, <1>3, <2>1, <2>2, <2>3, <2>4 DEF PointerInv
<1> QED
  BY <1>2, <1>3

LEMMA PointerInvIsInductive == StoreInv /\ PointerInv /\ [Next]_vars => PointerInv'
<1> SUFFICES ASSUME StoreInv, PointerInv, [Next]_vars PROVE PointerInv'
  OBVIOUS
<1>1. CASE UNCHANGED <<known, store, job, linecard, unsure>>
  BY <1>1, PointerInvUntouched
<1>2. ASSUME NEW c \in PassingCalls, Execute(c) PROVE PointerInv'
  <2>1. c \in Calls /\ Passes(c)
    BY DEF PassingCalls
  <2>2. CASE c.op = "create" /\ CreateObject(c)
    <3> DEFINE k == counter + 1
               vid == ConstructObjectId(c.type, LinecardIndex(c.linecard), k)
    <3>1. CASE UNCHANGED syncd
      BY <1>1, <2>2, <3>1 DEF CreateObject, syncd
    <3>2. ASSUME InRange(k), Serving,
                 NEW older \in {{}} \cup {{v} : v \in {w \in known : ObjectTypeQuery(w) = c.type}},
                 Created(c, vid, older)
          PROVE  PointerInv'
      <4>1. c.type \in ObjectType /\ c.type # LINECARD
        BY <2>1, <2>2 DEF Passes, CreateValid, CreateObject
      <4>2. LinecardIndex(c.linecard) \in 0 .. LinecardSize - 1 /\ k \in 0 .. MaxIndex
        BY <3>2, PassingCallOK, LinecardIndexInRange DEF InRange, StoreInv
      <4>3. vid # LinecardVid
        BY <4>1, <4>2, TypeOfConstructed, OtherTypeOtherVid
      <4>4. LinecardVid \notin older
        BY <4>1, OtherTypeOtherVid
      <4> HIDE DEF vid
      <4>5. /\ LinecardVid \in DOMAIN store' <=> LinecardVid \in DOMAIN store
            /\ LinecardVid \in DOMAIN store => store'[LinecardVid] = store[LinecardVid]
            /\ LinecardVid \in known' => LinecardVid \in known
            /\ job'.oid # LinecardVid
        BY <3>2, <4>3, <4>4 DEF Created, Without, Job
      <4>6. job.oid # LinecardVid
        BY <3>2, LinecardTells DEF Serving, NoJob
      <4> QED
        BY <2>2, <4>5, <4>6, PointerInvUntouched DEF CreateObject
    <3> QED
      BY <2>2, <3>1, <3>2 DEF CreateObject
  <2>3. CASE c.op = "create" /\ CreateLinecard(c)
    BY <2>3, PointerInvCreateLinecard
  <2>4. CASE c.op = "set" /\ SetAttribute(c)
    BY <2>1, <2>4, PointerInvSet DEF Passes
  <2>5. CASE c.op = "remove" /\ RemoveObject(c)
    <3>1. CASE UNCHANGED syncd
      BY <1>1, <2>5, <3>1 DEF RemoveObject, syncd
    <3>2. CASE /\ Serving /\ known' = known \ {c.oid} /\ store' = store
               /\ UNCHANGED <<linecard, unsure>>
               /\ \/ job' = job
                  \/ /\ c.type # LINECARD
                     /\ job' = [NoJob EXCEPT !.op = "remove", !.oid = c.oid, !.type = c.type]
      <4>1. ObjectTypeQuery(c.oid) = c.type
        BY <2>1, <2>5 DEF Passes, RemoveValid, OidValid
      <4>2. job.oid # LinecardVid
        BY <3>2, LinecardTells DEF Serving, NoJob
      <4>3. UNCHANGED job \/ (job.oid # LinecardVid /\ job'.oid # LinecardVid)
        BY <3>2, <4>1, <4>2, OtherTypeOtherVid DEF NoJob
      <4> QED
        BY <3>2, <4>3, PointerInvUntouched
    <3> QED
      BY <2>5, <3>1, <3>2 DEF RemoveObject, syncd
  <2> QED
    BY <1>2, <2>2, <2>3, <2>4, <2>5 DEF Execute
<1>3. ASSUME SyncdAllocates PROVE PointerInv'
  <2>1. PICK t \in ObjectType \ {LINECARD} : known' = IF InRange(counter + 1)
           THEN known \cup {ConstructObjectId(t, LinecardIndex(LinecardVid), counter + 1)} ELSE known
    BY <1>3 DEF SyncdAllocates
  <2>2. LinecardVid \in known
    BY <1>3 DEF SyncdAllocates
  <2> QED
    BY <1>3, <2>2, PointerInvUntouched DEF SyncdAllocates
<1>4. ASSUME DeleteObject PROVE PointerInv'
  <2>1. job.oid # LinecardVid /\ job'.oid # LinecardVid
    BY <1>4, OtherTypeOtherVid, LinecardTells DEF DeleteObject, NoJob, StoreInv, JobInv
  <2> QED
    BY <1>4, <2>1, PointerInvUntouched DEF DeleteObject, Without
<1>5. ASSUME Die PROVE PointerInv'
  <2>1. job'.oid # LinecardVid
    BY <1>5, LinecardTells DEF Die, NoJob
  <2>2. CASE job.oid = LinecardVid
    BY <1>5, <2>2 DEF Die, PointerInv
  <2>3. CASE job.oid # LinecardVid
    BY <1>5, <2>1, <2>3, PointerInvUntouched DEF Die, PointerInv
  <2> QED
    BY <2>2, <2>3
<1>6. ASSUME Start PROVE PointerInv'
  BY <1>1, <1>6 DEF Start
<1> QED
  BY <1>1, <1>2, <1>3, <1>4, <1>5, <1>6, PointerInvSave, PointerInvEnd DEF Next, vars, syncd

(* The pointers by which the client delivers notifications are those syncd *)
(* has saved when it has nothing more to write for the linecard, but       *)
(* between the loss of an answer about the linecard, or a death before     *)
(* that write, and the next create of it that is answered.                 *)
THEOREM PointersInStepAlways == Spec => []PointersInStep
<1>1. Init => PointerInv
  <2> SUFFICES ASSUME Init PROVE PointerInv
    OBVIOUS
  <2>1. linecard = [made |-> FALSE, pointers |-> NullPointers]
    BY DEF Init
  <2>2. ~linecard.made /\ LinecardVid \notin DOMAIN store /\ unsure = FALSE
    BY <2>1 DEF Init
  <2>3. known = {} /\ job.oid # LinecardVid
    BY LinecardTells DEF Init, NoJob
  <2> QED
    BY <2>1, <2>2, <2>3 DEF PointerInv
<1>2. PointerInv => PointersInStep
  BY DEF PointerInv, PointersInStep, SavedPointer, Recoverable
<1> QED
  BY <1>1, <1>2, StoreInvInvariant, PointerInvIsInductive, PTL DEF Spec

-----------------------------------------------------------------------------
(* Types.  What syncd knows or has saved is the linecard or has an ID that *)
(* was allocated: a create that syncd carries out has its ID from the      *)
(* counter below the limit, so the ID is among the issued ones.            *)

(* Of the linecard. *)
CardType(lc) ==
  /\ lc = [made |-> lc.made, pointers |-> lc.pointers]
  /\ lc.made \in BOOLEAN /\ DOMAIN lc.pointers = PointerAttr

WasIssued(vids, v) == v = LinecardVid \/ \E i \in DOMAIN vids : vids[i] = v

TypeInv ==
  /\ counter \in 0 .. IndexSize
  /\ issued \in Seq(Nat) /\ Len(issued) <= counter
  /\ \A v \in known \cup DOMAIN store : WasIssued(issued, v)
  /\ \A v \in DOMAIN store : DOMAIN store[v].attrs \subseteq DOMAIN Metadata[store[v].type]
  /\ job.op # "none" => WasIssued(issued, job.oid)
  /\ DOMAIN job.attrs \subseteq DOMAIN Metadata[job.type] \/ DOMAIN job.attrs = {}
  /\ up \in BOOLEAN
  /\ CardType(linecard) /\ unsure \in BOOLEAN

LEMMA CardStaysTyped ==
  ASSUME CardType(linecard), NEW c
  PROVE  /\ \A answered \in BOOLEAN : CardType(MadeBy(c, answered))
         /\ CardType([linecard EXCEPT !.pointers = Updated(@, c)])
<1>1. ASSUME NEW p PROVE CardType([made |-> TRUE, pointers |-> Updated(p, c)])
  BY DEF CardType, Updated
<1>2. ASSUME NEW m \in BOOLEAN, NEW p
      PROVE  CardType([made |-> m, pointers |-> Updated(p, c)])
  BY DEF CardType, Updated
<1>3. [linecard EXCEPT !.pointers = Updated(@, c)] =
        [made |-> linecard.made, pointers |-> Updated(linecard.pointers, c)]
  BY DEF CardType
<1>4. CardType([linecard EXCEPT !.pointers = Updated(@, c)])
  BY <1>2, <1>3 DEF CardType
<1> QED
  BY <1>1, <1>4 DEF MadeBy

(* The IDs that were issued stay, and the new one is among them.           *)
LEMMA AllocateIssues ==
  ASSUME TypeInv, NEW t \in Nat, NEW lc \in Nat, Allocate(t, lc)
  PROVE  LET vid == ConstructObjectId(t, LinecardIndex(lc), counter + 1) IN
         /\ counter' \in 0 .. IndexSize
         /\ issued' \in Seq(Nat) /\ Len(issued') <= counter'
         /\ \A i \in DOMAIN issued : i \in DOMAIN issued' /\ issued'[i] = issued[i]
         /\ InRange(counter + 1) => \E i \in DOMAIN issued' : issued'[i] = vid
<1> DEFINE k == counter + 1
           vid == ConstructObjectId(t, LinecardIndex(lc), k)
<1>1. counter' \in 0 .. IndexSize /\ counter' = k /\ counter \in Nat
  BY SizeAssumption DEF Allocate, TypeInv
<1>2. CASE ~InRange(k)
  BY <1>1, <1>2 DEF Allocate, TypeInv
<1>3. CASE InRange(k)
  <2>1. k \in 0 .. MaxIndex
    BY <1>1, <1>3 DEF InRange
  <2>2. vid \in Nat
    <3>1. LinecardIndex(lc) \in Nat
      BY LinecardIndexInRange
    <3> QED
      BY <2>1, <3>1, IndexOfConstructed
  <2>3. issued' = Append(issued, vid)
    BY <1>3 DEF Allocate
  <2> HIDE DEF vid
  <2>4. /\ issued \in Seq(Nat)
        /\ DOMAIN issued = 1 .. Len(issued)
        /\ issued' \in Seq(Nat)
        /\ Len(issued') = Len(issued) + 1
        /\ DOMAIN issued' = 1 .. Len(issued) + 1
        /\ \A i \in 1 .. Len(issued) : issued'[i] = issued[i]
        /\ issued'[Len(issued) + 1] = vid
    BY <2>2, <2>3 DEF TypeInv
  <2>5. Len(issued) \in Nat /\ Len(issued) <= counter
    BY <2>4 DEF TypeInv
  <2>6. Len(issued') <= counter'
    BY <1>1, <2>4, <2>5
  <2>7. \A i \in DOMAIN issued : i \in DOMAIN issued' /\ issued'[i] = issued[i]
    BY <2>4, <2>5
  <2>8. Len(issued) + 1 \in DOMAIN issued'
    BY <2>4, <2>5
  <2> QED
    BY <1>1, <2>4, <2>6, <2>7, <2>8 DEF vid
<1> QED
  BY <1>2, <1>3

(* The attributes of a call that passed are attributes of its type.        *)
LEMMA PassedKnown ==
  ASSUME NEW c \in Calls, c.op \in {"create", "set"}, Passes(c)
  PROVE  Passed(c.attrs) \subseteq DOMAIN Metadata[c.type]
<1>1. CASE c.op = "create"
  BY <1>1 DEF Passes, CreateValid, AttributeValid, Passed
<1>2. CASE c.op = "set"
  <2>1. DOMAIN c.attrs = {1}
    BY <1>2, CallAssumption
  <2> QED
    BY <1>2, <2>1 DEF Passes, SetValid, Passed
<1> QED
  BY <1>1, <1>2

(* What is in the database, and what is going there. *)
SyncdType ==
  /\ \A v \in known \cup DOMAIN store : WasIssued(issued, v)
  /\ \A v \in DOMAIN store : DOMAIN store[v].attrs \subseteq DOMAIN Metadata[store[v].type]
  /\ job.op # "none" => WasIssued(issued, job.oid)
  /\ DOMAIN job.attrs \subseteq DOMAIN Metadata[job.type] \/ DOMAIN job.attrs = {}
  /\ up \in BOOLEAN

IdsType == counter \in 0 .. IndexSize /\ issued \in Seq(Nat) /\ Len(issued) <= counter

(* Issued IDs stay issued. *)
LEMMA IdsStay ==
  ASSUME UNCHANGED ids, NEW v, WasIssued(issued, v)
  PROVE  WasIssued(issued', v)
BY DEF ids

LEMMA CreatedTyped ==
  ASSUME SyncdType, NEW c \in PassingCalls, c.op = "create", NEW vid, NEW older,
         Created(c, vid, older), WasIssued(issued', vid),
         \A v : WasIssued(issued, v) => WasIssued(issued', v)
  PROVE  SyncdType'
<1>1. Passed(c.attrs) \subseteq DOMAIN Metadata[c.type]
  BY PassedKnown DEF PassingCalls
<1>2. /\ job'.oid = vid /\ job'.type = c.type /\ DOMAIN job'.attrs = Passed(c.attrs)
  BY DEF Created, Job, AttrsOf
<1>3. /\ known' \subseteq known \cup {vid} /\ up' = up
      /\ DOMAIN store' \subseteq DOMAIN store
      /\ \A v \in DOMAIN store' : store'[v] = store[v]
  BY DEF Created, Without
<1>4. \A v \in known' \cup DOMAIN store' : WasIssued(issued', v)
  BY <1>3 DEF SyncdType
<1>5. \A v \in DOMAIN store' : DOMAIN store'[v].attrs \subseteq DOMAIN Metadata[store'[v].type]
  BY <1>3 DEF SyncdType
<1>6. WasIssued(issued', job'.oid)
  BY <1>2
<1> QED
  BY <1>1, <1>2, <1>3, <1>4, <1>5, <1>6 DEF SyncdType

LEMMA SyncdTypeIsInductive == StoreInv /\ TypeInv /\ [Next]_vars => SyncdType'
<1> SUFFICES ASSUME StoreInv, TypeInv, [Next]_vars PROVE SyncdType'
  OBVIOUS
<1>1. SyncdType
  BY DEF TypeInv, SyncdType
<1>2. ASSUME NEW t \in Nat, NEW lc \in Nat, Allocate(t, lc)
      PROVE  /\ \A v : WasIssued(issued, v) => WasIssued(issued', v)
             /\ InRange(counter + 1) =>
                  WasIssued(issued', ConstructObjectId(t, LinecardIndex(lc), counter + 1))
  <2> DEFINE vid == ConstructObjectId(t, LinecardIndex(lc), counter + 1)
  <2>1. /\ \A i \in DOMAIN issued : i \in DOMAIN issued' /\ issued'[i] = issued[i]
        /\ InRange(counter + 1) => \E i \in DOMAIN issued' : issued'[i] = vid
    BY <1>2, AllocateIssues
  <2> HIDE DEF vid
  <2>2. ASSUME NEW v, WasIssued(issued, v) PROVE WasIssued(issued', v)
    BY <2>1, <2>2 DEF WasIssued
  <2>3. InRange(counter + 1) => WasIssued(issued', vid)
    BY <2>1 DEF WasIssued
  <2> QED
    BY <2>2, <2>3 DEF vid
<1>3. ASSUME UNCHANGED syncd, \A v : WasIssued(issued, v) => WasIssued(issued', v) PROVE SyncdType'
  BY <1>1, <1>3 DEF SyncdType, syncd
<1>4. ASSUME NEW c \in PassingCalls, c.op = "create", CreateObject(c) PROVE SyncdType'
  <2> DEFINE vid == ConstructObjectId(c.type, LinecardIndex(c.linecard), counter + 1)
  <2>1. \A v : WasIssued(issued, v) => WasIssued(issued', v)
    BY <1>2, <1>4, PassingCallOK DEF CreateObject
  <2>2. InRange(counter + 1) => WasIssued(issued', vid)
    BY <1>2, <1>4, PassingCallOK DEF CreateObject
  <2>3. CASE UNCHANGED syncd
    BY <1>3, <2>1, <2>3
  <2>4. ASSUME InRange(counter + 1), NEW older, Created(c, vid, older) PROVE SyncdType'
    <3> HIDE DEF vid
    <3> QED
      BY <1>1, <1>4, <2>1, <2>2, <2>4, CreatedTyped
  <2> QED
    BY <1>4, <2>3, <2>4 DEF CreateObject
<1>5. ASSUME UNCHANGED ids PROVE \A v : WasIssued(issued, v) => WasIssued(issued', v)
  BY <1>5, IdsStay
<1>6. ASSUME NEW c \in PassingCalls, c.op = "create", CreateLinecard(c) PROVE SyncdType'
  <2>1. \A v : WasIssued(issued, v) => WasIssued(issued', v)
    BY <1>5, <1>6 DEF CreateLinecard
  <2>2. WasIssued(issued', LinecardVid)
    BY <2>1 DEF WasIssued
  <2> QED
    BY <1>1, <1>3, <1>6, <2>1, <2>2, CreatedTyped DEF CreateLinecard
<1>7. ASSUME NEW c \in PassingCalls, c.op = "set", SetAttribute(c) PROVE SyncdType'
  <2>1. \A v : WasIssued(issued, v) => WasIssued(issued', v)
    BY <1>5, <1>7 DEF SetAttribute
  <2>2. CASE c.oid \in known /\ UNCHANGED <<known, store, up>> /\ (job' = job \/ job' = Job(c, c.oid))
    <3>1. WasIssued(issued', c.oid)
      BY <1>1, <2>1, <2>2 DEF SyncdType
    <3>2. Passed(c.attrs) \subseteq DOMAIN Metadata[c.type]
      BY <1>7, PassedKnown DEF PassingCalls
    <3>3. CASE job' = Job(c, c.oid)
      <4>1. job'.oid = c.oid /\ job'.type = c.type /\ DOMAIN job'.attrs = Passed(c.attrs)
        BY <3>3 DEF Job, AttrsOf
      <4>2. WasIssued(issued', job'.oid)
        BY <3>1, <4>1
      <4> QED
        BY <1>1, <2>1, <2>2, <3>2, <4>1, <4>2 DEF SyncdType
    <3>4. CASE job' = job
      BY <1>1, <2>1, <2>2, <3>4 DEF SyncdType
    <3> QED
      BY <2>2, <3>3, <3>4
  <2> QED
    BY <1>3, <1>7, <2>1, <2>2 DEF SetAttribute, syncd
<1>8. ASSUME NEW c \in PassingCalls, RemoveObject(c) PROVE SyncdType'
  <2>1. \A v : WasIssued(issued, v) => WasIssued(issued', v)
    BY <1>5, <1>8 DEF RemoveObject
  <2>2. CASE /\ c.oid \in known /\ known' = known \ {c.oid} /\ store' = store /\ up' \in BOOLEAN
             /\ job' = job \/ job' = [NoJob EXCEPT !.op = "remove", !.oid = c.oid, !.type = c.type]
    <3>1. WasIssued(issued', c.oid)
      BY <1>1, <2>1, <2>2 DEF SyncdType
    <3>2. CASE job' = job
      BY <1>1, <2>1, <2>2, <3>2 DEF SyncdType
    <3>3. CASE job' = [NoJob EXCEPT !.op = "remove", !.oid = c.oid, !.type = c.type]
      <4>1. job'.oid = c.oid /\ DOMAIN job'.attrs = {}
        BY <3>3 DEF NoJob
      <4>2. WasIssued(issued', job'.oid)
        BY <3>1, <4>1
      <4> QED
        BY <1>1, <2>1, <2>2, <4>1, <4>2 DEF SyncdType
    <3> QED
      BY <2>2, <3>2, <3>3
  <2> QED
    BY <1>1, <1>3, <1>8, <2>1, <2>2 DEF RemoveObject, SyncdType
<1>9. ASSUME SyncdAllocates PROVE SyncdType'
  <2>1. PICK t \in ObjectType \ {LINECARD} :
          /\ Allocate(t, LinecardVid)
          /\ known' = IF InRange(counter + 1)
               THEN known \cup {ConstructObjectId(t, LinecardIndex(LinecardVid), counter + 1)}
               ELSE known
    BY <1>9 DEF SyncdAllocates
  <2> DEFINE vid == ConstructObjectId(t, LinecardIndex(LinecardVid), counter + 1)
  <2>2. (\A v : WasIssued(issued, v) => WasIssued(issued', v)) /\ (InRange(counter + 1) => WasIssued(issued', vid))
    BY <1>2, <2>1, LinecardVidDecoded DEF ObjectType
  <2>3. known' = IF InRange(counter + 1) THEN known \cup {vid} ELSE known
    BY <2>1
  <2> HIDE DEF vid
  <2>4. up' \in BOOLEAN /\ store' = store /\ job' = job
    BY <1>9 DEF SyncdAllocates, InRange
  <2> QED
    BY <1>1, <2>2, <2>3, <2>4 DEF SyncdType
<1>10. ASSUME SaveField PROVE SyncdType'
  <2>1. \A v : WasIssued(issued, v) => WasIssued(issued', v)
    BY <1>5, <1>10 DEF SaveField
  <2>2. PICK a \in DOMAIN job.attrs :
          /\ store' = WithField(job.oid, job.type, a, job.attrs[a])
          /\ job' = [job EXCEPT !.attrs = [b \in DOMAIN job.attrs \ {a} |-> job.attrs[b]]]
    BY <1>10 DEF SaveField
  <2>3. /\ job.op # "none" /\ job.type = ObjectTypeQuery(job.oid)
        /\ known' = known /\ up' = up
        /\ job'.op = job.op /\ job'.oid = job.oid /\ job'.type = job.type
        /\ DOMAIN job'.attrs = DOMAIN job.attrs \ {a}
    BY <1>10, <2>2 DEF SaveField, StoreInv, JobInv
  <2>4. /\ DOMAIN store' = DOMAIN store \cup {job.oid}
        /\ \A v \in DOMAIN store' \ {job.oid} : store'[v] = store[v]
        /\ store'[job.oid].type = job.type
        /\ DOMAIN store'[job.oid].attrs =
             {a} \cup IF job.oid \in DOMAIN store THEN DOMAIN store[job.oid].attrs ELSE {}
    <3>1. DOMAIN <<>> = {}
      OBVIOUS
    <3> QED
      BY <2>2, <3>1 DEF WithField
  <2>5. WasIssued(issued', job.oid) /\ WasIssued(issued', job'.oid)
    BY <1>1, <2>1, <2>3 DEF SyncdType
  <2>6. \A v \in known' \cup DOMAIN store' : WasIssued(issued', v)
    BY <1>1, <2>1, <2>3, <2>4, <2>5 DEF SyncdType
  <2>7. \A v \in DOMAIN store' : DOMAIN store'[v].attrs \subseteq DOMAIN Metadata[store'[v].type]
    BY <1>1, <2>3, <2>4 DEF SyncdType, StoreInv
  <2> QED
    BY <1>1, <2>3, <2>5, <2>6, <2>7 DEF SyncdType
<1>11. ASSUME EndSave PROVE SyncdType'
  <2>1. \A v : WasIssued(issued, v) => WasIssued(issued', v)
    BY <1>5, <1>11 DEF EndSave
  <2>2. DOMAIN <<>> = {} /\ job'.op = "none" /\ DOMAIN job'.attrs = {}
    BY <1>11 DEF EndSave, NoJob
  <2>3. WasIssued(issued', job.oid)
    BY <1>1, <1>11, <2>1 DEF EndSave, SyncdType
  <2> QED
    BY <1>1, <1>11, <2>1, <2>2, <2>3 DEF EndSave, SyncdType
<1>12. ASSUME DeleteObject \/ Die PROVE SyncdType'
  <2>1. \A v : WasIssued(issued, v) => WasIssued(issued', v)
    BY <1>5, <1>12 DEF DeleteObject, Die
  <2>2. job'.op = "none" /\ DOMAIN job'.attrs = {}
    BY <1>12 DEF DeleteObject, Die, NoJob
  <2> QED
    BY <1>1, <1>12, <2>1, <2>2 DEF DeleteObject, Die, Without, SyncdType
<1>13. ASSUME Start PROVE SyncdType'
  <2>1. \A v : WasIssued(issued, v) => WasIssued(issued', v)
    BY <1>5, <1>13 DEF Start
  <2> QED
    BY <1>1, <1>13, <2>1 DEF Start, SyncdType
<1>14. CASE UNCHANGED vars
  BY <1>3, <1>5, <1>14 DEF vars
<1> QED
  BY <1>4, <1>6, <1>7, <1>8, <1>9, <1>10, <1>11, <1>12, <1>13, <1>14 DEF Next, Execute

LEMMA TypeInvIsInductive == StoreInv /\ TypeInv /\ [Next]_vars => TypeInv'
<1> SUFFICES ASSUME StoreInv, TypeInv, [Next]_vars PROVE TypeInv'
  OBVIOUS
<1>1. SyncdType'
  BY SyncdTypeIsInductive
<1>2. IdsType'
  <2>1. CASE UNCHANGED ids
    BY <2>1 DEF ids, TypeInv, IdsType
  <2>2. ASSUME NEW t \in Nat, NEW lc \in Nat, Allocate(t, lc) PROVE IdsType'
    BY <2>2, AllocateIssues DEF IdsType
  <2>3. ASSUME NEW c \in PassingCalls, CreateObject(c) PROVE IdsType'
    BY <2>2, <2>3, PassingCallOK DEF CreateObject
  <2>4. ASSUME SyncdAllocates PROVE IdsType'
    BY <2>2, <2>4, LinecardVidDecoded DEF SyncdAllocates, ObjectType
  <2> QED
    BY <2>1, <2>3, <2>4 DEF Next, Execute, CreateLinecard, SetAttribute, RemoveObject,
                            SaveField, EndSave, DeleteObject, Die, Start, vars
<1>3. CardType(linecard') /\ unsure' \in BOOLEAN
  <2>1. CardType(linecard) /\ unsure \in BOOLEAN
    BY DEF TypeInv
  <2>2. CASE UNCHANGED <<linecard, unsure>>
    BY <2>1, <2>2
  <2>3. ASSUME NEW c, CreateLinecard(c) PROVE CardType(linecard') /\ unsure' \in BOOLEAN
    BY <2>1, <2>3, CardStaysTyped DEF CreateLinecard, LinecardUnmapped
  <2>4. ASSUME NEW c, SetAttribute(c) PROVE CardType(linecard') /\ unsure' \in BOOLEAN
    <3>1. CardType([linecard EXCEPT !.pointers = Updated(@, c)])
      BY <2>1, CardStaysTyped
    <3> QED
      BY <2>1, <2>4, <3>1 DEF SetAttribute
  <2>5. CASE Die
    BY <2>1, <2>5 DEF Die
  <2> QED
    BY <2>2, <2>3, <2>4, <2>5 DEF Next, Execute, CreateObject, RemoveObject, SyncdAllocates,
                                  SaveField, EndSave, DeleteObject, Start, vars
<1>4. CardType(linecard)'
  BY <1>3 DEF CardType, PointerAttr
<1> QED
  BY <1>1, <1>2, <1>3, <1>4 DEF SyncdType, IdsType, TypeInv

(* VIDCOUNTER passes the last index by one at most, every object has an ID *)
(* that was allocated, and only attributes that its type has.              *)
THEOREM MetaApiTypeCorrect == Spec => []TypeOK
<1>1. Init => TypeInv
  <2> SUFFICES ASSUME Init PROVE TypeInv
    OBVIOUS
  <2>1. linecard = [made |-> FALSE, pointers |-> NullPointers]
    BY DEF Init
  <2> QED
    <3>1. CardType(linecard)
      BY <2>1 DEF CardType, NullPointers
    <3>2. counter \in 0 .. IndexSize
      BY SizeAssumption DEF Init
    <3>3. issued \in Seq(Nat) /\ Len(issued) <= counter
      BY DEF Init
    <3>4. unsure \in BOOLEAN
      BY DEF Init
    <3>5. /\ DOMAIN store = {} /\ known = {} /\ up \in BOOLEAN
          /\ job.op = "none" /\ DOMAIN job.attrs = {}
      BY DEF Init, NoJob
    <3> QED
      BY <3>1, <3>2, <3>3, <3>4, <3>5 DEF TypeInv
<1>2. StoreInv /\ TypeInv => TypeOK
  BY DEF TypeInv, TypeOK, CardType, StoreInv, JobInv, IsVid, WasIssued
<1> QED
  BY <1>1, <1>2, StoreInvInvariant, TypeInvIsInductive, PTL DEF Spec

-----------------------------------------------------------------------------
(* Mandatory and conditional attributes. *)

ValueIn(t, attrs, a) == IF a \in DOMAIN attrs THEN attrs[a] ELSE Metadata[t][a].default

AttrsComplete(t, attrs) ==
  \A a \in DOMAIN Metadata[t] :
    /\ Mandatory(t, a) => a \in DOMAIN attrs
    /\ (\E d \in Metadata[t][a].conditions : /\ ~Settable(Metadata[t][d.attr])
                                            /\ ValueIn(t, attrs, d.attr) = d.value)
         => a \in DOMAIN attrs

(* What the entry will be that syncd is writing.                           *)
OldAttrs == IF job.oid \in DOMAIN store THEN store[job.oid].attrs ELSE <<>>
Merged ==
  [b \in DOMAIN OldAttrs \cup DOMAIN job.attrs |->
     IF b \in DOMAIN job.attrs THEN job.attrs[b] ELSE OldAttrs[b]]

(* A create has all of it in what is written and what is to come, a set    *)
(* changes nothing that a condition of a create-only attribute looks at.   *)
CompleteInv ==
  /\ \A v \in DOMAIN store \ patched :
       (job.op = "create" /\ job.oid = v) \/ AttrsComplete(store[v].type, store[v].attrs)
  /\ job.op = "create" /\ job.oid \notin patched => AttrsComplete(job.type, Merged)
  /\ job.op = "set" =>
       /\ \A a \in DOMAIN job.attrs : Settable(Metadata[job.type][a])
       /\ job.oid \in DOMAIN store \cup patched

(* More attributes, and others only where they can be set, keep it.        *)
LEMMA StaysComplete ==
  ASSUME NEW t, NEW f, NEW g, AttrsComplete(t, f), DOMAIN f \subseteq DOMAIN g,
         \A a : ~Settable(Metadata[t][a]) => ValueIn(t, g, a) = ValueIn(t, f, a)
  PROVE  AttrsComplete(t, g)
BY DEF AttrsComplete

LEMMA ListOfOne ==
  ASSUME NEW list \in Seq(Nat), Len(list) = 1
  PROVE  list # <<>> /\ list = [i \in 1 .. 1 |-> list[i]]
<1>1. list # <<>>
  <2>1. DOMAIN list = {1}
    OBVIOUS
  <2>2. DOMAIN <<>> = {}
    OBVIOUS
  <2> QED
    BY <2>1, <2>2
<1>2. list = [i \in 1 .. Len(list) |-> list[i]]
  OBVIOUS
<1> QED
  BY <1>1, <1>2

LEMMA EntryOfSeq ==
  ASSUME NEW S, NEW s \in Seq(S), NEW i \in DOMAIN s
  PROVE  s[i] \in S
OBVIOUS

(* A scalar is stored as it was passed.                                    *)
LEMMA ScalarSentWhole ==
  ASSUME NEW c \in Calls, c.op = "create", CreateValid(c.type, c.linecard, c.attrs),
         NEW a \in Passed(c.attrs), Metadata[c.type][a].valuetype \in Scalar
  PROVE  AttrsOf(c)[a] = ValueOf(c.attrs, a).list
<1> DEFINE First(i) == c.attrs[i].id = a /\ \A j \in DOMAIN c.attrs : c.attrs[j].id = a => i <= j
           k == CHOOSE x \in DOMAIN c.attrs : First(x)
<1>1. k \in DOMAIN c.attrs /\ c.attrs[k].id = a
  <2>1. PICK i \in DOMAIN c.attrs : c.attrs[i].id = a
    BY DEF Passed
  <2>2. \A n \in DOMAIN c.attrs : \A j \in 1 .. n - 1 : c.attrs[j].id # c.attrs[n].id
    BY DEF CreateValid, AttributeValid
  <2>3. DOMAIN c.attrs = 1 .. Len(c.attrs) /\ Len(c.attrs) \in Nat
    BY CallAssumption
  <2>4. First(i)
    BY <2>1, <2>2, <2>3
  <2> QED
    BY <2>1, <2>4
<1>2. c.type \in ObjectType /\ a \in DOMAIN Metadata[c.type]
  BY DEF CreateValid, AttributeValid, Passed
<1> HIDE DEF k
<1> DEFINE value == c.attrs[k].value
<1>3. value.count = 1 /\ Len(value.list) = 1
  BY <1>1, <1>2, CallAssumption DEF ScalarsAreOne
<1>4. value.list \in Seq(Nat)
  <2> DEFINE Data == [count : Nat, list : Seq(Nat)]
  <2>1. c.attrs \in Seq([id : Nat, value : Data])
    BY CallAssumption
  <2> HIDE DEF Data
  <2>2. c.attrs[k] \in [id : Nat, value : Data]
    BY <1>1, <2>1, EntryOfSeq
  <2>3. value \in Data
    BY <2>2
  <2> QED
    BY <2>3 DEF Data
<1>5. Sent(value) = value.list
  <2> HIDE DEF value
  <2>1. value.list # <<>> /\ value.list = [i \in 1 .. 1 |-> value.list[i]]
    BY <1>3, <1>4, ListOfOne
  <2>2. Sent(value) = [i \in 1 .. 1 |-> value.list[i]]
    BY <1>3, <2>1 DEF Sent
  <2> QED
    BY <2>1, <2>2
<1>6. ValueOf(c.attrs, a) = value
  BY DEF ValueOf, k
<1> QED
  BY <1>5, <1>6 DEF AttrsOf

LEMMA CompleteUntouched ==
  ASSUME CompleteInv, UNCHANGED <<store, job, patched>>
  PROVE  CompleteInv'
<1>1. Merged' = Merged
  BY DEF Merged, OldAttrs
<1> QED
  BY <1>1 DEF CompleteInv

(* A create that Meta lets pass is complete. *)
LEMMA CreatedComplete ==
  ASSUME NEW c \in Calls, c.op = "create", CreateValid(c.type, c.linecard, c.attrs)
  PROVE  AttrsComplete(c.type, AttrsOf(c))
<1>1. DOMAIN AttrsOf(c) = Passed(c.attrs)
  BY DEF AttrsOf
<1>2. ASSUME NEW a \in DOMAIN Metadata[c.type]
      PROVE  /\ Mandatory(c.type, a) => a \in Passed(c.attrs)
             /\ (\E d \in Metadata[c.type][a].conditions :
                   ValueIn(c.type, AttrsOf(c), d.attr) = d.value) => a \in Passed(c.attrs)
  <2>1. Mandatory(c.type, a) => a \in Passed(c.attrs)
    BY DEF CreateValid
  <2>2. ASSUME NEW d \in Metadata[c.type][a].conditions
        PROVE  ValueIn(c.type, AttrsOf(c), d.attr) = ConditionValue(c.type, c.attrs, d.attr)
    <3>1. Metadata[c.type][d.attr].valuetype \in Scalar
      BY MetadataAssumption DEF CreateValid
    <3>2. CASE d.attr \in Passed(c.attrs)
      BY <1>1, <3>1, <3>2, ScalarSentWhole DEF ValueIn, ConditionValue
    <3>3. CASE d.attr \notin Passed(c.attrs)
      BY <1>1, <3>3 DEF ValueIn, ConditionValue
    <3> QED
      BY <3>2, <3>3
  <2>3. ConditionsValid(c.type, c.attrs, a)
    BY DEF CreateValid
  <2> QED
    BY <2>1, <2>2, <2>3 DEF ConditionsValid
<1> QED
  BY <1>1, <1>2 DEF AttrsComplete

(* Syncd begins to save it, in an entry of its own or one that counts as   *)
(* patched.                                                                *)
LEMMA CreateKeepsComplete ==
  ASSUME CompleteInv, Serving, NEW c \in PassingCalls, c.op = "create", NEW vid, NEW older,
         Created(c, vid, older)
  PROVE  CompleteInv'
<1>1. AttrsComplete(c.type, AttrsOf(c))
  BY CreatedComplete DEF PassingCalls, Passes
<1>2. /\ job'.op = "create" /\ job'.oid = vid /\ job'.type = c.type /\ job'.attrs = AttrsOf(c)
      /\ DOMAIN store' \subseteq DOMAIN store \ older
      /\ \A v \in DOMAIN store' : store'[v] = store[v]
      /\ patched' = (patched \ older) \cup ({vid} \cap DOMAIN store')
  BY DEF Created, Job, Without
<1>3. job.op = "none"
  BY DEF Serving, NoJob
<1>4. \A v \in DOMAIN store' \ patched' : AttrsComplete(store'[v].type, store'[v].attrs)
  BY <1>2, <1>3 DEF CompleteInv
<1>5. ASSUME vid \notin patched' PROVE AttrsComplete(c.type, Merged')
  <2>1. OldAttrs' = <<>> /\ DOMAIN <<>> = {}
    BY <1>2, <1>5 DEF OldAttrs
  <2>2. /\ DOMAIN Merged' = DOMAIN AttrsOf(c)
        /\ \A b \in DOMAIN AttrsOf(c) : Merged'[b] = AttrsOf(c)[b]
    BY <1>2, <2>1 DEF Merged
  <2>3. \A a : ValueIn(c.type, Merged', a) = ValueIn(c.type, AttrsOf(c), a)
    BY <2>2 DEF ValueIn
  <2> HIDE DEF Merged
  <2> QED
    BY <1>1, <2>2, <2>3, StaysComplete
<1> QED
  BY <1>2, <1>4, <1>5 DEF CompleteInv

LEMMA SaveKeepsComplete ==
  ASSUME StoreInv, CompleteInv, SaveField
  PROVE  CompleteInv'
<1>1. PICK a \in DOMAIN job.attrs :
        /\ store' = WithField(job.oid, job.type, a, job.attrs[a])
        /\ job' = [job EXCEPT !.attrs = [b \in DOMAIN job.attrs \ {a} |-> job.attrs[b]]]
  BY DEF SaveField
<1> DEFINE oid == job.oid
           t == job.type
<1>2. /\ job'.op = job.op /\ job'.oid = oid /\ job'.type = t
      /\ job'.attrs = [b \in DOMAIN job.attrs \ {a} |-> job.attrs[b]]
      /\ job.op \in {"create", "set"} /\ patched' = patched
      /\ oid \in DOMAIN store => store[oid].type = t
  BY <1>1 DEF SaveField, StoreInv, JobInv
<1>3. DOMAIN <<>> = {}
  OBVIOUS
<1>4. /\ DOMAIN store' = DOMAIN store \cup {oid}
      /\ \A v \in DOMAIN store' \ {oid} : store'[v] = store[v]
      /\ store'[oid].type = t
      /\ store'[oid].attrs =
           [b \in DOMAIN OldAttrs \cup {a} |-> IF b = a THEN job.attrs[a] ELSE OldAttrs[b]]
  BY <1>1 DEF WithField, OldAttrs
<1>5. OldAttrs' = store'[oid].attrs
  BY <1>2, <1>4 DEF OldAttrs
<1>6. \A v \in DOMAIN store' \ (patched \cup {oid}) : AttrsComplete(store'[v].type, store'[v].attrs)
  BY <1>4 DEF CompleteInv
<1>7. CASE job.op = "create"
  <2>1. ASSUME oid \notin patched PROVE AttrsComplete(t, Merged')
    <3>1. /\ DOMAIN Merged' = DOMAIN Merged
          /\ \A b \in DOMAIN Merged : Merged'[b] = Merged[b]
      BY <1>2, <1>4, <1>5 DEF Merged
    <3>2. \A b : ValueIn(t, Merged', b) = ValueIn(t, Merged, b)
      BY <3>1 DEF ValueIn
    <3>3. AttrsComplete(t, Merged)
      BY <1>7, <2>1 DEF CompleteInv
    <3> HIDE DEF t
    <3> QED
      BY <3>1, <3>2, <3>3, StaysComplete
  <2> QED
    BY <1>2, <1>6, <1>7, <2>1 DEF CompleteInv
<1>8. CASE job.op = "set"
  <2>1. ASSUME oid \notin patched PROVE AttrsComplete(t, store'[oid].attrs)
    <3>1. oid \in DOMAIN store
      BY <1>8, <2>1 DEF CompleteInv
    <3>2. AttrsComplete(t, OldAttrs)
      BY <1>2, <1>8, <2>1, <3>1 DEF CompleteInv, OldAttrs
    <3>3. Settable(Metadata[t][a])
      BY <1>8 DEF CompleteInv
    <3>4. \A b : ~Settable(Metadata[t][b]) =>
                   ValueIn(t, store'[oid].attrs, b) = ValueIn(t, OldAttrs, b)
      BY <1>4, <3>3 DEF ValueIn
    <3>5. DOMAIN OldAttrs \subseteq DOMAIN store'[oid].attrs
      BY <1>4
    <3> HIDE DEF t, oid
    <3> QED
      BY <3>2, <3>4, <3>5, StaysComplete
  <2>2. \A v \in DOMAIN store' \ patched : AttrsComplete(store'[v].type, store'[v].attrs)
    BY <1>4, <1>6, <2>1
  <2>3. \A b \in DOMAIN job'.attrs : Settable(Metadata[t][b])
    BY <1>2, <1>8 DEF CompleteInv
  <2> QED
    BY <1>2, <1>4, <1>8, <2>2, <2>3 DEF CompleteInv
<1> QED
  BY <1>2, <1>7, <1>8

LEMMA EndKeepsComplete ==
  ASSUME StoreInv, CompleteInv, EndSave
  PROVE  CompleteInv'
<1> DEFINE oid == job.oid
           t == job.type
<1>1. DOMAIN <<>> = {} /\ job'.op = "none" /\ patched' = patched
  BY DEF EndSave, NoJob
<1>2. /\ DOMAIN store' = DOMAIN store \cup {oid}
      /\ \A v \in DOMAIN store' \ {oid} : store'[v] = store[v]
      /\ store'[oid].type = t
      /\ store'[oid].attrs = OldAttrs
      /\ DOMAIN job.attrs = {}
  BY DEF EndSave, OldAttrs, StoreInv, JobInv
<1>3. \A v \in DOMAIN store' \ (patched \cup {oid}) : AttrsComplete(store'[v].type, store'[v].attrs)
  BY <1>2 DEF CompleteInv
<1>4. ASSUME oid \notin patched PROVE AttrsComplete(t, OldAttrs)
  <2>1. CASE job.op = "create"
    <3>1. AttrsComplete(t, Merged)
      BY <1>4, <2>1 DEF CompleteInv
    <3>2. DOMAIN Merged = DOMAIN OldAttrs /\ \A b \in DOMAIN OldAttrs : Merged[b] = OldAttrs[b]
      BY <1>2 DEF Merged
    <3>3. \A b : ValueIn(t, OldAttrs, b) = ValueIn(t, Merged, b)
      BY <3>2 DEF ValueIn
    <3> QED
      BY <3>1, <3>2, <3>3, StaysComplete
  <2>2. CASE job.op = "set"
    <3>1. oid \in DOMAIN store
      BY <1>4, <2>2 DEF CompleteInv
    <3>2. store[oid].type = t
      BY <3>1, <2>2 DEF StoreInv, JobInv
    <3> QED
      BY <1>4, <2>2, <3>1, <3>2 DEF CompleteInv, OldAttrs
  <2> QED
    BY <2>1, <2>2 DEF EndSave
<1>5. \A v \in DOMAIN store' \ patched : AttrsComplete(store'[v].type, store'[v].attrs)
  BY <1>2, <1>3, <1>4
<1> QED
  BY <1>1, <1>5 DEF CompleteInv

LEMMA SetKeepsComplete ==
  ASSUME CompleteInv, NEW c \in PassingCalls, c.op = "set", SetAttribute(c)
  PROVE  CompleteInv'
<1>1. CASE UNCHANGED <<store, job, patched>>
  BY <1>1, CompleteUntouched
<1>2. CASE /\ Serving /\ store' = store /\ job' = Job(c, c.oid)
           /\ patched' = patched \cup ({c.oid} \ DOMAIN store)
  <2>1. c \in Calls /\ SetValid(c.type, c.oid, c.attrs[1])
    BY DEF PassingCalls, Passes
  <2>2. \A a \in Passed(c.attrs) : Settable(Metadata[c.type][a])
    <3>1. DOMAIN c.attrs = {1}
      BY <2>1, CallAssumption
    <3> QED
      BY <2>1, <3>1 DEF SetValid, Passed
  <2>3. /\ job'.op = "set" /\ job'.oid = c.oid /\ job'.type = c.type
        /\ DOMAIN job'.attrs = Passed(c.attrs)
    BY <1>2 DEF Job, AttrsOf
  <2>4. job.op = "none"
    BY <1>2 DEF Serving, NoJob
  <2>5. \A v \in DOMAIN store \ patched' : AttrsComplete(store[v].type, store[v].attrs)
    BY <1>2, <2>4 DEF CompleteInv
  <2>6. c.oid \in DOMAIN store \cup patched'
    BY <1>2
  <2> QED
    BY <1>2, <2>2, <2>3, <2>5, <2>6 DEF CompleteInv
<1> QED
  BY <1>1, <1>2 DEF SetAttribute, syncd

LEMMA CompleteIsInductive == StoreInv /\ CompleteInv /\ [Next]_vars => CompleteInv'
<1> SUFFICES ASSUME StoreInv, CompleteInv, [Next]_vars PROVE CompleteInv'
  OBVIOUS
<1>1. CASE UNCHANGED <<store, job, patched>>
  BY <1>1, CompleteUntouched
<1>2. ASSUME NEW c \in PassingCalls, c.op = "create", CreateObject(c) PROVE CompleteInv'
  BY <1>1, <1>2, CreateKeepsComplete DEF CreateObject, syncd
<1>3. ASSUME NEW c \in PassingCalls, c.op = "create", CreateLinecard(c) PROVE CompleteInv'
  BY <1>1, <1>3, CreateKeepsComplete DEF CreateLinecard, syncd
<1>4. ASSUME NEW c \in PassingCalls, RemoveObject(c) PROVE CompleteInv'
  <2>1. CASE Serving /\ UNCHANGED <<store, patched>> /\ job'.op = "remove"
    <3>1. job.op = "none"
      BY <2>1 DEF Serving, NoJob
    <3> QED
      BY <2>1, <3>1 DEF CompleteInv
  <2> QED
    BY <1>1, <1>4, <2>1 DEF RemoveObject, NoJob, syncd
<1>5. ASSUME DeleteObject PROVE CompleteInv'
  <2>1. /\ job.op = "remove" /\ job'.op = "none" /\ patched' = patched
        /\ DOMAIN store' \subseteq DOMAIN store
        /\ \A v \in DOMAIN store' : store'[v] = store[v]
    BY <1>5 DEF DeleteObject, Without, NoJob
  <2>2. \A v \in DOMAIN store' \ patched' : AttrsComplete(store'[v].type, store'[v].attrs)
    BY <2>1 DEF CompleteInv
  <2> QED
    BY <2>1, <2>2 DEF CompleteInv
<1>6. ASSUME Die PROVE CompleteInv'
  <2>1. /\ store' = store /\ job'.op = "none"
        /\ patched' = IF job.op = "create" THEN patched \cup {job.oid} ELSE patched
    BY <1>6 DEF Die, NoJob
  <2>2. \A v \in DOMAIN store' \ patched' : AttrsComplete(store'[v].type, store'[v].attrs)
    BY <2>1 DEF CompleteInv
  <2> QED
    BY <2>1, <2>2 DEF CompleteInv
<1>7. ASSUME SyncdAllocates \/ Start PROVE CompleteInv'
  BY <1>1, <1>7 DEF SyncdAllocates, Start
<1> QED
  BY <1>1, <1>2, <1>3, <1>4, <1>5, <1>6, <1>7, SetKeepsComplete, SaveKeepsComplete,
     EndKeepsComplete DEF Next, Execute, vars, syncd

(* Every entry that one create has written has its mandatory attributes,   *)
(* and its conditional ones when a condition on a create-only attribute    *)
(* holds, through all later sets, whatever metadata and calls are.         *)
THEOREM ObjectsStayCompleteAlways == Spec => []ObjectsStayComplete
<1>1. Init => CompleteInv
  BY DEF Init, CompleteInv, NoJob
<1>2. CompleteInv => ObjectsStayComplete
  BY DEF CompleteInv, ObjectsStayComplete, Complete, Effective, AttrsComplete, ValueIn
<1> QED
  BY <1>1, <1>2, StoreInvInvariant, CompleteIsInductive, PTL DEF Spec
=============================================================================
