-------------------------- MODULE SyncdAsic_proofs --------------------------
(***************************************************************************)
(* Proofs about SyncdAsic, for every number of object types, VIDs, RIDs    *)
(* and attribute values: type correctness, CachesCoherent, OnlyOwnEntryGoes,*)
(* TornMapsNeverServed, InverseMaps, RepliesAreSaved and MapNamesTheObject. *)
(***************************************************************************)
EXTENDS SyncdAsic, TLAPS

-----------------------------------------------------------------------------
(* The inductive invariant. *)

InMapChange == pc \in {"erase1", "erase2", "evict", "insert1", "insert2"}

(* An object's VID goes with an object's RID, the linecard's with its own. *)
Pair(v, r) == <<v, r>> \in (ObjVid \X ObjRid) \cup {<<LinecardVid, LinecardRid>>}

(* Which request is at which step, with which arguments.                   *)
JobOK ==
  /\ InMapChange => vid \in Vid /\ rid \in Rid
  /\ pc \in {"erase1", "erase2"} => req.op \in {"create", "remove"}
  /\ pc \in {"erase1", "erase2"} /\ req.op = "remove" => vid = req.vid
  /\ pc = "evict" => req.op = "create"
  /\ pc \in {"erase1", "erase2", "evict"} /\ req.op = "create" => Pair(req.vid, rid)
  /\ pc \in {"insert1", "insert2"} => Pair(vid, rid) /\ req.op \in {"create", "get"}
  /\ pc \in {"insert1", "insert2"} /\ req.op = "create" => vid = req.vid
  /\ pc = "save" => req.op \in {"create", "set"}
  /\ pc = "delete" => req.op = "remove"

(* Object VIDs map to object RIDs and back; only the linecard's VID and    *)
(* RID are those of the linecard.                                          *)
Sorted ==
  /\ \A v \in ObjVid : /\ vidToRid[v] # LinecardRid
                       /\ vid2rid[v] # LinecardRid
                       /\ translated[v] # LinecardRid
  /\ \A r \in ObjRid : ridToVid[r] # LinecardVid /\ rid2vid[r] # LinecardVid
  /\ vidToRid[LinecardVid] \in {LinecardRid, NullOid}
  /\ vid2rid[LinecardVid] \in {LinecardRid, NullOid}
  /\ translated[LinecardVid] \in {LinecardRid, NullOid}
  /\ ridToVid[LinecardRid] \in {LinecardVid, NullOid}
  /\ rid2vid[LinecardRid] \in {LinecardVid, NullOid}

VidCached(v) == vid2rid[v] # NullOid => vid2rid[v] = vidToRid[v]
RidCached(r) == rid2vid[r] # NullOid => rid2vid[r] = ridToVid[r]

(* Where the caches may differ from redis: for the binding being erased    *)
(* or inserted.                                                            *)
CacheInv ==
  /\ \A v \in Vid : ~(pc \in {"erase2", "insert2"} /\ v = vid) => VidCached(v)
  /\ \A r \in Rid : ~(pc = "insert2" /\ r = rid) => RidCached(r)
  /\ pc = "insert2" => vidToRid[vid] = rid
  /\ pc = "insert2" /\ req.op = "create" => vid2rid[vid] = rid /\ rid2vid[rid] = vid
  /\ pc \in {"down", "reinit"} => vid2rid = NoMap /\ rid2vid = NoInverse

-----------------------------------------------------------------------------
(* No VID above the counter is in use; nor is the VID of a create or of a  *)
(* spotted RID before it is inserted.                                      *)
Unused(v) == vidToRid[v] = NullOid /\ asicState[v] = NoEntry

FreshInv ==
  /\ \A v \in ObjVid : v[2] > vidCounter => Unused(v)
  /\ pc \in {"erase1", "erase2", "evict"} /\ req.op = "create" /\ req.vid \in ObjVid =>
       Unused(req.vid) /\ req.vid[2] <= vidCounter
  /\ pc = "insert1" /\ vid \in ObjVid => Unused(vid) /\ vid[2] <= vidCounter
  /\ pc = "insert2" /\ vid \in ObjVid => asicState[vid] = NoEntry

(* An entry without a RID, or a RID without an entry: hard reinit throws.  *)
Torn == \E v \in ObjVid : (asicState[v] = NoEntry) # (vidToRid[v] = NullOid)

Consistent == \A v \in ObjVid : MapsBackIfMapped(v) /\ MappedIfSaved(v)

NobodyHas(r) == \A v \in ObjVid : vidToRid[v] # r

(* The object whose entry outlives its RID until the request ends. *)
Dying ==
  IF pc \in {"erase2", "evict"} THEN vid
  ELSE IF pc \in {"reply", "delete"} /\ req.op = "remove" THEN req.vid
  ELSE NullOid

MappedInv ==
  /\ pc \notin {"down", "reinit"} => \A v \in ObjVid : v # Dying => MappedIfSaved(v)
  /\ pc \in {"reply", "save"} /\ req.op \in {"create", "set"} => vidToRid[req.vid] # NullOid
  /\ pc = "down" => translated = NoMap
  /\ pc = "reinit" =>
       \A v \in ObjVid : translated[v] # NullOid =>
         asicState[v] # NoEntry /\ vidToRid[v] # NullOid

(* Where RIDTOVID may not lead back: at the binding being inserted. *)
RedisInv ==
  /\ pc \in {"down", "reinit"} => Torn \/ Consistent
  /\ pc \notin {"down", "reinit"} =>
       \A v \in ObjVid : ~(pc = "insert2" /\ v = vid) => MapsBackIfMapped(v)
  /\ pc = "erase1" /\ vid \in ObjVid => ridToVid[rid] = vid
  /\ pc \in {"erase1", "erase2"} => Pair(vid, rid)
  /\ pc \in {"erase2", "evict", "insert1"} => NobodyHas(rid)
  /\ pc = "insert2" => \A v \in ObjVid : vidToRid[v] = rid => v = vid

-----------------------------------------------------------------------------
(* Facts about OIDs, requests and the vendor's RIDs. *)

(* The linecard's OIDs and the null OID are no object's OIDs. *)
LEMMA OidsDistinct ==
  /\ NullOid \notin Vid /\ NullOid \notin Rid
  /\ NullOid \notin ObjVid /\ NullOid \notin ObjRid
  /\ LinecardVid \notin ObjVid /\ LinecardRid \notin ObjRid
  /\ LinecardVid # NullOid /\ LinecardRid # NullOid
  /\ Vid = ObjVid \cup {LinecardVid}
  /\ Rid = ObjRid \cup {LinecardRid}
BY TypeAssumption DEF NullOid, LinecardVid, LinecardRid, ObjVid, ObjRid, Vid, Rid

(* The attributes of a hash without fields are not given. *)
LEMMA NoEntryType == NoEntry \in Entry /\ NoObject \in HwObject /\ NoRequest \in Request
BY OidsDistinct DEF NoEntry, Entry, NoObject, HwObject, NoRequest, Request

(* The client sends well-formed requests, for VIDs counted already or, on  *)
(* a create, for the next one.                                             *)
LEMMA RequestsWellFormed ==
  ASSUME NEW r \in Requests, vidCounter \in 0 .. MaxVid
  PROVE  /\ r \in Request
         /\ r.op = "create" => r \in CreateRequests
         /\ r.op # "create" => r.attrs.ref = NullOid
<1>1. Allocated \subseteq Vid /\ Settable \subseteq Allocated
  BY DEF Allocated, Settable, Vid
<1>2. Removable \subseteq Vid
  BY <1>1 DEF Removable
<1>3. RefsOffered \subseteq ObjVid \cup {NullOid}
  BY DEF RefsOffered, Allocated
<1>4. CASE r \in CreateRequests
  BY <1>3, <1>4, OidsDistinct DEF CreateRequests, Request, Entry
<1>5. CASE r \in OtherRequests
  BY <1>1, <1>2, <1>5, NoEntryType DEF OtherRequests, Request, Entry, NoEntry
<1> QED BY <1>4, <1>5 DEF Requests

(* A create counts VIDCOUNTER up, and only within its bound. *)
LEMMA CountVidType ==
  ASSUME NEW r \in Requests, vidCounter \in 0 .. MaxVid, CountVid(r)
  PROVE  vidCounter' \in 0 .. MaxVid
<1>1. CASE r.op = "create" /\ r.vid # LinecardVid
  <2>1. r.vid \in ObjVid /\ r.vid[2] = vidCounter + 1
    BY <1>1, RequestsWellFormed DEF CreateRequests
  <2>2. r.vid[2] \in 1 .. MaxVid
    BY <2>1 DEF ObjVid
  <2> QED BY <1>1, <2>1, <2>2, BoundAssumption DEF CountVid
<1>2. CASE ~(r.op = "create" /\ r.vid # LinecardVid)
  BY <1>2 DEF CountVid
<1> QED BY <1>1, <1>2

(* The vendor gives objects object RIDs and the linecard its own. *)
LEMMA VendorRidSorted ==
  ASSUME NEW v \in Vid, NEW e \in Entry, VendorRid(v, e) \in Rid
  PROVE  /\ v = LinecardVid => VendorRid(v, e) = LinecardRid
         /\ v \in ObjVid => VendorRid(v, e) \in ObjRid
<1>1. CASE v = LinecardVid
  BY <1>1, OidsDistinct DEF VendorRid
<1>2. CASE v \in ObjVid
  <2>1. v # LinecardVid /\ v[1] # "LINECARD"
    BY <1>2, OidsDistinct, TypeAssumption DEF ObjVid
  <2>2. VendorRid(v, e)[1] = v[1]
    BY <2>1 DEF VendorRid
  <2>3. VendorRid(v, e) # LinecardRid
    BY <2>1, <2>2 DEF LinecardRid
  <2> QED BY <1>2, <2>1, <2>3, OidsDistinct
<1> QED BY <1>1, <1>2, OidsDistinct

(* Creating an object keeps the vendor library's state well-typed. *)
LEMMA VendorCreateType ==
  ASSUME TypeOK, NEW v \in Vid, NEW e \in Entry, NEW c \in Cfg \cup {Unset},
         NEW x \in Rid \cup {NullOid}, VendorCreate(v, e, c, x)
  PROVE  hw' \in [Rid -> HwObject] /\ indexer' \in [ObjType -> 0 .. MaxRidIndex + 1]
<1>1. hw' \in [Rid -> HwObject]
  BY DEF TypeOK, VendorCreate, HwObject
<1>2. CASE v[1] \in IndexedType
  <2>1. v # LinecardVid /\ v[1] \notin KeyedType /\ v[1] \in ObjType
    BY <1>2, TypeAssumption DEF LinecardVid, ObjType
  <2>2. VendorRid(v, e) = <<v[1], indexer[v[1]]>>
    BY <2>1 DEF VendorRid
  <2>3. <<v[1], indexer[v[1]]>> # LinecardRid
    BY <2>1, TypeAssumption DEF LinecardRid
  <2>4. indexer[v[1]] \in 0 .. MaxRidIndex
    BY <2>2, <2>3 DEF VendorCreate, Rid, ObjRid, RidIndex
  <2> QED BY <1>1, <1>2, <2>1, <2>4, BoundAssumption DEF TypeOK, VendorCreate
<1>3. CASE v[1] \notin IndexedType
  BY <1>1, <1>3 DEF TypeOK, VendorCreate
<1> QED BY <1>2, <1>3

-----------------------------------------------------------------------------
(* Type correctness. *)

(* The end of the process leaves well-typed, empty memory. *)
LEMMA ProcessEndsType ==
  ASSUME TypeOK, ProcessEnds,
         vidCounter' \in 0 .. MaxVid,
         vidToRid' \in [Vid -> Rid \cup {NullOid}],
         ridToVid' \in [Rid -> Vid \cup {NullOid}],
         asicState' \in [Vid -> Entry]
  PROVE  TypeOK'
BY NoEntryType, BoundAssumption DEF TypeOK, ProcessEnds, NoMap, NoInverse, PC, answers

(* A translatable VID has a RID. *)
LEMMA LookupType ==
  ASSUME TypeOK, NEW v \in Vid
  PROVE  LookupRid(v) \in Rid \cup {NullOid}
BY DEF TypeOK, LookupRid

LEMMA CachedRidsType ==
  ASSUME TypeOK, NEW vs
  PROVE  CachedRids(vs) \in [Vid -> Rid \cup {NullOid}]
BY LookupType DEF TypeOK, CachedRids

LEMMA NeededVidsRid ==
  ASSUME TypeOK, NEW r \in Requests, Translatable(r)
  PROVE  /\ r.op # "create" => LookupRid(r.vid) \in Rid
         /\ r.attrs.ref # NullOid => r.attrs.ref \in ObjVid /\ LookupRid(r.attrs.ref) \in Rid
<1>1. r \in Request /\ (r.op # "create" => r.attrs.ref = NullOid)
  BY RequestsWellFormed DEF TypeOK
<1>2. r.vid \in Vid /\ r.attrs \in Entry /\ r.attrs.ref \in ObjVid \cup {NullOid}
  BY <1>1 DEF Request, Entry
<1>3. CASE r.op # "create"
  <2>1. r.vid \in NeededVids(r)
    BY <1>3 DEF NeededVids
  <2> QED BY <1>1, <1>2, <1>3, <2>1, LookupType DEF Translatable
<1>4. CASE r.op = "create" /\ r.attrs.ref # NullOid
  <2>1. r.attrs.ref \in NeededVids(r)
    BY <1>4 DEF NeededVids
  <2> QED BY <1>2, <1>4, <2>1, LookupType, OidsDistinct DEF Translatable
<1> QED BY <1>3, <1>4

(* What a create or a get starts. *)
LEMMA CreateType ==
  ASSUME TypeOK, NEW r \in Requests, Create(r)
  PROVE  TypeOK'
<1>1. r \in Request /\ r.vid \in Vid /\ r.attrs \in Entry /\ r.attrs.cfg \in Cfg \cup {Unset}
  BY RequestsWellFormed DEF TypeOK, Request, Entry
<1>2. hw' \in [Rid -> HwObject] /\ indexer' \in [ObjType -> 0 .. MaxRidIndex + 1]
  <2> DEFINE x == IF r.attrs.ref = NullOid THEN NullOid ELSE LookupRid(r.attrs.ref)
  <2>1. x \in Rid \cup {NullOid}
    BY NeededVidsRid DEF Create
  <2>2. VendorCreate(r.vid, r.attrs, r.attrs.cfg, x)
    BY DEF Create
  <2> QED BY <1>1, <2>1, <2>2, VendorCreateType
<1>3. rid' \in Rid
  BY DEF Create, VendorCreate
<1>4. vid' \in Vid /\ pc' \in PC
  BY <1>1, <1>3 DEF Create, TryRidToVid, TypeOK, PC
<1>5. vidCounter' \in 0 .. MaxVid
  BY CountVidType DEF Create, TypeOK
<1> QED BY <1>1, <1>2, <1>3, <1>4, <1>5, CachedRidsType DEF Create, TypeOK, answers

LEMMA GetSpotsRidType ==
  ASSUME TypeOK, NEW r \in Requests, GetSpotsRid(r)
  PROVE  /\ TypeOK'
         /\ rid' \in ObjRid /\ vid' \in ObjVid /\ vid'[2] = vidCounter'
         /\ ridToVid[rid'] = NullOid
<1>1. PICK o \in SpottedRids(r) : o # LinecardRid /\ rid' = o /\ vid' = <<o[1], vidCounter'>>
  BY DEF GetSpotsRid
<1>2. r.op = "get" /\ r \in Request /\ LookupRid(r.vid) \in Rid
  BY RequestsWellFormed, NeededVidsRid DEF GetSpotsRid, TypeOK
<1>3. o \in ObjRid
  <2>1. hw[LookupRid(r.vid)].ref \in Rid \cup {NullOid}
    BY <1>2 DEF TypeOK, HwObject
  <2> QED BY <1>1, <2>1, ValueAssumption, OidsDistinct DEF SpottedRids
<1>4. vidCounter' \in 1 .. MaxVid /\ vidCounter' \in 0 .. MaxVid
  BY BoundAssumption DEF GetSpotsRid, TypeOK
<1>5. vid' \in ObjVid /\ vid'[2] = vidCounter'
  BY <1>1, <1>3, <1>4 DEF ObjVid, ObjRid
<1>6. ridToVid[rid'] = NullOid
  BY <1>1, <1>3, OidsDistinct DEF SpottedRids, LookupVid, TypeOK
<1> QED
  BY <1>1, <1>2, <1>3, <1>4, <1>5, <1>6, CachedRidsType, OidsDistinct
     DEF GetSpotsRid, TypeOK, PC, vendor, answers

LEMMA RequestType ==
  ASSUME TypeOK, HandleRequest
  PROVE  TypeOK'
<1>1. PICK r \in Requests :
        \/ RequestThrows(r) \/ VendorRejects(r)
        \/ Create(r) \/ Remove(r) \/ Set(r) \/ GetKnown(r) \/ GetSpotsRid(r)
  BY DEF HandleRequest
<1>2. r \in Request /\ r.vid \in Vid /\ r.attrs \in Entry /\ r.attrs.cfg \in Cfg \cup {Unset}
  BY RequestsWellFormed DEF TypeOK, Request, Entry
<1>3. CASE RequestThrows(r)
  BY <1>3, CountVidType, ProcessEndsType DEF RequestThrows, TypeOK
<1>4. CASE VendorRejects(r)
  BY <1>4, CountVidType, CachedRidsType DEF VendorRejects, TypeOK, job, vendor, answers
<1>5. CASE Create(r)
  BY <1>5, CreateType
<1>6. CASE Remove(r)
  BY <1>2, <1>6, NeededVidsRid, NoEntryType, CachedRidsType DEF Remove, TypeOK, redis, PC, answers
<1>7. CASE Set(r)
  <2>1. LookupRid(r.vid) \in Rid
    BY <1>7, NeededVidsRid DEF Set
  <2>2. /\ hw \in [Rid -> HwObject]
        /\ hw' = IF r.attrs.cfg = Unset THEN hw
                 ELSE [hw EXCEPT ![LookupRid(r.vid)].cfg = r.attrs.cfg]
    BY <1>7 DEF Set, TypeOK
  <2>3. hw' \in [Rid -> HwObject]
    BY <1>2, <2>1, <2>2 DEF HwObject
  <2> QED BY <1>2, <1>7, <2>3, CachedRidsType DEF Set, TypeOK, redis, PC, answers
<1>8. CASE GetKnown(r)
  BY <1>8, CachedRidsType DEF GetKnown, TypeOK, redis, job, vendor, answers
<1>9. CASE GetSpotsRid(r)
  BY <1>9, GetSpotsRidType
<1> QED BY <1>1, <1>3, <1>4, <1>5, <1>6, <1>7, <1>8, <1>9

(* The arguments of the redis writes are OIDs, not null. *)
LEMMA JobType ==
  ASSUME JobOK, InMapChange
  PROVE  vid \in Vid /\ rid \in Rid
BY OidsDistinct DEF JobOK

LEMMA SaveFieldType ==
  ASSUME TypeOK, NEW f \in {"id", "cfg", "ref"}, SaveField(f)
  PROVE  TypeOK'
<1>1. req \in Request /\ req.vid \in Vid /\ req.attrs \in Entry
  BY DEF TypeOK, Request
<1>2. [asicState[req.vid] EXCEPT ![f] = req.attrs[f]] \in Entry
  <2>1. asicState[req.vid] \in Entry
    BY <1>1 DEF TypeOK
  <2>2. CASE f = "id"
    BY <1>1, <2>1, <2>2 DEF Entry
  <2>3. CASE f = "cfg"
    BY <1>1, <2>1, <2>3 DEF Entry
  <2>4. CASE f = "ref"
    BY <1>1, <2>1, <2>4 DEF Entry
  <2> QED BY <2>2, <2>3, <2>4
<1>3. asicState' \in [Vid -> Entry]
  BY <1>1, <1>2 DEF SaveField, TypeOK
<1> QED
  BY <1>3, NoEntryType DEF SaveField, EndRequest, TypeOK, PC, caches, vendor, answers

LEMMA ReplyType ==
  ASSUME TypeOK, Reply
  PROVE  TypeOK'
<1>1. req \in Request /\ req.vid \in Vid /\ req.attrs \in Entry
  BY DEF TypeOK, Request
<1>2. told' \in [Vid -> Entry]
  <2>1. [told EXCEPT ![req.vid].cfg = req.attrs.cfg] \in [Vid -> Entry]
    BY <1>1 DEF TypeOK, Entry
  <2> QED BY <1>1, <2>1, NoEntryType DEF Reply, TypeOK
<1>3. Fields(req.attrs) \subseteq {"id", "cfg", "ref"}
  BY DEF Fields
<1>4. ReplacedBy(req) \subseteq Vid
  BY DEF ReplacedBy, Keyed, Vid
<1> QED
  BY <1>2, <1>3, <1>4, NoEntryType
     DEF Reply, EndRequest, TypeOK, PC, job, redis, caches, vendor, answers

LEMMA ContinueRequestType ==
  ASSUME TypeOK, JobOK, ContinueRequest
  PROVE  TypeOK'
<1>1. CASE EraseVid
  BY <1>1 DEF EraseVid, TypeOK, PC, caches, job, vendor, answers
<1>2. CASE EraseRid
  BY <1>2 DEF EraseRid, TypeOK, PC, job, vendor, answers
<1>3. CASE RemoveLinecardThrows
  BY <1>3, ProcessEndsType DEF RemoveLinecardThrows, TypeOK
<1>4. CASE Evict
  <2>1. req.vid \in Vid
    BY DEF TypeOK, Request
  <2> QED BY <1>4, <2>1, NoEntryType DEF Evict, TypeOK, PC, caches, vendor, answers
<1>5. CASE InsertVid
  BY <1>5, JobType DEF InsertVid, CacheBinding, InMapChange, TypeOK, PC, caches, job, vendor, answers
<1>6. CASE InsertRid
  <2>1. vid = LinecardVid => rid = LinecardRid
    BY <1>6, OidsDistinct DEF InsertRid, JobOK, Pair
  <2> QED BY <1>6, <2>1, JobType
          DEF InsertRid, CacheBinding, InMapChange, TypeOK, PC, caches, job, vendor, answers
<1>7. CASE Reply
  BY <1>7, ReplyType
<1>8. CASE \E f \in {"id", "cfg", "ref"} : SaveField(f)
  BY <1>8, SaveFieldType
<1>9. CASE DeleteAsicObject
  BY <1>9, NoEntryType DEF DeleteAsicObject, EndRequest, TypeOK, PC, caches, vendor, answers
<1> QED BY <1>1, <1>2, <1>3, <1>4, <1>5, <1>6, <1>7, <1>8, <1>9 DEF ContinueRequest

LEMMA ReinitType ==
  ASSUME TypeOK, Sorted, Reinit
  PROVE  TypeOK'
<1>1. CASE StartReinit
  BY <1>1 DEF StartReinit, TypeOK, PC, redis, caches, job, vendor, answers
<1>2. CASE ReinitLinecard
  <2>1. LinecardVid \in Vid /\ asicState[LinecardVid] \in Entry
        /\ asicState[LinecardVid].cfg \in Cfg \cup {Unset} /\ LinecardRid \in Rid
    BY OidsDistinct DEF TypeOK, Entry
  <2>2. hw' \in [Rid -> HwObject] /\ indexer' \in [ObjType -> 0 .. MaxRidIndex + 1]
    BY <1>2, <2>1, VendorCreateType DEF ReinitLinecard
  <2> QED BY <1>2, <2>1, <2>2 DEF ReinitLinecard, TypeOK, redis, caches, job, answers
<1>3. CASE \E v \in ObjVid : ReinitObject(v)
  <2>1. PICK v \in ObjVid : ReinitObject(v)
    BY <1>3
  <2>2. v \in Vid /\ asicState[v] \in Entry /\ asicState[v].ref \in Vid \cup {NullOid}
    BY OidsDistinct DEF TypeOK, Entry
  <2>3. RestoredRef(v) \in Rid \cup {NullOid}
    BY <2>2 DEF RestoredRef, TypeOK
  <2>4. /\ hw' \in [Rid -> HwObject] /\ indexer' \in [ObjType -> 0 .. MaxRidIndex + 1]
        /\ VendorRid(v, asicState[v]) \in Rid
    BY <2>1, <2>2, <2>3, VendorCreateType DEF ReinitObject, VendorCreate
  <2> QED BY <2>1, <2>2, <2>4 DEF ReinitObject, TypeOK, redis, caches, job, answers
<1>4. CASE ReinitThrows
  BY <1>4, ProcessEndsType DEF ReinitThrows, TypeOK, redis
<1>5. CASE FinishReinit
  <2>1. translated[LinecardVid] \in {LinecardRid, NullOid}
    BY DEF Sorted
  <2> QED BY <1>5, <2>1 DEF FinishReinit, TypeOK, PC, NoMap, redis, caches, job, vendor, answers
<1>6. CASE CheckAllIdsThrows
  BY <1>6, ProcessEndsType DEF CheckAllIdsThrows, TypeOK, redis
<1> QED BY <1>1, <1>2, <1>3, <1>4, <1>5, <1>6 DEF Reinit

(* The typed state of the program: TypeOK needs the other two. *)
State == TypeOK /\ JobOK /\ Sorted

LEMMA NextType ==
  ASSUME State, [Next]_vars
  PROVE  TypeOK'
<1>1. CASE HandleRequest
  BY <1>1, RequestType DEF State
<1>2. CASE ContinueRequest
  BY <1>2, ContinueRequestType DEF State
<1>3. CASE Reinit
  BY <1>3, ReinitType DEF State
<1>4. CASE RestartQuery \/ Crash
  BY <1>4, ProcessEndsType DEF State, RestartQuery, Crash, TypeOK, redis
<1>5. CASE UNCHANGED vars
  BY <1>5 DEF State, TypeOK, vars, redis, caches, job, vendor, answers
<1> QED BY <1>1, <1>2, <1>3, <1>4, <1>5 DEF Next

-----------------------------------------------------------------------------
(* JobOK and Sorted. *)

(* The end of the process ends the request and empties the caches. *)
LEMMA ProcessEndsState ==
  ASSUME State, ProcessEnds,
         \A v \in Vid : vidToRid'[v] \in {vidToRid[v], NullOid},
         \A r \in Rid : ridToVid'[r] \in {ridToVid[r], NullOid}
  PROVE  JobOK' /\ Sorted'
<1>1. JobOK'
  BY DEF ProcessEnds, JobOK, InMapChange
<1>2. Sorted'
  BY OidsDistinct DEF ProcessEnds, State, Sorted, NoMap, NoInverse
<1> QED BY <1>1, <1>2

LEMMA LookupSorted ==
  ASSUME State
  PROVE  /\ \A v \in ObjVid : LookupRid(v) \in ObjRid \cup {NullOid}
         /\ LookupRid(LinecardVid) \in {LinecardRid, NullOid}
         /\ \A r \in ObjRid : LookupVid(r) \in ObjVid \cup {NullOid}
BY OidsDistinct DEF State, Sorted, TypeOK, LookupRid, LookupVid

LEMMA CachedRidsSorted ==
  ASSUME State, NEW vs
  PROVE  /\ \A v \in ObjVid : CachedRids(vs)[v] # LinecardRid
         /\ CachedRids(vs)[LinecardVid] \in {LinecardRid, NullOid}
BY LookupSorted, OidsDistinct DEF CachedRids, State, Sorted

LEMMA CreateSorted ==
  ASSUME State, NEW r \in Requests, Create(r)
  PROVE  /\ Pair(r.vid, rid') /\ vid' \in Vid /\ rid' \in Rid
         /\ pc' = "insert1" => vid' = r.vid
         /\ pc' \in {"insert1", "erase1"}
<1>1. r.vid \in Vid /\ r.attrs \in Entry
  BY RequestsWellFormed DEF State, TypeOK, Request
<1>2. rid' = VendorRid(r.vid, r.attrs) /\ rid' \in Rid
  BY DEF Create, VendorCreate
<1>3. Pair(r.vid, rid')
  BY <1>1, <1>2, VendorRidSorted, OidsDistinct DEF Pair
<1> QED BY <1>1, <1>2, <1>3 DEF Create, TryRidToVid, State, TypeOK

LEMMA RequestSorted ==
  ASSUME State, HandleRequest
  PROVE  JobOK' /\ Sorted'
<1>1. PICK r \in Requests :
        \/ RequestThrows(r) \/ VendorRejects(r)
        \/ Create(r) \/ Remove(r) \/ Set(r) \/ GetKnown(r) \/ GetSpotsRid(r)
  BY DEF HandleRequest
<1>2. r.vid \in Vid /\ (r.op # "create" => LookupRid(r.vid) \in Rid \cup {NullOid})
  BY RequestsWellFormed, LookupType DEF State, TypeOK, Request
<1>3. CASE RequestThrows(r)
  BY <1>3, ProcessEndsState DEF RequestThrows
<1>4. CASE VendorRejects(r)
  BY <1>4, CachedRidsSorted DEF VendorRejects, State, JobOK, Sorted, InMapChange, job
<1>5. CASE Create(r)
  <2>1. JobOK'
    BY <1>5, CreateSorted DEF Create, JobOK, InMapChange
  <2>2. Sorted'
    BY <1>5, CachedRidsSorted DEF Create, State, Sorted
  <2> QED BY <2>1, <2>2
<1>6. CASE Remove(r)
  <2>1. LookupRid(r.vid) \in Rid
    BY <1>6, NeededVidsRid DEF Remove, State
  <2>2. JobOK'
    BY <1>2, <1>6, <2>1 DEF Remove, JobOK, InMapChange
  <2>3. Sorted'
    BY <1>6, CachedRidsSorted DEF Remove, State, Sorted, redis
  <2> QED BY <2>2, <2>3
<1>7. CASE Set(r)
  BY <1>7, CachedRidsSorted DEF Set, State, JobOK, Sorted, InMapChange, redis
<1>8. CASE GetKnown(r)
  BY <1>8, CachedRidsSorted DEF GetKnown, State, JobOK, Sorted, InMapChange, redis, job
<1>9. CASE GetSpotsRid(r)
  <2>1. rid' \in ObjRid /\ vid' \in ObjVid
    BY <1>9, GetSpotsRidType DEF State
  <2>2. JobOK'
    BY <1>9, <2>1, OidsDistinct DEF GetSpotsRid, JobOK, InMapChange, Pair
  <2>3. Sorted'
    BY <1>9, CachedRidsSorted DEF GetSpotsRid, State, Sorted
  <2> QED BY <2>2, <2>3
<1> QED BY <1>1, <1>3, <1>4, <1>5, <1>6, <1>7, <1>8, <1>9

(* A pair bound in the maps or in the caches leaves them sorted. *)
LEMMA ContinueRequestSorted ==
  ASSUME State, ContinueRequest
  PROVE  JobOK' /\ Sorted'
<1> USE DEF State
<1>1. CASE EraseVid
  BY <1>1, OidsDistinct DEF EraseVid, TypeOK, JobOK, Sorted, InMapChange, caches, job
<1>2. CASE EraseRid
  BY <1>2, OidsDistinct DEF EraseRid, TypeOK, JobOK, Sorted, InMapChange, job
<1>3. CASE RemoveLinecardThrows
  <2>1. \A r \in Rid : ridToVid'[r] \in {ridToVid[r], NullOid}
    BY <1>3 DEF RemoveLinecardThrows, TypeOK
  <2> QED BY <1>3, <2>1, ProcessEndsState DEF RemoveLinecardThrows
<1>4. CASE Evict
  <2>1. JobOK'
    BY <1>4, OidsDistinct DEF Evict, JobOK, InMapChange, Pair
  <2>2. Sorted'
    BY <1>4 DEF Evict, Sorted, caches
  <2> QED BY <2>1, <2>2
<1>5. CASE InsertVid
  <2>1. Pair(vid, rid)
    BY <1>5 DEF InsertVid, JobOK
  <2>2. JobOK'
    BY <1>5 DEF InsertVid, JobOK, InMapChange, job
  <2>3. Sorted'
    BY <1>5, <2>1, OidsDistinct DEF InsertVid, CacheBinding, TypeOK, Sorted, Pair, caches
  <2> QED BY <2>2, <2>3
<1>6. CASE InsertRid
  <2>1. Pair(vid, rid)
    BY <1>6 DEF InsertRid, JobOK
  <2>2. JobOK'
    BY <1>6 DEF InsertRid, JobOK, InMapChange
  <2>3. Sorted'
    BY <1>6, <2>1, OidsDistinct DEF InsertRid, CacheBinding, TypeOK, Sorted, Pair, caches
  <2> QED BY <2>2, <2>3
<1>7. CASE Reply
  BY <1>7 DEF Reply, EndRequest, JobOK, Sorted, InMapChange, redis, caches, job
<1>8. CASE \E f \in {"id", "cfg", "ref"} : SaveField(f)
  BY <1>8 DEF SaveField, EndRequest, JobOK, Sorted, InMapChange, caches
<1>9. CASE DeleteAsicObject
  BY <1>9 DEF DeleteAsicObject, EndRequest, JobOK, Sorted, InMapChange, caches
<1> QED BY <1>1, <1>2, <1>3, <1>4, <1>5, <1>6, <1>7, <1>8, <1>9 DEF ContinueRequest

LEMMA ReinitSorted ==
  ASSUME State, Reinit
  PROVE  JobOK' /\ Sorted'
<1> USE DEF State
<1>1. CASE StartReinit
  BY <1>1 DEF StartReinit, JobOK, Sorted, InMapChange, redis, caches, job
<1>2. CASE ReinitLinecard
  BY <1>2, OidsDistinct DEF ReinitLinecard, TypeOK, JobOK, Sorted, InMapChange, redis, caches, job
<1>3. CASE \E v \in ObjVid : ReinitObject(v)
  <2>1. PICK v \in ObjVid : ReinitObject(v)
    BY <1>3
  <2>2. VendorRid(v, asicState[v]) \in ObjRid
    BY <2>1, VendorRidSorted, OidsDistinct DEF ReinitObject, VendorCreate, TypeOK
  <2> QED BY <2>1, <2>2, OidsDistinct
          DEF ReinitObject, TypeOK, JobOK, Sorted, InMapChange, redis, caches, job
<1>4. CASE ReinitThrows
  BY <1>4, ProcessEndsState DEF ReinitThrows, redis
<1>5. CASE FinishReinit
  BY <1>5, OidsDistinct DEF FinishReinit, NoMap, JobOK, Sorted, InMapChange, redis, caches, job
<1>6. CASE CheckAllIdsThrows
  BY <1>6, ProcessEndsState DEF CheckAllIdsThrows, redis
<1> QED BY <1>1, <1>2, <1>3, <1>4, <1>5, <1>6 DEF Reinit

LEMMA InitState == Init => State
BY NoEntryType, BoundAssumption, OidsDistinct
   DEF Init, State, TypeOK, JobOK, Sorted, InMapChange, NoMap, NoInverse, PC

LEMMA NextState == State /\ [Next]_vars => State'
<1> SUFFICES ASSUME State, [Next]_vars PROVE State'
  OBVIOUS
<1>1. TypeOK'
  BY NextType
<1>2. JobOK' /\ Sorted'
  <2>1. CASE HandleRequest
    BY <2>1, RequestSorted
  <2>2. CASE ContinueRequest
    BY <2>2, ContinueRequestSorted
  <2>3. CASE Reinit
    BY <2>3, ReinitSorted
  <2>4. CASE RestartQuery \/ Crash
    BY <2>4, ProcessEndsState DEF RestartQuery, Crash, redis
  <2>5. CASE UNCHANGED vars
    BY <2>5 DEF State, JobOK, Sorted, InMapChange, vars, redis, caches, job
  <2> QED BY <2>1, <2>2, <2>3, <2>4, <2>5 DEF Next
<1> QED BY <1>1, <1>2 DEF State

(* Every variable keeps its type, for every number of objects and values.  *)
THEOREM TypeCorrect == Spec => []TypeOK
<1>1. Spec => []State
  BY InitState, NextState, PTL DEF Spec
<1> QED BY <1>1, PTL DEF State

-----------------------------------------------------------------------------
(* The caches agree with redis. *)

LEMMA ProcessEndsCaches ==
  ASSUME ProcessEnds
  PROVE  CacheInv'
BY DEF ProcessEnds, CacheInv, VidCached, RidCached, NoMap, NoInverse

(* Between two map changes a lookup answers what redis has. *)
LEMMA CachedRidsCoherent ==
  ASSUME State, CacheInv, pc = "serving", NEW vs
  PROVE  /\ \A v \in Vid : LookupRid(v) = vidToRid[v]
         /\ \A v \in Vid : CachedRids(vs)[v] # NullOid => CachedRids(vs)[v] = vidToRid[v]
<1>1. \A v \in Vid : VidCached(v)
  BY DEF CacheInv
<1>2. \A v \in Vid : LookupRid(v) = vidToRid[v]
  BY <1>1 DEF VidCached, LookupRid
<1> QED BY <1>1, <1>2 DEF VidCached, CachedRids

LEMMA RequestCaches ==
  ASSUME State, CacheInv, HandleRequest
  PROVE  CacheInv'
<1>1. PICK r \in Requests :
        \/ RequestThrows(r) \/ VendorRejects(r)
        \/ Create(r) \/ Remove(r) \/ Set(r) \/ GetKnown(r) \/ GetSpotsRid(r)
  BY DEF HandleRequest
<1>2. CASE RequestThrows(r)
  BY <1>2, ProcessEndsCaches DEF RequestThrows
<1>3. CASE VendorRejects(r)
  BY <1>3, CachedRidsCoherent DEF VendorRejects, CacheInv, VidCached, RidCached
<1>4. CASE Create(r)
  BY <1>4, CachedRidsCoherent, CreateSorted DEF Create, CacheInv, VidCached, RidCached
<1>5. CASE Remove(r)
  BY <1>5, CachedRidsCoherent DEF Remove, CacheInv, VidCached, RidCached, redis
<1>6. CASE Set(r)
  BY <1>6, CachedRidsCoherent DEF Set, CacheInv, VidCached, RidCached, redis
<1>7. CASE GetKnown(r)
  BY <1>7, CachedRidsCoherent DEF GetKnown, CacheInv, VidCached, RidCached, redis
<1>8. CASE GetSpotsRid(r)
  BY <1>8, CachedRidsCoherent DEF GetSpotsRid, CacheInv, VidCached, RidCached
<1> QED BY <1>1, <1>2, <1>3, <1>4, <1>5, <1>6, <1>7, <1>8

LEMMA ContinueRequestCaches ==
  ASSUME State, CacheInv, ContinueRequest
  PROVE  CacheInv'
<1> USE DEF State, TypeOK, VidCached, RidCached
<1>1. CASE EraseVid
  BY <1>1 DEF EraseVid, CacheInv, caches, job
<1>2. CASE EraseRid
  BY <1>2 DEF EraseRid, CacheInv, job
<1>3. CASE RemoveLinecardThrows
  BY <1>3, ProcessEndsCaches DEF RemoveLinecardThrows
<1>4. CASE Evict
  BY <1>4 DEF Evict, CacheInv, caches
<1>5. CASE InsertVid
  <2>1. vid \in Vid /\ rid \in Rid
    BY <1>5 DEF InsertVid, JobOK, InMapChange
  <2>2. CASE req.op = "create"
    BY <1>5, <2>1, <2>2 DEF InsertVid, CacheBinding, CacheInv, job
  <2>3. CASE req.op # "create"
    BY <1>5, <2>1, <2>3 DEF InsertVid, CacheInv, caches, job
  <2> QED BY <2>2, <2>3
<1>6. CASE InsertRid
  <2>1. vid \in Vid /\ rid \in Rid /\ req.op \in {"create", "get"}
    BY <1>6 DEF InsertRid, JobOK, InMapChange
  <2>2. CASE req.op = "get"
    BY <1>6, <2>1, <2>2 DEF InsertRid, CacheBinding, CacheInv, job
  <2>3. CASE req.op = "create"
    BY <1>6, <2>1, <2>3 DEF InsertRid, CacheInv, caches, job
  <2> QED BY <2>1, <2>2, <2>3
<1>7. CASE Reply
  BY <1>7 DEF Reply, EndRequest, CacheInv, redis, caches
<1>8. CASE \E f \in {"id", "cfg", "ref"} : SaveField(f)
  BY <1>8 DEF SaveField, EndRequest, CacheInv, caches
<1>9. CASE DeleteAsicObject
  BY <1>9 DEF DeleteAsicObject, EndRequest, CacheInv, caches
<1> QED BY <1>1, <1>2, <1>3, <1>4, <1>5, <1>6, <1>7, <1>8, <1>9 DEF ContinueRequest

LEMMA ReinitCaches ==
  ASSUME State, CacheInv, Reinit
  PROVE  CacheInv'
<1> USE DEF CacheInv, VidCached, RidCached, redis, caches
<1>1. CASE StartReinit
  BY <1>1 DEF StartReinit
<1>2. CASE ReinitLinecard
  BY <1>2 DEF ReinitLinecard
<1>3. CASE \E v \in ObjVid : ReinitObject(v)
  BY <1>3 DEF ReinitObject
<1>4. CASE ReinitThrows
  BY <1>4, ProcessEndsCaches DEF ReinitThrows
<1>5. CASE FinishReinit
  BY <1>5 DEF FinishReinit
<1>6. CASE CheckAllIdsThrows
  BY <1>6, ProcessEndsCaches DEF CheckAllIdsThrows
<1> QED BY <1>1, <1>2, <1>3, <1>4, <1>5, <1>6 DEF Reinit

LEMMA InitCaches == Init => CacheInv
BY DEF Init, CacheInv, VidCached, RidCached, NoMap, NoInverse

LEMMA NextCaches == State /\ CacheInv /\ [Next]_vars => CacheInv'
<1> SUFFICES ASSUME State, CacheInv, [Next]_vars PROVE CacheInv'
  OBVIOUS
<1>1. CASE HandleRequest
  BY <1>1, RequestCaches
<1>2. CASE ContinueRequest
  BY <1>2, ContinueRequestCaches
<1>3. CASE Reinit
  BY <1>3, ReinitCaches
<1>4. CASE RestartQuery \/ Crash
  BY <1>4, ProcessEndsCaches DEF RestartQuery, Crash
<1>5. CASE UNCHANGED vars
  BY <1>5 DEF CacheInv, VidCached, RidCached, vars, redis, caches, job
<1> QED BY <1>1, <1>2, <1>3, <1>4, <1>5 DEF Next

(* The translator's caches never contradict VIDTORID and RIDTOVID while    *)
(* requests are accepted: through every erase, insert, crash and restart,  *)
(* and whatever VID the uninitialised objectVidOld makes syncd erase.      *)
THEOREM CachesStayCoherent == Spec => []CachesCoherent
<1>1. Spec => [](State /\ CacheInv)
  BY InitState, NextState, InitCaches, NextCaches, PTL DEF Spec
<1>2. CacheInv => CachesCoherent
  BY DEF CacheInv, CachesCoherent, VidCached, RidCached
<1> QED BY <1>1, <1>2, PTL

-----------------------------------------------------------------------------
(* What a saved object needs is there, whatever the uninitialised          *)
(* objectVidOld holds.                                                     *)

Sound == State /\ CacheInv /\ FreshInv /\ MappedInv

(* The next process finds the entries and the RIDs the last one left. *)
LEMMA ProcessEndsSound ==
  ASSUME Sound, ProcessEnds, UNCHANGED <<vidToRid, asicState>>,
         vidCounter' \in Nat, vidCounter \in Nat, vidCounter' >= vidCounter
  PROVE  FreshInv' /\ MappedInv'
<1>1. \A v \in ObjVid : v[2] \in Nat
  BY DEF ObjVid
<1>2. FreshInv'
  BY <1>1 DEF ProcessEnds, Sound, FreshInv, Unused
<1>3. MappedInv'
  BY DEF ProcessEnds, MappedInv
<1> QED BY <1>2, <1>3

LEMMA CountVidUp ==
  ASSUME Sound, NEW r \in Requests, CountVid(r)
  PROVE  /\ vidCounter' \in Nat /\ vidCounter \in Nat /\ vidCounter' >= vidCounter
         /\ r.op = "create" /\ r.vid \in ObjVid =>
              r.vid[2] = vidCounter + 1 /\ vidCounter' = vidCounter + 1
         /\ \A v \in ObjVid : v[2] > vidCounter' => Unused(v)
<1>1. vidCounter \in 0 .. MaxVid
  BY DEF Sound, State, TypeOK
<1>2. vidCounter' \in 0 .. MaxVid /\ vidCounter' >= vidCounter
  BY <1>1, CountVidType, BoundAssumption DEF CountVid
<1>3. r.op = "create" /\ r.vid \in ObjVid =>
        r.vid[2] = vidCounter + 1 /\ vidCounter' = vidCounter + 1
  BY <1>1, RequestsWellFormed, OidsDistinct DEF CreateRequests, CountVid
<1>4. \A v \in ObjVid : v[2] > vidCounter' => Unused(v)
  <2>1. \A v \in ObjVid : v[2] \in Nat
    BY DEF ObjVid
  <2> QED BY <1>1, <1>2, <2>1, BoundAssumption DEF Sound, FreshInv
<1> QED BY <1>1, <1>2, <1>3, <1>4, BoundAssumption

(* Between requests every saved object has a RID. *)
LEMMA ServingMapped ==
  ASSUME Sound, pc = "serving"
  PROVE  \A v \in ObjVid : MappedIfSaved(v)
BY OidsDistinct DEF Sound, MappedInv, Dying

LEMMA RequestSound ==
  ASSUME Sound, HandleRequest
  PROVE  FreshInv' /\ MappedInv'
<1>1. PICK r \in Requests :
        \/ RequestThrows(r) \/ VendorRejects(r)
        \/ Create(r) \/ Remove(r) \/ Set(r) \/ GetKnown(r) \/ GetSpotsRid(r)
  BY DEF HandleRequest
<1>2. r.vid \in Vid /\ State /\ CacheInv
  BY RequestsWellFormed DEF Sound, State, TypeOK, Request
<1>3. CASE RequestThrows(r)
  BY <1>3, CountVidUp, ProcessEndsSound DEF RequestThrows
<1>4. CASE VendorRejects(r)
  <2>1. FreshInv'
    BY <1>4, CountVidUp DEF VendorRejects, FreshInv, Unused
  <2>2. MappedInv'
    BY <1>4, ServingMapped DEF VendorRejects, MappedInv, MappedIfSaved
  <2> QED BY <2>1, <2>2
<1>5. CASE Create(r)
  <2>1. /\ pc = "serving" /\ UNCHANGED <<vidToRid, asicState>> /\ req' = r /\ r.op = "create"
        /\ pc' \in {"insert1", "erase1"} /\ (pc' = "insert1" => vid' = r.vid)
    BY <1>5 DEF Create
  <2>2. r.vid \in ObjVid => Unused(r.vid) /\ r.vid[2] <= vidCounter'
    BY <1>5, CountVidUp DEF Create, Sound, FreshInv
  <2>3. FreshInv'
    BY <1>5, <2>1, <2>2, CountVidUp DEF Create, FreshInv, Unused
  <2>4. MappedInv'
    BY <2>1, ServingMapped DEF MappedInv, MappedIfSaved
  <2> QED BY <2>3, <2>4
<1>6. CASE Remove(r)
  <2>1. /\ pc = "serving" /\ pc' = "erase1" /\ UNCHANGED <<vidCounter, vidToRid, asicState>>
        /\ req' = r /\ r.op = "remove"
    BY <1>6 DEF Remove, redis
  <2>2. FreshInv'
    BY <2>1 DEF Sound, FreshInv, Unused
  <2>3. MappedInv'
    BY <2>1, ServingMapped DEF MappedInv, MappedIfSaved
  <2> QED BY <2>2, <2>3
<1>7. CASE Set(r)
  <2>1. /\ pc = "serving" /\ pc' = "reply" /\ UNCHANGED <<vidCounter, vidToRid, asicState>>
        /\ req' = r /\ r.op = "set"
    BY <1>7 DEF Set, redis
  <2>2. vidToRid[r.vid] # NullOid
    BY <1>2, <1>7, NeededVidsRid, CachedRidsCoherent, OidsDistinct DEF Set, State
  <2>3. FreshInv'
    BY <2>1 DEF Sound, FreshInv, Unused
  <2>4. MappedInv'
    BY <2>1, <2>2, ServingMapped DEF MappedInv, MappedIfSaved
  <2> QED BY <2>3, <2>4
<1>8. CASE GetKnown(r)
  <2>1. FreshInv'
    BY <1>8 DEF GetKnown, Sound, FreshInv, Unused, redis
  <2>2. MappedInv'
    BY <1>8, ServingMapped DEF GetKnown, MappedInv, MappedIfSaved, redis
  <2> QED BY <2>1, <2>2
<1>9. CASE GetSpotsRid(r)
  <2>1. /\ pc = "serving" /\ pc' = "insert1" /\ UNCHANGED <<vidToRid, asicState>>
        /\ vidCounter \in Nat /\ vidCounter' = vidCounter + 1
    BY <1>9, BoundAssumption DEF GetSpotsRid, Sound, State, TypeOK
  <2>2. vid' \in ObjVid /\ vid'[2] = vidCounter'
    BY <1>2, <1>9, GetSpotsRidType DEF State
  <2>3. \A v \in ObjVid : v[2] \in Nat
    BY DEF ObjVid
  <2>4. FreshInv'
    BY <2>1, <2>2, <2>3 DEF Sound, FreshInv, Unused
  <2>5. MappedInv'
    BY <2>1, ServingMapped DEF MappedInv, MappedIfSaved
  <2> QED BY <2>4, <2>5
<1> QED BY <1>1, <1>3, <1>4, <1>5, <1>6, <1>7, <1>8, <1>9

LEMMA MapChangeSound ==
  ASSUME Sound, EraseVid \/ EraseRid \/ Evict \/ InsertVid \/ InsertRid
  PROVE  FreshInv' /\ MappedInv'
<1> USE DEF Sound, State, TypeOK
<1>1. vid \in Vid /\ rid \in Rid /\ req.vid \in Vid
  BY DEF EraseVid, EraseRid, Evict, InsertVid, InsertRid, JobOK, InMapChange, Request
<1>2. CASE EraseVid
  <2>1. /\ vidToRid' = [vidToRid EXCEPT ![vid] = NullOid] /\ pc = "erase1" /\ pc' = "erase2"
        /\ UNCHANGED <<vidCounter, asicState, req, vid>>
    BY <1>2 DEF EraseVid, job
  <2>2. FreshInv'
    BY <1>1, <2>1 DEF FreshInv, Unused
  <2>3. \A v \in ObjVid : v # vid => MappedIfSaved(v)'
    BY <1>1, <2>1, OidsDistinct DEF MappedInv, Dying, MappedIfSaved
  <2> QED BY <2>1, <2>2, <2>3 DEF MappedInv, Dying
<1>3. CASE EraseRid
  <2>1. /\ pc = "erase2" /\ pc' = IF req.op = "create" THEN "evict" ELSE "reply"
        /\ UNCHANGED <<vidCounter, vidToRid, asicState, req, vid>>
        /\ req.op \in {"create", "remove"} /\ (req.op = "remove" => vid = req.vid)
    BY <1>3 DEF EraseRid, job, JobOK
  <2>2. FreshInv'
    BY <2>1 DEF FreshInv, Unused
  <2>3. \A v \in ObjVid : v # vid => MappedIfSaved(v)'
    BY <2>1 DEF MappedInv, Dying, MappedIfSaved
  <2> QED BY <2>1, <2>2, <2>3 DEF MappedInv, Dying
<1>4. CASE Evict
  <2>1. /\ asicState' = [asicState EXCEPT ![vid] = NoEntry] /\ pc = "evict" /\ pc' = "insert1"
        /\ vid' = req.vid /\ req.op = "create" /\ UNCHANGED <<vidCounter, vidToRid, req>>
    BY <1>4 DEF Evict, JobOK
  <2>2. FreshInv'
    BY <1>1, <2>1 DEF FreshInv, Unused
  <2>3. \A v \in ObjVid : MappedIfSaved(v)'
    BY <1>1, <2>1, OidsDistinct DEF MappedInv, Dying, MappedIfSaved
  <2> QED BY <2>1, <2>2, <2>3 DEF MappedInv
<1>5. CASE InsertVid
  <2>1. /\ vidToRid' = [vidToRid EXCEPT ![vid] = rid] /\ pc = "insert1" /\ pc' = "insert2"
        /\ UNCHANGED <<vidCounter, asicState, req, vid>>
    BY <1>5 DEF InsertVid, job
  <2>2. FreshInv'
    <3>1. \A v \in ObjVid : v[2] > vidCounter => v # vid
      <4>1. \A v \in ObjVid : v[2] \in Nat
        BY DEF ObjVid
      <4> QED BY <2>1, <4>1, BoundAssumption DEF FreshInv
    <3> QED BY <1>1, <2>1, <3>1 DEF FreshInv, Unused
  <2>3. \A v \in ObjVid : MappedIfSaved(v)'
    BY <1>1, <2>1, OidsDistinct DEF MappedInv, Dying, MappedIfSaved
  <2> QED BY <2>1, <2>2, <2>3 DEF MappedInv
<1>6. CASE InsertRid
  <2>1. /\ pc = "insert2" /\ pc' = "reply" /\ UNCHANGED <<vidCounter, vidToRid, asicState, req, vid>>
        /\ req.op \in {"create", "get"} /\ (req.op = "create" => vid = req.vid)
        /\ vidToRid[vid] = rid
    BY <1>6 DEF InsertRid, job, JobOK, CacheInv
  <2>2. FreshInv'
    BY <2>1 DEF FreshInv, Unused
  <2>3. \A v \in ObjVid : MappedIfSaved(v)'
    BY <2>1, OidsDistinct DEF MappedInv, Dying, MappedIfSaved
  <2>4. req.op = "create" => vidToRid[req.vid] # NullOid
    BY <1>1, <2>1, OidsDistinct
  <2> QED BY <2>1, <2>2, <2>3, <2>4 DEF MappedInv
<1> QED BY <1>2, <1>3, <1>4, <1>5, <1>6

LEMMA AnswerSound ==
  ASSUME Sound, Reply \/ DeleteAsicObject \/ \E f \in {"id", "cfg", "ref"} : SaveField(f)
  PROVE  FreshInv' /\ MappedInv'
<1> USE DEF Sound, State, TypeOK
<1>1. req.vid \in Vid
  BY DEF Request
<1>2. CASE Reply
  <2>1. UNCHANGED redis /\ pc = "reply" /\ pc' \in {"save", "delete", "serving"}
    BY <1>2 DEF Reply, EndRequest
  <2>2. /\ pc' = "save" => req' = req /\ req.op \in {"create", "set"}
        /\ pc' = "delete" => req' = req /\ req.op = "remove"
        /\ pc' = "serving" => req.op # "remove"
    BY <1>2 DEF Reply, EndRequest, job
  <2>3. FreshInv'
    BY <2>1 DEF FreshInv, Unused, redis
  <2>4. Dying' = Dying
    BY <2>1, <2>2 DEF Dying
  <2>5. \A v \in ObjVid : v # Dying => MappedIfSaved(v)'
    BY <2>1 DEF MappedInv, MappedIfSaved, redis
  <2> QED BY <2>1, <2>2, <2>3, <2>4, <2>5 DEF MappedInv, redis
<1>3. CASE DeleteAsicObject
  <2>1. /\ asicState' = [asicState EXCEPT ![req.vid] = NoEntry] /\ pc = "delete" /\ pc' = "serving"
        /\ req.op = "remove" /\ UNCHANGED <<vidCounter, vidToRid>>
    BY <1>3 DEF DeleteAsicObject, EndRequest, JobOK
  <2>2. FreshInv'
    BY <1>1, <2>1 DEF FreshInv, Unused
  <2>3. \A v \in ObjVid : MappedIfSaved(v)'
    BY <1>1, <2>1, OidsDistinct DEF MappedInv, Dying, MappedIfSaved
  <2> QED BY <2>1, <2>2, <2>3 DEF MappedInv
<1>4. ASSUME NEW f \in {"id", "cfg", "ref"}, SaveField(f) PROVE FreshInv' /\ MappedInv'
  <2>1. /\ pc = "save" /\ pc' \in {"save", "serving"} /\ (pc' = "save" => req' = req)
        /\ req.op \in {"create", "set"} /\ UNCHANGED <<vidCounter, vidToRid>>
        /\ \A v \in Vid : v # req.vid => asicState'[v] = asicState[v]
    BY <1>1, <1>4 DEF SaveField, EndRequest, JobOK
  <2>2. vidToRid[req.vid] # NullOid
    BY <2>1 DEF MappedInv
  <2>3. FreshInv'
    BY <2>1, <2>2, OidsDistinct DEF FreshInv, Unused
  <2>4. \A v \in ObjVid : MappedIfSaved(v)'
    BY <2>1, <2>2, OidsDistinct DEF MappedInv, Dying, MappedIfSaved
  <2> QED BY <2>1, <2>2, <2>3, <2>4 DEF MappedInv
<1> QED BY <1>2, <1>3, <1>4

LEMMA ReinitSound ==
  ASSUME Sound, Reinit
  PROVE  FreshInv' /\ MappedInv'
<1> USE DEF Sound, State, TypeOK
<1>1. vidCounter \in Nat
  BY BoundAssumption
<1>2. CASE StartReinit
  BY <1>2, OidsDistinct DEF StartReinit, NoMap, FreshInv, MappedInv, Unused, redis
<1>3. CASE ReinitLinecard
  BY <1>3, OidsDistinct DEF ReinitLinecard, FreshInv, MappedInv, Unused, redis
<1>4. CASE \E v \in ObjVid : ReinitObject(v)
  <2>1. PICK v \in ObjVid : ReinitObject(v)
    BY <1>4
  <2>2. asicState[v] # NoEntry /\ vidToRid[v] # NullOid
    BY <2>1 DEF ReinitObject, Pending, Unrestorable
  <2> QED BY <2>1, <2>2 DEF ReinitObject, FreshInv, MappedInv, Unused, redis
<1>5. CASE ReinitThrows \/ CheckAllIdsThrows
  BY <1>1, <1>5, ProcessEndsSound DEF ReinitThrows, CheckAllIdsThrows, redis
<1>6. CASE FinishReinit
  <2>1. UNCHANGED <<vidCounter, vidToRid, asicState>> /\ pc = "reinit" /\ pc' = "serving"
    BY <1>6 DEF FinishReinit, redis
  <2>2. FreshInv'
    BY <2>1 DEF FreshInv, Unused
  <2>3. \A v \in ObjVid : MappedIfSaved(v)
    BY <1>6, <2>1, OidsDistinct DEF FinishReinit, Pending, MappedInv, MappedIfSaved
  <2> QED BY <2>1, <2>2, <2>3 DEF MappedInv, MappedIfSaved
<1> QED BY <1>2, <1>3, <1>4, <1>5, <1>6 DEF Reinit

LEMMA InitSound == Init => Sound
BY InitState, InitCaches, OidsDistinct
   DEF Init, Sound, FreshInv, MappedInv, Unused, MappedIfSaved, NoMap

LEMMA NextSound == Sound /\ [Next]_vars => Sound'
<1> SUFFICES ASSUME Sound, [Next]_vars PROVE Sound'
  OBVIOUS
<1>1. State' /\ CacheInv'
  BY NextState, NextCaches DEF Sound
<1>2. vidCounter \in Nat
  BY BoundAssumption DEF Sound, State, TypeOK
<1>3. FreshInv' /\ MappedInv'
  <2>1. CASE HandleRequest
    BY <2>1, RequestSound
  <2>2. CASE ContinueRequest /\ ~RemoveLinecardThrows
    BY <2>2, MapChangeSound, AnswerSound DEF ContinueRequest
  <2>3. CASE Reinit
    BY <2>3, ReinitSound
  <2>4. CASE RemoveLinecardThrows \/ RestartQuery \/ Crash
    BY <1>2, <2>4, ProcessEndsSound DEF RemoveLinecardThrows, RestartQuery, Crash, redis
  <2>5. CASE UNCHANGED vars
    BY <2>5 DEF Sound, FreshInv, MappedInv, Unused, MappedIfSaved, Dying, vars, redis, caches, job
  <2> QED BY <2>1, <2>2, <2>3, <2>4, <2>5 DEF Next
<1> QED BY <1>1, <1>3 DEF Sound

-----------------------------------------------------------------------------
(* No object without a linecard. *)

(* While there is no linecard no object has a RID, and the only request    *)
(* that can be translated is the one that creates the linecard.            *)
LinecardInv ==
  /\ pc \notin {"down", "reinit"} /\ linecard = NullOid =>
       /\ \A v \in Vid : vidToRid[v] # NullOid => pc = "insert2" /\ v = vid
       /\ pc # "serving" => req.op = "create" /\ req.vid = LinecardVid
  /\ pc = "reinit" =>
       \A v \in ObjVid : translated[v] # NullOid => translated[LinecardVid] # NullOid

LEMMA InitLinecard == Init => LinecardInv
BY DEF Init, LinecardInv

LEMMA NextLinecard == Sound /\ LinecardInv /\ [Next]_vars => LinecardInv'
<1> SUFFICES ASSUME Sound, LinecardInv, [Next]_vars PROVE LinecardInv'
  OBVIOUS
<1> USE DEF Sound
<1>1. CASE HandleRequest
  <2>1. PICK r \in Requests :
          \/ RequestThrows(r) \/ VendorRejects(r)
          \/ Create(r) \/ Remove(r) \/ Set(r) \/ GetKnown(r) \/ GetSpotsRid(r)
    BY <1>1 DEF HandleRequest
  <2>2. CASE RequestThrows(r)
    BY <2>2 DEF RequestThrows, ProcessEnds, LinecardInv
  <2>3. CASE ~RequestThrows(r)
    <3>1. /\ pc = "serving" /\ UNCHANGED <<vidToRid, linecard>> /\ Translatable(r)
          /\ pc' \notin {"down", "reinit"} /\ r.vid \in Vid
          /\ pc' # "serving" => req' = r
      BY <2>1, <2>3, RequestsWellFormed
         DEF VendorRejects, Create, Remove, Set, GetKnown, GetSpotsRid, redis, State, TypeOK, Request
    <3>2. linecard = NullOid => \A v \in Vid : LookupRid(v) = NullOid
      BY <3>1, CachedRidsCoherent DEF LinecardInv
    <3>3. linecard = NullOid => r.op = "create" /\ r.vid = LinecardVid
      BY <3>1, <3>2, OidsDistinct DEF Translatable, NeededVids
    <3> QED BY <3>1, <3>3 DEF LinecardInv
  <2> QED BY <2>1, <2>2, <2>3
<1>2. CASE ContinueRequest
  <2> USE DEF State, TypeOK
  <2>1. CASE EraseVid
    <3>1. /\ pc = "erase1" /\ pc' = "erase2" /\ UNCHANGED <<linecard, req>>
          /\ vidToRid' = [vidToRid EXCEPT ![vid] = NullOid]
      BY <2>1 DEF EraseVid, job
    <3> QED BY <3>1 DEF LinecardInv
  <2>2. CASE EraseRid \/ Evict
    <3>1. /\ pc \in {"erase2", "evict"} /\ pc' \in {"evict", "reply", "insert1"}
          /\ UNCHANGED <<linecard, req, vidToRid>>
      BY <2>2 DEF EraseRid, Evict, job
    <3> QED BY <3>1 DEF LinecardInv
  <2>3. CASE RemoveLinecardThrows
    BY <2>3 DEF RemoveLinecardThrows, ProcessEnds, LinecardInv
  <2>4. CASE InsertVid
    <3>1. /\ pc = "insert1" /\ pc' = "insert2" /\ UNCHANGED <<linecard, req, vid>>
          /\ vidToRid' = [vidToRid EXCEPT ![vid] = rid]
      BY <2>4 DEF InsertVid, job
    <3> QED BY <3>1 DEF LinecardInv
  <2>5. CASE InsertRid
    <3>1. /\ pc = "insert2" /\ pc' = "reply" /\ UNCHANGED <<vidToRid, req>> /\ rid \in Rid
          /\ linecard' = (IF req.op = "create" /\ vid = LinecardVid THEN rid ELSE linecard)
          /\ req.op = "create" => vid = req.vid
      BY <2>5 DEF InsertRid, job, JobOK, InMapChange
    <3>2. linecard' # NullOid
      BY <3>1, OidsDistinct DEF LinecardInv
    <3> QED BY <3>1, <3>2 DEF LinecardInv
  <2>6. CASE Reply \/ DeleteAsicObject \/ \E f \in {"id", "cfg", "ref"} : SaveField(f)
    <3>1. /\ pc \in {"reply", "save", "delete"} /\ pc' \in {"save", "delete", "serving"}
          /\ UNCHANGED <<linecard, vidToRid>> /\ (pc' # "serving" => UNCHANGED req)
      BY <2>6 DEF Reply, DeleteAsicObject, SaveField, EndRequest, redis, job
    <3> QED BY <3>1 DEF LinecardInv
  <2> QED BY <1>2, <2>1, <2>2, <2>3, <2>4, <2>5, <2>6 DEF ContinueRequest
<1>3. CASE Reinit
  <2>1. CASE StartReinit
    BY <2>1, OidsDistinct DEF StartReinit, LinecardInv, MappedInv, NoMap
  <2>2. CASE ReinitLinecard
    BY <2>2, OidsDistinct DEF ReinitLinecard, LinecardInv, State, TypeOK
  <2>3. CASE \E v \in ObjVid : ReinitObject(v)
    <3>1. PICK v \in ObjVid : ReinitObject(v)
      BY <2>3
    <3>2. /\ pc = "reinit" /\ pc' = "reinit" /\ translated[LinecardVid] # NullOid
          /\ translated' = [translated EXCEPT ![v] = VendorRid(v, asicState[v])]
      BY <3>1 DEF ReinitObject, Unrestorable
    <3>3. translated'[LinecardVid] # NullOid
      BY <3>2, OidsDistinct DEF State, TypeOK
    <3> QED BY <3>2, <3>3 DEF LinecardInv
  <2>4. CASE ReinitThrows \/ CheckAllIdsThrows
    BY <2>4 DEF ReinitThrows, CheckAllIdsThrows, ProcessEnds, LinecardInv
  <2>5. CASE FinishReinit
    <3>1. /\ pc = "reinit" /\ pc' = "serving" /\ linecard' = translated[LinecardVid]
          /\ UNCHANGED vidToRid
          /\ \A v \in Vid : vidToRid[v] # NullOid => translated[v] # NullOid
      BY <2>5 DEF FinishReinit, AllIdsTranslated, redis
    <3>2. \A v \in Vid : vidToRid[v] # NullOid => translated[LinecardVid] # NullOid
      BY <3>1, OidsDistinct DEF LinecardInv
    <3> QED BY <3>1, <3>2 DEF LinecardInv
  <2> QED BY <1>3, <2>1, <2>2, <2>3, <2>4, <2>5 DEF Reinit
<1>4. CASE RestartQuery \/ Crash
  BY <1>4 DEF RestartQuery, Crash, ProcessEnds, LinecardInv
<1>5. CASE UNCHANGED vars
  BY <1>5 DEF LinecardInv, vars, redis, job
<1> QED BY <1>1, <1>2, <1>3, <1>4, <1>5 DEF Next

-----------------------------------------------------------------------------
(* No request takes another object's entry away.                           *)

(* Where an object has an ID and a RID, the RID is that of the ID.         *)
IdGivesRid ==
  \A v \in Keyed : asicState[v].id # Unset /\ vidToRid[v] # NullOid =>
    vidToRid[v] = <<v[1], asicState[v].id>>

(* RIDTOVID may outlive VIDTORID after a crash, but then never contradicts *)
(* it, and it keeps the types apart.                                       *)
NamesItsOwn(r) ==
  ridToVid[r] # NullOid =>
    /\ ridToVid[r][1] = r[1]
    /\ ridToVid[r][2] <= vidCounter
    /\ vidToRid[ridToVid[r]] \in {r, NullOid}

NeverNamed(v) == \A r \in ObjRid : ridToVid[r] # v

(* The VID a create evicts is of the type of the new object and has, if    *)
(* the RID follows from the ID, its ID or none.                            *)
EvictsItsLike ==
  /\ vid[1] = req.vid[1]
  /\ vid \in Keyed => asicState[vid].id \in {Unset, req.attrs.id}

(* The uninitialised objectVidOld held a RID of another object than rid.   *)
Strayed == \E g \in (StackGarbage \cap Rid) \ {rid} : rid2vid[g] = vid

NewRid(v) == rid[1] = v[1] /\ (req.op = "create" /\ v \in Keyed => rid = <<v[1], req.attrs.id>>)

OwnJob ==
  /\ pc \in {"erase1", "erase2", "evict"} /\ req.op = "create" =>
       (EvictsItsLike \/ Strayed) /\ NewRid(req.vid) /\ (req.vid \in ObjVid => NeverNamed(req.vid))
  /\ pc = "insert1" /\ vid \in ObjVid => NeverNamed(vid)
  /\ pc \in {"insert1", "insert2"} => NewRid(vid) /\ (vid \in ObjVid => vid[2] <= vidCounter)
  /\ pc \in {"reply", "save"} /\ req.op = "create" /\ req.vid \in Keyed =>
       vidToRid[req.vid] = <<req.vid[1], req.attrs.id>>
  /\ pc \in {"reply", "save"} /\ req.op = "set" => req.attrs.id = Unset
  /\ pc = "save" => left \subseteq Fields(req.attrs)

OwnInv == IdGivesRid /\ (\A r \in ObjRid : NamesItsOwn(r)) /\ OwnJob

(* The first element of an OID is its type.                                *)
LEMMA OidTypes ==
  /\ \A v \in ObjVid : v[1] \in ObjType /\ v[2] \in Nat
  /\ \A r \in ObjRid : r[1] \in ObjType
  /\ LinecardVid[1] = "LINECARD" /\ LinecardRid[1] = "LINECARD"
  /\ \A v \in Vid, w \in Keyed : v[1] = w[1] => v \in Keyed
  /\ Keyed \subseteq ObjVid
<1>1. \A v \in ObjVid : v[1] \in ObjType /\ v[2] \in Nat
  BY DEF ObjVid
<1>2. \A r \in ObjRid : r[1] \in ObjType
  BY DEF ObjRid
<1>3. LinecardVid[1] = "LINECARD" /\ LinecardRid[1] = "LINECARD"
  BY DEF LinecardVid, LinecardRid
<1>4. \A v \in Vid, w \in Keyed : v[1] = w[1] => v \in Keyed
  BY <1>1, <1>3, OidsDistinct, TypeAssumption DEF Keyed
<1> QED BY <1>1, <1>2, <1>3, <1>4 DEF Keyed

(* The RID of a create has the type of its VID and the ID it was given.    *)
LEMMA VendorRidOwn ==
  ASSUME NEW r \in CreateRequests, r.vid \in Vid
  PROVE  /\ VendorRid(r.vid, r.attrs)[1] = r.vid[1]
         /\ r.vid \in Keyed => VendorRid(r.vid, r.attrs) = <<r.vid[1], r.attrs.id>>
<1>1. r.attrs.id # Unset
  BY ValueAssumption DEF CreateRequests
<1>2. CASE r.vid = LinecardVid
  BY <1>2, OidTypes, OidsDistinct DEF VendorRid
<1>3. CASE r.vid # LinecardVid
  BY <1>1, <1>3 DEF VendorRid, Keyed
<1> QED BY <1>2, <1>3

(* A step that leaves the maps and ASIC_STATE, and no request under way.   *)
LEMMA SameOwn ==
  ASSUME State, OwnInv, UNCHANGED <<vidToRid, ridToVid, asicState>>,
         vidCounter' \in Nat, vidCounter \in Nat, vidCounter' >= vidCounter
  PROVE  IdGivesRid' /\ \A r \in ObjRid : NamesItsOwn(r)'
<1>1. IdGivesRid'
  BY DEF OwnInv, IdGivesRid
<1>2. ASSUME NEW r \in ObjRid, ridToVid[r] # NullOid PROVE NamesItsOwn(r)'
  <2>1. ridToVid[r] \in ObjVid
    BY <1>2, OidsDistinct DEF State, TypeOK, Sorted
  <2>2. ridToVid[r][2] \in Nat
    BY <2>1, OidTypes
  <2> QED BY <1>2, <2>2 DEF OwnInv, NamesItsOwn
<1>3. \A r \in ObjRid : NamesItsOwn(r)'
  BY <1>2 DEF NamesItsOwn
<1> QED BY <1>1, <1>3

LEMMA CreateOwn ==
  ASSUME Sound, OwnInv, NEW r \in Requests, Create(r)
  PROVE  OwnJob'
<1>1. /\ r \in CreateRequests /\ r \in Request /\ r.vid \in Vid /\ req' = r /\ r.op = "create"
      /\ UNCHANGED <<vidToRid, ridToVid, asicState>> /\ rid' = VendorRid(r.vid, r.attrs)
  BY RequestsWellFormed DEF Create, Sound, State, TypeOK, Request
<1>2. \/ pc' = "insert1" /\ vid' = r.vid
      \/ pc' = "erase1" /\ vid' # NullOid /\ (ridToVid[rid'] = vid' \/ Strayed')
  <2>1. PICK g \in StackGarbage :
          LET objectVidOld == TryRidToVid(rid', g) IN
          IF objectVidOld = NullOid
            THEN pc' = "insert1" /\ vid' = r.vid
            ELSE pc' = "erase1" /\ vid' = objectVidOld
    BY DEF Create
  <2>2. CASE g \in Rid /\ rid2vid[g] # NullOid
    <3>1. pc' = "erase1" /\ vid' = rid2vid[g] /\ vid' # NullOid /\ UNCHANGED rid2vid
      BY <2>1, <2>2 DEF TryRidToVid, Create
    <3>2. rid2vid[g] = ridToVid[g]
      BY <2>2 DEF Sound, CacheInv, RidCached, Create
    <3> QED BY <2>2, <3>1, <3>2 DEF Strayed
  <2>3. CASE ~(g \in Rid /\ rid2vid[g] # NullOid)
    BY <2>1, <2>3 DEF TryRidToVid
  <2> QED BY <2>2, <2>3
<1>3. /\ rid'[1] = r.vid[1]
      /\ r.vid \in Keyed => rid' = <<r.vid[1], r.attrs.id>>
  BY <1>1, VendorRidOwn
<1>4. Pair(r.vid, rid') /\ rid' \in Rid
  BY CreateSorted DEF Sound
<1>5. r.vid \in ObjVid => r.vid[2] = vidCounter + 1 /\ vidCounter' = vidCounter + 1 /\ vidCounter \in Nat
  BY <1>1, CountVidUp DEF Create
<1>6. r.vid \in ObjVid => NeverNamed(r.vid)'
  <2> SUFFICES ASSUME r.vid \in ObjVid, NEW q \in ObjRid, ridToVid[q] = r.vid PROVE FALSE
    BY <1>1 DEF NeverNamed
  <2>1. r.vid[2] <= vidCounter
    BY OidsDistinct DEF OwnInv, NamesItsOwn
  <2> QED BY <1>5, <2>1
<1>7. CASE pc' = "insert1"
  <2>1. NewRid(vid)' /\ (vid' \in ObjVid => vid'[2] <= vidCounter')
    BY <1>1, <1>2, <1>3, <1>5, <1>7 DEF NewRid
  <2> QED BY <1>1, <1>2, <1>6, <1>7, <2>1 DEF OwnJob
<1>8. CASE pc' = "erase1"
  <2>1. NewRid(req.vid)'
    BY <1>1, <1>3 DEF NewRid
  <2>0. CASE Strayed'
    BY <1>1, <1>6, <1>8, <2>0, <2>1 DEF OwnJob
  <2>2. CASE ~Strayed' /\ rid' = LinecardRid
    <3>1. vid' = LinecardVid /\ r.vid = LinecardVid
      BY <1>2, <1>4, <1>8, <2>2, OidsDistinct DEF Sound, State, Sorted, Pair
    <3>2. EvictsItsLike'
      BY <1>1, <3>1, OidTypes, OidsDistinct DEF EvictsItsLike
    <3> QED BY <1>1, <1>6, <1>8, <2>1, <3>2 DEF OwnJob
  <2>3. CASE ~Strayed' /\ rid' \in ObjRid
    <3>1. vid' \in ObjVid
      BY <1>2, <1>4, <1>8, <2>3, OidsDistinct DEF Sound, State, Sorted, TypeOK
    <3>2. vid'[1] = rid'[1] /\ vidToRid[vid'] \in {rid', NullOid}
      BY <1>2, <1>8, <2>3 DEF OwnInv, NamesItsOwn
    <3>3. ASSUME vid' \in Keyed, asicState[vid'].id # Unset PROVE asicState[vid'].id = r.attrs.id
      <4>1. asicState[vid'] # NoEntry
        BY <3>3 DEF NoEntry
      <4>2. vidToRid[vid'] = rid'
        BY <3>1, <3>2, <4>1, ServingMapped DEF MappedIfSaved, Create
      <4>3. rid' = <<vid'[1], asicState[vid'].id>>
        BY <1>4, <3>3, <4>2, OidsDistinct DEF OwnInv, IdGivesRid
      <4>4. r.vid \in Keyed
        BY <1>1, <1>3, <3>2, <3>3, OidTypes
      <4> QED BY <1>3, <4>3, <4>4
    <3>4. EvictsItsLike'
      BY <1>1, <1>3, <3>2, <3>3 DEF EvictsItsLike
    <3> QED BY <1>1, <1>6, <1>8, <2>1, <3>4 DEF OwnJob
  <2> QED BY <1>4, <2>0, <2>2, <2>3, OidsDistinct
<1> QED BY <1>2, <1>7, <1>8

LEMMA RequestOwn ==
  ASSUME Sound, OwnInv, HandleRequest
  PROVE  OwnInv'
<1>1. PICK r \in Requests :
        \/ RequestThrows(r) \/ VendorRejects(r)
        \/ Create(r) \/ Remove(r) \/ Set(r) \/ GetKnown(r) \/ GetSpotsRid(r)
  BY DEF HandleRequest
<1>2. /\ pc = "serving" /\ UNCHANGED <<vidToRid, ridToVid, asicState>> /\ State
      /\ vidCounter \in Nat /\ vidCounter' \in Nat /\ vidCounter' >= vidCounter
  <2>1. vidCounter \in 0 .. MaxVid /\ State
    BY DEF Sound, State, TypeOK
  <2>2. CASE CountVid(r)
    BY <1>1, <2>1, <2>2, CountVidUp
       DEF RequestThrows, VendorRejects, Create, Remove, Set, GetKnown, GetSpotsRid, redis
  <2>3. CASE GetSpotsRid(r)
    BY <2>1, <2>3, BoundAssumption DEF GetSpotsRid
  <2>4. CASE Remove(r) \/ Set(r) \/ GetKnown(r)
    BY <2>1, <2>4, BoundAssumption DEF Remove, Set, GetKnown, redis
  <2> QED BY <1>1, <2>2, <2>3, <2>4 DEF RequestThrows, VendorRejects, Create
<1>3. IdGivesRid' /\ \A q \in ObjRid : NamesItsOwn(q)'
  BY <1>2, SameOwn
<1>4. CASE RequestThrows(r) \/ VendorRejects(r) \/ GetKnown(r)
  <2>1. pc' \in {"down", "serving"}
    BY <1>2, <1>4 DEF RequestThrows, ProcessEnds, VendorRejects, GetKnown
  <2> QED BY <1>3, <2>1 DEF OwnInv, OwnJob
<1>5. CASE Create(r)
  BY <1>3, <1>5, CreateOwn DEF OwnInv
<1>6. CASE Remove(r)
  <2>1. pc' = "erase1" /\ req' = r /\ r.op = "remove"
    BY <1>6 DEF Remove
  <2> QED BY <1>3, <2>1 DEF OwnInv, OwnJob
<1>7. CASE Set(r)
  <2>1. pc' = "reply" /\ req' = r /\ r.op = "set"
    BY <1>7 DEF Set
  <2>2. r.attrs.id = Unset
    BY <2>1 DEF Requests, CreateRequests, OtherRequests
  <2> QED BY <1>3, <2>1, <2>2 DEF OwnInv, OwnJob
<1>8. CASE GetSpotsRid(r)
  <2>1. /\ pc' = "insert1" /\ req' = r /\ r.op = "get" /\ vidCounter' = vidCounter + 1
        /\ vid' = <<rid'[1], vidCounter'>>
    BY <1>8 DEF GetSpotsRid
  <2>2. vid'[1] = rid'[1] /\ vid'[2] = vidCounter + 1
    BY <2>1
  <2>3. NeverNamed(vid)'
    <3> SUFFICES ASSUME NEW q \in ObjRid, ridToVid[q] = vid', vid' # NullOid PROVE FALSE
      <4>1. vid' \in ObjVid
        BY <1>2, <1>8, GetSpotsRidType DEF State
      <4> QED BY <1>2, <4>1, OidsDistinct DEF NeverNamed
    <3>1. ridToVid[q][2] <= vidCounter
      BY DEF OwnInv, NamesItsOwn
    <3> QED BY <1>2, <2>2, <3>1
  <2>4. NewRid(vid)' /\ vid'[2] <= vidCounter'
    BY <1>2, <2>1, <2>2 DEF NewRid
  <2> QED BY <1>3, <2>1, <2>3, <2>4 DEF OwnInv, OwnJob
<1> QED BY <1>1, <1>4, <1>5, <1>6, <1>7, <1>8

LEMMA SaveFieldOwn ==
  ASSUME Sound, OwnInv, NEW f \in {"id", "cfg", "ref"}, SaveField(f)
  PROVE  OwnInv'
<1> USE DEF Sound, State, TypeOK
<1>1. /\ pc = "save" /\ f \in left /\ UNCHANGED <<vidToRid, ridToVid, vidCounter>>
      /\ asicState' = [asicState EXCEPT ![req.vid][f] = req.attrs[f]]
      /\ req.vid \in Vid /\ req.op \in {"create", "set"} /\ req.attrs[f] = req.attrs[f]
      /\ asicState[req.vid] \in Entry
  BY DEF SaveField, JobOK, Request
<1>2. /\ \A v \in Vid : v # req.vid => asicState'[v] = asicState[v]
      /\ asicState'[req.vid] = [asicState[req.vid] EXCEPT ![f] = req.attrs[f]]
  BY <1>1
<1>3. asicState'[req.vid].id = IF f = "id" THEN req.attrs.id ELSE asicState[req.vid].id
  BY <1>1, <1>2 DEF Entry
<1>4. f = "id" => req.op = "create"
  <2>1. left \subseteq Fields(req.attrs)
    BY <1>1 DEF OwnInv, OwnJob
  <2>2. f = "id" => req.attrs.id # Unset
    BY <1>1, <2>1 DEF Fields
  <2>3. req.op = "set" => req.attrs.id = Unset
    BY <1>1 DEF OwnInv, OwnJob
  <2> QED BY <1>1, <2>2, <2>3
<1>5. IdGivesRid'
  <2> SUFFICES ASSUME NEW v \in Keyed, asicState'[v].id # Unset, vidToRid[v] # NullOid
               PROVE  vidToRid[v] = <<v[1], asicState'[v].id>>
    BY <1>1 DEF IdGivesRid
  <2>1. CASE v = req.vid /\ f = "id"
    <3>1. vidToRid[req.vid] = <<req.vid[1], req.attrs.id>>
      BY <1>1, <1>4, <2>1 DEF OwnInv, OwnJob
    <3> QED BY <1>3, <2>1, <3>1
  <2>2. CASE ~(v = req.vid /\ f = "id")
    <3>1. asicState'[v].id = asicState[v].id
      BY <1>2, <1>3, <2>2, OidTypes, OidsDistinct
    <3> QED BY <3>1 DEF OwnInv, IdGivesRid
  <2> QED BY <2>1, <2>2
<1>6. \A r \in ObjRid : NamesItsOwn(r)'
  BY <1>1 DEF OwnInv, NamesItsOwn
<1>7. OwnJob'
  <2>1. CASE left = {f}
    BY <1>1, <2>1 DEF SaveField, EndRequest, OwnJob
  <2>2. CASE left # {f}
    BY <1>1, <2>2 DEF SaveField, OwnInv, OwnJob
  <2> QED BY <2>1, <2>2
<1> QED BY <1>5, <1>6, <1>7 DEF OwnInv

LEMMA InsertOwn ==
  ASSUME Sound, OwnInv, InsertVid \/ InsertRid
  PROVE  OwnInv'
<1> USE DEF Sound, State, TypeOK
<1>0. /\ UNCHANGED <<asicState, vidCounter, req, vid, rid>> /\ vid \in Vid /\ rid \in Rid
      /\ Pair(vid, rid) /\ req.op \in {"create", "get"} /\ NewRid(vid)
      /\ (vid \in ObjVid => vid[2] <= vidCounter)
      /\ (req.op = "create" => vid = req.vid)
  BY DEF InsertVid, InsertRid, job, JobOK, InMapChange, OwnInv, OwnJob
<1>a. NewRid(vid)'
  BY <1>0 DEF NewRid
<1>1. CASE InsertVid
  <2>1. /\ pc = "insert1" /\ pc' = "insert2" /\ UNCHANGED ridToVid
        /\ vidToRid' = [vidToRid EXCEPT ![vid] = rid]
    BY <1>1 DEF InsertVid
  <2>2. vidToRid'[vid] = rid /\ \A v \in Vid : v # vid => vidToRid'[v] = vidToRid[v]
    BY <1>0, <2>1
  <2>3. IdGivesRid'
    <3> SUFFICES ASSUME NEW v \in Keyed, asicState[v].id # Unset, vidToRid'[v] # NullOid
                 PROVE  vidToRid'[v] = <<v[1], asicState[v].id>>
      BY <1>0 DEF IdGivesRid
    <3>1. v # vid
      <4>1. v = vid => asicState[v] = NoEntry
        BY <2>1, OidTypes DEF FreshInv, Unused
      <4> QED BY <4>1 DEF NoEntry
    <3> QED BY <2>2, <3>1, OidTypes, OidsDistinct DEF OwnInv, IdGivesRid
  <2>4. ASSUME NEW r \in ObjRid, ridToVid[r] # NullOid PROVE NamesItsOwn(r)'
    <3>1. ridToVid[r] \in ObjVid
      BY <2>4, OidsDistinct DEF Sorted
    <3>2. ridToVid[r] # vid
      BY <2>1, <3>1 DEF OwnInv, OwnJob, NeverNamed
    <3> QED BY <1>0, <2>1, <2>2, <2>4, <3>1, <3>2, OidsDistinct DEF OwnInv, NamesItsOwn
  <2>5. \A r \in ObjRid : NamesItsOwn(r)'
    BY <2>1, <2>4 DEF NamesItsOwn
  <2> QED BY <1>0, <1>a, <2>1, <2>3, <2>5 DEF OwnInv, OwnJob
<1>2. CASE InsertRid
  <2>1. /\ pc = "insert2" /\ pc' = "reply" /\ UNCHANGED vidToRid
        /\ ridToVid' = [ridToVid EXCEPT ![rid] = vid] /\ vidToRid[vid] = rid
    BY <1>2 DEF InsertRid, CacheInv
  <2>2. ridToVid'[rid] = vid /\ \A r \in Rid : r # rid => ridToVid'[r] = ridToVid[r]
    BY <1>0, <2>1
  <2>3. IdGivesRid'
    BY <1>0, <2>1 DEF OwnInv, IdGivesRid
  <2>4. ASSUME NEW r \in ObjRid PROVE NamesItsOwn(r)'
    <3>1. CASE r = rid
      <4>1. vid \in ObjVid
        BY <1>0, <3>1, OidsDistinct DEF Pair
      <4> QED BY <1>0, <2>1, <2>2, <3>1, <4>1 DEF NamesItsOwn, NewRid
    <3>2. CASE r # rid
      BY <1>0, <2>1, <2>2, <3>2, OidsDistinct DEF OwnInv, NamesItsOwn
    <3> QED BY <3>1, <3>2
  <2>5. req.op = "create" /\ req.vid \in Keyed => vidToRid[req.vid] = <<req.vid[1], req.attrs.id>>
    BY <1>0, <2>1 DEF NewRid
  <2> QED BY <1>0, <2>1, <2>3, <2>4, <2>5 DEF OwnInv, OwnJob
<1> QED BY <1>1, <1>2

LEMMA ContinueRequestOwn ==
  ASSUME Sound, OwnInv, ContinueRequest
  PROVE  OwnInv'
<1> USE DEF Sound, State, TypeOK
<1>0. (InMapChange => vid \in Vid /\ rid \in Rid) /\ req.vid \in Vid /\ vidCounter \in Nat
  BY BoundAssumption DEF JobOK, Request
<1>1. CASE EraseVid
  <2>1. /\ pc = "erase1" /\ pc' = "erase2"
        /\ UNCHANGED <<ridToVid, asicState, vidCounter, vid, rid, req>>
        /\ vidToRid' = [vidToRid EXCEPT ![vid] = NullOid] /\ vid \in Vid
    BY <1>0, <1>1 DEF EraseVid, InMapChange, job
  <2>a. UNCHANGED rid2vid
    BY <1>1 DEF EraseVid, caches
  <2>2. \A v \in Vid : vidToRid'[v] \in {vidToRid[v], NullOid}
    BY <2>1
  <2>3. IdGivesRid'
    BY <2>1, <2>2, OidTypes, OidsDistinct DEF OwnInv, IdGivesRid
  <2>4. ASSUME NEW r \in ObjRid, ridToVid[r] # NullOid PROVE NamesItsOwn(r)'
    <3>1. ridToVid[r] \in Vid
      BY <2>4, OidsDistinct
    <3>2. vidToRid'[ridToVid[r]] \in {r, NullOid}
      BY <2>2, <2>4, <3>1 DEF OwnInv, NamesItsOwn
    <3> QED BY <2>1, <2>4, <3>2 DEF OwnInv, NamesItsOwn
  <2>5. \A r \in ObjRid : NamesItsOwn(r)'
    BY <2>1, <2>4 DEF NamesItsOwn
  <2> QED
    BY <2>1, <2>a, <2>3, <2>5 DEF OwnInv, OwnJob, EvictsItsLike, Strayed, NewRid, NeverNamed
<1>2. CASE EraseRid \/ RemoveLinecardThrows
  <2>1. /\ ridToVid' = [ridToVid EXCEPT ![rid] = NullOid] /\ pc = "erase2"
        /\ UNCHANGED <<vidToRid, asicState, vidCounter>> /\ vid \in Vid /\ rid \in Rid
        /\ pc' \in {"evict", "reply", "down"}
        /\ pc' = "evict" => UNCHANGED <<vid, rid, req>> /\ req.op = "create"
                             /\ rid2vid' = [rid2vid EXCEPT ![rid] = NullOid]
        /\ pc' = "reply" => UNCHANGED req /\ req.op = "remove"
    BY <1>0, <1>2 DEF EraseRid, RemoveLinecardThrows, ProcessEnds, InMapChange, job, JobOK
  <2>2. \A r \in Rid : ridToVid'[r] \in {ridToVid[r], NullOid}
    BY <2>1
  <2>3. IdGivesRid'
    BY <2>1 DEF OwnInv, IdGivesRid
  <2>4. \A r \in ObjRid : NamesItsOwn(r)'
    BY <2>1, <2>2, OidsDistinct DEF OwnInv, NamesItsOwn
  <2>5. pc' = "evict" => NewRid(req.vid)' /\ (req.vid \in ObjVid => NeverNamed(req.vid)')
    BY <2>1, <2>2, OidsDistinct DEF OwnInv, OwnJob, NewRid, NeverNamed
  <2>6. pc' = "evict" => (EvictsItsLike \/ Strayed)'
    BY <2>1 DEF OwnInv, OwnJob, EvictsItsLike, Strayed
  <2> QED BY <2>1, <2>3, <2>4, <2>5, <2>6 DEF OwnInv, OwnJob
<1>3. CASE Evict
  <2>1. /\ pc = "evict" /\ pc' = "insert1" /\ vid' = req.vid /\ req.op = "create" /\ vid \in Vid
        /\ UNCHANGED <<vidToRid, ridToVid, vidCounter, rid, req>>
        /\ asicState' = [asicState EXCEPT ![vid] = NoEntry]
    BY <1>0, <1>3 DEF Evict, JobOK, InMapChange
  <2>2. IdGivesRid'
    <3>1. \A v \in Vid : asicState'[v] \in {asicState[v], NoEntry}
      BY <2>1
    <3> QED BY <2>1, <3>1, OidTypes, OidsDistinct DEF OwnInv, IdGivesRid, NoEntry
  <2>3. \A r \in ObjRid : NamesItsOwn(r)'
    BY <2>1 DEF OwnInv, NamesItsOwn
  <2>4. NewRid(vid)' /\ (vid' \in ObjVid => NeverNamed(vid)' /\ vid'[2] <= vidCounter')
    BY <2>1 DEF OwnInv, OwnJob, NewRid, NeverNamed, FreshInv
  <2> QED BY <2>1, <2>2, <2>3, <2>4 DEF OwnInv, OwnJob
<1>4. CASE InsertVid \/ InsertRid
  BY <1>4, InsertOwn
<1>5. CASE Reply
  <2>1. /\ pc = "reply" /\ pc' \in {"delete", "save", "serving"} /\ UNCHANGED redis
        /\ pc' = "save" => UNCHANGED req /\ left' = Fields(req.attrs)
        /\ pc' = "delete" => UNCHANGED req
    BY <1>5 DEF Reply, EndRequest, job
  <2>2. IdGivesRid' /\ \A r \in ObjRid : NamesItsOwn(r)'
    BY <1>0, <2>1, SameOwn DEF redis
  <2> QED BY <2>1, <2>2 DEF OwnInv, OwnJob, redis
<1>6. CASE \E f \in {"id", "cfg", "ref"} : SaveField(f)
  BY <1>6, SaveFieldOwn
<1>7. CASE DeleteAsicObject
  <2>1. /\ pc' = "serving" /\ UNCHANGED <<vidToRid, ridToVid, vidCounter>>
        /\ asicState' = [asicState EXCEPT ![req.vid] = NoEntry]
    BY <1>7 DEF DeleteAsicObject, EndRequest
  <2>2. IdGivesRid'
    <3>1. \A v \in Vid : asicState'[v] \in {asicState[v], NoEntry}
      BY <1>0, <2>1
    <3> QED BY <2>1, <3>1, OidTypes, OidsDistinct DEF OwnInv, IdGivesRid, NoEntry
  <2>3. \A r \in ObjRid : NamesItsOwn(r)'
    BY <2>1 DEF OwnInv, NamesItsOwn
  <2> QED BY <2>1, <2>2, <2>3 DEF OwnInv, OwnJob
<1> QED BY <1>1, <1>2, <1>3, <1>4, <1>5, <1>6, <1>7 DEF ContinueRequest

LEMMA NextOwn == Sound /\ OwnInv /\ [Next]_vars => OwnInv'
<1> SUFFICES ASSUME Sound, OwnInv, [Next]_vars PROVE OwnInv'
  OBVIOUS
<1>1. CASE HandleRequest
  BY <1>1, RequestOwn
<1>2. CASE ContinueRequest
  BY <1>2, ContinueRequestOwn
<1>3. CASE Reinit \/ RestartQuery \/ Crash
  <2>1. pc' \in {"down", "reinit", "serving"} /\ UNCHANGED redis
    BY <1>3 DEF Reinit, RestartQuery, Crash, StartReinit, ReinitLinecard, ReinitObject,
       ReinitThrows, FinishReinit, CheckAllIdsThrows, ProcessEnds
  <2>2. vidCounter \in Nat
    BY BoundAssumption DEF Sound, State, TypeOK
  <2>3. IdGivesRid' /\ \A r \in ObjRid : NamesItsOwn(r)'
    BY <2>1, <2>2, SameOwn DEF redis, Sound
  <2> QED BY <2>1, <2>3 DEF OwnInv, OwnJob
<1>4. CASE UNCHANGED vars
  BY <1>4 DEF OwnInv, OwnJob, IdGivesRid, NamesItsOwn, NeverNamed, EvictsItsLike, Strayed,
     NewRid, vars, redis, caches, job
<1> QED BY <1>1, <1>2, <1>3, <1>4 DEF Next

LEMMA InitOwn == Init => OwnInv
BY OidTypes, OidsDistinct
   DEF Init, OwnInv, OwnJob, IdGivesRid, NamesItsOwn, NoMap, NoInverse, NoEntry

(* Whoever asks, whatever fails, whenever syncd is killed and whatever the *)
(* uninitialised objectVidOld holds: an entry leaves ASIC_STATE only with  *)
(* a remove of its own VID, for a create of the same type and, where the   *)
(* RID follows from the ID, the same ID, or for a create whose garbage is  *)
(* the RID under which that very entry is cached.                          *)
THEOREM OnlyOwnEntryEverGoes == Spec => OnlyOwnEntryGoes
<1>1. Init => Sound /\ OwnInv
  BY InitSound, InitOwn
<1>2. Sound /\ OwnInv /\ [Next]_vars => Sound' /\ OwnInv'
  BY NextSound, NextOwn
<1>3. Sound /\ OwnInv /\ [Next]_vars => [OwnEntryGoes]_asicState
  <2> SUFFICES ASSUME Sound, OwnInv, [Next]_vars, asicState' # asicState,
                      NEW v \in Vid, asicState[v] # NoEntry, asicState'[v] = NoEntry
               PROVE  \/ req.op = "remove" /\ req.vid = v
                      \/ req.op = "create" /\ req.vid[1] = v[1]
                           /\ (v \in Keyed => asicState[v].id \in {req.attrs.id, Unset})
                      \/ req.op = "create" /\ HeldByGarbage(v)
    BY DEF OwnEntryGoes
  <2>1. \/ Evict \/ DeleteAsicObject \/ \E f \in {"id", "cfg", "ref"} : SaveField(f)
    BY DEF Next, HandleRequest, ContinueRequest, Reinit, RestartQuery, Crash, RequestThrows,
       VendorRejects, Create, Remove, Set, GetKnown, GetSpotsRid, EraseVid, EraseRid,
       RemoveLinecardThrows, InsertVid, InsertRid, Reply, StartReinit, ReinitLinecard,
       ReinitObject, ReinitThrows, FinishReinit, CheckAllIdsThrows, ProcessEnds, vars, redis
  <2>2. asicState \in [Vid -> Entry] /\ req.vid \in Vid
    BY DEF Sound, State, TypeOK, Request
  <2>3. CASE Evict
    <3>1. pc = "evict" /\ req.op = "create" /\ asicState' = [asicState EXCEPT ![vid] = NoEntry]
      BY <2>3 DEF Evict, Sound, State, JobOK
    <3>2. EvictsItsLike \/ Strayed
      BY <3>1 DEF OwnInv, OwnJob
    <3>3. v = vid
      BY <2>2, <3>1
    <3> QED BY <3>1, <3>2, <3>3 DEF EvictsItsLike, Strayed, HeldByGarbage
  <2>4. CASE DeleteAsicObject
    <3>1. req.op = "remove" /\ asicState' = [asicState EXCEPT ![req.vid] = NoEntry]
      BY <2>4 DEF DeleteAsicObject, Sound, State, JobOK
    <3> QED BY <2>2, <3>1
  <2>5. CASE \E f \in {"id", "cfg", "ref"} : SaveField(f)
    <3>1. PICK f \in {"id", "cfg", "ref"} : SaveField(f)
      BY <2>5
    <3>2. /\ f \in Fields(req.attrs)
          /\ asicState' = [asicState EXCEPT ![req.vid][f] = req.attrs[f]]
      BY <3>1 DEF SaveField, OwnInv, OwnJob
    <3>3. req.attrs[f] # NoEntry[f]
      BY <3>2 DEF Fields, NoEntry
    <3>4. asicState'[req.vid][f] = req.attrs[f]
      BY <2>2, <3>2 DEF Entry
    <3>5. asicState'[req.vid] # NoEntry
      BY <3>3, <3>4
    <3> QED BY <2>2, <3>2, <3>5
  <2> QED BY <2>1, <2>3, <2>4, <2>5
<1> QED BY <1>1, <1>2, <1>3, PTL DEF Spec, OnlyOwnEntryGoes

-----------------------------------------------------------------------------
(* A torn database is never served. *)

Good == Sound /\ RedisInv

(* What a crash at any point leaves in redis is consistent, or it is torn  *)
(* in a way that hard reinit notices.                                      *)
LEMMA CrashLeaves ==
  ASSUME Good
  PROVE  Torn \/ Consistent
<1>1. CASE pc \in {"down", "reinit"}
  BY <1>1 DEF Good, RedisInv
<1>2. CASE pc = "insert2" /\ vid \in ObjVid
  <2>1. asicState[vid] = NoEntry
    BY <1>2 DEF Good, Sound, FreshInv
  <2>2. vidToRid[vid] # NullOid
    BY <1>2, OidsDistinct DEF Good, Sound, CacheInv, State, JobOK, InMapChange
  <2> QED BY <1>2, <2>1, <2>2 DEF Torn
<1>3. CASE pc \notin {"down", "reinit"} /\ ~(pc = "insert2" /\ vid \in ObjVid)
  <2>1. \A v \in ObjVid : MapsBackIfMapped(v) /\ (v # Dying => MappedIfSaved(v))
    BY <1>3 DEF Good, Sound, MappedInv, RedisInv
  <2>2. CASE Dying \in ObjVid /\ ~MappedIfSaved(Dying)
    BY <2>2 DEF Torn, MappedIfSaved
  <2>3. CASE ~(Dying \in ObjVid /\ ~MappedIfSaved(Dying))
    BY <2>1, <2>3 DEF Consistent
  <2> QED BY <2>2, <2>3
<1> QED BY <1>1, <1>2, <1>3

(* The next process finds what the last one left. *)
LEMMA ProcessEndsGood ==
  ASSUME Good, ProcessEnds, UNCHANGED <<vidToRid, ridToVid, asicState>>
  PROVE  RedisInv'
<1>1. Torn' \/ Consistent'
  BY CrashLeaves DEF Torn, Consistent, MapsBackIfMapped, MappedIfSaved
<1> QED BY <1>1 DEF ProcessEnds, RedisInv

(* Between requests the maps answer for every object. *)
LEMMA ServingConsistent ==
  ASSUME Good, pc = "serving"
  PROVE  Consistent
BY ServingMapped DEF Good, RedisInv, Consistent

LEMMA CreateGood ==
  ASSUME Good, StackGarbage \cap Rid = {}, NEW r \in Requests, Create(r)
  PROVE  RedisInv'
<1>1. Consistent /\ UNCHANGED <<vidToRid, ridToVid, asicState>>
  BY ServingConsistent DEF Create
<1>2. Pair(r.vid, rid') /\ rid' \in Rid /\ vid' \in Vid
  BY CreateSorted DEF Good, Sound
<1>3. \/ pc' = "insert1" /\ vid' = r.vid /\ ridToVid[rid'] = NullOid
      \/ pc' = "erase1" /\ ridToVid[rid'] = vid' /\ vid' # NullOid
  BY DEF Create, TryRidToVid
<1>4. pc' = "insert1" => NobodyHas(rid')
  BY <1>1, <1>2, <1>3, OidsDistinct DEF Consistent, MapsBackIfMapped, NobodyHas
<1>5. pc' = "erase1" => Pair(vid', rid')
  BY <1>2, <1>3, OidsDistinct DEF Good, Sound, State, Sorted, TypeOK, Pair
<1> QED BY <1>1, <1>3, <1>4, <1>5 DEF RedisInv, Consistent, MapsBackIfMapped, NobodyHas

LEMMA RequestGood ==
  ASSUME Good, StackGarbage \cap Rid = {}, HandleRequest
  PROVE  RedisInv'
<1>1. PICK r \in Requests :
        \/ RequestThrows(r) \/ VendorRejects(r)
        \/ Create(r) \/ Remove(r) \/ Set(r) \/ GetKnown(r) \/ GetSpotsRid(r)
  BY DEF HandleRequest
<1>2. r.vid \in Vid /\ State /\ CacheInv
  BY RequestsWellFormed DEF Good, Sound, State, TypeOK, Request
<1>3. CASE RequestThrows(r)
  BY <1>3, ProcessEndsGood DEF RequestThrows
<1>4. CASE VendorRejects(r) \/ Set(r) \/ GetKnown(r)
  <2>1. pc' \in {"serving", "reply"} /\ UNCHANGED <<vidToRid, ridToVid>> /\ pc = "serving"
    BY <1>4 DEF VendorRejects, Set, GetKnown, redis
  <2> QED BY <2>1, ServingConsistent DEF RedisInv, Consistent, MapsBackIfMapped
<1>5. CASE Create(r)
  BY <1>5, CreateGood
<1>6. CASE Remove(r)
  <2>1. /\ Consistent /\ UNCHANGED <<vidToRid, ridToVid>>
        /\ rid' = LookupRid(r.vid) /\ vid' = r.vid /\ pc' = "erase1"
    BY <1>6, ServingConsistent DEF Remove, redis
  <2>2. LookupRid(r.vid) \in Rid /\ LookupRid(r.vid) = vidToRid[r.vid]
    BY <1>2, <1>6, NeededVidsRid, CachedRidsCoherent DEF Remove, State
  <2>3. r.vid \in ObjVid => ridToVid[rid'] = vid'
    BY <2>1, <2>2, OidsDistinct DEF Consistent, MapsBackIfMapped
  <2>4. Pair(vid', rid')
    BY <1>2, <2>1, <2>2, LookupSorted, OidsDistinct DEF Pair
  <2> QED BY <2>1, <2>3, <2>4 DEF RedisInv, Consistent, MapsBackIfMapped
<1>7. CASE GetSpotsRid(r)
  <2>1. Consistent /\ UNCHANGED <<vidToRid, ridToVid>> /\ pc' = "insert1"
    BY <1>7, ServingConsistent DEF GetSpotsRid
  <2>2. rid' \in ObjRid /\ ridToVid[rid'] = NullOid
    BY <1>2, <1>7, GetSpotsRidType DEF State
  <2>3. NobodyHas(rid')
    BY <2>1, <2>2, OidsDistinct DEF Consistent, MapsBackIfMapped, NobodyHas
  <2> QED BY <2>1, <2>3 DEF RedisInv, Consistent, MapsBackIfMapped, NobodyHas
<1> QED BY <1>1, <1>3, <1>4, <1>5, <1>6, <1>7

(* The two halves of eraseRidAndVid. *)
LEMMA EraseGood ==
  ASSUME Good, EraseVid \/ EraseRid
  PROVE  RedisInv'
<1> USE DEF Good, Sound, State, TypeOK
<1>1. pc \in {"erase1", "erase2"} /\ Pair(vid, rid) /\ vid \in Vid /\ rid \in Rid
  BY DEF EraseVid, EraseRid, RedisInv, JobOK, InMapChange
<1>2. CASE EraseVid
  <2>1. vidToRid' = [vidToRid EXCEPT ![vid] = NullOid] /\ pc = "erase1" /\ pc' = "erase2"
        /\ UNCHANGED <<ridToVid, vid, rid>>
    BY <1>2 DEF EraseVid, job
  <2>2. \A v \in ObjVid : MapsBackIfMapped(v)
    BY <2>1 DEF RedisInv
  <2>3. NobodyHas(rid)'
    <3>1. SUFFICES ASSUME NEW w \in ObjVid, vidToRid'[w] = rid PROVE FALSE
      BY <2>1 DEF NobodyHas
    <3>2. w # vid /\ vidToRid[w] = rid
      BY <1>1, <2>1, <3>1, OidsDistinct
    <3>3. ridToVid[rid] = w
      BY <1>1, <2>2, <3>2, OidsDistinct DEF MapsBackIfMapped
    <3>4. vid \notin ObjVid
      BY <2>1, <3>2, <3>3 DEF RedisInv
    <3>5. rid = LinecardRid
      BY <1>1, <3>4 DEF Pair
    <3> QED BY <3>2, <3>5 DEF Sorted
  <2>4. \A v \in ObjVid : MapsBackIfMapped(v)'
    BY <1>1, <2>1, <2>2, OidsDistinct DEF MapsBackIfMapped
  <2> QED BY <1>1, <2>1, <2>3, <2>4 DEF RedisInv
<1>3. CASE EraseRid
  <2>1. /\ ridToVid' = [ridToVid EXCEPT ![rid] = NullOid] /\ pc = "erase2"
        /\ pc' \in {"evict", "reply"} /\ UNCHANGED <<vidToRid, vid, rid>>
    BY <1>3 DEF EraseRid, job
  <2>2. NobodyHas(rid) /\ \A v \in ObjVid : MapsBackIfMapped(v)
    BY <2>1 DEF RedisInv
  <2>3. \A v \in ObjVid : MapsBackIfMapped(v)'
    BY <1>1, <2>1, <2>2 DEF MapsBackIfMapped, NobodyHas
  <2> QED BY <2>1, <2>2, <2>3 DEF RedisInv, NobodyHas
<1> QED BY <1>2, <1>3

LEMMA InsertGood ==
  ASSUME Good, InsertVid \/ InsertRid
  PROVE  RedisInv'
<1> USE DEF Good, Sound, State, TypeOK
<1>1. pc \in {"insert1", "insert2"} /\ vid \in Vid /\ rid \in Rid /\ UNCHANGED <<vid, rid>>
  BY DEF InsertVid, InsertRid, JobOK, InMapChange, job
<1>2. CASE InsertVid
  <2>1. vidToRid' = [vidToRid EXCEPT ![vid] = rid] /\ pc = "insert1" /\ pc' = "insert2"
        /\ UNCHANGED ridToVid
    BY <1>2 DEF InsertVid
  <2>2. \A v \in ObjVid : MapsBackIfMapped(v) /\ vidToRid[v] # rid
    BY <2>1 DEF RedisInv, NobodyHas
  <2>3. \A v \in ObjVid : v # vid => MapsBackIfMapped(v)'
    BY <1>1, <2>1, <2>2 DEF MapsBackIfMapped
  <2>4. \A v \in ObjVid : vidToRid'[v] = rid' => v = vid'
    BY <1>1, <2>1, <2>2
  <2> QED BY <1>1, <2>1, <2>3, <2>4 DEF RedisInv
<1>3. CASE InsertRid
  <2>1. /\ ridToVid' = [ridToVid EXCEPT ![rid] = vid] /\ pc = "insert2" /\ pc' = "reply"
        /\ UNCHANGED vidToRid
    BY <1>3 DEF InsertRid
  <2>2. /\ \A v \in ObjVid : v # vid => MapsBackIfMapped(v)
        /\ \A v \in ObjVid : vidToRid[v] = rid => v = vid
        /\ vidToRid[vid] = rid
    BY <2>1, OidsDistinct DEF RedisInv, CacheInv
  <2>3. \A v \in ObjVid : MapsBackIfMapped(v)'
    BY <1>1, <2>1, <2>2 DEF MapsBackIfMapped
  <2> QED BY <2>1, <2>3 DEF RedisInv
<1> QED BY <1>2, <1>3

(* What follows the map changes of a request leaves the maps alone. *)
LEMMA AnswerGood ==
  ASSUME Good, Evict \/ Reply \/ DeleteAsicObject \/ \E f \in {"id", "cfg", "ref"} : SaveField(f)
  PROVE  RedisInv'
<1>1. /\ UNCHANGED <<vidToRid, ridToVid>> /\ pc \in {"evict", "reply", "delete", "save"}
      /\ pc' \in {"insert1", "delete", "save", "serving"}
      /\ pc' = "insert1" => pc = "evict" /\ UNCHANGED rid
  BY DEF Evict, Reply, DeleteAsicObject, SaveField, EndRequest, redis
<1> QED BY <1>1 DEF Good, RedisInv, MapsBackIfMapped, NobodyHas

LEMMA RemoveLinecardGood ==
  ASSUME Good, RemoveLinecardThrows
  PROVE  RedisInv'
<1> USE DEF Good, Sound, State, TypeOK
<1>1. /\ ridToVid' = [ridToVid EXCEPT ![rid] = NullOid] /\ pc = "erase2" /\ pc' = "down"
      /\ vid = LinecardVid /\ UNCHANGED <<vidToRid, asicState>>
  BY DEF RemoveLinecardThrows, ProcessEnds
<1>2. NobodyHas(rid) /\ \A v \in ObjVid : MapsBackIfMapped(v) /\ MappedIfSaved(v)
  BY <1>1, OidsDistinct DEF RedisInv, MappedInv, Dying
<1>3. Consistent'
  BY <1>1, <1>2, OidsDistinct DEF Consistent, MapsBackIfMapped, MappedIfSaved, NobodyHas
<1> QED BY <1>1, <1>3 DEF RedisInv

(* Hard reinit gets through only a database that is not torn: every entry  *)
(* was created again, which needs its RID, and checkAllIds then finds no   *)
(* RID without an entry.                                                   *)
LEMMA FinishReinitGood ==
  ASSUME Good, FinishReinit
  PROVE  RedisInv'
<1>1. UNCHANGED <<vidToRid, ridToVid, asicState>> /\ pc = "reinit" /\ pc' = "serving"
  BY DEF FinishReinit, redis
<1>2. ~Torn
  BY <1>1, OidsDistinct
     DEF FinishReinit, AllIdsTranslated, Pending, Torn, Good, Sound, MappedInv
<1>3. Consistent
  BY <1>1, <1>2 DEF Good, RedisInv
<1> QED BY <1>1, <1>3 DEF RedisInv, Consistent, MapsBackIfMapped

LEMMA ReinitGood ==
  ASSUME Good, Reinit
  PROVE  RedisInv'
<1>1. CASE StartReinit \/ ReinitLinecard \/ \E v \in ObjVid : ReinitObject(v)
  <2>1. UNCHANGED <<vidToRid, ridToVid, asicState>> /\ pc \in {"down", "reinit"} /\ pc' = "reinit"
    BY <1>1 DEF StartReinit, ReinitLinecard, ReinitObject, redis
  <2> QED BY <2>1 DEF Good, RedisInv, Torn, Consistent, MapsBackIfMapped, MappedIfSaved
<1>2. CASE ReinitThrows \/ CheckAllIdsThrows
  BY <1>2, ProcessEndsGood DEF ReinitThrows, CheckAllIdsThrows, redis
<1>3. CASE FinishReinit
  BY <1>3, FinishReinitGood
<1> QED BY <1>1, <1>2, <1>3 DEF Reinit

LEMMA InitGood == Init => Good
BY InitSound, OidsDistinct
   DEF Init, Good, RedisInv, Consistent, MapsBackIfMapped, MappedIfSaved, NoMap

LEMMA NextGood ==
  ASSUME StackGarbage \cap Rid = {}
  PROVE  Good /\ [Next]_vars => Good'
<1> SUFFICES ASSUME Good, [Next]_vars PROVE Good'
  OBVIOUS
<1>1. Sound'
  BY NextSound DEF Good
<1>2. RedisInv'
  <2>1. CASE HandleRequest
    BY <2>1, RequestGood
  <2>2. CASE ContinueRequest
    BY <2>2, EraseGood, InsertGood, AnswerGood, RemoveLinecardGood DEF ContinueRequest
  <2>3. CASE Reinit
    BY <2>3, ReinitGood
  <2>4. CASE RestartQuery \/ Crash
    BY <2>4, ProcessEndsGood DEF RestartQuery, Crash, redis
  <2>5. CASE UNCHANGED vars
    BY <2>5 DEF Good, RedisInv, Torn, Consistent, MapsBackIfMapped, MappedIfSaved, NobodyHas,
                vars, redis, caches, job
  <2> QED BY <2>1, <2>2, <2>3, <2>4, <2>5 DEF Next
<1> QED BY <1>1, <1>2 DEF Good

(* Wherever crashes, kills, vendor failures and exceptions ended a syncd,  *)
(* the next one that gets to its main loop serves, besides the linecard,   *)
(* no object whose RID maps elsewhere and no entry without a RID, and no   *)
(* object without a linecard; provided the uninitialised objectVidOld      *)
(* never happens to hold a RID.  A half-written entry and a linecard whose *)
(* remove was requested are served: the theorem says nothing of them.      *)
THEOREM TornMapsAreNeverServed ==
  ASSUME StackGarbage \cap Rid = {}
  PROVE  Spec => []TornMapsNeverServed
<1>1. Init => Good /\ LinecardInv
  BY InitGood, InitLinecard
<1>2. Good /\ LinecardInv /\ [Next]_vars => Good' /\ LinecardInv'
  BY NextGood, NextLinecard DEF Good
<1>3. Good /\ LinecardInv => TornMapsNeverServed
  <2> SUFFICES ASSUME Good, LinecardInv, pc = "serving"
               PROVE  \A v \in ObjVid : /\ MapsBackIfMapped(v) /\ MappedIfSaved(v)
                                        /\ vidToRid[v] # NullOid => linecard # NullOid
    BY DEF TornMapsNeverServed
  <2>1. Consistent
    BY ServingConsistent
  <2>2. \A v \in Vid : vidToRid[v] # NullOid => linecard # NullOid
    BY DEF LinecardInv
  <2> QED BY <2>1, <2>2, OidsDistinct DEF Consistent
<1> QED BY <1>1, <1>2, <1>3, PTL DEF Spec

-----------------------------------------------------------------------------
(* Without crashes inside a request the maps are inverse between requests. *)

Forth(v) == vidToRid[v] # NullOid => ridToVid[vidToRid[v]] = v
Back(r) == ridToVid[r] # NullOid => vidToRid[ridToVid[r]] = r

(* Where the maps differ: in the binding that is being erased or inserted. *)
InverseInv ==
  /\ \A v \in Vid : ~(pc = "insert2" /\ v = vid) => Forth(v)
  /\ \A r \in Rid : ~(pc = "erase2" /\ r = rid) => Back(r)
  /\ pc = "erase1" => ridToVid[rid] = vid /\ vidToRid[vid] = rid
  /\ pc = "erase2" => ridToVid[rid] = vid
  /\ pc \in {"erase2", "evict"} => vidToRid[vid] = NullOid
  /\ pc \in {"evict", "insert1", "insert2"} => ridToVid[rid] = NullOid
  /\ pc = "insert1" => vidToRid[vid] = NullOid

LEMMA SameMapsInverse ==
  ASSUME State, InverseInv, pc \notin {"erase1", "erase2", "evict", "insert1", "insert2"},
         pc' \notin {"erase1", "erase2", "evict", "insert1", "insert2"},
         UNCHANGED <<vidToRid, ridToVid>>
  PROVE  InverseInv'
BY DEF InverseInv, Forth, Back

LEMMA RequestInverse ==
  ASSUME StackGarbage \cap Rid = {}, Good, InverseInv, HandleRequest
  PROVE  InverseInv'
<1>1. PICK r \in Requests :
        \/ RequestThrows(r) \/ VendorRejects(r)
        \/ Create(r) \/ Remove(r) \/ Set(r) \/ GetKnown(r) \/ GetSpotsRid(r)
  BY DEF HandleRequest
<1>2. r.vid \in Vid /\ State /\ CacheInv /\ pc = "serving" /\ UNCHANGED <<vidToRid, ridToVid>>
  <2>1. r.vid \in Vid /\ State /\ CacheInv
    BY RequestsWellFormed DEF Good, Sound, State, TypeOK, Request
  <2> QED
    BY <1>1, <2>1 DEF RequestThrows, VendorRejects, Create, Remove, Set, GetKnown, GetSpotsRid,
       redis
<1>3. \A v \in Vid : Forth(v)
  BY <1>2 DEF InverseInv
<1>4. \A q \in Rid : Back(q)
  BY <1>2 DEF InverseInv
<1>5. CASE RequestThrows(r) \/ VendorRejects(r) \/ Set(r) \/ GetKnown(r)
  <2>1. pc' \notin {"erase1", "erase2", "evict", "insert1", "insert2"}
    BY <1>2, <1>5 DEF RequestThrows, ProcessEnds, VendorRejects, Set, GetKnown
  <2> QED BY <1>2, <2>1, SameMapsInverse
<1>6. CASE Create(r)
  <2>1. Pair(r.vid, rid') /\ rid' \in Rid /\ vid' \in Vid
    BY <1>2, <1>6, CreateSorted DEF Good, Sound
  <2>2. \/ pc' = "insert1" /\ vid' = r.vid /\ ridToVid[rid'] = NullOid
        \/ pc' = "erase1" /\ ridToVid[rid'] = vid' /\ vid' # NullOid
    BY <1>6 DEF Create, TryRidToVid
  <2>3. CASE pc' = "insert1"
    <3>1. vidToRid[r.vid] = NullOid
      <4>1. CASE r.vid \in ObjVid
        <5>1. FreshInv'
          BY RequestSound DEF Good
        <5> QED BY <1>2, <2>2, <2>3, <4>1, <5>1 DEF FreshInv, Unused
      <4>2. CASE r.vid = LinecardVid
        <5>1. rid' = LinecardRid
          BY <2>1, <4>2, OidsDistinct DEF Pair
        <5>2. ridToVid[LinecardRid] = NullOid
          BY <2>2, <2>3, <5>1
        <5>3. Forth(LinecardVid) /\ vidToRid[LinecardVid] \in {LinecardRid, NullOid}
          BY <1>2, <1>3, OidsDistinct DEF State, Sorted
        <5> QED BY <4>2, <5>2, <5>3, OidsDistinct DEF Forth
      <4> QED BY <1>2, <4>1, <4>2, OidsDistinct
    <3> QED BY <1>2, <1>3, <1>4, <2>2, <2>3, <3>1 DEF InverseInv, Forth, Back
  <2>4. CASE pc' = "erase1"
    <3>1. Back(rid')
      BY <1>4, <2>1
    <3>2. ridToVid[rid'] = vid' /\ vidToRid[vid'] = rid'
      BY <2>2, <2>4, <3>1, OidsDistinct DEF Back
    <3> QED BY <1>2, <1>3, <1>4, <2>4, <3>2 DEF InverseInv, Forth, Back
  <2> QED BY <2>2, <2>3, <2>4
<1>7. CASE Remove(r)
  <2>1. rid' = LookupRid(r.vid) /\ vid' = r.vid /\ pc' = "erase1" /\ r.op # "create"
        /\ Translatable(r)
    BY <1>7 DEF Remove
  <2>2. LookupRid(r.vid) \in Rid /\ LookupRid(r.vid) = vidToRid[r.vid]
    BY <1>2, <2>1, NeededVidsRid, CachedRidsCoherent DEF State
  <2>3. Forth(r.vid)
    BY <1>2, <1>3
  <2>4. vidToRid[vid'] = rid' /\ ridToVid[rid'] = vid'
    BY <2>1, <2>2, <2>3, OidsDistinct DEF Forth
  <2> QED BY <1>2, <1>3, <1>4, <2>1, <2>4 DEF InverseInv, Forth, Back
<1>8. CASE GetSpotsRid(r)
  <2>1. rid' \in ObjRid /\ vid' \in ObjVid /\ ridToVid[rid'] = NullOid /\ pc' = "insert1"
    BY <1>2, <1>8, GetSpotsRidType DEF State, GetSpotsRid
  <2>2. vidToRid[vid'] = NullOid
    <3>1. FreshInv'
      BY RequestSound DEF Good
    <3> QED BY <1>2, <2>1, <3>1 DEF FreshInv, Unused
  <2> QED BY <1>2, <1>3, <1>4, <2>1, <2>2 DEF InverseInv, Forth, Back
<1> QED BY <1>1, <1>5, <1>6, <1>7, <1>8

LEMMA ContinueRequestInverse ==
  ASSUME Good, InverseInv, ContinueRequest
  PROVE  InverseInv'
<1> USE DEF Good, Sound, State, TypeOK
<1>0. InMapChange => vid \in Vid /\ rid \in Rid
  BY DEF JobOK
<1>a. \A v \in Vid : vidToRid[v] \in Rid \cup {NullOid}
  OBVIOUS
<1>b. \A r \in Rid : ridToVid[r] \in Vid \cup {NullOid}
  OBVIOUS
<1>1. CASE EraseVid
  <2>1. vidToRid' = [vidToRid EXCEPT ![vid] = NullOid] /\ pc = "erase1" /\ pc' = "erase2"
        /\ UNCHANGED <<ridToVid, vid, rid>> /\ vid \in Vid /\ rid \in Rid
    BY <1>0, <1>1 DEF EraseVid, InMapChange, job
  <2>2. vidToRid'[vid] = NullOid /\ \A v \in Vid : v # vid => vidToRid'[v] = vidToRid[v]
    BY <2>1
  <2>3. \A v \in Vid : Forth(v)'
    BY <2>1, <2>2 DEF InverseInv, Forth
  <2>4. ASSUME NEW r \in Rid, r # rid PROVE Back(r)'
    <3>1. ridToVid[r] # vid
      BY <2>1, <2>4, OidsDistinct DEF InverseInv, Back
    <3> QED BY <1>b, <2>1, <2>2, <2>4, <3>1 DEF InverseInv, Back
  <2> QED BY <2>1, <2>2, <2>3, <2>4 DEF InverseInv
<1>2. CASE EraseRid \/ RemoveLinecardThrows
  <2>1. ridToVid' = [ridToVid EXCEPT ![rid] = NullOid] /\ pc = "erase2"
        /\ UNCHANGED vidToRid /\ vid \in Vid /\ rid \in Rid
        /\ pc' \in {"evict", "reply", "down"} /\ (pc' = "evict" => UNCHANGED <<rid, vid>>)
    BY <1>0, <1>2 DEF EraseRid, RemoveLinecardThrows, ProcessEnds, InMapChange, job
  <2>2. ridToVid'[rid] = NullOid /\ \A r \in Rid : r # rid => ridToVid'[r] = ridToVid[r]
    BY <2>1
  <2>3. \A r \in Rid : Back(r)'
    BY <2>1, <2>2 DEF InverseInv, Back
  <2>4. ASSUME NEW v \in Vid PROVE Forth(v)'
    <3>1. vidToRid[v] # rid
      BY <2>1, OidsDistinct DEF InverseInv, Forth
    <3> QED BY <1>a, <2>1, <2>2, <3>1 DEF InverseInv, Forth
  <2> QED BY <2>1, <2>2, <2>3, <2>4 DEF InverseInv
<1>3. CASE Evict
  <2>1. pc = "evict" /\ pc' = "insert1" /\ vid' = req.vid /\ req.op = "create"
        /\ UNCHANGED <<vidToRid, ridToVid, rid>> /\ req.vid \in Vid /\ Pair(req.vid, rid)
    BY <1>3 DEF Evict, JobOK, Request
  <2>2. vidToRid[req.vid] = NullOid
    <3>1. CASE req.vid \in ObjVid
      BY <2>1, <3>1 DEF FreshInv, Unused
    <3>2. CASE req.vid = LinecardVid
      <4>1. rid = LinecardRid /\ ridToVid[rid] = NullOid
        BY <2>1, <3>2, OidsDistinct DEF Pair, InverseInv
      <4>2. Forth(LinecardVid) /\ vidToRid[LinecardVid] \in {LinecardRid, NullOid}
        BY <2>1, OidsDistinct DEF InverseInv, Sorted
      <4> QED BY <3>2, <4>1, <4>2, OidsDistinct DEF Forth
    <3> QED BY <2>1, <3>1, <3>2, OidsDistinct
  <2> QED BY <2>1, <2>2 DEF InverseInv, Forth, Back
<1>4. CASE InsertVid
  <2>1. vidToRid' = [vidToRid EXCEPT ![vid] = rid] /\ pc = "insert1" /\ pc' = "insert2"
        /\ UNCHANGED <<ridToVid, vid, rid>> /\ vid \in Vid /\ rid \in Rid
    BY <1>0, <1>4 DEF InsertVid, InMapChange, job
  <2>2. vidToRid'[vid] = rid /\ \A v \in Vid : v # vid => vidToRid'[v] = vidToRid[v]
    BY <2>1
  <2>3. \A v \in Vid : v # vid => Forth(v)'
    BY <2>1, <2>2 DEF InverseInv, Forth
  <2>4. ASSUME NEW r \in Rid PROVE Back(r)'
    <3>1. ridToVid[r] # vid
      BY <2>1, OidsDistinct DEF InverseInv, Back
    <3> QED BY <1>b, <2>1, <2>2, <3>1 DEF InverseInv, Back
  <2> QED BY <2>1, <2>2, <2>3, <2>4 DEF InverseInv
<1>5. CASE InsertRid
  <2>1. ridToVid' = [ridToVid EXCEPT ![rid] = vid] /\ pc = "insert2" /\ pc' = "reply"
        /\ UNCHANGED vidToRid /\ vid \in Vid /\ rid \in Rid /\ vidToRid[vid] = rid
    BY <1>0, <1>5 DEF InsertRid, InMapChange, CacheInv
  <2>2. ridToVid'[rid] = vid /\ \A r \in Rid : r # rid => ridToVid'[r] = ridToVid[r]
    BY <2>1
  <2>3. \A r \in Rid : Back(r)'
    BY <2>1, <2>2 DEF InverseInv, Back
  <2>4. ASSUME NEW v \in Vid PROVE Forth(v)'
    <3>1. CASE v = vid
      BY <2>1, <2>2, <3>1 DEF Forth
    <3>2. CASE v # vid
      <4>1. vidToRid[v] # rid
        BY <2>1, <3>2, OidsDistinct DEF InverseInv, Forth
      <4> QED BY <1>a, <2>1, <2>2, <3>2, <4>1 DEF InverseInv, Forth
    <3> QED BY <3>1, <3>2
  <2> QED BY <2>1, <2>3, <2>4 DEF InverseInv
<1>6. CASE Reply \/ DeleteAsicObject \/ \E f \in {"id", "cfg", "ref"} : SaveField(f)
  <2>1. /\ pc \in {"reply", "save", "delete"} /\ pc' \in {"reply", "save", "delete", "serving"}
        /\ UNCHANGED <<vidToRid, ridToVid>>
    BY <1>6 DEF Reply, DeleteAsicObject, SaveField, EndRequest, redis, job
  <2> QED BY <2>1, SameMapsInverse
<1> QED BY <1>1, <1>2, <1>3, <1>4, <1>5, <1>6 DEF ContinueRequest

LEMMA NextInverse ==
  ASSUME StackGarbage \cap Rid = {}, "crashAnywhere" \notin Env
  PROVE  Good /\ InverseInv /\ [Next]_vars => InverseInv'
<1> SUFFICES ASSUME Good, InverseInv, [Next]_vars PROVE InverseInv'
  OBVIOUS
<1>1. CASE HandleRequest
  BY <1>1, RequestInverse
<1>2. CASE ContinueRequest
  BY <1>2, ContinueRequestInverse
<1>3. CASE Reinit \/ RestartQuery
  <2>1. /\ pc \in {"down", "reinit", "serving"} /\ pc' \in {"down", "reinit", "serving"}
        /\ UNCHANGED <<vidToRid, ridToVid>>
    BY <1>3 DEF Reinit, RestartQuery, StartReinit, ReinitLinecard, ReinitObject, ReinitThrows,
       FinishReinit, CheckAllIdsThrows, ProcessEnds, redis
  <2> QED BY <2>1, SameMapsInverse DEF Good, Sound
<1>4. CASE Crash
  BY <1>4 DEF Crash
<1>5. CASE UNCHANGED vars
  BY <1>5 DEF InverseInv, Forth, Back, vars, redis, job
<1> QED BY <1>1, <1>2, <1>3, <1>4, <1>5 DEF Next

(* As long as syncd is not killed inside a request, RIDTOVID and VIDTORID  *)
(* are inverse to each other whenever a request may come, for every object *)
(* and the linecard, whatever the vendor gives, refuses or reuses.         *)
THEOREM InverseMapsAlways ==
  ASSUME StackGarbage \cap Rid = {}, "crashAnywhere" \notin Env
  PROVE  Spec => []InverseMaps
<1>1. Init => Good /\ InverseInv
  <2>1. Init => InverseInv
    BY DEF Init, InverseInv, Forth, Back, NoMap, NoInverse
  <2> QED BY <2>1, InitGood
<1>2. Good /\ InverseInv /\ [Next]_vars => Good' /\ InverseInv'
  BY NextGood, NextInverse
<1>3. Good /\ InverseInv => InverseMaps
  BY OidsDistinct DEF InverseInv, Forth, Back, InverseMaps, Good, Sound
<1> QED BY <1>1, <1>2, <1>3, PTL DEF Spec

-----------------------------------------------------------------------------
(* Without crashes inside a request and removes of the linecard: the entry *)
(* of the object a request is about, and of the linecard.                  *)

LinecardSaved ==
  asicState[LinecardVid] # NoEntry =>
    vidToRid[LinecardVid] # NullOid \/ (pc \in {"erase2", "evict"} /\ vid = LinecardVid)

SavedInv ==
  /\ pc \in {"insert1", "insert2", "reply"} /\ req.op = "create" => asicState[req.vid] = NoEntry
  /\ pc \in {"reply", "save"} /\ req.op = "set" =>
       req.attrs.id = Unset /\ req.attrs.ref = NullOid
  /\ pc \in {"erase1", "erase2"} /\ req.op = "remove" => vid # LinecardVid
  /\ pc = "insert1" /\ req.op = "get" => vid # LinecardVid
  /\ LinecardSaved

LEMMA RequestSaved ==
  ASSUME StackGarbage \cap Rid = {}, "removeLinecard" \notin Env,
         Good, InverseInv, SavedInv, HandleRequest
  PROVE  SavedInv'
<1>1. PICK r \in Requests :
        \/ RequestThrows(r) \/ VendorRejects(r)
        \/ Create(r) \/ Remove(r) \/ Set(r) \/ GetKnown(r) \/ GetSpotsRid(r)
  BY DEF HandleRequest
<1>2. /\ pc = "serving" /\ UNCHANGED <<vidToRid, ridToVid, asicState>>
      /\ r.vid \in Vid /\ r \in Request
  <2>1. r \in Request /\ r.vid \in Vid
    BY RequestsWellFormed DEF Good, Sound, State, TypeOK, Request
  <2> QED
    BY <1>1, <2>1 DEF RequestThrows, ProcessEnds, VendorRejects, Create, Remove, Set, GetKnown,
       GetSpotsRid, redis
<1>3. LinecardSaved'
  BY <1>2 DEF SavedInv, LinecardSaved
<1>4. FreshInv' /\ InverseInv'
  BY RequestSound, RequestInverse DEF Good
<1>5. CASE RequestThrows(r) \/ VendorRejects(r) \/ GetKnown(r)
  <2>1. pc' \in {"down", "serving"}
    BY <1>2, <1>5 DEF RequestThrows, ProcessEnds, VendorRejects, GetKnown
  <2> QED BY <1>3, <2>1 DEF SavedInv
<1>6. CASE Create(r)
  <2>1. req' = r /\ r.op = "create" /\ pc' \in {"insert1", "erase1"}
        /\ (pc' = "insert1" => vid' = r.vid)
    BY <1>6 DEF Create
  <2>2. pc' = "insert1" => asicState'[r.vid] = NoEntry
    <3> SUFFICES ASSUME pc' = "insert1" PROVE asicState'[r.vid] = NoEntry
      OBVIOUS
    <3>1. CASE r.vid \in ObjVid
      BY <1>4, <2>1, <3>1 DEF FreshInv, Unused
    <3>2. CASE r.vid = LinecardVid
      <4>1. vidToRid[LinecardVid] = NullOid
        BY <1>2, <1>4, <2>1, <3>2 DEF InverseInv
      <4> QED BY <1>2, <3>2, <4>1 DEF SavedInv, LinecardSaved
    <3> QED BY <1>2, <3>1, <3>2, OidsDistinct
  <2> QED BY <1>3, <2>1, <2>2 DEF SavedInv
<1>7. CASE Remove(r)
  <2>1. pc' = "erase1" /\ vid' = r.vid /\ req' = r /\ r.op = "remove"
    BY <1>7 DEF Remove
  <2>2. r.vid # LinecardVid
    BY <2>1 DEF Requests, CreateRequests, OtherRequests, Removable
  <2> QED BY <1>3, <2>1, <2>2 DEF SavedInv
<1>8. CASE Set(r)
  <2>1. pc' = "reply" /\ req' = r /\ r.op = "set"
    BY <1>8 DEF Set
  <2>2. r.attrs.id = Unset /\ r.attrs.ref = NullOid
    BY <2>1 DEF Requests, CreateRequests, OtherRequests
  <2> QED BY <1>3, <2>1, <2>2 DEF SavedInv
<1>9. CASE GetSpotsRid(r)
  <2>1. pc' = "insert1" /\ req' = r /\ r.op = "get"
    BY <1>9 DEF GetSpotsRid
  <2>2. vid' # LinecardVid
    BY <1>9, GetSpotsRidType, OidsDistinct DEF Good, Sound, State
  <2> QED BY <1>3, <2>1, <2>2 DEF SavedInv
<1> QED BY <1>1, <1>5, <1>6, <1>7, <1>8, <1>9

LEMMA ContinueRequestSaved ==
  ASSUME Good, InverseInv, SavedInv, ContinueRequest
  PROVE  SavedInv'
<1> USE DEF Good, Sound, State, TypeOK
<1>1. CASE EraseVid
  <2>1. /\ pc = "erase1" /\ pc' = "erase2" /\ UNCHANGED <<asicState, vid, req>>
        /\ vidToRid' = [vidToRid EXCEPT ![vid] = NullOid]
    BY <1>1 DEF EraseVid, job
  <2>2. LinecardSaved'
    BY <2>1 DEF SavedInv, LinecardSaved
  <2> QED BY <2>1, <2>2 DEF SavedInv
<1>2. CASE EraseRid
  <2>1. /\ pc = "erase2" /\ UNCHANGED <<asicState, vid, req, vidToRid>>
        /\ pc' = IF req.op = "create" THEN "evict" ELSE "reply"
        /\ req.op \in {"create", "remove"}
    BY <1>2 DEF EraseRid, job, JobOK
  <2> QED BY <2>1 DEF SavedInv, LinecardSaved
<1>3. CASE RemoveLinecardThrows
  BY <1>3 DEF RemoveLinecardThrows, SavedInv
<1>4. CASE Evict
  <2>1. /\ pc = "evict" /\ pc' = "insert1" /\ UNCHANGED <<req, vidToRid>> /\ vid' = req.vid
        /\ asicState' = [asicState EXCEPT ![vid] = NoEntry]
        /\ req.op = "create" /\ vid \in Vid /\ req.vid \in Vid
    BY <1>4 DEF Evict, JobOK, InMapChange, Request
  <2>2. LinecardSaved'
    BY <2>1 DEF SavedInv, LinecardSaved
  <2>3. asicState'[req.vid] = NoEntry
    <3>1. CASE req.vid \in ObjVid
      BY <2>1, <3>1 DEF FreshInv, Unused
    <3>2. CASE req.vid = LinecardVid
      <4>1. InverseInv'
        BY ContinueRequestInverse
      <4>2. vidToRid'[LinecardVid] = NullOid
        BY <2>1, <3>2, <4>1 DEF InverseInv
      <4> QED BY <2>1, <2>2, <3>2, <4>2 DEF LinecardSaved
    <3> QED BY <2>1, <3>1, <3>2, OidsDistinct
  <2> QED BY <2>1, <2>2, <2>3 DEF SavedInv
<1>5. CASE InsertVid
  <2>1. /\ pc = "insert1" /\ pc' = "insert2" /\ UNCHANGED <<asicState, vid, req>>
        /\ vidToRid' = [vidToRid EXCEPT ![vid] = rid] /\ vid \in Vid /\ rid \in Rid
    BY <1>5 DEF InsertVid, job, JobOK, InMapChange
  <2>2. LinecardSaved'
    BY <2>1, OidsDistinct DEF SavedInv, LinecardSaved
  <2> QED BY <2>1, <2>2 DEF SavedInv
<1>6. CASE InsertRid
  <2>1. /\ pc = "insert2" /\ pc' = "reply" /\ UNCHANGED <<asicState, vid, req, vidToRid>>
        /\ req.op \in {"create", "get"}
    BY <1>6 DEF InsertRid, job, JobOK
  <2> QED BY <2>1 DEF SavedInv, LinecardSaved
<1>7. CASE Reply
  <2>1. /\ pc = "reply" /\ UNCHANGED <<asicState, vidToRid>>
        /\ pc' \in {"save", "delete", "serving"} /\ (pc' = "save" => UNCHANGED req)
    BY <1>7 DEF Reply, EndRequest, redis
  <2> QED BY <2>1 DEF SavedInv, LinecardSaved
<1>8. ASSUME NEW f \in {"id", "cfg", "ref"}, SaveField(f) PROVE SavedInv'
  <2>1. /\ pc = "save" /\ UNCHANGED vidToRid /\ req.op \in {"create", "set"}
        /\ pc' \in {"save", "serving"} /\ (pc' = "save" => UNCHANGED req)
        /\ \A v \in Vid : v # req.vid => asicState'[v] = asicState[v]
    BY <1>8 DEF SaveField, EndRequest, JobOK
  <2>2. vidToRid[req.vid] # NullOid
    BY <2>1 DEF MappedInv
  <2>3. LinecardSaved'
    BY <2>1, <2>2, OidsDistinct DEF SavedInv, LinecardSaved
  <2> QED BY <2>1, <2>3 DEF SavedInv
<1>9. CASE DeleteAsicObject
  <2>1. /\ pc = "delete" /\ pc' = "serving" /\ UNCHANGED vidToRid /\ req.vid \in Vid
        /\ asicState' = [asicState EXCEPT ![req.vid] = NoEntry]
    BY <1>9 DEF DeleteAsicObject, EndRequest, Request
  <2> QED BY <2>1 DEF SavedInv, LinecardSaved
<1> QED BY <1>1, <1>2, <1>3, <1>4, <1>5, <1>6, <1>7, <1>8, <1>9 DEF ContinueRequest

(* A restart leaves redis and what the client was told. *)
LEMMA RestartKeeps ==
  ASSUME Reinit \/ RestartQuery
  PROVE  /\ pc \in {"down", "reinit", "serving"} /\ pc' \in {"down", "reinit", "serving"}
         /\ UNCHANGED <<vidCounter, vidToRid, asicState, told, superseded>>
         /\ req' \in {req, NoRequest}
BY DEF Reinit, RestartQuery, StartReinit, ReinitLinecard, ReinitObject, ReinitThrows,
       FinishReinit, CheckAllIdsThrows, ProcessEnds, redis, answers, job

LEMMA NextSaved ==
  ASSUME StackGarbage \cap Rid = {}, "crashAnywhere" \notin Env, "removeLinecard" \notin Env
  PROVE  Good /\ InverseInv /\ SavedInv /\ [Next]_vars => SavedInv'
<1> SUFFICES ASSUME Good, InverseInv, SavedInv, [Next]_vars PROVE SavedInv'
  OBVIOUS
<1>1. CASE HandleRequest
  BY <1>1, RequestSaved
<1>2. CASE ContinueRequest
  BY <1>2, ContinueRequestSaved
<1>3. CASE Reinit \/ RestartQuery
  BY <1>3, RestartKeeps DEF SavedInv, LinecardSaved
<1>4. CASE Crash
  BY <1>4 DEF Crash
<1>5. CASE UNCHANGED vars
  BY <1>5 DEF SavedInv, LinecardSaved, vars, redis, job
<1> QED BY <1>1, <1>2, <1>3, <1>4, <1>5 DEF Next

(* The maps, the RIDs and the entries that a restart does not disturb. *)
Kept == Good /\ InverseInv /\ OwnInv /\ SavedInv

LEMMA InitKept == Init => Kept
<1>1. Init => InverseInv /\ SavedInv
  BY OidsDistinct DEF Init, InverseInv, Forth, Back, NoMap, NoInverse, SavedInv, LinecardSaved
<1> QED BY <1>1, InitGood, InitOwn DEF Kept

LEMMA NextKept ==
  ASSUME StackGarbage \cap Rid = {}, "crashAnywhere" \notin Env, "removeLinecard" \notin Env
  PROVE  Kept /\ [Next]_vars => Kept'
BY NextGood, NextInverse, NextOwn, NextSaved DEF Kept, Good

-----------------------------------------------------------------------------
(* ASIC_STATE is what the client was told. *)

(* The object of which the answer is ahead of ASIC_STATE. *)
Half == IF pc \in {"save", "delete"} THEN req.vid ELSE NullOid

(* A create has evicted who had its RID and has not been answered yet.     *)
Replacing == pc \in {"insert1", "insert2", "reply"} /\ req.op = "create"

Traced == Keyed \cup {LinecardVid}

SavedAsTold == \A v \in Vid : v # Half => asicState[v] \in {told[v], NoEntry}

SupersededGone ==
  \A v \in superseded :
    v \in Keyed /\ told[v] = NoEntry /\ asicState[v] = NoEntry /\ vidToRid[v] = NullOid

(* What is kept of the objects with an ID: all but those a create under    *)
(* way replaces.                                                           *)
ToldKept ==
  \A v \in Traced :
    \/ told[v].id = Unset \/ v = Half \/ asicState[v] = told[v]
    \/ Replacing /\ (v = req.vid \/ (v[1] = req.vid[1] /\ told[v].id = req.attrs.id))

(* An object that vanished from ASIC_STATE cannot be set any more. *)
GoneUnmapped ==
  \A v \in Vid :
    \/ told[v] = NoEntry \/ asicState[v] # NoEntry \/ vidToRid[v] = NullOid
    \/ v = Half \/ (Replacing /\ v = req.vid)

Untold(v) == told[v] = NoEntry /\ v \notin superseded

ToldFresh ==
  /\ \A v \in ObjVid : v[2] > vidCounter => Untold(v)
  /\ pc \in {"erase1", "erase2", "evict"} /\ req.op = "create" /\ req.vid \in ObjVid =>
       Untold(req.vid)
  /\ pc = "insert1" /\ vid \in ObjVid => Untold(vid)

HalfTold ==
  /\ req.op = "create" => req.attrs.id # Unset
  /\ pc = "save" =>
       \A f \in {"id", "cfg", "ref"} :
         told[req.vid][f] = IF f \in left THEN req.attrs[f] ELSE asicState[req.vid][f]
  /\ pc = "delete" => told[req.vid] = NoEntry

RepliesInv ==
  SavedAsTold /\ SupersededGone /\ ToldKept /\ GoneUnmapped /\ ToldFresh /\ HalfTold

(* Entries with the same fields are the same. *)
LEMMA SameEntries == \A a, b \in Entry : a.id = b.id /\ a.cfg = b.cfg /\ a.ref = b.ref => a = b
BY DEF Entry

LEMMA RequestReplies ==
  ASSUME Kept, RepliesInv, HandleRequest
  PROVE  RepliesInv'
<1>1. PICK r \in Requests :
        \/ RequestThrows(r) \/ VendorRejects(r)
        \/ Create(r) \/ Remove(r) \/ Set(r) \/ GetKnown(r) \/ GetSpotsRid(r)
  BY DEF HandleRequest
<1>2. /\ pc = "serving" /\ UNCHANGED <<vidToRid, asicState, told, superseded>>
      /\ pc' \in {"down", "serving", "erase1", "insert1", "reply"}
      /\ pc' = "insert1" => Create(r) \/ GetSpotsRid(r)
      /\ req' \in {req, r, NoRequest}
      /\ pc' = "reply" => req' = r /\ r.op = "set"
  BY <1>1 DEF RequestThrows, ProcessEnds, VendorRejects, Create, Remove, Set, GetKnown,
     GetSpotsRid, redis, answers, job
<1>3. \A v \in Vid : v # NullOid
  BY OidsDistinct
<1>4. Half = NullOid /\ Half' = NullOid /\ ~Replacing
  BY <1>2 DEF Half, Replacing
<1>5. SavedAsTold' /\ SupersededGone'
  BY <1>2, <1>3, <1>4 DEF RepliesInv, SavedAsTold, SupersededGone
<1>6. ToldKept'
  <2>1. \A v \in Traced : told[v].id = Unset \/ asicState[v] = told[v]
    BY <1>3, <1>4, OidTypes, OidsDistinct DEF RepliesInv, ToldKept, Traced
  <2> QED BY <1>2, <2>1 DEF ToldKept
<1>7. GoneUnmapped'
  <2>1. \A v \in Vid : told[v] = NoEntry \/ asicState[v] # NoEntry \/ vidToRid[v] = NullOid
    BY <1>3, <1>4 DEF RepliesInv, GoneUnmapped
  <2> QED BY <1>2, <2>1 DEF GoneUnmapped
<1>8. HalfTold'
  <2>1. r.op = "create" => r.attrs.id # Unset
    BY RequestsWellFormed, ValueAssumption
       DEF CreateRequests, Kept, Good, Sound, State, TypeOK
  <2> QED BY <1>2, <2>1 DEF RepliesInv, HalfTold, NoRequest
<1>9. ToldFresh'
  <2>1. vidCounter \in Nat /\ State /\ \A v \in ObjVid : v[2] \in Nat
    BY BoundAssumption, OidTypes DEF Kept, Good, Sound, State, TypeOK
  <2>2. CASE Create(r)
    <3>1. /\ req' = r /\ (pc' = "insert1" => vid' = r.vid) /\ vidCounter' \in Nat
          /\ vidCounter' >= vidCounter
          /\ (r.vid \in ObjVid => r.vid[2] = vidCounter + 1)
      BY <2>2, CountVidUp DEF Create, Kept, Good
    <3>2. r.vid \in ObjVid => Untold(r.vid)'
      BY <1>2, <2>1, <3>1 DEF RepliesInv, ToldFresh, Untold
    <3>3. \A v \in ObjVid : v[2] > vidCounter' => Untold(v)'
      BY <1>2, <2>1, <3>1 DEF RepliesInv, ToldFresh, Untold
    <3> QED BY <3>1, <3>2, <3>3 DEF ToldFresh, Untold
  <2>3. CASE GetSpotsRid(r)
    <3>1. vid' \in ObjVid /\ vid'[2] = vidCounter' /\ vidCounter' = vidCounter + 1 /\ pc' = "insert1"
      BY <2>1, <2>3, GetSpotsRidType DEF GetSpotsRid, State
    <3>2. Untold(vid')
      BY <2>1, <3>1 DEF RepliesInv, ToldFresh
    <3>3. \A v \in ObjVid : v[2] > vidCounter' => Untold(v)
      BY <2>1, <3>1 DEF RepliesInv, ToldFresh
    <3> QED BY <1>2, <3>1, <3>2, <3>3 DEF ToldFresh, Untold
  <2>4. CASE ~Create(r) /\ ~GetSpotsRid(r)
    <3>1. /\ vidCounter' \in Nat /\ vidCounter' >= vidCounter
          /\ pc' \notin {"insert1", "erase2", "evict"}
          /\ pc' = "erase1" => req'.op = "remove"
      <4>1. CASE RequestThrows(r) \/ VendorRejects(r)
        BY <1>2, <4>1, CountVidUp DEF RequestThrows, ProcessEnds, VendorRejects, Kept, Good
      <4>2. CASE Remove(r) \/ Set(r) \/ GetKnown(r)
        BY <1>2, <2>1, <4>2 DEF Remove, Set, GetKnown, redis
      <4> QED BY <1>1, <2>4, <4>1, <4>2
    <3>2. \A v \in ObjVid : v[2] > vidCounter' => Untold(v)
      BY <2>1, <3>1 DEF RepliesInv, ToldFresh
    <3> QED BY <1>2, <3>1, <3>2 DEF ToldFresh, Untold
  <2> QED BY <2>2, <2>3, <2>4
<1> QED BY <1>5, <1>6, <1>7, <1>8, <1>9 DEF RepliesInv

(* The steps between the vendor's answer and the reply, but for the        *)
(* eviction.                                                               *)
LEMMA MapChangeReplies ==
  ASSUME Kept, RepliesInv, EraseVid \/ EraseRid \/ InsertVid \/ InsertRid
  PROVE  RepliesInv'
<1> USE DEF Kept, Good, Sound, State, TypeOK
<1>1. /\ UNCHANGED <<vidCounter, asicState, told, superseded, req, vid, rid>>
      /\ pc \in {"erase1", "erase2", "insert1", "insert2"}
      /\ pc' \in {"erase2", "evict", "insert2", "reply"}
      /\ pc' = "insert2" => pc = "insert1" /\ InsertVid
      /\ pc' = "evict" => pc = "erase2"
      /\ pc' = "erase2" => pc = "erase1"
      /\ pc \in {"erase1", "erase2"} => pc' # "insert2" /\ (pc' = "reply" => req.op # "create")
  BY DEF EraseVid, EraseRid, InsertVid, InsertRid, answers, job
<1>2. vid \in Vid /\ rid \in Rid
  BY <1>1 DEF JobOK, InMapChange
<1>3. \A v \in Vid : v # NullOid
  BY OidsDistinct
<1>4. Half = NullOid /\ Half' = NullOid /\ Replacing' = Replacing
  BY <1>1 DEF Half, Replacing, InsertVid, InsertRid, EraseVid, EraseRid
<1>5. \A v \in Vid : vidToRid'[v] = vidToRid[v] \/ vidToRid'[v] = NullOid \/ (InsertVid /\ v = vid)
  BY <1>2 DEF EraseVid, EraseRid, InsertVid, InsertRid
<1>6. InsertVid => (vid \in ObjVid => Untold(vid))
                   /\ req.op \in {"create", "get"} /\ (req.op = "create" => vid = req.vid)
                   /\ pc = "insert1"
  BY DEF InsertVid, RepliesInv, ToldFresh, JobOK
<1>7. SavedAsTold' /\ HalfTold'
  BY <1>1, <1>3, <1>4 DEF RepliesInv, SavedAsTold, HalfTold
<1>8. ToldKept'
  BY <1>1, <1>4 DEF RepliesInv, ToldKept
<1>9. SupersededGone'
  <2>1. \A v \in superseded : v \in ObjVid /\ v \in Vid
    BY OidTypes, OidsDistinct DEF RepliesInv, SupersededGone
  <2>2. \A v \in superseded : ~(InsertVid /\ v = vid)
    BY <1>6, <2>1 DEF Untold
  <2> QED BY <1>1, <1>5, <2>1, <2>2 DEF RepliesInv, SupersededGone
<1>10. GoneUnmapped'
  <2> SUFFICES ASSUME NEW v \in Vid, told[v] # NoEntry, asicState[v] = NoEntry,
                      vidToRid'[v] # NullOid
               PROVE  Replacing /\ v = req.vid
    BY <1>1, <1>4 DEF GoneUnmapped
  <2>1. CASE vidToRid'[v] = vidToRid[v]
    BY <1>3, <1>4, <2>1 DEF RepliesInv, GoneUnmapped
  <2>2. CASE InsertVid /\ v = vid
    <3>1. vid = LinecardVid
      BY <1>6, <2>2, OidsDistinct DEF Untold
    <3>2. req.op = "create"
      BY <1>6, <2>2, <3>1 DEF SavedInv
    <3> QED BY <1>6, <2>2, <3>2 DEF Replacing
  <2> QED BY <1>5, <2>1, <2>2
<1>11. ToldFresh'
  BY <1>1 DEF RepliesInv, ToldFresh, Untold
<1> QED BY <1>7, <1>8, <1>9, <1>10, <1>11 DEF RepliesInv

(* The eviction: the object had the type and, if known, the ID of the new  *)
(* one, and its VID has no RID any more.                                   *)
LEMMA EvictReplies ==
  ASSUME StackGarbage \cap Rid = {}, Kept, RepliesInv, Evict
  PROVE  RepliesInv'
<1> USE DEF Kept, Good, Sound, State, TypeOK
<1>1. /\ pc = "evict" /\ pc' = "insert1" /\ vid' = req.vid /\ req.op = "create"
      /\ vid \in Vid /\ req.vid \in Vid
      /\ UNCHANGED <<vidCounter, vidToRid, told, superseded, req>>
      /\ asicState' = [asicState EXCEPT ![vid] = NoEntry]
  BY DEF Evict, JobOK, InMapChange, Request, answers
<1>2. \A v \in Vid : v # NullOid
  BY OidsDistinct
<1>3. Half = NullOid /\ Half' = NullOid /\ ~Replacing /\ Replacing'
  BY <1>1 DEF Half, Replacing
<1>4. asicState'[vid] = NoEntry /\ \A v \in Vid : v # vid => asicState'[v] = asicState[v]
  BY <1>1
<1>5. SavedAsTold'
  BY <1>1, <1>2, <1>3, <1>4 DEF RepliesInv, SavedAsTold
<1>6. SupersededGone'
  <2>1. \A v \in superseded : v \in Vid
    BY OidTypes, OidsDistinct DEF RepliesInv, SupersededGone
  <2> QED BY <1>1, <1>4, <2>1 DEF RepliesInv, SupersededGone
<1>7. ToldKept'
  <2>1. EvictsItsLike
    BY <1>1 DEF OwnInv, OwnJob, Strayed
  <2> SUFFICES ASSUME NEW v \in Traced, told[v].id # Unset, asicState'[v] # told[v]
               PROVE  v = req.vid \/ (v[1] = req.vid[1] /\ told[v].id = req.attrs.id)
    BY <1>1, <1>3 DEF ToldKept
  <2>2. v \in Vid /\ asicState[v] = told[v]
    BY <1>2, <1>3, OidTypes, OidsDistinct DEF RepliesInv, ToldKept, Traced
  <2>3. v = vid
    BY <1>4, <2>2
  <2>4. CASE v \in Keyed
    BY <2>1, <2>2, <2>3, <2>4 DEF EvictsItsLike
  <2>5. CASE v = LinecardVid
    <3>1. req.vid[1] = "LINECARD"
      BY <2>1, <2>3, <2>5, OidTypes DEF EvictsItsLike
    <3>2. req.vid = LinecardVid
      BY <1>1, <3>1, OidTypes, OidsDistinct, TypeAssumption
    <3> QED BY <2>5, <3>2
  <2> QED BY <2>4, <2>5 DEF Traced
<1>8. GoneUnmapped'
  <2>1. vidToRid[vid] = NullOid
    BY <1>1 DEF InverseInv
  <2> QED BY <1>1, <1>2, <1>3, <1>4, <2>1 DEF RepliesInv, GoneUnmapped
<1>9. ToldFresh' /\ HalfTold'
  BY <1>1 DEF RepliesInv, ToldFresh, HalfTold, Untold
<1> QED BY <1>5, <1>6, <1>7, <1>8, <1>9 DEF RepliesInv

(* The objects that the reply to a create replaces have lost RID and entry *)
(* by then: another one with that ID would have the RID of the new one.    *)
LEMMA ReplacedAreGone ==
  ASSUME Kept, RepliesInv, pc = "reply", NEW v \in ReplacedBy(req)
  PROVE  /\ v \in Keyed /\ v # req.vid /\ req.op = "create"
         /\ told[v].id # Unset /\ asicState[v] = NoEntry /\ vidToRid[v] = NullOid
<1> USE DEF Kept, Good, Sound, State
<1>1. /\ v \in Keyed /\ v # req.vid /\ req.op = "create" /\ v[1] = req.vid[1]
      /\ told[v].id = req.attrs.id /\ told[v].id # Unset
  BY DEF ReplacedBy, RepliesInv, HalfTold
<1>2. v \in ObjVid /\ v \in Vid /\ req.vid \in Keyed /\ v # NullOid /\ req.vid \in Vid
  BY <1>1, OidTypes, OidsDistinct DEF TypeOK, Request
<1>3. Half = NullOid /\ told[v] # NoEntry
  BY <1>1 DEF Half, NoEntry
<1>4. vidToRid[v] = NullOid
  <2> SUFFICES ASSUME vidToRid[v] # NullOid PROVE FALSE
    OBVIOUS
  <2>1. asicState[v] = told[v]
    BY <1>1, <1>2, <1>3 DEF RepliesInv, GoneUnmapped, SavedAsTold
  <2>2. vidToRid[v] = <<v[1], told[v].id>>
    BY <1>1, <2>1 DEF OwnInv, IdGivesRid
  <2>3. vidToRid[req.vid] = <<req.vid[1], req.attrs.id>>
    BY <1>1, <1>2 DEF OwnInv, OwnJob
  <2>4. vidToRid[v] = vidToRid[req.vid] /\ vidToRid[req.vid] # NullOid
    BY <1>1, <2>2, <2>3
  <2>5. Forth(v) /\ Forth(req.vid)
    BY <1>2 DEF InverseInv
  <2> QED BY <1>1, <2>4, <2>5 DEF Forth
<1>5. asicState[v] = NoEntry
  <2>1. Dying = NullOid
    BY <1>1 DEF Dying
  <2> QED BY <1>2, <1>4, <2>1 DEF MappedInv, MappedIfSaved
<1> QED BY <1>1, <1>4, <1>5

(* A create that is answered: only its own entry is outstanding. *)
LEMMA CreateReplyReplies ==
  ASSUME Kept, RepliesInv, Reply, req.op = "create"
  PROVE  RepliesInv'
<1> USE DEF Kept, Good, Sound, State
<1>1. /\ pc = "reply" /\ UNCHANGED <<vidCounter, vidToRid, asicState>>
      /\ req.vid \in Vid /\ req.attrs \in Entry /\ asicState[req.vid] = NoEntry
      /\ vidToRid[req.vid] # NullOid /\ req.attrs.id # Unset
  BY DEF Reply, redis, TypeOK, Request, SavedInv, MappedInv, RepliesInv, HalfTold
<1>2. /\ told' = [v \in Vid |-> IF v = req.vid THEN req.attrs
                                ELSE IF v \in ReplacedBy(req) THEN NoEntry ELSE told[v]]
      /\ superseded' = superseded \cup ReplacedBy(req)
  BY DEF Reply
<1>3. pc' = "save" /\ left' = Fields(req.attrs) /\ UNCHANGED req
  BY <1>1 DEF Reply, Fields
<1>4. Half = NullOid /\ Half' = req.vid /\ ~Replacing' /\ \A v \in Vid : v # NullOid
  BY <1>1, <1>3, OidsDistinct DEF Half, Replacing
<1>5. \A v \in ReplacedBy(req) :
        v \in Keyed /\ v \in Vid /\ v # req.vid /\ told[v] # NoEntry
        /\ asicState[v] = NoEntry /\ vidToRid[v] = NullOid
  BY <1>1, ReplacedAreGone, OidTypes, OidsDistinct DEF NoEntry
<1>6. \A v \in Vid : v # req.vid => told'[v] = NoEntry \/ (told'[v] = told[v] /\ v \notin ReplacedBy(req))
  BY <1>2
<1>7. SavedAsTold'
  <2> SUFFICES ASSUME NEW v \in Vid, v # req.vid PROVE asicState[v] \in {told'[v], NoEntry}
    BY <1>1, <1>4 DEF SavedAsTold
  <2>1. CASE v \in ReplacedBy(req)
    BY <1>5, <2>1
  <2>2. CASE v \notin ReplacedBy(req)
    BY <1>2, <1>4, <2>2 DEF RepliesInv, SavedAsTold
  <2> QED BY <2>1, <2>2
<1>8. SupersededGone'
  <2>1. req.vid \notin superseded
    BY <1>1 DEF RepliesInv, SupersededGone
  <2>2. \A v \in superseded : v \in Vid /\ v \in Keyed
    BY OidTypes, OidsDistinct DEF RepliesInv, SupersededGone
  <2>3. \A v \in superseded' : told'[v] = NoEntry
    BY <1>2, <1>5, <2>1, <2>2 DEF RepliesInv, SupersededGone
  <2> QED BY <1>1, <1>2, <1>5, <2>2, <2>3 DEF RepliesInv, SupersededGone
<1>9. ToldKept'
  <2> SUFFICES ASSUME NEW v \in Traced, told'[v].id # Unset, v # req.vid
               PROVE  asicState[v] = told'[v]
    BY <1>1, <1>4 DEF ToldKept
  <2>1. v \in Vid
    BY OidTypes, OidsDistinct DEF Traced
  <2>2. v \notin ReplacedBy(req) /\ told'[v] = told[v]
    BY <1>2, <2>1 DEF NoEntry
  <2>3. v[1] = req.vid[1] => v \in Keyed
    BY <1>1, <2>1, OidTypes, OidsDistinct, TypeAssumption DEF Traced
  <2>4. ~(v[1] = req.vid[1] /\ told[v].id = req.attrs.id)
    BY <2>2, <2>3 DEF ReplacedBy
  <2> QED BY <1>4, <2>1, <2>2, <2>4 DEF RepliesInv, ToldKept
<1>10. GoneUnmapped'
  <2> SUFFICES ASSUME NEW v \in Vid, v # req.vid, told'[v] # NoEntry
               PROVE  asicState[v] # NoEntry \/ vidToRid[v] = NullOid
    BY <1>1, <1>4 DEF GoneUnmapped
  <2>1. told'[v] = told[v]
    BY <1>6
  <2> QED BY <1>4, <2>1 DEF RepliesInv, GoneUnmapped
<1>11. ToldFresh'
  <2> SUFFICES ASSUME NEW v \in ObjVid, v[2] > vidCounter
               PROVE  told'[v] = NoEntry /\ v \notin superseded'
    BY <1>1, <1>3 DEF ToldFresh, Untold
  <2>1. v \in Vid /\ Untold(v) /\ Unused(v)
    BY OidsDistinct DEF RepliesInv, ToldFresh, FreshInv
  <2>2. v # req.vid
    BY <1>1, <2>1 DEF Unused
  <2> QED BY <1>2, <1>5, <1>6, <2>1, <2>2 DEF Untold
<1>12. HalfTold'
  <2>1. told'[req.vid] = req.attrs
    BY <1>1, <1>2
  <2>2. \A f \in {"id", "cfg", "ref"} : f \notin left' => req.attrs[f] = NoEntry[f]
    BY <1>3 DEF Fields, NoEntry
  <2> QED BY <1>1, <1>3, <2>1, <2>2 DEF HalfTold
<1> QED BY <1>7, <1>8, <1>9, <1>10, <1>11, <1>12 DEF RepliesInv

(* An answer to anything but a create concerns its own VID alone. *)
LEMMA ReplyReplies ==
  ASSUME Kept, RepliesInv, Reply, req.op # "create"
  PROVE  RepliesInv'
<1> USE DEF Kept, Good, Sound, State
<1>1. /\ pc = "reply" /\ UNCHANGED <<vidCounter, vidToRid, asicState>>
      /\ req.vid \in Vid /\ req.attrs \in Entry /\ req.op \in {"remove", "set", "get"}
  BY DEF Reply, redis, TypeOK, Request
<1>2. UNCHANGED superseded
  BY DEF Reply, ReplacedBy
<1>3. /\ pc' \in {"save", "delete", "serving"} /\ req' \in {req, NoRequest}
      /\ pc' = "save" => req.op = "set" /\ left' = Fields(req.attrs) /\ UNCHANGED req
      /\ pc' = "delete" => req.op = "remove" /\ UNCHANGED req
      /\ req.op = "remove" => pc' = "delete"
      /\ req.op = "set" /\ Fields(req.attrs) # {} => pc' = "save"
  BY <1>1 DEF Reply, EndRequest, job
<1>4. req.op = "set" => req.attrs.id = Unset /\ req.attrs.ref = NullOid
  BY <1>1 DEF SavedInv
<1>5. Half = NullOid /\ ~Replacing /\ ~Replacing' /\ \A v \in Vid : v # NullOid
  BY <1>1, <1>3, OidsDistinct DEF Half, Replacing
<1>6. req.op = "set" => asicState[req.vid] = told[req.vid] /\ vidToRid[req.vid] # NullOid
  BY <1>1, <1>5 DEF RepliesInv, SavedAsTold, GoneUnmapped, MappedInv
<1>7. /\ told \in [Vid -> Entry] /\ told[req.vid] \in Entry
      /\ \A v \in Vid : v # req.vid => told'[v] = told[v]
      /\ req.op = "remove" => told'[req.vid] = NoEntry
      /\ req.op = "set" /\ req.attrs.cfg # Unset =>
           /\ told'[req.vid].cfg = req.attrs.cfg
           /\ told'[req.vid].id = told[req.vid].id /\ told'[req.vid].ref = told[req.vid].ref
      /\ req.op = "get" \/ (req.op = "set" /\ req.attrs.cfg = Unset) => told' = told
  <2>1. told \in [Vid -> Entry] /\ told[req.vid] \in Entry
    BY <1>1 DEF TypeOK
  <2>2. CASE req.op = "remove"
    BY <1>1, <2>1, <2>2 DEF Reply
  <2>3. CASE req.op = "set" /\ req.attrs.cfg # Unset
    <3>1. told' = [told EXCEPT ![req.vid].cfg = req.attrs.cfg]
      BY <2>3 DEF Reply
    <3> QED BY <1>1, <2>1, <2>3, <3>1 DEF Entry
  <2>4. CASE req.op = "get" \/ (req.op = "set" /\ req.attrs.cfg = Unset)
    BY <2>1, <2>4 DEF Reply
  <2> QED BY <1>1, <2>1, <2>2, <2>3, <2>4
<1>8. \A v \in Vid : told'[v] = told[v] \/ (v = req.vid /\ v = Half')
  <2>1. req.op = "set" /\ req.attrs.cfg # Unset => pc' = "save"
    BY <1>3 DEF Fields
  <2> QED BY <1>1, <1>3, <1>7, <2>1 DEF Half
<1>9. SavedAsTold' /\ GoneUnmapped'
  BY <1>1, <1>5, <1>8 DEF RepliesInv, SavedAsTold, GoneUnmapped
<1>10. ToldKept'
  <2>1. \A v \in Traced : v \in Vid
    BY OidTypes, OidsDistinct DEF Traced
  <2> QED BY <1>1, <1>5, <1>8, <2>1 DEF RepliesInv, ToldKept
<1>11. SupersededGone'
  <2> SUFFICES ASSUME NEW v \in superseded PROVE told'[v] = NoEntry
    BY <1>1, <1>2 DEF RepliesInv, SupersededGone
  <2>1. v \in Vid /\ told[v] = NoEntry /\ vidToRid[v] = NullOid
    BY OidTypes, OidsDistinct DEF RepliesInv, SupersededGone
  <2> QED BY <1>1, <1>6, <1>7, <2>1
<1>12. ToldFresh'
  <2> SUFFICES ASSUME NEW v \in ObjVid, v[2] > vidCounter PROVE told'[v] = NoEntry /\ v \notin superseded
    BY <1>1, <1>2, <1>3 DEF ToldFresh, Untold
  <2>1. v \in Vid /\ Untold(v) /\ Unused(v)
    BY OidsDistinct DEF RepliesInv, ToldFresh, FreshInv
  <2> QED BY <1>1, <1>6, <1>7, <2>1 DEF Untold, Unused
<1>13. HalfTold'
  <2>1. CASE pc' = "save"
    <3>1. \/ req.attrs.cfg # Unset /\ Fields(req.attrs) = {"cfg"}
          \/ Fields(req.attrs) = {}
      BY <1>3, <1>4, <2>1 DEF Fields
    <3>2. Fields(req.attrs) = {} => told' = told
      BY <1>3, <1>7, <2>1 DEF Fields
    <3> QED BY <1>1, <1>3, <1>6, <1>7, <2>1, <3>1, <3>2 DEF RepliesInv, HalfTold
  <2>2. CASE pc' # "save"
    BY <1>3, <1>7, <2>2 DEF RepliesInv, HalfTold, NoRequest
  <2> QED BY <2>1, <2>2
<1> QED BY <1>9, <1>10, <1>11, <1>12, <1>13 DEF RepliesInv

LEMMA SaveFieldReplies ==
  ASSUME Kept, RepliesInv, NEW f \in {"id", "cfg", "ref"}, SaveField(f)
  PROVE  RepliesInv'
<1> USE DEF Kept, Good, Sound, State
<1>1. /\ pc = "save" /\ f \in left /\ UNCHANGED <<told, superseded, vidToRid, vidCounter>>
      /\ asicState' = [asicState EXCEPT ![req.vid][f] = req.attrs[f]]
      /\ req.vid \in Vid /\ req.op \in {"create", "set"} /\ asicState \in [Vid -> Entry]
      /\ asicState[req.vid] \in Entry /\ told[req.vid] \in Entry
      /\ \/ pc' = "serving" /\ left = {f} /\ req' = NoRequest
         \/ pc' = "save" /\ left' = left \ {f} /\ UNCHANGED req
  BY DEF SaveField, EndRequest, JobOK, TypeOK, Request, answers
<1>2. /\ asicState'[req.vid] = [asicState[req.vid] EXCEPT ![f] = req.attrs[f]]
      /\ \A v \in Vid : v # req.vid => asicState'[v] = asicState[v]
  BY <1>1
<1>3. \A g \in {"id", "cfg", "ref"} :
        asicState'[req.vid][g] = IF g = f THEN req.attrs[f] ELSE asicState[req.vid][g]
  BY <1>1, <1>2 DEF Entry
<1>4. \A g \in {"id", "cfg", "ref"} :
        told[req.vid][g] = IF g \in left \ {f} THEN req.attrs[g] ELSE asicState'[req.vid][g]
  BY <1>1, <1>3 DEF RepliesInv, HalfTold
<1>5. pc' = "serving" => asicState'[req.vid] = told[req.vid]
  <2>1. asicState'[req.vid] \in Entry
    BY <1>1, SaveFieldType DEF TypeOK
  <2>2. ASSUME left = {f}
        PROVE  /\ asicState'[req.vid].id = told[req.vid].id
               /\ asicState'[req.vid].cfg = told[req.vid].cfg
               /\ asicState'[req.vid].ref = told[req.vid].ref
    BY <1>4, <2>2
  <2> QED BY <1>1, <2>1, <2>2, SameEntries
<1>6. Half = req.vid /\ (pc' = "save" => Half' = req.vid) /\ (pc' = "serving" => Half' = NullOid)
      /\ ~Replacing /\ ~Replacing'
  BY <1>1 DEF Half, Replacing
<1>7. \A v \in Vid : v = Half' \/ asicState'[v] = told[v] \/ (v # Half /\ asicState'[v] = asicState[v])
  BY <1>1, <1>2, <1>5, <1>6
<1>8. SavedAsTold' /\ GoneUnmapped'
  BY <1>1, <1>6, <1>7 DEF RepliesInv, SavedAsTold, GoneUnmapped
<1>9. ToldKept'
  <2>1. \A v \in Traced : v \in Vid
    BY OidTypes, OidsDistinct DEF Traced
  <2> QED BY <1>1, <1>6, <1>7, <2>1 DEF RepliesInv, ToldKept
<1>10. SupersededGone'
  <2>1. vidToRid[req.vid] # NullOid
    BY <1>1 DEF MappedInv
  <2>2. \A v \in superseded : v \in Vid /\ v # req.vid
    BY <2>1, OidTypes, OidsDistinct DEF RepliesInv, SupersededGone
  <2> QED BY <1>1, <1>2, <2>2 DEF RepliesInv, SupersededGone
<1>11. ToldFresh'
  BY <1>1 DEF RepliesInv, ToldFresh, Untold
<1>12. HalfTold'
  BY <1>1, <1>4 DEF RepliesInv, HalfTold, NoRequest
<1> QED BY <1>8, <1>9, <1>10, <1>11, <1>12 DEF RepliesInv

LEMMA DeleteReplies ==
  ASSUME Kept, RepliesInv, DeleteAsicObject
  PROVE  RepliesInv'
<1> USE DEF Kept, Good, Sound, State
<1>1. /\ pc = "delete" /\ pc' = "serving" /\ UNCHANGED <<told, superseded, vidToRid, vidCounter>>
      /\ asicState' = [asicState EXCEPT ![req.vid] = NoEntry] /\ asicState \in [Vid -> Entry]
      /\ req.vid \in Vid /\ told[req.vid] = NoEntry /\ req' = NoRequest
  BY DEF DeleteAsicObject, EndRequest, TypeOK, Request, RepliesInv, HalfTold, answers
<1>2. asicState'[req.vid] = told[req.vid] /\ \A v \in Vid : v # req.vid => asicState'[v] = asicState[v]
  BY <1>1
<1>3. Half = req.vid /\ ~Replacing
  BY <1>1 DEF Half, Replacing
<1>4. \A v \in Vid : asicState'[v] = told[v] \/ (v # Half /\ asicState'[v] = asicState[v])
  BY <1>2, <1>3
<1>5. SavedAsTold' /\ GoneUnmapped'
  BY <1>1, <1>3, <1>4 DEF RepliesInv, SavedAsTold, GoneUnmapped
<1>6. ToldKept' /\ SupersededGone'
  <2>1. \A v \in Traced : v \in Vid
    BY OidTypes, OidsDistinct DEF Traced
  <2>2. \A v \in superseded : v \in Vid
    BY OidTypes, OidsDistinct DEF RepliesInv, SupersededGone
  <2> QED BY <1>1, <1>3, <1>4, <2>1, <2>2 DEF RepliesInv, ToldKept, SupersededGone
<1>7. ToldFresh' /\ HalfTold'
  BY <1>1 DEF RepliesInv, ToldFresh, HalfTold, Untold, NoRequest
<1> QED BY <1>5, <1>6, <1>7 DEF RepliesInv

LEMMA NextReplies ==
  ASSUME StackGarbage \cap Rid = {}, "crashAnywhere" \notin Env, "removeLinecard" \notin Env
  PROVE  Kept /\ RepliesInv /\ [Next]_vars => RepliesInv'
<1> SUFFICES ASSUME Kept, RepliesInv, [Next]_vars PROVE RepliesInv'
  OBVIOUS
<1>1. CASE HandleRequest
  BY <1>1, RequestReplies
<1>2. CASE ContinueRequest
  <2>1. ~RemoveLinecardThrows
    BY DEF RemoveLinecardThrows, Kept, SavedInv
  <2> QED BY <1>2, <2>1, MapChangeReplies, EvictReplies, CreateReplyReplies, ReplyReplies,
             SaveFieldReplies, DeleteReplies
          DEF ContinueRequest
<1>3. CASE Reinit \/ RestartQuery
  <2>1. \A v \in Vid : v # NullOid
    BY OidsDistinct
  <2>2. Half = NullOid /\ Half' = NullOid /\ ~Replacing /\ ~Replacing'
    BY <1>3, RestartKeeps DEF Half, Replacing
  <2>3. HalfTold' /\ ToldFresh'
    BY <1>3, RestartKeeps DEF RepliesInv, HalfTold, ToldFresh, Untold, NoRequest
  <2> QED BY <1>3, <2>1, <2>2, <2>3, RestartKeeps
          DEF RepliesInv, SavedAsTold, SupersededGone, ToldKept, GoneUnmapped
<1>4. CASE Crash
  BY <1>4 DEF Crash
<1>5. CASE UNCHANGED vars
  BY <1>5 DEF RepliesInv, SavedAsTold, SupersededGone, ToldKept, GoneUnmapped, ToldFresh, HalfTold,
     Half, Replacing, Untold, vars, redis, job, answers
<1> QED BY <1>1, <1>2, <1>3, <1>4, <1>5 DEF Next

(* As long as syncd is not killed inside a request and the linecard is not *)
(* removed, ASIC_STATE says, whenever a request may come, of every object  *)
(* what the replies told the client or nothing; nothing of an object with  *)
(* an ID exactly if a later object with that ID was answered SUCCESS:      *)
(* through creates that evict, removes, sets, restarts and the linecard    *)
(* being created again.                                                    *)
THEOREM RepliesAreSavedAlways ==
  ASSUME StackGarbage \cap Rid = {}, "crashAnywhere" \notin Env, "removeLinecard" \notin Env
  PROVE  Spec => []RepliesAreSaved
<1>1. Init => Kept /\ RepliesInv
  <2>1. Init => RepliesInv
    BY DEF Init, RepliesInv, SavedAsTold, SupersededGone, ToldKept, GoneUnmapped, ToldFresh,
       HalfTold, Half, Replacing, Untold, NoEntry, NoRequest, Traced, Vid, Keyed
  <2> QED BY <2>1, InitKept
<1>2. Kept /\ RepliesInv /\ [Next]_vars => Kept' /\ RepliesInv'
  BY NextKept, NextReplies
<1>3. RepliesInv => RepliesAreSaved
  <2> SUFFICES ASSUME RepliesInv, pc = "serving"
               PROVE  /\ \A v \in Vid : asicState[v] \in {told[v], NoEntry}
                      /\ \A v \in superseded : asicState[v] = NoEntry
                      /\ \A v \in Traced : told[v].id # Unset => asicState[v] = told[v]
    BY DEF RepliesAreSaved, Traced
  <2>1. Half = NullOid /\ ~Replacing /\ (\A v \in Vid : v # NullOid) /\ \A v \in Traced : v \in Vid
    BY OidTypes, OidsDistinct DEF Half, Replacing, Traced
  <2> QED BY <2>1 DEF RepliesInv, SavedAsTold, SupersededGone, ToldKept
<1> QED BY <1>1, <1>2, <1>3, PTL DEF Spec

-----------------------------------------------------------------------------
(* The RID of a VID is the vendor object that was made for it.             *)

(* The object whose entry a create or a remove is about to take away.      *)
Going ==
  IF pc \in {"erase1", "erase2", "evict"} THEN vid
  ELSE IF pc \in {"reply", "delete"} /\ req.op = "remove" THEN req.vid
  ELSE NullOid

HasId(v) == asicState[v].id # Unset /\ v # Going

(* The vendor object r was made for v, which refers to ref.                *)
MadeFor(r, v, ref) ==
  /\ hw[r].live /\ hw[r].owner = v
  /\ ref \in Keyed /\ HasId(ref) => hw[r].ref = vidToRid[ref]

ObjectsMade ==
  pc \notin {"down", "reinit"} =>
    \A v \in Traced : HasId(v) => MadeFor(vidToRid[v], v, asicState[v].ref)

Creating == req.op = "create" /\ (InMapChange \/ pc \in {"reply", "save"})

(* The new object has no entry yet, or a part of one; nothing refers to it.*)
NewObject ==
  /\ req.attrs.id # Unset
  /\ req.vid \in Traced => MadeFor(rid, req.vid, req.attrs.ref)
  /\ req.vid \in ObjVid => req.attrs.ref # req.vid /\ \A v \in Vid : asicState[v].ref # req.vid
  /\ req.vid = LinecardVid => req.attrs.ref = NullOid
  /\ req.attrs.ref \in ObjVid => req.attrs.ref[2] <= vidCounter
  /\ pc \in {"reply", "save"} => /\ vidToRid[req.vid] = rid
                                 /\ asicState[req.vid].ref \in {NullOid, req.attrs.ref}
  /\ pc = "save" /\ asicState[req.vid].id = Unset => "id" \in left

(* Every object that has an entry has an ID, once its create has saved it. *)
IdsGiven ==
  \A v \in ObjVid : asicState[v] # NoEntry /\ asicState[v].id = Unset =>
    pc = "save" /\ req.op = "create" /\ v = req.vid

RefsCounted ==
  /\ \A v \in Vid : asicState[v].ref \in ObjVid => asicState[v].ref[2] <= vidCounter
  /\ asicState[LinecardVid].ref = NullOid

(* What a restart has created again is what the maps say. *)
RestoredOK(v) ==
  translated[v] # NullOid =>
    /\ translated[v] = vidToRid[v]
    /\ hw[vidToRid[v]].live /\ hw[vidToRid[v]].owner = v
    /\ asicState[v].ref \in Keyed =>
         /\ translated[asicState[v].ref] # NullOid
         /\ hw[vidToRid[v]].ref = vidToRid[asicState[v].ref]

NamesInv ==
  /\ ObjectsMade
  /\ Creating => NewObject
  /\ IdsGiven
  /\ RefsCounted
  /\ pc \in {"reply", "save"} /\ req.op = "set" /\ req.vid \in ObjVid =>
       asicState[req.vid].id # Unset
  /\ pc = "reinit" => \A v \in Traced : RestoredOK(v)

(* Between requests, and while a restart is under way, an entry with an ID *)
(* has a RID of its own.                                                   *)
LEMMA IdHasRid ==
  ASSUME Kept, pc = "serving", NEW v \in Traced, asicState[v].id # Unset
  PROVE  vidToRid[v] \in Rid /\ ridToVid[vidToRid[v]] = v
<1>1. asicState[v] # NoEntry /\ v \in Vid
  BY OidTypes, OidsDistinct DEF NoEntry, Traced
<1>2. vidToRid[v] # NullOid
  <2>1. CASE v \in ObjVid
    BY <1>1, <2>1, ServingConsistent DEF Kept, Consistent, MappedIfSaved
  <2>2. CASE v = LinecardVid
    BY <1>1, <2>2 DEF Kept, SavedInv, LinecardSaved
  <2> QED BY <1>1, <2>1, <2>2, OidsDistinct
<1> QED BY <1>1, <1>2 DEF Kept, Good, Sound, State, TypeOK, InverseInv, Forth

(* Steps of a request that leave the vendor's objects alone and give no    *)
(* object an ID.                                                           *)
LEMMA SameObjects ==
  ASSUME NamesInv, UNCHANGED hw, pc \notin {"down", "reinit"},
         \A v \in Traced : HasId(v)' =>
            HasId(v) /\ vidToRid'[v] = vidToRid[v] /\ asicState'[v].ref = asicState[v].ref
  PROVE  /\ ObjectsMade'
         /\ \A r, v, ref : MadeFor(r, v, ref) => MadeFor(r, v, ref)'
<1>1. ASSUME NEW r, NEW v, NEW ref, MadeFor(r, v, ref) PROVE MadeFor(r, v, ref)'
  BY <1>1 DEF MadeFor, Traced
<1>2. ASSUME NEW v \in Traced, HasId(v)' PROVE MadeFor(vidToRid[v], v, asicState[v].ref)'
  <2>1. MadeFor(vidToRid[v], v, asicState[v].ref)
    BY <1>2 DEF NamesInv, ObjectsMade
  <2>2. vidToRid'[v] = vidToRid[v] /\ asicState'[v].ref = asicState[v].ref
    BY <1>2
  <2> QED BY <2>1, <2>2 DEF MadeFor, Traced
<1> QED BY <1>1, <1>2 DEF ObjectsMade

LEMMA CreateNames ==
  ASSUME StackGarbage \cap Rid = {}, Kept, NamesInv,
         NEW r \in Requests, Create(r)
  PROVE  NamesInv'
<1> USE DEF Kept, Good, Sound, State, TypeOK
<1>1. /\ r \in CreateRequests /\ r \in Request /\ r.vid \in Vid /\ req' = r /\ r.op = "create"
      /\ UNCHANGED <<vidToRid, ridToVid, asicState>> /\ rid' = VendorRid(r.vid, r.attrs)
      /\ r.attrs \in Entry /\ pc = "serving"
  BY RequestsWellFormed DEF Create, Request
<1>2. \/ pc' = "insert1" /\ vid' = r.vid /\ ridToVid[rid'] = NullOid
      \/ pc' = "erase1" /\ ridToVid[rid'] = vid' /\ vid' # NullOid
  BY DEF Create, TryRidToVid
<1>3. Pair(r.vid, rid') /\ rid' \in Rid
  BY CreateSorted
<1>4. /\ vidCounter \in Nat /\ vidCounter' \in Nat /\ vidCounter' >= vidCounter
      /\ r.vid \in ObjVid => r.vid[2] = vidCounter + 1
  BY <1>1, CountVidUp DEF Create
<1>5. r.attrs.ref \in ObjVid => vidToRid[r.attrs.ref] = LookupRid(r.attrs.ref)
                                  /\ r.attrs.ref[2] <= vidCounter
  <2> SUFFICES ASSUME r.attrs.ref \in ObjVid
               PROVE  vidToRid[r.attrs.ref] = LookupRid(r.attrs.ref) /\ r.attrs.ref[2] <= vidCounter
    OBVIOUS
  <2>1. r.attrs.ref \in Vid
    BY OidsDistinct
  <2>2. r.attrs.ref[2] <= vidCounter
    BY <1>1, OidsDistinct DEF CreateRequests, RefsOffered, Allocated
  <2>3. vidToRid[r.attrs.ref] = LookupRid(r.attrs.ref)
    BY <1>1, <2>1 DEF LookupRid, CacheInv, VidCached
  <2> QED BY <2>2, <2>3
<1>6. /\ hw' = [hw EXCEPT ![rid'] =
                  [live |-> TRUE, cfg |-> r.attrs.cfg,
                   ref |-> IF r.attrs.ref = NullOid THEN NullOid ELSE LookupRid(r.attrs.ref),
                   owner |-> r.vid]]
  BY <1>1 DEF Create, VendorCreate
<1>7. /\ hw'[rid'].live /\ hw'[rid'].owner = r.vid
      /\ r.attrs.ref \in ObjVid => hw'[rid'].ref = vidToRid[r.attrs.ref]
      /\ \A q \in Rid : q # rid' => hw'[q] = hw[q]
  BY <1>3, <1>5, <1>6, OidsDistinct
<1>8. Going' \in {vid', NullOid} /\ (pc' = "erase1" => Going' = vid')
  BY <1>2 DEF Going
<1>9. ObjectsMade'
  <2> SUFFICES ASSUME NEW v \in Traced, HasId(v)'
               PROVE  MadeFor(vidToRid[v], v, asicState[v].ref)'
    BY DEF ObjectsMade
  <2>1. asicState[v].id # Unset /\ v # Going'
    BY <1>1 DEF HasId
  <2>2. vidToRid[v] \in Rid /\ ridToVid[vidToRid[v]] = v /\ v # NullOid
    BY <1>1, <2>1, IdHasRid, OidTypes, OidsDistinct DEF Traced
  <2>3. vidToRid[v] # rid'
    BY <1>2, <1>8, <2>1, <2>2
  <2>4. hw'[vidToRid[v]] = hw[vidToRid[v]]
    BY <1>7, <2>2, <2>3
  <2>5. Going = NullOid /\ \A w \in Traced : w # NullOid
    BY <1>1, OidTypes, OidsDistinct DEF Going, Traced
  <2>6. MadeFor(vidToRid[v], v, asicState[v].ref)
    BY <1>1, <2>1, <2>5 DEF NamesInv, ObjectsMade, HasId
  <2> QED BY <1>1, <2>4, <2>5, <2>6 DEF MadeFor, HasId, Traced
<1>10. NewObject'
  <2>1. r.attrs.id # Unset /\ (r.vid = LinecardVid => r.attrs.ref = NullOid)
    BY <1>1, ValueAssumption DEF CreateRequests
  <2>2. MadeFor(rid, req.vid, req.attrs.ref)'
    BY <1>1, <1>7, OidTypes DEF MadeFor
  <2>3. r.vid \in ObjVid => r.attrs.ref # r.vid /\ \A v \in Vid : asicState[v].ref # r.vid
    BY <1>4, <1>5 DEF NamesInv, RefsCounted
  <2>4. r.attrs.ref \in ObjVid => r.attrs.ref[2] <= vidCounter'
    <3>1. r.attrs.ref \in ObjVid => r.attrs.ref[2] \in Nat
      BY OidTypes
    <3> QED BY <1>4, <1>5, <3>1
  <2> QED BY <1>1, <1>2, <2>1, <2>2, <2>3, <2>4 DEF NewObject
<1>11. RefsCounted'
  <2>1. \A v \in Vid : asicState[v].ref \in ObjVid => asicState[v].ref[2] \in Nat
    BY OidTypes
  <2> QED BY <1>1, <1>4, <2>1 DEF NamesInv, RefsCounted
<1>12. IdsGiven'
  BY <1>1 DEF NamesInv, IdsGiven
<1> QED BY <1>2, <1>9, <1>10, <1>11, <1>12 DEF NamesInv

(* A step that starts or ends no change: redis and the vendor's objects    *)
(* stay, and no object is going.                                           *)
LEMMA NothingMade ==
  ASSUME NamesInv, UNCHANGED <<vidToRid, asicState, hw>>, pc = "serving",
         pc' \in {"serving", "insert1"}, pc' = "insert1" => req'.op = "get",
         vidCounter' \in Nat, vidCounter \in Nat, vidCounter' >= vidCounter
  PROVE  NamesInv'
<1>1. Going = Going'
  BY DEF Going
<1>2. ObjectsMade'
  <2>1. \A v \in Traced : HasId(v)' =>
          HasId(v) /\ vidToRid'[v] = vidToRid[v] /\ asicState'[v].ref = asicState[v].ref
    BY <1>1 DEF HasId
  <2> QED BY <2>1, SameObjects
<1>3. RefsCounted'
  <2>1. \A v \in Vid : asicState[v].ref \in ObjVid => asicState[v].ref[2] \in Nat
    BY OidTypes
  <2> QED BY <2>1 DEF NamesInv, RefsCounted
<1>4. IdsGiven'
  BY DEF NamesInv, IdsGiven
<1>5. ~Creating'
  BY DEF Creating, InMapChange
<1> QED BY <1>2, <1>3, <1>4, <1>5 DEF NamesInv

(* The end of the process outside a request. *)
LEMMA ProcessEndsNames ==
  ASSUME NamesInv, ProcessEnds, UNCHANGED asicState, pc \in {"serving", "reinit"},
         vidCounter' \in Nat, vidCounter \in Nat, vidCounter' >= vidCounter
  PROVE  NamesInv'
<1>1. pc' = "down"
  BY DEF ProcessEnds
<1>2. RefsCounted'
  <2>1. \A v \in Vid : asicState[v].ref \in ObjVid => asicState[v].ref[2] \in Nat
    BY OidTypes
  <2> QED BY <2>1 DEF NamesInv, RefsCounted
<1>3. IdsGiven'
  BY DEF NamesInv, IdsGiven
<1> QED BY <1>1, <1>2, <1>3 DEF NamesInv, ObjectsMade, Creating, InMapChange

LEMMA RemoveNames ==
  ASSUME Kept, NamesInv, NEW r \in Requests, Remove(r)
  PROVE  NamesInv'
<1> USE DEF Kept, Good, Sound, State, TypeOK
<1>1. /\ pc = "serving" /\ pc' = "erase1" /\ req' = r /\ vid' = r.vid /\ r.op = "remove"
      /\ UNCHANGED <<vidToRid, ridToVid, asicState, vidCounter>> /\ r.vid \in Vid
      /\ hw' = [hw EXCEPT ![LookupRid(r.vid)] = NoObject] /\ Translatable(r)
  BY RequestsWellFormed DEF Remove, redis, Request
<1>2. LookupRid(r.vid) \in Rid /\ LookupRid(r.vid) = vidToRid[r.vid]
  BY <1>1, NeededVidsRid, CachedRidsCoherent
<1>3. ridToVid[vidToRid[r.vid]] = r.vid
  BY <1>1, <1>2, OidsDistinct DEF InverseInv, Forth
<1>4. Going' = r.vid
  BY <1>1 DEF Going
<1>5. ObjectsMade'
  <2> SUFFICES ASSUME NEW v \in Traced, HasId(v)'
               PROVE  MadeFor(vidToRid[v], v, asicState[v].ref)'
    BY DEF ObjectsMade
  <2>1. asicState[v].id # Unset /\ v # r.vid
    BY <1>1, <1>4 DEF HasId
  <2>2. vidToRid[v] \in Rid /\ ridToVid[vidToRid[v]] = v
    BY <1>1, <2>1, IdHasRid
  <2>3. hw'[vidToRid[v]] = hw[vidToRid[v]]
    BY <1>1, <1>2, <1>3, <2>1, <2>2
  <2>4. Going = NullOid /\ \A w \in Traced : w # NullOid
    BY <1>1, OidTypes, OidsDistinct DEF Going, Traced
  <2>5. MadeFor(vidToRid[v], v, asicState[v].ref)
    BY <1>1, <2>1, <2>4 DEF NamesInv, ObjectsMade, HasId
  <2> QED BY <1>1, <2>3, <2>4, <2>5 DEF MadeFor, HasId, Traced
<1>6. IdsGiven' /\ RefsCounted' /\ ~Creating'
  BY <1>1 DEF NamesInv, IdsGiven, RefsCounted, Creating
<1> QED BY <1>1, <1>5, <1>6 DEF NamesInv

LEMMA SetNames ==
  ASSUME "adopts" \notin Env, Kept, NamesInv, NEW r \in Requests, Set(r)
  PROVE  NamesInv'
<1> USE DEF Kept, Good, Sound, State, TypeOK
<1>1. /\ pc = "serving" /\ pc' = "reply" /\ req' = r /\ r.op = "set" /\ Translatable(r)
      /\ UNCHANGED <<vidToRid, ridToVid, asicState, vidCounter>> /\ r.vid \in Vid
  BY RequestsWellFormed DEF Set, redis, Request
<1>2. LookupRid(r.vid) \in Rid /\ LookupRid(r.vid) = vidToRid[r.vid]
  BY <1>1, NeededVidsRid, CachedRidsCoherent
<1>3. r.vid \in ObjVid => asicState[r.vid].id # Unset
  <2>1. r.vid \in Settable
    BY <1>1 DEF Requests, CreateRequests, OtherRequests
  <2> QED BY <1>2, <2>1, OidsDistinct DEF Settable, Spotted
<1>4. \A q \in Rid : /\ hw'[q].live = hw[q].live /\ hw'[q].owner = hw[q].owner
                     /\ hw'[q].ref = hw[q].ref
  <2>1. CASE r.attrs.cfg = Unset
    BY <2>1 DEF Set
  <2>2. CASE r.attrs.cfg # Unset
    <3>1. hw' = [hw EXCEPT ![LookupRid(r.vid)].cfg = r.attrs.cfg]
      BY <2>2 DEF Set
    <3> QED BY <3>1 DEF HwObject
  <2> QED BY <2>1, <2>2
<1>5. Going = NullOid /\ Going' = NullOid
  BY <1>1 DEF Going
<1>6. ObjectsMade'
  <2> SUFFICES ASSUME NEW v \in Traced, HasId(v)'
               PROVE  MadeFor(vidToRid[v], v, asicState[v].ref)'
    BY DEF ObjectsMade
  <2>1. HasId(v)
    BY <1>1, <1>5 DEF HasId
  <2>2. vidToRid[v] \in Rid
    BY <1>1, <2>1, IdHasRid DEF HasId
  <2>3. MadeFor(vidToRid[v], v, asicState[v].ref)
    BY <1>1, <2>1 DEF NamesInv, ObjectsMade
  <2> QED BY <1>1, <1>4, <1>5, <2>2, <2>3 DEF MadeFor, HasId
<1>7. IdsGiven' /\ RefsCounted' /\ ~Creating'
  BY <1>1 DEF NamesInv, IdsGiven, RefsCounted, Creating, InMapChange
<1> QED BY <1>1, <1>3, <1>6, <1>7 DEF NamesInv

LEMMA RequestNames ==
  ASSUME StackGarbage \cap Rid = {}, "adopts" \notin Env,
         Kept, NamesInv, HandleRequest
  PROVE  NamesInv'
<1>1. PICK r \in Requests :
        \/ RequestThrows(r) \/ VendorRejects(r)
        \/ Create(r) \/ Remove(r) \/ Set(r) \/ GetKnown(r) \/ GetSpotsRid(r)
  BY DEF HandleRequest
<1>2. vidCounter \in 0 .. MaxVid
  BY DEF Kept, Good, Sound, State, TypeOK
<1>3. CASE RequestThrows(r)
  BY <1>3, CountVidUp, ProcessEndsNames DEF RequestThrows, Kept, Good
<1>4. CASE VendorRejects(r)
  BY <1>4, CountVidUp, NothingMade DEF VendorRejects, vendor, Kept, Good
<1>5. CASE Create(r)
  BY <1>5, CreateNames
<1>6. CASE Remove(r)
  BY <1>6, RemoveNames
<1>7. CASE Set(r)
  BY <1>7, SetNames
<1>8. CASE GetKnown(r)
  BY <1>2, <1>8, BoundAssumption, NothingMade DEF GetKnown, vendor, redis
<1>9. CASE GetSpotsRid(r)
  <2>1. vidCounter' \in Nat /\ vidCounter \in Nat /\ vidCounter' >= vidCounter
    BY <1>2, <1>9, BoundAssumption DEF GetSpotsRid
  <2> QED BY <1>9, <2>1, NothingMade DEF GetSpotsRid, vendor
<1> QED BY <1>1, <1>3, <1>4, <1>5, <1>6, <1>7, <1>8, <1>9

(* A step inside a request that leaves the vendor's objects and gives no   *)
(* object an ID.                                                           *)
LEMMA StepNames ==
  ASSUME NamesInv, UNCHANGED <<hw, vidCounter, req>>, pc \notin {"down", "reinit"},
         pc' \notin {"down", "reinit"},
         \A v \in Traced : HasId(v)' =>
            HasId(v) /\ vidToRid'[v] = vidToRid[v] /\ asicState'[v].ref = asicState[v].ref,
         \A v \in Vid : asicState'[v] \in {asicState[v], NoEntry}
  PROVE  /\ ObjectsMade' /\ RefsCounted'
         /\ pc # "save" => IdsGiven'
         /\ Creating /\ Creating' /\ UNCHANGED rid /\ pc' \notin {"reply", "save"} => NewObject'
         /\ \A r, v, ref : MadeFor(r, v, ref) => MadeFor(r, v, ref)'
<1>1. ObjectsMade' /\ \A r, v, ref : MadeFor(r, v, ref) => MadeFor(r, v, ref)'
  BY SameObjects
<1>2. RefsCounted'
  BY OidsDistinct DEF NamesInv, RefsCounted, NoEntry
<1>3. pc # "save" => IdsGiven'
  BY OidsDistinct DEF NamesInv, IdsGiven
<1>4. ASSUME Creating, Creating', UNCHANGED rid, pc' \notin {"reply", "save"} PROVE NewObject'
  <2>1. NewObject
    BY <1>4 DEF NamesInv
  <2>2. MadeFor(rid, req.vid, req.attrs.ref) => MadeFor(rid, req.vid, req.attrs.ref)'
    BY <1>1, <1>4
  <2>3. req.vid \in ObjVid => \A v \in Vid : asicState'[v].ref # req.vid
    BY <2>1, OidsDistinct DEF NewObject, NoEntry
  <2>4. pc' \notin {"reply", "save"}
    BY <1>4
  <2> QED BY <1>4, <2>1, <2>2, <2>3, <2>4 DEF NewObject
<1> QED BY <1>1, <1>2, <1>3, <1>4

LEMMA EraseNames ==
  ASSUME Kept, NamesInv, EraseVid \/ EraseRid \/ Evict
  PROVE  NamesInv'
<1> USE DEF Kept, Good, Sound, State, TypeOK
<1>1. /\ pc \in {"erase1", "erase2", "evict"} /\ pc' \in {"erase2", "evict", "insert1", "reply"}
      /\ UNCHANGED <<hw, vidCounter, req, rid>> /\ vid \in Vid /\ Going = vid
  BY DEF EraseVid, EraseRid, Evict, job, JobOK, InMapChange, vendor, Going
<1>2. /\ \A v \in Traced : HasId(v)' =>
           HasId(v) /\ vidToRid'[v] = vidToRid[v] /\ asicState'[v].ref = asicState[v].ref
      /\ \A v \in Vid : asicState'[v] \in {asicState[v], NoEntry}
      /\ pc' = "reply" => req.op = "remove"
  <2>1. Traced \subseteq Vid
    BY OidTypes, OidsDistinct DEF Traced
  <2>2. CASE EraseVid
    <3>1. Going' = vid /\ vidToRid' = [vidToRid EXCEPT ![vid] = NullOid] /\ UNCHANGED asicState
          /\ pc' = "erase2"
      BY <2>2 DEF EraseVid, job, Going
    <3> QED BY <1>1, <2>1, <3>1 DEF HasId
  <2>3. CASE EraseRid
    <3>1. UNCHANGED <<vidToRid, asicState, vid>> /\ (pc' = "reply" => req.op = "remove" /\ vid = req.vid)
          /\ pc' \in {"evict", "reply"}
      BY <2>3 DEF EraseRid, job, JobOK
    <3>2. Going' = vid
      BY <1>1, <3>1 DEF Going
    <3> QED BY <1>1, <3>1, <3>2 DEF HasId
  <2>4. CASE Evict
    <3>1. /\ pc' = "insert1" /\ UNCHANGED vidToRid
          /\ asicState' = [asicState EXCEPT ![vid] = NoEntry]
      BY <2>4 DEF Evict
    <3>2. \A v \in Vid : asicState'[v] = IF v = vid THEN NoEntry ELSE asicState[v]
      BY <3>1
    <3> QED BY <1>1, <2>1, <3>1, <3>2 DEF HasId, NoEntry
  <2> QED BY <2>2, <2>3, <2>4
<1>3. ObjectsMade' /\ RefsCounted' /\ IdsGiven'
  BY <1>1, <1>2, StepNames
<1>4. Creating' => NewObject'
  <2>1. Creating' => Creating /\ pc' \notin {"reply", "save"}
    BY <1>1, <1>2 DEF Creating, InMapChange
  <2> QED BY <1>1, <1>2, <2>1, StepNames
<1> QED BY <1>1, <1>2, <1>3, <1>4 DEF NamesInv

LEMMA InsertNames ==
  ASSUME Kept, NamesInv, InsertVid \/ InsertRid
  PROVE  NamesInv'
<1> USE DEF Kept, Good, Sound, State, TypeOK
<1>1. /\ pc \in {"insert1", "insert2"} /\ pc' \in {"insert2", "reply"}
      /\ UNCHANGED <<hw, vidCounter, req, rid, vid, asicState>> /\ vid \in Vid /\ rid \in Rid
      /\ req.op \in {"create", "get"} /\ (req.op = "create" => vid = req.vid)
  BY DEF InsertVid, InsertRid, job, JobOK, InMapChange, vendor
<1>2. Going = NullOid /\ Going' = NullOid
  BY <1>1 DEF Going
<1>3. \A v \in Traced : HasId(v)' =>
        HasId(v) /\ vidToRid'[v] = vidToRid[v] /\ asicState'[v].ref = asicState[v].ref
  <2>1. CASE InsertVid
    <3>1. pc = "insert1" /\ vidToRid' = [vidToRid EXCEPT ![vid] = rid]
      BY <2>1 DEF InsertVid
    <3>2. asicState[vid] = NoEntry
      <4>1. CASE vid \in ObjVid
        BY <3>1, <4>1 DEF FreshInv, Unused
      <4>2. CASE vid = LinecardVid
        BY <3>1, <4>2 DEF SavedInv, LinecardSaved, InverseInv
      <4> QED BY <1>1, <4>1, <4>2, OidsDistinct
    <3> QED BY <1>1, <1>2, <3>1, <3>2, OidTypes, OidsDistinct DEF HasId, NoEntry, Traced
  <2>2. CASE InsertRid
    BY <1>1, <1>2, <2>2 DEF InsertRid, HasId
  <2> QED BY <2>1, <2>2
<1>4. /\ ObjectsMade' /\ RefsCounted' /\ IdsGiven'
      /\ Creating /\ Creating' /\ pc' # "reply" => NewObject'
      /\ \A r, v, ref : MadeFor(r, v, ref) => MadeFor(r, v, ref)'
  BY <1>1, <1>3, StepNames
<1>5. Creating' => NewObject'
  <2>1. Creating' => Creating
    BY <1>1 DEF Creating, InMapChange
  <2>2. CASE pc' = "reply" /\ Creating'
    <3>1. NewObject /\ req.op = "create" /\ InsertRid /\ pc = "insert2"
      BY <1>1, <2>1, <2>2 DEF NamesInv, Creating, InsertVid, InsertRid
    <3>2. vidToRid[req.vid] = rid /\ UNCHANGED vidToRid
      BY <1>1, <3>1 DEF CacheInv, InsertRid
    <3>3. asicState[req.vid] = NoEntry
      BY <3>1 DEF SavedInv
    <3> QED BY <1>1, <1>4, <2>2, <3>1, <3>2, <3>3 DEF NewObject, NoEntry
  <2> QED BY <1>4, <2>1, <2>2
<1> QED BY <1>1, <1>4, <1>5 DEF NamesInv

LEMMA ReplyNames ==
  ASSUME Kept, NamesInv, Reply \/ DeleteAsicObject
  PROVE  NamesInv'
<1> USE DEF Kept, Good, Sound, State, TypeOK
<1>1. CASE Reply
  <2>1. /\ pc = "reply" /\ UNCHANGED <<hw, vidCounter, vidToRid, asicState>>
        /\ pc' \in {"delete", "save", "serving"} /\ req.op \in {"create", "remove", "set", "get"}
        /\ pc' = "delete" <=> req.op = "remove"
        /\ pc' = "delete" => UNCHANGED req
        /\ pc' = "save" => UNCHANGED <<req, rid>> /\ left' = Fields(req.attrs)
    BY <1>1 DEF Reply, EndRequest, redis, vendor, job, Request
  <2>2. Going' = Going
    BY <2>1 DEF Going
  <2>3. \A v \in Traced : HasId(v)' =>
          HasId(v) /\ vidToRid'[v] = vidToRid[v] /\ asicState'[v].ref = asicState[v].ref
    BY <2>1, <2>2 DEF HasId
  <2>4. ObjectsMade' /\ \A r, v, ref : MadeFor(r, v, ref) => MadeFor(r, v, ref)'
    BY <2>1, <2>3, SameObjects
  <2>5. RefsCounted' /\ IdsGiven'
    BY <2>1 DEF NamesInv, RefsCounted, IdsGiven
  <2>6. Creating' => NewObject'
    <3> SUFFICES ASSUME Creating' PROVE NewObject'
      OBVIOUS
    <3>1. pc' = "save" /\ Creating /\ NewObject
      BY <2>1 DEF NamesInv, Creating, InMapChange
    <3>2. "id" \in Fields(req.attrs)
      BY <3>1 DEF NewObject, Fields
    <3> QED BY <2>1, <2>4, <3>1, <3>2 DEF NewObject
  <2> QED BY <2>1, <2>4, <2>5, <2>6 DEF NamesInv
<1>2. CASE DeleteAsicObject
  <2>1. /\ pc = "delete" /\ pc' = "serving" /\ UNCHANGED <<hw, vidCounter, vidToRid>>
        /\ asicState' = [asicState EXCEPT ![req.vid] = NoEntry] /\ req.op = "remove"
        /\ req.vid \in Vid /\ Going = req.vid
    BY <1>2 DEF DeleteAsicObject, EndRequest, vendor, JobOK, Request, Going
  <2>2. \A v \in Vid : asicState'[v] = IF v = req.vid THEN NoEntry ELSE asicState[v]
    BY <2>1
  <2>3. \A v \in Traced : HasId(v)' =>
          HasId(v) /\ vidToRid'[v] = vidToRid[v] /\ asicState'[v].ref = asicState[v].ref
    BY <2>1, <2>2, OidTypes, OidsDistinct DEF HasId, NoEntry, Traced
  <2>4. ObjectsMade'
    BY <2>1, <2>3, SameObjects
  <2>5. RefsCounted'
    BY <2>1, <2>2, OidsDistinct DEF NamesInv, RefsCounted, NoEntry
  <2>6. IdsGiven'
    BY <2>1, <2>2, OidsDistinct DEF NamesInv, IdsGiven
  <2> QED BY <2>1, <2>4, <2>5, <2>6 DEF NamesInv, Creating, InMapChange
<1> QED BY <1>1, <1>2

LEMMA SaveFieldNames ==
  ASSUME Kept, NamesInv, NEW f \in {"id", "cfg", "ref"}, SaveField(f)
  PROVE  NamesInv'
<1> USE DEF Kept, Good, Sound, State, TypeOK
<1>1. /\ pc = "save" /\ f \in left /\ UNCHANGED <<vidToRid, vidCounter, hw>>
      /\ asicState' = [asicState EXCEPT ![req.vid][f] = req.attrs[f]]
      /\ req.vid \in Vid /\ req.op \in {"create", "set"} /\ req.attrs \in Entry
      /\ asicState[req.vid] \in Entry
      /\ \/ pc' = "serving" /\ left = {f}
         \/ pc' = "save" /\ left' = left \ {f} /\ UNCHANGED <<req, rid>>
  BY DEF SaveField, JobOK, Request, EndRequest, vendor
<1>2. /\ \A v \in Vid : v # req.vid => asicState'[v] = asicState[v]
      /\ asicState'[req.vid] = [asicState[req.vid] EXCEPT ![f] = req.attrs[f]]
  BY <1>1
<1>3. /\ asicState'[req.vid].id = IF f = "id" THEN req.attrs.id ELSE asicState[req.vid].id
      /\ asicState'[req.vid].ref = IF f = "ref" THEN req.attrs.ref ELSE asicState[req.vid].ref
  BY <1>1, <1>2 DEF Entry
<1>4. Going = NullOid /\ Going' = NullOid
  BY <1>1 DEF Going
<1>5. CASE req.op = "set"
  <2>1. f = "cfg"
    <3>1. left \subseteq Fields(req.attrs) /\ req.attrs.id = Unset /\ req.attrs.ref = NullOid
      BY <1>1, <1>5 DEF Kept, OwnInv, OwnJob, SavedInv
    <3> QED BY <1>1, <3>1 DEF Fields
  <2>2. \A v \in Vid : asicState'[v].id = asicState[v].id /\ asicState'[v].ref = asicState[v].ref
    BY <1>2, <1>3, <2>1
  <2>3. \A v \in Traced : HasId(v)' =>
          HasId(v) /\ vidToRid'[v] = vidToRid[v] /\ asicState'[v].ref = asicState[v].ref
    BY <1>1, <1>4, <2>2, OidTypes, OidsDistinct DEF HasId, Traced
  <2>4. ObjectsMade'
    BY <1>1, <2>3, SameObjects
  <2>5. RefsCounted'
    BY <1>1, <2>2, OidsDistinct DEF NamesInv, RefsCounted
  <2>6. req.vid \in ObjVid => asicState'[req.vid].id # Unset
    BY <1>1, <1>5, <2>2 DEF NamesInv
  <2>7. IdsGiven'
    BY <1>1, <1>2, <1>5, <2>6, OidsDistinct DEF NamesInv, IdsGiven
  <2>8. ~Creating'
    BY <1>1, <1>5 DEF Creating, InMapChange
  <2> QED BY <1>1, <2>4, <2>5, <2>6, <2>7, <2>8 DEF NamesInv
<1>6. CASE req.op = "create"
  <2>1. NewObject /\ vidToRid[req.vid] = rid
    BY <1>1, <1>6 DEF NamesInv, Creating, NewObject
  <2>2. \A v \in Traced : v # req.vid /\ HasId(v)' => HasId(v)
    BY <1>2, <1>4, OidTypes, OidsDistinct DEF HasId, Traced
  <2>3. asicState'[req.vid].ref \in {NullOid, req.attrs.ref}
    BY <1>1, <1>3, <2>1 DEF NewObject
  <2>4. asicState'[req.vid].id = Unset => "id" \in left /\ f # "id"
    BY <1>1, <1>3, <2>1 DEF NewObject
  <2>5. req.vid \in Traced =>
          /\ hw[rid].live /\ hw[rid].owner = req.vid
          /\ req.attrs.ref \in Keyed /\ asicState'[req.attrs.ref].id # Unset =>
               hw[rid].ref = vidToRid[req.attrs.ref]
    <3>1. req.attrs.ref \in Keyed => req.attrs.ref # req.vid /\ req.attrs.ref \in Vid
                                     /\ req.attrs.ref # NullOid
      BY <1>1, <2>1, OidTypes, OidsDistinct DEF NewObject
    <3> QED BY <1>2, <1>4, <2>1, <3>1 DEF NewObject, MadeFor, HasId
  <2>6. ASSUME NEW v \in Traced, HasId(v)' PROVE MadeFor(vidToRid[v], v, asicState[v].ref)'
    <3>1. CASE v = req.vid
      <4>1. asicState'[v].ref \in Keyed => asicState'[v].ref = req.attrs.ref
        BY <2>3, <3>1, OidTypes, OidsDistinct
      <4> QED BY <1>1, <2>1, <2>5, <2>6, <3>1, <4>1 DEF MadeFor, HasId
    <3>2. CASE v # req.vid
      <4>1. v \in Vid /\ HasId(v) /\ asicState'[v] = asicState[v]
        BY <1>2, <2>2, <2>6, <3>2, OidTypes, OidsDistinct DEF Traced
      <4>2. MadeFor(vidToRid[v], v, asicState[v].ref)
        BY <1>1, <4>1 DEF NamesInv, ObjectsMade
      <4>3. asicState[v].ref \in Keyed => asicState[v].ref # req.vid
        BY <1>1, <2>1, <4>1, OidTypes DEF NewObject
      <4>4. asicState[v].ref \in Keyed /\ HasId(asicState[v].ref)' => HasId(asicState[v].ref)
        BY <1>4, <2>2, <4>1, <4>3 DEF Traced, HasId
      <4> QED BY <1>1, <4>1, <4>2, <4>4 DEF MadeFor, HasId
    <3> QED BY <3>1, <3>2
  <2>7. Creating' => NewObject'
    <3> SUFFICES ASSUME pc' = "save" PROVE NewObject'
      BY <1>1 DEF Creating, InMapChange
    <3>1. req' = req /\ rid' = rid /\ left' = left \ {f} /\ vidToRid' = vidToRid
          /\ vidCounter' = vidCounter
      BY <1>1
    <3>2. req.vid \in Traced => MadeFor(rid, req.vid, req.attrs.ref)'
      BY <1>1, <2>5, <3>1 DEF MadeFor, HasId
    <3>3. req.vid \in ObjVid => \A v \in Vid : asicState'[v].ref # req.vid
      <4> SUFFICES ASSUME req.vid \in ObjVid, NEW v \in Vid PROVE asicState'[v].ref # req.vid
        OBVIOUS
      <4>1. req.attrs.ref # req.vid /\ asicState[v].ref # req.vid /\ req.vid # NullOid
        BY <2>1, OidsDistinct DEF NewObject
      <4>2. CASE v = req.vid
        BY <2>3, <4>1, <4>2
      <4>3. CASE v # req.vid
        BY <1>2, <4>1, <4>3
      <4> QED BY <4>2, <4>3
    <3>4. /\ req.attrs.id # Unset /\ (req.vid = LinecardVid => req.attrs.ref = NullOid)
          /\ req.vid \in ObjVid => req.attrs.ref # req.vid
          /\ req.attrs.ref \in ObjVid => req.attrs.ref[2] <= vidCounter
      BY <2>1 DEF NewObject
    <3>5. asicState'[req.vid].id = Unset => "id" \in left'
      BY <2>4, <3>1
    <3>6. vidToRid'[req.vid] = rid
      BY <2>1, <3>1
    <3> HIDE DEF Kept, Good, Sound, State, TypeOK
    <3> QED BY <2>3, <3>1, <3>2, <3>3, <3>4, <3>5, <3>6 DEF NewObject
  <2>8. IdsGiven'
    <3>1. ASSUME NEW v \in ObjVid, asicState'[v] # NoEntry, asicState'[v].id = Unset
          PROVE  v = req.vid
      BY <1>2, <3>1, OidsDistinct DEF NamesInv, IdsGiven
    <3>2. pc' = "serving" => asicState'[req.vid].id # Unset
      BY <1>1, <2>4
    <3> QED BY <1>1, <1>6, <3>1, <3>2 DEF IdsGiven
  <2>9. RefsCounted'
    <3>1. \A v \in Vid : asicState'[v].ref \in ObjVid => asicState'[v].ref[2] <= vidCounter
      BY <1>1, <1>2, <2>1, <2>3, OidsDistinct DEF NamesInv, RefsCounted, NewObject
    <3>2. asicState'[LinecardVid].ref = NullOid
      BY <1>2, <2>1, <2>3, OidsDistinct DEF NamesInv, RefsCounted, NewObject
    <3> QED BY <1>1, <3>1, <3>2 DEF RefsCounted
  <2> QED BY <1>1, <1>6, <2>6, <2>7, <2>8, <2>9 DEF NamesInv, ObjectsMade
<1> QED BY <1>1, <1>5, <1>6

LEMMA ContinueRequestNames ==
  ASSUME Kept, NamesInv, ContinueRequest
  PROVE  NamesInv'
<1>1. ~RemoveLinecardThrows
  BY DEF RemoveLinecardThrows, Kept, SavedInv
<1> QED BY <1>1, EraseNames, InsertNames, ReplyNames, SaveFieldNames DEF ContinueRequest

(* What a restart needs to know of an entry. *)
LEMMA EntryHasRid ==
  ASSUME Kept, NamesInv, pc = "reinit",
         NEW v \in Traced, asicState[v] # NoEntry, vidToRid[v] # NullOid
  PROVE  /\ vidToRid[v] \in Rid /\ ridToVid[vidToRid[v]] = v
         /\ v \in Keyed => vidToRid[v] = VendorRid(v, asicState[v])
         /\ v = LinecardVid => vidToRid[v] = LinecardRid
<1> USE DEF Kept, Good, Sound, State, TypeOK
<1>1. v \in Vid
  BY OidTypes, OidsDistinct DEF Traced
<1>2. vidToRid[v] \in Rid /\ ridToVid[vidToRid[v]] = v
  BY <1>1 DEF InverseInv, Forth
<1>3. ASSUME v \in Keyed PROVE vidToRid[v] = VendorRid(v, asicState[v])
  <2>1. asicState[v].id # Unset
    BY <1>3, OidTypes DEF NamesInv, IdsGiven
  <2>2. vidToRid[v] = <<v[1], asicState[v].id>>
    BY <1>3, <2>1 DEF OwnInv, IdGivesRid
  <2>3. v # LinecardVid
    BY <1>3, OidTypes, OidsDistinct
  <2> QED BY <1>3, <2>1, <2>2, <2>3 DEF VendorRid, Keyed
<1>4. v = LinecardVid => vidToRid[v] = LinecardRid
  BY DEF Sorted
<1> QED BY <1>2, <1>3, <1>4

LEMMA ReinitObjectNames ==
  ASSUME Kept, NamesInv, NEW v \in ObjVid, ReinitObject(v)
  PROVE  \A w \in Traced : RestoredOK(w)'
<1> USE DEF Kept, Good, Sound, State, TypeOK
<1> DEFINE newRid == VendorRid(v, asicState[v])
<1>1. /\ pc = "reinit" /\ UNCHANGED <<vidToRid, ridToVid, asicState>> /\ newRid \in Rid
      /\ asicState[v] # NoEntry /\ translated[v] = NullOid /\ vidToRid[v] # NullOid
      /\ hw' = [hw EXCEPT ![newRid] =
                  [live |-> TRUE, cfg |-> Unset, ref |-> RestoredRef(v), owner |-> v]]
      /\ translated' = [translated EXCEPT ![v] = newRid]
      /\ asicState[v].ref # NullOid => RestoredRef(v) # NullOid
  BY DEF ReinitObject, Pending, Unrestorable, VendorCreate, redis
<1>2. v \in Vid /\ v # LinecardVid /\ asicState[v] \in Entry
  BY OidsDistinct
<1>3. newRid \in ObjRid /\ (v \notin Keyed => newRid[1] \notin KeyedType)
  <2>1. newRid \in ObjRid
    BY <1>1, <1>2, VendorRidSorted
  <2>2. v \notin Keyed => newRid[1] = v[1]
    BY <1>2 DEF VendorRid, Keyed
  <2> QED BY <2>1, <2>2 DEF Keyed
<1>4. /\ translated'[v] = newRid /\ \A w \in Vid : w # v => translated'[w] = translated[w]
      /\ hw'[newRid].live /\ hw'[newRid].owner = v /\ hw'[newRid].ref = RestoredRef(v)
      /\ \A q \in Rid : q # newRid => hw'[q] = hw[q]
  BY <1>1, <1>2
<1> HIDE DEF newRid
<1>5. ASSUME NEW w \in Keyed, translated[w] # NullOid
      PROVE  w # v /\ w \in Vid /\ translated[w] = vidToRid[w]
  BY <1>1, <1>5, OidTypes, OidsDistinct DEF NamesInv, RestoredOK, Traced
<1>6. CASE v \in Keyed
  <2>1. newRid = vidToRid[v] /\ ridToVid[newRid] = v
    BY <1>1, <1>6, EntryHasRid DEF Traced, newRid
  <2>2. ASSUME asicState[v].ref \in Keyed
        PROVE  /\ translated'[asicState[v].ref] # NullOid
               /\ hw'[newRid].ref = vidToRid[asicState[v].ref]
    <3>1. asicState[v].ref # NullOid
      BY <2>2, OidTypes, OidsDistinct
    <3>2. RestoredRef(v) = translated[asicState[v].ref] /\ translated[asicState[v].ref] # NullOid
      BY <1>1, <3>1 DEF RestoredRef
    <3> QED BY <1>4, <1>5, <2>2, <3>2
  <2>3. RestoredOK(v)'
    BY <1>1, <1>4, <2>1, <2>2 DEF RestoredOK
  <2>4. ASSUME NEW w \in Traced, w # v PROVE RestoredOK(w)'
    <3> SUFFICES ASSUME translated[w] # NullOid PROVE RestoredOK(w)'
      BY <1>4, <2>4, OidTypes, OidsDistinct DEF RestoredOK, Traced
    <3>1. RestoredOK(w) /\ translated'[w] = translated[w] /\ w \in Vid
      BY <1>1, <1>4, <2>4, OidTypes, OidsDistinct DEF NamesInv, Traced
    <3>2. vidToRid[w] \in Rid
      BY <3>1, OidsDistinct DEF RestoredOK
    <3>3. ridToVid[vidToRid[w]] = w
      BY <3>1, <3>2, <1>1, OidsDistinct DEF InverseInv, Forth
    <3>4. hw'[vidToRid[w]] = hw[vidToRid[w]]
      BY <1>4, <2>1, <2>4, <3>2, <3>3
    <3>5. asicState[w].ref \in Keyed => translated'[asicState[w].ref] # NullOid
      BY <1>4, <1>5, <3>1, OidTypes, OidsDistinct DEF RestoredOK
    <3> QED BY <1>1, <3>1, <3>4, <3>5 DEF RestoredOK
  <2> QED BY <2>3, <2>4
<1>7. CASE v \notin Keyed
  <2>1. ASSUME NEW w \in Traced PROVE RestoredOK(w)'
    <3>0. w # v /\ w \in Vid
      BY <1>2, <1>7, OidTypes, OidsDistinct DEF Traced
    <3> SUFFICES ASSUME translated[w] # NullOid PROVE RestoredOK(w)'
      BY <1>4, <3>0 DEF RestoredOK
    <3>1. RestoredOK(w) /\ translated'[w] = translated[w]
      BY <1>1, <1>4, <3>0 DEF NamesInv
    <3>2. vidToRid[w] \in Rid
      BY <3>0, <3>1, OidsDistinct DEF RestoredOK
    <3>3. vidToRid[w] # newRid
      <4>1. CASE w = LinecardVid
        BY <1>3, <3>2, <4>1, OidsDistinct DEF Sorted
      <4>2. CASE w \in Keyed
        <5>1. asicState[w] # NoEntry /\ vidToRid[w] # NullOid
          BY <1>1, <4>2, OidTypes DEF Kept, Good, Sound, MappedInv
        <5>2. asicState[w].id # Unset
          BY <1>1, <4>2, <5>1, OidTypes DEF NamesInv, IdsGiven
        <5>3. vidToRid[w] = <<w[1], asicState[w].id>>
          BY <4>2, <5>1, <5>2 DEF OwnInv, IdGivesRid
        <5>4. vidToRid[w][1] \in KeyedType
          BY <4>2, <5>3 DEF Keyed
        <5> QED BY <1>3, <1>7, <5>4
      <4> QED BY <4>1, <4>2 DEF Traced
    <3>4. hw'[vidToRid[w]] = hw[vidToRid[w]]
      BY <1>4, <3>2, <3>3
    <3>5. asicState[w].ref \in Keyed => translated'[asicState[w].ref] # NullOid
      BY <1>4, <1>5, <3>1, OidTypes, OidsDistinct DEF RestoredOK
    <3> QED BY <1>1, <3>1, <3>4, <3>5 DEF RestoredOK
  <2> QED BY <2>1
<1> QED BY <1>6, <1>7

LEMMA ReinitNames ==
  ASSUME Kept, NamesInv, Reinit
  PROVE  NamesInv'
<1> USE DEF Kept, Good, Sound, State, TypeOK
<1>1. CASE ReinitThrows \/ CheckAllIdsThrows
  <2>1. vidCounter \in Nat
    BY BoundAssumption
  <2> QED BY <1>1, <2>1, ProcessEndsNames DEF ReinitThrows, CheckAllIdsThrows, redis
<1>2. CASE ~(ReinitThrows \/ CheckAllIdsThrows)
  <2>1. /\ pc \in {"down", "reinit"} /\ pc' \in {"reinit", "serving"} /\ UNCHANGED redis
    BY <1>2 DEF Reinit, StartReinit, ReinitLinecard, ReinitObject, FinishReinit
  <2>2. IdsGiven' /\ RefsCounted' /\ ~Creating'
    BY <2>1 DEF NamesInv, IdsGiven, RefsCounted, Creating, InMapChange, redis
  <2>3. CASE StartReinit
    <3>1. pc' = "reinit" /\ translated' = NoMap
      BY <2>3 DEF StartReinit, MappedInv
    <3>2. \A v \in Traced : RestoredOK(v)'
      BY <3>1, OidTypes, OidsDistinct DEF RestoredOK, Traced, NoMap
    <3> QED BY <2>2, <3>1, <3>2 DEF NamesInv, ObjectsMade
  <2>4. CASE ReinitLinecard
    <3>1. /\ pc = "reinit" /\ pc' = "reinit" /\ asicState[LinecardVid] # NoEntry
          /\ hw' = [hw EXCEPT ![LinecardRid] = [live |-> TRUE, cfg |-> asicState[LinecardVid].cfg,
                                                ref |-> NullOid, owner |-> LinecardVid]]
          /\ translated' = [translated EXCEPT ![LinecardVid] = LinecardRid]
      BY <2>4 DEF ReinitLinecard, Pending, VendorCreate, VendorRid
    <3>2. vidToRid[LinecardVid] = LinecardRid /\ asicState[LinecardVid].ref = NullOid
      BY <3>1 DEF SavedInv, LinecardSaved, Sorted, NamesInv, RefsCounted
    <3>3. ASSUME NEW v \in Traced PROVE RestoredOK(v)'
      <4>1. CASE v = LinecardVid
        BY <2>1, <3>1, <3>2, <4>1, OidTypes, OidsDistinct DEF RestoredOK, redis
      <4>2. CASE v \in Keyed
        <5>1. v \in ObjVid /\ v # LinecardVid /\ v \in Vid
          BY <4>2, OidTypes, OidsDistinct
        <5>2. RestoredOK(v) /\ translated'[v] = translated[v]
          BY <3>1, <5>1 DEF NamesInv
        <5>3. ASSUME translated[v] # NullOid PROVE hw'[vidToRid[v]] = hw[vidToRid[v]]
          <6>1. vidToRid[v] \in Rid /\ vidToRid[v] # LinecardRid
            BY <5>1, <5>2, <5>3, OidsDistinct DEF RestoredOK, Sorted
          <6> QED BY <3>1, <6>1
        <5>4. asicState[v].ref \in Keyed =>
                translated'[asicState[v].ref] = translated[asicState[v].ref]
          BY <3>1, OidTypes, OidsDistinct
        <5> QED BY <2>1, <5>2, <5>3, <5>4 DEF RestoredOK, redis
      <4> QED BY <4>1, <4>2 DEF Traced
    <3> QED BY <2>2, <3>1, <3>3 DEF NamesInv, ObjectsMade
  <2>5. CASE \E v \in ObjVid : ReinitObject(v)
    <3>1. \A v \in Traced : RestoredOK(v)'
      BY <2>5, ReinitObjectNames
    <3>2. pc' = "reinit"
      BY <2>5 DEF ReinitObject
    <3> QED BY <2>2, <3>1, <3>2 DEF NamesInv, ObjectsMade
  <2>6. CASE FinishReinit
    <3>1. /\ pc = "reinit" /\ pc' = "serving" /\ UNCHANGED hw
          /\ \A v \in Vid : asicState[v] # NoEntry => translated[v] # NullOid
      BY <2>6 DEF FinishReinit, Pending, vendor
    <3>2. ASSUME NEW v \in Traced, HasId(v)' PROVE MadeFor(vidToRid[v], v, asicState[v].ref)'
      <4>1. asicState[v] # NoEntry /\ v \in Vid
        BY <2>1, <3>2, OidTypes, OidsDistinct DEF HasId, NoEntry, Traced, redis
      <4>2. RestoredOK(v) /\ translated[v] # NullOid
        BY <3>1, <4>1 DEF NamesInv
      <4> QED BY <2>1, <3>1, <4>2 DEF RestoredOK, MadeFor, redis
    <3> QED BY <2>2, <3>1, <3>2 DEF NamesInv, ObjectsMade
  <2> QED BY <1>2, <2>3, <2>4, <2>5, <2>6 DEF Reinit
<1> QED BY <1>1, <1>2

(* Without a death inside a request, and unless the linecard is removed or *)
(* the client sets attributes of objects it did not create: whenever a     *)
(* request may come, the RID of an object with an ID is the vendor object  *)
(* made for that VID, its reference is the object its entry names, and the *)
(* same holds for the linecard; whatever was evicted, restarted, refused.  *)
THEOREM MapNamesTheObjectAlways ==
  ASSUME StackGarbage \cap Rid = {}, "crashAnywhere" \notin Env, "removeLinecard" \notin Env,
         "adopts" \notin Env
  PROVE  Spec => []MapNamesTheObject
<1>1. Init => Kept /\ NamesInv
  <2>1. Init => NamesInv
    BY OidsDistinct
       DEF Init, NamesInv, ObjectsMade, Creating, InMapChange, IdsGiven, RefsCounted, NoEntry
  <2> QED BY <2>1, InitKept
<1>2. Kept /\ NamesInv /\ [Next]_vars => NamesInv'
  <2> SUFFICES ASSUME Kept, NamesInv, [Next]_vars PROVE NamesInv'
    OBVIOUS
  <2>1. CASE HandleRequest
    BY <2>1, RequestNames
  <2>2. CASE ContinueRequest
    BY <2>2, ContinueRequestNames
  <2>3. CASE Reinit
    BY <2>3, ReinitNames
  <2>4. CASE RestartQuery
    <3>1. vidCounter \in Nat
      BY BoundAssumption DEF Kept, Good, Sound, State, TypeOK
    <3> QED BY <2>4, <3>1, ProcessEndsNames DEF RestartQuery, redis
  <2>5. CASE Crash
    BY <2>5 DEF Crash
  <2>6. CASE UNCHANGED vars
    BY <2>6 DEF NamesInv, ObjectsMade, Creating, InMapChange, NewObject, IdsGiven, RefsCounted,
       RestoredOK, MadeFor, HasId, Going, vars, redis, job, vendor
  <2> QED BY <2>1, <2>2, <2>3, <2>4, <2>5, <2>6 DEF Next
<1>3. Kept /\ NamesInv /\ [Next]_vars => Kept' /\ NamesInv'
  BY <1>2, NextKept
<1>4. NamesInv => MapNamesTheObject
  <2> SUFFICES ASSUME NamesInv, pc = "serving", NEW v \in Traced, asicState[v].id # Unset
               PROVE  MadeFor(vidToRid[v], v, asicState[v].ref)
                      /\ \A w \in Traced : asicState[w].id # Unset => HasId(w)
    BY DEF MapNamesTheObject, MadeFor, Traced
  <2>1. Going = NullOid /\ \A w \in Traced : w # NullOid
    BY OidTypes, OidsDistinct DEF Going, Traced
  <2> QED BY <2>1 DEF NamesInv, ObjectsMade, HasId
<1> QED BY <1>1, <1>3, <1>4, PTL DEF Spec
=============================================================================
