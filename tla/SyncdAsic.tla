----------------------------- MODULE SyncdAsic -----------------------------
(***************************************************************************)
(* The object life cycle inside syncd: how one create, remove, set or get  *)
(* request of the ASIC channel changes the vendor library, the VID/RID     *)
(* maps and ASIC_STATE in redis, and how a restarted syncd rebuilds the    *)
(* vendor objects from redis (HardReiniter, SingleReiniter).               *)
(*                                                                         *)
(* Every redis command and the reply to the client is a step of its own,   *)
(* because the process may die between any two of them; the other threads  *)
(* are excluded by Syncd::m_mutex while a request is handled.              *)
(***************************************************************************)
EXTENDS Naturals, FiniteSets

CONSTANTS
  KeyedType,     \* object types whose RID index is their ID attribute (OCM, OTDR)
  IndexedType,   \* object types whose RID index is counted per vendor process
  Id,            \* values of the ID attribute
  Cfg,           \* values of the settable recoverable attributes
  Unset,         \* "attribute not given"
  HiddenRid,     \* RIDs of objects the vendor made itself; a GET may return them
  StackGarbage,  \* what the uninitialised objectVidOld may hold
  Env,           \* which of EnvBehaviour the run allows
  MaxVid,        \* bound: redis VIDCOUNTER
  MaxRidIndex    \* bound: index of a RID

ObjType == KeyedType \cup IndexedType

EnvBehaviour == {"crashAnywhere", "vendorFails", "removeLinecard", "refs", "adopts"}

RidIndex == 0 .. MaxRidIndex

(* An OID is its type tag and its index.  The linecard has one VID and one *)
(* RID for ever.                                                           *)
NullOid     == <<"NULL", 0>>
LinecardVid == <<"LINECARD", 0>>
LinecardRid == <<"LINECARD", 1>>
ObjVid      == ObjType \X (1 .. MaxVid)
ObjRid      == ObjType \X RidIndex
Vid         == ObjVid \cup {LinecardVid}
Rid         == ObjRid \cup {LinecardRid}

ASSUME TypeAssumption ==
  /\ {"NULL", "LINECARD"} \cap ObjType = {}
  /\ KeyedType \cap IndexedType = {}

ASSUME BoundAssumption ==
  /\ MaxVid \in Nat
  /\ MaxRidIndex \in Nat
  /\ 0 \in Id /\ Id \subseteq RidIndex

ASSUME ValueAssumption ==
  /\ Unset \notin Id \cup Cfg
  /\ HiddenRid \subseteq ObjRid
  /\ StackGarbage # {}
  /\ Env \subseteq EnvBehaviour

(* One ASIC_STATE hash: a redis hash without fields does not exist.  id    *)
(* stands for the mandatory and create-only attributes, cfg for the        *)
(* settable ones, ref for a create-only attribute that names an object.    *)
Entry == [id : Id \cup {Unset}, cfg : Cfg \cup {Unset}, ref : ObjVid \cup {NullOid}]
NoEntry == [id |-> Unset, cfg |-> Unset, ref |-> NullOid]

(* Mutant of Fields: createAsicObject and setAsicObject save the           *)
(* create-only attributes only.                                            *)
FieldsForCreate(e) == (IF e.id # Unset THEN {"id"} ELSE {})
                      \cup (IF e.ref # NullOid THEN {"ref"} ELSE {})

(* The fields an entry really has. *)
Fields(e) == {f \in {"id", "cfg"} : e[f] # Unset}
             \cup (IF e.ref # NullOid THEN {"ref"} ELSE {})

Request == [op : {"create", "remove", "set", "get"}, vid : Vid, attrs : Entry]
NoRequest == [op |-> "get", vid |-> LinecardVid, attrs |-> NoEntry]

(* A vendor object; owner is the VID it was created for and is no part of  *)
(* the program: only properties read it.                                   *)
HwObject == [live : BOOLEAN, cfg : Cfg \cup {Unset},
             ref : Rid \cup {NullOid}, owner : Vid \cup {NullOid}]
NoObject == [live |-> FALSE, cfg |-> Unset, ref |-> NullOid, owner |-> NullOid]

PC == {"down", "reinit", "serving", "erase1", "erase2", "evict",
       "insert1", "insert2", "reply", "save", "delete"}

VARIABLES
  \* redis, shared and persistent
  vidCounter,   \* VIDCOUNTER
  vidToRid,     \* VIDTORID, NullOid where the hash has no field
  ridToVid,     \* RIDTOVID, NullOid where the hash has no field
  asicState,    \* ASIC_STATE:*
  \* the syncd process
  pc,           \* where its main thread is
  vid2rid,      \* VirtualOidTranslator::m_vid2rid
  rid2vid,      \* VirtualOidTranslator::m_rid2vid
  linecard,     \* Syncd::m_linecard: its RID, or NullOid for nullptr
  translated,   \* SingleReiniter::m_translatedV2R
  req,          \* the request being handled
  rid,          \* the RID argument of the translator call in progress
  vid,          \* its VID argument
  left,         \* fields createAsicObject or setAsicObject has still to write
  \* the vendor library, part of the process
  hw,           \* its objects
  indexer,      \* RealObjectIdManager::m_indexer
  \* what the replies told the client; only properties read it
  told,         \* the attributes SUCCESS was answered for
  superseded    \* VIDs of which told forgets: a later create was answered
                \* SUCCESS whose object has the ID of theirs

redis   == <<vidCounter, vidToRid, ridToVid, asicState>>
caches  == <<vid2rid, rid2vid>>
job     == <<req, rid, vid, left>>
vendor  == <<hw, indexer>>
answers == <<told, superseded>>
vars    == <<redis, pc, caches, linecard, translated, job, vendor, answers>>

TypeOK ==
  /\ vidCounter \in 0 .. MaxVid
  /\ vidToRid \in [Vid -> Rid \cup {NullOid}]
  /\ ridToVid \in [Rid -> Vid \cup {NullOid}]
  /\ asicState \in [Vid -> Entry]
  /\ pc \in PC
  /\ vid2rid \in [Vid -> Rid \cup {NullOid}]
  /\ rid2vid \in [Rid -> Vid \cup {NullOid}]
  /\ linecard \in {NullOid, LinecardRid}
  /\ translated \in [Vid -> Rid \cup {NullOid}]
  /\ req \in Request
  /\ rid \in Rid \cup {NullOid}
  /\ vid \in Vid \cup {NullOid}
  /\ left \subseteq {"id", "cfg", "ref"}
  /\ hw \in [Rid -> HwObject]
  /\ indexer \in [ObjType -> 0 .. MaxRidIndex + 1]
  /\ told \in [Vid -> Entry]
  /\ superseded \subseteq Vid

-----------------------------------------------------------------------------
(* The first start on an empty redis, and the end of the process.          *)

NoMap == [v \in Vid |-> NullOid]
NoInverse == [r \in Rid |-> NullOid]

Init ==
  /\ vidCounter = 0
  /\ vidToRid = NoMap
  /\ ridToVid = NoInverse
  /\ asicState = [v \in Vid |-> NoEntry]
  /\ pc = "down"
  /\ vid2rid = NoMap /\ rid2vid = NoInverse
  /\ linecard = NullOid
  /\ translated = NoMap
  /\ req = NoRequest /\ rid = NullOid /\ vid = NullOid /\ left = {}
  /\ hw = [r \in Rid |-> NoObject]
  /\ indexer = [t \in ObjType |-> 0]
  /\ told = [v \in Vid |-> NoEntry]
  /\ superseded = {}

(* exit(EXIT_FAILURE), a crash, or a shutdown followed by process exit:    *)
(* only redis is left.                                                     *)
ProcessEnds ==
  /\ pc' = "down"
  /\ vid2rid' = NoMap /\ rid2vid' = NoInverse
  /\ linecard' = NullOid
  /\ translated' = NoMap
  /\ req' = NoRequest /\ rid' = NullOid /\ vid' = NullOid /\ left' = {}
  /\ hw' = [r \in Rid |-> NoObject]
  /\ indexer' = [t \in ObjType |-> 0]
  /\ UNCHANGED answers

-----------------------------------------------------------------------------
(* VirtualOidTranslator: the lookups. *)

(* translateVidToRid: m_vid2rid, else redis; NullOid where it throws. *)
LookupRid(v) == IF vid2rid[v] # NullOid THEN vid2rid[v] ELSE vidToRid[v]

(* The cache after a successful translateVidToRid of every member of vs. *)
CachedRids(vs) == [v \in Vid |-> IF v \in vs THEN LookupRid(v) ELSE vid2rid[v]]

(* The VIDs whose translation a request needs: the object's own except on  *)
(* create, where it is the linecard's (except for the linecard itself),    *)
(* and the VIDs in the attributes.                                         *)
NeededVids(r) ==
  (CASE r.op # "create" -> {r.vid}
     [] r.op = "create" /\ r.vid = LinecardVid -> {}
     [] OTHER -> {LinecardVid})
  \cup (IF r.op = "create" /\ r.attrs.ref # NullOid THEN {r.attrs.ref} ELSE {})

Translatable(r) == \A v \in NeededVids(r) : LookupRid(v) # NullOid

(* Mutant of TryRidToVid: processOidCreate does not look for an older VID. *)
TryRidToVidNever(r, g) == NullOid

(* tryTranslateRidToVid(r, vid) where the out-parameter still holds        *)
(* garbage g: the cache is searched for vid, not for r; NullOid means the  *)
(* function returned false.                                                *)
TryRidToVid(r, g) ==
  IF g \in Rid /\ rid2vid[g] # NullOid THEN rid2vid[g] ELSE ridToVid[r]

(* translateRidToVid: m_rid2vid, else redis; NullOid for a new RID. *)
LookupVid(r) == IF rid2vid[r] # NullOid THEN rid2vid[r] ELSE ridToVid[r]

-----------------------------------------------------------------------------
(* The vendor library.                                                     *)

(* Mutant of VendorRid: the index of a keyed type ignores the ID attribute. *)
VendorRidIgnoresId(v, e) ==
  IF v = LinecardVid THEN LinecardRid
  ELSE <<v[1], IF v[1] \in KeyedType THEN 0 ELSE indexer[v[1]]>>

(* RealObjectIdManager: the RID a create of v with these attributes gets. *)
VendorRid(v, e) ==
  IF v = LinecardVid THEN LinecardRid
  ELSE IF v[1] \in KeyedType THEN <<v[1], IF e.id = Unset THEN 0 ELSE e.id>>
  ELSE <<v[1], indexer[v[1]]>>

VendorCreate(v, e, cfg, refRid) ==
  /\ VendorRid(v, e) \in Rid                  \* bound: MaxRidIndex
  /\ hw' = [hw EXCEPT ![VendorRid(v, e)] =
              [live |-> TRUE, cfg |-> cfg, ref |-> refRid, owner |-> v]]
  /\ indexer' = IF v[1] \in IndexedType
                THEN [indexer EXCEPT ![v[1]] = @ + 1] ELSE indexer

-----------------------------------------------------------------------------
(* Restart: waitLinecardStateActive, then onSyncdStart.                    *)

StartReinit ==
  /\ pc = "down"
  /\ pc' = "reinit"
  /\ UNCHANGED <<redis, caches, linecard, translated, job, vendor, answers>>

Pending(v) == asicState[v] # NoEntry /\ translated[v] = NullOid

(* processLinecards: all attributes of the linecard are set again. *)
ReinitLinecard ==
  /\ pc = "reinit"
  /\ Pending(LinecardVid)
  /\ VendorCreate(LinecardVid, asicState[LinecardVid], asicState[LinecardVid].cfg, NullOid)
  /\ translated' = [translated EXCEPT ![LinecardVid] = LinecardRid]
  /\ UNCHANGED <<redis, pc, caches, linecard, job, answers>>

(* What makes processSingleVid throw for v: an object that its attributes  *)
(* name is not in ASIC_STATE, v is not in VIDTORID, or the vendor refuses  *)
(* to create under a null linecard RID.                                    *)
Unrestorable(v) ==
  \/ asicState[v].ref # NullOid /\ asicState[asicState[v].ref] = NoEntry
  \/ vidToRid[v] = NullOid
  \/ translated[LinecardVid] = NullOid

(* The new RID of the object that the attributes of v name. *)
RestoredRef(v) == IF asicState[v].ref = NullOid THEN NullOid ELSE translated[asicState[v].ref]

(* processSingleVid: the objects its attributes name come first, then the  *)
(* object is created with its mandatory and create-only attributes; the    *)
(* attributes left over are not set.                                       *)
ReinitObject(v) ==
  /\ pc = "reinit"
  /\ ~Pending(LinecardVid)
  /\ Pending(v)
  /\ ~Unrestorable(v)
  /\ asicState[v].ref # NullOid => RestoredRef(v) # NullOid
  /\ VendorCreate(v, asicState[v], Unset, RestoredRef(v))
  /\ translated' = [translated EXCEPT ![v] = VendorRid(v, asicState[v])]
  /\ UNCHANGED <<redis, pc, caches, linecard, job, answers>>

ReinitThrows ==
  /\ pc = "reinit"
  /\ \/ /\ ~Pending(LinecardVid)
        /\ \E v \in ObjVid : Pending(v) /\ Unrestorable(v)
     \/ "vendorFails" \in Env /\ \E v \in Vid : Pending(v)
  /\ ProcessEnds
  /\ UNCHANGED redis

(* Mutant of AllIdsTranslated: checkAllIds is not called. *)
AllIdsUnchecked == TRUE

(* checkAllIds: every VID of VIDTORID was created again.  (The linecard    *)
(* entry that stopPreConfigLinecards adds to the local copy of the map is  *)
(* the reason it does not complain when VIDTORID lacks the linecard.)      *)
AllIdsTranslated == \A v \in Vid : vidToRid[v] # NullOid => translated[v] # NullOid

(* stopPreConfigLinecards, checkAllIds, and the main loop starts. *)
FinishReinit ==
  /\ pc = "reinit"
  /\ \A v \in Vid : ~Pending(v)
  /\ AllIdsTranslated
  /\ pc' = "serving"
  /\ linecard' = translated[LinecardVid]
  /\ translated' = NoMap
  /\ UNCHANGED <<redis, caches, job, vendor, answers>>

CheckAllIdsThrows ==
  /\ pc = "reinit"
  /\ \A v \in Vid : ~Pending(v)
  /\ ~AllIdsTranslated \/ "vendorFails" \in Env
  /\ ProcessEnds
  /\ UNCHANGED redis

-----------------------------------------------------------------------------
(* One request of the ASIC channel: processQuadEvent under m_mutex.        *)

Allocated == {LinecardVid} \cup {v \in ObjVid : v[2] <= vidCounter}

Removable == IF "removeLinecard" \in Env THEN Allocated ELSE Allocated \ {LinecardVid}

(* The VIDs a set may name.  Unless the client "adopts" objects, it does    *)
(* not set attributes of one that it only learnt of from a GET and that no *)
(* create saved.                                                           *)
Spotted(v) == v \in ObjVid /\ vidToRid[v] # NullOid /\ asicState[v].id = Unset
Settable == {v \in Allocated : "adopts" \in Env \/ ~Spotted(v)}

RefsOffered == {NullOid} \cup IF "refs" \in Env THEN Allocated \ {LinecardVid} ELSE {}

(* The requests a client may send.  A create carries the linecard VID or a *)
(* VID allocated for it; every other request any VID allocated so far.     *)
CreateRequests ==
  {r \in [op    : {"create"},
          vid   : {LinecardVid} \cup {v \in ObjVid : v[2] = vidCounter + 1},
          attrs : [id : Id, cfg : Cfg \cup {Unset}, ref : RefsOffered]] :
     r.vid = LinecardVid => r.attrs.ref = NullOid}

OtherRequests ==
  [op : {"remove"}, vid : Removable, attrs : {NoEntry}]
  \cup [op : {"get"}, vid : Allocated, attrs : {NoEntry}]
  \cup [op : {"set"}, vid : Settable,
        attrs : [id : {Unset}, cfg : Cfg \cup {Unset}, ref : {NullOid}]]

Requests == CreateRequests \cup OtherRequests

(* Mutant of CountVid: an INCR retried twice. *)
CountVidRetried(r) ==
  vidCounter' = IF r.op = "create" /\ r.vid # LinecardVid THEN vidCounter + 3 ELSE vidCounter

(* The client counts VIDCOUNTER up before it sends a create. *)
CountVid(r) ==
  vidCounter' = IF r.op = "create" /\ r.vid # LinecardVid THEN vidCounter + 1 ELSE vidCounter

EndRequest ==
  /\ pc' = "serving"
  /\ req' = NoRequest /\ rid' = NullOid /\ vid' = NullOid /\ left' = {}

(* A VID that cannot be translated: SWSS_LOG_THROW, no reply, exit. *)
RequestThrows(r) ==
  /\ pc = "serving"
  /\ ~Translatable(r)
  /\ CountVid(r)
  /\ ProcessEnds
  /\ UNCHANGED <<vidToRid, ridToVid, asicState>>

(* The vendor call does not return SUCCESS; the client is told so. *)
VendorRejects(r) ==
  /\ pc = "serving"
  /\ "vendorFails" \in Env
  /\ Translatable(r)
  /\ CountVid(r)
  /\ vid2rid' = CachedRids(NeededVids(r))
  /\ UNCHANGED <<vidToRid, ridToVid, asicState, pc, rid2vid, linecard,
                 translated, job, vendor, answers>>

(* processOidCreate up to the first redis write: the RID the vendor gave   *)
(* may belong to an older VID, which is then erased.                       *)
Create(r) ==
  /\ pc = "serving"
  /\ r.op = "create"
  /\ Translatable(r)
  /\ CountVid(r)
  /\ vid2rid' = CachedRids(NeededVids(r))
  /\ VendorCreate(r.vid, r.attrs, r.attrs.cfg,
                  IF r.attrs.ref = NullOid THEN NullOid ELSE LookupRid(r.attrs.ref))
  /\ req' = r
  /\ rid' = VendorRid(r.vid, r.attrs)
  /\ \E g \in StackGarbage :
       LET objectVidOld == TryRidToVid(rid', g) IN
       IF objectVidOld = NullOid
         THEN pc' = "insert1" /\ vid' = r.vid
         ELSE pc' = "erase1" /\ vid' = objectVidOld
  /\ UNCHANGED <<vidToRid, ridToVid, asicState, rid2vid, linecard, translated,
                 left, answers>>

Remove(r) ==
  /\ pc = "serving"
  /\ r.op = "remove"
  /\ Translatable(r)
  /\ vid2rid' = CachedRids(NeededVids(r))
  /\ hw' = [hw EXCEPT ![LookupRid(r.vid)] = NoObject]
  /\ req' = r /\ vid' = r.vid /\ rid' = LookupRid(r.vid)
  /\ pc' = "erase1"
  /\ UNCHANGED <<redis, rid2vid, linecard, translated, left, indexer, answers>>

(* A set of attrs.cfg, or, where that is Unset, of an attribute whose      *)
(* isrecoverable is false and which is therefore not saved.                *)
Set(r) ==
  /\ pc = "serving"
  /\ r.op = "set"
  /\ Translatable(r)
  /\ vid2rid' = CachedRids(NeededVids(r))
  /\ hw' = IF r.attrs.cfg = Unset THEN hw
           ELSE [hw EXCEPT ![LookupRid(r.vid)].cfg = r.attrs.cfg]
  /\ req' = r
  /\ pc' = "reply"
  /\ UNCHANGED <<redis, rid2vid, linecard, translated, rid, vid, left, indexer, answers>>

(* A get whose answer holds no RID that is new to the translator. *)
GetKnown(r) ==
  /\ pc = "serving"
  /\ r.op = "get"
  /\ Translatable(r)
  /\ vid2rid' = CachedRids(NeededVids(r))
  /\ UNCHANGED <<redis, pc, rid2vid, linecard, translated, job, vendor, answers>>

(* A get whose answer holds the RID o that neither cache nor redis knows:  *)
(* translateRidToVid gives it a VID, or throws where it is a linecard's.   *)
SpottedRids(r) ==
  {o \in ({hw[LookupRid(r.vid)].ref} \cup HiddenRid) \ {NullOid} : LookupVid(o) = NullOid}

GetSpotsRid(r) ==
  /\ pc = "serving"
  /\ r.op = "get"
  /\ Translatable(r)
  /\ vid2rid' = CachedRids(NeededVids(r))
  /\ vidCounter < MaxVid                       \* bound
  /\ vidCounter' = vidCounter + 1
  /\ \E o \in SpottedRids(r) :
       /\ o # LinecardRid
       /\ rid' = o /\ vid' = <<o[1], vidCounter'>>
  /\ req' = r
  /\ pc' = "insert1"
  /\ UNCHANGED <<vidToRid, ridToVid, asicState, rid2vid, linecard, translated,
                 left, vendor, answers>>

(* eraseRidAndVid: hdel VIDTORID, hdel RIDTOVID and the caches. *)
EraseVid ==
  /\ pc = "erase1"
  /\ vidToRid' = [vidToRid EXCEPT ![vid] = NullOid]
  /\ pc' = "erase2"
  /\ UNCHANGED <<vidCounter, ridToVid, asicState, caches, linecard, translated,
                 job, vendor, answers>>

(* Mutant of EraseRid: eraseRidAndVid leaves the caches alone. *)
EraseRidKeepsCaches ==
  /\ pc = "erase2"
  /\ ~(req.op = "remove" /\ vid = LinecardVid)
  /\ ridToVid' = [ridToVid EXCEPT ![rid] = NullOid]
  /\ pc' = IF req.op = "create" THEN "evict" ELSE "reply"
  /\ UNCHANGED <<vidCounter, vidToRid, asicState, caches, linecard, translated, job,
                 vendor, answers>>

EraseRid ==
  /\ pc = "erase2"
  /\ ~(req.op = "remove" /\ vid = LinecardVid)
  /\ ridToVid' = [ridToVid EXCEPT ![rid] = NullOid]
  /\ vid2rid' = [vid2rid EXCEPT ![vid] = NullOid]
  /\ rid2vid' = [rid2vid EXCEPT ![rid] = NullOid]
  /\ pc' = IF req.op = "create" THEN "evict" ELSE "reply"
  /\ UNCHANGED <<vidCounter, vidToRid, asicState, linecard, translated, job,
                 vendor, answers>>

(* "remove linecard is not implemented, FIXME": thrown after the erase. *)
RemoveLinecardThrows ==
  /\ pc = "erase2"
  /\ req.op = "remove" /\ vid = LinecardVid
  /\ ridToVid' = [ridToVid EXCEPT ![rid] = NullOid]
  /\ ProcessEnds
  /\ UNCHANGED <<vidCounter, vidToRid, asicState>>

(* removeAsicObject(objectVidOld); the client is not told. *)
Evict ==
  /\ pc = "evict"
  /\ asicState' = [asicState EXCEPT ![vid] = NoEntry]
  /\ vid' = req.vid
  /\ pc' = "insert1"
  /\ UNCHANGED <<vidCounter, vidToRid, ridToVid, caches, linecard, translated,
                 req, rid, left, vendor, answers>>

(* insertRidAndVid fills the caches before it writes redis;                *)
(* translateRidToVid after it has written.                                 *)
CacheBinding ==
  /\ vid2rid' = [vid2rid EXCEPT ![vid] = rid]
  /\ rid2vid' = [rid2vid EXCEPT ![rid] = vid]

InsertVid ==
  /\ pc = "insert1"
  /\ vidToRid' = [vidToRid EXCEPT ![vid] = rid]
  /\ IF req.op = "create" THEN CacheBinding ELSE UNCHANGED caches
  /\ pc' = "insert2"
  /\ UNCHANGED <<vidCounter, ridToVid, asicState, linecard, translated, job,
                 vendor, answers>>

InsertRid ==
  /\ pc = "insert2"
  /\ ridToVid' = [ridToVid EXCEPT ![rid] = vid]
  /\ IF req.op = "get" THEN CacheBinding ELSE UNCHANGED caches
  /\ linecard' = IF req.op = "create" /\ vid = LinecardVid THEN rid ELSE linecard
  /\ pc' = "reply"
  /\ UNCHANGED <<vidCounter, vidToRid, asicState, translated, job, vendor, answers>>

(* The objects that an answered create replaces, as far as a client can    *)
(* tell: those with the same ID, where the RID follows from the ID.        *)
Keyed == {v \in ObjVid : v[1] \in KeyedType}
ReplacedBy(r) ==
  {v \in Keyed \ {r.vid} : r.op = "create" /\ v[1] = r.vid[1] /\ told[v].id = r.attrs.id}

(* sendApiResponse or sendGetResponse with SUCCESS, before ASIC_STATE is   *)
(* touched: syncUpdateRedisQuadEvent comes after it.                       *)
Reply ==
  /\ pc = "reply"
  /\ told' = CASE req.op = "create" ->
                    [v \in Vid |-> IF v = req.vid THEN req.attrs
                                   ELSE IF v \in ReplacedBy(req) THEN NoEntry ELSE told[v]]
               [] req.op = "remove" -> [told EXCEPT ![req.vid] = NoEntry]
               [] req.op = "set" /\ req.attrs.cfg # Unset ->
                    [told EXCEPT ![req.vid].cfg = req.attrs.cfg]
               [] OTHER -> told
  /\ superseded' = superseded \cup ReplacedBy(req)
  /\ CASE req.op = "remove" -> pc' = "delete" /\ UNCHANGED job
       [] req.op \in {"create", "set"} /\ Fields(req.attrs) # {} ->
            pc' = "save" /\ left' = Fields(req.attrs) /\ UNCHANGED <<req, rid, vid>>
       [] OTHER -> EndRequest
  /\ UNCHANGED <<redis, caches, linecard, translated, vendor>>

(* One hset of createAsicObject, or the one of setAsicObject. *)
SaveField(f) ==
  /\ pc = "save"
  /\ f \in left
  /\ asicState' = [asicState EXCEPT ![req.vid][f] = req.attrs[f]]
  /\ IF left = {f} THEN EndRequest
     ELSE left' = left \ {f} /\ UNCHANGED <<pc, req, rid, vid>>
  /\ UNCHANGED <<vidCounter, vidToRid, ridToVid, caches, linecard, translated,
                 vendor, answers>>

(* Mutant of DeleteAsicObject: syncUpdateRedisQuadEvent skips the remove. *)
DeleteAsicObjectForgets ==
  /\ pc = "delete"
  /\ EndRequest
  /\ UNCHANGED <<redis, caches, linecard, translated, vendor, answers>>

DeleteAsicObject ==
  /\ pc = "delete"
  /\ asicState' = [asicState EXCEPT ![req.vid] = NoEntry]
  /\ EndRequest
  /\ UNCHANGED <<vidCounter, vidToRid, ridToVid, caches, linecard, translated,
                 vendor, answers>>

(* The restart query: the main loop ends, removeLinecard and uninitialize  *)
(* run, the process exits.  Redis is left as it is.                        *)
RestartQuery ==
  /\ pc = "serving"
  /\ ProcessEnds
  /\ UNCHANGED redis

(* The process is killed, here between any two steps. *)
Crash ==
  /\ pc # "down"
  /\ "crashAnywhere" \in Env
  /\ ProcessEnds
  /\ UNCHANGED redis

HandleRequest ==
  \E r \in Requests :
    \/ RequestThrows(r) \/ VendorRejects(r)
    \/ Create(r) \/ Remove(r) \/ Set(r) \/ GetKnown(r) \/ GetSpotsRid(r)

ContinueRequest ==
  \/ EraseVid \/ EraseRid \/ RemoveLinecardThrows \/ Evict
  \/ InsertVid \/ InsertRid \/ Reply
  \/ \E f \in {"id", "cfg", "ref"} : SaveField(f)
  \/ DeleteAsicObject

Reinit ==
  \/ StartReinit \/ ReinitLinecard
  \/ \E v \in ObjVid : ReinitObject(v)
  \/ ReinitThrows \/ FinishReinit \/ CheckAllIdsThrows

Next == HandleRequest \/ ContinueRequest \/ Reinit \/ RestartQuery \/ Crash

Spec == Init /\ [][Next]_vars

(* The main thread runs until it exits and systemd starts it again.        *)
FairSpec == Spec /\ WF_vars(ContinueRequest) /\ WF_vars(Reinit)

-----------------------------------------------------------------------------
(* Properties.                                                             *)

(* The translator caches never say something redis does not, whenever no   *)
(* request is being handled (VirtualOidTranslator keeps them in step with  *)
(* VIDTORID and RIDTOVID).                                                 *)
CachesCoherent ==
  pc = "serving" =>
    /\ \A v \in Vid : vid2rid[v] # NullOid => vid2rid[v] = vidToRid[v]
    /\ \A r \in Rid : rid2vid[r] # NullOid => rid2vid[r] = ridToVid[r]

(* Whatever crash tore redis, a syncd that gets through hard reinit and    *)
(* accepts requests sees, for every object but the linecard, a VID whose   *)
(* RID maps back to it and no ASIC_STATE entry without a RID, and it never *)
(* serves objects without a linecard: processSingleVid or checkAllIds      *)
(* throws instead.  Two torn states are served and are not claimed here:   *)
(* an entry of which only some fields were written, and a linecard that    *)
(* has an entry but no RID or a RID that does not map back (LinecardWhole).*)
MapsBackIfMapped(v) == vidToRid[v] # NullOid => ridToVid[vidToRid[v]] = v
MappedIfSaved(v) == asicState[v] # NoEntry => vidToRid[v] # NullOid
TornMapsNeverServed ==
  pc = "serving" =>
    \A v \in ObjVid :
      /\ MapsBackIfMapped(v) /\ MappedIfSaved(v)
      /\ vidToRid[v] # NullOid => linecard # NullOid

(* The same of the linecard, which the code does not keep: a client's      *)
(* remove erases its maps and throws before the entry, and the operator[]  *)
(* of stopPreConfigLinecards hides the gap from checkAllIds.               *)
LinecardWhole ==
  pc = "serving" => MapsBackIfMapped(LinecardVid) /\ MappedIfSaved(LinecardVid)

(* RIDTOVID is exactly the inverse of VIDTORID between requests. *)
InverseMaps ==
  pc = "serving" =>
    \A v \in Vid, r \in Rid : vidToRid[v] = r <=> ridToVid[r] = v

(* ASIC_STATE, which a restart rebuilds, is what the replies told the      *)
(* client, after each request and after each restart that did not          *)
(* interrupt one.  No reply tells of an eviction by processOidCreate: an   *)
(* object with an ID vanishes unannounced exactly if an object with the    *)
(* same ID was answered SUCCESS after it; one whose RID the vendor counts, *)
(* or that only a GET made known, may vanish as well, but what is there of *)
(* it is what was answered.                                                *)
RepliesAreSaved ==
  pc = "serving" =>
    /\ \A v \in Vid : asicState[v] \in {told[v], NoEntry}
    /\ \A v \in superseded : asicState[v] = NoEntry
    /\ \A v \in Keyed \cup {LinecardVid} : told[v].id # Unset => asicState[v] = told[v]

(* The RID that the VID of an object with an ID (or of the linecard) is     *)
(* translated to is the vendor object created for it, with the reference   *)
(* it was created with: through create, remove, re-create under the same   *)
(* ID, and restart.  An entry without id was not made by a create.         *)
MapNamesTheObject ==
  pc = "serving" =>
    \A v \in Keyed \cup {LinecardVid} : asicState[v].id # Unset =>
      LET object == hw[vidToRid[v]]
          ref == asicState[v].ref IN
      /\ object.live /\ object.owner = v
      /\ ref \in Keyed /\ asicState[ref].id # Unset => object.ref = vidToRid[ref]

(* SingleReiniter.cpp collects "attrs for create" and "attrs for set": a   *)
(* restart gives every object, not just the linecard, the settable         *)
(* attributes ASIC_STATE holds.                                            *)
ObjectConfigRestored ==
  pc = "serving" =>
    \A v \in ObjVid : asicState[v] # NoEntry /\ vidToRid[v] # NullOid =>
      hw[vidToRid[v]].cfg = asicState[v].cfg

(* An entry leaves ASIC_STATE only because its own VID is removed, or      *)
(* because an object of the same type, and with the same ID where the RID  *)
(* follows from the ID, is created: no request takes another object's      *)
(* entry away, unless the uninitialised objectVidOld holds the RID under   *)
(* which that object is cached.  An entry without id has the RID of the    *)
(* created object.                                                         *)
HeldByGarbage(v) == \E g \in StackGarbage \cap Rid : rid2vid[g] = v

OwnEntryGoes ==
  \A v \in Vid :
    asicState[v] # NoEntry /\ asicState'[v] = NoEntry =>
      \/ req.op = "remove" /\ req.vid = v
      \/ req.op = "create" /\ req.vid[1] = v[1]
           /\ (v \in Keyed => asicState[v].id \in {req.attrs.id, Unset})
      \/ req.op = "create" /\ HeldByGarbage(v)
OnlyOwnEntryGoes == [][OwnEntryGoes]_asicState

(* tryTranslateRidToVid "Returns true if able to find RID and out VID      *)
(* object.  Returns false if not able to find RID": the VID that           *)
(* processOidCreate erases is the one RIDTOVID has for the new RID.        *)
EvictsOwnerOfRid ==
  pc = "erase1" /\ req.op = "create" => ridToVid[rid] = vid

(* Without crashes inside a request every restart gets back to the main    *)
(* loop, unless ASIC_STATE names an object that is gone (a remove does not *)
(* look for references) or a GET gave a VID to a RID that no create made:  *)
(* hard reinit never throws otherwise.                                     *)
NoneDangles ==
  \A v \in ObjVid : LET ref == asicState[v].ref IN ref # NullOid => asicState[ref] # NoEntry
NoneSpotted == \A v \in ObjVid : vidToRid[v] # NullOid => asicState[v] # NoEntry
RestartSucceeds == pc = "down" /\ NoneDangles /\ NoneSpotted ~> pc = "serving"

=============================================================================
