------------------------------ MODULE MetaApi ------------------------------
(***************************************************************************)
(* The calls a client makes through Otai, Meta and                         *)
(* RedisRemoteOtaiInterface, one at a time under the API mutex: Meta       *)
(* checks a call, a create allocates a VID, syncd answers, and the client  *)
(* keeps the notification pointers of the linecard.  Of syncd there is     *)
(* what it can translate and what it saves, after the answer and field by  *)
(* field; SyncdAsic has the rest of it.                                    *)
(***************************************************************************)
EXTENDS MetaChecks

CONSTANT Calls   \* the calls offered

(* A pointer that is not null points at as many entries as are counted.    *)
PointsAtAll(value) == value.list = <<>> \/ value.count <= Len(value.list)

ScalarsAreOne(c) ==
  \A t \in {c.type} \cap ObjectType : \A i \in DOMAIN c.attrs :
    c.attrs[i].id \in {a \in DOMAIN Metadata[t] : Metadata[t][a].valuetype \in Scalar} =>
      c.attrs[i].value.count = 1 /\ Len(c.attrs[i].value.list) = 1

ASSUME CallAssumption ==
  /\ \A c \in Calls :
       /\ c.op \in {"create", "set", "get", "remove", "stats"}
       /\ c.type \in Nat /\ c.oid \in Nat /\ c.linecard \in Nat
       /\ c.attrs \in Seq([id : Nat, value : [count : Nat, list : Seq(Nat)]])
       /\ \A i \in DOMAIN c.attrs : PointsAtAll(c.attrs[i].value)
       /\ c.op = "set" => Len(c.attrs) = 1
       /\ c.op = "create" => ScalarsAreOne(c)

VARIABLES
  counter,   \* VIDCOUNTER, shared by client and syncd
  issued,    \* the VIDs allocated with it, in order
  known,     \* the VIDs in VIDTORID, which syncd can translate
  store,     \* ASIC_STATE: VID -> its type and its attributes
  job,       \* what syncd has still to write to it after its answer
  up,        \* does syncd serve requests
  linecard,  \* m_linecard: is there one, and its notification pointers
  \* what only properties read: VIDs whose entry no single create has
  \* written, and may the pointers of the linecard be others than syncd's
  patched, unsure

ids   == <<counter, issued>>
syncd == <<known, store, job, up, patched>>
vars  == <<ids, syncd, linecard, unsure>>

PointerAttr == {a \in DOMAIN Metadata[LINECARD] :
                  Metadata[LINECARD][a].valuetype = "pointer"}
NullPointers == [a \in PointerAttr |-> <<>>]

NoJob == [op |-> "none", oid |-> NullId, type |-> NullType, attrs |-> <<>>]

IsVid(v) == v = LinecardVid \/ \E i \in DOMAIN issued : issued[i] = v

TypeOK ==
  /\ counter \in 0 .. IndexSize
  /\ issued \in Seq(Nat) /\ Len(issued) <= counter
  /\ \A v \in known \cup DOMAIN store : IsVid(v)
  /\ \A v \in DOMAIN store : DOMAIN store[v].attrs \subseteq DOMAIN Metadata[store[v].type]
  /\ job.op \in {"none", "create", "set", "remove"}
  /\ job.op # "none" => IsVid(job.oid) /\ DOMAIN job.attrs \subseteq DOMAIN Metadata[job.type]
  /\ up \in BOOLEAN
  /\ linecard.made \in BOOLEAN /\ DOMAIN linecard.pointers = PointerAttr
  /\ unsure \in BOOLEAN

Init ==
  /\ counter = 0 /\ issued = <<>>
  /\ known = {} /\ store = <<>> /\ job = NoJob /\ up = TRUE
  /\ linecard = [made |-> FALSE, pointers |-> NullPointers]
  /\ patched = {} /\ unsure = FALSE

-----------------------------------------------------------------------------
(* Meta::create, remove, set, get and the statistics, up to the call of    *)
(* m_implementation.  A call that is refused changes nothing.              *)

Passes(c) ==
  \/ c.op = "create" /\ CreateValid(c.type, c.linecard, c.attrs)
  \/ c.op = "set"    /\ SetValid(c.type, c.oid, c.attrs[1])
  \/ c.op = "get"    /\ GetValid(c.type, c.oid, c.attrs)
  \/ c.op = "remove" /\ RemoveValid(c.type, c.oid)
  \/ c.op = "stats"  /\ StatsValid(c.type, c.oid, c.attrs)

PassingCalls == {c \in Calls : Passes(c)}

-----------------------------------------------------------------------------
(* VIDs. *)

(* Mutant of InRange: no look at the limit. *)
NoLimit(index) == TRUE

InRange(index) == index <= MaxIndex

(* Mutant of Allocate: the counter is read and not incremented. *)
AllocateAgain(type, lc) ==
  /\ counter < IndexSize
  /\ counter' = counter
  /\ issued' = Append(issued, ConstructObjectId(type, LinecardIndex(lc), counter + 1))

(* Redis INCR, and the VID that allocateNewObjectId makes of it, or its    *)
(* throw when the field is full.                                           *)
Allocate(type, lc) ==
  /\ counter < IndexSize                                         \* bound
  /\ counter' = counter + 1
  /\ issued' = IF InRange(counter + 1)
                 THEN Append(issued, ConstructObjectId(type, LinecardIndex(lc), counter + 1))
                 ELSE issued

-----------------------------------------------------------------------------
(* Syncd.  It exits when a call names a VID that it cannot translate; the  *)
(* client then waits until its timeout.                                    *)

Serving == up /\ job = NoJob

(* Syncd allocates from the same counter when a GET shows it a RID it has  *)
(* no VID for.  The VID can be named in later calls.                       *)
SyncdAllocates ==
  /\ Serving /\ LinecardVid \in known
  /\ \E t \in ObjectType \ {LINECARD} :
       /\ Allocate(t, LinecardVid)
       /\ known' = IF InRange(counter + 1)
                     THEN known \cup {ConstructObjectId(t, LinecardIndex(LinecardVid), counter + 1)}
                     ELSE known
  /\ up' = InRange(counter + 1)
  /\ UNCHANGED <<store, job, patched, linecard, unsure>>

(* hset makes an entry that is not there. *)
WithField(v, t, a, value) ==
  LET old == IF v \in DOMAIN store THEN store[v].attrs ELSE <<>> IN
  [w \in DOMAIN store \cup {v} |->
     IF w = v
       THEN [type |-> t, attrs |-> [b \in DOMAIN old \cup {a} |-> IF b = a THEN value ELSE old[b]]]
       ELSE store[w]]

Without(vids) == [v \in DOMAIN store \ vids |-> store[v]]

(* createAsicObject and setAsicObject write one field at a time ...        *)
SaveField ==
  /\ job.op \in {"create", "set"}
  /\ \E a \in DOMAIN job.attrs :
       /\ store' = WithField(job.oid, job.type, a, job.attrs[a])
       /\ job' = [job EXCEPT !.attrs = [b \in DOMAIN job.attrs \ {a} |-> job.attrs[b]]]
  /\ UNCHANGED <<ids, known, up, patched, linecard, unsure>>

(* ... or the field NULL, where a create had none.                         *)
EndSave ==
  /\ job.op \in {"create", "set"} /\ DOMAIN job.attrs = {}
  /\ store' = IF job.oid \in DOMAIN store THEN store
               ELSE [v \in DOMAIN store \cup {job.oid} |->
                       IF v = job.oid THEN [type |-> job.type, attrs |-> <<>>] ELSE store[v]]
  /\ job' = NoJob
  /\ UNCHANGED <<ids, known, up, patched, linecard, unsure>>

(* removeAsicObject *)
DeleteObject ==
  /\ job.op = "remove"
  /\ store' = Without({job.oid})
  /\ job' = NoJob
  /\ UNCHANGED <<ids, known, up, patched, linecard, unsure>>

(* Syncd dies, wherever it is in its writes. *)
Die ==
  /\ up
  /\ up' = FALSE /\ job' = NoJob
  /\ patched' = IF job.op = "create" THEN patched \cup {job.oid} ELSE patched
  /\ unsure' = (unsure \/ job.oid = LinecardVid)
  /\ UNCHANGED <<ids, known, store, linecard>>

(* It can start again where checkAllIds finds in VIDTORID what is in       *)
(* ASIC_STATE; a missing linecard it does not see.                         *)
Start ==
  /\ ~up
  /\ DOMAIN store \in {known, known \cup {LinecardVid}}
  /\ up' = TRUE
  /\ UNCHANGED <<ids, known, store, job, patched, linecard, unsure>>

(* What of a value is sent. *)
Sent(value) ==
  IF value.list = <<>> THEN <<>> ELSE [i \in 1 .. value.count |-> value.list[i]]
AttrsOf(c) == [a \in Passed(c.attrs) |-> Sent(ValueOf(c.attrs, a))]

IsOid(type, a) == Metadata[type][a].valuetype \in {"oid", "objlist"}

(* All objects the attributes of c name can be translated. *)
RefsKnown(c) ==
  \A a \in Passed(c.attrs) : IsOid(c.type, a) =>
    \A i \in DOMAIN AttrsOf(c)[a] : AttrsOf(c)[a][i] \in known \cup {NullId}

Job(c, vid) == [op |-> c.op, oid |-> vid, type |-> c.type, attrs |-> AttrsOf(c)]

(* processOidCreate: the vendor's RID may be that of an older VID, which   *)
(* goes first; ASIC_STATE has the new one after the answer.                *)
Created(c, vid, older) ==
  /\ known' = (known \ older) \cup {vid}
  /\ store' = Without(older)
  /\ job' = Job(c, vid)
  /\ patched' = (patched \ older) \cup ({vid} \cap DOMAIN Without(older))
  /\ up' = up

(* Linecard::updateNotifications: the pointers among the attributes.       *)
Updated(pointers, c) ==
  [a \in PointerAttr |-> IF a \in Passed(c.attrs) THEN AttrsOf(c)[a] ELSE pointers[a]]

(* Mutant of MadeBy: a linecard is kept although its create failed. *)
MadeAnyway(c, answered) == [made |-> TRUE, pointers |-> Updated(NullPointers, c)]

(* m_linecard is made anew by a create that succeeded. *)
MadeBy(c, answered) ==
  IF answered THEN [made |-> TRUE, pointers |-> Updated(NullPointers, c)] ELSE linecard

(* RedisRemoteOtaiInterface::create of an object.  The VID is used up      *)
(* whatever comes of the call.                                             *)
CreateObject(c) ==
  /\ c.type # LINECARD
  /\ Allocate(c.type, c.linecard)
  /\ LET vid == ConstructObjectId(c.type, LinecardIndex(c.linecard), counter + 1) IN
     \/ UNCHANGED syncd
     \/ /\ InRange(counter + 1)
        /\ Serving /\ RefsKnown(c) /\ LinecardIdQuery(vid) \in known
        /\ \E older \in {{}} \cup {{v} : v \in {w \in known : ObjectTypeQuery(w) = c.type}} :
             Created(c, vid, older)
  /\ UNCHANGED <<linecard, unsure>>

(* The entry of a linecard whose maps are lost: a create adds to it. *)
LinecardUnmapped == LinecardVid \in DOMAIN store \ known

(* ... and of the linecard, whose VID and RID are always the same.         *)
CreateLinecard(c) ==
  /\ c.type = LINECARD
  /\ \E outcome \in {"failed", "lost", "answered"} :
       /\ IF outcome = "failed" THEN UNCHANGED syncd
          ELSE Serving /\ Created(c, LinecardVid, {LinecardVid} \cap known)
       /\ linecard' = MadeBy(c, outcome = "answered")
       /\ unsure' = IF outcome = "failed" THEN unsure ELSE (outcome = "lost" \/ LinecardUnmapped)
  /\ UNCHANGED ids

(* set: syncd saves recoverable attributes, of any VID that it can         *)
(* translate; the pointers follow when the answer came and there is a      *)
(* linecard.                                                               *)
SetAttribute(c) ==
  /\ \/ UNCHANGED <<syncd, linecard, unsure>>
     \/ /\ Serving /\ RefsKnown(c) /\ c.oid \in known
        /\ IF Metadata[c.type][c.attrs[1].id].recoverable
             THEN /\ job' = Job(c, c.oid)
                  /\ patched' = patched \cup ({c.oid} \ DOMAIN store)
             ELSE UNCHANGED <<job, patched>>
        /\ UNCHANGED <<known, store, up>>
        /\ \E answered \in BOOLEAN :
             IF c.type = LINECARD
               THEN /\ linecard' = IF answered /\ linecard.made
                                     THEN [linecard EXCEPT !.pointers = Updated(@, c)]
                                     ELSE linecard
                    /\ unsure' = (unsure \/ ~answered)
               ELSE UNCHANGED <<linecard, unsure>>
  /\ UNCHANGED ids

(* remove: the maps go before the answer, the entry after it.  That of the *)
(* linecard ends syncd in between, without an answer.                      *)
RemoveObject(c) ==
  /\ \/ UNCHANGED syncd
     \/ /\ Serving /\ c.oid \in known
        /\ known' = known \ {c.oid}
        /\ IF c.type = LINECARD THEN up' = FALSE /\ job' = job
           ELSE up' = up /\ job' = [NoJob EXCEPT !.op = "remove", !.oid = c.oid, !.type = c.type]
        /\ UNCHANGED <<store, patched>>
  /\ UNCHANGED <<ids, linecard, unsure>>

(* A call that passed, from m_implementation to its return; get and the    *)
(* statistics change nothing.                                              *)
Execute(c) ==
  \/ c.op = "create" /\ (CreateObject(c) \/ CreateLinecard(c))
  \/ c.op = "set" /\ SetAttribute(c)
  \/ c.op = "remove" /\ RemoveObject(c)

Next == \/ \E c \in PassingCalls : Execute(c)
        \/ SyncdAllocates \/ SaveField \/ EndSave \/ DeleteObject \/ Die \/ Start

Spec == Init /\ [][Next]_vars

-----------------------------------------------------------------------------
(* Properties. *)

(* "having all this information in OID itself is more convenient": type    *)
(* that client and syncd read out of the ID of an object is the one it was *)
(* created with, up to the last index there is, and the linecard is the    *)
(* one there is.                                                           *)
IdsTellWhatTheyName ==
  \A v \in DOMAIN store :
    ObjectTypeQuery(v) = store[v].type /\ LinecardIdQuery(v) = LinecardVid

(* "this counter must be atomic since it can be independently accessed by  *)
(* otairedis and syncd": no ID is given twice, whoever allocates, not even *)
(* after a removal or for another type, and none is that of the linecard.  *)
NoIdTwice ==
  \A i \in DOMAIN issued :
    issued[i] # LinecardVid /\ \A j \in 1 .. i - 1 : issued[j] # issued[i]

(* "if type is correct and it belongs to the same linecard id": whatever   *)
(* creates and sets came, every reference in ASIC_STATE is to an ID of a   *)
(* type its attribute allows and of the linecard of the object.            *)
ReferencesFit ==
  \A v \in DOMAIN store : \A a \in DOMAIN store[v].attrs :
    LET md == Metadata[store[v].type][a] IN
    IsOid(store[v].type, a) =>
      \A i \in DOMAIN store[v].attrs[a] :
        LET oid == store[v].attrs[a][i] IN
        IF oid = NullId THEN md.nullok
        ELSE ObjectTypeQuery(oid) \in md.types /\ LinecardIdQuery(oid) = LinecardIdQuery(v)

(* "check if all mandatory attributes were passed", "check if we need any  *)
(* conditional attributes": every entry of ASIC_STATE that one create has  *)
(* written has its mandatory attributes, and a conditional one when a      *)
(* condition on a create-only attribute holds of the values it has,        *)
(* through all later sets.  Not so an entry that a set has made, of a VID  *)
(* that a GET gave, or a death has left half-written (patched).            *)
Effective(v, a) ==
  IF a \in DOMAIN store[v].attrs THEN store[v].attrs[a]
  ELSE Metadata[store[v].type][a].default
Complete(v) ==
  \A a \in DOMAIN Metadata[store[v].type] :
    LET md == Metadata[store[v].type][a] IN
    /\ Mandatory(store[v].type, a) => a \in DOMAIN store[v].attrs
    /\ (\E c \in md.conditions : /\ ~Settable(Metadata[store[v].type][c.attr])
                                /\ Effective(v, c.attr) = c.value)
         => a \in DOMAIN store[v].attrs
ObjectsStayComplete ==
  \A v \in DOMAIN store \ patched : (job.op = "create" /\ job.oid = v) \/ Complete(v)

(* The client delivers notifications by the pointers of the linecard that  *)
(* syncd has saved: the two are in step once syncd has nothing more to     *)
(* write for the linecard.  The exception begins when an answer about the  *)
(* linecard is lost or syncd dies before that write is over, and ends with *)
(* the next answered create of the linecard, if its maps are there.        *)
PointersInStep ==
  ~unsure /\ job.oid # LinecardVid =>
    /\ linecard.made <=> LinecardVid \in DOMAIN store
    /\ linecard.made => \A a \in {p \in PointerAttr : Metadata[LINECARD][p].recoverable} :
         linecard.pointers[a] =
           IF a \in DOMAIN store[LinecardVid].attrs THEN store[LinecardVid].attrs[a] ELSE <<>>
=============================================================================
