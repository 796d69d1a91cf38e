----------------------- MODULE NotificationPump_proofs -----------------------
(***************************************************************************)
(* Proofs about NotificationPump, for every set of vendor threads and      *)
(* every number of notifications and restarts: type correctness, the order *)
(* of notifications, the exclusion of handler and requests, and when the   *)
(* processing thread can throw.                                            *)
(***************************************************************************)
EXTENDS NotificationPump, SequenceTheorems, TLAPS

(* Where the main thread holds m_mutex. *)
Holding == {"reinit", "creating", "created", "save", "removing", "request"}

(* m_mutex has the owner that its users think it has, there is an item in  *)
(* hand from the dequeue to the end of its handling, and the processing    *)
(* thread begins after hard reinit.                                        *)
MutexInv ==
  /\ mutex = "main" <=> main \in Holding
  /\ mutex = "ntf" <=> ntf \in {"handling", "terminate"}
  /\ item # <<>> <=> ntf \in {"locking", "handling", "terminate"}
  /\ main \in {"start", "reinit", "beforeThread"} => ntf = "none"

(* The vendor can have raised something without the maps only while the    *)
(* create of the linecard, under m_mutex, is about to write them, or after *)
(* a client's remove.  It has its callbacks after a restart by the entry   *)
(* in ASIC_STATE, which is written after the maps.                         *)
MappedInv ==
  /\ (registered \/ raised # <<>>) /\ ~mapped => main = "created" \/ erased
  /\ saved /\ ~mapped => erased
  /\ main = "save" => mapped

PumpInv == TypeOK /\ MutexInv /\ FirstInFirstOut /\ MappedInv /\ NeverThrows

(* A new notification goes to the end of both sequences. *)
LEMMA AppendAtTheEnd ==
  ASSUME TypeOK, NEW n \in Notification
  PROVE  Append(handled \o item \o queue, n) = handled \o item \o Append(queue, n)
<1>1. handled \o item \in Seq(Notification)
  BY ConcatProperties DEF TypeOK
<1>2. handled \o item \o queue \in Seq(Notification)
  BY <1>1, ConcatProperties DEF TypeOK
<1>3. <<n>> \in Seq(Notification)
  OBVIOUS
<1>4. Append(handled \o item \o queue, n) = (handled \o item \o queue) \o <<n>>
  BY <1>2, AppendIsConcat
<1>5. Append(queue, n) = queue \o <<n>>
  BY AppendIsConcat DEF TypeOK
<1>6. (handled \o item) \o queue \o <<n>> = (handled \o item) \o (queue \o <<n>>)
  <2>1. queue \in Seq(Notification)
    BY DEF TypeOK
  <2> QED
    BY <1>1, <1>3, <2>1, ConcatAssociative
<1> QED
  BY <1>4, <1>5, <1>6

(* Taking the head of the queue keeps the whole. *)
LEMMA HeadInHand ==
  ASSUME NEW S, NEW a \in Seq(S), NEW b \in Seq(S), b # <<>>
  PROVE  a \o <<>> \o b = a \o <<Head(b)>> \o Tail(b)
<1>1. b = <<Head(b)>> \o Tail(b)
  BY HeadTailProperties
<1>2. <<Head(b)>> \in Seq(S) /\ Tail(b) \in Seq(S)
  BY HeadTailProperties
<1> QED
  BY <1>1, <1>2, ConcatAssociative, ConcatEmptySeq

LEMMA TypeOKIsInductive == TypeOK /\ [Next]_vars => TypeOK'
<1> SUFFICES ASSUME TypeOK, [Next]_vars PROVE TypeOK'
  OBVIOUS
<1> USE DEF TypeOK, MainPC, NtfPC, flow, threads, redis
<1>1. CASE UNCHANGED vars
  BY <1>1 DEF vars
<1>2. CASE MainStep
  BY <1>2 DEF MainStep, StartReinit, EndReinit, StartThread, VendorCreates, InsertMaps,
     SaveLinecard, ClientRemoves, EndRequest, StopThread, JoinThread
<1>3. CASE StartRequest \/ RemoveLinecard
  BY <1>3 DEF StartRequest, RemoveLinecard
<1>9. CASE Restart
  <2>1. <<>> \in Seq(Notification) /\ Len(<<>>) <= 1
    OBVIOUS
  <2>2. restarts' \in 0 .. MaxRestarts
    BY <1>9, BoundAssumption DEF Restart
  <2> QED
    BY <1>9, <2>1, <2>2 DEF Restart
<1>4. CASE TestRun \/ StartWait \/ Lock \/ Throw \/ SpuriousWakeUp
  BY <1>4 DEF TestRun, StartWait, Lock, Throw, SpuriousWakeUp
<1>5. CASE Dequeue
  <2>1. CASE queue = <<>>
    BY <1>5, <2>1 DEF Dequeue
  <2>2. CASE queue # <<>>
    <3>1. Head(queue) \in Notification /\ Tail(queue) \in Seq(Notification)
      BY <2>2
    <3>2. <<Head(queue)>> \in Seq(Notification) /\ Len(<<Head(queue)>>) = 1
      BY <3>1
    <3>3. queue' = Tail(queue) /\ item' = <<Head(queue)>> /\ ntf' = "locking"
      BY <1>5, <2>2 DEF Dequeue
    <3> QED
      BY <1>5, <3>1, <3>2, <3>3 DEF Dequeue
  <2> QED
    BY <2>1, <2>2
<1>6. CASE Handle
  <2>1. handled \o item \in Seq(Notification)
    BY ConcatProperties
  <2>2. <<>> \in Seq(Notification) /\ Len(<<>>) = 0
    OBVIOUS
  <2>3. handled' = handled \o item /\ item' = <<>> /\ ntf' = "dequeue" /\ mutex' = "free"
    BY <1>6 DEF Handle
  <2>4. handled' \in Seq(Notification) /\ item' \in Seq(Notification) /\ Len(item') <= 1
    BY <2>1, <2>2, <2>3
  <2> QED
    BY <1>6, <2>3, <2>4 DEF Handle
<1>7. ASSUME NEW w \in VendorThread, Raise(w) PROVE TypeOK'
  <2>1. PICK k \in Kind : /\ queue' = Append(queue, [kind |-> k, number |-> Len(raised) + 1])
                          /\ raised' = Append(raised, [kind |-> k, number |-> Len(raised) + 1])
    BY <1>7 DEF Raise, Enqueue
  <2>2. Len(raised) + 1 \in 1 .. MaxRaised
    BY <1>7, BoundAssumption DEF Raise
  <2>3. [kind |-> k, number |-> Len(raised) + 1] \in Notification
    BY <2>2 DEF Notification
  <2> QED
    BY <1>7, <2>1, <2>3 DEF Raise
<1>8. ASSUME NEW w \in VendorThread, Signal(w) PROVE TypeOK'
  BY <1>8 DEF Signal
<1> QED
  BY <1>1, <1>2, <1>3, <1>4, <1>5, <1>6, <1>7, <1>8, <1>9 DEF Next, NtfStep

LEMMA FirstInFirstOutIsInductive ==
  TypeOK /\ MutexInv /\ FirstInFirstOut /\ [Next]_vars => FirstInFirstOut'
<1> SUFFICES ASSUME TypeOK, MutexInv, FirstInFirstOut, [Next]_vars PROVE FirstInFirstOut'
  OBVIOUS
<1> USE DEF FirstInFirstOut, flow
<1>1. CASE UNCHANGED flow
  BY <1>1
<1>2. CASE Dequeue
  <2>1. CASE queue = <<>>
    BY <1>2, <2>1 DEF Dequeue
  <2>2. CASE queue # <<>>
    <3>1. item = <<>>
      BY <1>2 DEF Dequeue, MutexInv
    <3>2. handled \o item \o queue = handled \o <<Head(queue)>> \o Tail(queue)
      BY <2>2, <3>1, HeadInHand DEF TypeOK
    <3> QED
      BY <1>2, <2>2, <3>2 DEF Dequeue
  <2> QED
    BY <2>1, <2>2
<1>3. CASE Handle
  <2>1. (handled \o item) \in Seq(Notification)
    BY ConcatProperties DEF TypeOK
  <2>2. handled' = handled \o item /\ item' = <<>> /\ queue' = queue /\ raised' = raised
    BY <1>3 DEF Handle
  <2> QED
    BY <2>1, <2>2, ConcatEmptySeq
<1>5. CASE Restart
  BY <1>5, ConcatEmptySeq DEF Restart
<1>4. ASSUME NEW w \in VendorThread, Raise(w) PROVE FirstInFirstOut'
  <2>1. \A k \in Kind : [kind |-> k, number |-> Len(raised) + 1] \in Notification
    BY <1>4, BoundAssumption DEF Raise, Notification, TypeOK
  <2>2. PICK n \in Notification : queue' = Append(queue, n) /\ raised' = Append(raised, n)
    BY <1>4, <2>1 DEF Raise, Enqueue
  <2>3. Append(handled \o item \o queue, n) = handled \o item \o Append(queue, n)
    BY AppendAtTheEnd
  <2>4. handled' = handled /\ item' = item
    BY <1>4 DEF Raise
  <2> QED
    BY <2>2, <2>3, <2>4
<1> QED
  BY <1>1, <1>2, <1>3, <1>4, <1>5 DEF Next, MainStep, NtfStep, vars, StartReinit, EndReinit,
     StartThread, StartRequest, VendorCreates, InsertMaps, SaveLinecard, ClientRemoves,
     EndRequest, RemoveLinecard, StopThread, JoinThread, TestRun, StartWait, SpuriousWakeUp,
     Lock, Throw, Signal

LEMMA MutexInvIsInductive ==
  TypeOK /\ MutexInv /\ [Next]_vars => MutexInv'
<1> SUFFICES ASSUME TypeOK, MutexInv, [Next]_vars PROVE MutexInv'
  OBVIOUS
<1> USE DEF MutexInv, Holding, flow, threads, TypeOK
<1>1. CASE UNCHANGED vars
  BY <1>1 DEF vars
<1>2. CASE MainStep \/ StartRequest \/ RemoveLinecard \/ Restart
  <2>1. CASE StartReinit \/ EndReinit \/ VendorCreates \/ InsertMaps \/ SaveLinecard
             \/ ClientRemoves \/ EndRequest \/ StartRequest \/ Restart
    BY <2>1 DEF StartReinit, EndReinit, VendorCreates, InsertMaps, SaveLinecard,
       ClientRemoves, EndRequest, StartRequest, Restart
  <2>2. CASE StartThread
    BY <2>2 DEF StartThread
  <2>3. CASE RemoveLinecard \/ StopThread \/ JoinThread
    BY <2>3 DEF RemoveLinecard, StopThread, JoinThread
  <2> QED
    BY <1>2, <2>1, <2>2, <2>3 DEF MainStep
<1>3. CASE NtfStep \/ Lock \/ SpuriousWakeUp
  <2>1. CASE Dequeue
    <3>1. queue # <<>> => <<Head(queue)>> # <<>>
      OBVIOUS
    <3> QED
      BY <2>1, <3>1 DEF Dequeue
  <2>2. CASE Handle \/ Throw
    BY <2>2 DEF Handle, Throw
  <2>3. CASE TestRun \/ StartWait \/ Lock \/ SpuriousWakeUp
    BY <2>3 DEF TestRun, StartWait, Lock, SpuriousWakeUp
  <2> QED
    BY <1>3, <2>1, <2>2, <2>3 DEF NtfStep
<1>4. ASSUME NEW w \in VendorThread, Raise(w) \/ Signal(w) PROVE MutexInv'
  BY <1>4 DEF Raise, Signal
<1> QED
  BY <1>1, <1>2, <1>3, <1>4 DEF Next

LEMMA MappedInvIsInductive ==
  TypeOK /\ MutexInv /\ MappedInv /\ [Next]_vars => MappedInv'
<1> SUFFICES ASSUME TypeOK, MutexInv, MappedInv, [Next]_vars PROVE MappedInv'
  OBVIOUS
<1> USE DEF MappedInv, flow, threads, redis, TypeOK
<1>1. CASE UNCHANGED vars
  BY <1>1 DEF vars
<1>2. CASE MainStep \/ StartRequest \/ RemoveLinecard \/ Restart
  BY <1>2 DEF MainStep, StartReinit, EndReinit, StartThread, VendorCreates, InsertMaps,
     SaveLinecard, ClientRemoves, EndRequest, StopThread, JoinThread, StartRequest,
     RemoveLinecard, Restart
<1>3. CASE NtfStep \/ Lock \/ SpuriousWakeUp
  BY <1>3 DEF NtfStep, TestRun, StartWait, Dequeue, Throw, Handle, Lock, SpuriousWakeUp
<1>4. ASSUME NEW w \in VendorThread, Raise(w) \/ Signal(w) PROVE MappedInv'
  BY <1>4 DEF Raise, Signal
<1> QED
  BY <1>1, <1>2, <1>3, <1>4 DEF Next

(* The item in hand was raised, so the linecard is mapped by now, unless a *)
(* client has removed it.                                                  *)
LEMMA NeverThrowsIsKept == PumpInv /\ [Next]_vars => NeverThrows'
<1> SUFFICES ASSUME PumpInv, [Next]_vars PROVE NeverThrows'
  OBVIOUS
<1>1. CASE Throw
  <2>1. item # <<>> /\ main # "created"
    BY <1>1 DEF Throw, PumpInv, MutexInv, Holding
  <2>2. raised # <<>>
    <3>1. handled \o item \in Seq(Notification) /\ queue \in Seq(Notification)
      BY ConcatProperties DEF PumpInv, TypeOK
    <3>2. Len(raised) = Len(handled) + Len(item) + Len(queue)
      BY <3>1, ConcatProperties DEF PumpInv, TypeOK, FirstInFirstOut
    <3>3. Len(item) > 0 /\ Len(handled) >= 0 /\ Len(queue) >= 0
      BY <2>1 DEF PumpInv, TypeOK
    <3> QED
      BY <3>2, <3>3
  <2>3. erased
    BY <1>1, <2>1, <2>2 DEF Throw, Untranslatable, PumpInv, MappedInv
  <2> QED
    BY <1>1, <2>3 DEF Throw, redis, NeverThrows
<1> QED
  BY <1>1 DEF Next, MainStep, NtfStep, vars, threads, flow, redis, PumpInv, NeverThrows,
     StartReinit, EndReinit, StartThread, StartRequest, VendorCreates, InsertMaps,
     SaveLinecard, ClientRemoves, EndRequest, RemoveLinecard, StopThread, JoinThread, Restart,
     TestRun, StartWait, SpuriousWakeUp, Dequeue, Lock, Handle, Raise, Signal

LEMMA PumpInvIsInvariant == Spec => []PumpInv
<1>1. Init => PumpInv
  <2> SUFFICES ASSUME Init PROVE PumpInv
    OBVIOUS
  <2>1. TypeOK
    <3>1. <<>> \in Seq(Notification) /\ Len(<<>>) <= 1
      OBVIOUS
    <3>2. queue \in Seq(Notification) /\ item \in Seq(Notification) /\ Len(item) <= 1
          /\ raised \in Seq(Notification) /\ handled \in Seq(Notification)
      BY <3>1 DEF Init
    <3>3. restarts \in 0 .. MaxRestarts
      BY BoundAssumption DEF Init
    <3>4. vendor \in [VendorThread -> {"idle", "signal"}]
      BY DEF Init
    <3>5. main \in MainPC /\ ntf \in NtfPC /\ mutex \in {"free", "main", "ntf"}
      BY DEF Init, MainPC, NtfPC
    <3>6. /\ runThread \in BOOLEAN /\ registered \in BOOLEAN
          /\ mapped \in BOOLEAN /\ saved \in BOOLEAN /\ erased \in BOOLEAN
      BY DEF Init
    <3> QED
      BY <3>2, <3>3, <3>4, <3>5, <3>6 DEF TypeOK
  <2>2. FirstInFirstOut
    BY ConcatEmptySeq DEF Init, FirstInFirstOut
  <2> QED
    BY <2>1, <2>2 DEF Init, PumpInv, MutexInv, Holding, MappedInv, NeverThrows
<1>2. PumpInv /\ [Next]_vars => PumpInv'
  BY TypeOKIsInductive, MutexInvIsInductive, FirstInFirstOutIsInductive,
     MappedInvIsInductive, NeverThrowsIsKept DEF PumpInv
<1> QED
  BY <1>1, <1>2, PTL DEF Spec

(* The state of syncd's pump has its types: in particular at most one item *)
(* is in hand, whatever the threads do.                                    *)
THEOREM TypeCorrect == Spec => []TypeOK
<1>1. PumpInv => TypeOK
  BY DEF PumpInv
<1> QED
  BY <1>1, PumpInvIsInvariant, PTL

(* Every notification is handled once and in the order it was queued in,   *)
(* with any number of vendor threads.                                      *)
THEOREM FirstInFirstOutAlways == Spec => []FirstInFirstOut
<1>1. PumpInv => FirstInFirstOut
  BY DEF PumpInv
<1> QED
  BY <1>1, PumpInvIsInvariant, PTL

(* m_mutex keeps the handler apart from requests and from hard reinit. *)
THEOREM HandlerExcludesRequestsAlways == Spec => []HandlerExcludesRequests
<1>1. PumpInv => HandlerExcludesRequests
  BY DEF PumpInv, MutexInv, Holding, HandlerExcludesRequests
<1> QED
  BY <1>1, PumpInvIsInvariant, PTL

(* A notification that the linecard raises inside its create, or inside    *)
(* the hard reinit of a restart, finds the linecard in the maps: the       *)
(* processing thread throws only once a client has removed the linecard.   *)
THEOREM NeverThrowsAlways == Spec => []NeverThrows
<1>1. PumpInv => NeverThrows
  BY DEF PumpInv
<1> QED
  BY <1>1, PumpInvIsInvariant, PTL
=============================================================================
