-------------------------- MODULE CardState_proofs --------------------------
(***************************************************************************)
(* Proofs about CardState, for every set of objects and values and every   *)
(* bound: type correctness, CountersBack and ConfigRestored.               *)
(***************************************************************************)
EXTENDS CardState, TLAPS

(* The sets of steps of the main thread are always expanded. *)
USE DEF Step, Reinit

(* Counting up to a bound. *)
UsedOK ==
  /\ used \in [{"loss", "request", "exit"} -> Nat]
  /\ used["loss"] <= MaxLosses /\ used["request"] <= MaxRequests /\ used["exit"] <= MaxExits

LEMMA Counting ==
  ASSUME UsedOK, NEW b \in {"loss", "request", "exit"}, Count(b),
         b = "loss" => used["loss"] < MaxLosses,
         b = "request" => used["request"] < MaxRequests,
         b = "exit" => used["exit"] < MaxExits
  PROVE  UsedOK'
<1>1. used' \in [{"loss", "request", "exit"} -> Nat]
  BY DEF UsedOK, Count
<1>2. \A x \in {"loss", "request", "exit"} : used'[x] = IF x = b THEN used[b] + 1 ELSE used[x]
  BY DEF UsedOK, Count
<1>3. \A x \in {"loss", "request", "exit"} : used[x] \in Nat
  BY DEF UsedOK
<1> QED
  BY <1>1, <1>2, <1>3, CardAssumption DEF UsedOK

(* What the proofs below need of notices and of how many were passed on. *)
Queued == notices \in Seq({"ACTIVE", "INACTIVE"}) /\ passed \in 0 .. Len(notices)

LEMMA QueuedRaise ==
  ASSUME Queued, NEW x \in {"ACTIVE", "INACTIVE"}, Raise(x)
  PROVE  Queued'
<1>1. CASE ~hears
  BY <1>1 DEF Raise, events, Queued
<1>2. CASE hears
  <2>1. notices' = Append(notices, x) /\ passed' = passed
    BY <1>2 DEF Raise
  <2>2. notices' \in Seq({"ACTIVE", "INACTIVE"}) /\ Len(notices') = Len(notices) + 1
    BY <2>1 DEF Queued
  <2> QED
    BY <2>1, <2>2 DEF Queued
<1> QED
  BY <1>1, <1>2

LEMMA QueuedPop ==
  ASSUME Queued, passed > 0, notices' = Tail(notices), passed' = passed - 1
  PROVE  Queued' /\ notices # <<>> /\ Head(notices) \in {"ACTIVE", "INACTIVE"}
<1>1. Len(notices) \in Nat \ {0} /\ notices # <<>>
  BY DEF Queued
<1>2. notices' \in Seq({"ACTIVE", "INACTIVE"}) /\ Len(notices') = Len(notices) - 1
  BY <1>1 DEF Queued
<1>3. Head(notices) \in {"ACTIVE", "INACTIVE"}
  BY <1>1 DEF Queued
<1> QED
  BY <1>1, <1>2, <1>3 DEF Queued

(* The parts of TypeOK. *)
CardOK ==
  /\ link \in BOOLEAN /\ preconfig \in BOOLEAN /\ hears \in BOOLEAN
  /\ card \in [Target -> Values \cup {None, Handler}]

SavedOK ==
  /\ queue \in Seq(Request) /\ saving \subseteq Request
  /\ db \in [Target -> Values \cup {None}]
  /\ entries \subseteq Objects /\ mapped \subseteq Objects

ThreadOK ==
  /\ ntf \in {"off", "late", "waiting", "draining"}
  /\ main \in Step /\ hard \in BOOLEAN
  /\ todo \subseteq Target
  /\ state \in {"ACTIVE", "INACTIVE"}

HistoryOK ==
  /\ flexKeys \subseteq Objects /\ collected \subseteq Objects
  /\ subscribed \subseteq flexKeys /\ left \subseteq Objects /\ missed \in BOOLEAN

LEMMA TypeOKParts == TypeOK <=> CardOK /\ Queued /\ SavedOK /\ ThreadOK /\ HistoryOK /\ UsedOK
BY DEF TypeOK, CardOK, Queued, SavedOK, ThreadOK, HistoryOK, UsedOK

LEMMA TypeOKAfter ==
  ASSUME CardOK', Queued', SavedOK', ThreadOK', HistoryOK', UsedOK'
  PROVE  TypeOK'
BY DEF TypeOK, CardOK, Queued, SavedOK, ThreadOK, HistoryOK, UsedOK

LEMMA TypeExit ==
  ASSUME TypeOK, Exit
  PROVE  TypeOK'
<1>1. UsedOK'
  BY Counting, TypeOKParts DEF Exit
<1>2. Queued'
  BY DEF Exit, End, Queued
<1>3. CardOK' /\ SavedOK'
  BY TypeOKParts DEF Exit, End, device, tables, CardOK, SavedOK
<1>4. ThreadOK' /\ HistoryOK'
  BY TypeOKParts DEF Exit, End, tables, history, ThreadOK, HistoryOK
<1> QED
  BY <1>1, <1>2, <1>3, <1>4, TypeOKAfter

(* What a request names. *)
LEMMA Requests ==
  ASSUME NEW r \in Request
  PROVE  /\ r.on \in Target
         /\ r.op \in {"create", "remove"} => r.on \in Objects
         /\ r.op = "set" => r.value \in Values
         /\ r.op \in {"set", "create", "remove"}
         /\ \A S \in SUBSET Objects : Changed(S, r) \subseteq Objects
BY DEF Request, Target, Changed

LEMMA TypeLink ==
  ASSUME TypeOK, LoseLink \/ RegainLink \/ Send
  PROVE  TypeOK'
<1>1. CASE LoseLink
  <2>1. Queued' /\ UsedOK'
    BY <1>1, Counting, QueuedRaise, TypeOKParts DEF LoseLink
  <2>2. CardOK' /\ ThreadOK'
    BY <1>1, TypeOKParts DEF LoseLink, Raise, events, thread, CardOK, ThreadOK, Nothing
  <2>3. SavedOK' /\ HistoryOK'
    BY <1>1, TypeOKParts DEF LoseLink, tables, SavedOK, HistoryOK
  <2> QED
    BY <2>1, <2>2, <2>3, TypeOKAfter
<1>2. CASE RegainLink
  <2>1. Queued'
    BY <1>2, QueuedRaise, TypeOKParts DEF RegainLink
  <2>2. CardOK' /\ ThreadOK'
    BY <1>2, TypeOKParts DEF RegainLink, Raise, events, thread, CardOK, ThreadOK
  <2>3. SavedOK' /\ HistoryOK' /\ UsedOK'
    BY <1>2, TypeOKParts DEF RegainLink, tables, history, SavedOK, HistoryOK, UsedOK
  <2> QED
    BY <2>1, <2>2, <2>3, TypeOKAfter
<1>3. CASE Send
  <2>1. UsedOK'
    BY <1>3, Counting, TypeOKParts DEF Send
  <2>2. SavedOK'
    BY <1>3, TypeOKParts DEF Send, tables, SavedOK
  <2>3. CardOK' /\ Queued' /\ ThreadOK' /\ HistoryOK'
    BY <1>3, TypeOKParts DEF Send, device, events, tables, thread, history, CardOK, Queued,
                             ThreadOK, HistoryOK
  <2> QED
    BY <2>1, <2>2, <2>3, TypeOKAfter
<1> QED
  BY <1>1, <1>2, <1>3

LEMMA TypeNotifications ==
  ASSUME TypeOK, Notifications \/ OtherSignal
  PROVE  TypeOK'
<1>1. /\ UNCHANGED <<device, hears, notices, queue, saving, tables, collected, thread, history, used>>
      /\ ntf' \in {"late", "waiting", "draining"}
  BY DEF Notifications, OtherSignal, Forward, Drained, Wait, NtfStep
<1>2. passed' = passed \/ (passed < Len(notices) /\ passed' = passed + 1)
  BY DEF Notifications, OtherSignal, Forward, Drained, Wait
<1>3. Queued'
  BY <1>1, <1>2, TypeOKParts DEF Queued
<1>4. CardOK' /\ SavedOK' /\ ThreadOK' /\ HistoryOK' /\ UsedOK'
  BY <1>1, TypeOKParts DEF device, tables, thread, history, CardOK, SavedOK, ThreadOK, HistoryOK,
                           UsedOK
<1> QED
  BY <1>3, <1>4, TypeOKAfter

LEMMA TypeRequest ==
  ASSUME TypeOK, HandleRequest \/ Save
  PROVE  TypeOK'
<1>1. CASE HandleRequest
  <2> DEFINE r == Head(queue)
  <2>1. r \in Request /\ queue' \in Seq(Request)
    BY <1>1, TypeOKParts DEF HandleRequest, SavedOK
  <2>2. card' \in [Target -> Values \cup {None, Handler}]
    BY <1>1, <2>1, Requests, TypeOKParts DEF HandleRequest, Fixed, CardOK
  <2>3. mapped' \subseteq Objects /\ saving' \subseteq Request
    BY <1>1, <2>1, Requests, TypeOKParts DEF HandleRequest, SavedOK
  <2>4. CardOK' /\ SavedOK'
    BY <1>1, <2>1, <2>2, <2>3, TypeOKParts DEF HandleRequest, events, CardOK, SavedOK
  <2>5. Queued' /\ ThreadOK' /\ HistoryOK' /\ UsedOK'
    BY <1>1, TypeOKParts DEF HandleRequest, events, thread, history, Queued, ThreadOK, HistoryOK,
                             UsedOK
  <2> QED
    BY <2>4, <2>5, TypeOKAfter
<1>2. CASE Save
  <2>1. PICK r \in saving :
          /\ db' = [db EXCEPT ![r.on] = IF r.op = "set" THEN Recorded(r) ELSE None]
          /\ entries' = Changed(entries, r)
          /\ left' = left \ {r.on}
    BY <1>2 DEF Save
  <2>2. r \in Request
    BY TypeOKParts DEF SavedOK
  <2>3. db' \in [Target -> Values \cup {None}] /\ entries' \subseteq Objects
    BY <2>1, <2>2, Requests, TypeOKParts DEF Recorded, SavedOK
  <2>4. SavedOK' /\ HistoryOK'
    BY <1>2, <2>1, <2>3, TypeOKParts DEF Save, SavedOK, HistoryOK
  <2>5. CardOK' /\ Queued' /\ ThreadOK' /\ UsedOK'
    BY <1>2, TypeOKParts DEF Save, device, events, thread, CardOK, Queued, ThreadOK, UsedOK
  <2> QED
    BY <2>4, <2>5, TypeOKAfter
<1> QED
  BY <1>1, <1>2

LEMMA TypeLoop ==
  ASSUME TypeOK, HandleCounterSet \/ HandleCounterDel \/ RestartQuery \/ HandleLinecardState
  PROVE  TypeOK'
<1>1. CASE HandleCounterSet \/ HandleCounterDel
  <2>1. HistoryOK'
    BY <1>1, TypeOKParts DEF HandleCounterSet, HandleCounterDel, HistoryOK
  <2>2. CardOK' /\ Queued' /\ SavedOK' /\ ThreadOK' /\ UsedOK'
    BY <1>1, TypeOKParts DEF HandleCounterSet, HandleCounterDel, device, events, thread, CardOK,
                             Queued, SavedOK, ThreadOK, UsedOK
  <2> QED
    BY <2>1, <2>2, TypeOKAfter
<1>2. CASE RestartQuery
  <2>1. CardOK' /\ Queued' /\ SavedOK' /\ ThreadOK' /\ HistoryOK' /\ UsedOK'
    BY <1>2, TypeOKParts DEF RestartQuery, device, events, tables, history, CardOK, Queued,
                             SavedOK, ThreadOK, HistoryOK, UsedOK
  <2> QED
    BY <2>1, TypeOKAfter
<1>3. CASE HandleLinecardState
  <2>1. Queued'
    BY <1>3, QueuedPop, TypeOKParts DEF HandleLinecardState, Popped
  <2>2. /\ collected' \subseteq Objects /\ queue' \in Seq(Request) /\ missed' \in BOOLEAN
        /\ main' \in Step /\ todo' \subseteq Target /\ state' \in {"ACTIVE", "INACTIVE"}
        /\ hard' \in BOOLEAN
    <3>1. CASE UNCHANGED <<collected, queue, thread, missed>>
      BY <1>3, <3>1, TypeOKParts DEF thread, HistoryOK, SavedOK, ThreadOK
    <3>2. CASE HandleInactive
      BY <1>3, <3>2, TypeOKParts DEF HandleInactive, HistoryOK, SavedOK, ThreadOK
    <3>3. CASE HandleActive
      BY <1>3, <3>3, TypeOKParts DEF HandleActive, Goto, HistoryOK, SavedOK, ThreadOK
    <3> QED
      BY <1>3, <3>1, <3>2, <3>3 DEF HandleLinecardState
  <2>3. CardOK' /\ SavedOK' /\ ThreadOK' /\ HistoryOK' /\ UsedOK'
    BY <1>3, <2>2, TypeOKParts DEF HandleLinecardState, device, tables, CardOK, SavedOK, ThreadOK,
                                   HistoryOK, UsedOK
  <2> QED
    BY <2>1, <2>3, TypeOKAfter
<1> QED
  BY <1>1, <1>2, <1>3

(* A step of either reinit that does not end the process. *)
ReinitStep == SoftReinit \/ SetStateHandler \/ CreateObject \/ CheckAllIds

LEMMA ReinitStays ==
  ASSUME ReinitStep, ~Exit
  PROVE  Reinits /\ saving' = saving /\ main \in Reinit /\ main' \in Reinit \cup {"serving"}
BY DEF ReinitStep, SoftReinit, StartPreConfiguration, SetBoardMode, SetLinecardAttribute,
       SetStateHandler, LinecardSet, CreateObject, SetObjectAttribute, ObjectsSet,
       StopPreConfiguration, CheckAllIds, AddCounters, OrExit, Goto

LEMMA ReinitCard ==
  ASSUME TypeOK, ReinitStep, ~Exit
  PROVE  CardOK'
<1>1. link' = link
  BY ReinitStays DEF Reinits
<1>2. preconfig' \in BOOLEAN /\ hears' \in BOOLEAN
  BY TypeOKParts DEF CardOK, ReinitStep, SoftReinit, StartPreConfiguration, SetBoardMode,
       SetLinecardAttribute, SetStateHandler, LinecardSet, CreateObject, SetObjectAttribute,
       ObjectsSet, StopPreConfiguration, CheckAllIds, AddCounters, OrExit
<1>3. CASE UNCHANGED card
  BY <1>1, <1>2, <1>3, TypeOKParts DEF CardOK
<1>4. CASE SetBoardMode
  BY <1>1, <1>2, <1>4, TypeOKParts DEF SetBoardMode, CardOK, SavedOK, Target, LinecardAttr
<1>5. CASE SetLinecardAttribute
  <2>1. PICK t \in todo : card' = [card EXCEPT ![t] = IF hard THEN Fixed(t, db[t]) ELSE db[t]]
    BY <1>5 DEF SetLinecardAttribute, OrExit
  <2>2. t \in Target
    BY <2>1, TypeOKParts DEF ThreadOK
  <2> QED
    BY <1>1, <1>2, <2>1, <2>2, TypeOKParts DEF CardOK, SavedOK, Fixed
<1>6. CASE CreateObject
  <2>1. PICK o \in todo : \E value \in {card[o], None} : card' = [card EXCEPT ![o] = value]
    BY <1>6 DEF CreateObject, OrExit
  <2>2. o \in Target
    BY <2>1, TypeOKParts DEF ThreadOK
  <2> QED
    BY <1>1, <1>2, <2>1, <2>2, TypeOKParts DEF CardOK
<1>7. CASE SetObjectAttribute
  <2>1. PICK o \in todo : card' = IF link THEN [card EXCEPT ![o] = db[o]] ELSE card
    BY <1>7 DEF SetObjectAttribute
  <2>2. o \in Target
    BY <2>1, TypeOKParts DEF ThreadOK
  <2> QED
    BY <1>1, <1>2, <2>1, <2>2, TypeOKParts DEF CardOK, SavedOK
<1>8. CASE \/ StartPreConfiguration \/ SetStateHandler \/ LinecardSet \/ ObjectsSet
           \/ StopPreConfiguration \/ CheckAllIds \/ AddCounters
  BY <1>3, <1>8 DEF StartPreConfiguration, SetStateHandler, LinecardSet, ObjectsSet,
                    StopPreConfiguration, CheckAllIds, AddCounters, OrExit
<1> QED
  BY <1>4, <1>5, <1>6, <1>7, <1>8 DEF ReinitStep, SoftReinit

LEMMA ReinitThread ==
  ASSUME TypeOK, ReinitStep, ~Exit
  PROVE  /\ ntf' \in {"off", "late", "waiting", "draining"}
         /\ todo' \subseteq Target
         /\ state' \in {"ACTIVE", "INACTIVE"}
         /\ collected' \subseteq Objects
<1>1. ntf' \in {"off", "late", "waiting", "draining"}
  BY TypeOKParts DEF ThreadOK, ReinitStep, SoftReinit, StartPreConfiguration, SetBoardMode,
       SetLinecardAttribute, SetStateHandler, LinecardSet, CreateObject, SetObjectAttribute,
       ObjectsSet, StopPreConfiguration, CheckAllIds, AddCounters, OrExit
<1>2. state' \in {"ACTIVE", "INACTIVE"} /\ collected' \subseteq Objects
  BY TypeOKParts DEF ThreadOK, HistoryOK, ReinitStep, SoftReinit, StartPreConfiguration,
       SetBoardMode, SetLinecardAttribute, SetStateHandler, LinecardSet, CreateObject,
       SetObjectAttribute, ObjectsSet, StopPreConfiguration, CheckAllIds, AddCounters, OrExit,
       Recollected
<1>3. todo' \subseteq Target
  BY TypeOKParts DEF ThreadOK, SavedOK, ReinitStep, SoftReinit, StartPreConfiguration,
       SetBoardMode, SetLinecardAttribute, SetStateHandler, LinecardSet, CreateObject,
       SetObjectAttribute, ObjectsSet, StopPreConfiguration, CheckAllIds, AddCounters, OrExit,
       Goto, Saved, Target
<1> QED
  BY <1>1, <1>2, <1>3

(* The reinit works on objects while it is at them. *)
ObjectsTodo == main = "objects" => todo \subseteq Objects

LEMMA ReinitLeft ==
  ASSUME TypeOK, ObjectsTodo, ReinitStep, ~Exit
  PROVE  left' \subseteq Objects
<1>1. CASE CreateObject \/ SetObjectAttribute
  <2>1. PICK o \in todo : left' = left \ {o} \/ left' = left \cup {o}
    BY <1>1 DEF CreateObject, SetObjectAttribute, OrExit
  <2>2. o \in Objects
    BY <1>1, <2>1 DEF CreateObject, SetObjectAttribute, ObjectsTodo
  <2> QED
    BY <2>1, <2>2, TypeOKParts DEF HistoryOK
<1>2. CASE UNCHANGED left
  BY <1>2, TypeOKParts DEF HistoryOK
<1> QED
  BY <1>1, <1>2 DEF ReinitStep, SoftReinit, StartPreConfiguration, SetBoardMode,
       SetLinecardAttribute, SetStateHandler, LinecardSet, ObjectsSet,
       StopPreConfiguration, CheckAllIds, AddCounters, OrExit

LEMMA TypeReinit ==
  ASSUME TypeOK, ObjectsTodo, ReinitStep, ~Exit
  PROVE  TypeOK'
<1>1. /\ UNCHANGED <<link, notices, passed, queue, tables, hard, subscribed, missed, used>>
      /\ saving' = saving /\ main' \in Step
  BY ReinitStays DEF Reinits
<1>2. CardOK'
  BY ReinitCard
<1>3. Queued' /\ SavedOK' /\ UsedOK'
  BY <1>1, TypeOKParts DEF Queued, SavedOK, UsedOK, tables
<1>4. ThreadOK'
  BY <1>1, ReinitThread, TypeOKParts DEF ThreadOK
<1>5. HistoryOK'
  BY <1>1, ReinitThread, ReinitLeft, TypeOKParts DEF HistoryOK, tables
<1> QED
  BY <1>2, <1>3, <1>4, <1>5, TypeOKAfter

LEMMA TypeStart ==
  ASSUME TypeOK, WaitLinecardStateActive \/ HardCreate, ~Exit
  PROVE  TypeOK'
<1>1. /\ UNCHANGED <<device, events, queue, saving, tables, collected, hard, subscribed, left, used>>
      /\ todo' = {} /\ main' \in Step /\ state' \in {"ACTIVE", "INACTIVE"} /\ missed' \in BOOLEAN
  BY TypeOKParts DEF WaitLinecardStateActive, HardCreate, OrExit, Goto, ActiveAtStart, history,
                     ThreadOK, HistoryOK
<1>2. CardOK' /\ Queued' /\ SavedOK' /\ ThreadOK' /\ HistoryOK' /\ UsedOK'
  BY <1>1, TypeOKParts DEF device, events, tables, CardOK, Queued, SavedOK, ThreadOK, HistoryOK,
                           UsedOK
<1> QED
  BY <1>2, TypeOKAfter

LEMMA ObjectsTodoIsInductive == TypeOK /\ ObjectsTodo /\ [Next]_vars => ObjectsTodo'
<1> SUFFICES ASSUME TypeOK, ObjectsTodo, [Next]_vars PROVE ObjectsTodo'
  OBVIOUS
<1> USE DEF ObjectsTodo
<1>1. CASE UNCHANGED thread
  BY <1>1 DEF thread
<1>2. CASE Exit
  BY <1>2 DEF Exit, End
<1>3. CASE LinecardSet
  BY <1>3, TypeOKParts DEF LinecardSet, Goto, Saved, SavedOK
<1>4. CASE (CreateObject \/ SetObjectAttribute) /\ ~Exit
  BY <1>4 DEF CreateObject, SetObjectAttribute, OrExit, Goto
<1>5. CASE /\ ~Exit
           /\ \/ StartPreConfiguration \/ SetBoardMode \/ SetLinecardAttribute
              \/ SetStateHandler \/ ObjectsSet \/ StopPreConfiguration \/ CheckAllIds
              \/ AddCounters \/ WaitLinecardStateActive \/ HardCreate
  BY <1>5 DEF StartPreConfiguration, SetBoardMode, SetLinecardAttribute, SetStateHandler,
              ObjectsSet, StopPreConfiguration, CheckAllIds, AddCounters, OrExit, Goto,
              WaitLinecardStateActive, HardCreate
<1>6. CASE HandleLinecardState \/ RestartQuery
  BY <1>1, <1>6 DEF HandleLinecardState, HandleInactive, HandleActive, Goto, RestartQuery, Serving
<1>7. CASE \/ LoseLink \/ RegainLink \/ Send \/ OtherSignal \/ HandleCounterSet
           \/ HandleCounterDel \/ HandleRequest \/ Save \/ Notifications
  BY <1>1, <1>7 DEF LoseLink, RegainLink, Send, OtherSignal, HandleCounterSet, HandleCounterDel,
                    HandleRequest, Save, Notifications, Forward, Drained, Wait, NtfStep
<1> QED
  BY <1>1, <1>2, <1>3, <1>4, <1>5, <1>6, <1>7
  DEF Next, MainLoop, HardReinit, SoftReinit, Kill, Close, vars

LEMMA TypeOKIsInductive == TypeOK /\ ObjectsTodo /\ [Next]_vars => TypeOK'
<1> SUFFICES ASSUME TypeOK, ObjectsTodo, [Next]_vars PROVE TypeOK'
  OBVIOUS
<1>1. CASE UNCHANGED vars
  BY <1>1 DEF vars, device, events, tables, thread, history, TypeOK
<1>2. CASE Exit
  BY <1>2, TypeExit
<1>3. CASE ReinitStep /\ ~Exit
  BY <1>3, TypeReinit
<1> QED
  BY <1>1, <1>2, <1>3, TypeLink, TypeNotifications, TypeRequest, TypeLoop, TypeStart
  DEF Next, MainLoop, HardReinit, Kill, Close, ReinitStep

LEMMA InitTypeOK == Init => TypeOK /\ ObjectsTodo
<1> SUFFICES ASSUME Init PROVE TypeOK /\ ObjectsTodo
  OBVIOUS
<1>1. UsedOK
  BY CardAssumption DEF Init, UsedOK
<1>2. /\ card \in [Target -> Values \cup {None, Handler}]
      /\ db \in [Target -> Values \cup {None}]
  BY DEF Init, Nothing
<1>3. CardOK /\ SavedOK
  <2>1. queue \in Seq(Request)
    BY DEF Init
  <2> HIDE DEF Step, Reinit
  <2>2. /\ link \in BOOLEAN /\ preconfig \in BOOLEAN /\ hears \in BOOLEAN
        /\ saving \subseteq Request /\ entries \subseteq Objects /\ mapped \subseteq Objects
    BY DEF Init
  <2> QED
    BY <1>2, <2>1, <2>2 DEF CardOK, SavedOK
<1>4. Queued
  BY DEF Init, Queued
<1>5. ThreadOK /\ HistoryOK
  BY DEF Init, ThreadOK, HistoryOK
<1> QED
  BY <1>1, <1>3, <1>4, <1>5, TypeOKParts DEF Init, ObjectsTodo

(* Type correctness. *)
THEOREM TypeCorrect == Spec => []TypeOK
<1>1. TypeOK /\ ObjectsTodo /\ [Next]_vars => (TypeOK /\ ObjectsTodo)'
  BY TypeOKIsInductive, ObjectsTodoIsInductive
<1> QED
  BY <1>1, InitTypeOK, PTL DEF Spec

-----------------------------------------------------------------------------
(* Collectors. *)

CountersInv ==
  /\ collected \subseteq flexKeys
  /\ main = "serving" /\ state = "ACTIVE" => subscribed \subseteq collected

LEMMA CountersInvIsInductive == TypeOK /\ CountersInv /\ [Next]_vars => CountersInv'
<1> SUFFICES ASSUME TypeOK, CountersInv, [Next]_vars PROVE CountersInv'
  OBVIOUS
<1> USE DEF CountersInv
<1>1. CASE UNCHANGED <<collected, flexKeys, subscribed, main, state>>
  BY <1>1
<1>2. CASE HandleCounterSet \/ HandleCounterDel
  BY <1>2 DEF HandleCounterSet, HandleCounterDel, thread
<1>3. CASE Exit
  BY <1>3 DEF Exit, End, tables
<1>4. CASE HandleLinecardState
  BY <1>4 DEF HandleLinecardState, HandleInactive, HandleActive, Goto, thread, tables
<1>5. CASE AddCounters
  BY <1>5 DEF AddCounters, Recollected, Reinits, tables, TypeOK
<1>6. CASE ReinitStep /\ ~Exit /\ ~AddCounters
  <2>1. UNCHANGED <<flexKeys, subscribed>>
    BY <1>6, ReinitStays DEF Reinits, tables
  <2>2. collected' = collected /\ main' # "serving"
    BY <1>6 DEF ReinitStep, SoftReinit, StartPreConfiguration, SetBoardMode,
         SetLinecardAttribute, SetStateHandler, LinecardSet, CreateObject, SetObjectAttribute,
         ObjectsSet, StopPreConfiguration, CheckAllIds, OrExit, Goto
  <2> QED
    BY <2>1, <2>2
<1>7. CASE (WaitLinecardStateActive \/ HardCreate \/ RestartQuery) /\ ~Exit
  BY <1>7 DEF WaitLinecardStateActive, HardCreate, RestartQuery, OrExit, Goto, tables, history
<1>8. CASE LoseLink \/ RegainLink \/ Send \/ HandleRequest \/ Save \/ Notifications \/ OtherSignal
  BY <1>1, <1>8 DEF LoseLink, RegainLink, Send, HandleRequest, Save, Notifications, OtherSignal,
                    Forward, Drained, Wait, NtfStep, tables, thread, history
<1> QED
  BY <1>1, <1>2, <1>3, <1>4, <1>5, <1>6, <1>7, <1>8
  DEF Next, MainLoop, HardReinit, Kill, Close, ReinitStep, vars, tables, thread, history

(* Every counter that was accepted and not deleted has its collector       *)
(* whenever the card is active, and no other one has.                      *)
THEOREM CountersBackAlways == Spec => []CountersBack
<1>1. Init => CountersInv
  BY DEF Init, CountersInv
<1>2. CountersInv => CountersBack
  BY DEF CountersInv, CountersBack
<1> QED
  BY <1>1, <1>2, TypeCorrect, CountersInvIsInductive, PTL DEF Spec

-----------------------------------------------------------------------------
(* The configuration.  As long as a loss of the link is among the notices, *)
(* the card may differ from ASIC_STATE; what a step of the reinit leaves   *)
(* behind because the link was lost is made up for when that notice comes. *)

LossAhead == \E i \in DOMAIN notices : notices[i] = "INACTIVE"
Last == notices[Len(notices)]
Same(t) == db[t] # None => card[t] = db[t]
LinecardSame(except) == \A t \in LinecardAttr \ ({"pointer"} \cup except) : Same(t)
ObjectsSame(except) == \A o \in Objects \ (left \cup except) : Same(o)
Unsaved == {r.on : r \in saving}

(* ASIC_STATE has the objects that have a RID, up to the request that is   *)
(* being saved, once checkAllIds has found it so; each process begins with *)
(* a hard reinit.                                                          *)
Checked == main \in {"counters", "serving", "closing"} \/ (main \in Reinit /\ ~hard)

MapsInv ==
  /\ \A o \in Objects \ entries : db[o] = None
  /\ main \in {"wait", "create"} => hard
  /\ saving # {} => main \in {"serving", "closing"}
  /\ \A r, q \in saving : r = q
  /\ \A r \in saving : r.op = "set" /\ r.on \in Objects => r.on \in entries
  /\ Checked /\ saving = {} => entries = mapped
  /\ \A r \in saving : Checked => mapped = Changed(entries, r)

(* While the link is down syncd knows it, or its last notice will tell,    *)
(* unless nobody could tell yet.                                           *)
LossTold ==
  /\ main \in {"serving", "closing"} \/ (main \in Reinit /\ ~hard)
     \/ main \in {"objects", "stop", "check", "counters"} => hears
  /\ main \notin {"wait", "create"} /\ ~link =>
       IF ~hears THEN missed
       ELSE IF notices = <<>> THEN state = "INACTIVE" /\ main \in {"serving", "closing"}
       ELSE Last = "INACTIVE"

(* The pre-configuration has ended. *)
Stopped == main \in {"check", "counters", "serving", "closing"} => ~preconfig

(* What was executed and is not saved yet. *)
UnsavedSet ==
  ~LossAhead =>
    \A r \in saving : r.op = "set" /\ r.on # "pointer" => card[r.on] = r.value

Progress ==
  ~LossAhead /\ ~missed =>
    /\ main = "linecard" => LinecardSame(todo)
    /\ main = "objects" => LinecardSame({}) /\ ObjectsSame(todo)
    /\ main \in {"stop", "check", "counters"} => LinecardSame({}) /\ ObjectsSame({})
    /\ main \in {"serving", "closing"} /\ state = "ACTIVE" =>
         LinecardSame(Unsaved) /\ ObjectsSame(Unsaved)

ConfigInv == MapsInv /\ LossTold /\ Stopped /\ UnsavedSet /\ Progress

LEMMA Appended ==
  ASSUME Queued, NEW x \in {"ACTIVE", "INACTIVE"}, notices' = Append(notices, x)
  PROVE  notices' # <<>> /\ Last' = x /\ (LossAhead' <=> LossAhead \/ x = "INACTIVE")
<1>1. /\ notices \in Seq({"ACTIVE", "INACTIVE"})
      /\ Len(notices) \in Nat /\ DOMAIN notices = 1 .. Len(notices)
  BY DEF Queued
<1>2. /\ Len(notices') = Len(notices) + 1
      /\ DOMAIN notices' = 1 .. Len(notices) + 1
      /\ \A i \in 1 .. Len(notices) : notices'[i] = notices[i]
      /\ notices'[Len(notices) + 1] = x
  BY <1>1
<1>3. notices' # <<>> /\ Last' = x
  BY <1>1, <1>2 DEF Last
<1>4. LossAhead' <=> LossAhead \/ x = "INACTIVE"
  BY <1>1, <1>2 DEF LossAhead
<1> QED
  BY <1>3, <1>4

LEMMA PoppedOne ==
  ASSUME Queued, notices # <<>>, notices' = Tail(notices)
  PROVE  /\ LossAhead <=> LossAhead' \/ Head(notices) = "INACTIVE"
         /\ notices' # <<>> => Last' = Last
         /\ notices' = <<>> => Last = Head(notices)
         /\ Head(notices) \in {"ACTIVE", "INACTIVE"}
<1>1. /\ notices \in Seq({"ACTIVE", "INACTIVE"})
      /\ Len(notices) \in Nat \ {0} /\ DOMAIN notices = 1 .. Len(notices)
      /\ Head(notices) = notices[1]
  BY DEF Queued
<1>2. /\ notices' \in Seq({"ACTIVE", "INACTIVE"})
      /\ Len(notices') = Len(notices) - 1
      /\ DOMAIN notices' = 1 .. Len(notices) - 1
      /\ \A i \in 1 .. Len(notices) - 1 : notices'[i] = notices[i + 1]
  BY <1>1
<1>3. LossAhead => LossAhead' \/ Head(notices) = "INACTIVE"
  <2> SUFFICES ASSUME NEW i \in DOMAIN notices, notices[i] = "INACTIVE", i # 1 PROVE LossAhead'
    BY <1>1 DEF LossAhead
  <2>1. i - 1 \in DOMAIN notices' /\ notices'[i - 1] = "INACTIVE"
    BY <1>1, <1>2
  <2> QED
    BY <2>1 DEF LossAhead
<1>4. LossAhead' \/ Head(notices) = "INACTIVE" => LossAhead
  <2>1. ASSUME NEW i \in DOMAIN notices', notices'[i] = "INACTIVE" PROVE LossAhead
    <3>1. i + 1 \in DOMAIN notices /\ notices[i + 1] = "INACTIVE"
      BY <1>1, <1>2, <2>1
    <3> QED
      BY <3>1 DEF LossAhead
  <2>2. 1 \in DOMAIN notices
    BY <1>1
  <2> QED
    BY <1>1, <2>1, <2>2 DEF LossAhead
<1>5. notices' # <<>> => Last' = Last
  BY <1>1, <1>2 DEF Last
<1>6. ASSUME notices' = <<>> PROVE Last = Head(notices)
  <2>1. Len(notices') = 0
    BY <1>2, <1>6
  <2>2. Len(notices) = 1
    BY <2>1, <1>1, <1>2
  <2> QED
    BY <2>2, <1>1 DEF Last
<1> QED
  BY <1>1, <1>3, <1>4, <1>5, <1>6

(* In the middle of the reinit, a link that is down has its notice waiting. *)
LEMMA LossPending ==
  ASSUME Queued, LossTold, main \in Reinit, ~link
  PROVE  LossAhead \/ missed
<1>1. CASE ~hears
  BY <1>1 DEF LossTold
<1>2. CASE hears
  <2>1. notices # <<>> /\ Last = "INACTIVE"
    BY <1>2 DEF LossTold
  <2>2. Len(notices) \in DOMAIN notices
    BY <2>1 DEF Queued
  <2> QED
    BY <2>1, <2>2 DEF LossAhead, Last
<1> QED
  BY <1>1, <1>2

(* Steps that leave alone what the invariant speaks of. *)
LEMMA ConfigUntouched ==
  ASSUME ConfigInv,
         UNCHANGED <<link, card, preconfig, hears, notices, saving, db, entries, mapped, main, hard,
                     todo, state, left, missed>>
  PROVE  ConfigInv'
BY DEF ConfigInv, MapsInv, Checked, LossTold, Stopped, UnsavedSet, Progress, LossAhead, Last,
       LinecardSame, ObjectsSame, Same, Unsaved

LEMMA ConfigLose ==
  ASSUME TypeOK, ConfigInv, LoseLink
  PROVE  ConfigInv'
<1>1. /\ UNCHANGED <<db, entries, mapped, left, main, hard, todo, state, saving, hears>>
      /\ link' = FALSE /\ preconfig' = FALSE /\ missed' = (missed \/ ~hears)
  BY DEF LoseLink, tables, thread, Raise, events
<1>2. MapsInv'
  BY <1>1 DEF ConfigInv, MapsInv, Checked
<1>3. Stopped'
  BY <1>1 DEF Stopped
<1>4. CASE hears
  <2>1. notices' # <<>> /\ Last' = "INACTIVE" /\ LossAhead'
    BY <1>4, Appended, TypeOKParts DEF LoseLink, Raise
  <2> QED
    BY <1>1, <1>2, <1>3, <1>4, <2>1 DEF ConfigInv, LossTold, UnsavedSet, Progress
<1>5. CASE ~hears
  <2>1. missed' /\ saving' = {}
    BY <1>1, <1>5 DEF ConfigInv, LossTold, MapsInv
  <2> QED
    BY <1>1, <1>2, <1>3, <1>5, <2>1 DEF ConfigInv, LossTold, UnsavedSet, Progress
<1> QED
  BY <1>4, <1>5

LEMMA ConfigRegain ==
  ASSUME TypeOK, ConfigInv, RegainLink
  PROVE  ConfigInv'
<1>1. /\ UNCHANGED <<db, entries, mapped, left, missed, main, hard, todo, state, saving, hears, card,
                     preconfig>>
      /\ link' = TRUE
  BY DEF RegainLink, tables, thread, history, Raise, events
<1>2. LossAhead' <=> LossAhead
  <2>1. CASE hears
    BY <2>1, Appended, TypeOKParts DEF RegainLink, Raise
  <2>2. CASE ~hears
    BY <2>2 DEF RegainLink, Raise, events, LossAhead
  <2> QED
    BY <2>1, <2>2
<1>3. MapsInv' /\ LossTold' /\ Stopped'
  BY <1>1 DEF ConfigInv, MapsInv, Checked, LossTold, Stopped
<1>4. UnsavedSet' /\ Progress'
  BY <1>1, <1>2 DEF ConfigInv, UnsavedSet, Progress, LinecardSame, ObjectsSame, Same, Unsaved
<1> QED
  BY <1>3, <1>4 DEF ConfigInv

LEMMA ConfigRequest ==
  ASSUME TypeOK, ConfigInv, HandleRequest
  PROVE  ConfigInv'
<1> DEFINE r == Head(queue)
<1>1. /\ UNCHANGED <<link, preconfig, hears, notices, main, hard, todo, state, db, entries, left,
                     missed>>
      /\ main \in {"serving", "closing"} /\ saving = {}
  BY DEF HandleRequest, thread, events, history, InLoop
<1>2. CASE ~Accepted(r)
  BY <1>1, <1>2, ConfigUntouched DEF HandleRequest
<1>3. CASE Accepted(r)
  <2>1. r \in Request
    BY TypeOKParts DEF HandleRequest, SavedOK
  <2>2. /\ r.on \in Target
        /\ r.op \in {"create", "remove"} => r.on \in Objects
        /\ r.op \in {"set", "create", "remove"}
    BY <2>1, Requests
  <2>3. /\ card' = [card EXCEPT ![r.on] = IF r.op = "set" THEN Fixed(r.on, r.value) ELSE None]
        /\ mapped' = Changed(mapped, r) /\ saving' = {r}
    BY <1>3 DEF HandleRequest
  <2>4. /\ \A t \in Target \ {r.on} : card'[t] = card[t]
        /\ r.op = "set" /\ r.on # "pointer" => card'[r.on] = r.value
    BY <2>2, <2>3, TypeOKParts DEF CardOK, Fixed
  <2>5. entries = mapped
    BY <1>1 DEF ConfigInv, MapsInv, Checked
  <2>6. MapsInv'
    <3>1. r.op = "set" /\ r.on \in Objects => r.on \in entries
      BY <1>3, <2>5 DEF Accepted
    <3> QED
      BY <1>1, <2>3, <2>5, <3>1 DEF ConfigInv, MapsInv, Checked
  <2>7. LossTold' /\ Stopped'
    BY <1>1 DEF ConfigInv, LossTold, Stopped, Last
  <2>8. UnsavedSet'
    BY <2>3, <2>4 DEF UnsavedSet
  <2>9. Unsaved' = {r.on} /\ Unsaved = {}
    BY <1>1, <2>3 DEF Unsaved
  <2>10. Progress'
    <3>1. LossAhead' <=> LossAhead
      BY <1>1 DEF LossAhead
    <3>2. LinecardSame(Unsaved) => LinecardSame(Unsaved)'
      BY <1>1, <2>4, <2>9 DEF LinecardSame, Same, Target
    <3>3. ObjectsSame(Unsaved) => ObjectsSame(Unsaved)'
      BY <1>1, <2>4, <2>9 DEF ObjectsSame, Same, Target
    <3> QED
      BY <1>1, <3>1, <3>2, <3>3 DEF ConfigInv, Progress
  <2> QED
    BY <2>6, <2>7, <2>8, <2>10 DEF ConfigInv
<1> QED
  BY <1>2, <1>3

LEMMA ConfigSave ==
  ASSUME TypeOK, ConfigInv, Save
  PROVE  ConfigInv'
<1>1. PICK r \in saving :
        /\ db' = [db EXCEPT ![r.on] = IF r.op = "set" THEN r.value ELSE None]
        /\ entries' = Changed(entries, r)
        /\ left' = left \ {r.on}
  BY DEF Save, Recorded
<1>2. /\ UNCHANGED <<link, card, preconfig, hears, notices, mapped, main, hard, todo, state, missed>>
      /\ saving' = {} /\ main \in {"serving", "closing"}
  BY <1>1 DEF Save, device, events, thread, ConfigInv, MapsInv
<1>3. /\ r.on \in Target
      /\ r.op \in {"create", "remove"} => r.on \in Objects
      /\ r.op \in {"set", "create", "remove"}
  BY Requests, TypeOKParts DEF SavedOK
<1>4. /\ \A t \in Target \ {r.on} : db'[t] = db[t]
      /\ db'[r.on] = IF r.op = "set" THEN r.value ELSE None
  BY <1>1, <1>3, TypeOKParts DEF SavedOK
<1>5. mapped = Changed(entries, r)
  BY <1>2 DEF ConfigInv, MapsInv, Checked
<1>6. MapsInv'
  <2> SUFFICES ASSUME NEW o \in Objects \ entries' PROVE db'[o] = None
    BY <1>1, <1>2, <1>5 DEF MapsInv, Checked
  <2>1. CASE o = r.on
    <3>1. r.op # "set"
      BY <1>1, <2>1 DEF Changed, ConfigInv, MapsInv
    <3> QED
      BY <1>4, <2>1, <3>1
  <2>2. CASE o # r.on
    <3>1. o \notin entries
      BY <1>1, <1>3, <2>2 DEF Changed
    <3> QED
      BY <1>4, <2>2, <3>1 DEF ConfigInv, MapsInv, Target
  <2> QED
    BY <2>1, <2>2
<1>7. LossTold' /\ Stopped' /\ UnsavedSet'
  BY <1>2 DEF ConfigInv, LossTold, Stopped, UnsavedSet, Last
<1>8. Unsaved = {r.on} /\ Unsaved' = {}
  BY <1>2 DEF ConfigInv, MapsInv, Unsaved
<1>9. ~LossAhead /\ r.on # "pointer" => db'[r.on] = None \/ card'[r.on] = db'[r.on]
  BY <1>2, <1>4 DEF ConfigInv, UnsavedSet
<1>10. ~LossAhead /\ LinecardSame(Unsaved) => LinecardSame(Unsaved)'
  <2> SUFFICES ASSUME ~LossAhead, LinecardSame(Unsaved), NEW t \in LinecardAttr \ {"pointer"},
                      db'[t] # None
               PROVE  card'[t] = db'[t]
    BY <1>8 DEF LinecardSame, Same
  <2> QED
    BY <1>2, <1>4, <1>8, <1>9 DEF LinecardSame, Same, Target
<1>11. ~LossAhead /\ ObjectsSame(Unsaved) => ObjectsSame(Unsaved)'
  <2> SUFFICES ASSUME ~LossAhead, ObjectsSame(Unsaved), NEW o \in Objects \ left', db'[o] # None
               PROVE  card'[o] = db'[o]
    BY <1>8 DEF ObjectsSame, Same
  <2>1. o # "pointer"
    BY CardAssumption DEF LinecardAttr
  <2> QED
    BY <1>1, <1>2, <1>4, <1>8, <1>9, <2>1 DEF ObjectsSame, Same, Target
<1>12. Progress'
  <2>1. LossAhead' <=> LossAhead
    BY <1>2 DEF LossAhead
  <2> QED
    BY <1>2, <1>10, <1>11, <2>1 DEF ConfigInv, Progress
<1> QED
  BY <1>6, <1>7, <1>12 DEF ConfigInv

LEMMA ConfigNotice ==
  ASSUME TypeOK, ConfigInv, HandleLinecardState
  PROVE  ConfigInv'
<1>1. /\ UNCHANGED <<link, card, preconfig, hears, saving, db, entries, mapped, left>>
      /\ main = "serving" /\ saving = {} /\ passed > 0 /\ notices' = Tail(notices)
  BY DEF HandleLinecardState, Popped, device, tables, Serving, InLoop
<1>2. notices # <<>>
  BY <1>1, TypeOKParts DEF Queued
<1>3. /\ LossAhead <=> LossAhead' \/ Head(notices) = "INACTIVE"
      /\ notices' # <<>> => Last' = Last
      /\ notices' = <<>> => Last = Head(notices)
      /\ Head(notices) \in {"ACTIVE", "INACTIVE"}
  BY <1>1, <1>2, PoppedOne, TypeOKParts
<1>4. \/ /\ state' = "INACTIVE" /\ main' = "serving" /\ Head(notices) = "INACTIVE"
         /\ missed' = missed
      \/ state' = state /\ main' = "serving" /\ Head(notices) = "ACTIVE" /\ missed' = missed
      \/ state' = state /\ main' = "preconfig" /\ Head(notices) = "ACTIVE" /\ hard' = FALSE
  BY <1>1, <1>3 DEF HandleLinecardState, Popped, HandleInactive, HandleActive, Goto, thread
<1>5. hears
  BY <1>1 DEF ConfigInv, LossTold
<1>6. MapsInv' /\ UnsavedSet' /\ Stopped'
  BY <1>1, <1>4 DEF ConfigInv, MapsInv, Checked, UnsavedSet, Stopped
<1>7. LossTold'
  BY <1>1, <1>2, <1>3, <1>4, <1>5 DEF ConfigInv, LossTold
<1>8. Progress'
  <2>1. Head(notices) = "ACTIVE" => (LossAhead' <=> LossAhead)
    BY <1>3
  <2>2. Unsaved' = Unsaved
    BY <1>1 DEF Unsaved
  <2> QED
    BY <1>1, <1>4, <2>1, <2>2 DEF ConfigInv, Progress, LinecardSame, ObjectsSame, Same
<1> QED
  BY <1>6, <1>7, <1>8 DEF ConfigInv

(* The steps of the reinit, but for what Progress says. *)
LEMMA ReinitFrame ==
  ASSUME TypeOK, ConfigInv, ReinitStep, ~Exit
  PROVE  /\ UNCHANGED <<link, notices, saving, db, entries, mapped, hard, missed>>
         /\ saving = {} /\ main \in Reinit
         /\ MapsInv' /\ LossTold' /\ Stopped' /\ UnsavedSet'
         /\ LossAhead' <=> LossAhead
         /\ ~link => LossAhead \/ missed
<1>1. /\ UNCHANGED <<link, notices, saving, db, entries, mapped, hard, missed>>
      /\ main \in Reinit /\ main' \in Reinit \cup {"serving"}
  BY ReinitStays DEF Reinits, tables
<1>2. saving = {} /\ saving' = {}
  BY <1>1 DEF ConfigInv, MapsInv
<1>3. Checked' => Checked \/ entries = mapped
  BY <1>1 DEF Checked, ReinitStep, SoftReinit, StartPreConfiguration, SetBoardMode,
       SetLinecardAttribute, SetStateHandler, LinecardSet, CreateObject, SetObjectAttribute,
       ObjectsSet, StopPreConfiguration, CheckAllIds, AddCounters, OrExit, Goto
<1>4. MapsInv'
  BY <1>1, <1>2, <1>3 DEF ConfigInv, MapsInv
<1>5. /\ hears => hears'
      /\ hears' /\ ~hears => link
      /\ main' = "objects" /\ main # "objects" => hears
      /\ main' \in {"stop", "check", "counters", "serving"} =>
           main \in {"objects", "stop", "check", "counters"}
      /\ main' \in {"objects"} => main \in {"linecard", "objects"}
  BY DEF ReinitStep, SoftReinit, StartPreConfiguration, SetBoardMode,
       SetLinecardAttribute, SetStateHandler, LinecardSet, CreateObject, SetObjectAttribute,
       ObjectsSet, StopPreConfiguration, CheckAllIds, AddCounters, OrExit, Goto
<1>6. LossTold'
  <2>1. main' = "serving" => main = "counters"
    BY DEF ReinitStep, SoftReinit, StartPreConfiguration, SetBoardMode,
       SetLinecardAttribute, SetStateHandler, LinecardSet, CreateObject, SetObjectAttribute,
       ObjectsSet, StopPreConfiguration, CheckAllIds, AddCounters, OrExit, Goto
  <2>2. /\ main' \in {"serving", "closing"} \/ (main' \in Reinit /\ ~hard')
           \/ main' \in {"objects", "stop", "check", "counters"} => hears'
    BY <1>1, <1>5, <2>1 DEF ConfigInv, LossTold
  <2>3. ASSUME ~link
        PROVE  IF ~hears' THEN missed ELSE notices # <<>> /\ Last = "INACTIVE"
    BY <1>1, <1>5, <2>3 DEF ConfigInv, LossTold
  <2> QED
    BY <1>1, <2>2, <2>3 DEF LossTold, Last
<1>7. Stopped'
  BY DEF ConfigInv, Stopped, ReinitStep, SoftReinit, StartPreConfiguration, SetBoardMode,
       SetLinecardAttribute, SetStateHandler, LinecardSet, CreateObject, SetObjectAttribute,
       ObjectsSet, StopPreConfiguration, CheckAllIds, AddCounters, OrExit, Goto
<1>8. UnsavedSet' /\ (LossAhead' <=> LossAhead)
  BY <1>1, <1>2 DEF UnsavedSet, LossAhead
<1>9. ~link => LossAhead \/ missed
  BY <1>1, LossPending, TypeOKParts DEF ConfigInv
<1> QED
  BY <1>1, <1>2, <1>4, <1>6, <1>7, <1>8, <1>9

LEMMA ProgressLinecard ==
  ASSUME TypeOK, ConfigInv, ReinitStep, ~Exit,
         SetBoardMode \/ SetLinecardAttribute \/ SetStateHandler \/ LinecardSet
  PROVE  Progress'
<1>1. /\ UNCHANGED <<db, entries, missed>>
      /\ LossAhead' <=> LossAhead
      /\ ~link => LossAhead \/ missed
  BY ReinitFrame
<1>2. DOMAIN card = Target
  BY TypeOKParts DEF CardOK
<1>3. CASE SetBoardMode
  <2>1. main' = "linecard" /\ todo' = Saved(LinecardAttr \ {"mode"})
    BY <1>3 DEF SetBoardMode, Goto
  <2>2. link => LinecardSame(todo)'
    <3> SUFFICES ASSUME link, NEW t \in LinecardAttr \ {"pointer"}, t \notin todo', db[t] # None
                 PROVE  card'[t] = db[t]
      BY <1>1 DEF LinecardSame, Same
    <3>1. t = "mode"
      BY <2>1 DEF Saved
    <3>2. card' = [card EXCEPT !["mode"] = db["mode"]] /\ "mode" \in Target
      BY <1>3, <3>1 DEF SetBoardMode, Target, LinecardAttr
    <3> QED
      BY <1>2, <3>1, <3>2
  <2> QED
    BY <1>1, <2>1, <2>2 DEF Progress
<1>4. CASE SetLinecardAttribute
  <2>1. PICK t \in todo : /\ card' = [card EXCEPT ![t] = IF hard THEN Fixed(t, db[t]) ELSE db[t]]
                          /\ todo' = todo \ {t}
                          /\ main = "linecard" /\ main' = "linecard"
    BY <1>4 DEF SetLinecardAttribute, OrExit, Goto
  <2>2. t # "pointer" => card'[t] = db[t]
    BY <1>2, <2>1, TypeOKParts DEF Fixed, ThreadOK
  <2>3. LinecardSame(todo) => LinecardSame(todo)'
    BY <1>1, <1>2, <2>1, <2>2 DEF LinecardSame, Same, Target
  <2> QED
    BY <1>1, <2>1, <2>3 DEF ConfigInv, Progress
<1>5. CASE SetStateHandler
  BY <1>1, <1>5 DEF SetStateHandler, OrExit, Goto, ConfigInv, Progress, LinecardSame, Same
<1>6. CASE LinecardSet
  <2>1. /\ main = "linecard" /\ todo = {} /\ main' = "objects"
        /\ todo' = IF hard THEN entries ELSE Saved(entries)
        /\ UNCHANGED <<card, left>>
    BY <1>6 DEF LinecardSet, Goto
  <2>2. LinecardSame(todo) => LinecardSame({})'
    BY <1>1, <2>1 DEF LinecardSame, Same
  <2>3. ObjectsSame(todo)'
    <3> SUFFICES ASSUME NEW o \in Objects, o \notin todo', db[o] # None PROVE FALSE
      BY <1>1, <2>1 DEF ObjectsSame, Same
    <3>1. o \in entries
      BY DEF ConfigInv, MapsInv
    <3> QED
      BY <2>1, <3>1 DEF Saved
  <2> QED
    BY <1>1, <2>1, <2>2, <2>3 DEF ConfigInv, Progress
<1> QED
  BY <1>3, <1>4, <1>5, <1>6

LEMMA ProgressObjects ==
  ASSUME TypeOK, ConfigInv, ReinitStep, ~Exit, ObjectsTodo, CreateObject \/ SetObjectAttribute
  PROVE  Progress'
<1>1. /\ UNCHANGED <<db, missed>>
      /\ LossAhead' <=> LossAhead
      /\ ~link => LossAhead \/ missed
  BY ReinitFrame
<1>2. DOMAIN card = Target
  BY TypeOKParts DEF CardOK
<1>3. ASSUME NEW o \in todo, main = "objects", main' = "objects", todo' = todo \ {o},
             left' \in {left \ {o}, left \cup {o}}, o \in left' \/ card'[o] = db[o],
             \A t \in Target \ {o} : card'[t] = card[t]
      PROVE  Progress'
  <2>1. o \in Objects /\ o \notin LinecardAttr
    BY <1>3, CardAssumption DEF ObjectsTodo
  <2>2. LinecardSame({}) => LinecardSame({})'
    BY <1>1, <1>3, <2>1 DEF LinecardSame, Same, Target
  <2>3. ObjectsSame(todo) => ObjectsSame(todo)'
    <3> SUFFICES ASSUME ObjectsSame(todo), NEW p \in Objects \ left', p \notin todo',
                        db[p] # None
                 PROVE  card'[p] = db[p]
      BY <1>1 DEF ObjectsSame, Same
    <3>1. CASE p = o
      BY <1>3, <3>1
    <3>2. CASE p # o
      BY <1>3, <3>2 DEF ObjectsSame, Same, Target
    <3> QED
      BY <3>1, <3>2
  <2> QED
    BY <1>1, <1>3, <2>2, <2>3 DEF ConfigInv, Progress
<1>4. CASE CreateObject
  <2>1. PICK o \in todo : \E value \in {card[o], None} :
          /\ card' = [card EXCEPT ![o] = value]
          /\ left' = IF value = db[o] THEN left \ {o} ELSE left \cup {o}
          /\ main = "objects" /\ main' = "objects" /\ todo' = todo \ {o}
    BY <1>4 DEF CreateObject, OrExit, Goto
  <2>2. o \in Target
    BY <2>1, TypeOKParts DEF ThreadOK
  <2>3. /\ left' \in {left \ {o}, left \cup {o}}
        /\ o \in left' \/ card'[o] = db[o]
        /\ \A t \in Target \ {o} : card'[t] = card[t]
    BY <1>2, <2>1, <2>2
  <2> QED
    BY <1>3, <2>1, <2>3
<1>5. CASE SetObjectAttribute
  <2>1. CASE ~link
    BY <1>1, <2>1 DEF Progress
  <2>2. CASE link
    <3>1. PICK o \in todo : /\ card' = [card EXCEPT ![o] = db[o]]
                            /\ left' = left \ {o}
                            /\ main = "objects" /\ main' = "objects" /\ todo' = todo \ {o}
      BY <1>5, <2>2 DEF SetObjectAttribute, Goto
    <3>2. o \in Target
      BY <3>1, TypeOKParts DEF ThreadOK
    <3>3. card'[o] = db[o] /\ \A t \in Target \ {o} : card'[t] = card[t]
      BY <1>2, <3>1, <3>2
    <3> QED
      BY <1>3, <3>1, <3>3
  <2> QED
    BY <2>1, <2>2
<1> QED
  BY <1>4, <1>5

LEMMA ConfigReinit ==
  ASSUME TypeOK, ConfigInv, ObjectsTodo, ReinitStep, ~Exit
  PROVE  ConfigInv'
<1>1. /\ UNCHANGED <<db, missed>> /\ saving = {} /\ saving' = {}
      /\ MapsInv' /\ LossTold' /\ Stopped' /\ UnsavedSet'
      /\ LossAhead' <=> LossAhead
  BY ReinitFrame
<1>2. Unsaved' = {}
  BY <1>1 DEF Unsaved
<1>3. CASE StartPreConfiguration
  BY <1>1, <1>3 DEF StartPreConfiguration, OrExit, Goto, ConfigInv, Progress
<1>4. CASE ObjectsSet \/ StopPreConfiguration \/ CheckAllIds \/ AddCounters
  <2>1. UNCHANGED <<card, left>>
    BY <1>4 DEF ObjectsSet, StopPreConfiguration, CheckAllIds, AddCounters, OrExit
  <2>2. /\ (main = "objects" /\ todo = {}) \/ main \in {"stop", "check", "counters"}
        /\ main' \in {"stop", "check", "counters", "serving"}
    BY <1>4 DEF ObjectsSet, StopPreConfiguration, CheckAllIds, AddCounters, OrExit, Goto
  <2>3. ~LossAhead /\ ~missed => LinecardSame({}) /\ ObjectsSame({})
    BY <2>2 DEF ConfigInv, Progress
  <2>4. ~LossAhead /\ ~missed => LinecardSame({})' /\ ObjectsSame({})'
    BY <1>1, <2>1, <2>3 DEF LinecardSame, ObjectsSame, Same
  <2>5. Progress'
    BY <1>1, <1>2, <2>2, <2>4 DEF Progress
  <2> QED
    BY <1>1, <2>5 DEF ConfigInv
<1> QED
  BY <1>1, <1>3, <1>4, ProgressLinecard, ProgressObjects DEF ReinitStep, SoftReinit, ConfigInv

LEMMA ConfigStart ==
  ASSUME TypeOK, ConfigInv, WaitLinecardStateActive \/ HardCreate, ~Exit
  PROVE  ConfigInv'
<1>1. /\ UNCHANGED <<device, events, tables, hard, saving>>
      /\ main \in {"wait", "create"} /\ main' \in {"create", "preconfig"}
      /\ main' = "preconfig" => link
  BY DEF WaitLinecardStateActive, HardCreate, OrExit, Goto
<1>2. saving' = {}
  BY <1>1 DEF ConfigInv, MapsInv
<1> QED
  BY <1>1, <1>2
  DEF device, events, tables, ConfigInv, MapsInv, Checked, LossTold, Stopped, UnsavedSet, Progress

(* A process that ends in the reinit or anywhere else starts with a hard   *)
(* one.                                                                    *)
LEMMA ConfigExit ==
  ASSUME ConfigInv, Exit
  PROVE  ConfigInv'
<1>1. UNCHANGED <<device, tables>> /\ main' = "wait" /\ hard' = TRUE /\ saving' = {}
  BY DEF Exit, End
<1> QED
  BY <1>1 DEF tables, ConfigInv, MapsInv, Checked, LossTold, Stopped, UnsavedSet, Progress

LEMMA ConfigClosing ==
  ASSUME ConfigInv, RestartQuery
  PROVE  ConfigInv'
<1>1. /\ UNCHANGED <<link, card, preconfig, hears, notices, saving, db, entries, mapped, hard, todo,
                     state, left, missed>>
      /\ main = "serving" /\ main' = "closing"
  BY DEF RestartQuery, Serving, device, events, tables, history
<1> QED
  BY <1>1 DEF ConfigInv, MapsInv, Checked, LossTold, Stopped, UnsavedSet, Progress, LossAhead,
              Last, LinecardSame, ObjectsSame, Same, Unsaved

LEMMA ConfigInvIsInductive == TypeOK /\ ObjectsTodo /\ ConfigInv /\ [Next]_vars => ConfigInv'
<1> SUFFICES ASSUME TypeOK, ObjectsTodo, ConfigInv, [Next]_vars PROVE ConfigInv'
  OBVIOUS
<1>1. CASE UNCHANGED vars \/ Send \/ HandleCounterSet \/ HandleCounterDel
  BY <1>1, ConfigUntouched
  DEF vars, Send, HandleCounterSet, HandleCounterDel, device, events, tables, thread, history
<1>2. CASE Notifications \/ OtherSignal
  BY <1>2, ConfigUntouched DEF Notifications, OtherSignal, Forward, Drained, Wait, NtfStep,
                               device, tables, thread, history
<1>3. CASE Exit
  BY <1>3, ConfigExit
<1>4. CASE ReinitStep /\ ~Exit
  BY <1>4, ConfigReinit
<1> QED
  BY <1>1, <1>2, <1>3, <1>4, ConfigLose, ConfigRegain, ConfigRequest, ConfigSave, ConfigNotice,
     ConfigStart, ConfigClosing
  DEF Next, MainLoop, HardReinit, ReinitStep, Kill, Close

(* However the link flaps, and at whatever step of the soft or the hard    *)
(* reinit it is lost, the settled card has the values of ASIC_STATE, unless *)
(* it was lost before the card could tell.                                 *)
THEOREM ConfigRestoredAlways == Spec => []ConfigRestored
<1>1. Init => ConfigInv
  BY DEF Init, Nothing, ConfigInv, MapsInv, Checked, LossTold, Stopped, UnsavedSet, Progress, Target
<1>2. ASSUME TypeOK, ConfigInv, Settled
      PROVE  /\ ~preconfig
             /\ ~missed =>
                  \A t \in Target \ (left \cup {"pointer"}) : db[t] # None => card[t] = db[t]
  <2>1. ~LossAhead /\ Unsaved = {} /\ main = "serving" /\ state = "ACTIVE"
    BY <1>2 DEF Settled, LossAhead, Unsaved
  <2>2. ~preconfig /\ (~missed => LinecardSame({}) /\ ObjectsSame({}))
    BY <1>2, <2>1 DEF ConfigInv, Stopped, Progress
  <2>3. \A t \in Target \ (left \cup {"pointer"}) :
          t \in LinecardAttr \ {"pointer"} \/ t \in Objects \ left
    BY DEF Target
  <2> QED
    BY <2>2, <2>3 DEF LinecardSame, ObjectsSame, Same
<1>3. TypeOK /\ ConfigInv => ConfigRestored
  BY <1>2 DEF ConfigRestored
<1>4. TypeOK /\ ObjectsTodo /\ ConfigInv /\ [Next]_vars => (TypeOK /\ ObjectsTodo /\ ConfigInv)'
  BY TypeOKIsInductive, ObjectsTodoIsInductive, ConfigInvIsInductive
<1> QED
  BY <1>1, <1>3, <1>4, InitTypeOK, PTL DEF Spec
=============================================================================
