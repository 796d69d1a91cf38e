-------------------------- MODULE ClientApi_proofs --------------------------
(***************************************************************************)
(* Proofs about ClientApi, for every set of threads, every number of       *)
(* contexts and notifications and both environments: type correctness,     *)
(* that no notification thread outlives its context, and the delivery of   *)
(* quick notifications.                                                    *)
(***************************************************************************)
EXTENDS ClientApi, TLAPS

(* The API mutex is held by the thread that is inside a call, or by a      *)
(* callback's; when the process ends the application is in none.           *)
MutexInv ==
  /\ \A a \in Thread : app[a] # "idle" => mutex = a
  /\ \A k \in Context : ntf[k] = "calling" => mutex = k
  /\ exiting # "no" => \A a \in Thread : app[a] = "idle"

(* The context that initialize has made and not yet put in place; those    *)
(* that are not made yet have no thread.                                   *)
ContextInv ==
  /\ context = contexts \/ \E a \in Thread : app[a] = "replace" /\ contexts = context + 1
  /\ \A a \in Thread :
       /\ app[a] = "construct" => contexts < MaxContext
       /\ app[a] = "replace" => contexts = context + 1
       /\ app[a] = "join" => context > 1
       /\ app[a] \in {"creating", "created", "removing"} => context > 0
  /\ apiInitialized \/ exiting = "join" => context > 0
  /\ \A k \in freed : k <= contexts
  /\ \A k \in Context : k > contexts => ntf[k] = "none"

(* Syncd has created a linecard for context k, and the client has its      *)
(* callbacks, is in the call that puts them in place, or has given it up.  *)
Known(k) ==
  k \in linecard \cup abandoned \/ (k = context /\ \E a \in Thread : app[a] = "created")

KnownNext(k) ==
  k \in linecard' \cup abandoned' \/ (k = context' /\ \E a \in Thread : app'[a] = "created")

NotificationInv ==
  /\ origin # 0 => Known(origin)
  /\ late \subseteq linecard \cup abandoned
  /\ \A k \in Context :
       /\ item[k] # 0 => Known(item[k])
       /\ \A i \in 1 .. Len(inbox[k]) : Known(inbox[k][i])

ApiInv == TypeOK /\ MutexInv /\ ContextInv

LEMMA TypeOKIsInductive == ApiInv /\ [Next]_vars => TypeOK'
<1> SUFFICES ASSUME ApiInv, [Next]_vars PROVE TypeOK'
  OBVIOUS
<1> USE BoundAssumption DEF ApiInv, TypeOK, contextVars, linecards, flow, EndCall, Context, AppPC, NtfPC
<1>1. CASE UNCHANGED vars
  BY <1>1 DEF vars
<1>2. ASSUME NEW a \in Thread, Initialize(a) \/ Uninitialize(a) \/ Call(a) PROVE TypeOK'
  BY <1>2 DEF Initialize, Uninitialize, Call, Ready, Goto
<1>3. ASSUME NEW a \in Thread, ConstructContext(a) PROVE TypeOK'
  <2>1. contexts + 1 \in Context
    BY <1>3 DEF ConstructContext, ContextInv
  <2> QED
    BY <1>3, <2>1 DEF ConstructContext, Goto
<1>4. ASSUME NEW a \in Thread, ReplaceContext(a) PROVE TypeOK'
  <2>1. contexts \in Context
    BY <1>4 DEF ReplaceContext, ContextInv
  <2>2. CASE context = 0
    BY <1>4, <2>1, <2>2 DEF ReplaceContext, EndInitialize, Goto
  <2>3. CASE context # 0
    BY <1>4, <2>1, <2>3 DEF ReplaceContext, StopChannel, Goto
  <2> QED
    BY <2>2, <2>3
<1>5. ASSUME NEW a \in Thread, JoinOldThread(a) PROVE TypeOK'
  <2>1. context - 1 \in Context
    BY <1>5 DEF JoinOldThread, ContextInv
  <2> QED
    BY <1>5, <2>1 DEF JoinOldThread, EndInitialize, Goto
<1>6. ASSUME NEW a \in Thread, SyncdCreates(a) PROVE TypeOK'
  BY <1>6 DEF SyncdCreates, Goto
<1>7. ASSUME NEW a \in Thread, CreateReturns(a) \/ CreateTimesOut(a) \/ RemoveReturns(a)
      PROVE  TypeOK'
  <2>1. context \in Context
    BY <1>7 DEF CreateReturns, CreateTimesOut, RemoveReturns, ContextInv
  <2>2. CASE CreateReturns(a)
    BY <2>1, <2>2 DEF CreateReturns, Goto
  <2>3. CASE CreateTimesOut(a)
    BY <2>1, <2>3 DEF CreateTimesOut, Goto
  <2>4. CASE RemoveReturns(a)
    BY <2>1, <2>4 DEF RemoveReturns, Goto
  <2> QED
    BY <1>7, <2>2, <2>3, <2>4
<1>8. ASSUME NEW a \in Thread, CallReturns(a) PROVE TypeOK'
  BY <1>8 DEF CallReturns, Goto
<1>9. CASE DestroyApi
  BY <1>9 DEF DestroyApi, StopChannel
<1>10. CASE JoinAtExit
  BY <1>10 DEF JoinAtExit, ContextInv
<1>11. CASE Publish
  <2>1. origin \in Context
    BY <1>11 DEF Publish
  <2>2. \A k \in Context : Append(inbox[k], origin) \in Seq(Context)
    BY <2>1
  <2>3. inbox' \in [Context -> Seq(Context)]
    BY <1>11, <2>2 DEF Publish
  <2>4. published' \in 0 .. MaxPublished
    BY <1>11 DEF Publish
  <2> QED
    BY <1>11, <2>3, <2>4 DEF Publish
<1>12. ASSUME NEW k \in Context, TakeNotification(k) PROVE TypeOK'
  <2>1. Head(inbox[k]) \in Context /\ Tail(inbox[k]) \in Seq(Context)
    BY <1>12 DEF TakeNotification
  <2> QED
    BY <1>12, <2>1 DEF TakeNotification, NtfGoto
<1>13. ASSUME NEW k \in Context, TakeEndEvent(k) PROVE TypeOK'
  BY <1>13 DEF TakeEndEvent, NtfGoto
<1>14. ASSUME NEW k \in Context, CallbackCalls(k) \/ CallbackCallReturns(k) PROVE TypeOK'
  BY <1>14 DEF CallbackCalls, CallbackCallReturns, NtfGoto
<1>15. ASSUME NEW k \in Context, CallbackReturns(k) PROVE TypeOK'
  BY <1>15 DEF CallbackReturns, NextRound, NtfGoto
<1>16. ASSUME NEW k \in Context, HandleNotification(k) PROVE TypeOK'
  BY <1>16 DEF HandleNotification, NextRound, NtfGoto
<1>17. ASSUME NEW k \in Context, SyncdCreatesLate(k) PROVE TypeOK'
  BY <1>17 DEF SyncdCreatesLate
<1> QED
  BY <1>1, <1>2, <1>3, <1>4, <1>5, <1>6, <1>7, <1>8, <1>9, <1>10, <1>11, <1>12, <1>13, <1>14,
     <1>15, <1>16, <1>17
  DEF Next, AppStep, NtfStep

LEMMA ContextIsInductive == ApiInv /\ [Next]_vars => ContextInv'
<1> SUFFICES ASSUME ApiInv, [Next]_vars PROVE ContextInv'
  OBVIOUS
<1> USE BoundAssumption
    DEF ApiInv, TypeOK, MutexInv, ContextInv, contextVars, linecards, flow, EndCall, Context
<1>1. CASE UNCHANGED vars
  BY <1>1 DEF vars
<1>2. ASSUME NEW a \in Thread, Initialize(a) PROVE ContextInv'
  BY <1>2, ThreadAssumption DEF Initialize, Ready, Goto
<1>3. ASSUME NEW a \in Thread, ConstructContext(a) PROVE ContextInv'
  <2>1. \A b \in Thread : b # a => app[b] = "idle"
    BY <1>3 DEF ConstructContext
  <2>2. context = contexts
    BY <1>3, <2>1 DEF ConstructContext
  <2>3. app' = [app EXCEPT ![a] = "replace"] /\ contexts' = contexts + 1 /\ context' = context
        /\ freed' = freed /\ apiInitialized' = apiInitialized /\ exiting' = exiting
    BY <1>3 DEF ConstructContext, Goto
  <2>4. \A k \in Context : k > contexts' => ntf'[k] = "none"
    BY <1>3 DEF ConstructContext
  <2> QED
    BY <2>1, <2>2, <2>3, <2>4
<1>4. ASSUME NEW a \in Thread, ReplaceContext(a) PROVE ContextInv'
  <2>1. \A b \in Thread : b # a => app[b] = "idle"
    BY <1>4 DEF ReplaceContext
  <2>2. /\ contexts' = contexts /\ context' = contexts /\ contexts = context + 1
        /\ freed' = freed /\ exiting' = exiting /\ ntf' = ntf
    BY <1>4 DEF ReplaceContext
  <2>3. app' = [app EXCEPT ![a] = IF context = 0 THEN "idle" ELSE "join"]
    BY <1>4 DEF ReplaceContext, EndInitialize, Goto
  <2> QED
    BY <2>1, <2>2, <2>3
<1>5. ASSUME NEW a \in Thread, JoinOldThread(a) PROVE ContextInv'
  <2>1. \A b \in Thread : b # a => app[b] = "idle"
    BY <1>5 DEF JoinOldThread
  <2>2. app' = [app EXCEPT ![a] = "idle"]
    BY <1>5 DEF JoinOldThread, EndInitialize, Goto
  <2>3. /\ contexts' = contexts /\ context' = context /\ freed' = freed \cup {context - 1}
        /\ exiting' = exiting /\ ntf' = ntf
    BY <1>5 DEF JoinOldThread
  <2> QED
    BY <1>5, <2>1, <2>2, <2>3 DEF JoinOldThread
<1>6. ASSUME NEW a \in Thread, Uninitialize(a) PROVE ContextInv'
  BY <1>6 DEF Uninitialize
<1>7. ASSUME NEW a \in Thread, Call(a) PROVE ContextInv'
  <2>1. PICK to \in {"creating", "removing", "calling"} : app' = [app EXCEPT ![a] = to]
    BY <1>7 DEF Call, Goto
  <2>2. UNCHANGED <<apiInitialized, context, contexts, freed, exiting, ntf>> /\ context > 0
    BY <1>7 DEF Call, Ready
  <2>3. app[a] = "idle"
    BY <1>7 DEF Call, Ready
  <2> QED
    BY <2>1, <2>2, <2>3
<1>8. ASSUME NEW a \in Thread, SyncdCreates(a) PROVE ContextInv'
  BY <1>8 DEF SyncdCreates, Goto
<1>9. ASSUME NEW a \in Thread, CreateReturns(a) PROVE ContextInv'
  BY <1>9 DEF CreateReturns, Goto
<1>10. ASSUME NEW a \in Thread, CallReturns(a) \/ CreateTimesOut(a) \/ RemoveReturns(a)
       PROVE  ContextInv'
  <2>1. UNCHANGED <<apiInitialized, context, contexts, freed, exiting, ntf>>
    BY <1>10 DEF CallReturns, CreateTimesOut, RemoveReturns
  <2>2. app' = [app EXCEPT ![a] = "idle"] /\ app[a] \notin {"construct", "replace", "join"}
    BY <1>10 DEF CallReturns, CreateTimesOut, RemoveReturns, Goto
  <2> QED
    BY <2>1, <2>2
<1>11. CASE DestroyApi
  BY <1>11 DEF DestroyApi
<1>12. CASE JoinAtExit
  BY <1>12 DEF JoinAtExit
<1>13. CASE Publish
  BY <1>13 DEF Publish
<1>14. ASSUME NEW k \in Context, NtfStep(k) \/ HandleNotification(k) \/ CallbackCalls(k)
       PROVE  ContextInv'
  <2>1. UNCHANGED <<contextVars, app, exiting>>
    BY <1>14 DEF NtfStep, TakeNotification, TakeEndEvent, CallbackCallReturns, CallbackReturns,
       HandleNotification, CallbackCalls
  <2>2. ntf[k] # "none" /\ \E pc : ntf' = [ntf EXCEPT ![k] = pc]
    <3>1. CASE TakeNotification(k) \/ TakeEndEvent(k) \/ CallbackCalls(k) \/ CallbackCallReturns(k)
      BY <3>1 DEF TakeNotification, TakeEndEvent, CallbackCalls, CallbackCallReturns, NtfGoto
    <3>2. CASE CallbackReturns(k) \/ HandleNotification(k)
      BY <3>2 DEF CallbackReturns, HandleNotification, NtfGoto, NextRound
    <3> QED
      BY <1>14, <3>1, <3>2 DEF NtfStep
  <2>3. \A j \in Context : ntf[j] = "none" => ntf'[j] = "none"
    BY <2>2
  <2> QED
    BY <2>1, <2>3
<1>15. ASSUME NEW k \in Context, SyncdCreatesLate(k) PROVE ContextInv'
  BY <1>15 DEF SyncdCreatesLate
<1> QED
  BY <1>1, <1>2, <1>3, <1>4, <1>5, <1>6, <1>7, <1>8, <1>9, <1>10, <1>11, <1>12, <1>13, <1>14,
     <1>15
  DEF Next, AppStep

LEMMA MutexIsInductive == ApiInv /\ [Next]_vars => MutexInv'
<1> SUFFICES ASSUME ApiInv, [Next]_vars PROVE MutexInv'
  OBVIOUS
<1> USE ThreadAssumption DEF ApiInv, TypeOK, MutexInv, contextVars, linecards, flow, EndCall, Context, Goto
<1>1. CASE UNCHANGED vars
  BY <1>1 DEF vars
<1>2. ASSUME NEW a \in Thread, Initialize(a) \/ Call(a) PROVE MutexInv'
  <2>1. \A b \in Thread : app[b] = "idle"
    BY <1>2 DEF Initialize, Call
  <2>2. \A k \in Context : ntf[k] # "calling"
    BY <1>2 DEF Initialize, Call
  <2>3. mutex' = a /\ UNCHANGED <<ntf, exiting>> /\ exiting = "no"
    BY <1>2 DEF Initialize, Call, Ready
  <2>4. \A b \in Thread \ {a} : app'[b] = app[b]
    BY <1>2 DEF Initialize, Call
  <2> QED
    BY <2>1, <2>2, <2>3, <2>4
<1>3. ASSUME NEW a \in Thread, Uninitialize(a) \/ AppStep(a) PROVE MutexInv'
  <2>1. CASE Uninitialize(a)
    BY <2>1 DEF Uninitialize
  <2>2. CASE ConstructContext(a)
    <3>1. /\ mutex' = mutex /\ exiting' = exiting /\ app[a] = "construct"
          /\ app' = [app EXCEPT ![a] = "replace"]
          /\ contexts + 1 \in Nat /\ ntf' = [ntf EXCEPT ![contexts + 1] = "select"]
      BY <2>2 DEF ConstructContext
    <3>2. \A k \in Context : ntf'[k] = "calling" => ntf[k] = "calling"
      BY <3>1
    <3> QED
      BY <3>1, <3>2
  <2>3. CASE ReplaceContext(a)
    BY <2>3 DEF ReplaceContext, EndInitialize
  <2>4. CASE JoinOldThread(a)
    BY <2>4 DEF JoinOldThread, EndInitialize
  <2>5. CASE SyncdCreates(a)
    BY <2>5 DEF SyncdCreates
  <2>6. CASE CreateReturns(a)
    BY <2>6 DEF CreateReturns
  <2>7. CASE CallReturns(a) \/ CreateTimesOut(a) \/ RemoveReturns(a)
    <3>1. /\ app' = [app EXCEPT ![a] = "idle"] /\ mutex' = Nobody /\ app[a] # "idle"
          /\ UNCHANGED <<ntf, exiting>>
      BY <2>7 DEF CallReturns, CreateTimesOut, RemoveReturns
    <3>2. mutex = a /\ \A b \in Thread \ {a} : app[b] = "idle"
      BY <3>1
    <3> QED
      BY <3>1, <3>2
  <2> QED
    BY <1>3, <2>1, <2>2, <2>3, <2>4, <2>5, <2>6, <2>7 DEF AppStep
<1>4. CASE DestroyApi \/ JoinAtExit \/ Publish \/ \E k \in Context : SyncdCreatesLate(k)
  BY <1>4 DEF DestroyApi, JoinAtExit, Publish, SyncdCreatesLate
<1>5. ASSUME NEW k \in Context, NtfStep(k) \/ HandleNotification(k) \/ CallbackCalls(k)
      PROVE  MutexInv'
  <2>1. CASE TakeNotification(k) \/ TakeEndEvent(k)
    BY <2>1 DEF TakeNotification, TakeEndEvent, NtfGoto
  <2>2. CASE CallbackCallReturns(k)
    BY <2>2 DEF CallbackCallReturns, NtfGoto
  <2>3. CASE CallbackReturns(k)
    BY <2>3 DEF CallbackReturns, NtfGoto, NextRound
  <2>4. CASE HandleNotification(k)
    BY <2>4 DEF HandleNotification, MayHandle, NtfGoto, NextRound
  <2>5. CASE CallbackCalls(k)
    BY <2>5 DEF CallbackCalls, NtfGoto
  <2> QED
    BY <1>5, <2>1, <2>2, <2>3, <2>4, <2>5 DEF NtfStep
<1> QED
  BY <1>1, <1>2, <1>3, <1>4, <1>5 DEF Next

(* Once known, a context stays known: the create ends with its callbacks   *)
(* in place.                                                               *)
LEMMA KnownStays ==
  ASSUME ApiInv, [Next]_vars, NEW j, Known(j)
  PROVE  KnownNext(j)
<1> USE DEF Known, KnownNext, ApiInv, TypeOK, contextVars, linecards, flow, EndCall, Goto
<1>1. CASE j \in linecard \cup abandoned
  <2>1. ASSUME NEW a \in Thread, CreateReturns(a) \/ CreateTimesOut(a) \/ RemoveReturns(a)
        PROVE  j \in linecard' \cup abandoned'
    BY <1>1, <2>1 DEF CreateReturns, CreateTimesOut, RemoveReturns
  <2> QED
    BY <1>1, <2>1 DEF vars, Next, AppStep, NtfStep, Initialize, Uninitialize, Call,
     ConstructContext, ReplaceContext, JoinOldThread, SyncdCreates, SyncdCreatesLate, CallReturns,
     DestroyApi, JoinAtExit, Publish, TakeNotification, TakeEndEvent, CallbackCallReturns,
     CallbackReturns, HandleNotification, CallbackCalls
<1>2. ASSUME NEW a \in Thread, app[a] = "created", j = context, j \notin linecard \cup abandoned
      PROVE  KnownNext(j)
  <2>1. mutex = a /\ exiting = "no"
    BY <1>2 DEF MutexInv
  <2>2. \A b \in Thread : b # a => app[b] = "idle"
    BY <2>1 DEF MutexInv
  <2>3. CASE CreateReturns(a) \/ CreateTimesOut(a)
    BY <1>2, <2>3 DEF CreateReturns, CreateTimesOut
  <2>4. context' = context /\ app'[a] = app[a] => KnownNext(j)
    BY <1>2
  <2>5. CASE \E b \in Thread : Uninitialize(b)
    BY <2>4, <2>5 DEF Uninitialize
  <2>6. CASE \E b \in Thread : Initialize(b) \/ Call(b)
    BY <2>1, <2>6, ThreadAssumption DEF Initialize, Call
  <2>7. ~\E b \in Thread : AppStep(b) /\ ~(CreateReturns(a) \/ CreateTimesOut(a))
    BY <1>2, <2>2 DEF AppStep, ConstructContext, ReplaceContext, JoinOldThread, SyncdCreates,
       CreateReturns, CreateTimesOut, RemoveReturns, CallReturns
  <2>8. CASE UNCHANGED vars \/ DestroyApi \/ JoinAtExit \/ Publish
    BY <2>4, <2>8 DEF vars, DestroyApi, JoinAtExit, Publish
  <2>9. CASE \E k \in Context :
               SyncdCreatesLate(k) \/ NtfStep(k) \/ HandleNotification(k) \/ CallbackCalls(k)
    BY <2>4, <2>9 DEF SyncdCreatesLate, NtfStep, TakeNotification, TakeEndEvent,
       CallbackCallReturns, CallbackReturns, HandleNotification, CallbackCalls
  <2> QED
    BY <2>3, <2>5, <2>6, <2>7, <2>8, <2>9 DEF Next
<1> QED
  BY <1>1, <1>2

LEMMA NotificationIsInductive ==
  ApiInv /\ NotificationInv /\ [Next]_vars => NotificationInv'
<1> SUFFICES ASSUME ApiInv, NotificationInv, [Next]_vars PROVE NotificationInv'
  OBVIOUS
<1> USE DEF ApiInv, TypeOK, contextVars, linecards, flow, EndCall
<1>1. origin' # 0 => KnownNext(origin')
  <2>1. ASSUME NEW a \in Thread, SyncdCreates(a) PROVE KnownNext(origin')
    BY <2>1 DEF SyncdCreates, KnownNext, Goto
  <2>2. CASE origin' = origin
    BY <2>2, KnownStays DEF NotificationInv
  <2>3. ASSUME NEW k \in Context, SyncdCreatesLate(k) PROVE KnownNext(origin')
    BY <2>3 DEF SyncdCreatesLate, KnownNext, NotificationInv
  <2> QED
    BY <2>1, <2>2, <2>3 DEF vars, Next, AppStep, NtfStep, Initialize, Uninitialize, Call,
       ConstructContext, ReplaceContext, JoinOldThread, CreateReturns, CreateTimesOut, RemoveReturns, CallReturns,
     SyncdCreatesLate,
       DestroyApi, JoinAtExit, Publish, TakeNotification, TakeEndEvent, CallbackCallReturns,
       CallbackReturns, HandleNotification, CallbackCalls
<1>2. ASSUME NEW k \in Context PROVE
        /\ item'[k] # 0 => KnownNext(item'[k])
        /\ \A i \in 1 .. Len(inbox'[k]) : KnownNext(inbox'[k][i])
  <2>1. CASE item' = item /\ inbox' = inbox
    BY <2>1, KnownStays DEF NotificationInv
  <2>2. CASE Publish
    <3>1. /\ item' = item /\ origin \in Context
          /\ inbox'[k] \in {inbox[k], Append(inbox[k], origin)}
      BY <2>2 DEF Publish
    <3>2. \A i \in 1 .. Len(inbox[k]) : Known(inbox[k][i])
      BY DEF NotificationInv
    <3>3. Known(origin)
      BY <3>1 DEF NotificationInv, Context
    <3>4. inbox[k] \in Seq(Context)
      OBVIOUS
    <3>5. \A i \in 1 .. Len(inbox'[k]) : Known(inbox'[k][i])
      <4>1. CASE inbox'[k] = inbox[k]
        BY ONLY <4>1, <3>2
      <4>2. CASE inbox'[k] = Append(inbox[k], origin)
        <5>1. /\ Len(inbox'[k]) = Len(inbox[k]) + 1 /\ Len(inbox[k]) \in Nat
              /\ \A i \in 1 .. Len(inbox[k]) : inbox'[k][i] = inbox[k][i]
              /\ inbox'[k][Len(inbox[k]) + 1] = origin
          BY ONLY <4>2, <3>1, <3>4
        <5>2. \A i \in 1 .. Len(inbox[k]) + 1 :
                i \in 1 .. Len(inbox[k]) \/ i = Len(inbox[k]) + 1
          BY ONLY <5>1
        <5> QED
          BY ONLY <5>1, <5>2, <3>2, <3>3
      <4> QED
        BY ONLY <3>1, <4>1, <4>2
    <3> QED
      BY <3>1, <3>5, KnownStays DEF NotificationInv
  <2>3. ASSUME NEW j \in Context, TakeNotification(j)
        PROVE  /\ item'[k] # 0 => Known(item'[k])
               /\ \A i \in 1 .. Len(inbox'[k]) : Known(inbox'[k][i])
    <3>1. CASE j # k
      BY <2>3, <3>1 DEF TakeNotification, NotificationInv
    <3>2. CASE j = k
      <4>1. inbox[k] \in Seq(Context) /\ inbox[k] # <<>>
        BY <2>3, <3>2 DEF TakeNotification
      <4>2. item'[k] = inbox[k][1] /\ inbox'[k] = Tail(inbox[k])
        BY <2>3, <3>2, <4>1 DEF TakeNotification
      <4>3. \A i \in 1 .. Len(Tail(inbox[k])) :
              Tail(inbox[k])[i] = inbox[k][i + 1] /\ i + 1 \in 1 .. Len(inbox[k])
        BY <4>1
      <4>4. 1 \in 1 .. Len(inbox[k])
        BY <4>1
      <4> QED
        BY <4>2, <4>3, <4>4 DEF NotificationInv
    <3> QED
      BY <3>1, <3>2
  <2>4. ASSUME NEW j \in Context, HandleNotification(j)
        PROVE  item'[k] \in {0, item[k]} /\ inbox' = inbox
    BY <2>4 DEF HandleNotification
  <2>5. (\E j \in Context : TakeNotification(j) \/ HandleNotification(j)) =>
          /\ item'[k] # 0 => Known(item'[k])
          /\ \A i \in 1 .. Len(inbox'[k]) : Known(inbox'[k][i])
    BY <2>3, <2>4 DEF NotificationInv
  <2>6. CASE \E j \in Context : TakeNotification(j) \/ HandleNotification(j)
    BY <2>5, <2>6, KnownStays
  <2> QED
    BY <2>1, <2>2, <2>6 DEF vars, Next, AppStep, NtfStep, Initialize, Uninitialize, Call,
       ConstructContext, ReplaceContext, JoinOldThread, SyncdCreates, CreateReturns,
       CreateTimesOut, RemoveReturns, CallReturns, SyncdCreatesLate, DestroyApi, JoinAtExit, TakeEndEvent, CallbackCallReturns,
       CallbackReturns, CallbackCalls
<1>3. late' \subseteq linecard' \cup abandoned'
  <2>1. ASSUME NEW a \in Thread, CreateReturns(a) \/ CreateTimesOut(a) \/ RemoveReturns(a)
        PROVE  late' \subseteq linecard' \cup abandoned'
    BY <2>1 DEF CreateReturns, CreateTimesOut, RemoveReturns, NotificationInv
  <2>2. UNCHANGED linecards /\ late' \subseteq late => late' \subseteq linecard' \cup abandoned'
    BY DEF NotificationInv
  <2> QED
    BY <2>1, <2>2 DEF vars, Next, AppStep, NtfStep, Initialize, Uninitialize, Call,
     ConstructContext, ReplaceContext, JoinOldThread, SyncdCreates, SyncdCreatesLate, CallReturns,
     DestroyApi, JoinAtExit, Publish, TakeNotification, TakeEndEvent, CallbackCallReturns,
     CallbackReturns, HandleNotification, CallbackCalls
<1> QED
  BY <1>1, <1>2, <1>3 DEF NotificationInv, Known, KnownNext

LEMMA ApiInvIsInvariant == Spec => [](ApiInv /\ NotificationInv)
<1>1. Init => ApiInv /\ NotificationInv
  <2> SUFFICES ASSUME Init PROVE ApiInv /\ NotificationInv
    OBVIOUS
  <2>1. TypeOK
    <3>1. <<>> \in Seq(Context) /\ inbox \in [Context -> Seq(Context)]
      BY DEF Init
    <3>2. contexts \in 0 .. MaxContext /\ published \in 0 .. MaxPublished
      BY BoundAssumption DEF Init
    <3>3. app \in [Thread -> AppPC] /\ ntf \in [Context -> NtfPC]
      BY DEF Init, AppPC, NtfPC
    <3>4. item \in [Context -> {0} \cup Context] /\ shouldEnd \in [Context -> BOOLEAN]
      BY DEF Init
    <3> QED
      BY <3>1, <3>2, <3>3, <3>4 DEF Init, TypeOK
  <2>2. MutexInv /\ ContextInv
    BY DEF Init, MutexInv, ContextInv
  <2>3. NotificationInv
    BY DEF Init, NotificationInv
  <2> QED
    BY <2>1, <2>2, <2>3 DEF ApiInv
<1>2. ApiInv /\ NotificationInv /\ [Next]_vars => (ApiInv /\ NotificationInv)'
  BY TypeOKIsInductive, ContextIsInductive, MutexIsInductive, NotificationIsInductive
  DEF ApiInv
<1> QED
  BY <1>1, <1>2, PTL DEF Spec

(* The client's state has its types. *)
THEOREM TypeCorrect == Spec => []TypeOK
<1>1. ApiInv => TypeOK
  BY DEF ApiInv
<1> QED
  BY <1>1, ApiInvIsInvariant, PTL

(* A context is destroyed only after the notification thread that runs in  *)
(* it has ended, and no such thread begins again.                          *)
THEOREM ThreadEndsBeforeContextAlways == Spec => []ThreadEndsBeforeContext
<1>1. Init => ThreadEndsBeforeContext
  BY DEF Init, ThreadEndsBeforeContext
<1>2. ApiInv /\ ThreadEndsBeforeContext /\ [Next]_vars => ThreadEndsBeforeContext'
  <2> SUFFICES ASSUME ApiInv, ThreadEndsBeforeContext, [Next]_vars
               PROVE  ThreadEndsBeforeContext'
    OBVIOUS
  <2> USE DEF ThreadEndsBeforeContext, ApiInv, TypeOK, contextVars, linecards, flow, EndCall
  <2>1. ASSUME NEW k \in freed PROVE ntf'[k] = "ended"
    <3>1. k \in Context /\ ntf[k] = "ended" /\ k <= contexts
      BY DEF ContextInv
    <3>2. ASSUME NEW a \in Thread, ConstructContext(a) PROVE ntf'[k] = "ended"
      BY <3>1, <3>2 DEF ConstructContext, Context
    <3>3. ASSUME NEW j \in Context, NtfStep(j) \/ HandleNotification(j) \/ CallbackCalls(j)
          PROVE  ntf'[k] = "ended"
      BY <3>1, <3>3 DEF NtfStep, TakeNotification, TakeEndEvent, CallbackCallReturns,
         CallbackReturns, HandleNotification, CallbackCalls, NtfGoto, NextRound
    <3> QED
      BY <3>1, <3>2, <3>3 DEF vars, Next, AppStep, Initialize, Uninitialize, Call,
         ReplaceContext, JoinOldThread, SyncdCreates, CreateReturns, CreateTimesOut, RemoveReturns, CallReturns,
     SyncdCreatesLate,
         DestroyApi, JoinAtExit, Publish
  <2>2. CASE freed' = freed
    BY <2>1, <2>2
  <2>3. ASSUME NEW a \in Thread, JoinOldThread(a) PROVE ThreadEndsBeforeContext'
    BY <2>1, <2>3 DEF JoinOldThread, Joined
  <2>4. CASE JoinAtExit
    BY <2>1, <2>4 DEF JoinAtExit, Joined
  <2> QED
    BY <2>2, <2>3, <2>4 DEF vars, Next, AppStep, NtfStep, Initialize, Uninitialize, Call,
       ConstructContext, ReplaceContext, SyncdCreates, CreateReturns, CreateTimesOut, RemoveReturns, CallReturns,
     SyncdCreatesLate,
       DestroyApi, Publish, TakeNotification, TakeEndEvent, CallbackCallReturns,
       CallbackReturns, HandleNotification, CallbackCalls
<1> QED
  BY <1>1, <1>2, ApiInvIsInvariant, PTL DEF Spec

(* A notification of a linecard that syncd has created meets the callbacks *)
(* of that linecard, since it is looked up under the mutex that the create *)
(* holds until they are in place, unless the create went unanswered or a   *)
(* remove took them away.                                                  *)
THEOREM QuickNotificationsAlways == Spec => QuickNotificationsDelivered
<1> DEFINE Delivered == \A k \in Context \ abandoned :
      ntf[k] = "locking" /\ ntf'[k] # "locking" /\ item[k] = k /\ apiInitialized
        => ntf'[k] = "callback"
<1>1. ApiInv /\ NotificationInv /\ [Next]_vars => [Delivered]_vars
  <2> SUFFICES ASSUME ApiInv, NotificationInv, Next, NEW k \in Context \ abandoned,
                      ntf[k] = "locking", ntf'[k] # "locking", item[k] = k, apiInitialized
               PROVE  ntf'[k] = "callback"
    OBVIOUS
  <2> USE DEF ApiInv, TypeOK, contextVars, linecards, flow, EndCall
  <2>1. HandleNotification(k)
    <3>1. ASSUME NEW a \in Thread, ConstructContext(a) PROVE ntf'[k] = ntf[k]
      <4>1. k <= contexts /\ k \in Nat /\ contexts \in Nat
        BY DEF ContextInv, Context
      <4>2. contexts + 1 # k
        BY <4>1
      <4> QED
        BY <3>1, <4>2 DEF ConstructContext
    <3> QED
      BY <3>1 DEF Next, AppStep, NtfStep, Initialize, Uninitialize, Call, ConstructContext,
         ReplaceContext, JoinOldThread, SyncdCreates, CreateReturns, CreateTimesOut, RemoveReturns, CallReturns,
     SyncdCreatesLate, DestroyApi,
         JoinAtExit, Publish, TakeNotification, TakeEndEvent, CallbackCallReturns,
         CallbackReturns, HandleNotification, CallbackCalls, NtfGoto, NextRound
  <2>2. k \in linecard
    <3>1. \A a \in Thread : app[a] # "created"
      BY <2>1, ThreadAssumption DEF HandleNotification, MayHandle, MutexInv
    <3>2. Known(k)
      BY DEF NotificationInv, Context
    <3> QED
      BY <3>1, <3>2 DEF Known
  <2> QED
    BY <2>1, <2>2 DEF HandleNotification, Deliverable, NtfGoto
<1> QED
  BY <1>1, ApiInvIsInvariant, PTL DEF Spec, QuickNotificationsDelivered
=============================================================================
