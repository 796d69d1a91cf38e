----------------------------- MODULE ClientApi -----------------------------
(***************************************************************************)
(* The client library around its channel: the API mutex, initialize and    *)
(* uninitialize, the Context with its notification thread, and the way of  *)
(* a notification to the callbacks of the linecard.  ApiChannel has the    *)
(* inside of a call; here a call holds the API mutex until it returns.     *)
(***************************************************************************)
EXTENDS Naturals, Sequences

CONSTANTS
  Thread,        \* threads of the application
  Nobody,        \* the API mutex is free
  Env,           \* which of EnvBehaviour the run allows
  MaxContext,    \* bound: contexts made, one per initialize
  MaxPublished   \* bound: notifications syncd publishes

EnvBehaviour == {"uninitialize", "exit"}

ASSUME ThreadAssumption == Nobody \notin Thread /\ Thread \cap Nat = {} /\ Nobody \notin Nat
ASSUME EnvAssumption == Env \subseteq EnvBehaviour
ASSUME BoundAssumption == MaxContext \in Nat /\ MaxPublished \in Nat

Context == 1 .. MaxContext

AppPC == {"idle", "construct", "replace", "join", "creating", "created", "removing", "calling"}
NtfPC == {"none", "select", "locking", "callback", "calling", "ended"}

VARIABLES
  apiInitialized,  \* Otai::m_apiInitialized
  context,         \* Otai::m_context, 0 for nullptr
  contexts,        \* number of contexts made so far
  freed,           \* those destroyed again
  mutex,           \* Otai::m_apimutex: a thread, a context's notification thread
  app,             \* where each application thread is
  exiting,         \* the static Otai: "no", "join", "gone"
  linecard,        \* contexts whose m_linecard is set
  abandoned,       \* contexts without one whose create went unanswered or that removed it
  late,            \* contexts whose create is still queued in syncd after its time-out
  origin,          \* the context whose create of the linecard syncd did last
  inbox,           \* notifications published to a context and not yet taken
  ntf,             \* where the notification thread of a context is
  item,            \* the notification it handles: the origin at its publication
  shouldEnd,       \* m_notificationThreadShouldEndEvent
  published        \* number of notifications published

linecards == <<linecard, abandoned>>
contextVars == <<apiInitialized, context, contexts, freed, linecards, shouldEnd>>
flow == <<inbox, item, origin, late, published>>
vars == <<contextVars, flow, mutex, app, exiting, ntf>>

TypeOK ==
  /\ apiInitialized \in BOOLEAN
  /\ context \in {0} \cup Context /\ contexts \in 0 .. MaxContext
  /\ freed \subseteq Context /\ linecard \subseteq Context
  /\ abandoned \subseteq Context /\ late \subseteq Context
  /\ mutex \in {Nobody} \cup Thread \cup Context
  /\ app \in [Thread -> AppPC]
  /\ exiting \in {"no", "join", "gone"}
  /\ origin \in {0} \cup Context
  /\ inbox \in [Context -> Seq(Context)]
  /\ ntf \in [Context -> NtfPC]
  /\ item \in [Context -> {0} \cup Context]
  /\ shouldEnd \in [Context -> BOOLEAN]
  /\ published \in 0 .. MaxPublished

Init ==
  /\ apiInitialized = FALSE
  /\ context = 0 /\ contexts = 0 /\ freed = {}
  /\ linecard = {} /\ abandoned = {} /\ late = {}
  /\ mutex = Nobody
  /\ app = [a \in Thread |-> "idle"]
  /\ exiting = "no"
  /\ origin = 0
  /\ inbox = [k \in Context |-> <<>>]
  /\ ntf = [k \in Context |-> "none"]
  /\ item = [k \in Context |-> 0]
  /\ shouldEnd = [k \in Context |-> FALSE]
  /\ published = 0

-----------------------------------------------------------------------------
(* Threads of the application. *)

Ready(a) == app[a] = "idle" /\ exiting = "no"
Goto(a, to) == app' = [app EXCEPT ![a] = to]

(* initialize, which fails at once where the API is initialised. *)
Initialize(a) ==
  /\ Ready(a) /\ mutex = Nobody
  /\ ~apiInitialized
  /\ contexts < MaxContext                                      \* bound
  /\ mutex' = a
  /\ Goto(a, "construct")
  /\ UNCHANGED <<contextVars, flow, exiting, ntf>>

(* The new Context, with its channel and its notification thread. *)
ConstructContext(a) ==
  /\ app[a] = "construct"
  /\ contexts' = contexts + 1
  /\ ntf' = [ntf EXCEPT ![contexts'] = "select"]
  /\ Goto(a, "replace")
  /\ UNCHANGED <<apiInitialized, context, freed, linecards, shouldEnd, flow, mutex, exiting>>

EndInitialize(a) ==
  /\ apiInitialized' = TRUE
  /\ mutex' = Nobody
  /\ Goto(a, "idle")

(* Mutant of StopChannel: the event is not notified. *)
StopChannelQuietly(k) == UNCHANGED shouldEnd

(* ~RedisChannel up to the join. *)
StopChannel(k) == shouldEnd' = [shouldEnd EXCEPT ![k] = TRUE]

(* The assignment to m_context destroys the Context that uninitialize left *)
(* behind.                                                                 *)
ReplaceContext(a) ==
  /\ app[a] = "replace"
  /\ context' = contexts
  /\ IF context = 0
       THEN EndInitialize(a) /\ UNCHANGED shouldEnd
       ELSE StopChannel(context) /\ Goto(a, "join") /\ UNCHANGED <<apiInitialized, mutex>>
  /\ UNCHANGED <<contexts, freed, linecards, flow, exiting, ntf>>

Joined(k) == ntf[k] = "ended"

JoinOldThread(a) ==
  /\ app[a] = "join"
  /\ Joined(context - 1)
  /\ freed' = freed \cup {context - 1}
  /\ EndInitialize(a)
  /\ UNCHANGED <<context, contexts, linecards, shouldEnd, flow, exiting, ntf>>

(* uninitialize takes no mutex and destroys nothing. *)
Uninitialize(a) ==
  /\ "uninitialize" \in Env
  /\ Ready(a) /\ apiInitialized
  /\ apiInitialized' = FALSE
  /\ UNCHANGED <<context, contexts, freed, linecards, shouldEnd, flow, mutex, app, exiting, ntf>>

(* create, remove, set and get. *)
Call(a) ==
  /\ Ready(a) /\ mutex = Nobody
  /\ apiInitialized
  /\ mutex' = a
  /\ \E to \in {"creating", "removing", "calling"} : Goto(a, to)
  /\ UNCHANGED <<contextVars, flow, exiting, ntf>>

(* syncd has the linecard; from now on it publishes notifications.  What   *)
(* was queued before this create has been executed or dropped.             *)
SyncdCreates(a) ==
  /\ app[a] = "creating"
  /\ origin' = context /\ late' = {}
  /\ Goto(a, "created")
  /\ UNCHANGED <<contextVars, inbox, item, published, mutex, exiting, ntf>>

(* syncd executes a create that nobody waits for any more. *)
SyncdCreatesLate(k) ==
  /\ k \in late
  /\ origin' = k /\ late' = late \ {k}
  /\ UNCHANGED <<contextVars, inbox, item, published, mutex, app, exiting, ntf>>

EndCall(a) == mutex' = Nobody /\ Goto(a, "idle")

CreateReturns(a) ==
  /\ app[a] = "created" /\ EndCall(a)
  /\ linecard' = linecard \cup {context} /\ abandoned' = abandoned \ {context}
  /\ UNCHANGED <<apiInitialized, context, contexts, freed, shouldEnd, flow, exiting, ntf>>

(* The answer does not come in time: no m_linecard is made, whether syncd  *)
(* has made the linecard or still will.                                    *)
CreateTimesOut(a) ==
  /\ app[a] \in {"creating", "created"} /\ EndCall(a)
  /\ late' = IF app[a] = "creating" THEN late \cup {context} ELSE late
  /\ abandoned' = abandoned \cup ({context} \ linecard)
  /\ UNCHANGED <<apiInitialized, context, contexts, freed, linecard, shouldEnd,
                 inbox, item, origin, published, exiting, ntf>>

(* A remove of the linecard that is answered SUCCESS clears m_linecard.    *)
(* syncd throws before it answers one, so that SUCCESS is a late answer to *)
(* another remove.                                                         *)
RemoveReturns(a) ==
  /\ app[a] = "removing" /\ EndCall(a)
  /\ \/ linecard' = linecard \ {context} /\ abandoned' = abandoned \cup {context}
     \/ UNCHANGED linecards
  /\ UNCHANGED <<apiInitialized, context, contexts, freed, shouldEnd, flow, exiting, ntf>>

(* Another call, or a create that syncd refused. *)
CallReturns(a) ==
  /\ app[a] \in {"calling", "creating"} /\ EndCall(a)
  /\ UNCHANGED <<contextVars, flow, exiting, ntf>>

(* The static Otai is destroyed after the application's threads ended:     *)
(* uninitialize, then the members, without the mutex.                      *)
DestroyApi ==
  /\ "exit" \in Env /\ exiting = "no"
  /\ \A a \in Thread : app[a] = "idle"
  /\ apiInitialized' = FALSE
  /\ IF context = 0 THEN exiting' = "gone" /\ UNCHANGED shouldEnd
     ELSE exiting' = "join" /\ StopChannel(context)
  /\ UNCHANGED <<context, contexts, freed, linecards, flow, mutex, app, ntf>>

JoinAtExit ==
  /\ exiting = "join"
  /\ Joined(context)
  /\ exiting' = "gone"
  /\ freed' = freed \cup {context}
  /\ UNCHANGED <<apiInitialized, context, contexts, linecards, shouldEnd, flow, mutex, app, ntf>>

-----------------------------------------------------------------------------
(* The notification thread of context k. *)

(* Mutant of Publish: no test for the linecard. *)
PublishAnyway ==
  /\ published < MaxPublished
  /\ published' = published + 1
  /\ inbox' = [k \in Context |->
       IF k <= contexts /\ k \notin freed THEN Append(inbox[k], origin) ELSE inbox[k]]
  /\ UNCHANGED <<contextVars, item, origin, late, mutex, app, exiting, ntf>>

(* syncd publishes to every channel that is open, once it has a linecard.  *)
Publish ==
  /\ origin # 0 /\ published < MaxPublished                     \* bound
  /\ published' = published + 1
  /\ inbox' = [k \in Context |->
       IF k <= contexts /\ k \notin freed THEN Append(inbox[k], origin) ELSE inbox[k]]
  /\ UNCHANGED <<contextVars, item, origin, late, mutex, app, exiting, ntf>>

NtfGoto(k, to) == ntf' = [ntf EXCEPT ![k] = to]

TakeNotification(k) ==
  /\ ntf[k] = "select" /\ inbox[k] # <<>>
  /\ item' = [item EXCEPT ![k] = Head(inbox[k])]
  /\ inbox' = [inbox EXCEPT ![k] = Tail(@)]
  /\ NtfGoto(k, "locking")
  /\ UNCHANGED <<contextVars, origin, late, published, mutex, app, exiting>>

TakeEndEvent(k) ==
  /\ ntf[k] = "select" /\ shouldEnd[k]
  /\ NtfGoto(k, "ended")
  /\ UNCHANGED <<contextVars, flow, mutex, app, exiting>>

(* The loop's test of m_runNotificationThread. *)
NextRound(k) == NtfGoto(k, IF shouldEnd[k] THEN "ended" ELSE "select")

(* Mutant of MayHandle: handle_notification without MUTEX. *)
MayHandleAnyway == TRUE

MayHandle == mutex = Nobody

(* handle_notification and syncProcessNotification, under the mutex and at *)
(* once: the callbacks of the linecard, or none.                           *)
Deliverable(k) == apiInitialized /\ k \in linecard

HandleNotification(k) ==
  /\ ntf[k] = "locking" /\ MayHandle
  /\ IF Deliverable(k) THEN NtfGoto(k, "callback") ELSE NextRound(k)
  /\ item' = [item EXCEPT ![k] = 0]
  /\ UNCHANGED <<contextVars, inbox, origin, late, published, mutex, app, exiting>>

(* executeCallback, without the mutex: the application may call the API.   *)
CallbackCalls(k) ==
  /\ ntf[k] = "callback" /\ mutex = Nobody /\ apiInitialized
  /\ mutex' = k
  /\ NtfGoto(k, "calling")
  /\ UNCHANGED <<contextVars, flow, app, exiting>>

CallbackCallReturns(k) ==
  /\ ntf[k] = "calling"
  /\ mutex' = Nobody
  /\ NtfGoto(k, "callback")
  /\ UNCHANGED <<contextVars, flow, app, exiting>>

CallbackReturns(k) ==
  /\ ntf[k] = "callback"
  /\ NextRound(k)
  /\ UNCHANGED <<contextVars, flow, mutex, app, exiting>>

AppStep(a) ==
  \/ ConstructContext(a) \/ ReplaceContext(a) \/ JoinOldThread(a)
  \/ SyncdCreates(a) \/ CreateReturns(a) \/ CreateTimesOut(a)
  \/ RemoveReturns(a) \/ CallReturns(a)

NtfStep(k) ==
  \/ TakeNotification(k) \/ TakeEndEvent(k)
  \/ CallbackCallReturns(k) \/ CallbackReturns(k)

Next ==
  \/ \E a \in Thread : Initialize(a) \/ Uninitialize(a) \/ Call(a) \/ AppStep(a)
  \/ DestroyApi \/ JoinAtExit \/ Publish
  \/ \E k \in Context : SyncdCreatesLate(k) \/ NtfStep(k) \/ HandleNotification(k) \/ CallbackCalls(k)

Spec == Init /\ [][Next]_vars

(* Calls, once made, return; threads are scheduled; the notification       *)
(* thread gets the mutex in the end; a callback does not call the API for  *)
(* ever (strong fairness of CallbackReturns).                              *)
FairSpec ==
  /\ Spec
  /\ \A a \in Thread : WF_vars(AppStep(a))
  /\ WF_vars(JoinAtExit)
  /\ \A k \in Context :
       WF_vars(NtfStep(k)) /\ SF_vars(HandleNotification(k)) /\ SF_vars(CallbackReturns(k))

-----------------------------------------------------------------------------
(* Properties. *)

(* "create linecard function will end and linecard will be put inside      *)
(* container": a notification that a linecard raises as soon as syncd has  *)
(* created it, while the create is still under way or at any time after    *)
(* it, is not ignored for want of the linecard's callbacks, however early  *)
(* its thread takes it.  The code gives this up where the create was not   *)
(* answered in time, though syncd did it then or later, and where a remove *)
(* cleared m_linecard: until a create succeeds, nobody gets the            *)
(* notifications of a linecard that syncd has.                             *)
QuickNotificationsDelivered ==
  [][\A k \in Context \ abandoned :
       ntf[k] = "locking" /\ ntf'[k] # "locking" /\ item[k] = k /\ apiInitialized
         => ntf'[k] = "callback"]_vars

(* A notification thread never outlives the context it runs in. *)
ThreadEndsBeforeContext == \A k \in freed : ntf[k] = "ended"

(* "will stop threads", at the end of the process: the destructor of the   *)
(* API returns, whatever the notification thread is doing.                 *)
ExitReturns == exiting = "join" ~> exiting = "gone"

=============================================================================
