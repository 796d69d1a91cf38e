-------------------------- MODULE NotificationPump --------------------------
(***************************************************************************)
(* The way of a vendor notification through syncd: a vendor thread calls   *)
(* NotificationHandler, which queues it and signals m_cv; the processing   *)
(* thread of NotificationProcessor takes it from the queue and handles it  *)
(* under Syncd::m_mutex, the mutex the main thread holds while it          *)
(* reinitialises the vendor and while it handles a request.                *)
(***************************************************************************)
EXTENDS Naturals, Sequences

CONSTANTS
  VendorThread,    \* threads in which the vendor calls back
  MaxRaised,       \* bound: notifications the vendor raises in one process
  MaxRestarts      \* bound: ends of the process after which it starts again

ASSUME BoundAssumption == MaxRaised \in Nat /\ MaxRestarts \in Nat

(* A linecard state change needs the VID of the linecard, and so does the  *)
(* spectrum of an OCM that has a VID; the other kinds do without where     *)
(* they cannot translate.                                                  *)
Kind == {"linecard_state_change", "ocm_spectrum_power", "linecard_alarm"}

(* Notifications are told apart by the order in which they are queued.     *)
Notification == [kind : Kind, number : 1 .. MaxRaised]

MainPC == {"start", "reinit", "beforeThread", "serving", "creating", "created", "save",
           "removing", "request", "removed", "join", "exit"}
NtfPC == {"none", "test", "toWait", "waiting", "dequeue", "locking", "handling",
          "ended", "terminate"}

VARIABLES
  main,       \* where the main thread is
  ntf,        \* where the processing thread is
  mutex,      \* Syncd::m_mutex: "free", "main" or "ntf"
  runThread,  \* m_runThread
  queue,      \* NotificationQueue::m_queue
  item,       \* what tryDequeue took: one notification or none
  registered, \* did a linecard create give the vendor its callbacks
  mapped,     \* do VIDTORID and RIDTOVID hold the linecard
  saved,      \* does ASIC_STATE hold the linecard
  erased,     \* did a client's remove of the linecard erase its maps
  restarts,   \* starts of the process after the first
  vendor,     \* where each vendor thread is
  raised,     \* the notifications queued so far
  handled     \* the notifications handled so far

threads == <<main, ntf, mutex, runThread>>
flow    == <<queue, item, raised, handled>>
redis   == <<mapped, saved, erased, restarts>>
vars    == <<threads, flow, registered, redis, vendor>>

TypeOK ==
  /\ main \in MainPC /\ ntf \in NtfPC
  /\ mutex \in {"free", "main", "ntf"}
  /\ runThread \in BOOLEAN /\ registered \in BOOLEAN
  /\ mapped \in BOOLEAN /\ saved \in BOOLEAN /\ erased \in BOOLEAN
  /\ restarts \in 0 .. MaxRestarts
  /\ queue \in Seq(Notification) /\ item \in Seq(Notification)
  /\ raised \in Seq(Notification) /\ handled \in Seq(Notification)
  /\ Len(item) <= 1
  /\ vendor \in [VendorThread -> {"idle", "signal"}]

Init ==
  /\ main = "start" /\ ntf = "none" /\ mutex = "free"
  /\ runThread = FALSE
  /\ queue = <<>> /\ item = <<>> /\ raised = <<>> /\ handled = <<>>
  /\ registered = FALSE
  /\ mapped \in BOOLEAN /\ saved = mapped /\ erased = FALSE /\ restarts = 0
  /\ vendor = [w \in VendorThread |-> "idle"]

-----------------------------------------------------------------------------
(* The vendor library, external. *)

(* Mutant of Enqueue: two callbacks meet and the later one goes in front.  *)
EnqueueInFront(n) == queue' = <<n>> \o queue

(* NotificationQueue::enqueue; there is no limit. *)
Enqueue(n) == queue' = Append(queue, n)

(* enqueueNotification, its first half. *)
Raise(w) ==
  /\ registered /\ vendor[w] = "idle"
  /\ Len(raised) < MaxRaised                                     \* bound
  /\ \E k \in Kind :
       LET n == [kind |-> k, number |-> Len(raised) + 1] IN
       Enqueue(n) /\ raised' = Append(raised, n)
  /\ vendor' = [vendor EXCEPT ![w] = "signal"]
  /\ UNCHANGED <<threads, item, handled, registered, redis>>

(* NotificationProcessor::signal: notify_all without a mutex.              *)
Signal(w) ==
  /\ vendor[w] = "signal"
  /\ vendor' = [vendor EXCEPT ![w] = "idle"]
  /\ ntf' = IF ntf = "waiting" THEN "dequeue" ELSE ntf
  /\ UNCHANGED <<main, mutex, runThread, flow, registered, redis>>

-----------------------------------------------------------------------------
(* The main thread. *)

(* onSyncdStart: hard reinit runs under m_mutex and creates the linecard   *)
(* again, with the callbacks, where ASIC_STATE has one.                    *)
StartReinit ==
  /\ main = "start" /\ mutex = "free"
  /\ main' = "reinit" /\ mutex' = "main"
  /\ registered' = saved
  /\ UNCHANGED <<ntf, runThread, flow, redis, vendor>>

(* checkAllIds throws where the maps have a linecard that ASIC_STATE has   *)
(* not.  The reverse escapes it: stopPreConfigLinecards has inserted the   *)
(* entry, with RID 0, and only a vendor that refuses that RID ends the     *)
(* start.                                                                  *)
EndReinit ==
  /\ main = "reinit"
  /\ \/ (mapped => saved) /\ main' = "beforeThread"
     \/ mapped # saved /\ main' = "exit"
  /\ mutex' = "free"
  /\ UNCHANGED <<ntf, runThread, flow, registered, redis, vendor>>

StartThread ==
  /\ main = "beforeThread"
  /\ runThread' = TRUE /\ ntf' = "test"
  /\ main' = "serving"
  /\ UNCHANGED <<mutex, flow, registered, redis, vendor>>

(* processEvent takes m_mutex for each request.  The create of the         *)
(* linecard registers the callbacks in the vendor's create and writes the  *)
(* maps and then ASIC_STATE after it.                                      *)
StartRequest ==
  /\ main = "serving" /\ mutex = "free"
  /\ mutex' = "main"
  /\ main' \in {"request", IF mapped THEN "removing" ELSE "creating"}
  /\ UNCHANGED <<ntf, runThread, flow, registered, redis, vendor>>

VendorCreates ==
  /\ main = "creating"
  /\ registered' = TRUE
  /\ main' = "created"
  /\ UNCHANGED <<ntf, mutex, runThread, flow, redis, vendor>>

InsertMaps ==
  /\ main = "created"
  /\ mapped' = TRUE
  /\ main' = "save"
  /\ UNCHANGED <<ntf, mutex, runThread, flow, registered, saved, erased, restarts, vendor>>

SaveLinecard ==
  /\ main = "save"
  /\ saved' = TRUE
  /\ main' = "request"
  /\ UNCHANGED <<ntf, mutex, runThread, flow, registered, mapped, erased, restarts, vendor>>

(* The client's remove of the linecard: "not implemented", it throws, but  *)
(* after the maps are erased; the main loop exits without a join.          *)
ClientRemoves ==
  /\ main = "removing"
  /\ mapped' = FALSE /\ erased' = TRUE
  /\ main' = "exit" /\ mutex' = "free"
  /\ UNCHANGED <<ntf, runThread, flow, registered, saved, restarts, vendor>>

EndRequest ==
  /\ main = "request"
  /\ main' = "serving" /\ mutex' = "free"
  /\ UNCHANGED <<ntf, runThread, flow, registered, redis, vendor>>

(* The main loop ends; removeLinecard and then stopNotificationsProcessing *)
(* Thread, without m_mutex.  The vendor may call back until uninitialize.  *)
(* Without a linecard removeLinecard dereferences a null pointer.          *)
RemoveLinecard ==
  /\ main = "serving" /\ registered
  /\ main' = "removed"
  /\ UNCHANGED <<ntf, mutex, runThread, flow, registered, redis, vendor>>

StopThread ==
  /\ main = "removed"
  /\ runThread' = FALSE
  /\ ntf' = IF ntf = "waiting" THEN "dequeue" ELSE ntf
  /\ main' = "join"
  /\ UNCHANGED <<mutex, flow, registered, redis, vendor>>

(* The join; then uninitialize, after which the vendor is silent. *)
JoinThread ==
  /\ main = "join" /\ ntf = "ended"
  /\ main' = "exit"
  /\ registered' = FALSE
  /\ UNCHANGED <<ntf, mutex, runThread, flow, redis, vendor>>

(* The process ends, from wherever it is, and starts again. *)
Restart ==
  /\ restarts < MaxRestarts                                      \* bound
  /\ restarts' = restarts + 1
  /\ main' = "start" /\ ntf' = "none" /\ mutex' = "free" /\ runThread' = FALSE
  /\ queue' = <<>> /\ item' = <<>> /\ raised' = <<>> /\ handled' = <<>>
  /\ registered' = FALSE
  /\ vendor' = [w \in VendorThread |-> "idle"]
  /\ UNCHANGED <<mapped, saved, erased>>

-----------------------------------------------------------------------------
(* The processing thread: ntf_process_function. *)

TestRun ==
  /\ ntf = "test"
  /\ ntf' = IF runThread THEN "toWait" ELSE "ended"
  /\ UNCHANGED <<main, mutex, runThread, flow, registered, redis, vendor>>

(* m_cv.wait without a predicate, on a mutex of the thread's own. *)
StartWait ==
  /\ ntf = "toWait"
  /\ ntf' = "waiting"
  /\ UNCHANGED <<main, mutex, runThread, flow, registered, redis, vendor>>

(* A condition variable may return on its own, but need not. *)
SpuriousWakeUp ==
  /\ ntf = "waiting"
  /\ ntf' = "dequeue"
  /\ UNCHANGED <<main, mutex, runThread, flow, registered, redis, vendor>>

(* Mutant of Dequeue: the whole queue is taken. *)
DequeueAll ==
  /\ ntf = "dequeue"
  /\ IF queue = <<>>
       THEN ntf' = "test" /\ UNCHANGED <<queue, item>>
       ELSE ntf' = "locking" /\ item' = queue /\ queue' = <<>>
  /\ UNCHANGED <<main, mutex, runThread, raised, handled, registered, redis, vendor>>

(* tryDequeue. *)
Dequeue ==
  /\ ntf = "dequeue"
  /\ IF queue = <<>>
       THEN ntf' = "test" /\ UNCHANGED <<queue, item>>
       ELSE ntf' = "locking" /\ item' = <<Head(queue)>> /\ queue' = Tail(queue)
  /\ UNCHANGED <<main, mutex, runThread, raised, handled, registered, redis, vendor>>

(* Mutant of Lock: notifications are handled without m_mutex. *)
LockNot ==
  /\ ntf = "locking"
  /\ ntf' = "handling"
  /\ UNCHANGED <<main, mutex, runThread, flow, registered, redis, vendor>>

(* Syncd::syncProcessNotification. *)
Lock ==
  /\ ntf = "locking" /\ mutex = "free"
  /\ mutex' = "ntf" /\ ntf' = "handling"
  /\ UNCHANGED <<main, runThread, flow, registered, redis, vendor>>

(* translateRidToVid throws for a linecard it cannot translate, out of the *)
(* thread function, which ends the process.                                *)
Untranslatable ==
  item[1].kind \in {"linecard_state_change", "ocm_spectrum_power"} /\ ~mapped

Throw ==
  /\ ntf = "handling" /\ Untranslatable
  /\ ntf' = "terminate"
  /\ UNCHANGED <<main, mutex, runThread, flow, registered, redis, vendor>>

(* Mutant of Handle: one notification per wake-up. *)
HandleOne ==
  /\ ntf = "handling"
  /\ handled' = handled \o item /\ item' = <<>>
  /\ ntf' = "test" /\ mutex' = "free"
  /\ UNCHANGED <<main, runThread, queue, raised, registered, redis, vendor>>

(* The spectrum of an OCM without a VID is dropped before its linecard is  *)
(* looked up.                                                              *)
Handle ==
  /\ ntf = "handling"
  /\ Untranslatable => item[1].kind = "ocm_spectrum_power"
  /\ handled' = handled \o item /\ item' = <<>>
  /\ ntf' = "dequeue" /\ mutex' = "free"
  /\ UNCHANGED <<main, runThread, queue, raised, registered, redis, vendor>>

MainStep ==
  \/ StartReinit \/ EndReinit \/ StartThread
  \/ VendorCreates \/ InsertMaps \/ SaveLinecard \/ ClientRemoves \/ EndRequest
  \/ StopThread \/ JoinThread

NtfStep == TestRun \/ StartWait \/ Dequeue \/ Throw \/ Handle

Next ==
  \/ MainStep \/ StartRequest \/ RemoveLinecard \/ Restart
  \/ NtfStep \/ Lock \/ SpuriousWakeUp
  \/ \E w \in VendorThread : Raise(w) \/ Signal(w)

Spec == Init /\ [][Next]_vars

(* Requests, the shutdown and notifications need not come; what is under   *)
(* way goes on.  Between two requests the main thread waits in select, so  *)
(* the processing thread gets m_mutex in the end (strong fairness).        *)
FairSpec ==
  /\ Spec
  /\ WF_vars(MainStep) /\ WF_vars(NtfStep) /\ SF_vars(Lock)
  /\ \A w \in VendorThread : WF_vars(Signal(w))

-----------------------------------------------------------------------------
(* Properties. *)

(* Nothing is lost, doubled or overtaken between the vendor's callback and *)
(* the handler: what was queued is what was handled, is being handled, and *)
(* is still queued, in this order.                                         *)
FirstInFirstOut == raised = handled \o item \o queue

(* "we can safe use syncd mutex here": the handler and a request or the    *)
(* hard reinit never run at the same time.                                 *)
HandlerExcludesRequests ==
  ntf = "handling" => main \notin
    {"reinit", "creating", "created", "save", "removing", "request"}

(* "make sure, we have linecard_id translated to VID before we start       *)
(* processing possible quick notifications": a linecard state change that  *)
(* the vendor raises inside its create, or inside the hard reinit of a     *)
(* restart after a death at any step, finds the linecard in the maps, and  *)
(* so does the spectrum of an OCM: the processing thread does not throw.   *)
(* It may only once a client has removed the linecard, which erases the    *)
(* maps but not the entry from which a restart registers the callbacks.    *)
NeverThrows == ntf = "terminate" => erased

(* Once awake the processing thread empties the queue, however requests    *)
(* and further callbacks interleave, unless the process ends before.       *)
DrainsOnceAwake ==
  ntf = "dequeue" ~> queue = <<>> \/ ntf = "terminate" \/ main = "exit"

=============================================================================
