----------------------------- MODULE CardState -----------------------------
(***************************************************************************)
(* The main loop of syncd over losses of the link to the linecard, which   *)
(* makes the card forget what was set: the notices of the vendor and the   *)
(* thread that passes them on, the client's requests, the soft and the     *)
(* hard reinit, the counters, and the restart that a failure in the middle *)
(* ends in.  The linecard, with a pointer for its state changes, is in     *)
(* ASIC_STATE from the beginning.                                          *)
(***************************************************************************)
EXTENDS Naturals, Sequences

CONSTANTS
  Objects,       \* VIDs of the objects beside the linecard
  Values,        \* values of settable attributes
  None,          \* not set
  Handler,       \* a notification handler of syncd
  MaxLosses,     \* bound: losses of the link
  MaxRequests,   \* bound: requests of the client
  MaxExits       \* bound: ends of the process

(* Three attributes of the linecard, BOARD_MODE, a notification pointer    *)
(* and any other, and one attribute of each object.                        *)
LinecardAttr == {"mode", "pointer", "other"}

ASSUME CardAssumption ==
  /\ None \notin Values /\ Handler \notin Values /\ None # Handler
  /\ Objects \cap LinecardAttr = {}
  /\ MaxLosses \in Nat /\ MaxRequests \in Nat /\ MaxExits \in Nat

Target == LinecardAttr \cup Objects
Nothing == [t \in Target |-> None]

VARIABLES
  link,        \* the link of the card is up
  card,        \* what is set in the card
  preconfig,   \* the card is between START and STOP_PRE_CONFIGURATION
  hears,       \* on_linecard_state_change is set in the vendor's library
  notices,     \* linecard state changes raised and not handled, oldest first
  passed,      \* that many of them are in m_linecardStateNtf, the others in
               \* m_notificationQueue
  ntf,         \* where ntf_process_function is
  queue,       \* m_selectableChannel
  saving,      \* the request that was executed and is not in ASIC_STATE yet
  db,          \* ASIC_STATE: what was set
  entries,     \* ASIC_STATE: the objects
  mapped,      \* VIDs of Objects that have a RID
  flexKeys,    \* FLEX_COUNTER_TABLE
  collected,   \* VIDs with a collector
  main,        \* where the main thread is
  hard,        \* its reinit is the hard one
  todo,        \* attributes and objects the step of the reinit has yet to do
  state,       \* m_linecardState
  subscribed,  \* VIDs asked for in flexKeys while they had a RID
  left,        \* objects that hard reinit has not set again
  missed,      \* the link was lost after the create, before the card hears
  used         \* counts up to the bounds

device  == <<link, card, preconfig>>
events  == <<hears, notices, passed, ntf>>
tables  == <<db, entries, mapped, flexKeys>>
thread  == <<main, hard, todo, state>>
history == <<subscribed, left, missed>>
vars    == <<device, events, queue, saving, tables, collected, thread, history, used>>

Reinit == {"preconfig", "mode", "linecard", "objects", "stop", "check", "counters"}
Step == {"wait", "create", "serving", "closing"} \cup Reinit
Request == [op : {"set"}, on : Target, value : Values]
           \cup [op : {"create", "remove"}, on : Objects]

TypeOK ==
  /\ link \in BOOLEAN /\ preconfig \in BOOLEAN /\ hears \in BOOLEAN
  /\ card \in [Target -> Values \cup {None, Handler}]
  /\ notices \in Seq({"ACTIVE", "INACTIVE"})
  /\ passed \in 0 .. Len(notices)
  /\ ntf \in {"off", "late", "waiting", "draining"}
  /\ queue \in Seq(Request) /\ saving \subseteq Request
  /\ db \in [Target -> Values \cup {None}]
  /\ entries \subseteq Objects /\ mapped \subseteq Objects
  /\ flexKeys \subseteq Objects /\ collected \subseteq Objects
  /\ main \in Step /\ hard \in BOOLEAN
  /\ todo \subseteq Target
  /\ state \in {"ACTIVE", "INACTIVE"}
  /\ subscribed \subseteq flexKeys /\ left \subseteq Objects /\ missed \in BOOLEAN
  /\ used \in [{"loss", "request", "exit"} -> Nat]
  /\ used.loss <= MaxLosses /\ used.request <= MaxRequests /\ used.exit <= MaxExits

Init ==
  /\ link = TRUE /\ card = Nothing /\ preconfig = FALSE
  /\ hears = FALSE /\ notices = <<>> /\ passed = 0 /\ ntf = "off"
  /\ queue = <<>> /\ saving = {}
  /\ db = Nothing /\ entries = {} /\ mapped = {} /\ flexKeys = {}
  /\ collected = {}
  /\ main = "wait" /\ hard = TRUE /\ todo = {} /\ state = "INACTIVE"
  /\ subscribed = {} /\ left = {} /\ missed = FALSE
  /\ used = [b \in {"loss", "request", "exit"} |-> 0]

Count(bound) == used' = [used EXCEPT ![bound] = @ + 1]

-----------------------------------------------------------------------------
(* The card and the client. *)

(* on_linecard_state_change puts the change into m_notificationQueue and   *)
(* signals m_cv, which only wakes who waits for it.                        *)
Raise(change) ==
  IF hears
    THEN /\ notices' = Append(notices, change)
         /\ ntf' = IF ntf = "waiting" THEN "draining" ELSE ntf
         /\ UNCHANGED <<hears, passed>>
    ELSE UNCHANGED events

LoseLink ==
  /\ link
  /\ used.loss < MaxLosses /\ Count("loss")                      \* bound
  /\ link' = FALSE /\ card' = Nothing /\ preconfig' = FALSE
  /\ Raise("INACTIVE")
  /\ missed' = (missed \/ ~hears)
  /\ UNCHANGED <<queue, saving, tables, collected, thread, subscribed, left>>

RegainLink ==
  /\ ~link
  /\ link' = TRUE
  /\ Raise("ACTIVE")
  /\ UNCHANGED <<card, preconfig, queue, saving, tables, collected, thread, history, used>>

Send ==
  /\ used.request < MaxRequests /\ Count("request")              \* bound
  /\ \E r \in Request : queue' = Append(queue, r)
  /\ UNCHANGED <<device, events, saving, tables, collected, thread, history>>

-----------------------------------------------------------------------------
(* ntf_process_function: it waits first, then passes on what is queued.    *)

NtfStep(from, to) ==
  /\ ntf = from /\ ntf' = to
  /\ UNCHANGED <<device, hears, notices, queue, saving, tables, collected, thread, history, used>>

(* Any other notification signals too, such as the communication alarm    *)
(* that onLinecardStateChange raises next.                                 *)
OtherSignal == NtfStep("waiting", "draining") /\ UNCHANGED passed

Forward ==
  /\ passed < Len(notices) /\ passed' = passed + 1
  /\ NtfStep("draining", "draining")

(* The queue was found empty; what is signalled from here on is lost, ... *)
Drained ==
  /\ passed = Len(notices) /\ UNCHANGED passed
  /\ NtfStep("draining", "late")

(* ... up to the wait. *)
Wait == NtfStep("late", "waiting") /\ UNCHANGED passed

-----------------------------------------------------------------------------
(* Requests.  The vendor refuses everything while the link is down; what   *)
(* is refused is not saved.                                                *)

(* Main is between two rounds of its loop. *)
InLoop == main \in {"serving", "closing"} /\ saving = {}
Serving == InLoop /\ main = "serving"

(* updateNotificationsPointers: a pointer is replaced by syncd's handler.  *)
Fixed(t, value) == IF t = "pointer" /\ value # None THEN Handler ELSE value

(* Mutant of Recorded: what the vendor is given is saved. *)
RecordedFixed(r) == Fixed(r.on, r.value)

(* syncUpdateRedisQuadEvent saves what the client sent. *)
Recorded(r) == r.value

Accepted(r) ==
  /\ link
  /\ r.on \in Objects => (r.on \in mapped <=> r.op # "create")

(* A set of objects after the request. *)
Changed(objects, r) ==
  CASE r.op = "set" -> objects
    [] r.op = "create" -> objects \cup {r.on}
    [] r.op = "remove" -> objects \ {r.on}

(* processEvent up to the reply: the vendor, and the maps.  A set or       *)
(* remove of an object that has no RID throws, see SyncdAsic; here the     *)
(* client names objects that exist.                                        *)
HandleRequest ==
  /\ InLoop /\ queue # <<>>
  /\ queue' = Tail(queue)
  /\ LET r == Head(queue) IN
     IF Accepted(r)
       THEN /\ card' = [card EXCEPT ![r.on] =
                          IF r.op = "set" THEN Fixed(r.on, r.value) ELSE None]
            /\ mapped' = Changed(mapped, r)
            /\ saving' = {r}
       ELSE UNCHANGED <<card, mapped, saving>>
  /\ UNCHANGED <<link, preconfig, events, db, entries, flexKeys, collected, thread, history, used>>

(* syncUpdateRedisQuadEvent, after the reply. *)
Save ==
  /\ \E r \in saving :
       /\ db' = [db EXCEPT ![r.on] = IF r.op = "set" THEN Recorded(r) ELSE None]
       /\ entries' = Changed(entries, r)
       /\ left' = left \ {r.on}
  /\ saving' = {}
  /\ UNCHANGED <<device, events, queue, mapped, flexKeys, collected, thread, subscribed, missed,
                 used>>

(* processFlexCounterEvent: without a RID, a SET counts as a DEL.  The     *)
(* consumer has written the table before.                                  *)
HandleCounterSet ==
  /\ Serving
  /\ \E o \in Objects :
       /\ flexKeys' = flexKeys \cup {o}
       /\ collected' = IF o \in mapped THEN collected \cup {o} ELSE collected \ {o}
       /\ subscribed' = IF o \in mapped THEN subscribed \cup {o} ELSE subscribed \ {o}
  /\ UNCHANGED <<device, events, queue, saving, db, entries, mapped, thread, left, missed, used>>

HandleCounterDel ==
  /\ Serving
  /\ \E o \in Objects :
       /\ flexKeys' = flexKeys \ {o}
       /\ collected' = collected \ {o}
       /\ subscribed' = subscribed \ {o}
  /\ UNCHANGED <<device, events, queue, saving, db, entries, mapped, thread, left, missed, used>>

-----------------------------------------------------------------------------
(* The end of the process, with its threads and the channels of its        *)
(* notices.                                                                *)

End ==
  /\ main' = "wait" /\ hard' = TRUE /\ todo' = {} /\ state' = "INACTIVE"
  /\ collected' = {} /\ saving' = {}
  /\ hears' = FALSE /\ notices' = <<>> /\ passed' = 0 /\ ntf' = "off"

(* A throw out of the main loop: exit(EXIT_FAILURE). *)
Exit ==
  /\ used.exit < MaxExits /\ Count("exit")                       \* bound
  /\ End
  /\ UNCHANGED <<device, queue, tables, history>>

(* The process is killed at any moment. *)
Kill == main # "wait" /\ Exit

(* The restart query: what is in the queue is handled, then run returns.   *)
RestartQuery ==
  /\ Serving /\ used.exit < MaxExits
  /\ main' = "closing"
  /\ UNCHANGED <<device, events, queue, saving, tables, collected, hard, todo, state, history,
                 used>>

Close == InLoop /\ main = "closing" /\ queue = <<>> /\ Exit

-----------------------------------------------------------------------------
(* The start. *)

Goto(step, work) == main' = step /\ todo' = work

(* Mutant of ActiveAtStart: the member keeps its initial value. *)
InactiveAtStart == "INACTIVE"

ActiveAtStart == "ACTIVE"

WaitLinecardStateActive ==
  /\ main = "wait" /\ link
  /\ Goto("create", {}) /\ state' = ActiveAtStart
  /\ UNCHANGED <<device, events, queue, saving, tables, collected, hard, history, used>>

(* A call of the vendor whose failure ends the process; what it did. *)
OrExit(call) == IF link THEN call ELSE Exit

(* The linecard is created anew. *)
HardCreate ==
  /\ main = "create"
  /\ OrExit(/\ Goto("preconfig", {})
            /\ missed' = FALSE
            /\ UNCHANGED <<device, events, queue, saving, tables, collected, hard, state,
                           subscribed, left, used>>)

-----------------------------------------------------------------------------
(* Notices, and the steps of softReinit. *)

(* removeAllCounters, and the queue is emptied without answers. *)
HandleInactive ==
  /\ collected' = {} /\ queue' = <<>>
  /\ state' = "INACTIVE"
  /\ UNCHANGED <<main, hard, todo, missed>>

HandleActive ==
  /\ Goto("preconfig", {}) /\ hard' = FALSE
  /\ missed' = FALSE
  /\ UNCHANGED <<collected, queue, state>>

(* Mutant of Popped: only the latest of them counts. *)
PoppedLatest == [notice |-> notices[passed], passed |-> 0,
                 rest |-> SubSeq(notices, passed + 1, Len(notices))]

(* handleLinecardState *)
Popped == [notice |-> Head(notices), passed |-> passed - 1, rest |-> Tail(notices)]

HandleLinecardState ==
  /\ Serving /\ passed > 0
  /\ notices' = Popped.rest /\ passed' = Popped.passed
  /\ \/ Popped.notice = state /\ UNCHANGED <<collected, queue, thread, missed>>
     \/ Popped.notice # state /\ Popped.notice = "INACTIVE" /\ HandleInactive
     \/ Popped.notice # state /\ Popped.notice = "ACTIVE" /\ HandleActive
  /\ UNCHANGED <<device, hears, ntf, saving, tables, subscribed, left, used>>

-----------------------------------------------------------------------------
(* The steps of the reinit: SoftReiniter's, and where hard is TRUE         *)
(* SingleReiniter's after the create.                                      *)

Saved(attrs) == {t \in attrs : db[t] # None}

Reinits == UNCHANGED <<link, notices, passed, queue, tables, hard, subscribed, missed, used>>

StartPreConfiguration ==
  /\ main = "preconfig"
  /\ OrExit(/\ preconfig' = TRUE
            /\ Goto("mode", {})
            /\ Reinits /\ UNCHANGED <<card, hears, ntf, saving, collected, state, left>>)

(* setBoardMode: an error is logged.  The wait for the card to take the    *)
(* mode over, at most ten minutes, is part of the step.                    *)
SetBoardMode ==
  /\ main = "mode"
  /\ card' = IF link /\ db["mode"] # None THEN [card EXCEPT !["mode"] = db["mode"]] ELSE card
  /\ Goto("linecard", Saved(LinecardAttr \ {"mode"}))
  /\ Reinits /\ UNCHANGED <<preconfig, hears, ntf, saving, collected, state, left>>

(* processLinecards: the values are those of ASIC_STATE, in the soft       *)
(* reinit the pointers too.                                                *)
SetLinecardAttribute ==
  /\ main = "linecard"
  /\ \E t \in todo :
       OrExit(/\ card' = [card EXCEPT ![t] = IF hard THEN Fixed(t, db[t]) ELSE db[t]]
              /\ Goto("linecard", todo \ {t})
              /\ Reinits /\ UNCHANGED <<preconfig, hears, ntf, saving, collected, state, left>>)

(* One of the attributes is the pointer for the linecard's state. *)
SetStateHandler ==
  /\ main = "linecard" /\ ~hears
  /\ OrExit(/\ hears' = TRUE
            /\ Goto("linecard", todo)
            /\ Reinits /\ UNCHANGED <<card, preconfig, ntf, saving, collected, state, left>>)

LinecardSet ==
  /\ main = "linecard" /\ todo = {} /\ hears
  /\ Goto("objects", IF hard THEN entries ELSE Saved(entries))
  /\ Reinits /\ UNCHANGED <<card, preconfig, hears, ntf, saving, collected, state, left>>

(* SingleReiniter::processSingleVid creates the object and sets nothing on *)
(* it; whether the card still has what was set is the card's.              *)
CreateObject ==
  /\ main = "objects" /\ hard
  /\ \E o \in todo : \E value \in {card[o], None} :
       OrExit(/\ card' = [card EXCEPT ![o] = value]
              /\ left' = IF value = db[o] THEN left \ {o} ELSE left \cup {o}
              /\ Goto("objects", todo \ {o})
              /\ Reinits /\ UNCHANGED <<preconfig, hears, ntf, saving, collected, state>>)

(* SoftReiniter::processSingleVid: an error is logged, and the next        *)
(* attribute follows.                                                      *)
SetObjectAttribute ==
  /\ main = "objects" /\ ~hard
  /\ \E o \in todo :
       /\ card' = IF link THEN [card EXCEPT ![o] = db[o]] ELSE card
       /\ left' = left \ {o}
       /\ Goto("objects", todo \ {o})
  /\ Reinits /\ UNCHANGED <<preconfig, hears, ntf, saving, collected, state>>

ObjectsSet ==
  /\ main = "objects" /\ todo = {}
  /\ Goto("stop", {})
  /\ Reinits /\ UNCHANGED <<card, preconfig, hears, ntf, saving, collected, state, left>>

(* stopPreConfigLinecards throws when the vendor refuses. *)
StopPreConfiguration ==
  /\ main = "stop"
  /\ OrExit(/\ preconfig' = FALSE
            /\ Goto(IF hard THEN "check" ELSE "counters", {})
            /\ Reinits /\ UNCHANGED <<card, hears, ntf, saving, collected, state, left>>)

(* checkAllIds: what was created is what was mapped before. *)
CheckAllIds ==
  /\ main = "check"
  /\ IF entries = mapped
       THEN /\ Goto("counters", {})
            /\ Reinits
            /\ UNCHANGED <<card, preconfig, hears, ntf, saving, collected, state, left>>
       ELSE Exit

(* Mutant of Recollected: the counters wait for their next event. *)
NotRecollected == collected

(* prepareFlexCounterState: every key of the table, RID or not. *)
Recollected == collected \cup flexKeys

(* The reinit ends with the counters; after the hard one, the thread for   *)
(* the notices is started.                                                 *)
AddCounters ==
  /\ main = "counters"
  /\ collected' = Recollected
  /\ Goto("serving", {}) /\ state' = IF hard THEN state ELSE "ACTIVE"
  /\ ntf' = IF hard THEN "late" ELSE ntf
  /\ Reinits /\ UNCHANGED <<card, preconfig, hears, saving, left>>

-----------------------------------------------------------------------------
MainLoop == HandleRequest \/ HandleLinecardState \/ Close
HardReinit == WaitLinecardStateActive \/ HardCreate \/ SetStateHandler \/ CreateObject
              \/ CheckAllIds
SoftReinit == StartPreConfiguration \/ SetBoardMode \/ SetLinecardAttribute \/ LinecardSet
              \/ SetObjectAttribute \/ ObjectsSet \/ StopPreConfiguration \/ AddCounters
Notifications == Forward \/ Drained \/ Wait

Next == \/ LoseLink \/ RegainLink \/ Send \/ OtherSignal \/ HandleCounterSet \/ HandleCounterDel
        \/ RestartQuery \/ Kill \/ MainLoop \/ Save \/ HardReinit \/ SoftReinit \/ Notifications

(* The threads go on, and the main one handles what select reports.        *)
Fairness == WF_vars(HandleRequest \/ Close) /\ WF_vars(HandleLinecardState) /\ WF_vars(Save)
            /\ WF_vars(HardReinit) /\ WF_vars(SoftReinit) /\ WF_vars(Notifications)

Spec == Init /\ [][Next]_vars /\ Fairness

-----------------------------------------------------------------------------
(* Properties. *)

(* Settled: the link is up and syncd has handled all changes of it.        *)
Settled == main = "serving" /\ state = "ACTIVE" /\ link /\ notices = <<>> /\ saving = {}

(* softReinit sets "all" of ASIC_STATE again: however the link flapped and *)
(* at whatever step of the reinit it was lost, once all is settled the     *)
(* card is out of its pre-configuration and has every value of ASIC_STATE  *)
(* (pointers apart, see HandlersInPlace), but for the objects a hard       *)
(* reinit has left without (see SyncdAsic's ObjectConfigRestored), and but *)
(* for a loss within a hard reinit that came before the vendor had a       *)
(* handler to tell it by, as long as no other one follows.                 *)
ConfigRestored ==
  Settled =>
    /\ ~preconfig
    /\ ~missed =>
         \A t \in Target \ (left \cup {"pointer"}) : db[t] # None => card[t] = db[t]

(* A counter that was accepted and not deleted since is collected whenever *)
(* the card is active, after removeAllCounters too; and there is no        *)
(* collector that the table does not ask for.                              *)
CountersBack ==
  main = "serving" /\ state = "ACTIVE" =>
    subscribed \subseteq collected /\ collected \subseteq flexKeys

(* A signal was lost: a change waits in m_notificationQueue, and           *)
(* ntf_process_function for the next notification.                         *)
Unsignalled == passed < Len(notices) /\ ntf = "waiting"

(* The process died between a reply and its save: each start ends in       *)
(* checkAllIds.                                                            *)
Torn == saving = {} /\ entries # mapped

(* If the link stays, then syncd ends up serving an active card: no order  *)
(* of notices and failures leaves it INACTIVE, waiting or with calls that  *)
(* are neither answered nor dropped, unless a signal was lost and no other *)
(* notification ever follows, or the database is torn.                     *)
CardComesBack ==
  <>[]link => <>[](Settled /\ queue = <<>>) \/ <>[]Unsignalled \/ <>[]Torn

(* "replaces pointers from orchagent memory space to syncd memory space":  *)
(* the card never holds a pointer of the client.                           *)
HandlersInPlace == card["pointer"] \in {None, Handler}
=============================================================================
