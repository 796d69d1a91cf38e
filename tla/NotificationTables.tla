-------------------------- MODULE NotificationTables --------------------------
(***************************************************************************)
(* What NotificationProcessor keeps in redis: the current alarms, their    *)
(* history, the history of events, and the results of the OTDRs, of which  *)
(* it deletes the oldest.  Notifications come in the order of the vendor's *)
(* calls and one at a time (NotificationPump); the process may die between *)
(* any two redis commands.                                                 *)
(***************************************************************************)
EXTENDS Naturals, FiniteSets, Sequences, SequencesExt

CONSTANTS
  Resource,   \* an object and a type of alarm it may raise
  CardFail,   \* the resource of syncd's own alarm: the linecard, SLOT_COMM_FAIL
  Otdr,       \* OTDR objects
  Limit,      \* results kept of each OTDR: 10
  MaxTime,    \* bound: notifications, whose number is also their time
  MaxQueue,   \* bound: notifications not handled
  MaxEvents,  \* bound: events of an OTDR result
  MaxCrashes  \* bound: ends of the process

ASSUME LimitAssumption == Limit \in Nat \ {0} /\ MaxTime \in Nat
ASSUME MaxAssumption == MaxQueue \in Nat /\ MaxEvents \in Nat /\ MaxCrashes \in Nat
ASSUME ObjectAssumption ==
  "unnamed" \notin Resource \cup Otdr /\ Resource \cap Otdr = {} /\ CardFail \in Resource

Time == 1 .. MaxTime
Never == 0

(* CURALARM and HISALARM are keyed by the name of the resource, which is   *)
(* empty while the RID has no VID or the VID no name.                      *)
Key == Resource \cup {"unnamed"}

Notification ==
  [kind : {"raise", "clear", "event"}, object : Resource, time : Time, events : {0}]
    \cup [kind : {"otdr"}, object : Otdr, time : Time, events : 0 .. MaxEvents]

VARIABLES
  time,        \* the time of the newest notification
  active,      \* the vendor: alarms that are on
  named,       \* objects that have a VID and a name
  queue,       \* notifications not handled yet; the first is in work
  curalarm,    \* redis CURALARM: the time-created of each key
  flushed,     \* keys whose entry a flush took, and no later report brought back
  hisalarm,    \* redis HISALARM: the time-created under each key#time-cleared
  hisevent,    \* redis HISEVENT: keys
  current,     \* redis OTDR|CURRENT: result and events of each OTDR
  otdr,        \* redis OTDR: each result "absent", "begun" or "whole"
  otdrEvent,   \* redis OTDR_EVENT: keys
  scanTimes,   \* m_otdrScanTimeQueue
  step,        \* what the handler does next
  key,         \* keyid of the alarm that is being cleared
  crashes,     \* ends of the process so far
  steady       \* resources of which no notification was lost or renamed

alarms  == <<curalarm, flushed, hisalarm, hisevent>>
results == <<current, otdr, otdrEvent, scanTimes>>
outside == <<time, active, named, crashes, steady>>
vars    == <<outside, queue, alarms, results, step, key>>

Step == {"idle", "delete", "fields", "events", "push", "trim", "trimEvents"}

TypeOK ==
  /\ time \in 0 .. MaxTime /\ crashes \in 0 .. MaxCrashes
  /\ active \subseteq Resource /\ steady \subseteq Resource
  /\ named \subseteq Resource \cup Otdr
  /\ queue \in Seq(Notification)
  /\ curalarm \in [Key -> Time \cup {Never}] /\ flushed \subseteq Key
  /\ hisalarm \in [Key \X Time -> Time \cup {Never}]
  /\ hisevent \subseteq Key \X Time
  /\ current \in [Otdr -> [result : Time \cup {Never}, event : [1 .. MaxEvents -> Time \cup {Never}]]]
  /\ otdr \in [Otdr \X Time -> {"absent", "begun", "whole"}]
  /\ otdrEvent \subseteq Otdr \X Time \X (1 .. MaxEvents)
  /\ scanTimes \in [Otdr -> Seq(Time)]
  /\ step \in Step /\ key \in Key
  /\ step # "idle" => queue # <<>>

Init ==
  /\ time = 0 /\ active = {} /\ named = {} /\ queue = <<>>
  /\ curalarm = [k \in Key |-> Never] /\ flushed = {}
  /\ hisalarm = [k \in Key \X Time |-> Never]
  /\ hisevent = {}
  /\ current = [o \in Otdr |-> [result |-> Never, event |-> [i \in 1 .. MaxEvents |-> Never]]]
  /\ otdr = [k \in Otdr \X Time |-> "absent"]
  /\ otdrEvent = {}
  /\ scanTimes = [o \in Otdr |-> <<>>]
  /\ step = "idle" /\ key = "unnamed"
  /\ crashes = 0 /\ steady = Resource

-----------------------------------------------------------------------------
(* The vendor and the rest of the system. *)

Notify(kind, object, events) ==
  /\ time < MaxTime /\ Len(queue) < MaxQueue                   \* bounds
  /\ time' = time + 1
  /\ queue' = Append(queue, [kind |-> kind, object |-> object, time |-> time', events |-> events])
  /\ UNCHANGED <<named, crashes, steady, hisalarm, hisevent, results, step, key>>

(* An alarm that is on may be reported once more. *)
VendorRaises(r) ==
  active' = active \cup {r} /\ Notify("raise", r, 0) /\ UNCHANGED <<curalarm, flushed>>

VendorClears(r) ==
  /\ r \in active /\ active' = active \ {r}
  /\ Notify("clear", r, 0) /\ UNCHANGED <<curalarm, flushed>>

VendorReportsEvent(r) == Notify("event", r, 0) /\ UNCHANGED <<active, curalarm, flushed>>

VendorScans(o) ==
  (\E n \in 0 .. MaxEvents : Notify("otdr", o, n)) /\ UNCHANGED <<active, curalarm, flushed>>

(* generate_linecard_communication_alarm, in the vendor's thread and so    *)
(* between any two steps of a handler.  "flush all current alarms" is a    *)
(* call of swss-common's Table, which is not part of src/: it empties the  *)
(* table or only sends what is buffered.                                   *)
LinecardInactive ==
  /\ active' = active \cup {CardFail}
  /\ \/ /\ curalarm' = [k \in Key |-> Never]
        /\ flushed' = flushed \cup {k \in Key : curalarm[k] # Never}
     \/ UNCHANGED <<curalarm, flushed>>
  /\ Notify("raise", CardFail, 0)

LinecardActive ==
  active' = active \ {CardFail} /\ Notify("clear", CardFail, 0) /\ UNCHANGED <<curalarm, flushed>>

(* The application creates, names or removes an object. *)
Rename(r) ==
  /\ named' = IF r \in named THEN named \ {r} ELSE named \cup {r}
  /\ steady' = IF r \in active \/ \E i \in DOMAIN queue : queue[i].object = r
                 THEN steady \ {r} ELSE steady
  /\ UNCHANGED <<time, active, crashes, queue, alarms, results, step, key>>

-----------------------------------------------------------------------------
(* Alarms and events. *)

KeyOf(r) == IF r \in named THEN r ELSE "unnamed"

Handling(kind) == step = "idle" /\ queue # <<>> /\ Head(queue).kind = kind

(* handler_alarm_generated: "alarm already generated" keeps the old entry. *)
RaiseAlarm ==
  /\ Handling("raise")
  /\ LET k == KeyOf(Head(queue).object) IN
     /\ curalarm' = IF curalarm[k] = Never THEN [curalarm EXCEPT ![k] = Head(queue).time]
                    ELSE curalarm
     /\ flushed' = flushed \ {k}
  /\ queue' = Tail(queue)
  /\ UNCHANGED <<outside, hisalarm, hisevent, results, step, key>>

(* Mutant of ClearAlarm: the history is left to the deletion. *)
ClearAlarmFirst ==
  /\ Handling("clear")
  /\ key' = KeyOf(Head(queue).object)
  /\ step' = "delete"
  /\ UNCHANGED <<outside, queue, alarms, results>>

(* handler_alarm_cleared up to the history: "alarm already cleared" ends   *)
(* it.  The record moves with the time it was cleared added.               *)
ClearAlarm ==
  /\ Handling("clear")
  /\ LET k == KeyOf(Head(queue).object) IN
     IF curalarm[k] = Never
       THEN queue' = Tail(queue) /\ UNCHANGED <<hisalarm, step, key>>
       ELSE /\ hisalarm' = [hisalarm EXCEPT ![<<k, Head(queue).time>>] = curalarm[k]]
            /\ key' = k /\ step' = "delete"
            /\ UNCHANGED queue
  /\ UNCHANGED <<outside, curalarm, flushed, hisevent, results>>

(* Mutant of DeleteAlarm: the entry stays. *)
DeleteAlarmNot ==
  /\ step = "delete"
  /\ step' = "idle" /\ queue' = Tail(queue)
  /\ UNCHANGED <<outside, alarms, results, key>>

DeleteAlarm ==
  /\ step = "delete"
  /\ curalarm' = [curalarm EXCEPT ![key] = Never]
  /\ step' = "idle" /\ queue' = Tail(queue)
  /\ UNCHANGED <<outside, flushed, hisalarm, hisevent, results, key>>

(* handler_event_generated. *)
RecordEvent ==
  /\ Handling("event")
  /\ hisevent' = hisevent \cup {<<KeyOf(Head(queue).object), Head(queue).time>>}
  /\ queue' = Tail(queue)
  /\ UNCHANGED <<outside, curalarm, flushed, hisalarm, results, step, key>>

-----------------------------------------------------------------------------
(* Results of an OTDR. *)

(* handle_otdr_result_notify drops a result without a name.  Otherwise it  *)
(* writes result and events as the current ones, over those that are       *)
(* there, and begins the entry of the history with its name.               *)
StartResult ==
  /\ Handling("otdr")
  /\ LET n == Head(queue) IN
     IF n.object \notin named
       THEN queue' = Tail(queue) /\ UNCHANGED <<current, otdr, step>>
       ELSE /\ current' = [current EXCEPT ![n.object] =
                 [result |-> n.time,
                  event |-> [i \in 1 .. MaxEvents |-> IF i <= n.events THEN n.time ELSE @.event[i]]]]
            /\ otdr' = [otdr EXCEPT ![<<n.object, n.time>>] = "begun"]
            /\ step' = "fields"
            /\ UNCHANGED queue
  /\ UNCHANGED <<outside, alarms, otdrEvent, scanTimes, key>>

(* The other fields of the entry, scan-time among them. *)
WriteFields ==
  /\ step = "fields"
  /\ otdr' = [otdr EXCEPT ![<<Head(queue).object, Head(queue).time>>] = "whole"]
  /\ step' = "events"
  /\ UNCHANGED <<outside, queue, alarms, current, otdrEvent, scanTimes, key>>

(* Mutant of WriteEvents: indices that begin with 0. *)
WriteEventsFromZero ==
  /\ step = "events"
  /\ otdrEvent' = otdrEvent \cup
       {<<Head(queue).object, Head(queue).time, i - 1>> : i \in 1 .. Head(queue).events}
  /\ step' = "push"
  /\ UNCHANGED <<outside, queue, alarms, current, otdr, scanTimes, key>>

WriteEvents ==
  /\ step = "events"
  /\ otdrEvent' = otdrEvent \cup
       {<<Head(queue).object, Head(queue).time, i>> : i \in 1 .. Head(queue).events}
  /\ step' = "push"
  /\ UNCHANGED <<outside, queue, alarms, current, otdr, scanTimes, key>>

PushScanTime ==
  /\ step = "push"
  /\ scanTimes' = [scanTimes EXCEPT ![Head(queue).object] = Append(@, Head(queue).time)]
  /\ step' = "trim"
  /\ UNCHANGED <<outside, queue, alarms, current, otdr, otdrEvent, key>>

(* One round of the loop: the entry of the oldest result. *)
TrimResult ==
  /\ step = "trim"
  /\ LET o == Head(queue).object IN
     IF Len(scanTimes[o]) > Limit
       THEN /\ otdr' = [otdr EXCEPT ![<<o, Head(scanTimes[o])>>] = "absent"]
            /\ step' = "trimEvents"
            /\ UNCHANGED queue
       ELSE queue' = Tail(queue) /\ step' = "idle" /\ UNCHANGED otdr
  /\ UNCHANGED <<outside, alarms, current, otdrEvent, scanTimes, key>>

(* The events whose keys match the pattern. *)
EventsOf(o, t) == {e \in otdrEvent : e[1] = o /\ e[2] = t}

TrimEvents ==
  /\ step = "trimEvents"
  /\ LET o == Head(queue).object IN
     /\ otdrEvent' = otdrEvent \ EventsOf(o, Head(scanTimes[o]))
     /\ scanTimes' = [scanTimes EXCEPT ![o] = Tail(@)]
  /\ step' = "trim"
  /\ UNCHANGED <<outside, queue, alarms, current, otdr, key>>

-----------------------------------------------------------------------------
(* The end of the process and the next start. *)

(* A std::set is walked in order. *)
Sorted(S) ==
  CHOOSE s \in [1 .. Cardinality(S) -> S] : \A i, j \in DOMAIN s : i < j => s[i] < s[j]

(* Mutant of Reload. *)
ReloadNothing(o) == <<>>

(* initOtdrScanTimeSet: the scan times of the entries that have one.       *)
Reload(o) == Sorted({t \in Time : otdr[<<o, t>>] = "whole"})

(* The queue is memory; the tables are not.  The vendor library dies, too, *)
(* but not the alarms it sees when it is back.                             *)
Restart ==
  /\ crashes < MaxCrashes                                       \* bound
  /\ crashes' = crashes + 1
  /\ queue' = <<>> /\ step' = "idle"
  /\ scanTimes' = [o \in Otdr |-> Reload(o)]
  /\ steady' = steady \ {queue[i].object : i \in DOMAIN queue}
  /\ UNCHANGED <<time, active, named, alarms, current, otdr, otdrEvent, key>>

Handle ==
  \/ RaiseAlarm \/ ClearAlarm \/ DeleteAlarm \/ RecordEvent
  \/ StartResult \/ WriteFields \/ WriteEvents \/ PushScanTime
  \/ TrimResult \/ TrimEvents

Next ==
  \/ \E r \in Resource \ {CardFail} : VendorRaises(r) \/ VendorClears(r) \/ VendorReportsEvent(r)
  \/ LinecardInactive \/ LinecardActive
  \/ \E o \in Otdr : VendorScans(o)
  \/ \E r \in Resource \cup Otdr : Rename(r)
  \/ Handle \/ Restart

Spec == Init /\ [][Next]_vars

-----------------------------------------------------------------------------
(* Properties. *)

(* Once everything is handled CURALARM has no entry for a resource whose   *)
(* alarm is off, and has one for each alarm that is on unless the flush of *)
(* a linecard that went inactive took it since the alarm was last reported *)
(* (no step of syncd's brings it back), whatever other resources share the *)
(* key of the unnamed, as long as the resource did not get or lose its     *)
(* name with an alarm on or a notification under way, and no restart lost  *)
(* one.                                                                    *)
CurrentIsActive ==
  queue = <<>> =>
    \A r \in steady \cap named :
      /\ curalarm[r] # Never => r \in active
      /\ r \in active => curalarm[r] # Never \/ r \in flushed

LeavesRecorded ==
  \A k \in Key :
    curalarm[k] # Never /\ curalarm'[k] = Never
      => (\E t \in Time : hisalarm[<<k, t>>] = curalarm[k]) \/ LinecardInactive

(* An alarm leaves CURALARM only when HISALARM already has it, or with     *)
(* all others in the flush of a linecard that goes inactive, which leaves  *)
(* no record but reports the linecard's own alarm: no crash loses an alarm *)
(* between the tables, and no flush that falls between the steps of a      *)
(* handler makes the handler delete what it did not record.                *)
RecordedBeforeGone == [][LeavesRecorded]_curalarm

Whole(o) == {t \in Time : otdr[<<o, t>>] = "whole"}

(* Every whole result in the history is queued for its deletion, also      *)
(* after a crash between any two steps and a reload: none stays for ever.  *)
NothingForgotten ==
  step = "idle" => \A o \in Otdr : Whole(o) = ToSet(scanTimes[o])

=============================================================================
