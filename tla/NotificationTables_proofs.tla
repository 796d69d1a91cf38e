---------------------- MODULE NotificationTables_proofs ----------------------
(***************************************************************************)
(* Proofs about NotificationTables, for every set of resources and every   *)
(* bound: CURALARM follows the vendor's alarms, an alarm that leaves it is *)
(* in HISALARM already, and every whole OTDR result is queued for its      *)
(* deletion.                                                               *)
(***************************************************************************)
EXTENDS NotificationTables, FiniteSetTheorems, TLAPS

(* The types of what the handlers of alarms read and write.                *)
AlarmTypes ==
  /\ active \subseteq Resource
  /\ queue \in Seq(Notification)
  /\ curalarm \in [Key -> Time \cup {Never}] /\ flushed \subseteq Key
  /\ hisalarm \in [Key \X Time -> Time \cup {Never}]
  /\ key \in Key /\ time \in 0 .. MaxTime

OtdrStep == {"fields", "events", "push", "trim", "trimEvents"}

(* The handler that is at work is that of the first notification.  A clear *)
(* that is between the tables has recorded what it will delete, unless a   *)
(* flush was faster, and deletes the entry of its own resource or of the   *)
(* unnamed.                                                                *)
StepInv ==
  /\ step \in {"idle", "delete"} \cup OtdrStep
  /\ step # "idle" => queue # <<>>
  /\ step \in OtdrStep => queue[1].kind = "otdr"
  /\ step = "delete" =>
       /\ queue[1].kind = "clear"
       /\ key \in {queue[1].object, "unnamed"}
       /\ queue[1].object \in steady => key = KeyOf(queue[1].object)
       /\ curalarm[key] \in {hisalarm[<<key, queue[1].time>>], Never}

(* The notifications of r's alarm that are not handled.                    *)
Alarm(n, r) == n.kind \in {"raise", "clear"} /\ n.object = r

IsLast(q, i, r) ==
  Alarm(q[i], r) /\ \A j \in 1 .. Len(q) : i < j => ~Alarm(q[j], r)

(* CURALARM tells whether the alarm of r is on, as far as a flush lets it. *)
Follows(r) ==
  (curalarm[r] # Never => r \in active) /\ (r \in active => curalarm[r] # Never \/ r \in flushed)

(* The last notification of an alarm tells whether it is on, and CURALARM  *)
(* tells when there is none; the unnamed share a key of their own.         *)
QueueTells ==
  \A r \in steady, i \in 1 .. Len(queue) :
    IsLast(queue, i, r) => (queue[i].kind = "raise" <=> r \in active)
TableTells ==
  \A r \in steady \cap named :
    (\A i \in 1 .. Len(queue) : ~Alarm(queue[i], r)) => Follows(r)
UnnamedAbsent == \A r \in steady : r \notin named => curalarm[r] = Never

AlarmInv ==
  /\ AlarmTypes /\ StepInv /\ steady \subseteq Resource
  /\ QueueTells /\ TableTells /\ UnnamedAbsent

(* What a notification is. *)
LEMMA NotificationParts ==
  \A n \in Notification :
    /\ n.time \in Time
    /\ n.kind \in {"raise", "clear", "event", "otdr"}
    /\ n.kind # "otdr" => n.object \in Resource
BY DEF Notification

(* An OTDR's step and a notification of an alarm or event leave the rest.  *)
LEMMA OtdrSteps ==
  ASSUME AlarmTypes, StepInv,
         StartResult \/ WriteFields \/ WriteEvents \/ PushScanTime \/ TrimResult \/ TrimEvents
  PROVE  /\ UNCHANGED <<outside, alarms, key>>
         /\ queue # <<>> /\ queue[1].kind = "otdr"
         /\ queue' = queue \/ (queue' = Tail(queue) /\ step' = "idle")
         /\ step' \in {"idle"} \cup OtdrStep
         /\ step' \in OtdrStep => queue' = queue
<1> USE DEF AlarmTypes, StepInv, OtdrStep, alarms
<1>1. CASE StartResult
  BY <1>1 DEF StartResult, Handling
<1>2. CASE WriteFields
  BY <1>2 DEF WriteFields
<1>3. CASE WriteEvents
  BY <1>3 DEF WriteEvents
<1>4. CASE PushScanTime
  BY <1>4 DEF PushScanTime
<1>5. CASE TrimResult
  BY <1>5 DEF TrimResult
<1>6. CASE TrimEvents
  BY <1>6 DEF TrimEvents
<1> QED
  BY <1>1, <1>2, <1>3, <1>4, <1>5, <1>6

(* What a linecard's INACTIVE does to CURALARM where it empties it.        *)
Flush == curalarm' = [k \in Key |-> Never] /\ flushed' = flushed \cup {k \in Key : curalarm[k] # Never}

LEMMA VendorSteps ==
  ASSUME AlarmTypes,
         \/ \E r \in Resource \ {CardFail} : VendorRaises(r) \/ VendorClears(r) \/ VendorReportsEvent(r)
         \/ LinecardInactive \/ LinecardActive
         \/ \E o \in Otdr : VendorScans(o)
  PROVE  \E n \in Notification :
           /\ queue' = Append(queue, n)
           /\ UNCHANGED <<named, steady, hisalarm, step, key>>
           /\ UNCHANGED <<curalarm, flushed>> \/ Flush
           /\ \/ n.kind = "raise" /\ n.object \in Resource /\ active' = active \cup {n.object}
              \/ n.kind = "clear" /\ n.object \in Resource /\ active' = active \ {n.object}
              \/ n.kind \in {"event", "otdr"} /\ active' = active
<1>0. time < MaxTime => time + 1 \in Time
  BY LimitAssumption DEF AlarmTypes, Time
<1>1. ASSUME NEW kind \in {"raise", "clear", "event"}, NEW r \in Resource, time + 1 \in Time
      PROVE  [kind |-> kind, object |-> r, time |-> time + 1, events |-> 0] \in Notification
  BY <1>1 DEF Notification
<1>2. ASSUME NEW o \in Otdr, NEW e \in 0 .. MaxEvents, time + 1 \in Time
      PROVE  [kind |-> "otdr", object |-> o, time |-> time + 1, events |-> e] \in Notification
  BY <1>2 DEF Notification
<1>3. CASE \E r \in Resource \ {CardFail} : VendorRaises(r)
  BY <1>0, <1>1, <1>3 DEF VendorRaises, Notify, alarms
<1>4. CASE \E r \in Resource \ {CardFail} : VendorClears(r)
  BY <1>0, <1>1, <1>4 DEF VendorClears, Notify, alarms
<1>5. CASE \E r \in Resource \ {CardFail} : VendorReportsEvent(r)
  BY <1>0, <1>1, <1>5 DEF VendorReportsEvent, Notify, alarms
<1>6. CASE \E o \in Otdr : VendorScans(o)
  BY <1>0, <1>2, <1>6 DEF VendorScans, Notify, alarms
<1>7. CASE LinecardInactive
  BY <1>0, <1>1, <1>7, ObjectAssumption DEF LinecardInactive, Notify, Flush
<1>8. CASE LinecardActive
  BY <1>0, <1>1, <1>8, ObjectAssumption DEF LinecardActive, Notify
<1> QED
  BY <1>3, <1>4, <1>5, <1>6, <1>7, <1>8

(* What a step that handles the first notification leaves of the others.   *)
LEMMA AfterPop ==
  ASSUME AlarmInv, queue # <<>>, queue' = Tail(queue), UNCHANGED <<active, steady, named>>
  PROVE  /\ QueueTells'
         /\ \A r \in steady \cap named :
              (\A i \in 1 .. Len(queue') : ~Alarm(queue'[i], r)) =>
                IF Alarm(queue[1], r) THEN queue[1].kind = "raise" <=> r \in active
                ELSE Follows(r)
<1>1. /\ Len(queue) \in Nat \ {0} /\ Len(queue') = Len(queue) - 1
      /\ \A i \in 1 .. Len(queue) - 1 : queue'[i] = queue[i + 1]
  BY DEF AlarmInv, AlarmTypes
<1>2. ASSUME NEW r \in steady, NEW i \in 1 .. Len(queue'), IsLast(queue', i, r)
      PROVE  queue'[i].kind = "raise" <=> r \in active
  <2>1. i + 1 \in 1 .. Len(queue) /\ queue'[i] = queue[i + 1]
    BY <1>1
  <2>2. ASSUME NEW j \in 1 .. Len(queue), i + 1 < j PROVE ~Alarm(queue[j], r)
    <3>1. j - 1 \in 1 .. Len(queue') /\ i < j - 1 /\ queue'[j - 1] = queue[(j - 1) + 1]
      BY <1>1, <2>2
    <3>2. (j - 1) + 1 = j
      OBVIOUS
    <3> QED
      BY <1>2, <3>1, <3>2 DEF IsLast
  <2>3. IsLast(queue, i + 1, r)
    BY <1>2, <2>1, <2>2 DEF IsLast
  <2> QED
    BY <2>1, <2>3 DEF AlarmInv, QueueTells
<1>3. ASSUME NEW r \in steady \cap named, \A i \in 1 .. Len(queue') : ~Alarm(queue'[i], r)
      PROVE  IF Alarm(queue[1], r) THEN queue[1].kind = "raise" <=> r \in active
             ELSE Follows(r)
  <2>1. ASSUME NEW j \in 1 .. Len(queue), 1 < j PROVE ~Alarm(queue[j], r)
    <3>1. j - 1 \in 1 .. Len(queue') /\ queue'[j - 1] = queue[(j - 1) + 1]
      BY <1>1, <2>1
    <3>2. (j - 1) + 1 = j
      OBVIOUS
    <3> QED
      BY <1>3, <3>1, <3>2
  <2>2. CASE Alarm(queue[1], r)
    <3>1. IsLast(queue, 1, r) /\ 1 \in 1 .. Len(queue)
      BY <1>1, <2>1, <2>2 DEF IsLast
    <3> QED
      BY <2>2, <3>1 DEF AlarmInv, QueueTells
  <2>3. CASE ~Alarm(queue[1], r)
    <3>1. \A j \in 1 .. Len(queue) : ~Alarm(queue[j], r)
      BY <2>1, <2>3
    <3> QED
      BY <2>3, <3>1 DEF AlarmInv, TableTells
  <2> QED
    BY <2>2, <2>3
<1> QED
  BY <1>2, <1>3 DEF QueueTells

LEMMA AfterAppend ==
  ASSUME AlarmInv, NEW n \in Notification, queue' = Append(queue, n),
         UNCHANGED <<named, steady, hisalarm, step, key>>, time' \in 0 .. MaxTime,
         UNCHANGED <<curalarm, flushed>> \/ Flush,
         \/ n.kind = "raise" /\ n.object \in Resource /\ active' = active \cup {n.object}
         \/ n.kind = "clear" /\ n.object \in Resource /\ active' = active \ {n.object}
         \/ n.kind \in {"event", "otdr"} /\ active' = active
  PROVE  AlarmInv'
<1>1. /\ Len(queue) \in Nat /\ Len(queue') = Len(queue) + 1
      /\ \A i \in 1 .. Len(queue) : queue'[i] = queue[i] /\ i \in 1 .. Len(queue')
      /\ queue'[Len(queue')] = n /\ Len(queue') \in 1 .. Len(queue')
      /\ \A i \in 1 .. Len(queue') : i \in 1 .. Len(queue) \/ i = Len(queue')
  BY DEF AlarmInv, AlarmTypes
<1>2. AlarmTypes'
  BY DEF AlarmInv, AlarmTypes, Flush
<1>3. StepInv'
  <2>1. queue # <<>> => queue' # <<>> /\ queue'[1] = queue[1]
    <3>1. queue # <<>> => 1 \in 1 .. Len(queue)
      BY DEF AlarmInv, AlarmTypes
    <3> QED
      BY <1>1, <3>1
  <2>2. CASE step = "delete"
    <3>1. queue # <<>> /\ queue'[1] = queue[1] /\ queue' # <<>>
      BY <2>1, <2>2 DEF AlarmInv, StepInv
    <3>2. curalarm'[key] \in {curalarm[key], Never}
      BY DEF Flush, AlarmInv, AlarmTypes
    <3> QED
      BY <2>2, <3>1, <3>2 DEF AlarmInv, StepInv, KeyOf, OtdrStep
  <2>3. CASE step # "delete"
    BY <2>1, <2>3 DEF AlarmInv, StepInv, OtdrStep
  <2> QED
    BY <2>2, <2>3
<1>4. ASSUME NEW r \in steady, ~Alarm(n, r) PROVE r \in active' <=> r \in active
  BY <1>4 DEF Alarm
<1>5. ASSUME NEW r \in steady, Alarm(n, r) PROVE n.kind = "raise" <=> r \in active'
  BY <1>5 DEF Alarm
<1>6. QueueTells'
  <2> SUFFICES ASSUME NEW r \in steady, NEW i \in 1 .. Len(queue'), IsLast(queue', i, r)
               PROVE  queue'[i].kind = "raise" <=> r \in active'
    BY DEF QueueTells
  <2>1. CASE i = Len(queue')
    BY <1>1, <1>5, <2>1 DEF IsLast
  <2>2. CASE i \in 1 .. Len(queue)
    <3>1. ~Alarm(n, r)
      BY <1>1, <2>2 DEF IsLast
    <3>2. IsLast(queue, i, r) /\ queue'[i] = queue[i]
      BY <1>1, <2>2 DEF IsLast
    <3> QED
      BY <1>4, <2>2, <3>1, <3>2 DEF AlarmInv, QueueTells
  <2> QED
    BY <1>1, <2>1, <2>2
<1>7. TableTells'
  <2> SUFFICES ASSUME NEW r \in steady \cap named,
                      \A i \in 1 .. Len(queue') : ~Alarm(queue'[i], r)
               PROVE  Follows(r)'
    BY DEF TableTells
  <2>1. ~Alarm(n, r) /\ \A i \in 1 .. Len(queue) : ~Alarm(queue[i], r)
    BY <1>1
  <2>2. Follows(r) /\ r \in Key
    BY <2>1 DEF AlarmInv, TableTells, Key
  <2>3. CASE UNCHANGED <<curalarm, flushed>>
    BY <1>4, <2>1, <2>2, <2>3 DEF Follows
  <2>4. CASE Flush
    BY <1>4, <2>1, <2>2, <2>4 DEF Follows, Flush
  <2> QED
    BY <2>3, <2>4
<1>8. UnnamedAbsent'
  BY DEF AlarmInv, UnnamedAbsent, Flush, Key
<1> QED
  BY <1>2, <1>3, <1>6, <1>7, <1>8 DEF AlarmInv

LEMMA RenameKeeps == ASSUME AlarmInv, NEW r \in Resource \cup Otdr, Rename(r) PROVE AlarmInv'
<1>1. UNCHANGED <<time, active, queue, curalarm, flushed, hisalarm, step, key>>
  BY DEF Rename, alarms
<1>2. /\ steady' \subseteq steady
      /\ r \in steady' => r \notin active /\ \A i \in 1 .. Len(queue) : queue[i].object # r
  BY DEF Rename, AlarmInv, AlarmTypes
<1>3. \A q : q # r => (q \in named' <=> q \in named)
  BY DEF Rename
<1>4. AlarmTypes' /\ QueueTells' /\ steady' \subseteq Resource
  BY <1>1, <1>2 DEF AlarmInv, AlarmTypes, QueueTells
<1>5. StepInv'
  <2> USE DEF AlarmInv, StepInv
  <2>1. ASSUME step = "delete", queue[1].object \in steady' PROVE key = KeyOf(queue[1].object)'
    <3>1. 1 \in 1 .. Len(queue)
      BY <2>1 DEF AlarmTypes
    <3>2. queue[1].object # r
      BY <1>2, <2>1, <3>1
    <3> QED
      BY <1>1, <1>2, <1>3, <2>1, <3>2 DEF KeyOf
  <2> QED
    BY <1>1, <2>1
<1>6. r \in steady' => curalarm[r] = Never
  <2> SUFFICES ASSUME r \in steady' PROVE curalarm[r] = Never
    OBVIOUS
  <2>1. \A i \in 1 .. Len(queue) : ~Alarm(queue[i], r)
    BY <1>2 DEF Alarm
  <2>2. r \in named => Follows(r)
    BY <1>2, <2>1 DEF AlarmInv, TableTells
  <2> QED
    BY <1>2, <2>2 DEF AlarmInv, UnnamedAbsent, Follows
<1>7. TableTells'
  BY <1>1, <1>2, <1>3, <1>6 DEF AlarmInv, TableTells, Follows
<1>8. UnnamedAbsent'
  BY <1>1, <1>2, <1>3, <1>6 DEF AlarmInv, UnnamedAbsent
<1> QED
  BY <1>4, <1>5, <1>7, <1>8 DEF AlarmInv

LEMMA RaiseKeeps == ASSUME AlarmInv, RaiseAlarm PROVE AlarmInv'
<1> DEFINE o == queue[1].object
           k == KeyOf(o)
<1>1. /\ step = "idle" /\ queue # <<>> /\ queue[1].kind = "raise" /\ Head(queue) = queue[1]
      /\ queue[1] \in Notification
      /\ queue' = Tail(queue) /\ queue' \in Seq(Notification)
      /\ UNCHANGED <<time, active, named, steady, hisalarm, step, key>>
  BY DEF RaiseAlarm, Handling, AlarmInv, AlarmTypes, outside
<1>2. o \in Resource /\ queue[1].time \in Time /\ queue[1].time # Never /\ k \in Key
  BY <1>1, NotificationParts DEF Time, Never, KeyOf, Key
<1>3. /\ curalarm'[k] # Never /\ curalarm' \in [Key -> Time \cup {Never}]
      /\ \A q \in Key : q # k => curalarm'[q] = curalarm[q]
      /\ flushed' = flushed \ {k}
  BY <1>1, <1>2 DEF RaiseAlarm, AlarmInv, AlarmTypes
<1>4. AlarmTypes' /\ StepInv'
  BY <1>1, <1>3 DEF AlarmInv, AlarmTypes, StepInv, OtdrStep
<1>5. \A r \in steady : r \in Key /\ r # "unnamed"
  BY ObjectAssumption DEF AlarmInv, Key
<1>6. QueueTells'
  BY <1>1, AfterPop
<1>7. TableTells'
  <2> SUFFICES ASSUME NEW r \in steady \cap named,
                      \A i \in 1 .. Len(queue') : ~Alarm(queue'[i], r)
               PROVE  Follows(r)'
    BY <1>1 DEF TableTells
  <2>1. IF Alarm(queue[1], r) THEN queue[1].kind = "raise" <=> r \in active
        ELSE Follows(r)
    BY <1>1, AfterPop
  <2>2. CASE r = o
    <3>1. k = r /\ Alarm(queue[1], r)
      BY <1>1, <2>2 DEF KeyOf, Alarm
    <3> QED
      BY <1>1, <1>3, <2>1, <3>1 DEF Follows
  <2>3. CASE r # o
    <3>1. k # r /\ ~Alarm(queue[1], r)
      BY <1>5, <2>3 DEF KeyOf, Alarm
    <3> QED
      BY <1>1, <1>3, <1>5, <2>1, <3>1 DEF Follows
  <2> QED
    BY <2>2, <2>3
<1>8. UnnamedAbsent'
  <2>1. \A r \in steady : r \notin named => r # k
    BY <1>5 DEF KeyOf
  <2> QED
    BY <1>1, <1>3, <1>5, <2>1 DEF AlarmInv, UnnamedAbsent
<1> QED
  BY <1>1, <1>4, <1>6, <1>7, <1>8 DEF AlarmInv

LEMMA ClearKeeps == ASSUME AlarmInv, ClearAlarm PROVE AlarmInv'
<1> DEFINE o == queue[1].object
           k == KeyOf(o)
<1>1. /\ step = "idle" /\ queue # <<>> /\ queue[1].kind = "clear" /\ Head(queue) = queue[1]
      /\ queue[1] \in Notification
      /\ UNCHANGED <<time, active, named, steady, curalarm, flushed>>
  BY DEF ClearAlarm, Handling, AlarmInv, AlarmTypes, outside
<1>2. o \in Resource /\ queue[1].time \in Time /\ k \in Key /\ k \in {o, "unnamed"}
  BY <1>1, NotificationParts DEF KeyOf, Key
<1>3. \A r \in steady : r \in Key /\ r # "unnamed"
  BY ObjectAssumption DEF AlarmInv, Key
<1>4. CASE curalarm[k] # Never
  <2>1. /\ hisalarm' = [hisalarm EXCEPT ![<<k, queue[1].time>>] = curalarm[k]]
        /\ key' = k /\ step' = "delete" /\ queue' = queue
    BY <1>1, <1>4 DEF ClearAlarm
  <2>2. /\ hisalarm' \in [Key \X Time -> Time \cup {Never}]
        /\ hisalarm'[<<k, queue[1].time>>] = curalarm[k]
    BY <1>2, <2>1 DEF AlarmInv, AlarmTypes
  <2>3. AlarmTypes' /\ StepInv'
    BY <1>1, <1>2, <2>1, <2>2 DEF AlarmInv, AlarmTypes, StepInv, OtdrStep, KeyOf
  <2> QED
    BY <1>1, <2>1, <2>3 DEF AlarmInv, QueueTells, TableTells, UnnamedAbsent, Follows
<1>5. CASE curalarm[k] = Never
  <2>1. queue' = Tail(queue) /\ queue' \in Seq(Notification) /\ UNCHANGED <<hisalarm, step, key>>
    <3>1. queue' = Tail(queue) /\ UNCHANGED <<hisalarm, step, key>>
      BY <1>1, <1>5 DEF ClearAlarm
    <3> QED
      BY <1>1, <3>1 DEF AlarmInv, AlarmTypes
  <2>2. AlarmTypes' /\ StepInv'
    BY <1>1, <2>1 DEF AlarmInv, AlarmTypes, StepInv, OtdrStep
  <2>3. QueueTells'
    BY <1>1, <2>1, AfterPop
  <2>4. TableTells'
    <3> SUFFICES ASSUME NEW r \in steady \cap named,
                        \A i \in 1 .. Len(queue') : ~Alarm(queue'[i], r)
                 PROVE  Follows(r)'
      BY <1>1 DEF TableTells
    <3>1. IF Alarm(queue[1], r) THEN queue[1].kind = "raise" <=> r \in active
          ELSE Follows(r)
      BY <1>1, <2>1, AfterPop
    <3>2. Alarm(queue[1], r) => r = k
      BY DEF Alarm, KeyOf
    <3> QED
      BY <1>1, <1>5, <3>1, <3>2 DEF Follows
  <2> QED
    BY <1>1, <2>2, <2>3, <2>4 DEF AlarmInv, UnnamedAbsent
<1> QED
  BY <1>4, <1>5

LEMMA DeleteKeeps == ASSUME AlarmInv, DeleteAlarm PROVE AlarmInv'
<1> DEFINE o == queue[1].object
<1>1. /\ step = "delete" /\ step' = "idle" /\ queue # <<>> /\ queue[1].kind = "clear"
      /\ key \in {o, "unnamed"}
      /\ o \in steady => key = KeyOf(o)
      /\ queue' = Tail(queue) /\ queue' \in Seq(Notification)
      /\ UNCHANGED <<time, active, named, steady, flushed, hisalarm, key>>
  BY DEF DeleteAlarm, AlarmInv, AlarmTypes, StepInv, outside
<1>2. \A r \in steady : r \in Key /\ r # "unnamed"
  BY ObjectAssumption DEF AlarmInv, Key
<1>3. /\ curalarm'[key] = Never /\ curalarm' \in [Key -> Time \cup {Never}]
      /\ \A q \in Key : q # key => curalarm'[q] = curalarm[q]
  BY DEF DeleteAlarm, AlarmInv, AlarmTypes
<1>4. AlarmTypes' /\ StepInv'
  BY <1>1, <1>3 DEF AlarmInv, AlarmTypes, StepInv, OtdrStep
<1>5. QueueTells'
  BY <1>1, AfterPop
<1>6. TableTells'
  <2> SUFFICES ASSUME NEW r \in steady \cap named,
                      \A i \in 1 .. Len(queue') : ~Alarm(queue'[i], r)
               PROVE  Follows(r)'
    BY <1>1 DEF TableTells
  <2>1. IF Alarm(queue[1], r) THEN queue[1].kind = "raise" <=> r \in active
        ELSE Follows(r)
    BY <1>1, AfterPop
  <2>2. CASE r = o
    <3>1. key = r /\ Alarm(queue[1], r)
      BY <1>1, <2>2 DEF KeyOf, Alarm
    <3> QED
      BY <1>1, <1>3, <2>1, <3>1 DEF Follows
  <2>3. CASE r # o
    <3>1. key # r /\ ~Alarm(queue[1], r)
      BY <1>1, <1>2, <2>3 DEF Alarm
    <3> QED
      BY <1>1, <1>2, <1>3, <2>1, <3>1 DEF Follows
  <2> QED
    BY <2>2, <2>3
<1>7. UnnamedAbsent'
  BY <1>1, <1>2, <1>3 DEF AlarmInv, UnnamedAbsent
<1> QED
  BY <1>1, <1>4, <1>5, <1>6, <1>7 DEF AlarmInv

(* Another kind of notification is handled, in one step or several.        *)
LEMMA OthersKeep ==
  ASSUME AlarmInv, UNCHANGED <<time, active, named, steady, curalarm, flushed, hisalarm, key>>,
         queue # <<>>, ~(queue[1].kind \in {"raise", "clear"}), step # "delete",
         queue' = queue \/ (queue' = Tail(queue) /\ step' = "idle"),
         step' \in {"idle"} \cup OtdrStep,
         step' \in OtdrStep => queue' = queue /\ queue[1].kind = "otdr"
  PROVE  AlarmInv'
<1>1. AlarmTypes'
  <2>1. queue \in Seq(Notification)
    BY DEF AlarmInv, AlarmTypes
  <2>2. Tail(queue) \in Seq(Notification)
    BY <2>1
  <2>3. queue' \in Seq(Notification)
    BY <2>1, <2>2
  <2> QED
    BY <2>3 DEF AlarmInv, AlarmTypes
<1>2. StepInv'
  BY DEF AlarmInv, StepInv, OtdrStep
<1>3. CASE queue' = queue
  BY <1>1, <1>2, <1>3 DEF AlarmInv, QueueTells, TableTells, UnnamedAbsent, Follows
<1>4. CASE queue' = Tail(queue)
  <2>1. QueueTells'
    BY <1>4, AfterPop
  <2>2. TableTells'
    <3>1. \A r : ~Alarm(queue[1], r)
      BY DEF Alarm
    <3> QED
      BY <1>4, <3>1, AfterPop DEF TableTells, Follows
  <2> QED
    BY <1>1, <1>2, <2>1, <2>2 DEF AlarmInv, UnnamedAbsent
<1> QED
  BY <1>3, <1>4

LEMMA RestartKeeps == ASSUME AlarmInv, Restart PROVE AlarmInv'
<1>1. /\ UNCHANGED <<time, active, named, curalarm, flushed, hisalarm, key>>
      /\ queue' = <<>> /\ step' = "idle"
      /\ steady' = steady \ {queue[i].object : i \in DOMAIN queue}
  BY DEF Restart, alarms
<1>2. DOMAIN queue = 1 .. Len(queue) /\ Len(queue') = 0 /\ queue' \in Seq(Notification)
  BY <1>1 DEF AlarmInv, AlarmTypes
<1>3. \A r \in steady' : r \in steady /\ \A i \in 1 .. Len(queue) : ~Alarm(queue[i], r)
  BY <1>1, <1>2 DEF Alarm
<1>4. AlarmTypes' /\ StepInv' /\ steady' \subseteq Resource
  BY <1>1, <1>2 DEF AlarmInv, AlarmTypes, StepInv, OtdrStep
<1>5. QueueTells' /\ TableTells' /\ UnnamedAbsent'
  BY <1>1, <1>2, <1>3 DEF AlarmInv, QueueTells, TableTells, UnnamedAbsent, Follows
<1> QED
  BY <1>4, <1>5 DEF AlarmInv

LEMMA AlarmInvIsInvariant == Spec => []AlarmInv
<1>1. Init => AlarmInv
  <2> SUFFICES ASSUME Init PROVE AlarmInv
    OBVIOUS
  <2>1. queue \in Seq(Notification) /\ Len(queue) = 0
    BY DEF Init
  <2>2. AlarmTypes
    BY <2>1, LimitAssumption DEF Init, AlarmTypes, Key
  <2>3. StepInv /\ QueueTells /\ TableTells /\ UnnamedAbsent /\ steady \subseteq Resource
    BY <2>1 DEF Init, StepInv, OtdrStep, QueueTells, TableTells, Follows, UnnamedAbsent, Key
  <2> QED
    BY <2>2, <2>3 DEF AlarmInv
<1>2. AlarmInv /\ [Next]_vars => AlarmInv'
  <2> SUFFICES ASSUME AlarmInv, [Next]_vars PROVE AlarmInv'
    OBVIOUS
  <2>1. CASE UNCHANGED vars
    <3>1. UNCHANGED <<time, active, named, steady, queue, curalarm, flushed, hisalarm, step, key>>
      BY <2>1 DEF vars, outside, alarms
    <3> QED
      BY <3>1 DEF AlarmInv, AlarmTypes, StepInv, QueueTells, TableTells, Follows, UnnamedAbsent,
                KeyOf
  <2>2. CASE \/ \E r \in Resource \ {CardFail} : VendorRaises(r) \/ VendorClears(r) \/ VendorReportsEvent(r)
             \/ LinecardInactive \/ LinecardActive
             \/ \E o \in Otdr : VendorScans(o)
    <3>1. time < MaxTime /\ time' = time + 1
      BY <2>2 DEF VendorRaises, VendorClears, VendorReportsEvent, VendorScans, Notify,
                  LinecardInactive, LinecardActive
    <3>2. time' \in 0 .. MaxTime
      BY <3>1, LimitAssumption DEF AlarmInv, AlarmTypes
    <3>3. PICK n \in Notification :
            /\ queue' = Append(queue, n)
            /\ UNCHANGED <<named, steady, hisalarm, step, key>>
            /\ UNCHANGED <<curalarm, flushed>> \/ Flush
            /\ \/ n.kind = "raise" /\ n.object \in Resource /\ active' = active \cup {n.object}
               \/ n.kind = "clear" /\ n.object \in Resource /\ active' = active \ {n.object}
               \/ n.kind \in {"event", "otdr"} /\ active' = active
      BY <2>2, VendorSteps DEF AlarmInv
    <3> QED
      BY <3>2, <3>3, AfterAppend
  <2>3. CASE \E r \in Resource \cup Otdr : Rename(r)
    BY <2>3, RenameKeeps
  <2>4. CASE RecordEvent
    <3>1. /\ UNCHANGED <<time, active, named, steady, curalarm, flushed, hisalarm, step, key>>
          /\ queue # <<>> /\ queue[1].kind = "event" /\ queue' = Tail(queue) /\ step = "idle"
      BY <2>4 DEF RecordEvent, Handling, outside, AlarmInv, AlarmTypes
    <3> QED
      BY <3>1, OthersKeep DEF OtdrStep
  <2>5. CASE StartResult \/ WriteFields \/ WriteEvents \/ PushScanTime \/ TrimResult \/ TrimEvents
    <3>1. step # "delete"
      BY <2>5 DEF StartResult, Handling, WriteFields, WriteEvents, PushScanTime, TrimResult, TrimEvents
    <3> QED
      BY <2>5, <3>1, OtdrSteps, OthersKeep DEF AlarmInv, outside, alarms
  <2> QED
    BY <2>1, <2>2, <2>3, <2>4, <2>5, RaiseKeeps, ClearKeeps, DeleteKeeps, RestartKeeps
    DEF Next, Handle
<1> QED
  BY <1>1, <1>2, PTL DEF Spec

(* Once everything is handled, CURALARM says of every named resource       *)
(* whether its alarm is on, for any number of resources, notifications and *)
(* restarts, as long as no notification of it was lost or renamed and no   *)
(* flush took the entry of an alarm that is still on.                      *)
THEOREM CurrentIsActiveAlways == Spec => []CurrentIsActive
<1>1. AlarmInv => CurrentIsActive
  BY DEF AlarmInv, AlarmTypes, TableTells, Follows, CurrentIsActive
<1> QED
  BY <1>1, AlarmInvIsInvariant, PTL

(* No crash loses an alarm between the tables: the handler records it in   *)
(* HISALARM before it deletes it, and what a flush may take in between is  *)
(* only the entry it was going to delete.                                  *)
THEOREM RecordedBeforeGoneAlways == Spec => RecordedBeforeGone
<1>1. AlarmInv /\ [Next]_vars => [LeavesRecorded]_curalarm
  <2> SUFFICES ASSUME AlarmInv, [Next]_vars, curalarm' # curalarm,
                      NEW k \in Key, curalarm[k] # Never, curalarm'[k] = Never,
                      ~LinecardInactive
               PROVE  \E t \in Time : hisalarm[<<k, t>>] = curalarm[k]
    BY DEF LeavesRecorded
  <2>1. CASE RaiseAlarm
    <3>1. Head(queue) \in Notification /\ Head(queue).time # Never
      <4>1. Head(queue) \in Notification
        BY <2>1 DEF RaiseAlarm, Handling, AlarmInv, AlarmTypes
      <4> QED
        BY <4>1, NotificationParts DEF Time, Never
    <3> QED
      BY <2>1, <3>1 DEF RaiseAlarm, AlarmInv, AlarmTypes
  <2>2. CASE DeleteAlarm
    <3>1. k = key
      BY <2>2 DEF DeleteAlarm, AlarmInv, AlarmTypes
    <3>2. queue[1].time \in Time /\ hisalarm[<<key, queue[1].time>>] = curalarm[key]
      <4>1. queue # <<>> /\ hisalarm[<<key, queue[1].time>>] = curalarm[key]
        BY <2>2, <3>1 DEF DeleteAlarm, AlarmInv, StepInv
      <4>2. queue[1] \in Notification
        BY <4>1 DEF AlarmInv, AlarmTypes
      <4> QED
        BY <4>1, <4>2, NotificationParts
    <3> QED
      BY <3>1, <3>2
  <2>3. CASE StartResult \/ WriteFields \/ WriteEvents \/ PushScanTime \/ TrimResult \/ TrimEvents
    BY <2>3, OtdrSteps DEF AlarmInv, alarms
  <2> QED
    BY <2>1, <2>2, <2>3 DEF Next, Handle, vars, alarms, VendorRaises, VendorClears,
       VendorReportsEvent, VendorScans, LinecardActive, Rename, ClearAlarm, RecordEvent, Restart
<1> QED
  BY <1>1, AlarmInvIsInvariant, PTL DEF Spec, RecordedBeforeGone

-----------------------------------------------------------------------------
(* The history of OTDR results and the queue of their scan times. *)

(* A finite set of times has a sorted sequence: each goes to the place that *)
(* the number of those before it gives.                                     *)
LEMMA SortedExists ==
  ASSUME NEW S \in SUBSET Nat, IsFiniteSet(S)
  PROVE  \E s \in [1 .. Cardinality(S) -> S] :
           \A i, j \in DOMAIN s : i < j => s[i] < s[j]
<1> DEFINE n == Cardinality(S)
           UpTo(x) == {y \in S : y <= x}
           rank == [x \in S |-> Cardinality(UpTo(x))]
           s == [m \in 1 .. n |-> CHOOSE x \in S : rank[x] = m]
<1>1. n \in Nat
  BY FS_CardinalityType
<1>2. ASSUME NEW x \in S
      PROVE  IsFiniteSet(UpTo(x)) /\ rank[x] \in 1 .. n
  <2>1. UpTo(x) \in SUBSET S /\ x \in UpTo(x)
    OBVIOUS
  <2>2. IsFiniteSet(UpTo(x)) /\ Cardinality(UpTo(x)) <= n
    BY <2>1, FS_Subset
  <2>3. Cardinality(UpTo(x)) \in Nat /\ Cardinality(UpTo(x)) # 0
    BY <2>1, <2>2, FS_CardinalityType, FS_EmptySet
  <2> QED
    BY <1>1, <2>2, <2>3
<1>3. ASSUME NEW x \in S, NEW y \in S, x < y PROVE rank[x] < rank[y]
  <2>1. UpTo(x) \in SUBSET UpTo(y) /\ y \in UpTo(y) /\ y \notin UpTo(x)
    <3>1. S \subseteq Nat /\ x \in Nat /\ y \in Nat
      OBVIOUS
    <3>2. ASSUME NEW z \in UpTo(x) PROVE z \in UpTo(y)
      <4>1. z \in Nat /\ z <= x /\ z \in S
        BY <3>1
      <4> QED
        BY <1>3, <3>1, <4>1
    <3>3. y \in UpTo(y)
      BY <3>1
    <3>4. y \notin UpTo(x)
      BY <1>3, <3>1
    <3> HIDE DEF UpTo
    <3> QED
      BY <3>2, <3>3, <3>4
  <2>2. /\ Cardinality(UpTo(x)) <= Cardinality(UpTo(y))
        /\ Cardinality(UpTo(x)) # Cardinality(UpTo(y))
    <3>1. IsFiniteSet(UpTo(y))
      BY <1>2
    <3> HIDE DEF UpTo
    <3> QED
      BY <2>1, <3>1, FS_Subset
  <2>3. rank[x] \in Nat /\ rank[y] \in Nat
    BY <1>1, <1>2
  <2> QED
    BY <2>2, <2>3
<1>4. rank \in Injection(S, 1 .. n)
  <2>1. rank \in [S -> 1 .. n]
    BY <1>2
  <2>2. ASSUME NEW x \in S, NEW y \in S, rank[x] = rank[y] PROVE x = y
    <3>1. rank[x] \in 1 .. n /\ rank[y] \in 1 .. n
      BY <1>2
    <3> HIDE DEF rank
    <3> QED
      BY <1>1, <1>3, <2>2, <3>1
  <2> HIDE DEF rank
  <2> QED
    BY <2>1, <2>2 DEF Injection, IsInjective
<1>5. rank \in Surjection(S, 1 .. n)
  <2>1. IsFiniteSet(1 .. n) /\ Cardinality(1 .. n) = n
    BY <1>1, FS_Interval
  <2> HIDE DEF rank
  <2> QED
    BY <1>4, <2>1, FS_Injection
<1>6. \A m \in 1 .. n : \E x \in S : rank[x] = m
  <2> HIDE DEF rank
  <2> QED
    BY <1>5 DEF Surjection
<1> HIDE DEF rank
<1>7. s \in [1 .. n -> S] /\ \A m \in 1 .. n : rank[s[m]] = m
  BY <1>6
<1>8. ASSUME NEW i \in 1 .. n, NEW j \in 1 .. n, i < j PROVE s[i] < s[j]
  <2>1. s[i] \in S /\ s[j] \in S /\ rank[s[i]] = i /\ rank[s[j]] = j
    BY <1>7
  <2> HIDE DEF s
  <2>2. s[i] \in Nat /\ s[j] \in Nat
    BY <2>1
  <2>3. ~(s[j] < s[i]) /\ s[i] # s[j]
    BY <1>3, <1>8, <2>1, <2>2
  <2> QED
    BY <2>2, <2>3
<1> QED
  BY <1>7, <1>8

(* What a reload yields is a sequence of the set, each member once.        *)
LEMMA SortedSet ==
  ASSUME NEW S \in SUBSET Nat, IsFiniteSet(S)
  PROVE  /\ Sorted(S) \in Seq(S)
         /\ ToSet(Sorted(S)) = S
         /\ \A i, j \in DOMAIN Sorted(S) : i < j => Sorted(S)[i] < Sorted(S)[j]
<1> DEFINE n == Cardinality(S)
           s == Sorted(S)
<1>1. n \in Nat
  BY FS_CardinalityType
<1>2. s \in [1 .. n -> S] /\ \A i, j \in DOMAIN s : i < j => s[i] < s[j]
  BY SortedExists DEF Sorted
<1> HIDE DEF s
<1>3. s \in Injection(1 .. n, S)
  <2>1. ASSUME NEW i \in 1 .. n, NEW j \in 1 .. n, s[i] = s[j] PROVE i = j
    <3>1. s[i] \in Nat /\ s[j] \in Nat /\ DOMAIN s = 1 .. n
      BY <1>2
    <3> QED
      BY <1>1, <1>2, <2>1, <3>1
  <2> QED
    BY <1>2, <2>1 DEF Injection, IsInjective
<1>4. s \in Surjection(1 .. n, S)
  <2>1. IsFiniteSet(1 .. n) /\ Cardinality(1 .. n) = n
    BY <1>1, FS_Interval
  <2> QED
    BY <1>3, <2>1, FS_Injection
<1>5. \A x \in S : \E i \in DOMAIN s : s[i] = x
  BY <1>2, <1>4 DEF Surjection
<1>6. ToSet(s) = S
  BY <1>2, <1>5 DEF ToSet
<1>7. s \in Seq(S)
  BY <1>1, <1>2
<1> QED
  BY <1>2, <1>6, <1>7 DEF s

(* The rest of the types. *)
OtdrTypes ==
  /\ crashes \in 0 .. MaxCrashes
  /\ named \subseteq Resource \cup Otdr
  /\ hisevent \subseteq Key \X Time
  /\ current \in [Otdr -> [result : Time \cup {Never}, event : [1 .. MaxEvents -> Time \cup {Never}]]]
  /\ otdr \in [Otdr \X Time -> {"absent", "begun", "whole"}]
  /\ otdrEvent \subseteq Otdr \X Time \X (1 .. MaxEvents)
  /\ scanTimes \in [Otdr -> Seq(Time)]

(* Times tell notifications apart: they grow along the queue, and what is  *)
(* in the history is older than what is queued, but for the result in work.*)
TimesGrow ==
  /\ \A i \in 1 .. Len(queue) :
       queue[i].time <= time /\ \A j \in 1 .. i - 1 : queue[j].time < queue[i].time
  /\ \A o \in Otdr, t \in Time : otdr[<<o, t>>] # "absent" =>
       /\ t <= time
       /\ \A i \in 1 .. Len(queue) :
            t < queue[i].time \/ (i = 1 /\ step \in OtdrStep /\ t = queue[1].time)

(* A result that is whole and not pushed yet; one that is deleted and not  *)
(* popped yet.                                                             *)
Pending(o) ==
  IF step \in {"events", "push"} /\ o = queue[1].object THEN {queue[1].time} ELSE {}
Dropped(o) ==
  IF step = "trimEvents" /\ o = queue[1].object THEN {Head(scanTimes[o])} ELSE {}

Distinct(s) == \A i, j \in DOMAIN s : s[i] = s[j] => i = j

(* Between the steps of a handler the history is ahead of its queue by the *)
(* result in work, or behind by the oldest one; no time is queued twice,   *)
(* so one deletion leaves none of it behind.                               *)
HistoryQueued ==
  /\ \A o \in Otdr :
       /\ Distinct(scanTimes[o])
       /\ Pending(o) \cap ToSet(scanTimes[o]) = {}
       /\ Whole(o) = (ToSet(scanTimes[o]) \cup Pending(o)) \ Dropped(o)
  /\ step = "fields" => otdr[<<queue[1].object, queue[1].time>>] = "begun"
  /\ step = "trimEvents" => scanTimes[queue[1].object] # <<>>

HistoryInv == OtdrTypes /\ TimesGrow /\ HistoryQueued

(* What is at work on a result. *)
LEMMA FirstOtdr ==
  ASSUME AlarmTypes, queue # <<>>, queue[1].kind = "otdr"
  PROVE  /\ queue[1].object \in Otdr /\ queue[1].time \in Time
         /\ queue[1].events \in 0 .. MaxEvents
         /\ Head(queue) = queue[1] /\ 1 \in 1 .. Len(queue) /\ Len(queue) \in Nat \ {0}
<1>1. queue[1] \in Notification /\ Head(queue) = queue[1] /\ Len(queue) \in Nat \ {0}
  BY DEF AlarmTypes
<1> QED
  BY <1>1 DEF Notification

(* Most steps write no result: what they do to the queue keeps the order.  *)
LEMMA PopKeepsTimes ==
  ASSUME AlarmTypes, TimesGrow, queue # <<>>, queue' = Tail(queue), time' = time,
         \A o \in Otdr, t \in Time : otdr'[<<o, t>>] # "absent" => otdr[<<o, t>>] # "absent"
  PROVE  TimesGrow'
<1>1. /\ Len(queue) \in Nat \ {0} /\ Len(queue') = Len(queue) - 1
      /\ \A i \in 1 .. Len(queue') : queue'[i] = queue[i + 1]
  BY DEF AlarmTypes
<1>2. ASSUME NEW i \in 1 .. Len(queue')
      PROVE  /\ i + 1 \in 1 .. Len(queue) /\ i + 1 # 1 /\ queue'[i] = queue[i + 1]
             /\ \A j \in 1 .. i - 1 :
                  j + 1 \in 1 .. (i + 1) - 1 /\ queue'[j] = queue[j + 1]
  BY <1>1
<1>3. ASSUME NEW i \in 1 .. Len(queue')
      PROVE  queue'[i].time <= time /\ \A j \in 1 .. i - 1 : queue'[j].time < queue'[i].time
  BY <1>2 DEF TimesGrow
<1>4. ASSUME NEW o \in Otdr, NEW t \in Time, otdr'[<<o, t>>] # "absent"
      PROVE  t <= time /\ \A i \in 1 .. Len(queue') : t < queue'[i].time
  BY <1>2, <1>4 DEF TimesGrow
<1> QED
  BY <1>3, <1>4 DEF TimesGrow

(* The result in work may be written. *)
LEMMA WorkKeepsTimes ==
  ASSUME AlarmTypes, TimesGrow, UNCHANGED <<queue, time>>,
         step' \in OtdrStep \/ step \notin OtdrStep,
         \A o \in Otdr, t \in Time : otdr'[<<o, t>>] # "absent" =>
            \/ otdr[<<o, t>>] # "absent"
            \/ queue # <<>> /\ t = queue[1].time /\ step' \in OtdrStep
  PROVE  TimesGrow'
<1>1. queue # <<>> => 1 \in 1 .. Len(queue)
  BY DEF AlarmTypes
<1>2. ASSUME NEW o \in Otdr, NEW t \in Time, otdr'[<<o, t>>] # "absent"
      PROVE  /\ t <= time
             /\ \A i \in 1 .. Len(queue) :
                  t < queue[i].time \/ (i = 1 /\ step' \in OtdrStep /\ t = queue[1].time)
  <2>1. CASE otdr[<<o, t>>] # "absent"
    BY <2>1 DEF TimesGrow
  <2>2. CASE queue # <<>> /\ t = queue[1].time /\ step' \in OtdrStep
    <3>1. t <= time
      BY <1>1, <2>2 DEF TimesGrow
    <3>2. ASSUME NEW i \in 1 .. Len(queue), i # 1 PROVE queue[1].time < queue[i].time
      <4>1. 1 \in 1 .. i - 1
        BY <3>2
      <4> QED
        BY <4>1 DEF TimesGrow
    <3> QED
      BY <2>2, <3>1, <3>2
  <2> QED
    BY <1>2, <2>1, <2>2
<1> QED
  BY <1>2 DEF TimesGrow

LEMMA AppendKeepsTimes ==
  ASSUME AlarmTypes, StepInv, TimesGrow, NEW n, queue' = Append(queue, n), time' = time + 1,
         n.time = time', UNCHANGED <<otdr, step>>
  PROVE  TimesGrow'
<1>1. /\ Len(queue) \in Nat /\ Len(queue') = Len(queue) + 1 /\ time \in Nat /\ Time \subseteq Nat
      /\ \A i \in 1 .. Len(queue) : queue'[i] = queue[i]
      /\ queue'[Len(queue) + 1] = n
  BY DEF AlarmTypes, Time
<1>2. \A i \in 1 .. Len(queue) : queue[i].time <= time /\ queue[i].time \in Nat
  <2>1. \A i \in 1 .. Len(queue) : queue[i] \in Notification
    BY DEF AlarmTypes
  <2> QED
    BY <1>1, <2>1, NotificationParts DEF TimesGrow
<1>3. ASSUME NEW i \in 1 .. Len(queue')
      PROVE  queue'[i].time <= time' /\ \A j \in 1 .. i - 1 : queue'[j].time < queue'[i].time
  <2>1. CASE i \in 1 .. Len(queue)
    <3>1. \A j \in 1 .. i - 1 : j \in 1 .. Len(queue)
      BY <1>1, <2>1
    <3> QED
      BY <1>1, <1>2, <2>1, <3>1 DEF TimesGrow
  <2>2. CASE i = Len(queue) + 1
    <3>1. \A j \in 1 .. i - 1 : j \in 1 .. Len(queue)
      BY <1>1, <2>2
    <3> QED
      BY <1>1, <1>2, <2>2, <3>1
  <2> QED
    BY <1>1, <2>1, <2>2
<1>4. ASSUME NEW o \in Otdr, NEW t \in Time, otdr[<<o, t>>] # "absent", NEW i \in 1 .. Len(queue')
      PROVE  t <= time' /\ (t < queue'[i].time \/ (i = 1 /\ step \in OtdrStep /\ t = queue'[1].time))
  <2>1. t <= time /\ t \in Nat
    BY <1>1, <1>4 DEF TimesGrow
  <2>2. CASE i \in 1 .. Len(queue)
    <3>1. 1 \in 1 .. Len(queue)
      BY <1>1, <2>2
    <3> QED
      BY <1>1, <1>4, <2>1, <2>2, <3>1 DEF TimesGrow
  <2>3. CASE i = Len(queue) + 1
    BY <1>1, <2>1, <2>3
  <2> QED
    BY <1>1, <2>2, <2>3
<1> QED
  <2>1. \A o \in Otdr, t \in Time : otdr[<<o, t>>] # "absent" => t <= time'
    BY <1>1 DEF TimesGrow
  <2> QED
    BY <1>3, <1>4, <2>1 DEF TimesGrow

(* Steps that leave the history and its queue alone. *)
LEMMA QuietKeepsQueued ==
  ASSUME HistoryQueued, UNCHANGED <<otdr, scanTimes>>,
         step \in {"idle", "delete"} /\ step' \in {"idle", "delete"}
  PROVE  HistoryQueued'
BY DEF HistoryQueued, Pending, Dropped, Distinct, Whole

(* A notification that comes is not the one in work.                       *)
LEMMA AppendKeepsQueued ==
  ASSUME AlarmTypes, StepInv, HistoryQueued, NEW n, queue' = Append(queue, n),
         UNCHANGED <<otdr, scanTimes, step>>
  PROVE  HistoryQueued'
<1>1. CASE step \in {"idle", "delete"}
  BY <1>1, QuietKeepsQueued
<1>2. CASE step \notin {"idle", "delete"}
  <2>1. queue # <<>>
    BY <1>2 DEF StepInv
  <2>2. queue'[1] = queue[1]
    BY <2>1 DEF AlarmTypes
  <2> QED
    BY <2>2 DEF HistoryQueued, Pending, Dropped, Distinct, Whole
<1> QED
  BY <1>1, <1>2

LEMMA StartKeepsHistory == ASSUME AlarmInv, HistoryInv, StartResult PROVE HistoryInv'
<1> DEFINE n == queue[1]
<1>1. /\ step = "idle" /\ queue # <<>> /\ n.kind = "otdr" /\ Head(queue) = n
      /\ n.object \in Otdr /\ n.time \in Time /\ n.events \in 0 .. MaxEvents
      /\ 1 \in 1 .. Len(queue)
      /\ UNCHANGED <<time, named, crashes, hisevent, otdrEvent, scanTimes>>
  BY FirstOtdr DEF StartResult, Handling, AlarmInv, AlarmTypes, outside, alarms
<1> HIDE DEF n
<1>2. CASE n.object \notin named
  <2>1. queue' = Tail(queue) /\ UNCHANGED <<current, otdr, step>>
    BY <1>1, <1>2 DEF StartResult
  <2>2. TimesGrow'
    BY <1>1, <2>1, PopKeepsTimes DEF AlarmInv, HistoryInv
  <2>3. HistoryQueued'
    BY <1>1, <2>1, QuietKeepsQueued DEF HistoryInv
  <2> QED
    BY <1>1, <2>1, <2>2, <2>3 DEF HistoryInv, OtdrTypes
<1>3. CASE n.object \in named
  <2>1. /\ current' = [current EXCEPT ![n.object] =
             [result |-> n.time,
              event |-> [i \in 1 .. MaxEvents |-> IF i <= n.events THEN n.time ELSE @.event[i]]]]
        /\ otdr' = [otdr EXCEPT ![<<n.object, n.time>>] = "begun"]
        /\ step' = "fields" /\ queue' = queue
    BY <1>1, <1>3 DEF StartResult
  <2>2. /\ otdr' \in [Otdr \X Time -> {"absent", "begun", "whole"}]
        /\ otdr'[<<n.object, n.time>>] = "begun"
        /\ \A o \in Otdr, t \in Time : <<o, t>> # <<n.object, n.time>> =>
             otdr'[<<o, t>>] = otdr[<<o, t>>]
    BY <1>1, <2>1 DEF HistoryInv, OtdrTypes
  <2>3. current' \in [Otdr -> [result : Time \cup {Never}, event : [1 .. MaxEvents -> Time \cup {Never}]]]
    <3>1. \A i \in 1 .. MaxEvents : current[n.object].event[i] \in Time \cup {Never}
      BY <1>1 DEF HistoryInv, OtdrTypes
    <3>2. [i \in 1 .. MaxEvents |-> IF i <= n.events THEN n.time ELSE current[n.object].event[i]]
             \in [1 .. MaxEvents -> Time \cup {Never}]
      BY <1>1, <3>1
    <3> QED
      BY <1>1, <2>1, <3>2 DEF HistoryInv, OtdrTypes
  <2>4. OtdrTypes'
    BY <1>1, <2>2, <2>3 DEF HistoryInv, OtdrTypes
  <2>5. TimesGrow'
    <3>1. step' \in OtdrStep
      BY <2>1 DEF OtdrStep
    <3>2. \A o \in Otdr, t \in Time : otdr'[<<o, t>>] # "absent" =>
            otdr[<<o, t>>] # "absent" \/ (queue # <<>> /\ t = queue[1].time /\ step' \in OtdrStep)
      BY <1>1, <2>2, <3>1 DEF n
    <3> QED
      BY <1>1, <2>1, <3>1, <3>2, WorkKeepsTimes DEF AlarmInv, HistoryInv
  <2>6. ASSUME NEW o \in Otdr PROVE Whole(o)' = Whole(o)
    <3>1. otdr[<<n.object, n.time>>] = "absent"
      <4>1. ~(n.time < n.time)
        BY <1>1 DEF Time
      <4> QED
        BY <1>1, <4>1 DEF HistoryInv, TimesGrow, OtdrStep, n
    <3>2. \A t \in Time : otdr'[<<o, t>>] = "whole" <=> otdr[<<o, t>>] = "whole"
      BY <2>2, <3>1
    <3> QED
      BY <3>2 DEF Whole
  <2>7. HistoryQueued'
    BY <1>1, <2>1, <2>2, <2>6 DEF HistoryInv, HistoryQueued, Pending, Dropped, Distinct, n
  <2> QED
    BY <2>4, <2>5, <2>7 DEF HistoryInv
<1> QED
  BY <1>2, <1>3

(* The entry gets its fields: it counts from now on. *)
LEMMA FieldsKeepHistory == ASSUME AlarmInv, HistoryInv, WriteFields PROVE HistoryInv'
<1> DEFINE n == queue[1]
<1>1. step = "fields" /\ queue # <<>> /\ queue[1].kind = "otdr"
  BY DEF WriteFields, AlarmInv, StepInv, OtdrStep
<1>2. /\ Head(queue) = n /\ n.object \in Otdr /\ n.time \in Time
      /\ UNCHANGED <<time, queue, named, crashes, hisevent, current, otdrEvent, scanTimes>>
      /\ step' = "events"
      /\ otdr[<<n.object, n.time>>] = "begun"
  BY <1>1, FirstOtdr DEF WriteFields, AlarmInv, HistoryInv, HistoryQueued, outside, alarms
<1> HIDE DEF n
<1>3. /\ otdr' \in [Otdr \X Time -> {"absent", "begun", "whole"}]
      /\ otdr'[<<n.object, n.time>>] = "whole"
      /\ \A o \in Otdr, t \in Time : <<o, t>> # <<n.object, n.time>> =>
           otdr'[<<o, t>>] = otdr[<<o, t>>]
  BY <1>2 DEF WriteFields, HistoryInv, OtdrTypes
<1>4. OtdrTypes'
  BY <1>2, <1>3 DEF HistoryInv, OtdrTypes
<1>5. TimesGrow'
  <2>1. step' \in OtdrStep
    BY <1>2 DEF OtdrStep
  <2>2. \A o \in Otdr, t \in Time : otdr'[<<o, t>>] # "absent" => otdr[<<o, t>>] # "absent"
    BY <1>2, <1>3
  <2> QED
    BY <1>2, <2>1, <2>2, WorkKeepsTimes DEF AlarmInv, HistoryInv
<1>6. ASSUME NEW o \in Otdr
      PROVE  /\ Pending(o)' \cap ToSet(scanTimes'[o]) = {}
             /\ Whole(o)' = (ToSet(scanTimes'[o]) \cup Pending(o)') \ Dropped(o)'
  <2>1. Whole(o) = ToSet(scanTimes[o])
    BY <1>1 DEF HistoryInv, HistoryQueued, Pending, Dropped
  <2>2. Dropped(o)' = {} /\ Pending(o)' = IF o = n.object THEN {n.time} ELSE {}
    BY <1>2 DEF Pending, Dropped, n
  <2>3. CASE o # n.object
    <3>1. Whole(o)' = Whole(o)
      BY <1>3, <2>3 DEF Whole
    <3> QED
      BY <1>2, <2>1, <2>2, <2>3, <3>1
  <2>4. CASE o = n.object
    <3>1. n.time \notin Whole(o)
      BY <1>2, <2>4 DEF Whole
    <3>2. Whole(o)' = Whole(o) \cup {n.time}
      BY <1>2, <1>3, <2>4 DEF Whole
    <3> QED
      BY <1>2, <2>1, <2>2, <2>4, <3>1, <3>2
  <2> QED
    BY <2>3, <2>4
<1>7. HistoryQueued'
  BY <1>2, <1>6 DEF HistoryInv, HistoryQueued, Distinct
<1> QED
  BY <1>4, <1>5, <1>7 DEF HistoryInv

LEMMA EventsKeepHistory == ASSUME AlarmInv, HistoryInv, WriteEvents PROVE HistoryInv'
<1> DEFINE n == queue[1]
<1>1. step = "events" /\ queue # <<>> /\ queue[1].kind = "otdr"
  BY DEF WriteEvents, AlarmInv, StepInv, OtdrStep
<1>2. /\ Head(queue) = n /\ n.object \in Otdr /\ n.time \in Time /\ n.events \in 0 .. MaxEvents
      /\ UNCHANGED <<time, queue, named, crashes, hisevent, current, otdr, scanTimes>>
      /\ step' = "push"
  BY <1>1, FirstOtdr DEF WriteEvents, AlarmInv, outside, alarms
<1>3. otdrEvent' \subseteq Otdr \X Time \X (1 .. MaxEvents)
  <2>1. \A i \in 1 .. n.events : i \in 1 .. MaxEvents
    BY <1>2, MaxAssumption
  <2> HIDE DEF n
  <2> QED
    BY <1>2, <2>1 DEF WriteEvents, HistoryInv, OtdrTypes
<1>4. TimesGrow'
  BY <1>2, WorkKeepsTimes DEF OtdrStep, AlarmInv, HistoryInv
<1>5. HistoryQueued'
  BY <1>1, <1>2 DEF HistoryInv, HistoryQueued, Pending, Dropped, Distinct, Whole
<1> QED
  BY <1>2, <1>3, <1>4, <1>5 DEF HistoryInv, OtdrTypes

(* What an append and a tail do to the members of a sequence.              *)
LEMMA AppendMembers ==
  ASSUME NEW S, NEW s \in Seq(S), NEW e \in S
  PROVE  /\ Append(s, e) \in Seq(S)
         /\ ToSet(Append(s, e)) = ToSet(s) \cup {e}
         /\ Distinct(s) /\ e \notin ToSet(s) => Distinct(Append(s, e))
<1>1. /\ Len(s) \in Nat /\ DOMAIN s = 1 .. Len(s)
      /\ Append(s, e) \in Seq(S)
      /\ DOMAIN Append(s, e) = 1 .. Len(s) + 1
      /\ \A i \in 1 .. Len(s) : Append(s, e)[i] = s[i]
      /\ Append(s, e)[Len(s) + 1] = e
  OBVIOUS
<1>2. ToSet(Append(s, e)) = ToSet(s) \cup {e}
  BY <1>1 DEF ToSet
<1>3. ASSUME Distinct(s), e \notin ToSet(s) PROVE Distinct(Append(s, e))
  <2>1. \A i \in 1 .. Len(s) : s[i] # e
    BY <1>1, <1>3 DEF ToSet
  <2> QED
    BY <1>1, <1>3, <2>1 DEF Distinct
<1> QED
  BY <1>1, <1>2, <1>3

LEMMA TailMembers ==
  ASSUME NEW S, NEW s \in Seq(S), s # <<>>, Distinct(s)
  PROVE  /\ Tail(s) \in Seq(S) /\ Distinct(Tail(s))
         /\ Head(s) \in S /\ Head(s) \in ToSet(s)
         /\ ToSet(Tail(s)) = ToSet(s) \ {Head(s)}
<1>1. /\ Len(s) \in Nat \ {0} /\ DOMAIN s = 1 .. Len(s)
      /\ Tail(s) \in Seq(S) /\ Head(s) = s[1]
      /\ DOMAIN Tail(s) = 1 .. Len(s) - 1
      /\ \A i \in 1 .. Len(s) - 1 : Tail(s)[i] = s[i + 1]
  OBVIOUS
<1>2. Distinct(Tail(s))
  BY <1>1 DEF Distinct
<1>3. Head(s) \in S /\ Head(s) \in ToSet(s)
  BY <1>1 DEF ToSet
<1>4. ToSet(Tail(s)) \subseteq ToSet(s) \ {Head(s)}
  <2> SUFFICES ASSUME NEW i \in 1 .. Len(s) - 1 PROVE s[i + 1] \in ToSet(s) \ {Head(s)}
    BY <1>1 DEF ToSet
  <2>1. i + 1 \in 1 .. Len(s) /\ i + 1 # 1 /\ 1 \in 1 .. Len(s)
    BY <1>1
  <2> QED
    BY <1>1, <2>1 DEF Distinct, ToSet
<1>5. ASSUME NEW x \in ToSet(s) \ {Head(s)} PROVE x \in ToSet(Tail(s))
  <2>1. PICK i \in 1 .. Len(s) : s[i] = x
    BY <1>1 DEF ToSet
  <2>2. i - 1 \in 1 .. Len(s) - 1 /\ Tail(s)[i - 1] = s[(i - 1) + 1] /\ (i - 1) + 1 = i
    BY <1>1, <1>5, <2>1
  <2> QED
    BY <1>1, <2>1, <2>2 DEF ToSet
<1> QED
  BY <1>1, <1>2, <1>3, <1>4, <1>5

LEMMA PushKeepsHistory == ASSUME AlarmInv, HistoryInv, PushScanTime PROVE HistoryInv'
<1> DEFINE n == queue[1]
<1>1. step = "push" /\ queue # <<>> /\ queue[1].kind = "otdr"
  BY DEF PushScanTime, AlarmInv, StepInv, OtdrStep
<1>2. /\ Head(queue) = n /\ n.object \in Otdr /\ n.time \in Time
      /\ UNCHANGED <<time, queue, named, crashes, hisevent, current, otdr, otdrEvent>>
      /\ step' = "trim"
  BY <1>1, FirstOtdr DEF PushScanTime, AlarmInv, outside, alarms
<1> HIDE DEF n
<1>3. /\ DOMAIN scanTimes' = Otdr
      /\ scanTimes'[n.object] = Append(scanTimes[n.object], n.time)
      /\ \A o \in Otdr : scanTimes[o] \in Seq(Time)
      /\ \A o \in Otdr \ {n.object} : scanTimes'[o] = scanTimes[o]
      /\ scanTimes' = [o \in Otdr |-> scanTimes'[o]]
  BY <1>2 DEF PushScanTime, HistoryInv, OtdrTypes
<1>4. ASSUME NEW o \in Otdr
      PROVE  /\ Distinct(scanTimes[o])
             /\ Pending(o) = IF o = n.object THEN {n.time} ELSE {}
             /\ Pending(o) \cap ToSet(scanTimes[o]) = {}
             /\ Whole(o) = ToSet(scanTimes[o]) \cup Pending(o)
  BY <1>1 DEF HistoryInv, HistoryQueued, Pending, Dropped, n
<1>5. ASSUME NEW o \in Otdr
      PROVE  /\ scanTimes'[o] \in Seq(Time) /\ Distinct(scanTimes'[o])
             /\ Whole(o) = ToSet(scanTimes'[o])
  <2>1. CASE o # n.object
    <3>1. Pending(o) = {} /\ scanTimes'[o] = scanTimes[o]
      BY <1>3, <1>4, <2>1
    <3>2. Whole(o) = ToSet(scanTimes[o])
      BY <1>4, <3>1
    <3> QED
      BY <1>3, <1>4, <3>1, <3>2
  <2>2. CASE o = n.object
    <3> DEFINE s == scanTimes[o]
    <3>1. s \in Seq(Time) /\ Distinct(s) /\ Whole(o) = ToSet(s) \cup {n.time}
      BY <1>3, <1>4, <2>2
    <3>2. n.time \notin ToSet(s)
      BY <1>4, <2>2
    <3>3. scanTimes'[o] = Append(s, n.time)
      BY <1>3, <2>2
    <3> HIDE DEF s
    <3> QED
      BY <1>2, <3>1, <3>2, <3>3, AppendMembers
  <2> QED
    BY <2>1, <2>2
<1>6. OtdrTypes'
  <2>1. scanTimes' \in [Otdr -> Seq(Time)]
    BY <1>3, <1>5
  <2> QED
    BY <1>2, <2>1 DEF HistoryInv, OtdrTypes
<1>7. TimesGrow'
  BY <1>2, WorkKeepsTimes DEF OtdrStep, AlarmInv, HistoryInv
<1>8. HistoryQueued'
  <2>1. \A o \in Otdr : Pending(o)' = {} /\ Dropped(o)' = {} /\ Whole(o)' = Whole(o)
    BY <1>2 DEF Pending, Dropped, Whole
  <2> QED
    BY <1>2, <1>5, <2>1 DEF HistoryQueued, Distinct
<1> QED
  BY <1>6, <1>7, <1>8 DEF HistoryInv

(* The entry of the oldest result goes; a limit of one at least keeps the  *)
(* newest.                                                                 *)
LEMMA TrimKeepsHistory == ASSUME AlarmInv, HistoryInv, TrimResult PROVE HistoryInv'
<1> DEFINE n == queue[1]
<1>1. step = "trim" /\ queue # <<>> /\ queue[1].kind = "otdr"
  BY DEF TrimResult, AlarmInv, StepInv, OtdrStep
<1>2. /\ Head(queue) = n /\ n.object \in Otdr /\ n.time \in Time
      /\ UNCHANGED <<time, named, crashes, hisevent, current, otdrEvent, scanTimes>>
  BY <1>1, FirstOtdr DEF TrimResult, AlarmInv, outside, alarms
<1> HIDE DEF n
<1>3. \A o \in Otdr : /\ Distinct(scanTimes[o]) /\ Whole(o) = ToSet(scanTimes[o])
                      /\ scanTimes[o] \in Seq(Time)
  <2>1. \A o \in Otdr : Pending(o) = {} /\ Dropped(o) = {}
    BY <1>1 DEF Pending, Dropped
  <2>2. \A o \in Otdr : Distinct(scanTimes[o]) /\ Whole(o) = (ToSet(scanTimes[o]) \cup Pending(o)) \ Dropped(o)
    BY DEF HistoryInv, HistoryQueued
  <2>3. \A o \in Otdr : scanTimes[o] \in Seq(Time)
    BY DEF HistoryInv, OtdrTypes
  <2> QED
    BY <2>1, <2>2, <2>3
<1>4. CASE ~(Len(scanTimes[n.object]) > Limit)
  <2>1. queue' = Tail(queue) /\ step' = "idle" /\ otdr' = otdr
    BY <1>2, <1>4 DEF TrimResult
  <2>2. TimesGrow'
    BY <1>1, <1>2, <2>1, PopKeepsTimes DEF AlarmInv, HistoryInv
  <2>3. \A o \in Otdr : Pending(o)' = {} /\ Dropped(o)' = {} /\ Whole(o)' = Whole(o)
    BY <2>1 DEF Pending, Dropped, Whole
  <2>4. HistoryQueued'
    BY <1>2, <1>3, <2>1, <2>3 DEF HistoryQueued, Distinct
  <2> QED
    BY <1>2, <2>1, <2>2, <2>4 DEF HistoryInv, OtdrTypes
<1>5. CASE Len(scanTimes[n.object]) > Limit
  <2> DEFINE s == scanTimes[n.object]
  <2>1. /\ queue' = queue /\ step' = "trimEvents"
        /\ otdr' = [otdr EXCEPT ![<<n.object, Head(s)>>] = "absent"]
    BY <1>2, <1>5 DEF TrimResult
  <2>2. s \in Seq(Time) /\ s # <<>> /\ Distinct(s) /\ Head(s) \in Time
    <3>1. s \in Seq(Time) /\ Distinct(s)
      BY <1>2, <1>3
    <3>2. s # <<>>
      BY <1>5, <3>1, LimitAssumption
    <3> QED
      BY <3>1, <3>2, TailMembers
  <2>3. /\ otdr' \in [Otdr \X Time -> {"absent", "begun", "whole"}]
        /\ otdr'[<<n.object, Head(s)>>] = "absent"
        /\ \A o \in Otdr, t \in Time : <<o, t>> # <<n.object, Head(s)>> =>
             otdr'[<<o, t>>] = otdr[<<o, t>>]
    <3> HIDE DEF s
    <3> QED
      BY <1>2, <2>1, <2>2 DEF HistoryInv, OtdrTypes
  <2>4. OtdrTypes'
    BY <1>2, <2>3 DEF HistoryInv, OtdrTypes
  <2>5. TimesGrow'
    <3>1. \A o \in Otdr, t \in Time : otdr'[<<o, t>>] # "absent" => otdr[<<o, t>>] # "absent"
      BY <2>3
    <3> QED
      BY <1>2, <2>1, <3>1, WorkKeepsTimes DEF OtdrStep, AlarmInv, HistoryInv
  <2>6. ASSUME NEW o \in Otdr
        PROVE  /\ Pending(o)' = {} 
               /\ Whole(o)' = ToSet(scanTimes'[o]) \ Dropped(o)'
    <3>1. Pending(o)' = {} /\ Dropped(o)' = IF o = n.object THEN {Head(s)} ELSE {}
      BY <1>2, <2>1 DEF Pending, Dropped, n
    <3>2. CASE o # n.object
      <4>1. Whole(o)' = Whole(o)
        BY <2>3, <3>2 DEF Whole
      <4> QED
        BY <1>2, <1>3, <3>1, <3>2, <4>1
    <3>3. CASE o = n.object
      <4>1. Whole(o)' = Whole(o) \ {Head(s)}
        <5> HIDE DEF s
        <5> QED
          BY <1>2, <2>2, <2>3, <3>3 DEF Whole
      <4> QED
        BY <1>2, <1>3, <3>1, <3>3, <4>1
    <3> QED
      BY <3>2, <3>3
  <2>7. HistoryQueued'
    BY <1>2, <1>3, <2>1, <2>2, <2>6 DEF HistoryQueued, Distinct, n
  <2> QED
    BY <2>4, <2>5, <2>7 DEF HistoryInv
<1> QED
  BY <1>4, <1>5

LEMMA TrimEventsKeepsHistory == ASSUME AlarmInv, HistoryInv, TrimEvents PROVE HistoryInv'
<1> DEFINE n == queue[1]
           s == scanTimes[n.object]
<1>1. step = "trimEvents" /\ queue # <<>> /\ queue[1].kind = "otdr"
  BY DEF TrimEvents, AlarmInv, StepInv, OtdrStep
<1>2. /\ Head(queue) = n /\ n.object \in Otdr /\ n.time \in Time
      /\ UNCHANGED <<time, queue, named, crashes, hisevent, current, otdr>>
      /\ step' = "trim"
  BY <1>1, FirstOtdr DEF TrimEvents, AlarmInv, outside, alarms
<1>3. /\ otdrEvent' \subseteq otdrEvent
      /\ scanTimes' = [scanTimes EXCEPT ![n.object] = Tail(@)]
  BY <1>2 DEF TrimEvents
<1> HIDE DEF n
<1>4. /\ DOMAIN scanTimes' = Otdr
      /\ scanTimes'[n.object] = Tail(s)
      /\ \A o \in Otdr : scanTimes[o] \in Seq(Time) /\ Distinct(scanTimes[o])
      /\ \A o \in Otdr \ {n.object} : scanTimes'[o] = scanTimes[o]
      /\ scanTimes' = [o \in Otdr |-> scanTimes'[o]]
  BY <1>2, <1>3 DEF HistoryInv, OtdrTypes, HistoryQueued
<1>5. s # <<>>
  BY <1>1 DEF HistoryInv, HistoryQueued, n
<1>6. ASSUME NEW o \in Otdr
      PROVE  /\ scanTimes'[o] \in Seq(Time) /\ Distinct(scanTimes'[o])
             /\ Whole(o) = ToSet(scanTimes'[o])
  <2>1. /\ Dropped(o) = IF o = n.object THEN {Head(s)} ELSE {}
        /\ Whole(o) = ToSet(scanTimes[o]) \ Dropped(o)
    BY <1>1 DEF HistoryInv, HistoryQueued, Pending, Dropped, n
  <2>2. CASE o # n.object
    <3>1. Whole(o) = ToSet(scanTimes[o]) /\ scanTimes'[o] = scanTimes[o]
      BY <1>4, <2>1, <2>2
    <3> QED
      BY <1>4, <3>1
  <2>3. CASE o = n.object
    <3>1. /\ s \in Seq(Time) /\ s # <<>> /\ Distinct(s)
          /\ scanTimes'[o] = Tail(s) /\ Whole(o) = ToSet(s) \ {Head(s)}
      BY <1>4, <1>5, <2>1, <2>3
    <3> HIDE DEF s
    <3> QED
      BY <3>1, TailMembers
  <2> QED
    BY <2>2, <2>3
<1>7. OtdrTypes'
  <2>1. scanTimes' \in [Otdr -> Seq(Time)]
    BY <1>4, <1>6
  <2> QED
    BY <1>2, <1>3, <2>1 DEF HistoryInv, OtdrTypes
<1>8. TimesGrow'
  BY <1>2, WorkKeepsTimes DEF OtdrStep, AlarmInv, HistoryInv
<1>9. HistoryQueued'
  <2>1. \A o \in Otdr : Pending(o)' = {} /\ Dropped(o)' = {} /\ Whole(o)' = Whole(o)
    BY <1>2 DEF Pending, Dropped, Whole
  <2> QED
    BY <1>2, <1>6, <2>1 DEF HistoryQueued, Distinct
<1> QED
  BY <1>7, <1>8, <1>9 DEF HistoryInv

(* A restart reads the queue back from the history.                        *)
LEMMA RestartKeepsHistory == ASSUME AlarmInv, HistoryInv, Restart PROVE HistoryInv'
<1>1. /\ UNCHANGED <<time, named, hisevent, current, otdr, otdrEvent>>
      /\ queue' = <<>> /\ step' = "idle" /\ crashes' = crashes + 1 /\ crashes < MaxCrashes
      /\ scanTimes' = [o \in Otdr |-> Reload(o)]
  BY DEF Restart, alarms
<1>2. ASSUME NEW o \in Otdr
      PROVE  /\ scanTimes'[o] \in Seq(Time) /\ Distinct(scanTimes'[o])
             /\ ToSet(scanTimes'[o]) = Whole(o)
  <2>1. Whole(o) \in SUBSET Time /\ Time \in SUBSET Nat
    BY DEF Whole, Time
  <2>2. IsFiniteSet(Time)
    BY LimitAssumption, FS_Interval DEF Time
  <2>3. IsFiniteSet(Whole(o)) /\ Whole(o) \in SUBSET Nat
    <3> HIDE DEF Time
    <3> QED
      BY <2>1, <2>2, FS_Subset
  <2>4. Reload(o) = Sorted(Whole(o))
    BY DEF Reload, Whole
  <2> DEFINE s == Sorted(Whole(o))
  <2>5. /\ s \in Seq(Whole(o)) /\ ToSet(s) = Whole(o)
        /\ \A i, j \in DOMAIN s : i < j => s[i] < s[j]
    BY <2>3, SortedSet
  <2> HIDE DEF s
  <2>6. s \in Seq(Time)
    BY <2>1, <2>5
  <2>7. Distinct(s)
    <3> SUFFICES ASSUME NEW i \in DOMAIN s, NEW j \in DOMAIN s, s[i] = s[j] PROVE i = j
      BY DEF Distinct
    <3>1. s[i] \in Time /\ s[j] \in Time /\ DOMAIN s = 1 .. Len(s) /\ Len(s) \in Nat
      BY <2>6
    <3>2. ~(i < j) /\ ~(j < i)
      BY <2>5, <3>1 DEF Time
    <3> QED
      BY <3>1, <3>2
  <2> QED
    BY <1>1, <2>4, <2>5, <2>6, <2>7 DEF s
<1>3. OtdrTypes'
  <2>1. scanTimes' \in [Otdr -> Seq(Time)]
    BY <1>1, <1>2
  <2>2. crashes' \in 0 .. MaxCrashes
    BY <1>1, MaxAssumption DEF HistoryInv, OtdrTypes
  <2> QED
    BY <1>1, <2>1, <2>2 DEF HistoryInv, OtdrTypes
<1>4. TimesGrow'
  <2>1. 1 .. Len(queue') = {}
    BY <1>1
  <2> QED
    BY <1>1, <2>1 DEF HistoryInv, TimesGrow
<1>5. HistoryQueued'
  <2>1. \A o \in Otdr : Pending(o)' = {} /\ Dropped(o)' = {} /\ Whole(o)' = Whole(o)
    BY <1>1 DEF Pending, Dropped, Whole
  <2> QED
    BY <1>1, <1>2, <2>1 DEF HistoryQueued, Distinct
<1> QED
  BY <1>3, <1>4, <1>5 DEF HistoryInv

(* Steps that have nothing to do with OTDRs. *)
LEMMA AlarmStepsKeepHistory ==
  ASSUME AlarmInv, HistoryInv, RaiseAlarm \/ ClearAlarm \/ DeleteAlarm \/ RecordEvent
  PROVE  HistoryInv'
<1>1. /\ step \in {"idle", "delete"} /\ step' \in {"idle", "delete"} /\ queue # <<>>
      /\ queue' = queue \/ queue' = Tail(queue)
      /\ UNCHANGED <<time, crashes, named, current, otdr, otdrEvent, scanTimes>>
      /\ RecordEvent \/ hisevent' = hisevent
  BY DEF RaiseAlarm, ClearAlarm, DeleteAlarm, RecordEvent, Handling, outside, results,
         AlarmInv, StepInv
<1>2. hisevent' \subseteq Key \X Time
  <2>1. CASE RecordEvent
    <3>1. Head(queue) \in Notification /\ Head(queue).kind = "event"
      BY <2>1 DEF RecordEvent, Handling, AlarmInv, AlarmTypes
    <3>2. KeyOf(Head(queue).object) \in Key /\ Head(queue).time \in Time
      BY <3>1, NotificationParts DEF KeyOf, Key
    <3>3. hisevent' = hisevent \cup {<<KeyOf(Head(queue).object), Head(queue).time>>}
      BY <2>1 DEF RecordEvent
    <3> QED
      BY <3>2, <3>3 DEF HistoryInv, OtdrTypes
  <2> QED
    BY <1>1, <2>1 DEF HistoryInv, OtdrTypes
<1>3. TimesGrow'
  <2>1. CASE queue' = queue
    BY <1>1, <2>1, WorkKeepsTimes DEF OtdrStep, AlarmInv, HistoryInv
  <2>2. CASE queue' = Tail(queue)
    BY <1>1, <2>2, PopKeepsTimes DEF AlarmInv, HistoryInv
  <2> QED
    BY <1>1, <2>1, <2>2
<1>4. HistoryQueued'
  BY <1>1, QuietKeepsQueued DEF HistoryInv
<1> QED
  BY <1>1, <1>2, <1>3, <1>4 DEF HistoryInv, OtdrTypes

LEMMA OutsideKeepsHistory ==
  ASSUME AlarmInv, HistoryInv,
         \/ \E r \in Resource \ {CardFail} : VendorRaises(r) \/ VendorClears(r) \/ VendorReportsEvent(r)
         \/ LinecardInactive \/ LinecardActive
         \/ \E o \in Otdr : VendorScans(o)
         \/ \E r \in Resource \cup Otdr : Rename(r)
  PROVE  HistoryInv'
<1>1. ASSUME NEW kind, NEW object, NEW events, Notify(kind, object, events) PROVE HistoryInv'
  <2> DEFINE n == [kind |-> kind, object |-> object, time |-> time', events |-> events]
  <2>1. /\ queue' = Append(queue, n) /\ time' = time + 1 /\ n.time = time'
        /\ UNCHANGED <<named, crashes, hisevent, current, otdr, otdrEvent, scanTimes, step>>
    BY <1>1 DEF Notify, alarms, results
  <2> HIDE DEF n
  <2>2. TimesGrow' /\ HistoryQueued'
    BY <2>1, AppendKeepsTimes, AppendKeepsQueued DEF AlarmInv, HistoryInv
  <2> QED
    BY <2>1, <2>2 DEF HistoryInv, OtdrTypes
<1>2. ASSUME NEW r \in Resource \cup Otdr, Rename(r) PROVE HistoryInv'
  <2>1. /\ UNCHANGED <<time, crashes, queue, hisevent, current, otdr, otdrEvent, scanTimes, step>>
        /\ named' \subseteq named \cup {r}
    BY <1>2 DEF Rename, alarms, results
  <2>2. OtdrTypes'
    BY <2>1 DEF HistoryInv, OtdrTypes
  <2> QED
    BY <2>1, <2>2
    DEF HistoryInv, TimesGrow, HistoryQueued, Pending, Dropped, Distinct, Whole
<1> QED
  BY <1>1, <1>2 DEF VendorRaises, VendorClears, VendorReportsEvent, VendorScans,
                    LinecardInactive, LinecardActive

LEMMA HistoryInvIsInvariant == Spec => []HistoryInv
<1>1. Init => HistoryInv
  <2> SUFFICES ASSUME Init PROVE HistoryInv
    OBVIOUS
  <2>1. OtdrTypes
    BY MaxAssumption DEF Init, OtdrTypes
  <2>2. TimesGrow
    <3>1. 1 .. Len(queue) = {}
      BY DEF Init
    <3> QED
      BY <3>1 DEF Init, TimesGrow
  <2>3. HistoryQueued
    <3>1. step = "idle"
      BY DEF Init
    <3>2. ASSUME NEW o \in Otdr
          PROVE  DOMAIN scanTimes[o] = {} /\ Whole(o) = {}
      BY DEF Init, Whole
    <3> QED
      BY <3>1, <3>2 DEF HistoryQueued, Pending, Dropped, Distinct, ToSet
  <2> QED
    BY <2>1, <2>2, <2>3 DEF HistoryInv
<1>2. AlarmInv /\ HistoryInv /\ [Next]_vars => HistoryInv'
  <2> SUFFICES ASSUME AlarmInv, HistoryInv, [Next]_vars PROVE HistoryInv'
    OBVIOUS
  <2>1. CASE UNCHANGED vars
    BY <2>1 DEF vars, outside, alarms, results, HistoryInv, OtdrTypes, TimesGrow, HistoryQueued,
                Pending, Dropped, Distinct, Whole
  <2> QED
    BY <2>1, OutsideKeepsHistory, AlarmStepsKeepHistory, StartKeepsHistory, FieldsKeepHistory,
       EventsKeepHistory, PushKeepsHistory, TrimKeepsHistory, TrimEventsKeepsHistory,
       RestartKeepsHistory DEF Next, Handle
<1> QED
  BY <1>1, <1>2, AlarmInvIsInvariant, PTL DEF Spec

(* The types of all tables, and a handler never is between two steps       *)
(* without the notification it handles.                                    *)
THEOREM TablesTypeCorrect == Spec => []TypeOK
<1>1. AlarmInv /\ HistoryInv => TypeOK
  BY DEF AlarmInv, AlarmTypes, StepInv, OtdrStep, Step, HistoryInv, OtdrTypes, TypeOK
<1> QED
  BY <1>1, AlarmInvIsInvariant, HistoryInvIsInvariant, PTL

(* After every notification and every restart, whatever step a crash cut   *)
(* off, each whole result of the history is queued for its deletion, and   *)
(* only such: for any number of OTDRs, results, events and restarts.       *)
THEOREM NothingForgottenAlways == Spec => []NothingForgotten
<1>1. HistoryInv => NothingForgotten
  BY DEF HistoryInv, HistoryQueued, Pending, Dropped, NothingForgotten
<1> QED
  BY <1>1, HistoryInvIsInvariant, PTL
==============================================================================
