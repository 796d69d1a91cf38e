------------------------- MODULE FlexCounter_proofs -------------------------
(***************************************************************************)
(* Proofs about the collector threads and what they collect.  FlexCounter, *)
(* for every set of groups, objects and intervals: type correctness, that  *)
(* collectors stay while a thread collects, and that instances follow the  *)
(* tables.  PmWindows, for every number of entries, length of the windows  *)
(* and of a run: type correctness, that no read is lost or counted twice,  *)
(* and that a complete record is whole.                                    *)
(***************************************************************************)
EXTENDS FlexCounter, PmWindows, TLAPS

(* The main thread's event, and the instances it has yet to destroy. *)
MainInv ==
  /\ main \in {"apply", "discard?"} =>
       event \in Event /\ event.group \in instances
  /\ main \in {"join", "clear"} => event \in Stop /\ event.group \in doomed
  /\ main \notin {"stop", "join", "clear"} => doomed = {}
  /\ doomed \subseteq instances
  /\ \A g \in Group : g \in instances <=> thread[g] # "none"

(* The event in hand is one of g's group, not yet applied. *)
GroupEventPending(g) ==
  main = "apply" /\ event.group = g /\ event.op \in {"setGroup", "delGroup"}

(* An instance that is wanted, or made by a counter's event, is there to   *)
(* stay, and has what it was asked for; one that is discarded and empty is *)
(* about to be looked at, and one that is not discarded has a group, was   *)
(* made by a counter's event or is about to get its group's event.         *)
InstanceInv(g) ==
  /\ Wanted(g) \/ g \in made => g \in instances \ doomed
  /\ g \notin askedGroup => askedSettings[g] = NoSettings
  /\ g \in instances \ doomed =>
       /\ collectors[g] = IF g \in KnownGroup THEN asked[g] ELSE {}
       /\ askedSettings[g].enable # Unset => enable[g] = askedSettings[g].enable
       /\ askedSettings[g].interval # Unset => interval[g] = askedSettings[g].interval
       /\ discarded[g] => g \notin askedGroup \cup made
       /\ ~discarded[g] => g \in askedGroup \cup made \/ GroupEventPending(g)
       /\ discarded[g] /\ collectors[g] = {} => main = "discard?" /\ event.group = g

FlexInv == TypeOK /\ MainInv /\ \A g \in Group : InstanceInv(g)

(* getInstance changes nothing but its own group. *)
LEMMA Creation ==
  ASSUME TypeOK, NEW g \in Group, Create(g)
  PROVE  /\ instances' = instances \cup {g} /\ instances' \subseteq Group
         /\ running' \in [Group -> BOOLEAN] /\ enable' \in [Group -> BOOLEAN]
         /\ interval' \in [Group -> Interval] /\ discarded' \in [Group -> BOOLEAN]
         /\ collectors' \in [Group -> SUBSET Vid] /\ thread' \in [Group -> ThreadPC]
         /\ \A h \in Group : h # g \/ h \in instances =>
              /\ enable'[h] = enable[h] /\ interval'[h] = interval[h]
              /\ discarded'[h] = discarded[h] /\ collectors'[h] = collectors[h]
<1> USE SettingsAssumption DEF TypeOK, Create, state
<1>1. CASE g \in instances
  BY <1>1
<1>2. CASE g \notin instances
  <2>1. interval' \in [Group -> Interval] /\ collectors' \in [Group -> SUBSET Vid]
    BY <1>2
  <2>2. enable' \in [Group -> BOOLEAN] /\ discarded' \in [Group -> BOOLEAN]
        /\ running' \in [Group -> BOOLEAN]
    BY <1>2
  <2>3. thread' \in [Group -> ThreadPC]
    BY <1>2 DEF ThreadPC
  <2> QED
    BY <1>2, <2>1, <2>2, <2>3
<1> QED
  BY <1>1, <1>2

LEMMA TypeOKIsInductive == TypeOK /\ [Next]_vars => TypeOK'
<1> SUFFICES ASSUME TypeOK, [Next]_vars PROVE TypeOK'
  OBVIOUS
<1> USE SettingsAssumption, GroupAssumption DEF TypeOK, MainPC, ThreadPC, state, asks
<1>1. CASE UNCHANGED vars
  BY <1>1 DEF vars
<1>2. CASE PopEvent
  <2>1. PICK e \in Event : event' = e /\ Create(e.group)
    BY <1>2 DEF PopEvent
  <2>2. e.group \in Group
    BY DEF Event
  <2> QED
    BY <1>2, <2>1, <2>2, Creation DEF PopEvent
<1>3. CASE RemoveAllCounters
  BY <1>3 DEF RemoveAllCounters, NoSettings, Settings
<1>4. ASSUME NEW g \in Group, AddCounterPlugin(g) PROVE TypeOK'
  <2>1. event.values \in Settings
    BY <1>4 DEF AddCounterPlugin, Event, Stop, NoEvent
  <2>2. event.values.enable \in BOOLEAN \cup {Unset} /\ event.values.interval \in Interval \cup {Unset}
    BY <2>1 DEF Settings
  <2>3. Given(event.values.enable, enable[g]) \in BOOLEAN
        /\ Given(event.values.interval, interval[g]) \in Interval
    BY <2>2 DEF Given
  <2>4. askedSettings[g].enable \in BOOLEAN \cup {Unset}
        /\ askedSettings[g].interval \in Interval \cup {Unset}
    BY DEF Settings
  <2>5. [enable |-> Given(event.values.enable, askedSettings[g].enable),
         interval |-> Given(event.values.interval, askedSettings[g].interval)] \in Settings
    BY <2>2, <2>4 DEF Given, Settings
  <2> QED
    BY <1>4, <2>3, <2>5 DEF AddCounterPlugin, NotifyPoll, EndEvent
<1>5. ASSUME NEW g \in Group, RemoveCounterPlugins(g) PROVE TypeOK'
  BY <1>5 DEF RemoveCounterPlugins, NoSettings, Settings
<1>6. ASSUME NEW g \in Group, AddCounter(g) PROVE TypeOK'
  <2>1. event.vid \in Vid
    BY <1>6 DEF AddCounter, Event, Stop, NoEvent
  <2> QED
    BY <1>6, <2>1 DEF AddCounter, NotifyPoll
<1>7. ASSUME NEW g \in Group, RemoveCounter(g) PROVE TypeOK'
  BY <1>7 DEF RemoveCounter
<1>8. ASSUME NEW g \in Group, CheckDiscarded(g) PROVE TypeOK'
  BY <1>8 DEF CheckDiscarded, EndEvent
<1>9. ASSUME NEW g \in Group, StopThread(g) PROVE TypeOK'
  <2>1. event' \in Stop
    BY <1>9 DEF StopThread, Stop
  <2> QED
    BY <1>9, <2>1 DEF StopThread
<1>10. ASSUME NEW g \in Group, JoinThread(g) PROVE TypeOK'
  BY <1>10 DEF JoinThread
<1>11. ASSUME NEW g \in Group, DeleteInstance(g) PROVE TypeOK'
  BY <1>11 DEF DeleteInstance, EndEvent
<1>12. ASSUME NEW g \in Group, NEW pc \in ThreadPC, Move(g, pc) PROVE TypeOK'
  BY <1>12 DEF Move
<1>13. ASSUME NEW g \in Group, ThreadStep(g) \/ SpuriousWakeUp(g) PROVE TypeOK'
  BY <1>12, <1>13 DEF ThreadStep, SpuriousWakeUp, TestRun, LockAndTest, Collected, StartSleep,
     SleepOver, StartPoll
<1> QED
  BY <1>1, <1>2, <1>3, <1>4, <1>5, <1>6, <1>7, <1>8, <1>9, <1>10, <1>11, <1>13
  DEF Next, MainStep

LEMMA MainInvIsInductive == TypeOK /\ MainInv /\ [Next]_vars => MainInv'
<1> SUFFICES ASSUME TypeOK, MainInv, [Next]_vars PROVE MainInv'
  OBVIOUS
<1> USE DEF TypeOK, MainInv, state, asks
<1>1. CASE UNCHANGED vars
  BY <1>1 DEF vars
<1>2. CASE PopEvent
  <2>1. PICK e \in Event : event' = e /\ Create(e.group)
    BY <1>2 DEF PopEvent
  <2>2. e.group \in Group
    BY DEF Event
  <2>3. instances' = instances \cup {e.group}
    BY <2>1 DEF Create
  <2>4. \A g \in Group : g \in instances' <=> thread'[g] # "none"
    BY <2>1, <2>2 DEF Create
  <2> QED
    BY <1>2, <2>1, <2>2, <2>3, <2>4 DEF PopEvent
<1>3. CASE RemoveAllCounters
  BY <1>3 DEF RemoveAllCounters
<1>4. ASSUME NEW g \in Group,
             AddCounterPlugin(g) \/ RemoveCounterPlugins(g) \/ AddCounter(g) \/ RemoveCounter(g)
      PROVE  MainInv'
  <2>1. \A h \in Group : thread'[h] = "none" <=> thread[h] = "none"
    BY <1>4 DEF AddCounterPlugin, RemoveCounterPlugins, AddCounter, RemoveCounter, NotifyPoll
  <2>2. instances' = instances /\ doomed' = doomed /\ doomed = {}
    BY <1>4 DEF AddCounterPlugin, RemoveCounterPlugins, AddCounter, RemoveCounter
  <2>3. main' = "idle" \/ (main' = "discard?" /\ event' = event /\ main = "apply")
    BY <1>4 DEF AddCounterPlugin, RemoveCounterPlugins, AddCounter, RemoveCounter, EndEvent
  <2> QED
    BY <2>1, <2>2, <2>3
<1>5. ASSUME NEW g \in Group, CheckDiscarded(g) PROVE MainInv'
  BY <1>5 DEF CheckDiscarded, EndEvent
<1>6. ASSUME NEW g \in Group, StopThread(g) PROVE MainInv'
  <2>1. event' \in Stop /\ event'.group = g
    BY <1>6 DEF StopThread, Stop
  <2>2. \A h \in Group : thread'[h] = "none" <=> thread[h] = "none"
    BY <1>6 DEF StopThread
  <2> QED
    BY <1>6, <2>1, <2>2 DEF StopThread
<1>7. ASSUME NEW g \in Group, JoinThread(g) PROVE MainInv'
  BY <1>7 DEF JoinThread
<1>8. ASSUME NEW g \in Group, DeleteInstance(g) PROVE MainInv'
  BY <1>8 DEF DeleteInstance, EndEvent
<1>9. ASSUME NEW g \in Group, NEW pc \in ThreadPC \ {"none"}, thread[g] # "none", Move(g, pc)
      PROVE  MainInv'
  BY <1>9 DEF Move
<1>10. ASSUME NEW g \in Group, ThreadStep(g) \/ SpuriousWakeUp(g) PROVE MainInv'
  BY <1>9, <1>10 DEF ThreadStep, SpuriousWakeUp, TestRun, LockAndTest, Collected, StartSleep,
     SleepOver, StartPoll, ThreadPC
<1> QED
  BY <1>1, <1>2, <1>3, <1>4, <1>5, <1>6, <1>7, <1>8, <1>10 DEF Next, MainStep

LEMMA InstanceInvIsInductive ==
  FlexInv /\ [Next]_vars => \A h \in Group : InstanceInv(h)'
<1> SUFFICES ASSUME FlexInv, [Next]_vars, NEW h \in Group PROVE InstanceInv(h)'
  OBVIOUS
<1>0. InstanceInv(h)
  BY DEF FlexInv
<1> USE GroupAssumption, SettingsAssumption
    DEF FlexInv, TypeOK, MainInv, InstanceInv, Wanted, GroupEventPending, state, asks
<1>1. CASE UNCHANGED vars
  BY <1>0, <1>1 DEF vars
<1>2. CASE PopEvent
  <2>1. PICK e \in Event : event' = e /\ Create(e.group)
    BY <1>2 DEF PopEvent
  <2>2. /\ UNCHANGED <<doomed, askedGroup, askedSettings, asked>> /\ doomed = {}
        /\ main = "idle" /\ main' = "apply"
    BY <1>2 DEF PopEvent
  <2>5. made' = IF e.op \in {"add", "remove"} /\ e.group \notin instances
                THEN made \cup {e.group} ELSE made
    <3>1. PICK f \in Event :
            /\ event' = f
            /\ made' = IF f.op \in {"add", "remove"} /\ f.group \notin instances
                       THEN made \cup {f.group} ELSE made
      BY <1>2 DEF PopEvent
    <3> QED
      BY <2>1, <3>1
  <2>3. CASE h # e.group \/ h \in instances
    <3>1. e.group \in Group
      BY DEF Event
    <3>2. /\ enable'[h] = enable[h] /\ interval'[h] = interval[h]
          /\ discarded'[h] = discarded[h] /\ collectors'[h] = collectors[h]
          /\ h \in instances' <=> h \in instances
      BY <2>1, <2>3, <3>1, Creation
    <3>3. h \in made' <=> h \in made
      BY <2>3, <2>5
    <3> QED
      BY <1>0, <2>2, <3>2, <3>3
  <2>4. CASE h = e.group /\ h \notin instances
    <3>1. /\ collectors'[h] = {} /\ discarded'[h] = FALSE /\ h \in instances'
      BY <2>1, <2>4 DEF Create
    <3>2. ~Wanted(h) /\ askedSettings[h] = NoSettings /\ h \notin askedGroup
      BY <1>0, <2>4
    <3>3. e.op \in {"add", "remove", "setGroup", "delGroup"}
      BY DEF Event
    <3>4. h \in made' \/ (event'.group = h /\ event'.op \in {"setGroup", "delGroup"})
      BY <2>1, <2>4, <2>5, <3>3
    <3>5. h \in KnownGroup => asked[h] = {}
      BY <3>2
    <3> QED
      BY <2>2, <3>1, <3>2, <3>4, <3>5 DEF NoSettings
  <2> QED
    BY <2>3, <2>4
<1>3. CASE RemoveAllCounters
  BY <1>0, <1>3 DEF RemoveAllCounters
<1>4. ASSUME NEW g \in Group, AddCounterPlugin(g) PROVE InstanceInv(h)'
  <2>1. CASE h # g
    BY <1>0, <1>4, <2>1 DEF AddCounterPlugin
  <2>2. CASE h = g
    <3>1. /\ enable'[h] = Given(event.values.enable, enable[h])
          /\ interval'[h] = Given(event.values.interval, interval[h])
          /\ askedSettings'[h].enable = Given(event.values.enable, askedSettings[h].enable)
          /\ askedSettings'[h].interval = Given(event.values.interval, askedSettings[h].interval)
          /\ discarded'[h] = FALSE
          /\ h \in askedGroup' /\ h \notin made'
          /\ UNCHANGED <<collectors, asked, instances, doomed>>
      BY <1>4, <2>2 DEF AddCounterPlugin
    <3>2. h \in instances \ doomed
      BY <1>4, <2>2 DEF AddCounterPlugin
    <3> QED
      BY <1>0, <3>1, <3>2 DEF Given
  <2> QED
    BY <2>1, <2>2
<1>5. ASSUME NEW g \in Group, RemoveCounterPlugins(g) PROVE InstanceInv(h)'
  BY <1>0, <1>5 DEF RemoveCounterPlugins, NoSettings
<1>6. ASSUME NEW g \in Group, AddCounter(g) PROVE InstanceInv(h)'
  <2>0. /\ event.op \in {"add", "remove"} /\ event.group = g /\ event' = event
        /\ main = "apply" /\ main' = "discard?"
        /\ UNCHANGED <<doomed, instances, enable, interval, discarded,
                       askedGroup, askedSettings, made>>
    BY <1>6 DEF AddCounter
  <2>1. CASE h # g
    <3>1. collectors'[h] = collectors[h] /\ asked'[h] = asked[h]
      BY <1>6, <2>1 DEF AddCounter
    <3> QED
      BY <1>0, <2>0, <2>1, <3>1
  <2>2. CASE h = g
    <3>1. /\ asked'[h] = asked[h] \cup {event.vid}
          /\ h \in KnownGroup => collectors'[h] = collectors[h] \cup {event.vid}
          /\ h \notin KnownGroup /\ collectors[h] = {} => collectors'[h] = {}
      BY <1>6, <2>2 DEF AddCounter
    <3> QED
      BY <1>0, <2>0, <2>2, <3>1
  <2> QED
    BY <2>1, <2>2
<1>7. ASSUME NEW g \in Group, RemoveCounter(g) PROVE InstanceInv(h)'
  <2>0. /\ event.op \in {"add", "remove"} /\ event.group = g /\ event' = event
        /\ main = "apply" /\ main' = "discard?"
        /\ UNCHANGED <<doomed, instances, enable, interval, discarded,
                       askedGroup, askedSettings, made>>
    BY <1>7 DEF RemoveCounter
  <2>1. CASE h # g
    <3>1. collectors'[h] = collectors[h] /\ asked'[h] = asked[h]
      BY <1>7, <2>1 DEF RemoveCounter
    <3> QED
      BY <1>0, <2>0, <2>1, <3>1
  <2>2. CASE h = g
    <3>1. /\ asked'[h] = asked[h] \ {event.vid}
          /\ h \in KnownGroup => collectors'[h] = collectors[h] \ {event.vid}
          /\ h \notin KnownGroup /\ collectors[h] = {} => collectors'[h] = {}
      BY <1>7, <2>2 DEF RemoveCounter
    <3> QED
      BY <1>0, <2>0, <2>2, <3>1
  <2> QED
    BY <2>1, <2>2
<1>8. ASSUME NEW g \in Group, CheckDiscarded(g) PROVE InstanceInv(h)'
  BY <1>0, <1>8 DEF CheckDiscarded, IsDiscarded, EndEvent
<1>9. ASSUME NEW g \in Group, StopThread(g) \/ JoinThread(g) PROVE InstanceInv(h)'
  BY <1>0, <1>9 DEF StopThread, JoinThread
<1>10. ASSUME NEW g \in Group, DeleteInstance(g) PROVE InstanceInv(h)'
  BY <1>0, <1>10 DEF DeleteInstance
<1>11. ASSUME NEW g \in Group, ThreadStep(g) \/ SpuriousWakeUp(g) PROVE InstanceInv(h)'
  <2>1. UNCHANGED <<main, event, doomed, instances, state, asks>>
    BY <1>11 DEF ThreadStep, SpuriousWakeUp, TestRun, LockAndTest, Collected, StartSleep,
       SleepOver, StartPoll, Move
  <2> QED
    BY <1>0, <2>1
<1> QED
  BY <1>1, <1>2, <1>3, <1>4, <1>5, <1>6, <1>7, <1>8, <1>9, <1>10, <1>11 DEF Next, MainStep

LEMMA FlexInvIsInvariant == Spec => []FlexInv
<1>1. Init => FlexInv
  <2> SUFFICES ASSUME Init PROVE FlexInv
    OBVIOUS
  <2>1. TypeOK
    BY SettingsAssumption
    DEF Init, TypeOK, MainPC, ThreadPC, NoEvent, NoSettings, Settings
  <2>2. MainInv
    BY DEF Init, MainInv
  <2>3. \A g \in Group : InstanceInv(g)
    BY DEF Init, InstanceInv, Wanted
  <2> QED
    BY <2>1, <2>2, <2>3 DEF FlexInv
<1>2. FlexInv /\ [Next]_vars => FlexInv'
  BY TypeOKIsInductive, MainInvIsInductive, InstanceInvIsInductive DEF FlexInv
<1> QED
  BY <1>1, <1>2, PTL DEF Spec

(* The state of the manager and its instances has its types. *)
THEOREM TypeCorrect == Spec => []TypeOK
<1>1. FlexInv => TypeOK
  BY DEF FlexInv
<1> QED
  BY <1>1, FlexInvIsInvariant, PTL

(* Between events the instances, their collectors and their settings are   *)
(* those that the tables have asked for, with the exception of instances   *)
(* that a counter's event made again, in whatever order events and polling *)
(* threads interleave.                                                     *)
THEOREM TablesHonouredAlways == Spec => []TablesAreHonoured
<1>1. FlexInv => TablesAreHonoured
  <2> SUFFICES ASSUME FlexInv, main = "idle", NEW g \in Group PROVE InstanceAsAsked(g)
    BY DEF TablesAreHonoured
  <2>1. InstanceInv(g) /\ doomed = {} /\ (g \in instances <=> thread[g] # "none")
    BY DEF FlexInv, MainInv
  <2>2. g \in instances => Wanted(g) \/ g \in made
    BY <2>1 DEF InstanceInv, GroupEventPending, Wanted
  <2> QED
    BY <2>1, <2>2 DEF InstanceInv, InstanceAsAsked
<1> QED
  BY <1>1, FlexInvIsInvariant, PTL

(* No collector comes or goes, and no instance is destroyed, while the     *)
(* polling thread of its group walks through the collectors.               *)
THEOREM CollectorsStay == Spec => CollectorsStayWhileCollecting
<1> DEFINE Stay == \A g \in Group :
      thread[g] = "collecting" /\ thread'[g] = "collecting" =>
        collectors'[g] = collectors[g] /\ g \in instances'
<1>1. FlexInv /\ [Next]_vars => [Stay]_vars
  <2> SUFFICES ASSUME FlexInv, Next, NEW h \in Group,
                      thread[h] = "collecting", thread'[h] = "collecting"
               PROVE  collectors'[h] = collectors[h] /\ h \in instances'
    OBVIOUS
  <2> USE DEF FlexInv, TypeOK, MainInv, state
  <2>1. h \in instances
    OBVIOUS
  <2>2. CASE PopEvent
    <3>1. PICK e \in Event : Create(e.group)
      BY <2>2 DEF PopEvent
    <3> QED
      BY <2>1, <3>1 DEF Create
  <2>3. CASE RemoveAllCounters
    BY <2>1, <2>3 DEF RemoveAllCounters
  <2>4. ASSUME NEW g \in Group,
               AddCounterPlugin(g) \/ RemoveCounterPlugins(g) \/ CheckDiscarded(g)
               \/ StopThread(g) \/ JoinThread(g)
        PROVE  collectors'[h] = collectors[h] /\ h \in instances'
    BY <2>1, <2>4 DEF AddCounterPlugin, RemoveCounterPlugins, CheckDiscarded, StopThread,
       JoinThread
  <2>5. ASSUME NEW g \in Group, AddCounter(g) \/ RemoveCounter(g)
        PROVE  collectors'[h] = collectors[h] /\ h \in instances'
    BY <2>1, <2>5 DEF AddCounter, RemoveCounter, MutexFree
  <2>6. ASSUME NEW g \in Group, DeleteInstance(g)
        PROVE  collectors'[h] = collectors[h] /\ h \in instances'
    BY <2>1, <2>6 DEF DeleteInstance
  <2>7. ASSUME NEW g \in Group, ThreadStep(g) \/ SpuriousWakeUp(g)
        PROVE  collectors'[h] = collectors[h] /\ h \in instances'
    BY <2>1, <2>7 DEF ThreadStep, SpuriousWakeUp, TestRun, LockAndTest, Collected, StartSleep,
       SleepOver, StartPoll, Move
  <2> QED
    BY <2>2, <2>3, <2>4, <2>5, <2>6, <2>7 DEF Next, MainStep
<1> QED
  BY <1>1, FlexInvIsInvariant, PTL DEF Spec, CollectorsStayWhileCollecting

-----------------------------------------------------------------------------
(* PmWindows.  Division, and the window that a minute falls into. *)
LEMMA Division ==
  ASSUME NEW n \in Nat \ {0}, NEW m \in Nat
  PROVE  /\ m \div n \in Nat /\ m \div n <= m
         /\ m = n * (m \div n) + (m % n)
         /\ m % n \in 0 .. n - 1
<1>1. m \div n \in Nat /\ m = n * (m \div n) + (m % n) /\ m % n \in 0 .. n - 1
  BY Z3
<1>2. m \div n <= n * (m \div n)
  <2> DEFINE q == m \div n
  <2>1. q \in Nat /\ n \in Nat /\ n >= 1
    BY <1>1
  <2> HIDE DEF q
  <2>2. q <= n * q
    BY <2>1, Z3
  <2> QED
    BY <2>2 DEF q
<1>3. n * (m \div n) \in Nat
  BY <1>1, Z3
<1> QED
  BY <1>1, <1>2, <1>3

LEMMA DivisionMonotone ==
  ASSUME NEW n \in Nat \ {0}, NEW m \in Nat, NEW k \in Nat, m <= k
  PROVE  m \div n <= k \div n
<1> DEFINE p == m \div n
           q == k \div n
<1>1. /\ p \in Nat /\ q \in Nat
      /\ m = n * p + (m % n) /\ m % n \in 0 .. n - 1
      /\ k = n * q + (k % n) /\ k % n \in 0 .. n - 1
  BY Division
<1> HIDE DEF p, q
<1>2. SUFFICES ASSUME q + 1 <= p PROVE FALSE
  BY <1>1 DEF p, q
<1>3. n * (q + 1) <= n * p
  BY <1>1, <1>2, Z3
<1>4. n * (q + 1) = n * q + n /\ n * q \in Nat /\ n * p \in Nat
  BY <1>1, Z3
<1> QED
  BY <1>1, <1>3, <1>4

LEMMA HoursType ==
  ASSUME NEW m \in Nat
  PROVE  Hours(m) \in Nat /\ Hours(m) <= m
BY TimeAssumption, Division DEF Hours

LEMMA WindowType ==
  ASSUME NEW c \in Cycle, NEW m \in Minute
  PROVE  WindowOf(c, m) \in Window /\ WindowOf(c, m) \in Nat
<1>1. m \in Nat /\ m <= LastMinute /\ LastMinute \in Nat
  BY TimeAssumption DEF Minute
<1>2. CASE c = "15min"
  <2>1. m \div MinutesPer15Min \in Nat /\ m \div MinutesPer15Min <= m
    BY <1>1, TimeAssumption, Division
  <2> QED
    BY <1>1, <1>2, <2>1 DEF WindowOf, Window
<1>3. CASE c # "15min"
  <2>1. Hours(m) \in Nat /\ Hours(m) <= m
    BY <1>1, HoursType
  <2>2. Hours(m) \div HoursPerDay \in Nat /\ Hours(m) \div HoursPerDay <= Hours(m)
    BY <2>1, TimeAssumption, Division
  <2> QED
    BY <1>1, <1>3, <2>1, <2>2 DEF WindowOf, Window
<1> QED
  BY <1>2, <1>3

LEMMA WindowMonotone ==
  ASSUME NEW c \in Cycle, NEW m \in Minute, NEW k \in Minute, m <= k
  PROVE  WindowOf(c, m) <= WindowOf(c, k)
<1>1. m \in Nat /\ k \in Nat
  BY TimeAssumption DEF Minute
<1>2. CASE c = "15min"
  <2>1. m \div MinutesPer15Min <= k \div MinutesPer15Min
    BY <1>1, TimeAssumption, DivisionMonotone
  <2> QED
    BY <1>2, <2>1 DEF WindowOf
<1>3. CASE c # "15min"
  <2>1. Hours(m) <= Hours(k)
    BY <1>1, TimeAssumption, DivisionMonotone DEF Hours
  <2>2. Hours(m) \in Nat /\ Hours(k) \in Nat
    BY <1>1, HoursType
  <2>3. Hours(m) \div HoursPerDay <= Hours(k) \div HoursPerDay
    BY <2>1, <2>2, TimeAssumption, DivisionMonotone
  <2> QED
    BY <1>3, <2>3 DEF WindowOf
<1> QED
  BY <1>2, <1>3

LEMMA MultipleIsFirst ==
  ASSUME NEW n \in Nat \ {0}, NEW m \in Nat, NEW k \in Nat,
         m <= k, m \div n = k \div n, k % n = 0
  PROVE  m % n = 0
<1> DEFINE q == m \div n
<1>1. /\ q \in Nat /\ m % n \in 0 .. n - 1
      /\ m = n * q + (m % n)
      /\ k = n * q + 0
  BY Division
<1> HIDE DEF q
<1>2. n * q \in Nat
  BY <1>1, Z3
<1> QED
  BY <1>1, <1>2

LEMMA BeginIsFirst ==
  ASSUME NEW c \in Cycle, NEW m \in Minute, NEW k \in Minute,
         m <= k, WindowOf(c, m) = WindowOf(c, k), AtBegin(c, k)
  PROVE  AtBegin(c, m)
<1>1. m \in Nat /\ k \in Nat
  BY TimeAssumption DEF Minute
<1>2. CASE c = "15min"
  <2>1. m \div MinutesPer15Min = k \div MinutesPer15Min /\ k % MinutesPer15Min = 0
    BY <1>2 DEF WindowOf, AtBegin
  <2>2. m % MinutesPer15Min = 0
    BY <1>1, <2>1, TimeAssumption, MultipleIsFirst
  <2> QED
    BY <1>2, <2>2 DEF AtBegin
<1>3. CASE c # "15min"
  <2>1. Hours(m) \div HoursPerDay = Hours(k) \div HoursPerDay /\ Hours(k) % HoursPerDay = 0
    BY <1>3 DEF WindowOf, AtBegin
  <2>2. Hours(m) \in Nat /\ Hours(k) \in Nat
    BY <1>1, HoursType
  <2>3. Hours(m) <= Hours(k)
    BY <1>1, TimeAssumption, DivisionMonotone DEF Hours
  <2>4. Hours(m) % HoursPerDay = 0
    BY <2>1, <2>2, <2>3, TimeAssumption, MultipleIsFirst
  <2> QED
    BY <1>3, <2>4 DEF AtBegin
<1> QED
  BY <1>2, <1>3

LEMMA FirstIsPositive ==
  ASSUME NEW n \in Nat \ {0}, NEW m \in Nat, n <= m
  PROVE  m \div n >= 1
<1>1. n \div n <= m \div n
  BY DivisionMonotone
<1> DEFINE q == n \div n
<1>2. q \in Nat /\ n = n * q + (n % n) /\ n % n \in 0 .. n - 1
  BY Division
<1>3. q # 0
  <2>1. SUFFICES ASSUME q = 0 PROVE FALSE
    OBVIOUS
  <2>2. n = n * 0 + (n % n)
    BY <1>2, <2>1
  <2> QED
    BY <1>2, <2>2
<1>4. m \div n \in Nat
  BY Division
<1> QED
  BY <1>1, <1>2, <1>3, <1>4

(* The collector does not begin before the second quarter and day of 1970. *)
LEMMA FirstWindow ==
  ASSUME NEW c \in Cycle, NEW m \in FirstMinute
  PROVE  m \in Minute /\ WindowOf(c, m) # 0
<1>1. m \in MinutesPer15Min .. LastMinute /\ m \in (MinutesPerHour * HoursPerDay) .. LastMinute
  BY TimeAssumption
<1>2. m \in Minute /\ m \in Nat /\ m >= MinutesPer15Min
  BY <1>1, TimeAssumption DEF Minute
<1>3. CASE c = "15min"
  <2>1. m \div MinutesPer15Min >= 1
    BY <1>2, TimeAssumption, FirstIsPositive
  <2> QED
    BY <1>2, <1>3, <2>1, WindowType DEF WindowOf
<1>4. CASE c # "15min"
  <2> DEFINE h == Hours(m)
             r == m % MinutesPerHour
             n == MinutesPerHour
             d == HoursPerDay
  <2>1. h \in Nat /\ n \in Nat \ {0} /\ d \in Nat \ {0} /\ r \in 0 .. n - 1 /\ m = n * h + r
    BY <1>2, TimeAssumption, Division DEF Hours
  <2>2. n * d \in Nat /\ m >= n * d
    <3>1. n * d \in Nat
      BY <2>1, Z3
    <3> QED
      BY <1>1, <3>1
  <2> HIDE DEF h, r, n, d
  <2>3. d <= h
    <3>1. SUFFICES ASSUME h + 1 <= d PROVE FALSE
      BY <2>1
    <3>2. n * (h + 1) <= n * d
      BY <2>1, <3>1, Z3
    <3>3. n * (h + 1) = n * h + n /\ n * h \in Nat
      BY <2>1, Z3
    <3> QED
      BY <1>2, <2>1, <2>2, <3>2, <3>3
  <2>4. h \div d >= 1
    BY <2>1, <2>3, FirstIsPositive
  <2> QED
    BY <1>2, <1>4, <2>4, WindowType DEF WindowOf, h, d
<1> QED
  BY <1>2, <1>3, <1>4

-----------------------------------------------------------------------------
(* The rounds and the clock. *)
RoundsInv ==
  /\ \A m \in rounds : m <= minute
  /\ next # None => minute \in rounds /\ polls # 0
  /\ \A c \in Cycle :
       /\ WindowOf(c, minute) # 0
       /\ counter[c] <= WindowOf(c, minute)
       /\ rounds = {} => counter[c] = 0
       /\ rounds # {} => counter[c] # 0 /\ counter[c] \in Since(c)
       /\ \A m \in rounds : AtBegin(c, m) => WindowOf(c, m) <= counter[c]

(* Entry e is yet to be read in a round that ends the window of cycle c. *)
ToRead(e) == next # None /\ next <= e
Ending(e, c) == ToRead(e) /\ timeout[c]

ReadsInv(e) ==
  /\ \A r \in total[e] : r[1] <= polls /\ r[2] \in rounds
  /\ ToRead(e) => \A r \in total[e] : r[1] # polls
  /\ \A q \in Minute : <<e, q>> \in failures => q \in rounds

IsOpen(e, c) == ~window[e, c].init
Whole(e, c) == IsOpen(e, c) /\ ~window[e, c].failed

WindowInv(e, c) ==
  LET w == window[e, c] IN
  /\ w.reads \subseteq total[e]
  /\ ~IsOpen(e, c) => total[e] = {}
  /\ \A q \in Minute : <<e, q>> \in failures => IsOpen(e, c)
  /\ IsOpen(e, c) =>
       /\ w.start \in Since(c) /\ w.start <= counter[c]
       /\ \A r \in total[e] : r \in w.reads \/ WindowOf(c, r[2]) # w.start
       /\ \A r \in w.reads : WindowOf(c, r[2]) >= w.start
       /\ \A q \in Minute : <<e, q>> \in failures /\ WindowOf(c, q) = w.start => w.failed
  /\ Ending(e, c) =>
       /\ IsOpen(e, c) => w.start < counter[c]
       /\ \A r \in total[e] : WindowOf(c, r[2]) < counter[c]
       /\ \A q \in Minute : <<e, q>> \in failures => WindowOf(c, q) < counter[c]
  /\ Whole(e, c) =>
       /\ Ending(e, c) \/ w.start = counter[c]
       /\ \A m \in rounds : AtBegin(c, m) => WindowOf(c, m) <= w.start \/ WindowOf(c, m) >= counter[c]
  /\ \A d \in Entry : Ending(e, c) /\ Ending(d, c) /\ Whole(e, c) /\ IsOpen(d, c)
                        => window[d, c].start <= w.start

NoneBetween(c, s, t) == \A m \in rounds : AtBegin(c, m) => WindowOf(c, m) <= s \/ WindowOf(c, m) >= t

RecordInv(e, c, s) ==
  LET record == history.value[e, c, s] IN
  /\ ~record.saved => record.reads = {}
  /\ record.saved => s < WindowOf(c, minute)
  /\ s \in Since(c) =>
       /\ record.reads \subseteq total[e]
       /\ record.saved =>
            /\ IsOpen(e, c) /\ s < window[e, c].start
            /\ \A r \in total[e] : r \in record.reads \/ WindowOf(c, r[2]) # s
            /\ \A r \in record.reads : WindowOf(c, r[2]) >= s
       /\ record.saved /\ history.complete[HashOf(e), c, s] /\ (kind = "gauge" \/ e + 1 \notin Entry) =>
            /\ \E t \in Window :
                 /\ s < t /\ t <= counter[c]
                 /\ \A r \in record.reads : WindowOf(c, r[2]) < t
                 /\ NoneBetween(c, s, t)
            /\ \A q \in Minute : <<e, q>> \in failures => WindowOf(c, q) # s

-----------------------------------------------------------------------------
LEMMA EntryFacts ==
  /\ Entry \subseteq Nat \ {0} /\ 1 \in Entry /\ None \notin Entry
  /\ \A e, d \in Entry : d < e => d + 1 \in Entry
<1>1. \A e \in Entry : e \in Nat \ {0} /\ 1 .. e \subseteq Entry
  BY EntryAssumption
<1>2. 1 \in Entry
  <2>1. PICK e \in Entry : TRUE
    BY EntryAssumption
  <2> QED
    BY <1>1, <2>1
<1>3. ASSUME NEW e \in Entry, NEW d \in Entry, d < e
      PROVE  d + 1 \in Entry
  BY <1>1, <1>3
<1> QED
  BY <1>1, <1>2, <1>3 DEF None

LEMMA FreshTyped ==
  ASSUME Fresh
  PROVE  /\ counter' \in [Cycle -> Window] /\ timeout' \in [Cycle -> BOOLEAN]
         /\ next' \in Entry \cup {None}
         /\ total' \in [Entry -> SUBSET Read]
         /\ window' \in [Entry \X Cycle -> [init : BOOLEAN, start : Window, reads : SUBSET Read, failed : BOOLEAN]]
         /\ rounds' \subseteq Minute
         /\ failures' \subseteq Entry \X Minute
<1>1. 0 \in Window
  BY TimeAssumption DEF Window
<1>2. NewWindow \in [init : BOOLEAN, start : Window, reads : SUBSET Read, failed : BOOLEAN]
  BY <1>1 DEF NewWindow
<1> QED
  BY <1>1, <1>2 DEF Fresh

LEMMA NotShownTyped == NotShown \in [shown : BOOLEAN, start : Window, reads : SUBSET Read]
<1>1. 0 \in Window
  BY TimeAssumption DEF Window
<1> QED
  BY <1>1 DEF NotShown

LEMMA PmInitTyped == PmInit => PmTypeOK
<1> SUFFICES ASSUME PmInit PROVE PmTypeOK
  OBVIOUS
<1>1. 0 \in Window
  BY TimeAssumption DEF Window
<1>2. NewWindow \in [init : BOOLEAN, start : Window, reads : SUBSET Read, failed : BOOLEAN]
  BY <1>1 DEF NewWindow
<1>3. minute \in Minute
  BY FirstWindow DEF PmInit, Cycle
<1>4. polls \in 0 .. MaxPolls
  BY TimeAssumption DEF PmInit
<1>5. /\ history.value \in [Entry \X Cycle \X Window -> [saved : BOOLEAN, reads : SUBSET Read]]
      /\ history.complete \in [Hash \X Cycle \X Window -> BOOLEAN]
  BY DEF PmInit
<1> QED
  BY <1>1, <1>2, <1>3, <1>4, <1>5, NotShownTyped DEF PmInit, PmTypeOK

(* A read, as the round sees it. *)
LEMMA NewRead ==
  ASSUME PmTypeOK, polls # 0
  PROVE  <<polls, minute>> \in Read
BY TimeAssumption DEF PmTypeOK, Read

LEMMA UpdatedTyped ==
  ASSUME PmTypeOK, polls # 0, next \in Entry, NEW c \in Cycle
  PROVE  Updated(c) \in [init : BOOLEAN, start : Window, reads : SUBSET Read, failed : BOOLEAN]
<1> DEFINE w == window[next, c]
<1>1. w \in [init : BOOLEAN, start : Window, reads : SUBSET Read, failed : BOOLEAN]
  BY DEF PmTypeOK
<1>2. counter[c] \in Window /\ <<polls, minute>> \in Read
  BY NewRead DEF PmTypeOK
<1>3. Updated(c) = IF w.init \/ timeout[c]
                     THEN [init |-> FALSE, start |-> counter[c], reads |-> {<<polls, minute>>}, failed |-> FALSE]
                     ELSE [w EXCEPT !.reads = @ \cup {<<polls, minute>>}]
  BY DEF Updated
<1> HIDE DEF w
<1> QED
  BY <1>1, <1>2, <1>3

LEMMA FailedTyped ==
  ASSUME PmTypeOK
  PROVE  Failed(window) \in [Entry \X Cycle -> [init : BOOLEAN, start : Window, reads : SUBSET Read, failed : BOOLEAN]]
<1>1. ASSUME NEW k \in Entry \X Cycle
      PROVE  (IF k[1] = next THEN [window[k] EXCEPT !.failed = TRUE] ELSE window[k])
               \in [init : BOOLEAN, start : Window, reads : SUBSET Read, failed : BOOLEAN]
  <2>1. window[k] \in [init : BOOLEAN, start : Window, reads : SUBSET Read, failed : BOOLEAN]
    BY DEF PmTypeOK
  <2> QED
    BY <2>1
<1> QED
  BY <1>1 DEF Failed

LEMMA AdvanceTyped ==
  ASSUME Advance
  PROVE  next' \in Entry \cup {None}
BY DEF Advance

LEMMA SavedTyped ==
  ASSUME PmTypeOK, next \in Entry
  PROVE  /\ Saved.value \in [Entry \X Cycle \X Window -> [saved : BOOLEAN, reads : SUBSET Read]]
         /\ Saved.complete \in [Hash \X Cycle \X Window -> BOOLEAN]
<1>1. ASSUME NEW k \in Entry \X Cycle \X Window
      PROVE  (IF k[1] = next /\ Saves(k[2]) /\ k[3] = window[next, k[2]].start
                THEN [saved |-> TRUE, reads |-> window[next, k[2]].reads]
                ELSE history.value[k]) \in [saved : BOOLEAN, reads : SUBSET Read]
  <2>1. window[next, k[2]].reads \in SUBSET Read
    BY DEF PmTypeOK
  <2> QED
    BY <2>1 DEF PmTypeOK
<1>2. ASSUME NEW k \in Hash \X Cycle \X Window
      PROVE  (IF k[1] = HashOf(next) /\ Saves(k[2]) /\ k[3] = window[next, k[2]].start
                THEN ~window[next, k[2]].failed
                ELSE history.complete[k]) \in BOOLEAN
  <2>1. window[next, k[2]].failed \in BOOLEAN /\ history.complete[k] \in BOOLEAN
    BY DEF PmTypeOK
  <2> QED
    BY <2>1
<1> QED
  BY <1>1, <1>2 DEF Saved

LEMMA PmNextTyped ==
  ASSUME PmTypeOK, next # None => polls # 0, [PmNext]_pmVars
  PROVE  PmTypeOK'
<1>1. CASE Tick
  BY <1>1, TimeAssumption DEF PmTypeOK, Tick, flags, seen, Minute
<1>2. CASE DeleteCollector
  BY <1>2, FreshTyped, NotShownTyped DEF PmTypeOK, DeleteCollector, clock, Hash
<1>3. CASE ProcessDies
  BY <1>3, FreshTyped DEF PmTypeOK, ProcessDies, clock, Hash
<1>4. CASE CreateCollector
  BY <1>4 DEF PmTypeOK, CreateCollector, clock, flags, seen, Hash
<1>5. CASE UpdateTimeFlags
  <2>1. counter' \in [Cycle -> Window]
    BY <1>5, WindowType DEF UpdateTimeFlags, PmTypeOK
  <2>2. timeout' \in [Cycle -> BOOLEAN]
    BY <1>5 DEF UpdateTimeFlags, IsOver
  <2>3. polls' \in 0 .. MaxPolls /\ next' \in Entry \cup {None} /\ rounds' \subseteq Minute
    BY <1>5, EntryFacts, TimeAssumption DEF UpdateTimeFlags, PmTypeOK
  <2> QED
    BY <1>5, <2>1, <2>2, <2>3 DEF UpdateTimeFlags, PmTypeOK, Hash
<1>6. CASE ReadFails
  <2>1. failures' \subseteq Entry \X Minute
    BY <1>6 DEF ReadFails, PmTypeOK
  <2> QED
    BY <1>6, <2>1, FailedTyped, AdvanceTyped DEF ReadFails, PmTypeOK, clock, flags, Hash
<1>7. CASE ReadSucceeds
  <2>1. next \in Entry /\ polls # 0
    BY <1>7 DEF ReadSucceeds, PmTypeOK
  <2>2. total' \in [Entry -> SUBSET Read]
    BY <1>7, <2>1, NewRead DEF ReadSucceeds, PmTypeOK
  <2>3. window' \in [Entry \X Cycle -> [init : BOOLEAN, start : Window, reads : SUBSET Read, failed : BOOLEAN]]
    <3>1. ASSUME NEW k \in Entry \X Cycle
          PROVE  (IF k[1] = next THEN Updated(k[2]) ELSE window[k])
                   \in [init : BOOLEAN, start : Window, reads : SUBSET Read, failed : BOOLEAN]
      BY <2>1, UpdatedTyped DEF PmTypeOK
    <3>2. window' = [k \in Entry \X Cycle |-> IF k[1] = next THEN Updated(k[2]) ELSE window[k]]
      BY <1>7 DEF ReadSucceeds
    <3> QED
      BY <3>1, <3>2
  <2>4. current' \in [Entry \X Cycle -> [shown : BOOLEAN, start : Window, reads : SUBSET Read]]
    <3>1. ASSUME NEW k \in Entry \X Cycle
          PROVE  (IF k[1] = next
                    THEN [shown |-> TRUE, start |-> window'[k].start, reads |-> window'[k].reads]
                    ELSE current[k]) \in [shown : BOOLEAN, start : Window, reads : SUBSET Read]
      BY <2>3 DEF PmTypeOK
    <3> QED
      BY <1>7, <3>1 DEF ReadSucceeds
  <2>5. /\ history.value' \in [Entry \X Cycle \X Window -> [saved : BOOLEAN, reads : SUBSET Read]]
        /\ history.complete' \in [Hash \X Cycle \X Window -> BOOLEAN]
    BY <1>7, <2>1, SavedTyped DEF ReadSucceeds
  <2> QED
    BY <1>7, <2>2, <2>3, <2>4, <2>5, AdvanceTyped DEF ReadSucceeds, PmTypeOK, clock, flags, Hash
<1>8. CASE UNCHANGED pmVars
  BY <1>8 DEF PmTypeOK, pmVars, clock, flags, seen, Hash
<1> QED
  BY <1>1, <1>2, <1>3, <1>4, <1>5, <1>6, <1>7, <1>8 DEF PmNext

-----------------------------------------------------------------------------
(* NothingLostOrDoubled, read by read. *)
KeptInv(e, c) ==
  /\ \A r \in total[e] :
       \/ r \in window[e, c].reads
       \/ \E s \in Since(c) : s # window[e, c].start /\ r \in history.value[e, c, s].reads
  /\ \A s \in Since(c) : s # window[e, c].start =>
       \A r \in history.value[e, c, s].reads :
         /\ r \notin window[e, c].reads
         /\ \A t \in Since(c) : t # window[e, c].start /\ r \in history.value[e, c, t].reads => s = t

WindowsInv ==
  /\ PmTypeOK
  /\ RoundsInv
  /\ \A e \in Entry : ReadsInv(e)
  /\ \A e \in Entry, c \in Cycle : WindowInv(e, c)
  /\ \A e \in Entry, c \in Cycle, s \in Window : RecordInv(e, c, s)
  /\ \A e \in Entry, c \in Cycle : KeptInv(e, c)

(* KeptInv is about these values only. *)
LEMMA SameKept ==
  ASSUME NEW e \in Entry, NEW c \in Cycle, KeptInv(e, c), Since(c)' = Since(c),
         window'[e, c].start = window[e, c].start, window'[e, c].reads = window[e, c].reads,
         total'[e] = total[e],
         \A s \in Window : history'.value[e, c, s] = history.value[e, c, s]
  PROVE  KeptInv(e, c)'
<1> DEFINE start == window[e, c].start
           reads == window[e, c].reads
           Of(s) == history.value[e, c, s].reads
<1>1. /\ \A r \in total[e] : r \in reads \/ \E s \in Since(c) : s # start /\ r \in Of(s)
      /\ \A s \in Since(c) : s # start => \A r \in Of(s) :
           r \notin reads /\ \A t \in Since(c) : t # start /\ r \in Of(t) => s = t
  BY DEF KeptInv
<1>2. /\ start' = start /\ reads' = reads /\ \A s \in Since(c) : Of(s)' = Of(s)
      /\ Since(c)' = Since(c) /\ total'[e] = total[e]
  BY DEF Since
<1> HIDE DEF start, reads, Of
<1>3. ASSUME NEW r \in total'[e] PROVE r \in reads' \/ \E s \in Since(c)' : s # start' /\ r \in Of(s)'
  <2>1. CASE r \in reads
    BY <1>2, <2>1
  <2>2. CASE r \notin reads
    <3>1. PICK s \in Since(c) : s # start /\ r \in Of(s)
      BY <1>1, <1>2, <2>2
    <3>2. s \in Since(c)' /\ s # start' /\ r \in Of(s)'
      BY <1>2, <3>1
    <3> QED
      BY <3>2
  <2> QED
    BY <2>1, <2>2
<1>4. ASSUME NEW s \in Since(c)', s # start', NEW r \in Of(s)'
      PROVE  r \notin reads' /\ \A t \in Since(c)' : t # start' /\ r \in Of(t)' => s = t
  <2>1. s \in Since(c) /\ s # start /\ r \in Of(s)
    BY <1>2, <1>4
  <2>2. r \notin reads /\ \A t \in Since(c) : t # start /\ r \in Of(t) => s = t
    BY <1>1, <2>1
  <2> QED
    BY <1>2, <2>2
<1> QED
  BY <1>3, <1>4 DEF KeptInv, start, reads, Of

LEMMA WindowFields ==
  ASSUME PmTypeOK, NEW e \in Entry, NEW c \in Cycle
  PROVE  /\ window[e, c].init \in BOOLEAN /\ window[e, c].failed \in BOOLEAN
         /\ window[e, c].start \in Window /\ window[e, c].start \in Nat
         /\ window[e, c].reads \subseteq Read
         /\ counter[c] \in Window /\ counter[c] \in Nat
         /\ timeout[c] \in BOOLEAN
         /\ total[e] \subseteq Read
<1>1. window[e, c] \in [init : BOOLEAN, start : Window, reads : SUBSET Read, failed : BOOLEAN]
  BY DEF PmTypeOK
<1>2. window[e, c].start \in Window /\ window[e, c].reads \in SUBSET Read
  BY <1>1
<1>3. window[e, c].init \in BOOLEAN /\ window[e, c].failed \in BOOLEAN
  BY <1>1
<1>4. counter[c] \in Window /\ timeout[c] \in BOOLEAN /\ total[e] \in SUBSET Read
  BY DEF PmTypeOK
<1>5. Window \subseteq Nat
  BY TimeAssumption DEF Window
<1>6. window[e, c].start \in Nat /\ counter[c] \in Nat
  BY <1>2, <1>4, <1>5
<1> QED
  BY <1>2, <1>3, <1>4, <1>6

LEMMA ReadFields ==
  ASSUME NEW r \in Read
  PROVE  /\ r[1] \in Nat \ {0} /\ r[2] \in Minute
         /\ r = <<r[1], r[2]>>
BY TimeAssumption DEF Read

LEMMA SinceType ==
  ASSUME PmTypeOK, NEW c \in Cycle
  PROVE  Since(c) \subseteq Window /\ Window \subseteq Nat /\ Minute \subseteq Nat /\ rounds \subseteq Minute
BY TimeAssumption DEF Since, Window, Minute, PmTypeOK

LEMMA NewWindowFields == NewWindow.init = TRUE /\ NewWindow.reads = {}
BY DEF NewWindow

LEMMA FreshState ==
  ASSUME Fresh, NEW e \in Entry, NEW c \in Cycle
  PROVE  /\ window'[e, c] = NewWindow /\ total'[e] = {} /\ ~IsOpen(e, c)'
         /\ window'[e, c].reads = {} /\ counter'[c] = 0
         /\ Since(c)' = {} /\ failures' = {} /\ rounds' = {}
         /\ ~ToRead(e)' /\ ~Ending(e, c)' /\ ~Whole(e, c)'
<1>1. window'[e, c] = NewWindow /\ total'[e] = {} /\ counter'[c] = 0
  BY DEF Fresh
<1>2. ~IsOpen(e, c)' /\ window'[e, c].reads = {}
  BY <1>1, NewWindowFields DEF IsOpen
<1> QED
  BY <1>1, <1>2 DEF Fresh, Since, ToRead, Ending, Whole

LEMMA FreshKeepsInv ==
  ASSUME WindowsInv, PmTypeOK', Fresh, minute' = minute, history' = history
  PROVE  WindowsInv'
<1>1. RoundsInv'
  <2>1. ASSUME NEW c \in Cycle
        PROVE  WindowOf(c, minute) # 0 /\ WindowOf(c, minute) \in Nat /\ counter'[c] = 0
    <3>1. minute \in Minute /\ RoundsInv
      BY DEF WindowsInv, PmTypeOK
    <3> QED
      BY <3>1, WindowType DEF RoundsInv, Fresh
  <2> QED
    BY <2>1 DEF Fresh, RoundsInv
<1>2. ASSUME NEW e \in Entry, NEW c \in Cycle
      PROVE  ReadsInv(e)' /\ WindowInv(e, c)' /\ KeptInv(e, c)'
  BY FreshState DEF ReadsInv, WindowInv, KeptInv
<1>3. ASSUME NEW e \in Entry, NEW c \in Cycle, NEW s \in Window
      PROVE  RecordInv(e, c, s)'
  <2>1. RecordInv(e, c, s)
    BY DEF WindowsInv
  <2> QED
    BY <2>1, FreshState DEF RecordInv
<1>5. \A e \in Entry : ReadsInv(e)'
  BY <1>2 DEF Cycle
<1> QED
  BY <1>1, <1>2, <1>3, <1>5 DEF WindowsInv

LEMMA InitInv == PmInit => WindowsInv
<1> SUFFICES ASSUME PmInit PROVE WindowsInv
  OBVIOUS
<1>1. PmTypeOK
  BY PmInitTyped
<1>2. ASSUME NEW e \in Entry, NEW c \in Cycle
      PROVE  /\ window[e, c] = NewWindow /\ total[e] = {} /\ ~IsOpen(e, c)
             /\ window[e, c].reads = {} /\ counter[c] = 0
             /\ Since(c) = {} /\ failures = {}
             /\ ~ToRead(e) /\ ~Ending(e, c) /\ ~Whole(e, c)
  <2>1. window[e, c] = NewWindow /\ total[e] = {} /\ counter[c] = 0
    BY DEF PmInit
  <2>2. ~IsOpen(e, c) /\ window[e, c].reads = {}
    BY <2>1, NewWindowFields DEF IsOpen
  <2> QED
    BY <2>1, <2>2 DEF PmInit, Since, ToRead, Ending, Whole
<1>3. RoundsInv
  <2>1. ASSUME NEW c \in Cycle
        PROVE  WindowOf(c, minute) # 0 /\ WindowOf(c, minute) \in Nat /\ counter[c] = 0
    BY <1>1, FirstWindow, WindowType DEF PmInit, PmTypeOK
  <2> QED
    BY <2>1 DEF PmInit, RoundsInv
<1>4. ASSUME NEW e \in Entry, NEW c \in Cycle, NEW s \in Window
      PROVE  ~history.value[e, c, s].saved /\ history.value[e, c, s].reads = {}
  BY DEF PmInit
<1>5. ASSUME NEW e \in Entry, NEW c \in Cycle
      PROVE  ReadsInv(e) /\ WindowInv(e, c) /\ KeptInv(e, c)
  BY <1>2 DEF ReadsInv, WindowInv, KeptInv
<1>6. ASSUME NEW e \in Entry, NEW c \in Cycle, NEW s \in Window
      PROVE  RecordInv(e, c, s)
  BY <1>2, <1>4 DEF RecordInv
<1>8. \A e \in Entry : ReadsInv(e)
  BY <1>5 DEF Cycle
<1> QED
  BY <1>1, <1>3, <1>5, <1>6, <1>8 DEF WindowsInv

(* A minute goes by, or a collector is made. *)
LEMMA TickKeepsInv ==
  ASSUME WindowsInv, PmTypeOK', minute' \in {minute, minute + 1}, next = None \/ minute' = minute,
         UNCHANGED <<kind, polls, flags, next, total, window, history, seen>>
  PROVE  WindowsInv'
<1>1. /\ PmTypeOK /\ RoundsInv
      /\ \A e \in Entry : ReadsInv(e)
      /\ \A e \in Entry, c \in Cycle : WindowInv(e, c)
      /\ \A e \in Entry, c \in Cycle, s \in Window : RecordInv(e, c, s)
      /\ \A e \in Entry, c \in Cycle : KeptInv(e, c)
  BY DEF WindowsInv
<1>2. /\ minute \in Minute /\ minute' \in Minute
      /\ minute \in Nat /\ minute' \in Nat /\ minute <= minute'
  BY <1>1, TimeAssumption DEF PmTypeOK, Minute
<1>3. ASSUME NEW c \in Cycle
      PROVE  /\ WindowOf(c, minute) <= WindowOf(c, minute')
             /\ WindowOf(c, minute) \in Nat /\ WindowOf(c, minute') \in Nat
             /\ counter[c] \in Nat /\ Since(c)' = Since(c)
  <2>1. counter[c] \in Nat
    BY <1>1, TimeAssumption DEF PmTypeOK, Window
  <2> QED
    BY <1>2, <2>1, WindowMonotone, WindowType DEF seen, Since
<1>4. RoundsInv'
  <2>1. \A m \in rounds : m \in Nat
    BY <1>1, TimeAssumption DEF PmTypeOK, Minute
  <2>2. ASSUME NEW c \in Cycle
        PROVE  /\ WindowOf(c, minute') # 0
               /\ counter[c] <= WindowOf(c, minute')
    BY <1>1, <1>3 DEF RoundsInv
  <2> QED
    BY <1>1, <1>2, <1>3, <2>1, <2>2 DEF RoundsInv, seen, flags, AtBegin
<1>5. ASSUME NEW e \in Entry
      PROVE  ReadsInv(e)'
  BY <1>1 DEF ReadsInv, ToRead, seen
<1>6. ASSUME NEW e \in Entry, NEW c \in Cycle
      PROVE  WindowInv(e, c)'
  BY <1>1, <1>3 DEF WindowInv, IsOpen, Ending, ToRead, Whole, seen, flags, AtBegin
<1>7. ASSUME NEW e \in Entry, NEW c \in Cycle, NEW s \in Window
      PROVE  RecordInv(e, c, s)'
  <2>1. RecordInv(e, c, s) /\ s \in Nat
    BY <1>1, TimeAssumption DEF Window
  <2>2. ASSUME history.value[e, c, s].saved
        PROVE  s < WindowOf(c, minute')
    <3>1. s < WindowOf(c, minute)
      BY <2>1, <2>2 DEF RecordInv
    <3> QED
      BY <1>3, <2>1, <3>1
  <2>3. \A t \in Window : NoneBetween(c, s, t) => NoneBetween(c, s, t)'
    BY DEF NoneBetween, seen
  <2>4. HashOf(e)' = HashOf(e) /\ IsOpen(e, c)' = IsOpen(e, c)
    BY DEF HashOf, IsOpen
  <2>5. history' = history /\ total' = total /\ window' = window /\ kind' = kind
        /\ counter' = counter /\ failures' = failures
    BY DEF flags, seen
  <2> QED
    BY <1>3, <2>1, <2>2, <2>3, <2>4, <2>5 DEF RecordInv
<1>8. ASSUME NEW e \in Entry, NEW c \in Cycle
      PROVE  KeptInv(e, c)'
  <2>1. KeptInv(e, c) /\ Since(c)' = Since(c)
    BY <1>1, <1>3
  <2>2. window' = window /\ history' = history /\ total' = total
    OBVIOUS
  <2> QED
    BY <2>1, <2>2 DEF KeptInv
<1> QED
  BY <1>4, <1>5, <1>6, <1>7, <1>8 DEF WindowsInv

(* The first round at the begin of a window comes before all others in it. *)
LEMMA OverMeansPast ==
  ASSUME PmTypeOK, RoundsInv, NEW c \in Cycle, IsOver(c), NEW m \in rounds
  PROVE  WindowOf(c, m) < WindowOf(c, minute)
<1>1. m \in Minute /\ minute \in Minute /\ m <= minute
  BY DEF PmTypeOK, RoundsInv
<1>2. WindowOf(c, m) <= WindowOf(c, minute) /\ WindowOf(c, m) \in Nat /\ WindowOf(c, minute) \in Nat
  BY <1>1, WindowMonotone, WindowType
<1>3. counter[c] # 0 /\ counter[c] \in Nat
  BY TimeAssumption, WindowType, <1>1 DEF RoundsInv, PmTypeOK, Window
<1>4. AtBegin(c, minute) /\ WindowOf(c, minute) > counter[c]
  BY <1>3 DEF IsOver
<1>5. ASSUME WindowOf(c, m) = WindowOf(c, minute) PROVE FALSE
  <2>1. AtBegin(c, m)
    BY <1>1, <1>4, <1>5, BeginIsFirst
  <2>2. WindowOf(c, m) <= counter[c]
    BY <2>1 DEF RoundsInv
  <2> QED
    BY <1>2, <1>3, <1>4, <1>5, <2>2
<1> QED
  BY <1>2, <1>5

(* Once there was a round, a further one does not change which windows are *)
(* of this collector.                                                      *)
LEMMA SinceSettled ==
  ASSUME PmTypeOK, RoundsInv, NEW c \in Cycle, rounds # {}, rounds' = rounds \cup {minute}
  PROVE  Since(c)' = Since(c)
<1>1. PICK m \in rounds : TRUE
  OBVIOUS
<1>2. m \in Minute /\ minute \in Minute /\ m <= minute
  BY DEF PmTypeOK, RoundsInv
<1>3. WindowOf(c, m) <= WindowOf(c, minute) /\ WindowOf(c, m) \in Nat /\ WindowOf(c, minute) \in Nat
  BY <1>2, WindowMonotone, WindowType
<1>4. \A s \in Window : s \in Nat
  BY TimeAssumption DEF Window
<1>5. \A s \in Window : s >= WindowOf(c, minute) => s >= WindowOf(c, m)
  BY <1>3, <1>4
<1> QED
  BY <1>5 DEF Since

LEMMA FlagsKeepInv ==
  ASSUME WindowsInv, PmTypeOK', UpdateTimeFlags
  PROVE  WindowsInv'
<1>1. /\ PmTypeOK /\ RoundsInv
      /\ \A e \in Entry : ReadsInv(e)
      /\ \A e \in Entry, c \in Cycle : WindowInv(e, c)
      /\ \A e \in Entry, c \in Cycle, s \in Window : RecordInv(e, c, s)
      /\ \A e \in Entry, c \in Cycle : KeptInv(e, c)
  BY DEF WindowsInv
<1>2. /\ next = None /\ next' = 1 /\ polls' = polls + 1 /\ polls \in Nat
      /\ rounds' = rounds \cup {minute} /\ minute' = minute /\ minute \in Minute
      /\ rounds \subseteq Minute /\ Minute \subseteq Nat /\ Window \subseteq Nat
      /\ total' = total /\ window' = window /\ history' = history /\ failures' = failures
      /\ kind' = kind
  BY <1>1, TimeAssumption DEF UpdateTimeFlags, PmTypeOK, Minute, Window
<1>3. ASSUME NEW c \in Cycle
      PROVE  /\ (timeout'[c] <=> IsOver(c))
             /\ IsOver(c) => counter'[c] = WindowOf(c, minute)
             /\ ~IsOver(c) => counter'[c] = counter[c] /\ counter[c] # 0
             /\ counter[c] \in Nat /\ counter[c] <= WindowOf(c, minute) /\ counter[c] <= counter'[c]
             /\ WindowOf(c, minute) \in Nat /\ WindowOf(c, minute) \in Window
             /\ counter'[c] <= WindowOf(c, minute) /\ counter'[c] \in Nat
  <2>1. /\ timeout'[c] = IsOver(c)
        /\ counter'[c] = IF IsOver(c) THEN WindowOf(c, minute) ELSE counter[c]
        /\ ~IsOver(c) => counter[c] # 0
    BY DEF UpdateTimeFlags, IsOver
  <2>2. counter[c] \in Nat /\ counter[c] <= WindowOf(c, minute)
    BY <1>1, <1>2 DEF PmTypeOK, RoundsInv
  <2>3. WindowOf(c, minute) \in Nat /\ WindowOf(c, minute) \in Window
    BY <1>2, WindowType
  <2> QED
    BY <2>1, <2>2, <2>3
<1>4. ASSUME NEW c \in Cycle
      PROVE  Since(c) \subseteq Since(c)' /\ (rounds # {} => Since(c)' = Since(c))
  BY <1>1, <1>2, SinceSettled DEF Since
<1>5. RoundsInv'
  <2>1. \A m \in rounds' : m <= minute'
    BY <1>1, <1>2 DEF RoundsInv
  <2>2. minute' \in rounds' /\ polls' # 0
    BY <1>2
  <2>3. ASSUME NEW c \in Cycle
        PROVE  /\ WindowOf(c, minute') # 0
               /\ counter'[c] <= WindowOf(c, minute')
               /\ counter'[c] # 0 /\ counter'[c] \in Since(c)'
               /\ \A m \in rounds' : AtBegin(c, m) => WindowOf(c, m) <= counter'[c]
    <3>1. WindowOf(c, minute) # 0
      BY <1>1 DEF RoundsInv
    <3>2. WindowOf(c, minute) \in Since(c)'
      BY <1>2, <1>3 DEF Since
    <3>3. counter'[c] # 0 /\ counter'[c] \in Since(c)'
      BY <1>1, <1>3, <1>4, <3>1, <3>2 DEF RoundsInv
    <3>4. ASSUME NEW m \in rounds', AtBegin(c, m)
          PROVE  WindowOf(c, m) <= counter'[c]
      <4>1. WindowOf(c, m) \in Nat
        BY <1>2, WindowType
      <4>2. CASE m = minute
        BY <1>3, <3>4, <4>2 DEF IsOver
      <4>3. CASE m \in rounds
        BY <1>1, <1>3, <3>4, <4>1, <4>3 DEF RoundsInv
      <4> QED
        BY <1>2, <4>2, <4>3
    <3> QED
      BY <1>2, <1>3, <3>1, <3>3, <3>4
  <2> QED
    BY <2>1, <2>2, <2>3 DEF RoundsInv
<1>6. ASSUME NEW e \in Entry
      PROVE  ReadsInv(e)'
  <2>1. \A r \in total[e] : r[1] \in Nat
    BY <1>1, ReadFields DEF PmTypeOK
  <2> QED
    BY <1>1, <1>2, <2>1 DEF ReadsInv
<1>7. ASSUME NEW e \in Entry
      PROVE  ~ToRead(e) /\ ToRead(e)'
  BY <1>2, EntryFacts DEF ToRead, None
<1>8. ASSUME NEW e \in Entry, NEW c \in Cycle
      PROVE  /\ ~Ending(e, c) /\ (Ending(e, c)' <=> IsOver(c))
             /\ (IsOpen(e, c)' <=> IsOpen(e, c)) /\ (Whole(e, c)' <=> Whole(e, c))
  <2>1. ~Ending(e, c) /\ (Ending(e, c)' <=> IsOver(c))
    BY <1>3, <1>7 DEF Ending
  <2> QED
    BY <1>2, <2>1 DEF IsOpen, Whole
<1>9. ASSUME NEW e \in Entry, NEW c \in Cycle
      PROVE  /\ IsOpen(e, c) => window[e, c].start \in Nat /\ window[e, c].start <= counter[c]
                                /\ window[e, c].start \in Since(c) /\ rounds # {}
             /\ Whole(e, c) => window[e, c].start = counter[c]
  <2>1. WindowInv(e, c)
    BY <1>1
  <2>2. ASSUME IsOpen(e, c)
        PROVE  window[e, c].start \in Since(c) /\ window[e, c].start <= counter[c]
    BY <2>1, <2>2 DEF WindowInv
  <2>3. Since(c) \subseteq Nat /\ (rounds = {} => Since(c) = {})
    BY <1>2 DEF Since
  <2>4. Whole(e, c) => window[e, c].start = counter[c]
    BY <2>1, <1>8 DEF WindowInv
  <2> QED
    BY <2>2, <2>3, <2>4
<1>10. ASSUME NEW e \in Entry, NEW c \in Cycle
       PROVE  WindowInv(e, c)'
  <2>1. WindowInv(e, c) /\ ReadsInv(e)
    BY <1>1
  <2> DEFINE start == window[e, c].start
  <2>6. /\ IsOpen(e, c) => start \in Nat /\ start <= counter[c] /\ start \in Since(c) /\ rounds # {}
        /\ counter[c] \in Nat /\ counter'[c] \in Nat /\ counter[c] <= counter'[c]
    BY <1>3, <1>9
  <2>2. ASSUME IsOver(c)
        PROVE  /\ IsOpen(e, c) => window[e, c].start < counter'[c]
               /\ \A r \in total[e] : WindowOf(c, r[2]) < counter'[c]
               /\ \A q \in Minute : <<e, q>> \in failures => WindowOf(c, q) < counter'[c]
    <3>1. \A m \in rounds : WindowOf(c, m) < WindowOf(c, minute)
      BY <1>1, <2>2, OverMeansPast
    <3>2. IsOpen(e, c) => window[e, c].start < counter'[c]
      <4>1. rounds # {} => counter[c] < WindowOf(c, minute)
        BY <1>1, <1>3, <2>2 DEF RoundsInv, IsOver
      <4>2. counter'[c] = WindowOf(c, minute)
        BY <1>3, <2>2
      <4>3. ASSUME IsOpen(e, c) PROVE start < counter'[c]
        <5>1. start \in Nat /\ start <= counter[c] /\ counter[c] < WindowOf(c, minute)
          BY <2>6, <4>1, <4>3
        <5> HIDE DEF start
        <5> QED
          BY <1>3, <4>2, <5>1
      <4> QED
        BY <4>3
    <3> QED
      BY <1>3, <2>1, <2>2, <3>1, <3>2 DEF ReadsInv
  <2>3. ASSUME Whole(e, c)
        PROVE  /\ IsOver(c) \/ window[e, c].start = counter'[c]
               /\ \A m \in rounds' : AtBegin(c, m) => WindowOf(c, m) <= window[e, c].start \/ WindowOf(c, m) >= counter'[c]
    <3>1. window[e, c].start = counter[c]
      BY <1>9, <2>3
    <3>2. \A m \in rounds : AtBegin(c, m) => WindowOf(c, m) <= window[e, c].start
      BY <1>1, <3>1 DEF RoundsInv
    <3>3. WindowOf(c, minute) >= counter'[c]
      BY <1>3
    <3> QED
      BY <1>2, <1>3, <3>1, <3>2, <3>3
  <2>4. ASSUME NEW d \in Entry, Whole(e, c), IsOpen(d, c)
        PROVE  window[d, c].start <= window[e, c].start
    BY <1>9, <2>4
  <2>5. ASSUME IsOpen(e, c)
        PROVE  window[e, c].start \in Since(c)' /\ window[e, c].start <= counter'[c]
    <3>1. start \in Since(c)' /\ start \in Nat /\ start <= counter[c]
      BY <1>4, <2>5, <2>6
    <3> HIDE DEF start
    <3>2. start <= counter'[c]
      BY <2>6, <3>1
    <3> QED
      BY <3>1, <3>2 DEF start
  <2> QED
    BY <1>2, <1>8, <2>1, <2>2, <2>3, <2>4, <2>5 DEF WindowInv
<1>11. ASSUME NEW e \in Entry, NEW c \in Cycle, NEW s \in Window
       PROVE  RecordInv(e, c, s)'
  <2>1. RecordInv(e, c, s)
    BY <1>1
  <2>2. CASE rounds = {}
    <3>1. ASSUME s \in Since(c)' PROVE ~history.value[e, c, s].saved
      <4>1. s >= WindowOf(c, minute) /\ s \in Nat /\ WindowOf(c, minute) \in Nat
        BY <1>2, <1>3, <2>2, <3>1 DEF Since
      <4>2. SUFFICES ASSUME history.value[e, c, s].saved PROVE FALSE
        OBVIOUS
      <4>3. s < WindowOf(c, minute)
        BY <2>1, <4>2 DEF RecordInv
      <4> QED
        BY <4>1, <4>3
    <3> QED
      BY <1>2, <2>1, <3>1 DEF RecordInv
  <2>3. CASE rounds # {}
    <3>1. Since(c)' = Since(c) /\ HashOf(e)' = HashOf(e)
      BY <1>2, <1>4, <2>3 DEF HashOf
    <3>2. ASSUME NEW t \in Window, t <= counter[c], NoneBetween(c, s, t)
          PROVE  t <= counter'[c] /\ NoneBetween(c, s, t)'
      <4>1. t \in Nat /\ t <= counter'[c] /\ t <= WindowOf(c, minute)
        BY <1>2, <1>3, <3>2
      <4> QED
        BY <1>2, <3>2, <4>1 DEF NoneBetween
    <3> QED
      BY <1>2, <1>8, <2>1, <3>1, <3>2 DEF RecordInv
  <2> QED
    BY <2>2, <2>3
<1>12. ASSUME NEW e \in Entry, NEW c \in Cycle
       PROVE  KeptInv(e, c)'
  <2>1. KeptInv(e, c)
    BY <1>1
  <2>2. CASE rounds # {}
    <3>1. Since(c)' = Since(c)
      BY <1>4, <2>2
    <3> QED
      BY <1>2, <2>1, <3>1, SameKept
  <2>3. CASE rounds = {}
    <3>1. total[e] = {}
      BY <1>1, <2>3 DEF ReadsInv
    <3>2. \A s \in Since(c)' : history.value[e, c, s].reads = {}
      <4>1. ASSUME NEW s \in Since(c)' PROVE history.value[e, c, s].reads = {}
        <5>1. s \in Window /\ s >= WindowOf(c, minute)
          BY <1>2, <2>3 DEF Since
        <5>2. RecordInv(e, c, s)
          BY <1>1, <5>1
        <5>3. s \in Nat /\ WindowOf(c, minute) \in Nat
          BY <1>2, <1>3, <5>1
        <5>5. ASSUME history.value[e, c, s].saved PROVE FALSE
          <6>1. s < WindowOf(c, minute)
            BY <5>2, <5>5 DEF RecordInv
          <6> QED
            BY <5>1, <5>3, <6>1
        <5> QED
          BY <5>2, <5>5 DEF RecordInv
      <4> QED
        BY <4>1
    <3> QED
      BY <1>2, <3>1, <3>2 DEF KeptInv
  <2> QED
    BY <2>2, <2>3
<1> QED
  BY <1>5, <1>6, <1>10, <1>11, <1>12 DEF WindowsInv

(* After a read the round goes on with the next entry. *)
LEMMA AdvanceReads ==
  ASSUME next \in Entry, Advance, NEW e \in Entry
  PROVE  ToRead(e)' <=> ToRead(e) /\ e # next
<1>1. e \in Nat /\ next \in Nat /\ e # None /\ next # None
  BY EntryFacts
<1>2. CASE next + 1 \in Entry
  <2>1. next' = next + 1 /\ next' # None
    BY <1>2, EntryFacts DEF Advance
  <2> QED
    BY <1>1, <2>1 DEF ToRead
<1>3. CASE next + 1 \notin Entry
  <2>1. next' = None
    BY <1>3 DEF Advance
  <2>2. ~(next < e)
    BY <1>3, EntryFacts
  <2> QED
    BY <1>1, <2>1, <2>2 DEF ToRead
<1> QED
  BY <1>2, <1>3

LEMMA FailsKeepInv ==
  ASSUME WindowsInv, PmTypeOK', ReadFails
  PROVE  WindowsInv'
<1>1. /\ PmTypeOK /\ RoundsInv
      /\ \A e \in Entry : ReadsInv(e)
      /\ \A e \in Entry, c \in Cycle : WindowInv(e, c)
      /\ \A e \in Entry, c \in Cycle, s \in Window : RecordInv(e, c, s)
      /\ \A e \in Entry, c \in Cycle : KeptInv(e, c)
  BY DEF WindowsInv
<1>2. /\ next \in Entry /\ next # None /\ minute \in rounds /\ polls # 0 /\ Advance
      /\ total' = total /\ history' = history /\ rounds' = rounds /\ minute' = minute
      /\ polls' = polls /\ kind' = kind /\ counter' = counter /\ timeout' = timeout
      /\ failures' = IF total[next] = {} THEN failures ELSE failures \cup {<<next, minute>>}
  BY <1>1 DEF ReadFails, PmTypeOK, RoundsInv, clock, flags
<1>3. ASSUME NEW c \in Cycle PROVE Since(c)' = Since(c)
  BY <1>2 DEF Since
<1>4. ASSUME NEW e \in Entry
      PROVE  /\ ToRead(e)' <=> ToRead(e) /\ e # next
             /\ \A q \in Minute : <<e, q>> \in failures' =>
                  <<e, q>> \in failures \/ (e = next /\ q = minute /\ total[e] # {})
             /\ \A q \in Minute : <<e, q>> \in failures' /\ e # next => <<e, q>> \in failures
  BY <1>2, AdvanceReads
<1>5. ASSUME NEW e \in Entry, NEW c \in Cycle
      PROVE  /\ window'[e, c].init = window[e, c].init
             /\ window'[e, c].start = window[e, c].start
             /\ window'[e, c].reads = window[e, c].reads
             /\ e = next => window'[e, c].failed = TRUE
             /\ e # next => window'[e, c].failed = window[e, c].failed
  <2>1. window[e, c] \in [init : BOOLEAN, start : Window, reads : SUBSET Read, failed : BOOLEAN]
    BY <1>1 DEF PmTypeOK
  <2>2. window'[e, c] = IF e = next THEN [window[e, c] EXCEPT !.failed = TRUE] ELSE window[e, c]
    BY DEF ReadFails, Failed
  <2> QED
    BY <2>1, <2>2
<1>6. ASSUME NEW e \in Entry, NEW c \in Cycle
      PROVE  /\ Ending(e, c)' <=> Ending(e, c) /\ e # next
             /\ IsOpen(e, c)' <=> IsOpen(e, c)
             /\ Whole(e, c)' => Whole(e, c) /\ e # next
  <2>1. Ending(e, c)' <=> Ending(e, c) /\ e # next
    BY <1>2, <1>4 DEF Ending
  <2>2. IsOpen(e, c)' <=> IsOpen(e, c)
    BY <1>5 DEF IsOpen
  <2>3. Whole(e, c)' => Whole(e, c) /\ e # next
    BY <1>5, <2>2 DEF Whole
  <2> QED
    BY <2>1, <2>2, <2>3
<1>7. RoundsInv'
  BY <1>1, <1>2, <1>3 DEF RoundsInv
<1>8. ASSUME NEW e \in Entry
      PROVE  ReadsInv(e)'
  BY <1>1, <1>2, <1>4 DEF ReadsInv
<1>9. ASSUME NEW e \in Entry, NEW c \in Cycle
      PROVE  WindowInv(e, c)'
  <2>1. WindowInv(e, c)
    BY <1>1
  <2>2. \A q \in Minute : <<e, q>> \in failures' => IsOpen(e, c)'
    BY <1>4, <1>6, <2>1 DEF WindowInv
  <2>3. IsOpen(e, c)' =>
          /\ window'[e, c].start \in Since(c)' /\ window'[e, c].start <= counter'[c]
          /\ \A r \in total'[e] : r \in window'[e, c].reads \/ WindowOf(c, r[2]) # window'[e, c].start
          /\ \A r \in window'[e, c].reads : WindowOf(c, r[2]) >= window'[e, c].start
    BY <1>2, <1>3, <1>5, <1>6, <2>1 DEF WindowInv
  <2>4. ASSUME IsOpen(e, c)', NEW q \in Minute, <<e, q>> \in failures', WindowOf(c, q) = window'[e, c].start
        PROVE  window'[e, c].failed
    BY <1>4, <1>5, <1>6, <2>1, <2>4 DEF WindowInv
  <2>5. Ending(e, c)' =>
          /\ IsOpen(e, c)' => window'[e, c].start < counter'[c]
          /\ \A r \in total'[e] : WindowOf(c, r[2]) < counter'[c]
          /\ \A q \in Minute : <<e, q>> \in failures' => WindowOf(c, q) < counter'[c]
    BY <1>2, <1>4, <1>5, <1>6, <2>1 DEF WindowInv
  <2>6. Whole(e, c)' =>
          /\ Ending(e, c)' \/ window'[e, c].start = counter'[c]
          /\ \A m \in rounds' : AtBegin(c, m) => WindowOf(c, m) <= window'[e, c].start \/ WindowOf(c, m) >= counter'[c]
    BY <1>2, <1>5, <1>6, <2>1 DEF WindowInv
  <2>7. ASSUME NEW d \in Entry, Ending(e, c)', Ending(d, c)', Whole(e, c)', IsOpen(d, c)'
        PROVE  window'[d, c].start <= window'[e, c].start
    BY <1>5, <1>6, <2>1, <2>7 DEF WindowInv
  <2>8. window'[e, c].reads \subseteq total'[e] /\ (~IsOpen(e, c)' => total'[e] = {})
    BY <1>2, <1>5, <1>6, <2>1 DEF WindowInv
  <2> QED
    BY <2>2, <2>3, <2>4, <2>5, <2>6, <2>7, <2>8 DEF WindowInv
<1>10. ASSUME NEW e \in Entry, NEW c \in Cycle, NEW s \in Window
       PROVE  RecordInv(e, c, s)'
  <2>1. RecordInv(e, c, s)
    BY <1>1
  <2>2. HashOf(e)' = HashOf(e) /\ \A t \in Window : NoneBetween(c, s, t) => NoneBetween(c, s, t)'
    BY <1>2 DEF HashOf, NoneBetween
  <2>3. ASSUME history.value[e, c, s].saved
        PROVE  WindowOf(c, minute) # s
    <3>1. s < WindowOf(c, minute) /\ s \in Nat
      BY <2>1, <2>3, <1>1, SinceType DEF RecordInv
    <3> QED
      BY <3>1
  <2> QED
    BY <1>2, <1>3, <1>4, <1>5, <1>6, <2>1, <2>2, <2>3 DEF RecordInv
<1>11. ASSUME NEW e \in Entry, NEW c \in Cycle
       PROVE  KeptInv(e, c)'
  <2>1. KeptInv(e, c)
    BY <1>1
  <2>2. /\ window'[e, c].start = window[e, c].start /\ window'[e, c].reads = window[e, c].reads
        /\ total'[e] = total[e] /\ history' = history /\ Since(c)' = Since(c)
    BY <1>2, <1>3, <1>5
  <2> QED
    BY <1>1, <2>1, <2>2, SameKept
<1> QED
  BY <1>7, <1>8, <1>9, <1>10, <1>11 DEF WindowsInv

(* What a read leaves, entry by entry. *)
LEMMA ReadState ==
  ASSUME PmTypeOK, next \in Entry, polls # 0, ReadSucceeds, NEW e \in Entry, NEW c \in Cycle
  PROVE  /\ e # next => window'[e, c] = window[e, c] /\ total'[e] = total[e]
         /\ e = next =>
              /\ total'[e] = total[e] \cup {<<polls, minute>>}
              /\ ~window'[e, c].init
              /\ ~IsOpen(e, c) \/ timeout[c] =>
                   /\ window'[e, c].start = counter[c] /\ window'[e, c].reads = {<<polls, minute>>}
                   /\ ~window'[e, c].failed
              /\ IsOpen(e, c) /\ ~timeout[c] =>
                   /\ window'[e, c].start = window[e, c].start
                   /\ window'[e, c].reads = window[e, c].reads \cup {<<polls, minute>>}
                   /\ window'[e, c].failed = window[e, c].failed
<1>1. total' = [total EXCEPT ![next] = @ \cup {<<polls, minute>>}] /\ total \in [Entry -> SUBSET Read]
  BY DEF ReadSucceeds, PmTypeOK
<1>2. window'[e, c] = IF e = next THEN Updated(c) ELSE window[e, c]
  BY DEF ReadSucceeds
<1> DEFINE w == window[next, c]
<1>3. w \in [init : BOOLEAN, start : Window, reads : SUBSET Read, failed : BOOLEAN]
  BY DEF PmTypeOK
<1>4. Updated(c) = IF w.init \/ timeout[c]
                     THEN [init |-> FALSE, start |-> counter[c], reads |-> {<<polls, minute>>}, failed |-> FALSE]
                     ELSE [w EXCEPT !.reads = @ \cup {<<polls, minute>>}]
  BY DEF Updated
<1>5. IsOpen(next, c) <=> ~w.init
  BY DEF IsOpen
<1> HIDE DEF w
<1>6. CASE w.init \/ timeout[c]
  <2>1. /\ ~Updated(c).init /\ Updated(c).start = counter[c]
        /\ Updated(c).reads = {<<polls, minute>>} /\ ~Updated(c).failed
    BY <1>4, <1>6
  <2> QED
    BY <1>1, <1>2, <1>5, <1>6, <2>1
<1>7. CASE ~(w.init \/ timeout[c])
  <2>1. /\ ~Updated(c).init /\ Updated(c).start = w.start
        /\ Updated(c).reads = w.reads \cup {<<polls, minute>>} /\ Updated(c).failed = w.failed
    BY <1>3, <1>4, <1>7
  <2> QED
    BY <1>1, <1>2, <1>5, <1>7, <2>1 DEF w
<1> QED
  BY <1>6, <1>7

LEMMA ReadValue ==
  ASSUME ReadSucceeds, NEW e \in Entry, NEW c \in Cycle, NEW s \in Window
  PROVE  /\ e = next /\ timeout[c] /\ IsOpen(e, c) /\ s = window[e, c].start =>
              history'.value[e, c, s].saved /\ history'.value[e, c, s].reads = window[e, c].reads
         /\ ~(e = next /\ timeout[c] /\ IsOpen(e, c) /\ s = window[e, c].start) =>
              history'.value[e, c, s] = history.value[e, c, s]
<1>1. history' = Saved
  BY DEF ReadSucceeds
<1>2. Saves(c) <=> timeout[c] /\ IsOpen(next, c)
  BY DEF Saves, IsOpen
<1> DEFINE record == [saved |-> TRUE, reads |-> window[next, c].reads]
<1>3. history'.value[e, c, s] =
        IF e = next /\ Saves(c) /\ s = window[next, c].start THEN record ELSE history.value[e, c, s]
  BY <1>1 DEF Saved
<1>4. record.saved = TRUE /\ record.reads = window[next, c].reads
  OBVIOUS
<1> HIDE DEF record
<1>5. CASE e = next /\ timeout[c] /\ IsOpen(e, c) /\ s = window[e, c].start
  BY <1>2, <1>3, <1>4, <1>5
<1>6. CASE ~(e = next /\ timeout[c] /\ IsOpen(e, c) /\ s = window[e, c].start)
  BY <1>2, <1>3, <1>6
<1> QED
  BY <1>5, <1>6

LEMMA ReadComplete ==
  ASSUME ReadSucceeds, NEW e \in Entry, NEW c \in Cycle, NEW s \in Window
  PROVE  /\ HashOf(e) = HashOf(next) /\ timeout[c] /\ IsOpen(next, c) /\ s = window[next, c].start =>
              (history'.complete[HashOf(e), c, s] <=> ~window[next, c].failed)
         /\ ~(HashOf(e) = HashOf(next) /\ timeout[c] /\ IsOpen(next, c) /\ s = window[next, c].start) =>
              history'.complete[HashOf(e), c, s] = history.complete[HashOf(e), c, s]
<1>1. history' = Saved /\ HashOf(e) \in Hash
  BY DEF ReadSucceeds, HashOf, Hash
<1>2. Saves(c) <=> timeout[c] /\ IsOpen(next, c)
  BY DEF Saves, IsOpen
<1>3. history'.complete[HashOf(e), c, s] =
        IF HashOf(e) = HashOf(next) /\ Saves(c) /\ s = window[next, c].start
          THEN ~window[next, c].failed
          ELSE history.complete[HashOf(e), c, s]
  BY <1>1 DEF Saved
<1>4. CASE HashOf(e) = HashOf(next) /\ timeout[c] /\ IsOpen(next, c) /\ s = window[next, c].start
  <2>1. history'.complete[HashOf(e), c, s] = ~window[next, c].failed
    BY <1>2, <1>3, <1>4, Zenon
  <2> QED
    BY <1>4, <2>1
<1>5. CASE ~(HashOf(e) = HashOf(next) /\ timeout[c] /\ IsOpen(next, c) /\ s = window[next, c].start)
  BY <1>2, <1>3, <1>5
<1> QED
  BY <1>4, <1>5

(* What is known in a round. *)
LEMMA InRound ==
  ASSUME WindowsInv, ReadSucceeds
  PROVE  /\ PmTypeOK /\ RoundsInv
         /\ next \in Entry /\ next # None /\ minute \in rounds /\ minute \in Minute
         /\ polls # 0 /\ polls \in Nat /\ Advance
         /\ rounds' = rounds /\ minute' = minute /\ polls' = polls /\ kind' = kind
         /\ counter' = counter /\ timeout' = timeout /\ failures' = failures
         /\ \A c \in Cycle : /\ Since(c)' = Since(c) /\ Since(c) \subseteq Window /\ Window \subseteq Nat
                             /\ counter[c] \in Since(c) /\ counter[c] \in Nat
                             /\ WindowOf(c, minute) \in Nat /\ counter[c] <= WindowOf(c, minute)
         /\ ToRead(next) /\ <<polls, minute>> \notin total[next]
<1>1. PmTypeOK /\ RoundsInv /\ \A e \in Entry : ReadsInv(e)
  BY DEF WindowsInv
<1>2. /\ next \in Entry /\ next # None /\ minute \in rounds /\ minute \in Minute
      /\ polls # 0 /\ polls \in Nat /\ Advance
      /\ rounds' = rounds /\ minute' = minute /\ polls' = polls /\ kind' = kind
      /\ counter' = counter /\ timeout' = timeout /\ failures' = failures
  BY <1>1, TimeAssumption DEF ReadSucceeds, PmTypeOK, RoundsInv, clock, flags
<1>3. ASSUME NEW c \in Cycle
      PROVE  /\ Since(c)' = Since(c) /\ Since(c) \subseteq Window /\ Window \subseteq Nat
             /\ counter[c] \in Since(c) /\ counter[c] \in Nat
             /\ WindowOf(c, minute) \in Nat /\ counter[c] <= WindowOf(c, minute)
  BY <1>1, <1>2, SinceType, WindowType DEF Since, RoundsInv, PmTypeOK
<1>4. ToRead(next)
  BY <1>2, EntryFacts DEF ToRead
<1>5. \A r \in total[next] : r[1] # polls
  BY <1>1, <1>2, <1>4 DEF ReadsInv
<1>6. <<polls, minute>> \notin total[next]
  BY <1>5
<1> QED
  BY <1>1, <1>2, <1>3, <1>4, <1>6

LEMMA OtherEntries ==
  ASSUME WindowsInv, ReadSucceeds, NEW e \in Entry, NEW c \in Cycle, e # next
  PROVE  /\ window'[e, c] = window[e, c] /\ total'[e] = total[e]
         /\ (IsOpen(e, c)' <=> IsOpen(e, c)) /\ (Whole(e, c)' <=> Whole(e, c))
         /\ (Ending(e, c)' <=> Ending(e, c)) /\ (ToRead(e)' <=> ToRead(e))
         /\ \A s \in Window : history'.value[e, c, s] = history.value[e, c, s]
<1>1. window'[e, c] = window[e, c] /\ total'[e] = total[e]
  BY InRound, ReadState
<1>2. ASSUME NEW s \in Window PROVE history'.value[e, c, s] = history.value[e, c, s]
  BY ReadValue
<1>3. ToRead(e)' <=> ToRead(e)
  BY InRound, AdvanceReads
<1>4. Ending(e, c)' <=> Ending(e, c)
  BY <1>3, InRound DEF Ending
<1>5. IsOpen(e, c)' <=> IsOpen(e, c)
  BY <1>1 DEF IsOpen
<1>6. Whole(e, c)' <=> Whole(e, c)
  BY <1>1, <1>5 DEF Whole
<1> QED
  BY <1>1, <1>2, <1>3, <1>4, <1>5, <1>6

(* The window that the read begins. *)
LEMMA BegunWindow ==
  ASSUME WindowsInv, ReadSucceeds, NEW e \in Entry, NEW c \in Cycle, e = next,
         ~IsOpen(e, c) \/ timeout[c]
  PROVE  /\ IsOpen(e, c)' /\ ~ToRead(e)' /\ ~Ending(e, c)'
         /\ total'[e] = total[e] \cup {<<polls, minute>>}
         /\ window'[e, c].start = counter[c] /\ window'[e, c].reads = {<<polls, minute>>}
         /\ ~window'[e, c].failed
         /\ IsOpen(e, c) => /\ Ending(e, c)
                            /\ window[e, c].start \in Since(c) /\ window[e, c].start \in Nat
                            /\ window[e, c].start < counter[c]
         /\ \A r \in total[e] : WindowOf(c, r[2]) # counter[c]
         /\ \A q \in Minute : <<e, q>> \in failures => WindowOf(c, q) # counter[c]
<1>1. /\ total'[e] = total[e] \cup {<<polls, minute>>}
      /\ ~window'[e, c].init
      /\ window'[e, c].start = counter[c] /\ window'[e, c].reads = {<<polls, minute>>}
      /\ ~window'[e, c].failed
  BY InRound, ReadState
<1>2. IsOpen(e, c)' /\ ~ToRead(e)' /\ ~Ending(e, c)'
  BY <1>1, InRound, AdvanceReads DEF IsOpen, Ending
<1>3. WindowInv(e, c)
  BY DEF WindowsInv
<1>4. CASE ~IsOpen(e, c)
  BY <1>1, <1>2, <1>3, <1>4 DEF WindowInv
<1>5. CASE IsOpen(e, c)
  <2>1. Ending(e, c)
    BY <1>5, InRound DEF Ending
  <2>2. /\ window[e, c].start \in Since(c) /\ window[e, c].start < counter[c]
        /\ \A r \in total[e] : WindowOf(c, r[2]) < counter[c]
        /\ \A q \in Minute : <<e, q>> \in failures => WindowOf(c, q) < counter[c]
    BY <1>3, <1>5, <2>1 DEF WindowInv
  <2>3. window[e, c].start \in Nat /\ counter[c] \in Nat
    BY <2>2, InRound
  <2>6. PmTypeOK
    BY DEF WindowsInv
  <2>4. ASSUME NEW r \in total[e] PROVE WindowOf(c, r[2]) # counter[c]
    <3>1. WindowOf(c, r[2]) \in Nat
      BY <2>6, ReadFields, WindowFields, WindowType
    <3>2. WindowOf(c, r[2]) < counter[c]
      BY <2>2
    <3>3. \A x, y \in Nat : x < y => x # y
      OBVIOUS
    <3> QED
      BY <2>3, <3>1, <3>2, <3>3
  <2>5. ASSUME NEW q \in Minute, <<e, q>> \in failures PROVE WindowOf(c, q) # counter[c]
    <3>1. WindowOf(c, q) \in Nat
      BY WindowType
    <3>2. WindowOf(c, q) < counter[c]
      BY <2>2, <2>5
    <3>3. \A x, y \in Nat : x < y => x # y
      OBVIOUS
    <3> QED
      BY <2>3, <3>1, <3>2, <3>3
  <2> QED
    BY <1>1, <1>2, <2>1, <2>2, <2>3, <2>4, <2>5
<1> QED
  BY <1>4, <1>5

(* The window that the read adds to. *)
LEMMA GrownWindow ==
  ASSUME WindowsInv, ReadSucceeds, NEW e \in Entry, NEW c \in Cycle, e = next,
         IsOpen(e, c), ~timeout[c]
  PROVE  /\ IsOpen(e, c)' /\ ~ToRead(e)' /\ ~Ending(e, c)'
         /\ total'[e] = total[e] \cup {<<polls, minute>>}
         /\ window'[e, c].start = window[e, c].start
         /\ window'[e, c].reads = window[e, c].reads \cup {<<polls, minute>>}
         /\ window'[e, c].failed = window[e, c].failed
         /\ (Whole(e, c)' <=> Whole(e, c))
         /\ window[e, c].start \in Since(c) /\ window[e, c].start \in Nat
         /\ window[e, c].start <= counter[c] /\ WindowOf(c, minute) >= window[e, c].start
<1>1. /\ total'[e] = total[e] \cup {<<polls, minute>>}
      /\ ~window'[e, c].init
      /\ window'[e, c].start = window[e, c].start
      /\ window'[e, c].reads = window[e, c].reads \cup {<<polls, minute>>}
      /\ window'[e, c].failed = window[e, c].failed
  BY InRound, ReadState
<1>2. IsOpen(e, c)' /\ ~ToRead(e)' /\ ~Ending(e, c)'
  BY <1>1, InRound, AdvanceReads DEF IsOpen, Ending
<1>3. WindowInv(e, c)
  BY DEF WindowsInv
<1>4. window[e, c].start \in Since(c) /\ window[e, c].start <= counter[c]
  BY <1>3 DEF WindowInv
<1> DEFINE start == window[e, c].start
<1>5. /\ start \in Nat /\ start <= counter[c] /\ counter[c] \in Nat
      /\ WindowOf(c, minute) \in Nat /\ counter[c] <= WindowOf(c, minute)
  BY <1>4, InRound
<1> HIDE DEF start
<1>6. WindowOf(c, minute) >= start
  BY <1>5
<1>7. Whole(e, c)' <=> Whole(e, c)
  BY <1>1, <1>2 DEF Whole
<1> QED
  BY <1>1, <1>2, <1>4, <1>5, <1>6, <1>7 DEF start

LEMMA ReadKeepsRounds ==
  ASSUME WindowsInv, ReadSucceeds
  PROVE  RoundsInv' /\ \A e \in Entry : ReadsInv(e)'
<1>1. RoundsInv'
  BY InRound DEF RoundsInv
<1>2. ASSUME NEW e \in Entry
      PROVE  ReadsInv(e)'
  <2>1. ReadsInv(e) /\ polls \in Nat /\ minute \in rounds
        /\ polls' = polls /\ rounds' = rounds /\ failures' = failures
    BY InRound DEF WindowsInv
  <2>2. ToRead(e)' => ToRead(e) /\ e # next
    BY InRound, AdvanceReads
  <2>3. CASE e = next
    <3>1. total'[e] = total[e] \cup {<<polls, minute>>}
      BY <2>3, InRound, ReadState DEF Cycle
    <3>2. ~ToRead(e)'
      BY <2>2, <2>3
    <3>3. ASSUME NEW r \in total'[e] PROVE r[1] <= polls /\ r[2] \in rounds
      <4>1. CASE r \in total[e]
        BY <2>1, <4>1 DEF ReadsInv
      <4>2. CASE r = <<polls, minute>>
        BY <2>1, <4>2
      <4> QED
        BY <3>1, <4>1, <4>2
    <3> QED
      BY <2>1, <3>2, <3>3 DEF ReadsInv
  <2>4. CASE e # next
    <3>1. total'[e] = total[e]
      BY <2>4, OtherEntries DEF Cycle
    <3> QED
      BY <2>1, <2>2, <3>1 DEF ReadsInv
  <2> QED
    BY <2>3, <2>4
<1> QED
  BY <1>1, <1>2

LEMMA ReadKeepsWindow ==
  ASSUME WindowsInv, ReadSucceeds, NEW e \in Entry, NEW c \in Cycle
  PROVE  WindowInv(e, c)'
<1>1. WindowInv(e, c) /\ PmTypeOK
  BY DEF WindowsInv
<1>2. /\ counter' = counter /\ rounds' = rounds /\ failures' = failures
      /\ Since(c)' = Since(c) /\ counter[c] \in Since(c) /\ counter[c] \in Nat
      /\ WindowOf(c, minute) \in Nat /\ counter[c] <= WindowOf(c, minute)
  BY InRound
<1>3. CASE e # next
  <2>1. /\ window'[e, c] = window[e, c] /\ total'[e] = total[e]
        /\ (IsOpen(e, c)' <=> IsOpen(e, c)) /\ (Whole(e, c)' <=> Whole(e, c))
        /\ (Ending(e, c)' <=> Ending(e, c))
    BY <1>3, OtherEntries
  <2>2. ASSUME NEW d \in Entry, Ending(e, c)', Ending(d, c)', Whole(e, c)', IsOpen(d, c)'
        PROVE  window'[d, c].start <= window'[e, c].start
    <3>1. d # next
      BY <2>2, BegunWindow, GrownWindow, InRound DEF Ending
    <3>2. Ending(d, c) /\ IsOpen(d, c) /\ window'[d, c] = window[d, c]
      BY <2>2, <3>1, OtherEntries
    <3> QED
      BY <1>1, <2>1, <2>2, <3>2 DEF WindowInv
  <2> QED
    BY <1>1, <1>2, <2>1, <2>2 DEF WindowInv
<1>4. CASE e = next /\ (~IsOpen(e, c) \/ timeout[c])
  <2>1. /\ IsOpen(e, c)' /\ ~Ending(e, c)'
        /\ total'[e] = total[e] \cup {<<polls, minute>>}
        /\ window'[e, c].start = counter[c] /\ window'[e, c].reads = {<<polls, minute>>}
        /\ \A r \in total[e] : WindowOf(c, r[2]) # counter[c]
        /\ \A q \in Minute : <<e, q>> \in failures => WindowOf(c, q) # counter[c]
    BY <1>4, BegunWindow
  <2>2. \A m \in rounds : WindowOf(c, m) <= counter[c] \/ WindowOf(c, m) >= counter[c]
    BY <1>1, <1>2, WindowType DEF PmTypeOK
  <2>3. \A r \in total'[e] : r \in window'[e, c].reads \/ WindowOf(c, r[2]) # window'[e, c].start
    BY <2>1
  <2>4. ASSUME NEW r \in window'[e, c].reads PROVE WindowOf(c, r[2]) >= window'[e, c].start
    <3>1. r = <<polls, minute>>
      BY <2>1
    <3>2. r[2] = minute
      BY <3>1
    <3>3. WindowOf(c, minute) >= counter[c]
      BY <1>2
    <3> QED
      BY <2>1, <3>2, <3>3
  <2>5. window'[e, c].start \in Since(c)' /\ window'[e, c].start <= counter'[c]
    <3>1. counter'[c] = counter[c] /\ counter[c] <= counter[c] /\ counter[c] \in Since(c)'
      BY <1>2
    <3> QED
      BY <2>1, <3>1
  <2> QED
    BY <1>2, <2>1, <2>2, <2>3, <2>4, <2>5 DEF WindowInv
<1>5. CASE e = next /\ IsOpen(e, c) /\ ~timeout[c]
  <2>1. /\ IsOpen(e, c)' /\ ~Ending(e, c)' /\ ~Ending(e, c)
        /\ total'[e] = total[e] \cup {<<polls, minute>>}
        /\ window'[e, c].start = window[e, c].start
        /\ window'[e, c].reads = window[e, c].reads \cup {<<polls, minute>>}
        /\ window'[e, c].failed = window[e, c].failed
        /\ (Whole(e, c)' <=> Whole(e, c))
        /\ WindowOf(c, minute) >= window[e, c].start
    BY <1>5, GrownWindow DEF Ending
  <2>2. \A r \in total'[e] : r \in window'[e, c].reads \/ WindowOf(c, r[2]) # window'[e, c].start
    BY <1>1, <1>5, <2>1 DEF WindowInv
  <2>3. ASSUME NEW r \in window'[e, c].reads PROVE WindowOf(c, r[2]) >= window'[e, c].start
    <3>1. CASE r \in window[e, c].reads
      BY <1>1, <1>5, <2>1, <3>1 DEF WindowInv
    <3>2. CASE r = <<polls, minute>>
      BY <2>1, <3>2
    <3> QED
      BY <2>1, <3>1, <3>2
  <2>4. window'[e, c].start \in Since(c)' /\ window'[e, c].start <= counter'[c]
    BY <1>1, <1>2, <1>5, <2>1 DEF WindowInv
  <2>5. window'[e, c].reads \subseteq total'[e]
    BY <1>1, <2>1 DEF WindowInv
  <2>6. Whole(e, c)' =>
          /\ window'[e, c].start = counter'[c]
          /\ \A m \in rounds' : AtBegin(c, m) => WindowOf(c, m) <= window'[e, c].start \/ WindowOf(c, m) >= counter'[c]
    BY <1>1, <1>2, <2>1 DEF WindowInv
  <2>7. \A q \in Minute : <<e, q>> \in failures' /\ WindowOf(c, q) = window'[e, c].start => window'[e, c].failed
    BY <1>1, <1>2, <1>5, <2>1 DEF WindowInv
  <2> QED
    BY <2>1, <2>2, <2>3, <2>4, <2>5, <2>6, <2>7 DEF WindowInv
<1> QED
  BY <1>3, <1>4, <1>5

LEMMA Order ==
  /\ \A x, y, z \in Nat : x < y /\ y <= z => x < z /\ z # x
  /\ \A x, y \in Nat : x < y => ~(y <= x)
  /\ \A x \in Nat : x <= x
  /\ \A x, y \in Nat : ~(x < y) => y <= x
  /\ \A x, y \in Nat : x < y /\ (x + 1 <= x \/ x + 1 >= y) => y = x + 1
  /\ \A x, y \in Nat : x >= y /\ x < y + 1 => x = y
OBVIOUS

(* What RecordInv asks of a record that counts as complete. *)
WholeRecord(e, c, s) ==
  /\ \E t \in Window :
       /\ s < t /\ t <= counter[c]
       /\ \A r \in history.value[e, c, s].reads : WindowOf(c, r[2]) < t
       /\ NoneBetween(c, s, t)
  /\ \A q \in Minute : <<e, q>> \in failures => WindowOf(c, q) # s

(* The record that the read saves. *)
LEMMA SavedRecord ==
  ASSUME WindowsInv, ReadSucceeds, NEW e \in Entry, NEW c \in Cycle, NEW s \in Window,
         e = next, timeout[c], IsOpen(e, c), s = window[e, c].start
  PROVE  RecordInv(e, c, s)'
<1>1. WindowInv(e, c) /\ PmTypeOK
  BY DEF WindowsInv
<1>2. /\ counter' = counter /\ rounds' = rounds /\ failures' = failures /\ kind' = kind /\ minute' = minute
      /\ counter[c] \in Nat /\ counter[c] \in Window
      /\ WindowOf(c, minute) \in Nat /\ counter[c] <= WindowOf(c, minute)
  BY InRound
<1>3. /\ Ending(e, c) /\ s \in Nat /\ s < counter[c]
      /\ IsOpen(e, c)' /\ window'[e, c].start = counter[c]
      /\ total'[e] = total[e] \cup {<<polls, minute>>}
  BY BegunWindow
<1>4. history'.value[e, c, s].saved /\ history'.value[e, c, s].reads = window[e, c].reads
  BY ReadValue
<1>5. s < WindowOf(c, minute) /\ WindowOf(c, minute) # s
  BY <1>2, <1>3, Order
<1>6. window[e, c].reads \subseteq total'[e]
  BY <1>1, <1>3 DEF WindowInv
<1>7. ASSUME NEW r \in total'[e] PROVE r \in window[e, c].reads \/ WindowOf(c, r[2]) # s
  <2>1. CASE r \in total[e]
    BY <1>1, <2>1 DEF WindowInv
  <2>2. CASE r = <<polls, minute>>
    <3>1. r[2] = minute
      BY <2>2
    <3> QED
      BY <1>5, <3>1
  <2> QED
    BY <1>3, <2>1, <2>2
<1>8. \A r \in window[e, c].reads : WindowOf(c, r[2]) >= s
  BY <1>1 DEF WindowInv
<1>9. ASSUME (history.complete[HashOf(e), c, s])'
      PROVE  WholeRecord(e, c, s)'
  <2>1. HashOf(e)' = HashOf(e)
    BY <1>2 DEF HashOf
  <2>2. ~window[e, c].failed
    BY <1>9, <2>1, ReadComplete
  <2>3. Whole(e, c)
    BY <2>2 DEF Whole
  <2>4. NoneBetween(c, s, counter[c])
    BY <1>1, <2>3 DEF WindowInv, NoneBetween
  <2>5. \A r \in window[e, c].reads : WindowOf(c, r[2]) < counter[c]
    BY <1>1, <1>3 DEF WindowInv
  <2>6. \A q \in Minute : <<e, q>> \in failures => WindowOf(c, q) # s
    BY <1>1, <2>2 DEF WindowInv
  <2>7. counter[c] <= counter[c]
    BY <1>2, Order
  <2> QED
    BY <1>2, <1>3, <1>4, <2>4, <2>5, <2>6, <2>7 DEF WholeRecord, NoneBetween
<1> QED
  BY <1>2, <1>3, <1>4, <1>5, <1>6, <1>7, <1>8, <1>9 DEF RecordInv, WholeRecord

(* The records that the read leaves alone. *)
LEMMA OtherRecords ==
  ASSUME WindowsInv, ReadSucceeds, NEW e \in Entry, NEW c \in Cycle, NEW s \in Window,
         ~(e = next /\ timeout[c] /\ IsOpen(e, c) /\ s = window[e, c].start)
  PROVE  RecordInv(e, c, s)'
<1>1. RecordInv(e, c, s) /\ WindowInv(e, c) /\ PmTypeOK
  BY DEF WindowsInv
<1>2. /\ counter' = counter /\ rounds' = rounds /\ failures' = failures /\ kind' = kind /\ minute' = minute
      /\ counter[c] \in Nat /\ s \in Nat /\ Since(c)' = Since(c) /\ next \in Entry
      /\ WindowOf(c, minute) \in Nat /\ counter[c] <= WindowOf(c, minute)
      /\ HashOf(e)' = HashOf(e)
  BY InRound DEF HashOf
<1>3. history'.value[e, c, s] = history.value[e, c, s]
  BY ReadValue
<1>4. ASSUME s \in Since(c)
      PROVE  history.value[e, c, s].reads \subseteq total'[e]
  <2>1. history.value[e, c, s].reads \subseteq total[e]
    BY <1>1, <1>4 DEF RecordInv
  <2>2. total[e] \subseteq total'[e]
    BY InRound, OtherEntries, BegunWindow, GrownWindow
  <2> QED
    BY <2>1, <2>2
<1>5. ASSUME s \in Since(c), history.value[e, c, s].saved
      PROVE  /\ IsOpen(e, c)' /\ s < window'[e, c].start
             /\ \A r \in total'[e] : r \in history.value[e, c, s].reads \/ WindowOf(c, r[2]) # s
  <2>1. /\ IsOpen(e, c) /\ s < window[e, c].start
        /\ \A r \in total[e] : r \in history.value[e, c, s].reads \/ WindowOf(c, r[2]) # s
    BY <1>1, <1>5 DEF RecordInv
  <2>2. window[e, c].start \in Nat /\ window[e, c].start <= counter[c]
    BY <1>1, <2>1, WindowFields DEF WindowInv
  <2>3. CASE e # next
    BY <2>1, <2>3, OtherEntries
  <2>4. CASE e = next
    <3>1. IsOpen(e, c)' /\ total'[e] = total[e] \cup {<<polls, minute>>}
      BY <2>4, BegunWindow, GrownWindow
    <3>2. s < window'[e, c].start
      <4>1. CASE timeout[c]
        <5>1. window'[e, c].start = counter[c]
          BY <2>4, <4>1, BegunWindow
        <5>2. s < counter[c]
          BY <1>2, <2>1, <2>2, Order
        <5> QED
          BY <5>1, <5>2
      <4>2. CASE ~timeout[c]
        BY <2>1, <2>4, <4>2, GrownWindow
      <4> QED
        BY <4>1, <4>2
    <3>3. WindowOf(c, minute) # s
      <4>1. s < counter[c]
        BY <1>2, <2>1, <2>2, Order
      <4> QED
        BY <1>2, <4>1, Order
    <3>4. ASSUME NEW r \in total'[e] PROVE r \in history.value[e, c, s].reads \/ WindowOf(c, r[2]) # s
      <4>1. CASE r \in total[e]
        BY <2>1, <4>1
      <4>2. CASE r = <<polls, minute>>
        <5>1. r[2] = minute
          BY <4>2
        <5> QED
          BY <3>3, <5>1
      <4> QED
        BY <3>1, <4>1, <4>2
    <3> QED
      BY <3>1, <3>2, <3>4
  <2> QED
    BY <2>3, <2>4
<1>6. ASSUME s \in Since(c), history.value[e, c, s].saved,
             (history.complete[HashOf(e), c, s])', kind = "gauge" \/ e + 1 \notin Entry
      PROVE  WholeRecord(e, c, s)'
  <2>1. history.complete[HashOf(e), c, s]
    <3>1. CASE HashOf(e) = HashOf(next) /\ timeout[c] /\ IsOpen(next, c) /\ s = window[next, c].start
      <4>1. ~window[next, c].failed
        BY <1>2, <1>6, <3>1, ReadComplete
      <4>2. Whole(next, c) /\ Ending(next, c)
        BY <3>1, <4>1, InRound DEF Whole, Ending
      <4>3. e # next
        BY <3>1
      <4>4. ToRead(e)
        <5>1. kind # "gauge"
          BY <3>1, <4>3 DEF HashOf
        <5>2. e + 1 \notin Entry
          BY <1>6, <5>1
        <5>3. ~(e < next) /\ e \in Nat /\ next \in Nat
          BY <1>2, <5>2, EntryFacts
        <5>4. next <= e
          BY <5>3, Order
        <5>5. next # None
          BY InRound
        <5> QED
          BY <5>4, <5>5 DEF ToRead
      <4>5. Ending(e, c)
        BY <3>1, <4>4 DEF Ending
      <4>6. IsOpen(e, c) /\ s < window[e, c].start
        BY <1>1, <1>6 DEF RecordInv
      <4>7. WindowInv(next, c)
        BY <1>2 DEF WindowsInv
      <4>8. window[e, c].start <= window[next, c].start
        BY <4>2, <4>5, <4>6, <4>7 DEF WindowInv
      <4>9. window[e, c].start \in Nat
        BY <1>1, WindowFields
      <4> DEFINE start == window[e, c].start
      <4>10. s < start /\ start <= s /\ start \in Nat
        BY <3>1, <4>6, <4>8, <4>9
      <4> HIDE DEF start
      <4> QED
        BY <1>2, <4>10, Order
    <3>2. CASE ~(HashOf(e) = HashOf(next) /\ timeout[c] /\ IsOpen(next, c) /\ s = window[next, c].start)
      <4>1. history'.complete[HashOf(e), c, s] = history.complete[HashOf(e), c, s]
        BY <3>2, ReadComplete
      <4> QED
        BY <1>2, <1>6, <4>1
    <3> QED
      BY <3>1, <3>2
  <2>2. WholeRecord(e, c, s)
    BY <1>1, <1>6, <2>1 DEF RecordInv, WholeRecord
  <2> QED
    BY <1>2, <1>3, <2>2 DEF WholeRecord, NoneBetween
<1> QED
  BY <1>1, <1>2, <1>3, <1>4, <1>5, <1>6 DEF RecordInv, WholeRecord

LEMMA ReadKeepsKept ==
  ASSUME WindowsInv, ReadSucceeds, NEW e \in Entry, NEW c \in Cycle
  PROVE  KeptInv(e, c)'
<1> DEFINE new == <<polls, minute>>
           start == window[e, c].start
           reads == window[e, c].reads
           Of(s) == history.value[e, c, s].reads
<1>1. KeptInv(e, c) /\ PmTypeOK /\ WindowInv(e, c)
  BY DEF WindowsInv
<1>2. /\ Since(c)' = Since(c) /\ Since(c) \subseteq Window /\ Since(c) \subseteq Nat
      /\ counter[c] \in Since(c) /\ counter[c] \in Nat
  BY InRound
<1>3. ASSUME NEW s \in Since(c)
      PROVE  /\ Of(s) \subseteq total[e]
             /\ IsOpen(e, c) => start \in Nat /\ start <= counter[c]
             /\ Of(s) # {} => IsOpen(e, c) /\ s < start /\ s # start /\ s # counter[c]
  <2>1. RecordInv(e, c, s) /\ s \in Nat
    BY <1>2 DEF WindowsInv
  <2>2. IsOpen(e, c) => start \in Nat /\ start <= counter[c]
    BY <1>1, <1>2 DEF WindowInv
  <2>3. ASSUME Of(s) # {} PROVE IsOpen(e, c) /\ s < start
    BY <2>1, <2>3 DEF RecordInv
  <2>4. ASSUME Of(s) # {} PROVE s # start /\ s # counter[c]
    <3>1. start \in Nat /\ start <= counter[c] /\ s < start
      BY <2>2, <2>3, <2>4
    <3> HIDE DEF start
    <3>2. s # start
      BY <2>1, <3>1
    <3>3. counter[c] # s
      BY <1>2, <2>1, <3>1, Order
    <3> QED
      BY <3>2, <3>3
  <2> QED
    BY <2>1, <2>2, <2>3, <2>4 DEF RecordInv
<1>4. CASE e # next
  BY <1>1, <1>2, <1>4, OtherEntries, SameKept
<1>5. ASSUME e = next
      PROVE  new \notin total[e]
  BY <1>5, InRound
<1>6. /\ \A r \in total[e] : r \in reads \/ \E s \in Since(c) : s # start /\ r \in Of(s)
      /\ \A s \in Since(c) : s # start => \A r \in Of(s) :
           r \notin reads /\ \A t \in Since(c) : t # start /\ r \in Of(t) => s = t
      /\ reads \subseteq total[e]
  BY <1>1 DEF KeptInv, WindowInv
<1>7. CASE e = next /\ IsOpen(e, c) /\ ~timeout[c]
  <2>1. /\ window'[e, c].start = start /\ window'[e, c].reads = reads \cup {new}
        /\ total'[e] = total[e] \cup {new}
    BY <1>7, GrownWindow
  <2>2. \A s \in Since(c) : Of(s)' = Of(s)
    BY <1>2, <1>7, ReadValue
  <2>3. new \notin total[e]
    BY <1>5, <1>7
  <2>4. start' = start /\ reads' = reads \cup {new}
    BY <2>1
  <2> HIDE DEF new, start, reads, Of
  <2>5. ASSUME NEW r \in total'[e]
        PROVE  r \in reads' \/ \E s \in Since(c)' : s # start' /\ r \in Of(s)'
    <3>1. CASE r = new
      BY <2>4, <3>1
    <3>2. CASE r \in reads
      BY <2>4, <3>2
    <3>3. CASE \E s \in Since(c) : s # start /\ r \in Of(s)
      BY <1>2, <2>2, <2>4, <3>3
    <3> QED
      BY <1>6, <2>1, <3>1, <3>2, <3>3
  <2>6. ASSUME NEW s \in Since(c)', s # start', NEW r \in Of(s)'
        PROVE  r \notin reads' /\ \A t \in Since(c)' : t # start' /\ r \in Of(t)' => s = t
    <3>1. s \in Since(c) /\ s # start /\ r \in Of(s)
      BY <1>2, <2>2, <2>4, <2>6
    <3>2. r # new /\ r \notin reads /\ \A t \in Since(c) : t # start /\ r \in Of(t) => s = t
      BY <1>3, <1>6, <2>3, <3>1
    <3> QED
      BY <1>2, <2>2, <2>4, <3>2
  <2> QED
    BY <2>5, <2>6 DEF KeptInv, start, reads, Of
<1>8. CASE e = next /\ IsOpen(e, c) /\ timeout[c]
  <2>1. /\ window'[e, c].start = counter[c] /\ window'[e, c].reads = {new}
        /\ total'[e] = total[e] \cup {new}
        /\ start \in Since(c) /\ start \in Nat /\ start < counter[c]
    BY <1>8, BegunWindow
  <2>2. \A s \in Since(c) : history'.value[e, c, s].reads = IF s = start THEN reads ELSE Of(s)
    <3>1. ASSUME NEW s \in Since(c) PROVE history'.value[e, c, s].reads = IF s = start THEN reads ELSE Of(s)
      <4>1. s \in Window
        BY <1>2
      <4>2. CASE s = start
        BY <1>8, <4>1, <4>2, ReadValue
      <4>3. CASE s # start
        BY <1>8, <4>1, <4>3, ReadValue
      <4> QED
        BY <4>2, <4>3
    <3> QED
      BY <3>1
  <2>3. new \notin total[e]
    BY <1>5, <1>8
  <2>4. start # counter[c]
    <3>1. counter[c] \in Nat /\ start \in Nat /\ start < counter[c]
      BY <1>2, <2>1
    <3> HIDE DEF start
    <3> QED
      BY <3>1, Order
  <2> DEFINE Later(s) == history'.value[e, c, s].reads
             start1 == window'[e, c].start
             reads1 == window'[e, c].reads
  <2>5. /\ start1 = counter[c] /\ reads1 = {new}
        /\ \A s \in Since(c) : Later(s) = IF s = start THEN reads ELSE Of(s)
    BY <2>1, <2>2
  <2> HIDE DEF new, start, reads, Of, Later, start1, reads1
  <2>6. ASSUME NEW r \in total'[e]
        PROVE  r \in reads1 \/ \E s \in Since(c)' : s # start1 /\ r \in Later(s)
    <3>1. CASE r = new
      BY <2>5, <3>1
    <3>2. CASE r \in reads
      BY <1>2, <2>1, <2>4, <2>5, <3>2
    <3>3. CASE \E s \in Since(c) : s # start /\ r \in Of(s)
      <4>1. PICK s \in Since(c) : s # start /\ r \in Of(s)
        BY <3>3
      <4>2. s # counter[c]
        BY <1>3, <4>1
      <4> QED
        BY <1>2, <2>5, <4>1, <4>2
    <3> QED
      BY <1>6, <2>1, <3>1, <3>2, <3>3
  <2>7. ASSUME NEW s \in Since(c)', s # start1, NEW r \in Later(s)
        PROVE  r \notin reads1 /\ \A t \in Since(c)' : t # start1 /\ r \in Later(t) => s = t
    <3>1. s \in Since(c) /\ r \in IF s = start THEN reads ELSE Of(s)
      BY <1>2, <2>5, <2>7
    <3>2. r \in total[e]
      BY <1>3, <1>6, <3>1
    <3>3. ASSUME NEW t \in Since(c), t # start1, r \in Later(t) PROVE s = t
      <4>1. r \in IF t = start THEN reads ELSE Of(t)
        BY <2>5, <3>3
      <4> QED
        BY <1>6, <3>1, <4>1
    <3> QED
      BY <1>2, <2>3, <2>5, <3>2, <3>3
  <2> QED
    BY <2>6, <2>7 DEF KeptInv, start1, reads1, Later
<1>9. CASE e = next /\ ~IsOpen(e, c)
  <2>1. /\ window'[e, c].start = counter[c] /\ window'[e, c].reads = {new}
        /\ total'[e] = total[e] \cup {new}
    BY <1>9, BegunWindow
  <2>2. \A s \in Since(c) : Of(s)' = Of(s)
    BY <1>2, <1>9, ReadValue
  <2>3. total[e] = {}
    BY <1>1, <1>9 DEF WindowInv
  <2>4. start' = counter[c] /\ reads' = {new}
    BY <2>1
  <2> HIDE DEF new, start, reads, Of
  <2>5. \A s \in Since(c) : Of(s) = {}
    BY <1>3, <2>3
  <2>6. \A r \in total'[e] : r \in reads'
    BY <2>1, <2>3, <2>4
  <2>7. \A s \in Since(c)' : Of(s)' = {}
    BY <1>2, <2>2, <2>5
  <2> QED
    BY <2>6, <2>7 DEF KeptInv, start, reads, Of
<1> QED
  BY <1>4, <1>7, <1>8, <1>9

LEMMA NextKeepsInv ==
  ASSUME WindowsInv, [PmNext]_pmVars
  PROVE  WindowsInv'
<1>1. PmTypeOK /\ PmTypeOK'
  BY PmNextTyped DEF WindowsInv, RoundsInv
<1>2. CASE Tick
  BY <1>1, <1>2, TickKeepsInv DEF Tick
<1>3. CASE DeleteCollector
  BY <1>1, <1>3, FreshKeepsInv DEF DeleteCollector, clock
<1>4. CASE ProcessDies
  BY <1>1, <1>4, FreshKeepsInv DEF ProcessDies, clock
<1>5. CASE CreateCollector
  BY <1>1, <1>5, TickKeepsInv DEF CreateCollector, clock
<1>6. CASE UpdateTimeFlags
  BY <1>1, <1>6, FlagsKeepInv
<1>7. CASE ReadFails
  BY <1>1, <1>7, FailsKeepInv
<1>8. CASE ReadSucceeds
  <2>1. RoundsInv' /\ \A e \in Entry : ReadsInv(e)'
    BY <1>8, ReadKeepsRounds
  <2>2. \A e \in Entry, c \in Cycle : WindowInv(e, c)' /\ KeptInv(e, c)'
    BY <1>8, ReadKeepsWindow, ReadKeepsKept
  <2>3. ASSUME NEW e \in Entry, NEW c \in Cycle, NEW s \in Window
        PROVE  RecordInv(e, c, s)'
    BY <1>8, SavedRecord, OtherRecords
  <2> QED
    BY <1>1, <2>1, <2>2, <2>3 DEF WindowsInv
<1>9. CASE UNCHANGED pmVars
  BY <1>1, <1>9, TickKeepsInv DEF pmVars, clock
<1> QED
  BY <1>2, <1>3, <1>4, <1>5, <1>6, <1>7, <1>8, <1>9 DEF PmNext

LEMMA InvKeepsReads == WindowsInv => NothingLostOrDoubled
<1> SUFFICES ASSUME WindowsInv, NEW e \in Entry, NEW c \in Cycle
             PROVE  LET open == window[e, c].reads
                        past == Since(c) \ {window[e, c].start}
                        Record(s) == history.value[e, c, s].reads
                    IN  /\ total[e] = open \cup UNION {Record(s) : s \in past}
                        /\ \A s \in past : Record(s) \cap open = {}
                        /\ \A s, t \in past : s # t => Record(s) \cap Record(t) = {}
  BY DEF NothingLostOrDoubled
<1> DEFINE open == window[e, c].reads
           past == Since(c) \ {window[e, c].start}
           Of(s) == history.value[e, c, s].reads
<1>1. open \subseteq total[e]
  BY DEF WindowsInv, WindowInv
<1>2. \A s \in past : Of(s) \subseteq total[e]
  BY DEF WindowsInv, RecordInv, Since
<1>3. /\ \A r \in total[e] : r \in open \/ \E s \in past : r \in Of(s)
      /\ \A s \in past : \A r \in Of(s) : r \notin open /\ \A t \in past : r \in Of(t) => s = t
  <2>1. KeptInv(e, c)
    BY DEF WindowsInv
  <2>2. \A r \in total[e] : r \in open \/ \E s \in past : r \in Of(s)
    BY <2>1 DEF KeptInv
  <2>3. ASSUME NEW s \in past, NEW r \in Of(s)
        PROVE  r \notin open /\ \A t \in past : r \in Of(t) => s = t
    <3>1. s \in Since(c) /\ s # window[e, c].start
      OBVIOUS
    <3>2. /\ r \notin window[e, c].reads
          /\ \A t \in Since(c) : t # window[e, c].start /\ r \in history.value[e, c, t].reads => s = t
      BY <2>1, <3>1 DEF KeptInv
    <3> QED
      BY <3>2
  <2> QED
    BY <2>2, <2>3
<1> HIDE DEF open, past, Of
<1>4. total[e] = open \cup UNION {Of(s) : s \in past}
  BY <1>1, <1>2, <1>3
<1>5. \A s \in past : Of(s) \cap open = {}
  BY <1>3
<1>6. \A s, t \in past : s # t => Of(s) \cap Of(t) = {}
  BY <1>3
<1> QED
  BY <1>4, <1>5, <1>6 DEF open, past, Of

LEMMA InvMakesWhole == WindowsInv => CompleteIsWhole
<1> SUFFICES ASSUME WindowsInv, NEW e \in Entry, NEW c \in Cycle, NEW s \in Since(c),
                    history.value[e, c, s].saved, history.complete[HashOf(e), c, s],
                    kind = "gauge" \/ e + 1 \notin Entry,
                    SeenBegin(c, s + 1)
             PROVE  /\ history.value[e, c, s].reads = {r \in total[e] : WindowOf(c, r[2]) = s}
                    /\ \A q \in Minute : WindowOf(c, q) = s => <<e, q>> \notin failures
  BY DEF CompleteIsWhole
<1>1. PmTypeOK /\ s \in Window /\ s \in Nat /\ Window \subseteq Nat
  BY SinceType DEF WindowsInv
<1>2. RecordInv(e, c, s)
  BY <1>1 DEF WindowsInv
<1> DEFINE reads == history.value[e, c, s].reads
<1>3. /\ reads \subseteq total[e]
      /\ \A r \in total[e] : r \in reads \/ WindowOf(c, r[2]) # s
      /\ \A r \in reads : WindowOf(c, r[2]) >= s
      /\ \A q \in Minute : <<e, q>> \in failures => WindowOf(c, q) # s
  BY <1>2 DEF RecordInv
<1>4. PICK t \in Window : /\ s < t
                          /\ \A r \in reads : WindowOf(c, r[2]) < t
                          /\ NoneBetween(c, s, t)
  BY <1>2 DEF RecordInv
<1>5. PICK m \in rounds : WindowOf(c, m) = s + 1 /\ AtBegin(c, m)
  BY DEF SeenBegin
<1>6. t = s + 1
  <2>1. WindowOf(c, m) <= s \/ WindowOf(c, m) >= t
    BY <1>4, <1>5 DEF NoneBetween
  <2>2. t \in Nat /\ s < t
    BY <1>1, <1>4
  <2> QED
    BY <1>1, <1>5, <2>1, <2>2, Order
<1> HIDE DEF reads
<1>7. ASSUME NEW r \in reads PROVE WindowOf(c, r[2]) = s
  <2>1. WindowOf(c, r[2]) \in Nat
    BY <1>1, <1>3, ReadFields, WindowFields, WindowType
  <2>2. WindowOf(c, r[2]) >= s /\ WindowOf(c, r[2]) < s + 1
    BY <1>3, <1>4, <1>6
  <2> QED
    BY <1>1, <2>1, <2>2, Order
<1>8. reads = {r \in total[e] : WindowOf(c, r[2]) = s}
  BY <1>3, <1>7
<1> QED
  BY <1>3, <1>8 DEF reads

-----------------------------------------------------------------------------
(* Theorems about the windows of a collector. *)

THEOREM PmInvariant == PmSpec => []WindowsInv
<1>1. WindowsInv /\ [PmNext]_pmVars => WindowsInv'
  BY NextKeepsInv
<1> QED
  BY InitInv, <1>1, PTL DEF PmSpec

(* Every variable of a collector, and what it leaves in redis, keeps its   *)
(* type.                                                                   *)
THEOREM WindowsTypeCorrect == PmSpec => []PmTypeOK
<1>1. WindowsInv => PmTypeOK
  BY DEF WindowsInv
<1> QED
  BY PmInvariant, <1>1, PTL

(* No read is lost between two windows or counted in both, whatever reads  *)
(* fail at the end of a window.                                            *)
THEOREM NothingLostOrDoubledAlways == PmSpec => []NothingLostOrDoubled
BY PmInvariant, InvKeepsReads, PTL

(* A record that is called complete holds all reads of its window and no   *)
(* other, and none of them failed.                                         *)
THEOREM CompleteIsWholeAlways == PmSpec => []CompleteIsWhole
BY PmInvariant, InvMakesWhole, PTL
=============================================================================
