---------------------------- MODULE FlexCounter ----------------------------
(***************************************************************************)
(* The polling of performance counters: FlexCounterManager with one        *)
(* FlexCounter instance, and one polling thread, per group.  The main      *)
(* thread handles the FLEX_COUNTER and FLEX_COUNTER_GROUP tables one event *)
(* at a time under Syncd::m_mutex; each polling thread runs beside it and  *)
(* meets it at m_mtx, m_pollCond and m_cvSleep only.                       *)
(***************************************************************************)
EXTENDS Naturals, FiniteSets

CONSTANTS
  Group,       \* group names (instance IDs)
  KnownGroup,  \* those that name a property group (1S_STAT_STATUS, ...)
  Vid,         \* VIDs of monitored objects
  Interval,    \* poll intervals in milliseconds; 0 means "do not poll"
  Unset        \* "not given"

ASSUME GroupAssumption == KnownGroup \subseteq Group /\ Unset \notin Group /\ Unset \notin Vid
ASSUME SettingsAssumption ==
  0 \in Interval /\ Interval \subseteq Nat /\ Unset \notin Interval /\ Unset \notin BOOLEAN

(* The fields of a FLEX_COUNTER_GROUP entry. *)
Settings == [enable : BOOLEAN \cup {Unset}, interval : Interval \cup {Unset}]
InitialSettings == [enable |-> FALSE, interval |-> 0]

(* An event that the main thread has popped.                               *)
NoSettings == [enable |-> Unset, interval |-> Unset]
Event ==
  [op : {"setGroup"}, group : Group, vid : {Unset}, values : Settings]
  \cup [op : {"delGroup"}, group : Group, vid : {Unset}, values : {NoSettings}]
  \cup [op : {"add", "remove"}, group : Group, vid : Vid, values : {NoSettings}]
(* The destruction of one instance, and nothing at all. *)
Stop == [op : {"stop"}, group : Group, vid : {Unset}, values : {NoSettings}]
NoEvent == [op |-> "none", group |-> Unset, vid |-> Unset, values |-> NoSettings]

MainPC == {"idle", "apply", "discard?", "stop", "join", "clear"}

ThreadPC == {"none", "test", "lock", "collecting", "toSleep", "sleeping",
             "toPoll", "polling", "ended"}

VARIABLES
  main,        \* where the main thread is
  event,       \* the event it handles, or the instance it destroys
  doomed,      \* groups whose instance it still has to destroy
  instances,   \* groups that have a FlexCounter object
  running,     \* m_runFlexCounterThread
  enable,      \* m_enable
  interval,    \* m_pollInterval
  discarded,   \* m_isDiscarded
  collectors,  \* the keys of m_collectors
  thread,      \* where the polling thread is
  \* what the events since the last removeAllCounters asked for, and the
  \* groups whose instance a counter's event has made since the last DEL of
  \* the group; only properties read them
  askedGroup, askedSettings, asked, made

state    == <<running, enable, interval, discarded, collectors>>
asks     == <<askedGroup, askedSettings, asked, made>>
vars     == <<main, event, doomed, instances, state, thread, asks>>

TypeOK ==
  /\ main \in MainPC
  /\ event \in Event \cup Stop \cup {NoEvent}
  /\ doomed \subseteq Group
  /\ instances \subseteq Group
  /\ running \in [Group -> BOOLEAN]
  /\ enable \in [Group -> BOOLEAN]
  /\ interval \in [Group -> Interval]
  /\ discarded \in [Group -> BOOLEAN]
  /\ collectors \in [Group -> SUBSET Vid]
  /\ thread \in [Group -> ThreadPC]
  /\ askedGroup \subseteq Group /\ made \subseteq Group
  /\ askedSettings \in [Group -> Settings]
  /\ asked \in [Group -> SUBSET Vid]

Init ==
  /\ main = "idle" /\ event = NoEvent /\ doomed = {}
  /\ instances = {}
  /\ running = [g \in Group |-> FALSE]
  /\ enable = [g \in Group |-> FALSE]
  /\ interval = [g \in Group |-> 0]
  /\ discarded = [g \in Group |-> FALSE]
  /\ collectors = [g \in Group |-> {}]
  /\ thread = [g \in Group |-> "none"]
  /\ askedGroup = {} /\ made = {}
  /\ askedSettings = [g \in Group |-> NoSettings]
  /\ asked = [g \in Group |-> {}]

-----------------------------------------------------------------------------
(* The main thread. *)

(* m_mtx of g is free: the polling thread holds it while it collects. *)
MutexFree(g) == thread[g] # "collecting"

(* Mutant of Given: a field that is not given is stored all the same. *)
GivenOrNot(new, old) == new

(* What is written after the new values of an entry: the given ones. *)
Given(new, old) == IF new = Unset THEN old ELSE new

(* getInstance: a new FlexCounter starts its thread. *)
Create(g) ==
  IF g \in instances
    THEN UNCHANGED <<instances, state, thread>>
    ELSE /\ instances' = instances \cup {g}
         /\ running' = [running EXCEPT ![g] = TRUE]
         /\ enable' = [enable EXCEPT ![g] = FALSE]
         /\ interval' = [interval EXCEPT ![g] = 0]
         /\ discarded' = [discarded EXCEPT ![g] = FALSE]
         /\ collectors' = [collectors EXCEPT ![g] = {}]
         /\ thread' = [thread EXCEPT ![g] = "test"]

(* processFlexCounterGroupEvent and processFlexCounterEvent; a SET for a   *)
(* VID without a RID is handled as a DEL.                                  *)
PopEvent ==
  /\ main = "idle"
  /\ \E e \in Event :
       /\ event' = e /\ Create(e.group)
       /\ made' = IF e.op \in {"add", "remove"} /\ e.group \notin instances
                  THEN made \cup {e.group} ELSE made
  /\ main' = "apply"
  /\ UNCHANGED <<doomed, askedGroup, askedSettings, asked>>

(* notify_all wakes only a thread that already waits. *)
NotifyPoll(g) ==
  thread' = IF thread[g] = "polling" THEN [thread EXCEPT ![g] = "test"] ELSE thread

EndEvent == main' = "idle" /\ event' = NoEvent

AddCounterPlugin(g) ==
  /\ main = "apply" /\ event.op = "setGroup" /\ event.group = g
  /\ MutexFree(g)
  /\ discarded' = [discarded EXCEPT ![g] = FALSE]
  /\ enable' = [enable EXCEPT ![g] = Given(event.values.enable, @)]
  /\ interval' = [interval EXCEPT ![g] = Given(event.values.interval, @)]
  /\ NotifyPoll(g)
  /\ askedGroup' = askedGroup \cup {g} /\ made' = made \ {g}
  /\ askedSettings' = [askedSettings EXCEPT ![g] =
       [enable |-> Given(event.values.enable, @.enable),
        interval |-> Given(event.values.interval, @.interval)]]
  /\ EndEvent
  /\ UNCHANGED <<doomed, instances, running, collectors, asked>>

RemoveCounterPlugins(g) ==
  /\ main = "apply" /\ event.op = "delGroup" /\ event.group = g
  /\ MutexFree(g)
  /\ discarded' = [discarded EXCEPT ![g] = TRUE]
  /\ askedGroup' = askedGroup \ {g} /\ made' = made \ {g}
  /\ askedSettings' = [askedSettings EXCEPT ![g] = NoSettings]
  /\ main' = "discard?"
  /\ UNCHANGED <<event, doomed, instances, running, enable, interval, collectors,
                 thread, asked>>

(* A collector exists only for a group of a known property group. *)
AddCounter(g) ==
  /\ main = "apply" /\ event.op = "add" /\ event.group = g
  /\ MutexFree(g)
  /\ collectors' = IF g \in KnownGroup
                   THEN [collectors EXCEPT ![g] = @ \cup {event.vid}] ELSE collectors
  /\ NotifyPoll(g)
  /\ asked' = [asked EXCEPT ![g] = @ \cup {event.vid}]
  /\ main' = "discard?"
  /\ UNCHANGED <<event, doomed, instances, running, enable, interval, discarded,
                 askedGroup, askedSettings, made>>

RemoveCounter(g) ==
  /\ main = "apply" /\ event.op = "remove" /\ event.group = g
  /\ MutexFree(g)
  /\ collectors' = [collectors EXCEPT ![g] = @ \ {event.vid}]
  /\ asked' = [asked EXCEPT ![g] = @ \ {event.vid}]
  /\ main' = "discard?"
  /\ UNCHANGED <<event, doomed, instances, running, enable, interval, discarded,
                 thread, askedGroup, askedSettings, made>>

(* Mutant of IsDiscarded: the collectors left are not looked at. *)
IsDiscardedFlagOnly(g) == discarded[g]

IsDiscarded(g) == collectors[g] = {} /\ discarded[g]

(* isDiscarded, and removeInstance where it is: the last reference to the  *)
(* instance goes with the manager's call, so its destructor runs here.     *)
CheckDiscarded(g) ==
  /\ main = "discard?" /\ event.group = g
  /\ MutexFree(g)
  /\ IF IsDiscarded(g)
       THEN doomed' = {g} /\ main' = "stop" /\ UNCHANGED event
       ELSE EndEvent /\ UNCHANGED doomed
  /\ UNCHANGED <<instances, state, thread, asks>>

(* removeAllCounters, when the linecard goes inactive and at shutdown: the *)
(* tables have to be written again to get counters again.                  *)
RemoveAllCounters ==
  /\ main = "idle" /\ instances # {}
  /\ doomed' = instances
  /\ main' = "stop"
  /\ askedGroup' = {} /\ made' = {}
  /\ askedSettings' = [g \in Group |-> NoSettings]
  /\ asked' = [g \in Group |-> {}]
  /\ UNCHANGED <<event, instances, state, thread>>

(* ~FlexCounter, endFlexCounterThread up to the join: both condition       *)
(* variables are notified under m_mtx, which the waiting thread does not   *)
(* hold.                                                                   *)
StopThread(g) ==
  /\ main = "stop" /\ g \in doomed
  /\ MutexFree(g)
  /\ running' = [running EXCEPT ![g] = FALSE]
  /\ thread' = IF thread[g] \in {"polling", "sleeping"}
               THEN [thread EXCEPT ![g] = "test"] ELSE thread
  /\ event' = [op |-> "stop", group |-> g, vid |-> Unset, values |-> NoSettings]
  /\ main' = "join"
  /\ UNCHANGED <<doomed, instances, enable, interval, discarded, collectors, asks>>

JoinThread(g) ==
  /\ main = "join" /\ event.group = g
  /\ thread[g] = "ended"
  /\ main' = "clear"
  /\ UNCHANGED <<event, doomed, instances, state, thread, asks>>

(* The rest of the destructor: the collectors are deleted. *)
DeleteInstance(g) ==
  /\ main = "clear" /\ event.group = g
  /\ collectors' = [collectors EXCEPT ![g] = {}]
  /\ instances' = instances \ {g}
  /\ thread' = [thread EXCEPT ![g] = "none"]
  /\ doomed' = doomed \ {g}
  /\ IF doomed' = {} THEN EndEvent ELSE main' = "stop" /\ event' = NoEvent
  /\ UNCHANGED <<running, enable, interval, discarded, asks>>

-----------------------------------------------------------------------------
(* The polling thread of g: flexCounterThreadRunFunction. *)

Move(g, to) ==
  /\ thread' = [thread EXCEPT ![g] = to]
  /\ UNCHANGED <<main, event, doomed, instances, state, asks>>

TestRun(g) ==
  /\ thread[g] = "test"
  /\ Move(g, IF running[g] THEN "lock" ELSE "ended")

(* What the loop tests under m_mtx. *)
Active(g) == enable[g] /\ collectors[g] # {} /\ interval[g] > 0

(* Lock m_mtx; keep it and collect, or unlock at once. *)
LockAndTest(g) ==
  /\ thread[g] = "lock"
  /\ Move(g, IF Active(g) THEN "collecting" ELSE "toPoll")

Collected(g) == thread[g] = "collecting" /\ Move(g, "toSleep")

(* Mutant of StartSleep: the wait has no time limit. *)
StartSleepWithoutTimeout(g) == thread[g] = "toSleep" /\ Move(g, "polling")

StartSleep(g) == thread[g] = "toSleep" /\ Move(g, "sleeping")

(* The interval is over, less the time that collecting took. *)
SleepOver(g) == thread[g] = "sleeping" /\ Move(g, "test")

(* m_pollCond.wait without a predicate. *)
StartPoll(g) == thread[g] = "toPoll" /\ Move(g, "polling")

(* A condition variable may return on its own, but need not. *)
SpuriousWakeUp(g) == thread[g] = "polling" /\ Move(g, "test")

ThreadStep(g) ==
  \/ TestRun(g) \/ LockAndTest(g) \/ Collected(g)
  \/ StartSleep(g) \/ SleepOver(g) \/ StartPoll(g)

MainStep ==
  \E g \in Group :
    \/ AddCounterPlugin(g) \/ RemoveCounterPlugins(g)
    \/ AddCounter(g) \/ RemoveCounter(g) \/ CheckDiscarded(g)
    \/ StopThread(g) \/ JoinThread(g) \/ DeleteInstance(g)

Next ==
  \/ PopEvent \/ RemoveAllCounters \/ MainStep
  \/ \E g \in Group : ThreadStep(g) \/ SpuriousWakeUp(g)

Spec == Init /\ [][Next]_vars

(* Events need not come, a started one is carried through; the operating   *)
(* system schedules every thread.  m_mtx is taken fairly: a main thread    *)
(* waiting for it gets it between two collections (strong fairness).       *)
FairSpec ==
  Spec /\ SF_vars(MainStep) /\ \A g \in Group : WF_vars(ThreadStep(g))

-----------------------------------------------------------------------------
(* Properties. *)

(* Nobody adds or deletes a collector while the polling thread walks       *)
(* through m_collectors.                                                   *)
CollectorsStayWhileCollecting ==
  [][\A g \in Group : thread[g] = "collecting" /\ thread'[g] = "collecting" =>
       collectors'[g] = collectors[g] /\ g \in instances']_vars

(* The tables want an instance of g. *)
Wanted(g) == g \in askedGroup \/ (asked[g] # {} /\ g \in KnownGroup)

(* Between events every group has an instance, and its thread, exactly     *)
(* where the tables want one, or a counter's event has made it since the   *)
(* last DEL of the group; its collectors and settings are those asked for. *)
(* So an instance goes with its group and its last counter, in any order;  *)
(* but a DEL that comes after both, or a SET for a VID that has no RID,    *)
(* makes it again, and nothing but another DEL of the group removes it.    *)
InstanceAsAsked(g) ==
  /\ g \in instances <=> Wanted(g) \/ g \in made
  /\ g \in instances <=> thread[g] # "none"
  /\ g \in instances =>
       /\ collectors[g] = IF g \in KnownGroup THEN asked[g] ELSE {}
       /\ askedSettings[g].enable # Unset => enable[g] = askedSettings[g].enable
       /\ askedSettings[g].interval # Unset => interval[g] = askedSettings[g].interval
TablesAreHonoured == main = "idle" => \A g \in Group : InstanceAsAsked(g)

(* Not so: no instance is left that nothing in the tables wants.           *)
NoneIsLeft == main = "idle" => \A g \in instances : Wanted(g)

(* "NOTE: explicit unlock before join to not cause deadlock": the main     *)
(* thread gets out of the join.                                            *)
JoinReturns == main = "join" ~> main # "join"

(* The join returns whenever the thread it waits for was collecting or     *)
(* sleeping when it was told to stop.                                      *)
JoinReturnsFromCycle ==
  \A g \in Group :
    main = "join" /\ event.group = g /\ thread[g] \in {"toSleep", "sleeping", "test"}
      ~> main # "join"

=============================================================================
