------------------------------ MODULE PmWindows ------------------------------
(***************************************************************************)
(* The performance windows of a collector (OtaiStatCollector and           *)
(* OtaiGaugeCollector): each read of a statistic goes into a window of 15  *)
(* minutes and one of 24 hours; when a window is over it moves to the      *)
(* history with a validity.  A window is told by its number, the time      *)
(* divided by its length.  The set of the reads stands for what            *)
(* accumulates them: the value of a statistic, the maximum, minimum and    *)
(* average of a gauge.  The names are such that a module can extend this   *)
(* one and FlexCounter, whose threads call collect.                        *)
(***************************************************************************)
EXTENDS Naturals

CONSTANTS
  Entry,           \* the statistics, 1 .. n, in the order they are read
  MinutesPer15Min, \* 15
  MinutesPerHour,  \* 60
  HoursPerDay,     \* 24
  FirstMinute,     \* when the collector may be created; time counts from 1970
  LastMinute,      \* bound: the clock
  MaxPolls         \* bound: calls of collect

ASSUME EntryAssumption == Entry # {} /\ \A e \in Entry : e \in Nat \ {0} /\ 1 .. e \subseteq Entry
ASSUME TimeAssumption ==
  /\ MinutesPer15Min \in Nat \ {0} /\ MinutesPerHour \in Nat \ {0} /\ HoursPerDay \in Nat \ {0}
  /\ FirstMinute \subseteq MinutesPer15Min .. LastMinute
  /\ FirstMinute \subseteq (MinutesPerHour * HoursPerDay) .. LastMinute
  /\ LastMinute \in Nat /\ MaxPolls \in Nat

Cycle == {"15min", "24hour"}
Minute == 0 .. LastMinute
Window == 0 .. LastMinute
Hours(m) == m \div MinutesPerHour
WindowOf(c, m) == IF c = "15min" THEN m \div MinutesPer15Min ELSE Hours(m) \div HoursPerDay

None == 0

(* A read: the round and the minute it is made in. *)
Read == (1 .. MaxPolls) \X Minute

(* A collector of statistics keeps all of an object in one hash, with one  *)
(* starttime and one validity; a collector of gauges has a hash for each.  *)
Kind == {"stat", "gauge"}

VARIABLES
  kind,     \* the kind of the collector
  minute,   \* the clock
  polls,    \* calls of collect so far
  exists,   \* whether the collector exists
  counter,  \* m_counter15min and m_counter24hour
  timeout,  \* m_timeout15min and m_timeout24hour
  next,     \* the entry that collect reads next, None outside of it
  total,    \* m_accvalue: all reads of each entry
  window,   \* m_accvalue15min, m_accvalue24hour; m_statvalue15min, ...
  current,  \* redis, counters: the value of each open window
  history,  \* redis, history: value and validity
  rounds,   \* the minutes in which collect was called
  failures  \* the reads that failed after one that did not: entry and minute

clock  == <<minute, polls>>
flags  == <<counter, timeout>>
seen   == <<rounds, failures>>
pmVars == <<kind, clock, exists, flags, next, total, window, current, history, seen>>

Hash == Entry \cup {None}
HashOf(e) == IF kind = "stat" THEN None ELSE e

PmTypeOK ==
  /\ kind \in Kind
  /\ minute \in Minute /\ polls \in 0 .. MaxPolls
  /\ exists \in BOOLEAN
  /\ counter \in [Cycle -> Window] /\ timeout \in [Cycle -> BOOLEAN]
  /\ next \in Entry \cup {None}
  /\ total \in [Entry -> SUBSET Read]
  /\ window \in [Entry \X Cycle -> [init : BOOLEAN, start : Window, reads : SUBSET Read, failed : BOOLEAN]]
  /\ current \in [Entry \X Cycle -> [shown : BOOLEAN, start : Window, reads : SUBSET Read]]
  /\ history.value \in [Entry \X Cycle \X Window -> [saved : BOOLEAN, reads : SUBSET Read]]
  /\ history.complete \in [Hash \X Cycle \X Window -> BOOLEAN]
  /\ rounds \subseteq Minute
  /\ failures \subseteq Entry \X Minute

NewWindow == [init |-> TRUE, start |-> 0, reads |-> {}, failed |-> FALSE]
NotShown == [shown |-> FALSE, start |-> 0, reads |-> {}]

(* The memory of a collector just made. *)
Fresh ==
  /\ counter' = [c \in Cycle |-> 0]
  /\ timeout' = [c \in Cycle |-> FALSE]
  /\ next' = None
  /\ total' = [e \in Entry |-> {}]
  /\ window' = [k \in Entry \X Cycle |-> NewWindow]
  /\ rounds' = {}
  /\ failures' = {}

PmInit ==
  /\ kind \in Kind
  /\ minute \in FirstMinute /\ polls = 0
  /\ exists = TRUE
  /\ counter = [c \in Cycle |-> 0]
  /\ timeout = [c \in Cycle |-> FALSE]
  /\ next = None
  /\ total = [e \in Entry |-> {}]
  /\ window = [k \in Entry \X Cycle |-> NewWindow]
  /\ current = [k \in Entry \X Cycle |-> NotShown]
  /\ history = [value |-> [k \in Entry \X Cycle \X Window |-> [saved |-> FALSE, reads |-> {}]],
                complete |-> [k \in Hash \X Cycle \X Window |-> FALSE]]
  /\ rounds = {}
  /\ failures = {}

-----------------------------------------------------------------------------
(* A minute goes by, with or without a round of collect. *)
Tick ==
  /\ minute < LastMinute                                        \* bound
  /\ next = None
  /\ minute' = minute + 1
  /\ UNCHANGED <<kind, polls, exists, flags, next, total, window, current, history, seen>>

(* The collector is deleted with its keys, or the process dies and leaves  *)
(* them.                                                                   *)
DeleteCollector ==
  /\ exists /\ next = None
  /\ exists' = FALSE
  /\ current' = [k \in Entry \X Cycle |-> NotShown]
  /\ Fresh
  /\ UNCHANGED <<kind, clock, history>>

ProcessDies ==
  /\ exists
  /\ exists' = FALSE
  /\ Fresh
  /\ UNCHANGED <<kind, clock, current, history>>

CreateCollector ==
  /\ ~exists
  /\ exists' = TRUE
  /\ UNCHANGED <<kind, clock, flags, next, total, window, current, history, seen>>

-----------------------------------------------------------------------------
(* A round of collect. *)

(* The first minute of a quarter, the first hour of a day. *)
AtBegin(c, m) ==
  IF c = "15min" THEN m % MinutesPer15Min = 0 ELSE Hours(m) % HoursPerDay = 0

IsOver(c) == counter[c] = 0 \/ (AtBegin(c, minute) /\ WindowOf(c, minute) > counter[c])

(* updateTimeFlags.  The first call sets the counters to the windows that  *)
(* the collector begins in the middle of.                                  *)
UpdateTimeFlags ==
  /\ exists /\ next = None
  /\ polls < MaxPolls                                           \* bound
  /\ polls' = polls + 1
  /\ timeout' = [c \in Cycle |-> IsOver(c)]
  /\ counter' = [c \in Cycle |-> IF IsOver(c) THEN WindowOf(c, minute) ELSE counter[c]]
  /\ next' = 1
  /\ rounds' = rounds \cup {minute}
  /\ UNCHANGED <<kind, minute, exists, total, window, current, history, failures>>

(* Mutant of Advance: the round does not end at the last entry. *)
AdvancePast == next' = next + 1

Advance == next' = IF next + 1 \in Entry THEN next + 1 ELSE None

(* Mutant of Failed: only the window of the day counts the failure. *)
FailedToday(w) ==
  [k \in Entry \X Cycle |->
     IF k = <<next, "24hour">> THEN [w[k] EXCEPT !.failed = TRUE] ELSE w[k]]

Failed(w) ==
  [k \in Entry \X Cycle |-> IF k[1] = next THEN [w[k] EXCEPT !.failed = TRUE] ELSE w[k]]

(* getStats fails: both windows count it, a flag of this round is gone.    *)
ReadFails ==
  /\ next # None
  /\ window' = Failed(window)
  /\ failures' = IF total[next] = {} THEN failures ELSE failures \cup {<<next, minute>>}
  /\ Advance
  /\ UNCHANGED <<kind, clock, exists, flags, total, current, history, rounds>>

(* Mutant of Updated: the window that begins keeps the reads. *)
UpdatedWithoutReset(c) ==
  LET w == window[next, c] IN
  IF w.init \/ timeout[c]
    THEN [init |-> FALSE, start |-> counter[c], reads |-> w.reads \cup {<<polls, minute>>}, failed |-> FALSE]
    ELSE [w EXCEPT !.reads = @ \cup {<<polls, minute>>}]

(* The window of cycle c after a read. *)
Updated(c) ==
  LET w == window[next, c] IN
  IF w.init \/ timeout[c]
    THEN [init |-> FALSE, start |-> counter[c], reads |-> {<<polls, minute>>}, failed |-> FALSE]
    ELSE [w EXCEPT !.reads = @ \cup {<<polls, minute>>}]

Saves(c) == timeout[c] /\ ~window[next, c].init

(* The history after updatePeriodicValue of both cycles: a window that is  *)
(* over is saved under its start, complete unless a read of it failed.     *)
Saved ==
  [value |->
     [k \in Entry \X Cycle \X Window |->
        IF k[1] = next /\ Saves(k[2]) /\ k[3] = window[next, k[2]].start
          THEN [saved |-> TRUE, reads |-> window[next, k[2]].reads]
          ELSE history.value[k]],
   complete |->
     [k \in Hash \X Cycle \X Window |->
        IF k[1] = HashOf(next) /\ Saves(k[2]) /\ k[3] = window[next, k[2]].start
          THEN ~window[next, k[2]].failed
          ELSE history.complete[k]]]

(* getStats succeeds: updateCurrentValue and updatePeriodicValue.          *)
(* What changed is written to redis.                                       *)
ReadSucceeds ==
  /\ next # None
  /\ total' = [total EXCEPT ![next] = @ \cup {<<polls, minute>>}]
  /\ window' = [k \in Entry \X Cycle |-> IF k[1] = next THEN Updated(k[2]) ELSE window[k]]
  /\ current' = [k \in Entry \X Cycle |->
       IF k[1] = next
         THEN [shown |-> TRUE, start |-> window'[k].start, reads |-> window'[k].reads]
         ELSE current[k]]
  /\ history' = Saved
  /\ Advance
  /\ UNCHANGED <<kind, clock, exists, flags, rounds, failures>>

PmNext ==
  \/ Tick \/ DeleteCollector \/ ProcessDies \/ CreateCollector
  \/ UpdateTimeFlags \/ ReadFails \/ ReadSucceeds

PmSpec == PmInit /\ [][PmNext]_pmVars

-----------------------------------------------------------------------------
(* Properties. *)

(* "we need to accumulate the result in each collection cycle": no read is *)
(* lost or counted twice.  What a collector read since it exists is what   *)
(* its records of the history and its open window hold, each read in one   *)
(* of them, for either cycle, whatever reads failed at the end of a        *)
(* window.                                                                 *)
Since(c) == {s \in Window : \E m \in rounds : s >= WindowOf(c, m)}
NothingLostOrDoubled ==
  \A e \in Entry, c \in Cycle :
    LET open == window[e, c].reads
        past == Since(c) \ {window[e, c].start}
        Record(s) == history.value[e, c, s].reads
    IN  /\ total[e] = open \cup UNION {Record(s) : s \in past}
        /\ \A s \in past : Record(s) \cap open = {}
        /\ \A s, t \in past : s # t => Record(s) \cap Record(t) = {}

(* A record that is called complete holds all reads that the collector     *)
(* made in the window it is named after, and no other, and none of them    *)
(* failed, when there was a round at the begin of the next window.  In a   *)
(* hash of statistics the validity is the last one's.                      *)
SeenBegin(c, w) == \E m \in rounds : WindowOf(c, m) = w /\ AtBegin(c, m)
CompleteIsWhole ==
  \A e \in Entry, c \in Cycle : \A s \in Since(c) :
    /\ history.value[e, c, s].saved /\ history.complete[HashOf(e), c, s]
    /\ kind = "gauge" \/ e + 1 \notin Entry
    /\ SeenBegin(c, s + 1)
    => /\ history.value[e, c, s].reads = {r \in total[e] : WindowOf(c, r[2]) = s}
       /\ \A q \in Minute : WindowOf(c, q) = s => <<e, q>> \notin failures

=============================================================================
