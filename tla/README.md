# otairedis verification

TLA+ modules, TLC runs and TLAPS proofs for sonic-otairedis: the client library
(`src/lib`), the daemon `syncd` (`src/syncd`), the metadata layer (`src/meta`)
and the virtual vendor library (`src/vslib`).  Every definition is a translation
of the source; `PROJECT.json` maps each of them to its lines.

## The system

A client process calls the OTAI C API.  `lib/` serialises each call, pushes it
into a redis list (the ASIC channel) and waits for the answer.  `syncd` pops the
calls, translates virtual object IDs (VIDs) to the vendor's real ones (RIDs),
calls the vendor library, answers, and records the object in ASIC_STATE, from
which a restarted `syncd` builds all vendor objects again.  The vendor calls back
with alarms, state changes and measurements; `syncd` passes them on to the
client through a redis publish channel and keeps tables of alarms and OTDR
results.  Further threads of `syncd` poll counters into redis.

### Inventory

| component | state it keeps | operations | meets |
|---|---|---|---|
| ASIC channel request handling, `syncd/Syncd.cpp` | `m_linecard`, `m_linecardState`, ASIC_STATE | create, remove, set, get; restart query; linecard state; counter tables | everything, under `m_mutex` |
| VID/RID translator, `VirtualOidTranslator` | `m_vid2rid`, `m_rid2vid`, VIDTORID, RIDTOVID | translate both ways, insert, erase, try | request handling, notifications, collectors |
| Redis access, `RedisClient` | VIDTORID, RIDTOVID, ASIC_STATE hashes | one redis command per call, several per request | all of syncd, survives it |
| Hard reinit, `HardReiniter`, `SingleReiniter`, `OtaiLinecard` | `m_translatedV2R`, `m_translatedR2V` | read ASIC_STATE, create the linecard, create each object after those it names, check | redis, vendor |
| Soft reinit, `SoftReiniter` | none of its own | set every attribute again when the linecard comes back | redis, vendor, translator |
| Linecard state, `Syncd::run`, `handleLinecardState` | `m_linecardState`, notices, the request queue | inactive: drain, remove all counters; active: soft reinit; exit | vendor, notification thread |
| FlexCounter, `FlexCounterManager` | instances, settings, collectors, a thread each | add, remove, poll, stop | main thread, vendor |
| Notification pump, `NotificationHandler`, `NotificationQueue`, `NotificationProcessor` | queue, `m_runThread` | enqueue, signal, wait, dequeue, handle, stop | vendor threads, `m_mutex` |
| Alarm and OTDR tables, `NotificationProcessor` | CURALARM, HISALARM, OTDR tables, scan time queues | raise, clear, keep ten results, reload | redis |
| Performance windows, `syncd/pm` | 15 minute and 24 hour statistics | collect, roll over, validity | FlexCounter, redis |
| Request channel, `lib/RedisChannel`, `lib/RedisRemoteOtaiInterface`, `syncd/RedisSelectableChannel` | two redis lists, the wait | request, answer, timeout | client, syncd |
| Client front, `lib/Otai`, `Context`, `Linecard` | API mutex, initialised flag, linecard, notification thread | initialize, API calls, notifications, uninitialize | client threads, channel |
| VID allocation, `VirtualObjectIdManager`, `RedisVidIndexGenerator`, `VidManager` | VIDCOUNTER | allocate, type of, linecard of | client and syncd |
| Attribute validation, `meta/Meta.cpp` | none kept | check create, remove, set, get | client front |
| Vendor simulator, `vslib` | objects, `m_indexer` | create, remove, set, get | syncd |

### What is hard

* *Crashes.*  One request writes redis in up to six separate commands and answers
  in the middle of them; hard reinit has to make sense of every prefix.
* *Identity.*  A VID outlives the RID it names: RIDs are derived from an ID
  attribute or counted per process, objects are re-created under an ID still in
  use, and two caches and two hashes hold one relation.
* *Threads.*  Polling threads and the notification thread wait on condition
  variables without predicates; two destructors join them.
* *A card that comes and goes.*  The link to the linecard may be lost in any step
  of a reinit; part of the steps throw, part log and go on.
* *Calls without identity.*  Requests carry no number; a late answer meets the
  next call.

What would make each part correct is said as properties below; `PROJECT.json`
lists every hazard at its line with the properties that would catch it.

## Modules

### SyncdAsic: the life of an object in syncd

Models `Syncd` (requests, start, exit), `VirtualOidTranslator`, `RedisClient`,
`HardReiniter`/`SingleReiniter` and the RID allocation of the vendor simulator.
State: the four redis structures (`vidCounter`, `vidToRid`, `ridToVid`,
`asicState`), which survive `ProcessEnds`; the process (`pc`, the two caches,
`linecard`, `translated`, the request in hand); the vendor objects (`hw`,
`indexer`).  Only properties read `hw[..].owner`, for which VID an object was
made, and the answers: `told`, which only a reply changes, and `superseded`, the
objects whose ID a later create was answered SUCCESS for.

An OID is its type and its index.  The attributes of an object are three: `id`
stands for the mandatory and create-only ones, `cfg` for the settable
recoverable ones, `ref` for a create-only attribute that names another object.
A set of an unrecoverable attribute is the set with `cfg = Unset`.  `KeyedType`s
are those whose RID follows from their ID (OCM, OTDR); `IndexedType`s those
whose RID is counted.

Each handler starts with one action that does everything up to its first redis
write (`Create`, `Remove`, `Set`, `GetKnown`, `GetSpotsRid`, `VendorRejects`,
`RequestThrows`), and every redis command and the answer after it is an action:
`EraseVid EraseRid Evict InsertVid InsertRid Reply SaveField DeleteAsicObject`.
No other thread comes between (`m_mutex`, see NotificationPump), but the process
may die there.  `StackGarbage` is what the uninitialised `objectVidOld` of
`processOidCreate` may hold.  `Env` switches the environment's behaviours on.
A restart is `StartReinit`, `ReinitLinecard`, `ReinitObject` per object,
`FinishReinit`, or a throw.

| run | question | bounds | result |
|---|---|---|---|
| asic_requests | do maps, caches, ASIC_STATE, vendor objects, references and answers stay consistent over requests and restarts; does a restart get back to the main loop | 2 IDs, 1 setting, 4 VIDs, keyed types, references, fair | holds |
| asic_torn | are maps and entries of objects torn by a crash ever served | everything in `Env`, both kinds of types, 2 VIDs | holds |
| asic_config | are settable attributes restored | one object | violated |

Two IDs and four VIDs are enough for the interesting cases: an object, another
one with the same ID that evicts it, a third that names or outlives them, and a
VID that a refused create wastes; the crash runs need one object half done and
another to notice.  The remaining
bound, `MaxRidIndex`, only keeps the counted RIDs finite.

An eviction is told to nobody: the evicted VID stays valid in the client until a
request of it throws in syncd.  `RepliesAreSaved` therefore says which objects
may be missing from ASIC_STATE: those with the ID of a later answered create, and
of the types with counted RIDs any that a reused RID took.

If the garbage may be a RID, TLC with `asic_garbage.cfg` refutes
`EvictsOwnerOfRid`: the VID that a create erases is not the owner of the RID.

`TornMapsNeverServed` is about objects and leaves two torn states out, because
syncd serves them.  A client's remove of the linecard erases its maps and throws
before ASIC_STATE; the next start makes the linecard from its entry, and the
`operator[]` at `SingleReiniter.cpp:150` adds the missing VID to the local copy of
VIDTORID, so that `checkAllIds` finds nothing wrong (if the vendor accepts
STOP_PRE_CONFIGURATION on RID 0).  `asic_linecard.cfg` refutes `LinecardWhole` so.
And a hash of which a death let only some fields be written is an entry like any
other.

With `adopts` in `Env` (in `asic_torn`) clients also set attributes of objects
that they know from the answer to a GET only.  Such a set writes an ASIC_STATE
entry without an ID, and a restart makes that object from it with index 0
(`RealObjectIdManager.cpp:92-113`): it takes over the RID of the object with
ID 0.  TLC with `asic_adopts.cfg` refutes `MapNamesTheObject` with this.

`asic_requests` leaves out what is known to break its properties.  With counted
RIDs (`IndexedType`) a restart gives objects other RIDs and nothing rewrites
VIDTORID (`MapNamesTheObject` fails, as the NOTE at `OtaiLinecard.cpp:12-14`
fears).  A GET of an unknown RID leaves a VIDTORID field that no ASIC_STATE entry
belongs to, and a crash between the VIDTORID and the ASIC_STATE write does the
same: `checkAllIds` throws at every later start.  A removed object that another one
names makes `processSingleVid` throw.  `RestartSucceeds` excludes those databases,
and `asic_torn`, where all of this happens, asks only that syncd does not serve
from them.  The fairness is that a started syncd goes on, and that a dead one is
started.

### FlexCounter: polling threads and the tables

One instance with one thread per group.  The main thread pops an event, finds or
creates the instance (`PopEvent`), applies it under the instance's mutex, and
destroys the instance where `isDiscarded`; `removeAllCounters` destroys all.
The thread is the loop of `flexCounterThreadRunFunction`, split where it locks,
unlocks and starts to wait.  A notification moves a thread only if it is
already waiting: that is the whole of `NotifyPoll` and `StopThread`.

| run | question | bounds | result |
|---|---|---|---|
| flex_tables | do collectors, settings and instances follow the tables in any order of events, but for the instances that a late counter event makes again; can a thread be joined out of a cycle | 2 groups, one unknown, 1 VID, 2 intervals, fair | holds |

Fairness: every thread is scheduled (WF); the main thread's steps are strongly
fair, because it waits for a mutex that the polling thread gives back before
each sleep of at least one millisecond (`correction` is between 1 and the
interval).  Events need not arrive.  TLC with `flex_join.cfg` refutes `JoinReturns`: a
stop between the thread's look at its condition and its wait is lost, and the
destructor's join does not return.  The same wait loses the notification that
should start a group.

`TablesAreHonoured` compares the instances with what the events asked for
(`askedGroup`, `askedSettings`, `asked`, cleared by removeAllCounters).  It has
one exception, `made`: every call of the manager begins with `getInstance`, so the
DEL of a counter, or the SET of one whose VID has no RID, that arrives after the
group and its counters are gone creates the instance and its thread again, with
`m_isDiscarded` false, and only another DEL of the group removes it.
`flex_left.cfg` (`NoneIsLeft`) lets TLC show such an instance.

### NotificationPump: from the vendor's callback to the handler

Vendor threads enqueue and then signal, in two steps, as soon as a create of the
linecard registered the callbacks.  The processing thread tests `m_runThread`,
waits, dequeues and handles under `m_mutex`.  The main thread reinitialises,
starts the thread, serves requests under `m_mutex` (the create of the linecard
step by step, as the vendor may call back before the maps are written and the
process may die between the maps and ASIC_STATE), and stops the thread.  What a
handler does with a notification is left out, but for the one thing that ends
the process: a linecard state change, or the spectrum of an OCM that has a VID,
throws when its linecard has none.

Callbacks are registered by a create of the linecard, and a start creates the
linecard again where ASIC_STATE has it (`saved`), whether the maps do or not
(`mapped`).  The two differ after a death between the writes, which checkAllIds
notices, and after a client's remove of the linecard, which erases the maps and
then throws.  The start after that remove sets STOP_PRE_CONFIGURATION on the RID
0 that `m_vidToRidMap[...]` has just inserted; a vendor that accepts this lets
syncd come up with callbacks and no maps, and the first linecard notice ends the
process.  `NeverThrows` says this is the only way (`erased`).

| run | question | bounds | result |
|---|---|---|---|
| ntf_order | is every notification handled once, in order; can it throw before a client removed the linecard; does an awake thread empty the queue | 2 vendor threads, 3 notifications, one restart anywhere, fair | holds |

That every queued notification is handled does not hold, and no run asks for it:
`queue # <<>> ~> queue = <<>>` fails on a signal between the last look into the
queue and the wait, the defect `flex_join` shows in FlexCounter.

Fairness: threads are scheduled (WF); the processing thread gets `m_mutex` in the
end (SF), because the main thread releases it and waits in `select` between
requests.  Callbacks, requests and the shutdown need not come.  This run does not
check for deadlock: the process ends.

### SyncCall and ApiChannel: a call from the client to syncd and back

`SyncCall` is the promise of a synchronous API: one call at a time, each takes
effect at most once and before it returns, and a status other than the
channel's FAILURE is the one with which this very call took effect.
`ApiChannel` is the code: the API mutex, the two redis lists, `RedisChannel::wait`
(which empties the list of answers and keeps the newest), the timeout, `syncd`'s
consumer, which takes several requests at once, and everything that loses
requests: exits, the unknown stats requests, the drain when the linecard goes
inactive.  Calls are numbered for the properties only; the code has no numbers.
Timeouts, crashes of syncd and restarts of the client may come at any moment.
`abandoned` records that a call was given up while its answer was under way:
from then on answers belong to the wrong calls (TLC with `chan_late.cfg`
refutes `AnswersAreOwn`) and
`SyncCall` promises nothing; the other properties still hold.

| run | question | bounds | result |
|---|---|---|---|
| chan_call | is a request ever executed twice or overtaken, a leftover answer preferred to the own one; does every call return; is the channel a SyncCall until a call is abandoned | 2 threads, 4 calls, fair | holds |

Four calls let two leftovers meet two later calls, with a crash between.
Fairness: `select` returns when there is an answer and at the timeout; a running
`syncd` goes on and a dead one is started again.  That syncd's consumer fetches
several requests at once, and that its `empty()` looks at those, is library
behaviour taken from the comment at `Syncd.cpp:1096-1102`; how many is left open.

### ClientApi: initialize, notifications, the end

The API mutex, `m_apiInitialized`, the contexts with a notification thread each,
`m_linecard`.  A call holds the mutex until it returns (ApiChannel has its
inside).  A notification is taken by the thread of every open channel, looked up
under the mutex, and its callback runs without it and may call the API.

A create of the linecard may time out before or after syncd did it; in the first
case syncd may do it later, or lose the request (`late`).  Either way the client has
no `m_linecard` for a linecard whose notifications arrive, and drops them; so it is
after a remove that was answered SUCCESS.  syncd throws before it answers such a
remove (`Syncd.cpp:658`), so this needs a late answer, and `RemoveReturns` may take
one or not.  `abandoned` records these contexts, which the delivery property leaves
out: that their notifications are lost is what the code does, and a user of the
library must know it.

| run | question | bounds | result |
|---|---|---|---|
| api_notify | does a notification raised inside or after the linecard's create reach the callbacks, but for contexts that gave the linecard up; does the destructor at the process end return | 2 threads, 2 contexts, 3 notifications, fair | holds |

Not so an initialize after an uninitialize: it destroys the old context, and joins
its thread, under the mutex that the thread takes for each notification
(`Otai.cpp:67` and 299), and the model's `\A a \in Thread : app[a] = "join" ~>
app[a] = "idle"` fails with one thread, two contexts and one notification.

Fairness: calls return (`CallsReturn`), threads are scheduled, the notification
thread gets the mutex in the end, a callback does not call the API for ever.

### NotificationTables: alarms, events and OTDR results

What the processing thread does with alarms and OTDR results, one redis command
or one group of commands to one entry per step, with the vendor, the
application's renames and a crash between any two.  A notification's number is
its time.  An alarm's key is the resource's name, `"unnamed"` standing for the
empty one that resources of an alarm type share.  `HISEVENT`, the expiry of the
histories and the text of the entries carry no property.  The reload's set of scan times, which the C++ set keeps in order,
is `Sorted`: the one sequence that lists it and grows.

When the linecard goes INACTIVE or ACTIVE the callback itself, in the vendor's
thread and without `m_mutex`, raises or clears syncd's own alarm SLOT_COMM_FAIL of
the linecard (`CardFail`), and on INACTIVE calls `m_curalarmtable->flush()` under the
comment "flush all current alarms" (`NotificationHandler.cpp:288-295`).  `Table` is
swss-common's, which is not in the repository, and `Syncd.cpp:1051` calls the same
`flush()` on a table whose entries it wants to keep.  `LinecardInactive` therefore
does either: it empties CURALARM, as the comment says, or leaves it, and it may fall
between any two steps of a handler.  Where it empties, alarms that are on are gone
without a record until the vendor reports them again: `flushed` notes their keys,
and both properties of the alarms name this exception.  One linecard is assumed,
so one key in its table.  `tryTranslateRidToVid` looks its uninitialised `vid` up
first (`VirtualOidTranslator.cpp:41`); here it finds nothing, while a `vid` that
happened to be a RID would name another resource (SyncdAsic models that garbage).

| run | question | bounds | result |
|---|---|---|---|
| ntf_tables | are the current alarms those that are on, but for a flush; does a crash lose one between the tables; are old OTDR results deleted, also after a reload | 2 resources (one the linecard), 1 OTDR, 4 notifications, 2 queued, 1 event, 1 result kept, 1 crash | holds |

Four notifications raise, repeat, clear and raise again an alarm, or push out
three results; one crash may fall into each of the steps between.  The code keeps
ten results; one is enough to delete before and after the reload.  There is no fairness: all
properties are about safety.  `CurrentIsActive` leaves out resources whose name
changed under an alarm: without this premise TLC finds it violated (an alarm
raised under the empty name is not found under the new one).  There is no
property about the events of deleted results, since it would not hold: a crash
between the deletion of a result and of its events leaves the events for ever, as
`initOtdrScanTimeSet` looks at results only.  Not in the model, seen while reading: the last events of a longer earlier
result stay under `CURRENT` (`NotificationProcessor.cpp:331`), and the pattern at
369 also matches longer scan times with the same beginning.

### PmWindows: quarters and days

A collector's rounds, each with `updateTimeFlags` and one read per entry that
succeeds or fails, at any minutes of a clock whose quarter has two minutes and
whose day has four.  What accumulates reads is the set of these reads (each its
round and minute): it stands for the accumulated statistic and for a gauge's
maximum, minimum and average, which begin anew and accumulate at the same points.  `kind` tells the
two collectors apart where they differ: statistics of an object share the hash
of a window, gauges have one each.  `failures` and `rounds` are what the
properties compare with.

| run | question | bounds | result |
|---|---|---|---|
| pm_windows | is a read ever lost or in two windows; is a complete record all of its window | 2 entries, 2 quarters a day, 2 days and the begin of a third, 4 rounds | holds |

A collector may begin on the first minute of a day or in the middle of a quarter;
4 rounds cross a quarter and a day with a failed read on the way (5 were checked
once, too: 2 million states).  No fairness.  Minutes may pass
without a round; a missed first minute merges two windows, which the properties
name in their premise (`SeenBegin`).  Without it, and for statistics other than
the last of a hash, TLC finds records called complete that are not.  The first
record of a collector is complete although it begins in the middle of a window;
what was counted before the constructor's first read (`OtaiStatCollector.cpp:51`)
is in no record; both are outside the properties.  The clock only goes forward.

### ObjectIds, MetaChecks, MetaApi: what a call must pass, and the IDs it gets

`ObjectIds` is the arithmetic of `VirtualObjectIdManager`: a VID is a type, a
linecard index and an object index in bit fields, whose sizes are parameters.
`MetaChecks` is `meta/Meta.cpp` as predicates on a call: arguments, attribute
flags, values by value type, object references and lists, mandatory and
conditional attributes.  The metadata is generated outside this tree and is a
parameter, too.  Like the code, the checks ask the ID itself what it names and
keep no table of objects.  A value is a list; that of a scalar attribute has one
entry (`ScalarsAreOne`), as the C union holds one.  Three places in the code are easily misread: the
types of a list's entries are compared from the third entry on
(`Meta.cpp:1461`), an enum list is never looked at (the loops at 742 and 1073
start at its end), and conditions are not asked again by a set.

`MetaApi` puts them together: a call that passes reaches `syncd`, or is lost
there, or its answer is; a create takes a VID from VIDCOUNTER, which `syncd`
shares; the client keeps the linecard's notification pointers.  Of `syncd` there
is what it can translate (`known`: VIDTORID, with the VIDs a GET made it
allocate), ASIC_STATE (`store`), and what it has still to write there after its
answer, field by field (`job`); it may die before any of these fields, and starts
again where `checkAllIds` lets it.  `patched` are entries that no single create has
written: left half by a death, or made by a set of a VID that only a GET gave.
`unsure` says that an answer about the linecard was lost or its save cut short.

| run | question | bounds | result |
|---|---|---|---|
| meta_calls | is an ID given twice, or read as another object's; does a reference ever name a wrong type or another linecard; does an object lack an attribute its values require; do client and syncd agree on the pointers | linecard and 2 types, 9 attributes in all, indexes to 2, lists to 3 | holds |

The calls are all creates with up to two of these attributes, good and bad
values of each, and sets, gets, removes and statistics of existing, missing,
null and malformed IDs.  Two indexes let the counter reach its end, after which
every allocation throws.  Both clients of the counter take part.  No fairness.
`ObjectsStayComplete` is about mandatory attributes and about conditions on
create-only ones: a set does not ask for conditions, so one on a settable
attribute can be broken, and generated metadata may have one.  An answer is the
call's own here (ApiChannel has late ones), and of a restart only `checkAllIds` is
looked at (SyncdAsic has the rest).

### CardState: the link to the card, soft reinit, restarts

The card forgets what was set when its link is lost, and refuses every call
until it is back.  `Raise` is the vendor's callback: the change goes to
`m_notificationQueue` and `m_cv` is signalled; `Forward` is the processing thread
publishing it for `m_linecardStateNtf`, which has been subscribed since the
constructor, so from there nothing is lost.  Both are one sequence, `notices`, of
which `passed` are published.  The thread waits before it first looks at its
queue, so `ntf` has a state `"late"` in which a signal goes to nobody: the change
stays queued until some other notification signals (`OtherSignal`, without
fairness).  `handleLinecardState` pops one change per round of the main loop.
INACTIVE removes all counters and drops what is queued without an answer
(`Syncd.cpp:1074-1078`); ACTIVE runs `SoftReiniter`, one attribute per step: start of
the pre-configuration, board mode, linecard, objects, stop, counters.  A start is
`WaitLinecardStateActive` and `HardCreate`, and then the same steps with `hard`
set: it replaces the pointers, creates the objects where the soft one sets their
attributes, and ends with `CheckAllIds`.  Where the code throws the process ends
(`Exit`); where it logs, the attribute stays unset.  A request is two steps,
`HandleRequest` up to the reply (card and maps) and `Save` (ASIC_STATE), and the process can be
killed in between.  `db` is ASIC_STATE, `card` what is set in the card;
`subscribed`, `left` and `missed` are for the properties.

| run | question | bounds | result |
|---|---|---|---|
| card_state | once all is settled, does the card have the values of ASIC_STATE and the counters their collectors; does syncd end up serving if the link stays | 1 object, 2 values, 2 losses, 2 requests, 2 exits, fair | holds |
| card_pointers | does the card only ever hold syncd's handlers | 1 object, 1 value | violated |

Two losses put one into any step of the reinit that the other caused, two exits
let the process die in the reinit and in the restart after it, and two requests
create and set, or change, around it.  Fairness: the main thread and the processing
thread go on (WF), and the linecard's notices are handled whatever requests
come.  The run does not check for deadlock: all bounds can be used up.

`CardComesBack` says how the good end can be missed: for ever a change in the
queue whose signal was lost and no other notification (`Unsignalled`; TLC finds
the run without that disjunct violated), or a death between a reply and its save,
after which every start ends in `checkAllIds` (`Torn`, likewise).
`ConfigRestored` excepts what a loss within the hard reinit takes away before the vendor
has the handler to tell it by (`missed`), as long as no later loss makes
for a soft reinit: the board mode may then be unset while syncd serves, as
its failure is only logged; and the objects' attributes that hard reinit leaves
unset (`left`, see `asic_config`).

Assumed of the vendor: it refuses everything while the link is down and takes,
while it is up, what it took before; it raises every change of the link once, in
order, from when the pointer for it is set.  Assumed of the client: its linecard
has that pointer.  Simplified: the notification queue is below its limit (see
NotificationPump); the ten minutes a board mode may take; batches of the consumer; a
linecard that is not yet in ASIC_STATE; an attribute per object.
Seen while reading, and not in the model:
`SoftReiniter` gives OID attributes to the vendor without translating them
(`SoftReiniter.cpp:260-327`); `FlexCounterReiniter.cpp:51` warns that a counter without a
RID is removed, but it is added, with an uninitialised RID.

## Proofs

Eight modules hold theorems; each is for every value of the constants that the
named assumptions (`...Assumption` in the model's module) allow.  Every
invariant is proved with one step per action, and the temporal step is PTL.

**SyncdAsic_proofs.**  `TypeCorrect`; `CachesStayCoherent`, which is
unconditional: crashes, refusing vendors and garbage on the stack included;
`OnlyOwnEntryEverGoes`, unconditional as well: with crashes and torn databases,
too, the entry that an eviction deletes is one of the RID it gives away, or one
cached under the RID that the garbage happens to be;
`TornMapsAreNeverServed`, assuming only that the uninitialised variable never
holds a RID (`StackGarbage \cap Rid = {}`); `InverseMapsAlways`, assuming also
that syncd does not die inside a request (`"crashAnywhere" \notin Env`);
`RepliesAreSavedAlways`, assuming also that the linecard is not removed;
`MapNamesTheObjectAlways`, about objects with keyed RIDs, assuming all of these
and that clients set only what they created (`"adopts" \notin Env`).
`asic_garbage.cfg` shows what happens without the first, `asic_linecard.cfg` with
a removed linecard, `asic_adopts.cfg` without the last; `asic_torn` checks
TornMapsNeverServed with deaths inside requests and removed linecards.

The argument is in layers.  `State` is the type invariant
with what each `pc` implies about `req`, `rid`, `vid` and `left` (which request is in
hand, that its VID has the type of its RID), without which the redis steps
cannot even be typed.  `CacheInv` says a cache entry equals the redis field, or
is the one the pending insert or erase is about to change.  `FreshInv` says VIDs
above VIDCOUNTER occur nowhere, so a create or a spotted RID never meets an old
entry.  `MappedInv` says which saved objects have a RID.  These four (`Sound`) hold
whatever the garbage; without garbage that is a RID `RedisInv` adds, step by step,
which of the two maps may lack which entry for the object in hand, and that what
a crash leaves is consistent or torn in a way that hard reinit notices (`Good`).
`LinecardInv` says that without a linecard nothing but its create can be in hand,
and that hard reinit makes no object before it.  TornMapsNeverServed is not
inductive by itself: the step that ends a request needs to know what the steps
before it wrote, and the step that ends hard reinit that a torn object cannot
have been `translated`.  `InverseInv` adds, for each direction, which entry is
missing while a request is between its two map writes; `SavedInv` that a create
finds no old entry and that the linecard's entry has its RID (`LinecardSaved`).
`OwnInv` survives crashes and garbage: the RID of an object is that of its ID
(`IdGivesRid`), RIDTOVID may outlive VIDTORID but never contradicts it
(`NamesItsOwn`), and the VID about to be evicted is of the type and ID of the new
object, or is where the garbage led (`OwnJob`, `Strayed`).

`RepliesInv` relates ASIC_STATE to the answers while a create is evicting an
object nobody has told the client about: what is saved is what was told
(`SavedAsTold`); what was told of an object with an ID is saved, but for the
object in hand and those that the create in hand replaces (`ToldKept`); those it
has replaced are gone for ever (`SupersededGone`), because what is gone has no RID,
so that no later request can be translated (`GoneUnmapped`); a new VID was never
told of (`ToldFresh`); and where the reply is out and the entry half written, the
two differ by `left` (`HalfTold`).  `NamesInv` adds that the vendor object of a RID was made for
its VID with the references of its entry (`ObjectsMade`), likewise for the one
being created (`NewObject`); that every entry has its ID once its create has saved
it (`IdsGiven`); that references are to VIDs already given (`RefsCounted`), so
that a new VID is referred to by nobody; and that what a restart has created
again is what the maps say (`RestoredOK`).

**MetaApi_proofs.**  `NoIdTwiceAlways`, `IdsTellAlways`, `ReferencesFitAlways`,
`PointersInStepAlways`, `MetaApiTypeCorrect`, `ObjectsStayCompleteAlways`, from
`SizeAssumption`, `MetadataAssumption` and `CallAssumption`.  The IDs rest on two facts of division with remainder and on
the counter being the number of the last index; the references on the checks
reading type and linecard out of the ID, which the ID's construction justifies.
`JobInv` is what `syncd` has still to write; `PointerInv` says which of the pointers
will be in the entry once it has; `CompleteInv`, that what is written and what is
to come of a create are complete together (`Merged`).

**CardState_proofs.**  `TypeCorrect`, `CountersBackAlways`,
`ConfigRestoredAlways`, from `CardAssumption`.  `ConfigInv` has five parts:
`MapsInv`, ASIC_STATE has the objects that have a RID, but for the request being
saved; `LossTold`, if the link is down then the last notice says INACTIVE, or
syncd knows, or nobody could tell yet (`missed`); `Stopped` and `UnsavedSet`, about the
pre-configuration and what was executed and not saved; `Progress`,
what each step of the reinit has restored unless such a notice is ahead.
`LossTold` is what makes a loss in the middle harmless: another reinit follows.

**NotificationPump_proofs.**  `TypeCorrect`, `FirstInFirstOutAlways`,
`HandlerExcludesRequestsAlways`, `NeverThrowsAlways`.  `MutexInv` says who is
where in the code with `m_mutex`, `MappedInv` that the linecard is mapped
whenever the mutex is free and a linecard notice can exist, unless a client has
removed it, and that ASIC_STATE has it only if the maps do, with the same
exception, which is what a restart needs.

**ClientApi_proofs.**  `TypeCorrect`, `ThreadEndsBeforeContextAlways`,
`QuickNotificationsAlways`.  `ContextInv` relates threads, contexts and the
joins; `NotificationInv` says a notification of a linecard exists only when its
create is under way, under the mutex, or done, or given up.

**FlexCounter_proofs.**  Of FlexCounter: `TypeCorrect`, `TablesHonouredAlways`,
`CollectorsStay`.  `MainInv` says what the main thread has yet to do to the
instance of the event in hand, `InstanceInv` that all others are as asked: an
instance that is not discarded has a group, or was made by a counter's event, or
is about to get its group's event.  Of
PmWindows: `WindowsTypeCorrect`, `NothingLostOrDoubledAlways`,
`CompleteIsWholeAlways`, for every number of statistics, rounds and minutes and
every length of the windows, from `EntryAssumption` and `TimeAssumption`.  They
rest on lemmas about division: the window of a minute grows with the minute, and
a minute at the begin of a window precedes no other minute of an earlier one.
`RoundsInv` says where the counters are; `WindowInv`, what an open window
has and, in a round that ends it, that an entry still to be read has nothing of
the new window (`Ending`); `RecordInv`, that between a record and the next one no
round fell on the begin of a window (`NoneBetween`); `KeptInv` is
`NothingLostOrDoubled` read by read.

**ApiChannel_proofs.**  `TypeCorrect`, `AtMostOnceInOrderAlways`,
`OwnAnswerPreferredAlways`, and `ImplementsSyncCall`: the channel's
specification implies SyncCall's under the refinement mapping.  `OrderInv` orders
what is executed before what is queued; `PromiseInv` says that until a call is
abandoned everything in redis and in syncd belongs to the holder of the mutex.
A `Send` is a `Call`, the execution an `Effect`, an answer taken or a timeout a
`Return`, the client's restart a `Restart`; all other steps stutter.

**NotificationTables_proofs.**  `CurrentIsActiveAlways`,
`RecordedBeforeGoneAlways`, `TablesTypeCorrect`, `NothingForgottenAlways`.  `AlarmInv` says the last queued notification of an
alarm tells whether it is on (`QueueTells`), CURALARM tells when none is queued
(`TableTells`), the key of the unnamed stays absent (`UnnamedAbsent`), and a clear half done
has recorded (`StepInv`).  `HistoryInv` is about the OTDR results: times grow, none
is queued twice, and the queue of scan times is what redis has, ahead or behind
by the result in work.  That the reload finds all of them rests on a lemma: every
finite set of numbers has a sorted sequence, which `Sorted` chooses.

Model-checked only: liveness and what rests on fairness, out of the prover's
reach (`RestartSucceeds`, `JoinReturnsFromCycle`, `DrainsOnceAwake`, `CallsReturn`,
`ExitReturns`, `CardComesBack`).  Every other property that a run checks is a
theorem.
## Plan

Done, most important first: SyncdAsic; FlexCounter and NotificationPump; SyncCall
and ApiChannel; ClientApi; NotificationTables; PmWindows; CardState; ObjectIds,
MetaChecks and MetaApi; the proofs above.

Left:

1. NotificationTables: the OCM table and the APS switch table.
2. PmWindows: OtaiAttrCollector, and the clock set back.
3. CardState composed with FlexCounter's instances, whose destructors join threads
   in `removeAllCounters`.
4. Lock order: `m_mutex`, the manager's, the collectors', the translator's and the
   vendor wrapper's mutexes in one graph.
5. An object store that SyncdAsic implements between requests, as abstract
   specification and refinement.
6. Proofs: only properties under fairness are without one; the object store of 5
   would bring a refinement to prove.

## Not modelled

Serialisation (its metadata tables are generated outside this tree), the
forwarding tables, option parsing, logging, packaging, the tests and the vendor
wrapper (a mutex that makes vendor calls atomic, as they are here).
Of FlexCounterReiniter only the keys it adds are modelled,
in CardState.  PROJECT.json gives the reason per component.
