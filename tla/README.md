# SunReye: specification and proofs

SunReye's server polls a solar inverter, records what it reads, shows it, and — when the user
asks for it — steers the plant: it borrows inverter registers and EVCC chargers, commands them
for a while and gives them back. The specifications here are about the parts that are hard to get
right and hard to test: **borrowing and giving back what belongs to the user**, **recording
readings without losing or inventing any**, **the links to the inverter, the broker and the
browser**, and **the one-way migration of a 1.2.0 database**.

## 1. The system

| Component | State it keeps | Operations | Talks to | What makes it correct |
|---|---|---|---|---|
| Peak-shaving engine (`automation/peak-shaving-engine.ts`) | tick queue; per register a persisted slot with the user's value; status | `tick`: read settings, pick a path, claim, decide, write, hand back, release | settings, state row, live sample, write funnel, EVCC | a steered register always has its slot in the database; the slot is the user's value; disabling returns everything |
| Automation loop (`automation/automation.ts`) | timer, engine, state cache | start, stop, arm, hot apply, load/save state | engine, `app_settings` | a saved setting is acted on; cache and row agree |
| EV pull-in (`automation/ev-pull-in.ts`) | persisted mode and boost limit per loadpoint | plan claim/release, publish, save | EVCC through MQTT | the car gets back what the user had; commands converge |
| EVCC ingest (`evcc/evcc.ts`) | link, reachability, topic map | messages, control, rebuild, stop | broker pool | an honest view of EVCC |
| Change encoder (`inverter/change-encoder.ts`) | one open interval per metric | observe, close | device writer | stored series within the deadband; every instant once; outages not invented |
| History buffer (`inverter/history-buffer.ts`) | queued rows, outstanding batch, drop count | enqueue, flush | database | no row lost silently; oldest dropped first |
| Device writer (`inverter/device-writer.ts`) | an encoder per device, two buffers | commit, close, forget | encoder, buffers | readings land under the device they came from |
| Poll runtime (`inverter/runtime.ts`), registry (`devices/registry.ts`) | source, roster, in-flight poll, timers | poll, reload, recover, rebuild, start, stop | everything above | a swap or a stop loses nothing; the loop follows the saved plant |
| Transports (`packages/inverter-core`) | socket, lock, outstanding transaction | connect, read, write, close | device | a late reply answers nobody else's request; every operation ends |
| Broker pool (`devices/broker-pool.ts`), push tier, Home Assistant export | clients, holders, retry timers | acquire, update, subscribe, re-dial, release | broker | the row's client is dialled as saved, with every subscription, and comes back |
| Live socket (`web/lib/ws`, `routes/ws-*.ts`, `shared/streams.ts`) | wanted and told topics, outbox; held and live topics, priming runs | lease, subscribe, reconnect; authorize, sub, unsub, prime, fan out | session, producers | what is wanted and allowed goes live, nothing else is held, nothing falls between snapshot and stream |
| 1.2.0 migration (`packages/db/src/upgrade-120*.ts`, `backfill*.ts`, `replay*.ts`, `apps/server/src/migration`) | catalog, migration record, replay progress, discovery gate | detach, rename, record; carry, replay, refresh; onboard; verify, drop | database, export | nothing replayed twice, nothing lost, complete when shown; resumes after a kill |
| Write funnel and composite controls (`inverter/control-*.ts`) | stored toggles | write, toggle, inject state | source | a toggle can be undone (not modelled) |
| Decision mathematics, forecast, prices, provisioning, archive, web app | — | — | — | see `PROJECT.json` for why each is not modelled |

Behaviours that are hard here. Everything runs on one JavaScript thread, so races are between
awaits: a poll, a settings PUT, a user edit, a timer or a socket event can run whenever something
awaits a read, a write, a save or the end of a client. The process can die at any await, and restarts
find only the database. Samples may be up to `STALE_SAMPLE_MS` old. Writes, saves and commits fail,
sometimes after having taken effect. EVCC acknowledges nothing, the logging stick answers late or
twice, and sockets close at any moment. `PROJECT.json` lists these hazards at the lines where they
bite.

## 2. Plan

Written, in this order, the most important behaviour first:

1. `PeakShaving` — the engine's tick and the register slots (`MCPeakShaving`).
2. `HistoryBuffer` — batched commits, implementing the abstract `Ledger`.
3. `ChangeEncoder` — change-only encoding.
4. `EvPullIn` — loadpoints borrowed through MQTT.
5. `BrokerPool` — shared MQTT clients, re-dials, retries.
6. `SolarmanTransport` — the Modbus client over a logging stick.
7. `LiveBus` — the browser's bus and the server's connection, composed in one module because the
   interesting states are disagreements between the two.
8. `Migration` — blocking upgrade, backfill, onboarding, verification, drop (`MCMigration`).
9. `PollRuntime` — polls, roster, source swap, device writer, buffer and shutdown composed.

Each has its theorems in `<module>Proofs`; those of `HistoryBuffer` and `ChangeEncoder`, the two stages
of the storage path, share `StorageProofs` (section 6). Every safety invariant and every action property
that a passing run checks is proved.

Left: liveness, which is only model-checked, and a model of composite controls (`ControlToggle`), the
next component.

## 3. Modules

In all of them a step is the code between two awaits, and an action whose name starts like another's
with a suffix such as `Fails` or `Throws` is that step's error path. Operators marked "Mutant" are
plausible wrong versions of the operator that follows; no specification uses them.

### PeakShaving

`stage` and `on` say which await the running tick is at and for which register, `run` which path it
took, `live` the readings it captured in `readLive`. `db` is the `automationState` row, `cache` and
`loaded` the `stateCache` of `composeAutomationIO`. A register, a slot and a reading carry, as
history, whether the value is the user's or a steering command.

| Code | Actions |
|---|---|
| `tick`, `scheduleNext`, `applyAutomationConfig`, PUT | `Requested`, `TimerFires`, `ApplyConfig`, `PutConfig` |
| `runTick`, `simulateTick`, `decideTick` | `StartTick` with `PathOf`, `StartThrows`, `Decide`, `TickThrows` |
| `ensureSnapshot` | `Claim`, `ClaimThrows`, `HoldWithoutReadback` |
| `writeRegister` and its callers | `Write`, `WriteRejected`, `WriteThrows` |
| `replaySnapshot`, `restoreSnapshot`, `releaseSellLimit`, `releaseGridCharge` | `Replay`, `ReplaySkipped`, `ReplayFails`, `DropRestored`, `NothingRestored`, `DropThrows` |
| the order of it all: `steer`, `release` | `Proceed`, `GridStage` |
| `loadState`, `saveState` | `LoadState`, `LoadThrows`, `SaveState`, `SaveThrows` |
| poll, ageing, crash, user | `PollOnce`, `SampleAges`, `Restart`, `UserEdit` |

`run = "again"` is the disabled run at night: `decideTick` releases into "idle" and `simulateTick`
releases once more. The decision is any member of `Commands`; which window or price made it is
irrelevant to who owns a register. The EVCC half of a tick is one step here and a module of its own.
`engine.release()` has no caller in production and is not an action. Fields of the status that only
report are left out.

### HistoryBuffer and Ledger

A row is its position in the order of enqueue. `batch` is the closure's local of the outstanding
`flush`. A commit that throws may have committed (`CommitFails`). `Ledger` says what the storage path
may rely on — rows accepted, stored and given up, without batches, flags or queues — and
`ImplementsLedger` maps `enqueued`, `stored` and `dropped` to it. The specification is `BufferSpec`
(`BufferInit`, `BufferNext`), so that the theorems can stand in one module with the encoder's.

### ChangeEncoder

One metric, since the encoder keeps metrics apart; time in units that divide `bucketMs` and `gapMs`.
`observed` and `rows` are the history of one stretch of time and start anew after a clock step or when
a reading follows a `close`, so that the properties relate what was stored to what was read.
`Deadband = 0` is the undefined deadband.

### EvPullIn

One loadpoint, since loadpoints share only the save. `car` is EVCC's truth, `seen` the ingest's topic
map, `wire` the published commands EVCC has not taken. `ask` folds the price regime, the switch and
how full the car is, which the plan uses only together. EVCC and the broker are external: a mode
change clears the boost, a boost is refused outside the PV modes, the boost does not survive a restart
of EVCC and the limit does (the contract notes of `evcc.ts` and the comments of `releaseLoadpoints`);
a command published while EVCC is down is lost. `lost` records that a command or a save was lost, or
that a claim took the engine's own limit for the user's. A save that throws (`SaveThrows`) leaves the row
as it was; one that commits and then throws is modelled in `PeakShaving` only (`LostCommits`).

### BrokerPool

One connection row. `current` is `entries.get(id)`, `entry` the `Entry` objects (an entry that left the
map may still be referred to by a re-dial, a timer or a link), `client` the mqtt client objects, and
`redials` the calls of `redial()` that wait in `await discard`. `acquire` is `AcquireFirst` and
`AcquireOpen`, `reopen` is an operator of both and of the tier's `Update`. The broker is external: a
client dials, connects, and may close at any time. Left out are a `deps.dial` that throws at once (a
URL mqtt.js cannot take), after which nothing retries, and an `endAsync` that rejects, which ends the
re-dial with `closing` still set: `NeverStranded` and `ComesUp` hold for dials and ends that return.

### SolarmanTransport

`port` are the `SolarmanV5Port` objects with their socket, probe, timer, sequence number and
outstanding request; `client`, `connecting`, `waiters` the transport's `getClient`; `lock` the promise
chain; `wire` and `replies` what is between port and stick. A read (`Poll`) may split its grouped block
(`Refuse`), a write (`Setting`) may not. A reply may be delivered again until its sequence number comes
round, and a request sent with a number drops what still carried it (`Put`). The code has no such step,
it is an assumption: `SeqMod` is 256 in the code, and no reply is later than a whole round of numbers.
What a reply older than that would do is not shown. `refused` and `foreign` are history.

### LiveBus

`holders`, `sent`, `outbox` are the bus's and the reconnecting socket's fields, `up` the frames on their
way to or queued at the server (the server handles a connection's frames one after the other, behind
`authorize`), `gate` the answer the head of that queue got, `subscribed`, `live`, `runs` the
connection's state and its priming runs. `deaf` is history: topics the browser asked this connection
for and was refused, or whose frame a failed lookup dropped. `version` counts the payloads of a topic
and `emits` those of all, for the bound. A producer changes its state and emits in one step (`Emit`).
`publishTodayStatistics` (`ws-audience.ts:82`) does not: it awaits the day's query in between and may
emit a state that is older than a snapshot's, which is left out.

### Migration

Time is a number of slots; `Histories` are the shapes a 1.2.0 database can have. `catalog` says under
which name each old relation is, `record` is the migration record, `rows` the new table as a bag of
replayed rows (a bag, so that a second copy shows), `progress` the watermarks, `mat` what each new
aggregate has materialized. `boot`, `task` and `req` are the blocking upgrade, the background task and
the onboarding submits; `Kill` clears all three. The plan of a replay (`PlanReplay`) and the refresh
windows (`RefreshWindows`) are the code's pure functions over small spans. TimescaleDB is external: a
refresh materializes the buckets that lie in its window whole, and a policy call naming a relation that
does not exist fails.

Raw samples are held by slot, and the first one may lie anywhere in its slot (`inside`). Of the instant
`replayEnd` answers only this matters: buckets are taken by their start, so the bucket that starts with
the slot of the first sample is replayed exactly when the sample comes after that start. `ReplayEnd` is
the first slot whose buckets are left out.

`HistoriesAssumption` says what shape a history has, `TiersAssumption` what TimescaleDB leaves of one:

- `TiersAgree`: the hours are built from the minutes and the days from the hours, and retention drops
  the oldest of the finer tiers first.
- `BuiltFromRaw`: buckets that start after the raw window began were built from raw samples.

Nothing is assumed of where a tier or the raw window begins, of days two ids share, or of how much there
is. TLC evaluates both on the histories of `MCMigration`.

### PollRuntime

`ends` are the sources built so far, the last one live; `poll` the source of the poll in flight;
`open` the interval the writer holds per device; `buffer` a history buffer without cap; `writer` the
requests inside `afterPlantWrite` (the boot is one of them); `recovery` the re-read a homeless sample
asked for. `tangled` records that reloads overlapped or failed, `late` what the one flush of `stop()`
could not wait for; both name cases the code does not handle (section 7).

A source whose endpoint is `None` is the offline one: `loadPollEndpoint` answers it when the plant has no
device or no connection (`Target`) and when its read fails (`EndpointFails`), and `pollOnce` does nothing
while it is live (`Connectable`). `SettingsFail` is `getSimulate` or `getPlantTimeZone` throwing between
the drain and the swap: the request ends with the old source in place, the boot ends the process.

A reload is asked for by the boot, a write of the plant, or a sample without a device. The optimizer's
registrar (`runtime.ts:271`) and EVCC reload the roster too, after rows that are not the polled device's;
those reloads interleave with the modelled ones like a recovery and are left out, and so is the simulator.

## 4. Runs

| Run | Shows | Bounds and why they are enough |
|---|---|---|
| `peak_shaving_steering` | `SnapshotHeld`, `RestartNeverRecaptures`, `GridNeverHalfClaimed`, in two kinds of plant: charge and feed-in ceilings, both modes, one crash anywhere; and charge with the grid-charge pair, whose current may be missing from a sample | one user value and one command are enough to tell whose a value is; the user edits the feed-in register. `SteeringBounds` cuts the plant with the grid pair off at a queued tick (ticks are serialized), a crash and a change of mode, `SamePlant` keeps a restart from changing the plant (3 552 788 states); the theorems cover the rest |
| `peak_shaving_disable` | `LatestConfigWins`, `DisableHandsBack`: settings against ticks, a role unbound by a restart | only the charge register, because liveness is checked |
| `ev_pull_in` | `LimitIsHeld`, `OriginalsKept`, `Converges`, `HandsBack` | one upset (edit, crash, failed save, outage, rebuild) at any point; three commands in flight, the most one tick publishes |
| `history_buffer` | `NothingLost`, `ImplementsLedger`, `EventuallySettled` | cap 3, calls of up to 2 rows, 8 rows: the cap is passed with a batch outstanding (2 249 states) |
| `change_encoder` | `ErrorWithinDeadband`, `RowsTileTime`, `UnknownNotStored` | buckets of 3, gap 2, so that a silence is below the gap inside a bucket and across a boundary, and above it in both; readings 0..2 with deadband 2 (a drift of two sub-threshold steps), two boundaries, one clock step (1 657 621 states) |
| `broker_pool` | `DialledAsSaved`, `SubscriptionsTravel`, `NeverStranded`, `DialsOnlyWhatIsHeld`, `ComesUp` | the tier and an export with a will; two parameter sets; two entries, so that a released row is acquired again while the old entry's re-dial is still out; two re-dials overlap (912 945 states) |
| `solarman_transport` | `AnsweredByOwnReply`, `OpenIsClient`, `SplitAfterTwoRefusals`, `NothingOvertaken`, `EveryOpEnds` | three operations on two ports, one close; three sequence numbers, so that they wrap (323 665 states) |
| `live_bus` | `TypeOK`, `NoStraySubscription`, `HeldIsAllowed`, `NothingMissed`, `GoesLive` | one topic of each policy; two mishaps (outage, teardown, failed lookup or snapshot, change of rights) at any point, one payload between snapshot and promotion (580 780 states) |
| `migration` | `TypeOK`, `ReplayedOnce`, `LiftedIsComplete`, `HistoryKept`, `GetsThere` | eight histories over three days: raw beginning inside a day and inside a slot; a source renamed inside a day, with its minutes; one renamed on a day only the daily tier has; no raw and a first day without its first minutes; days only coarse tiers have; a single day, all raw; a single instant; nothing. Two kills and a failed run at any point (119 555 states). One submit: with two the search takes several times as long, and the theorems hold for any number |
| `poll_runtime` | `TypeOK`, `ReadingsKept`, `SourceFollows`, `KeyedAsRead`, `RegisteredAgain` | one write beside the boot, of any device or none at any endpoint or none; three intervals; two failures, of a commit, a roster, endpoint or settings read (346 990 states) |

Deadlock checking is off where a named bound ends a behaviour (rows, edits, operations, frames,
writes, time), and in `migration`, which really ends.

`peak_shaving_recapture` ends in a violation, of what the comment at `peak-shaving-engine.ts:376` says:
a tick hands the register back and drops its slot; the next tick claims from a sample older than the
hand-back and records the engine's own command as the user's value.

`migration_double_count` ends in a violation, of what the comment at `upgrade-120.ts:420`-428 says: that
the replay stops where the raw samples begin, so that no interval row lies over its own samples. On a
plain history whose first sample is inside its minute, the bucket of that minute is replayed beside it.
`NeverTwice` is the promise; `ReplayedOnce`, which the code keeps, is what remains of it: no row is
written twice, two rows of one source never overlap, and buckets and samples overlap in the bucket the
raw window begins in and nowhere else.

## 5. Fairness

- `PeakShaving`: the timer is re-armed by `finally(scheduleNext)` whatever a tick did, and the queue
  starts the next tick when one settles (weak fairness of `TimerFires` and of the tick's steps). Reads,
  saves and hand-backs may fail any number of times but not forever (strong fairness of the succeeding
  steps) — that is what "the next tick retries" relies on. No fairness on polls, users, settings,
  crashes or faults.
- `HistoryBuffer`: the scheduler's flush job keeps running; a commit settles, and not every commit fails.
- `EvPullIn`: ticks and saves go on; the broker delivers while it is up, and it and EVCC come back.
- `BrokerPool`: timers fire, `endAsync` resolves, re-dials resume (weak); a broker that is dialled again
  and again accepts once (strong fairness of `RowConnects`). Holders owe nothing.
- `SolarmanTransport`: only the deadline of `getClient`, the promise chain and modbus-serial's timeout,
  all timers of this process. Stick, socket and callers owe nothing.
- `LiveBus`: the reconnect timer fires, a handshake is answered, a socket whose server side is gone
  closes, the server's queue and the snapshot queries move on (both are bounded by timeouts).
- `Migration`: the supervisor starts what is down, a run goes on unless it is killed or fails (both
  bounded), and somebody presses the backfill's button while the banner is there.
- `PollRuntime`: queries and commits settle, the poll timer fires, a reload goes on; the inverter
  answers again and again while it is polled (strong fairness of `StartRecovery`, whose interval passes
  between two tries). Polls are promised only while the live source has a host.

## 6. Proofs

`PeakShavingProofs`. `TypeCorrect` rests on `TypeOK` with "a running tick is counted", without which a
finishing tick could take the queue below zero. `SnapshotHeld` is not inductive: a write needs to know
that its slot was saved, and a drop that its register was handed back. `IInv` adds

- `CacheAgrees`: a loaded cache equals the row;
- `WriteIsRecorded`: at every place that leads to a write, the slot of that write is in the row — for
  the grid pair both slots;
- `RestoredIsUsers`: what a release has put back and not yet dropped is the user's.

From it follow `SnapshotAlwaysHeld`, `NeverRecaptures` and `GridClaimedWhole`, for every set of values,
bindings, readbacks and settings and any number of crashes. They assume `LostCommits = FALSE`, that a
save that throws has not committed: `CacheAgrees` fails without it (section 7). `LatestConfigRead` does
not need it.

`StorageProofs`, the buffer. `NothingEverLost`: the outstanding batch followed by the buffer is exactly
the newest rows in order, and every older row is stored or counted (`BufferInv`); lemmas on suffixes and
concatenations of such sequences carry the three ways rows move (append, take, put back and trim).
`BufferImplementsLedger` maps every step to `Accept`, `Settle` or a stutter. The step that matters is
the trim after a failed commit: what is cut is a prefix of the queue, and because the queue is the
newest rows in order, each row cut is followed by at least `MaxPending` newer ones.

`StorageProofs`, the encoder. A row is cut from the open interval, so the three invariants are proved of
the interval and of the rows together. `Support` adds that an open interval holds a value that was read,
that nothing of a stretch is recorded before its first reading, that the last reading of a stretch was
made now, and that it fell in the bucket of the open interval. The last one carries the argument: when a
reading crosses a boundary, the interval is cut or carried at the end of that very bucket, so no hole is
left (`RowsTileTime`) and the silence the gap test measures began there (`UnknownNotStored`). For
`ErrorWithinDeadband` it matters that the deadband is measured from the interval's value and not from the
last reading. Proved for every bucket width and every gap below it; the lemmas on buckets use only
division with remainder.

`EvPullInProofs`. `OriginalsNeverReplaced`: a step that saves over a held slot keeps it or frees it
(`SavesWhatIsHeld`). `LimitIsAlwaysHeld` is about the engine's own boost limit ("floor"): it is in
force, or on its way in the commands EVCC has not taken (`FloorToCome`), only while the user's limit is
held. It is not inductive, since the engine acts on a late view of EVCC; `IInv` adds that a held limit
is the user's own (`UsersOwn`) and that what a release publishes ends with the user's limit
(`HandedBack`), so a slot is dropped only with the hand-back behind every floor on the wire. The
history flag `lost` excuses what the code cannot know (section 3).

`BrokerPoolProofs`. The handlers of a client compare it with the entry's client before they touch the
entry. `Owned` says why that suffices: the client an entry holds was dialled for that entry and is not
being ended, so no two entries share one. `UpIsConnected` is what decides whether a subscription made
now is sent at once or at the connect, hence `SubscriptionsAreCarried`. The close handler ignores a close
under `closing`; `ClosingIsRedialled`, that a row is marked so only while a re-dial of it is under way,
makes that harmless, hence `RowsAreNeverStranded`. `Holding` (links and entries agree on who holds what)
and `CurrentKnown` (the entry in the map has a packet) complete the induction. `OnlyTheMapIsDialled` is
an action property and follows from it. The constants are arbitrary: any number of entries, clients and
overlapping re-dials.

`SolarmanTransportProofs`. A reply is matched by its sequence number alone, so `Matched` says that a
message that carries the number a port waits for belongs to the request it waits for; it holds because a
number is cleared of messages when it is used again, which the model states (section 3). That the
request is also the operation's own needs the lock: `Queues` (chain and waiters list exactly the
operations whose state says so, and the one with a transaction is first), `Latest` (what an open port
remembers, and the transaction under way, is the newest), and `SamePort` (operations behind the first
were given the same port while it is open). `Phases` and `Alone` say which combinations of socket, probe,
timer and request a port can be in and that nothing is open while a port is dialled: with them a port
that `getClient` gave up on cannot open (`OneOpenPort`). `SplitIsEarned` needs the history in `Matched`
and `Latest` (a refusal on its way, and a retried request, are on record), `RetriesNeverOvertake` needs
`Latest`. `Counted` bounds the transactions by the operations begun. Any modulus above 1.

`LiveBusProofs`. `NoTopicIsStray` speaks of the moment when all frames are handled; `Reconciled` says
what the frames that are not yet handled will do: each topic a `sub` frame asks for is one the bus
believes it has told, or a later frame takes it back, and so for what the server holds. `OpenFirst`: the
open task is first in its connection's queue and finds it empty. `NoPayloadIsMissed` needs that at most
one priming run can still promote a topic (`OneRun`) and that what this run would show is the newest
state (`FreshRuns`); both rest on `drop()` abandoning the runs of a topic. `HeldIsAllowed` is inductive
beside them. Here the type invariant is a theorem about a property of the run, since it holds the bound
on handlers.

`PollRuntimeProofs`. `NoReadingIsLost`: the batch followed by the queue is the newest rows in order and
all older ones are stored (`Fits`), and every interval opened is open or a row (`Books`); the lemmas say
how a flush, a commit, its failure and a cut of open intervals keep that. `Quiet` is the shutdown's half:
if `stop()` missed nothing, no timer, poll, reload or open interval is left to add a row after its flush.
`SourceFollowsThePlant`: `Following` says what a reload that nothing has overlapped knows at each of its
awaits (the device it read is the saved one, then the roster is, then the open intervals are, then the
endpoint is the one `Target` says), `AtRest` what is left when it ends, `Replaced` that a replaced source
is closed or about to be. `tangled` ends these promises, and a reload that starts alone after a tangle
(`heals`) restores all but the last. `ReadingsAreKeyedAsRead` follows from `AtRest`. The devices are any
finite set (the accounting counts open intervals), everything else is arbitrary.

`MigrationProofs`. Two halves. The first is about the pure functions, for every history the assumptions
allow and every width of hours and days. `PlanIs` turns `planReplay` and `planOneChunk` into one
statement: a chunk belongs to one day, and its tier is the finest that is usable there. From it:

- `PlannedApart`: where two rows of all plans together have a slot in common, they are the samples and
  the bucket the first sample lies in, or rows of two ids. Within an id, chunks of two days are apart and
  a chunk has one tier; of a bucket and a sample, the bucket starts before `ReplayEnd` and the sample is
  not before the first one.
- `OwedIsPlanned`: every raw sample, every minute, and every hour and day that only a coarser tier has
  and that was not given up (`GivenUp`, section 7), is covered by a planned row. Most of the work is in
  days at the edges: a day that is held has a chunk (`DayHasChunk`), and the tier that was chosen reaches
  the slot in question.
- `Windows`: the refresh windows of a span are contiguous, and contain the bucket of every instant of
  the span whole, the merged last window included. A span of one instant has none, which is what
  `LiftedIsComplete` excuses (section 7).

The second half is the induction. `rows = SetToBag(Written)` says that the table holds exactly the rows
of the chunks whose watermark is recorded, each once: that is what one transaction for rows and
watermark buys, and why a killed or failed run resumes. `Written` depends on `WatermarkSource`, hence on
the recorded source, which no step changes once there are watermarks (`Untouched`, `Claim`). `Claims`
says the same of every record in the database and in flight, since the run and the submits write back
what they read earlier: what such a record says was true when it was read and stays true. `Behind` is
what each place of the run has behind it, `Marks` that a window is recorded only when all rows are there
and it has been refreshed — so a mark that survives a kill is never older than a row. Days are built
from hours, and `refreshTiers` takes the hours first (`WindowShows`). `Gone` lets a relation go only
when everything is written.

Each inductive invariant was also checked by TLC on the run of its module. The assumptions on constants
are the `ASSUME`s of the modules: bounds are natural numbers, and a value that stands for "none" is none
of the values it is told from. Two restrict the environment: `LostCommits = FALSE` above, and
`TiersAssumption` of `Migration` (section 3), which says that the tiers of a 1.2.0 database were built
from one another and trimmed by retention.

Only model-checked: every liveness property (`DisableHandsBack`, `EventuallySettled`, `Converges`,
`HandsBack`, `ComesUp`, `EveryOpEnds`, `GoesLive`, `GetsThere`, `RegisteredAgain`), since the prover
does not handle fairness.

## 7. Where the code and its comments part

Apart from the two findings in `PROJECT.json`, these came up while modelling. Each is visible in a
specification, as an excuse in a property or as an error path that is never left again.

Steering:

- `releaseGridCharge` (`peak-shaving-engine.ts:578`) goes on to the current's slot when the enable slot
  could not be handed back; the comment at `:570` says the enable comes first so that this cannot happen.
- `saveState` (`automation.ts:228`) sets the cache after the write returned. A write that committed and
  then threw leaves cache and row apart: the next command is written without a persisted slot, against
  `docs/adr/0001-automation-io-stays-wide.md:20`. `LostCommits = TRUE` shows it.
- `applyEvPullIn` (`peak-shaving-engine.ts:869`) publishes a claim before it saves the snapshot; `:847`
  says every loadpoint is snapshotted before anything is written to it.

Recording:

- While a commit is outstanding `enqueue` only appends (`history-buffer.ts:85`), so a commit that hangs
  lets the buffer pass the "hard cap" of `:46`; `Ledger` promises what is given up, not how much is held.
- `crossBucket` (`change-encoder.ts:159`) measures `gapMs` from the bucket boundary, not from the last
  reading as `:72` says, and within a bucket no silence is a gap: a longer one is stored as held, where
  `:71`-74 says the next reading starts a fresh interval. No property takes a side there: `RowsTileTime`
  speaks of silences of at most `gapMs`, `UnknownNotStored` of those longer than it beyond the boundary.
- `stop()` (`runtime.ts:815`, "a clean shutdown never drops history") flushes once. The flush is a no-op
  while a commit is outstanding, a poll in flight opens intervals again, and a request accepted after
  the signal starts another reload (`late`).
- Two plant writes, or a write and a roster recovery, run their reloads interleaved: the loop can end up
  on the older endpoint or roster, and a source both took for "previous" leaves another one open
  (`tangled`). A later write that runs alone repairs the roster and the endpoint but not the leak.
- When the reads of the roster and of the endpoint both fail, the loop polls nothing, so no sample asks
  for the re-read that `runtime.ts:82`-89 relies on to repair a roster a database hiccup left empty: only
  a write of the plant or a restart does. `RegisteredAgain` promises the repair while there is a host to
  poll, and `SourceFollows` nothing after a failed read.
- Between `Install` and `Swap` a reading of the old source is stored under the new roster's device.

Links:

- "One per row" (`broker-pool.ts:2`) does not hold while two re-dials overlap: both dial when they
  resume, and the first client stays connected with nobody listening to it until the broker drops it.
- When such a re-dial replaces a client that was up, `entry.connected` stays TRUE until the new client
  connects or closes, and the link reports a connection that is not there yet.
- The export's `close()` awaits the callback of a publish (`inverter/mqtt.ts:384`-394); a publish made
  while the link has no client never calls back.
- `close()` of a transport during a connect is not remembered: the connect completes and the transport
  is open again (`modbus-transport.ts:712`).
- A `sub` frame whose authorization throws is dropped, and the browser never asks again on this
  connection (`deaf`).

Migration:

- Slugs "PROVABLY unreachable" after the announcement (`onboarding-plan.ts:37`, and `:118`): two submits
  that both read the record before either stamps it both write their slug, and a running backfill writes
  back the record it read before the names were confirmed, which opens the form again.
- "Killed anywhere in the middle, the next boot resumes" (`upgrade-120-run.ts:308`): after a kill between
  the renames of the aggregates and of `metrics_raw` the next boot detaches policies under names that no
  longer exist, and fails every time (`DetachFails`). This rests on TimescaleDB refusing a policy call
  on a relation that is not there.
- A database without any history never leaves `cutover`: `runBackfill` returns before it advances.
- With several source ids, or days only hourly or daily buckets have, `verifyMigration` compares what
  cannot be equal and the old relations are never dropped.
- Two ids with buckets of the same time in different tiers, such as a daily bucket each of the day a
  profile was renamed on, are both replayed in full. 1.2.0 polled one inverter, so both stand for parts
  of one day: the rest of each is counted twice. `ReplayedOnce` claims nothing across ids.
- When the minute retention ends inside the very first day, the hours of that day before it are given up:
  the first chunk is clipped to the minutes, as if the history began there (`replay.ts:183`). The plan
  reports the gap, but the record advances to `backfilled` all the same. `GivenUp` leaves it out of what
  is owed.
- The written span ends at its last row, and `refreshWindows` of an empty span is empty
  (`backfill.ts:91`): a history that is replayed as a single row, such as one daily bucket, is never
  materialized, and the record advances. `LiftedIsComplete` excuses it.
- The double count of the second finding lasts less than a bucket: a minute where minutes answer for the
  day. In a database younger than the raw retention, the minutes may not reach the first day, and then it
  is the hour or the day the first sample lies in.
- A kill between the drop of the aggregates and of the hypertable, with no raw left, makes the next boot
  fail in `readLegacyRaw` (`ReadFails`).
- `verify` and the drop have no caller in the server; `scripts/upgrade-phases.ts` runs them.

## 8. Not modelled

The numeric decision (plateau, ramp, price windows), unit conversion and clamping of register values,
status fields that only report, state re-keying at the first boot after an upgrade, the estimator and
registrar of the EVCC ingest, frame codecs, plain TCP and RTU framings, discovery payloads, composite
controls, provisioning, archives, forecasts, prices, the web pages and packaging. Most of the
repository's lines are of these kinds — user interface, register maps, queries, fixtures, formatting —
and keep no state that several actors share. `PROJECT.json` gives the reason for each.
