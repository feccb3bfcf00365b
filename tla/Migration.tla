----------------------------- MODULE Migration -----------------------------
(***************************************************************************)
(* The upgrade of a 1.2.0 database in place: the blocking step of the boot *)
(* (packages/db/src/upgrade-120.ts, upgrade-120-run.ts), the history       *)
(* backfill it leaves behind (backfill.ts, backfill-run.ts, replay.ts,     *)
(* replay-run.ts, run by apps/server/src/migration/backfill-task.ts), and  *)
(* the onboarding that confirms names and slugs while Home Assistant       *)
(* discovery is held (onboarding-plan.ts, onboarding-apply.ts,             *)
(* discovery-gate.ts).  The process may be killed between any two          *)
(* statements.  Verification and the drop of the old relations are run by  *)
(* scripts/upgrade-phases.ts, with no server on the database.              *)
(*                                                                         *)
(* Time is a number of slots.  A minute bucket, or the raw samples of a    *)
(* slot, cover that slot; an hourly or daily bucket is stamped at its      *)
(* start.  The first raw sample may come anywhere in its slot: only        *)
(* whether it comes after the start makes a difference.  Left out: values  *)
(* and means, the configuration registers' change log, the readings that   *)
(* arrive after the cutover, the policies that are detached, and the       *)
(* baseline's statements, which are skipped one by one where their object  *)
(* exists.                                                                 *)
(***************************************************************************)
EXTENDS Integers, Sequences, FiniteSets, FiniteSetsExt, Bags

CONSTANTS
    Ids,         \* the inverter_ids 1.2.0 wrote
    Primary,     \* the one its last week carries
    Slugs,       \* what a submit may ask the slug to be
    Reqs,        \* onboarding submits
    None,
    SlotsPerHour, SlotsPerDay, Days,
    ChunkDays,   \* days a refresh window spans
    Histories,   \* what 1.2.0 left: raw samples, and buckets of each tier by id
    MaxKills,    \* times the process is killed
    MaxFaults    \* runs of the backfill the database fails

Horizon == SlotsPerDay * Days
Slots == 0..(Horizon - 1)
DayStart(d) == d * SlotsPerDay

ASSUME HistoriesAssumption ==
    /\ SlotsPerHour \in Nat \ {0} /\ SlotsPerDay \in Nat \ {0}
    /\ SlotsPerDay % SlotsPerHour = 0
    /\ Days \in Nat \ {0} /\ ChunkDays \in Nat \ {0}
    /\ MaxKills \in Nat /\ MaxFaults \in Nat
    /\ Primary \in Ids /\ None \notin Ids
    /\ Histories \subseteq [raw : SUBSET Slots,
                            inside : BOOLEAN,  \* the first sample is after its slot's start
                            minute : [Ids -> SUBSET Slots],
                            hourly : [Ids -> SUBSET {s \in Slots : s % SlotsPerHour = 0}],
                            daily : [Ids -> SUBSET {s \in Slots : s % SlotsPerDay = 0}]]

\* replayEnd(): the instant of the first raw sample, or the cutover.  What begins
\* before a sample inside a slot begins with that slot at the latest.
ReplayEnd(h) ==
    IF h.raw = {} THEN Horizon ELSE Min(h.raw) + IF h.inside THEN 1 ELSE 0

(***************************************************************************)
(* What TimescaleDB leaves of one source: an aggregate holds a bucket for  *)
(* each one below it, and retention drops the oldest of the finer tiers    *)
(* first.                                                                  *)
(***************************************************************************)
HourOf(b) == b .. (b + SlotsPerHour - 1)
DayOf(b) == b .. (b + SlotsPerDay - 1)
TiersAgree(minute, hourly, daily) ==
    /\ \A m \in minute : \E b \in hourly : m \in HourOf(b)
    /\ \A b \in hourly : \E d \in daily : b \in DayOf(d)
    /\ \A b \in hourly : (\E m \in minute : m < b + SlotsPerHour) =>
         \E m \in minute : m \in HourOf(b)
    /\ \A d \in daily : (\E b \in hourly : b < d + SlotsPerDay) =>
         \E b \in hourly : b \in DayOf(d)

\* What starts after the raw window began was built from it.
BuiltFromRaw(h, id) ==
    /\ \A m \in h.minute[id] : m >= ReplayEnd(h) => m \in h.raw
    /\ \A b \in h.hourly[id] : b >= ReplayEnd(h) => \E m \in h.minute[id] : m \in HourOf(b)
    /\ \A d \in h.daily[id] : d >= ReplayEnd(h) => \E m \in h.minute[id] : m \in DayOf(d)

ASSUME TiersAssumption ==
    \A h \in Histories : \A id \in Ids :
      TiersAgree(h.minute[id], h.hourly[id], h.daily[id]) /\ BuiltFromRaw(h, id)

VARIABLES
    \* the database
    history,   \* what the legacy relations hold, or held
    catalog,   \* the name each legacy relation is under
    record,    \* the migration record
    rows,      \* the new metrics_raw, as far as it is history
    progress,  \* replay_progress
    mat,       \* the rows each new tier has materialized, by their slots
    slug,      \* the slug on disk
    \* the process
    boot,      \* "down", a step of the blocking upgrade, or "up"
    held,      \* discovery is held
    task,      \* the backfill in flight
    req,       \* the submits in flight
    kills, faults

vars == <<history, catalog, record, rows, progress, mat, slug,
          boot, held, task, req, kills, faults>>
dbVars == <<history, catalog, record, rows, progress, mat, slug>>

Tiers == <<"minute", "hourly", "daily">>
NewTiers == {"minute", "hourly", "daily"}
\* LEGACY_AGGREGATES, then the hypertable: the order of the renames and drops.
LegacyOrder == <<"minute", "hourly", "daily", "raw">>
Relations == {"minute", "hourly", "daily", "raw"}
Stages == {"none", "cutover", "carried", "deferred", "backfilled", "verified", "dropped"}
Record == [stage : Stages, names : BOOLEAN, source : Ids \union {None}]
Row == [src : Relations, id : Ids, slot : Slots]
NoTask == [pc |-> "idle", rec |-> None]
NoReq == [pc |-> "idle", rec |-> None, slug |-> None, later |-> FALSE]

\* bucketWidthMs(); a raw sample stands for the poll that follows it.
Width(tier) ==
    CASE tier = "daily" -> SlotsPerDay [] tier = "hourly" -> SlotsPerHour [] OTHER -> 1

\* What a row's interval covers: the width of the bucket it stands for.
Covers(r) == r.slot .. (r.slot + Width(r.src) - 1)

Covered(bag) == UNION {Covers(r) : r \in BagToSet(bag)}

TypeOK ==
    /\ history \in Histories
    /\ catalog \in [Relations -> {"old", "legacy", "gone"}]
    /\ record \in Record
    /\ BagToSet(rows) \subseteq Row
    /\ mat \in [NewTiers -> SUBSET Slots]
    /\ slug \in Slugs
    /\ boot \in {"down", "detach", "rename", "read", "record", "up"}
    /\ held \in BOOLEAN
    /\ task.pc \in {"idle", "start", "carry", "carried", "replay", "refresh", "mark", "done"}
    /\ task.rec \in Record \union {None}
    /\ \A r \in Reqs : /\ req[r].pc \in {"idle", "slug", "stamp", "release"}
                       /\ req[r].rec \in Record \union {None}
                       /\ req[r].slug \in Slugs \union {None}

Init ==
    /\ history \in Histories
    /\ catalog = [r \in Relations |-> "old"]
    /\ record = [stage |-> "none", names |-> FALSE, source |-> None]
    /\ rows = EmptyBag /\ progress = {}
    /\ mat = [t \in NewTiers |-> {}]
    /\ slug \in Slugs
    /\ boot = "down" /\ held = FALSE
    /\ task = NoTask /\ req = [r \in Reqs |-> NoReq]
    /\ kills = 0 /\ faults = 0

-----------------------------------------------------------------------------
(* The migration record *)

InProgress == {"cutover", "carried", "deferred", "backfilled", "verified"}
Lifted == {"backfilled", "verified", "dropped"}

\* needsMigrationOnboarding()
NeedsOnboarding(rec) == ~rec.names /\ rec.stage \in InProgress

\* advance(): the record as it was read, with the new stage.
Advance(rec, stage) == record' = [rec EXCEPT !.stage = stage]

-----------------------------------------------------------------------------
(* The blocking step *)

\* classifyUpgrade(); a database without a 1.2.0 metrics_raw goes straight up.
BootStart ==
    /\ boot = "down"
    /\ \/ catalog["raw"] = "old" /\ boot' = "detach" /\ UNCHANGED held
       \/ catalog["raw"] = "legacy" /\ boot' = "read" /\ UNCHANGED held
       \/ catalog["raw"] = "gone" /\ boot' = "up" /\ held' = NeedsOnboarding(record)
    /\ UNCHANGED <<dbVars, task, req, kills, faults>>

\* The boot fails and the supervisor starts it again.
BootFails ==
    /\ boot' = "down"
    /\ UNCHANGED <<dbVars, held, task, req, kills, faults>>

\* detachPolicyStatements(), under the original names.
Detach ==
    /\ boot = "detach"
    /\ \A t \in NewTiers : catalog[t] = "old"
    /\ boot' = "rename"
    /\ UNCHANGED <<dbVars, held, task, req, kills, faults>>

\* The names are gone already: the policy calls fail before anything is renamed.
DetachFails ==
    /\ boot = "detach"
    /\ \E t \in NewTiers : catalog[t] # "old"
    /\ BootFails

\* The first relation that is still under a name.
FirstUnder(name) ==
    LegacyOrder[Min({k \in 1..4 : catalog[LegacyOrder[k]] = name})]

\* renameStatements(): the aggregates, then metrics_raw; a statement each.
RenameNext ==
    /\ boot = "rename"
    /\ LET next == FirstUnder("old")
       IN  /\ catalog' = [catalog EXCEPT ![next] = "legacy"]
           /\ boot' = IF next = "raw" THEN "read" ELSE "rename"
    /\ UNCHANGED <<history, record, rows, progress, mat, slug, held, task, req,
                   kills, faults>>

\* The source ids the retained raw carries, or the minute buckets when it is empty.
SourceIds ==
    IF history.raw # {} THEN {Primary} ELSE {i \in Ids : history.minute[i] # {}}

\* readLegacyRaw() and resolveSourceId(): a bucket relation that is gone, and
\* more than one id, stop the boot.
ReadLegacy ==
    /\ boot = "read"
    /\ history.raw # {} \/ catalog["minute"] = "legacy"
    /\ Cardinality(SourceIds) <= 1
    /\ boot' = "record"
    /\ UNCHANGED <<dbVars, held, task, req, kills, faults>>

ReadFails ==
    /\ boot = "read"
    /\ \/ history.raw = {} /\ catalog["minute"] # "legacy"
       \/ Cardinality(SourceIds) > 1
    /\ BootFails

\* The baseline, the stamp and the record, which is written once; then the
\* server starts and holds discovery when the record says so.
WriteRecord ==
    /\ boot = "record"
    /\ record' = IF record.stage # "none" THEN record
                 ELSE [stage |-> "cutover", names |-> FALSE,
                       source |-> IF SourceIds = {} THEN None
                                  ELSE CHOOSE i \in SourceIds : TRUE]
    /\ boot' = "up" /\ held' = NeedsOnboarding(record')
    /\ UNCHANGED <<history, catalog, rows, progress, mat, slug, task, req,
                   kills, faults>>

\* The process is killed: what is not in the database is gone.
Kill ==
    /\ boot # "down" /\ kills < MaxKills
    /\ kills' = kills + 1
    /\ boot' = "down" /\ held' = FALSE
    /\ task' = NoTask /\ req' = [r \in Reqs |-> NoReq]
    /\ UNCHANGED <<dbVars, faults>>

-----------------------------------------------------------------------------
(* The replay *)

\* readTierWindows(): from the first bucket to the end of the last.
Window(holds, tier) ==
    [from |-> Min(holds[tier]), to |-> Max(holds[tier]) + Width(tier)]

\* clampToCoverage(): the requested end, no further than the tiers reach.
Span(holds, to) ==
    LET held_ == {t \in DOMAIN holds : holds[t] # {}}
        latest == Max({Window(holds, t).to : t \in held_})
    IN  [from |-> Min({Window(holds, t).from : t \in held_}),
         to   |-> Min({to, latest})]

\* planOneChunk(): inside the span the finest tier that covers the whole chunk,
\* at its two edges the finest that reaches the chunk's inner side, clipped.
PlanOneChunk(holds, span, isFirst, isLast) ==
    LET W(i) == Window(holds, Tiers[i])
        Start(i) == Max({W(i).from, span.from})
        End(i)   == Min({W(i).to, span.to})
        Covering(i) == W(i).from <= span.from /\ W(i).to >= span.to
        AtEdge(i) == /\ Start(i) < End(i)
                     /\ \/ Covering(i)
                        \/ isFirst /\ W(i).to >= span.to
                        \/ isLast /\ W(i).from <= span.from
        Usable == {i \in {j \in 1..3 : holds[Tiers[j]] # {}} :
                     IF isFirst \/ isLast THEN AtEdge(i) ELSE Covering(i)}
    IN  {[tier |-> Tiers[i], start |-> Start(i), end |-> End(i)] :
           i \in IF Usable = {} THEN {} ELSE {Min(Usable)}}

\* planReplay(): a chunk a day between the span's own bounds.
PlanReplay(holds, to) ==
    IF \A t \in DOMAIN holds : holds[t] = {} THEN {}
    ELSE LET span == Span(holds, to)
         IN  UNION {LET start == Max({span.from, DayStart(d)})
                        end   == Min({span.to, DayStart(d + 1)})
                    IN  IF start >= end THEN {}
                        ELSE PlanOneChunk(holds, [from |-> start, to |-> end],
                                          start = span.from, DayStart(d + 1) >= span.to) :
                    d \in 0..(Days - 1)}

\* carryLegacyRaw(): the raw samples addressed as minute buckets.
CarryHolds(h) == [minute |-> h.raw, hourly |-> {}, daily |-> {}]
CarryPlan == [h \in Histories |-> PlanReplay(CarryHolds(h), Horizon)]

BucketHolds(h, id) == [t \in NewTiers |-> h[t][id]]

\* Mutant: the replay runs up to the cutover.
BucketPlanWhole ==
    [h \in Histories |->
       [id \in Ids |-> PlanReplay(BucketHolds(h, id), Horizon)]]

\* replayEverySource(): one plan an id, up to where the raw window begins.
BucketPlan ==
    [h \in Histories |-> [id \in Ids |-> PlanReplay(BucketHolds(h, id), ReplayEnd(h))]]

\* legacySourceIds(): the oldest first.
FirstBucket ==
    [h \in Histories |->
       [id \in Ids |-> Min({Horizon} \union UNION {h[t][id] : t \in NewTiers})]]

\* replayWatermarkSource(): the bare key is the recorded source's.
WatermarkSource(id) == IF id = record.source THEN <<"buckets">> ELSE <<"buckets", id>>

\* replayChunk(): the rows and the watermark in one transaction.
ReplayChunk(src, id, holds, source, chunk) ==
    /\ rows' = rows (+) SetToBag({[src |-> src, id |-> id, slot |-> s] :
                  s \in {x \in holds[chunk.tier] : chunk.start <= x /\ x < chunk.end}})
    /\ progress' = progress \union {<<source, chunk.start>>}

\* pendingChunks() of a plan, by their starts, ascending.
Pending(plan, source) == {c \in plan : <<source, c.start>> \notin progress}
First(chunks) == CHOOSE c \in chunks : \A o \in chunks : c.start <= o.start

Legacy == \A r \in Relations : catalog[r] = "legacy"

-----------------------------------------------------------------------------
(* The backfill *)

Outstanding == record.stage \in {"cutover", "carried", "deferred"}

\* start(): the button, or a submit that asked for it; one at a time.
StartBackfill ==
    /\ boot = "up" /\ task.pc = "idle" /\ Outstanding
    /\ task' = [NoTask EXCEPT !.pc = "start"]
    /\ UNCHANGED <<dbVars, boot, held, req, kills, faults>>

\* runBackfill() reads the record it will write back.
ReadTask ==
    /\ task.pc = "start"
    /\ task' = IF record.stage \in {"none"} \union Lifted \/ record.source = None
               THEN NoTask
               ELSE [pc  |-> IF history.raw = {} THEN "replay" ELSE "carry", rec |-> record]
    /\ UNCHANGED <<dbVars, boot, held, req, kills, faults>>

Carry ==
    /\ task.pc = "carry" /\ Legacy
    /\ LET todo == Pending(CarryPlan[history], <<"raw">>)
       IN  IF todo = {}
           THEN task' = [task EXCEPT !.pc = "carried"] /\ UNCHANGED <<rows, progress>>
           ELSE /\ ReplayChunk("raw", record.source, CarryHolds(history), <<"raw">>, First(todo))
                /\ UNCHANGED task
    /\ UNCHANGED <<history, catalog, record, mat, slug, boot, held, req, kills,
                   faults>>

AdvanceCarried ==
    /\ task.pc = "carried"
    /\ Advance(task.rec, "carried")
    /\ task' = [pc |-> "replay", rec |-> record']
    /\ UNCHANGED <<history, catalog, rows, progress, mat, slug, boot, held, req,
                   kills, faults>>

\* One chunk of one id's pass.
Replay ==
    /\ task.pc = "replay" /\ Legacy
    /\ LET Todo(i) == Pending(BucketPlan[history][i], WatermarkSource(i))
       IN  \/ /\ \A i \in Ids : Todo(i) = {}
              /\ task' = [task EXCEPT !.pc = "refresh"]
              /\ UNCHANGED <<rows, progress>>
           \/ \E i \in Ids :
                /\ Todo(i) # {}
                /\ \A o \in Ids : FirstBucket[history][o] < FirstBucket[history][i] => Todo(o) = {}
                /\ LET chunk == First(Todo(i))
                   IN  ReplayChunk(chunk.tier, i, BucketHolds(history, i),
                                   WatermarkSource(i), chunk)
                /\ UNCHANGED task
    /\ UNCHANGED <<history, catalog, record, mat, slug, boot, held, req, kills,
                   faults>>

\* Mutant: the windows start and end where the span does.
RefreshWindowsUnaligned == [from \in Slots |-> [to \in Slots |-> [tier \in NewTiers |->
    LET pad  == Width(tier)
        step == ChunkDays * SlotsPerDay
        ends == {from - pad + k * step : k \in 0..Days + 2}
    IN  {[start |-> c, end |-> Min({c + step, to + pad})] : c \in {e \in ends : e < to + pad}}]]]

\* refreshWindows(): the span padded by a bucket on either side and aligned to
\* buckets, ChunkDays at a time; a last window narrower than a bucket joins the
\* one before it.
RefreshWindows == [from \in Slots |-> [to \in Slots |-> [tier \in NewTiers |->
    LET pad    == Width(tier)
        first  == ((from - pad) \div pad) * pad
        last   == -((-(to + pad)) \div pad) * pad
        step   == ChunkDays * SlotsPerDay
        starts == {c \in {first + k * step : k \in 0..Days + 2} : c < last}
        final  == Max(starts)
        merge  == last - final < pad /\ Cardinality(starts) > 1
        kept   == IF merge THEN starts \ {final} ELSE starts
    IN  IF to <= from THEN {}
        ELSE {[start |-> c, end |-> IF c = Max(kept) THEN last ELSE c + step] : c \in kept}]]]

\* refreshTiers() over the written span, tier by tier and oldest first, without
\* the windows that are recorded.
RefreshOrder == <<"hourly", "daily", "minute">>
Mark(w) == <<<<"refresh", RefreshOrder[w.k]>>, w.start>>
NotRefreshed ==
    LET times == {r.slot : r \in BagToSet(rows)}
    IN  IF times = {} THEN {}
        ELSE {w \in UNION {{[k |-> k, start |-> v.start, end |-> v.end] :
                               v \in RefreshWindows[Min(times)][Max(times)][RefreshOrder[k]]} :
                            k \in 1..3} :
                Mark(w) \notin progress}
NextOf(windows) ==
    CHOOSE w \in windows : \A o \in windows :
      w.k < o.k \/ (w.k = o.k /\ w.start <= o.start)

\* refresh_continuous_aggregate(): the buckets that lie in the window whole;
\* daily buckets are built from the hours that are there.
Materialize(w) ==
    LET tier   == RefreshOrder[w.k]
        Inside(s) == LET b == (s \div Width(tier)) * Width(tier)
                     IN  w.start <= b /\ b + Width(tier) <= w.end
        from   == IF tier = "daily" THEN mat["hourly"] ELSE {r.slot : r \in BagToSet(rows)}
    IN  mat' = [mat EXCEPT ![tier] = @ \union {s \in from : Inside(s)}]

Refresh ==
    /\ task.pc = "refresh"
    /\ LET todo == NotRefreshed
       IN  IF todo = {}
           THEN task' = [task EXCEPT !.pc = "done"] /\ UNCHANGED mat
           ELSE Materialize(NextOf(todo)) /\ task' = [task EXCEPT !.pc = "mark"]
    /\ UNCHANGED <<history, catalog, record, rows, progress, slug, boot, held,
                   req, kills, faults>>

\* recordRefresh(), a statement of its own.
RecordRefresh ==
    /\ task.pc = "mark"
    /\ LET todo == NotRefreshed IN progress' = progress \union {Mark(NextOf(todo))}
    /\ task' = [task EXCEPT !.pc = "refresh"]
    /\ UNCHANGED <<history, catalog, record, rows, mat, slug, boot, held, req,
                   kills, faults>>

AdvanceBackfilled ==
    /\ task.pc = "done"
    /\ Advance(task.rec, "backfilled")
    /\ task' = NoTask
    /\ UNCHANGED <<history, catalog, rows, progress, mat, slug, boot, held, req,
                   kills, faults>>

\* Mutant: the flag survives a run that threw.
BackfillFailsBusy ==
    /\ task.pc # "idle" /\ faults < MaxFaults
    /\ faults' = faults + 1
    /\ task' = [task EXCEPT !.pc = "failed"]
    /\ UNCHANGED <<dbVars, boot, held, req, kills>>

\* A statement of the run throws: its transaction is rolled back, and the flag
\* is cleared.
BackfillFails ==
    /\ task.pc # "idle" /\ faults < MaxFaults
    /\ faults' = faults + 1
    /\ task' = NoTask
    /\ UNCHANGED <<dbVars, boot, held, req, kills>>

-----------------------------------------------------------------------------
(* Onboarding *)

\* slugFrozen()
SlugFrozen == ~NeedsOnboarding(record) \/ ~held

\* applyOnboarding() up to its first write: the record and the gate are read and
\* the plan is made.  A refusal changes nothing.
Submit(r) ==
    /\ boot = "up" /\ req[r].pc = "idle"
    /\ NeedsOnboarding(record)
    /\ \E s \in Slugs, later \in BOOLEAN :
         /\ s # slug => ~SlugFrozen
         /\ req' = [req EXCEPT ![r] =
                      [pc |-> "slug", rec |-> record,
                       slug |-> IF s = slug THEN None ELSE s, later |-> later]]
    /\ UNCHANGED <<dbVars, boot, held, task, kills, faults>>

\* Mutant: an unedited slug is written too.
WriteSlugsBlindly(r) ==
    /\ req[r].pc = "slug"
    /\ slug' = req[r].slug
    /\ req' = [req EXCEPT ![r].pc = "stamp"]
    /\ UNCHANGED <<history, catalog, record, rows, progress, mat, boot, held,
                   task, kills, faults>>

\* writeSlugs() and writeNames(): an unedited slug is no change.
WriteSlugs(r) ==
    /\ req[r].pc = "slug"
    /\ slug' = IF req[r].slug = None THEN slug ELSE req[r].slug
    /\ req' = [req EXCEPT ![r].pc = "stamp"]
    /\ UNCHANGED <<history, catalog, record, rows, progress, mat, boot, held,
                   task, kills, faults>>

\* stampRecord(): the record as it was read.
StampRecord(r) ==
    /\ req[r].pc = "stamp"
    /\ record' = [req[r].rec EXCEPT !.names = TRUE,
                    !.stage = IF req[r].later THEN "deferred" ELSE @]
    /\ req' = [req EXCEPT ![r].pc = "release"]
    /\ UNCHANGED <<history, catalog, rows, progress, mat, slug, boot, held,
                   task, kills, faults>>

\* releaseDiscovery(), and the backfill when it was asked for.
Release(r) ==
    /\ req[r].pc = "release"
    /\ held' = FALSE
    /\ req' = [req EXCEPT ![r] = NoReq]
    /\ task' = IF req[r].later \/ task.pc # "idle" THEN task ELSE [NoTask EXCEPT !.pc = "start"]
    /\ UNCHANGED <<dbVars, boot, kills, faults>>

-----------------------------------------------------------------------------
(* The end of the rehearsal, with no server running *)

\* verifyMigration(): the recorded source's legacy minutes and the device's new
\* ones, bucket for bucket; a comparison of nothing proves nothing.
Agree ==
    LET end == ReplayEnd(history)
        old == {s \in history.minute[record.source] : s < end}
        new == {s \in mat["minute"] : s < end}
    IN  old # {} /\ old = new

\* The verify phase, which follows a backfill phase that ended.
Verify ==
    /\ boot = "down" /\ Legacy
    /\ record.source # None /\ record.stage = "backfilled"
    /\ Agree
    /\ Advance(record, "verified")
    /\ UNCHANGED <<history, catalog, rows, progress, mat, slug, boot, held, task,
                   req, kills, faults>>

\* Mutant: the old relations go without a verified record.
MayDropAny(rec) == rec.stage \in InProgress

\* mayDropLegacy()
MayDropLegacy(rec) == rec.stage = "verified"

\* dropLegacyStatements(): the aggregates, then the hypertable, then the record.
DropNext ==
    /\ boot = "down" /\ MayDropLegacy(record)
    /\ IF catalog["raw"] = "gone"
       THEN Advance(record, "dropped") /\ UNCHANGED catalog
       ELSE catalog' = [catalog EXCEPT ![FirstUnder("legacy")] = "gone"] /\ UNCHANGED record
    /\ UNCHANGED <<history, rows, progress, mat, slug, boot, held, task, req,
                   kills, faults>>

-----------------------------------------------------------------------------
BootStep ==
    \/ BootStart \/ Detach \/ DetachFails \/ RenameNext \/ ReadLegacy \/ ReadFails
    \/ WriteRecord

TaskStep ==
    \/ ReadTask \/ Carry \/ AdvanceCarried \/ Replay \/ Refresh \/ RecordRefresh
    \/ AdvanceBackfilled

Next ==
    \/ BootStep \/ TaskStep
    \/ Kill \/ StartBackfill \/ BackfillFails
    \/ \E r \in Reqs : Submit(r) \/ WriteSlugs(r) \/ StampRecord(r) \/ Release(r)
    \/ Verify \/ DropNext

\* The supervisor starts what is down, a run goes on unless it is killed, and
\* somebody presses the button while the banner is there.
Fairness == WF_vars(BootStep) /\ WF_vars(TaskStep) /\ WF_vars(StartBackfill)

Spec == Init /\ [][Next]_vars /\ Fairness

-----------------------------------------------------------------------------
\* No row is written twice and no two rows of one source overlap, whatever was
\* killed, failed or run again.  Buckets and raw samples overlap at one bucket a
\* source at most, the one the raw window begins in; buckets of two sources
\* overlap where both have a bucket of that time.
ReplayedOnce ==
    \A r \in BagToSet(rows) :
      /\ rows[r] = 1
      /\ \A o \in BagToSet(rows) \ {r} : o.slot \in Covers(r) =>
           IF "raw" \in {r.src, o.src}
           THEN \E b \in {r, o} : b.src # "raw" /\ Min(history.raw) \in Covers(b)
           ELSE r.id # o.id

\* "a double count, which `./replay.ts` calls the one error a replay must never
\* make" (the comment on replayEnd, upgrade-120.ts:426): no two rows of history
\* stand for one instant.
NeverTwice ==
    \A r, o \in BagToSet(rows) : r # o => o.slot \notin Covers(r)

\* clipToTierAtEdge(): where the minutes begin on a source's first day, the hours
\* of that day before them are given up and reported as a gap.
GivenUp(h, id) == \E m \in h.minute[id] : \A d \in h.daily[id] : m < d + SlotsPerDay

\* What the legacy relations owe the new schema: every raw and minute slot, and
\* the hours and days only a coarser tier still has.
Spanned(starts, tier) == UNION {b..(b + Width(tier) - 1) : b \in starts}
OwedBy ==
    [h \in Histories |->
       LET HoursOnly(i) == {b \in h.hourly[i] :
                              ~GivenUp(h, i) /\ Spanned({b}, "hourly") \intersect h.minute[i] = {}}
           DaysOnly(i)  == {b \in h.daily[i] :
                              Spanned({b}, "daily") \intersect
                                (h.minute[i] \union h.hourly[i]) = {}}
           From(i)      == h.minute[i] \union Spanned(HoursOnly(i), "hourly")
                                       \union Spanned(DaysOnly(i), "daily")
       IN  h.raw \union (UNION {From(i) : i \in Ids})]
Owed == OwedBy[history]

\* When the record stops withholding history, all of it is there and every tier
\* shows it, unless all of it is of one instant, which refreshWindows() has no
\* window for; when it says the raw window was carried, that is there.
LiftedIsComplete ==
    LET Shown(t, r) == (\E o \in BagToSet(rows) : o.slot # r.slot) => r.slot \in mat[t]
    IN  /\ record.stage \in Lifted /\ record.source # None =>
             /\ Owed \subseteq Covered(rows)
             /\ \A t \in NewTiers, r \in BagToSet(rows) : Shown(t, r)
        /\ record.stage = "carried" => history.raw \subseteq Covered(rows)

\* At every instant each slot of history is in its legacy relation or in the
\* new table.
HistoryKept ==
    LET In(t)  == IF catalog[t] = "gone" THEN {}
                  ELSE UNION {Spanned(history[t][i], t) : i \in Ids}
        raw    == IF catalog["raw"] = "gone" THEN {} ELSE history.raw
        legacy == raw \union (UNION {In(t) : t \in NewTiers})
    IN  Owed \subseteq Covered(rows) \union legacy

\* While the old relations are there, an upgrade with history to migrate gets
\* there, through kills, failed runs and submits in between.
GetsThere ==
    Outstanding /\ record.source # None ~> record.stage \in Lifted \/ ~Legacy
=============================================================================
